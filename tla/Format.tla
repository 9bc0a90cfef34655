------------------------------- MODULE Format -------------------------------
(***************************************************************************)
(* src/elite_format.c, el_geometry: where the arrays of a segment lie, for *)
(* a configuration that may hold anything.  Every sum and product is made  *)
(* in words of WordBits bits and checked before it is made.                *)
(*                                                                         *)
(* Quantum, ParticipantSize and CellSize stand for 16384, 256 and 128, and *)
(* keep their order and their being powers of two; MaxCapacity for 2^31.   *)
(* Checksums, strides other than that of the payloads, and the ceilings    *)
(* are left out.                                                           *)
(***************************************************************************)
EXTENDS Integers, Sequences

CONSTANTS WordBits, Quantum, ParticipantSize, CellSize, MaxCapacity,
          Capacities, Endpoints, Payloads, Backings   \* values of the configuration

VARIABLES
  config,
  todo,      \* arrays still to be laid out
  place,     \* array -> offset
  end,       \* first byte not used yet
  verdict

vars == <<config, todo, place, end, verdict>>

Top       == 2 ^ WordBits - 1
MaxOffset == 2 ^ (WordBits - 1) - 1     \* PTRDIFF_MAX, INT64_MAX
Overflow  == -1

\* Mutant: the sum is not checked.
Add_Wraps(a, b) == IF Overflow \in {a, b} THEN Overflow ELSE (a + b) % (Top + 1)
Add(a, b) == IF Overflow \in {a, b} \/ a > Top - b THEN Overflow ELSE a + b
Mul(a, b) == IF Overflow \in {a, b} \/ (b # 0 /\ a > Top \div b) THEN Overflow ELSE a * b
RoundUp(a, q) == LET r == Add(a, q - 1) IN IF r = Overflow THEN Overflow ELSE r - (r % q)

Endpoint_count == config.producers + config.consumers
PayloadStride  == RoundUp(config.payload, CellSize)
Size(array) == CASE array = "participants" -> Mul(Endpoint_count, ParticipantSize)
                 [] array = "payloads"     -> Mul(config.capacity, PayloadStride)
                 [] OTHER                  -> Mul(config.capacity, CellSize)

Arrays == <<"participants">>
          \o (IF config.layout = "ncq" THEN <<"qf", "qr">> ELSE <<>>)
          \o <<"descriptors", "payloads">>

Init ==
  /\ config \in [capacity : Capacities, producers : Endpoints, consumers : Endpoints,
                 payload : Payloads, backing : Backings,
                 layout : {"spsc", "ncq"}, wait : {"poll", "park"}]
  /\ todo = <<>> /\ place = <<>> /\ end = 0 /\ verdict = "none"

Legal ==
  /\ \E e \in 1 .. WordBits : config.capacity = 2 ^ e
  /\ config.capacity <= MaxCapacity
  /\ config.producers > 0 /\ config.consumers > 0 /\ Endpoint_count <= config.capacity
  /\ config.payload > 0
  /\ config.layout = "spsc" => config.producers = 1 /\ config.consumers = 1
  /\ config.layout = "ncq" => config.wait = "poll"

Admit ==
  /\ verdict = "none"
  /\ IF Legal THEN verdict' = "laying" /\ todo' = Arrays /\ end' = Quantum
              ELSE verdict' = "refused" /\ UNCHANGED <<todo, end>>
  /\ UNCHANGED <<config, place>>

\* Each array begins where the one before it, rounded up, ends.
Lay ==
  LET next == RoundUp(Add(end, Size(Head(todo))), Quantum) IN
  /\ verdict = "laying" /\ todo # <<>>
  /\ IF Overflow \in {PayloadStride, next}
       THEN verdict' = "refused" /\ UNCHANGED <<todo, place, end>>
       ELSE /\ place' = Append(place, [array |-> Head(todo), at |-> end])
            /\ end' = next /\ todo' = Tail(todo) /\ UNCHANGED verdict
  /\ UNCHANGED config

Finish ==
  /\ verdict = "laying" /\ todo = <<>>
  /\ verdict' = IF end > config.backing \/ end > MaxOffset THEN "refused" ELSE "fits"
  /\ UNCHANGED <<config, todo, place, end>>

Next == Admit \/ Lay \/ Finish

Spec == Init /\ [][Next]_vars
-----------------------------------------------------------------------------
\* The same in unbounded numbers.
Up(x, q) == ((x + q - 1) \div q) * q
Bytes(array) == CASE array = "participants" -> Endpoint_count * ParticipantSize
                  [] array = "payloads"     -> config.capacity * Up(config.payload, CellSize)
                  [] OTHER                  -> config.capacity * CellSize
SegmentBytes == LET Queues == IF config.layout = "ncq" THEN 2 ELSE 0 IN
  Quantum + Up(Bytes("participants"), Quantum)
          + (Queues + 1) * Up(Bytes("descriptors"), Quantum) + Up(Bytes("payloads"), Quantum)

\* A segment is refused exactly when its configuration is illegal or when it is
\* larger, in unbounded numbers, than the object or an offset may be; otherwise
\* header, participants, queues, descriptors and payloads lie one after the other,
\* aligned, without overlap and within the object, and every payload slot holds
\* a payload of maximal size (el_geometry).
GeometryExact ==
  /\ verdict = "refused" =>
       ~Legal \/ SegmentBytes > config.backing \/ SegmentBytes > MaxOffset
  /\ verdict = "fits" =>
       /\ Legal /\ end = SegmentBytes /\ end <= config.backing /\ end <= MaxOffset
       /\ PayloadStride >= config.payload
       /\ \A i \in DOMAIN place :
            /\ place[i].at % Quantum = 0 /\ place[i].at >= Quantum
            /\ place[i].at + Bytes(place[i].array)
                 <= (IF i = Len(place) THEN end ELSE place[i + 1].at)
=============================================================================

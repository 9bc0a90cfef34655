----------------------------- MODULE Membership -----------------------------
(***************************************************************************)
(* Two replays of what the consumers of a benchmark wrote down: one bit of *)
(* a bitmap per message received, and in the matrix a trace of them.       *)
(*   stream  tools/verify_results.py, verify_membership: all bitmaps at    *)
(*           once, a chunk of bytes at a time, against the saved union     *)
(*   trace   tools/verify_matrix_results.py, verify_record: a bitmap and a *)
(*           trace per consumer, then the union                            *)
(* The files hold anything; a byte has ByteBits bits and sizes are right   *)
(* (the first check of both).  Ticks and latencies are left out.           *)
(***************************************************************************)
EXTENDS Integers, FiniteSets, FiniteSetsExt

CONSTANTS Consumers,    \* number of consumers
          MaxCount,     \* messages at most
          ByteBits, ChunkBytes

VARIABLES
  form, count,
  at,        \* byte the stream is at; consumer the trace is at
  bitmap,    \* consumer -> bits read
  seen,      \* consumer -> messages of its trace read so far
  union,     \* bits read of the saved union
  verdict

vars == <<form, count, at, bitmap, seen, union, verdict>>

Ids == 1 .. Consumers
TotalBytes == (count + ByteBits - 1) \div ByteBits
Bits(first, bytes) == first * ByteBits .. (first + bytes) * ByteBits - 1
AllBits == Bits(0, TotalBytes)

Init ==
  /\ form \in {"stream", "trace"} /\ count \in 1 .. MaxCount
  /\ at = (IF form = "stream" THEN 0 ELSE 1)
  /\ bitmap = [c \in Ids |-> {}] /\ seen = [c \in Ids |-> {}] /\ union = {}
  /\ verdict = "open"

Judge(ok, then) == verdict' = IF ok THEN then ELSE "rejected"
Disjoint(part) == \A c, d \in Ids : c # d => part[c] \cap part[d] = {}

\* The last chunk may be short, and its last byte may have unused bits.
Chunk ==
  LET left   == TotalBytes - at
      length == IF left < ChunkBytes THEN left ELSE ChunkBytes
      spare  == IF left = length /\ count % ByteBits # 0 THEN ByteBits - (count % ByteBits) ELSE 0
      wanted == at * ByteBits .. (at + length) * ByteBits - spare - 1
  IN
  /\ form = "stream" /\ verdict = "open" /\ at < TotalBytes
  /\ \E part \in [Ids -> SUBSET Bits(at, length)], saved \in SUBSET Bits(at, length) :
       /\ bitmap' = [c \in Ids |-> bitmap[c] \cup part[c]] /\ union' = union \cup saved
       /\ Judge(Disjoint(part) /\ UNION {part[c] : c \in Ids} = wanted /\ saved = wanted, "open")
  /\ at' = at + length
  /\ UNCHANGED <<form, count, seen>>

\* The counts the consumers reported, and whether the producers' are their quotas.
Populations ==
  /\ form = "stream" /\ verdict = "open" /\ at = TotalBytes
  /\ \E told \in [Ids -> 0 .. count], quotas \in BOOLEAN :
       LET Told(c) == told[c]
           fits == /\ \A c \in Ids : Told(c) = Cardinality(bitmap[c])
                   /\ MapThenSumSet(Told, Ids) = count /\ quotas
       IN verdict' = IF fits THEN "accepted" ELSE "miscounted"
  /\ UNCHANGED <<form, count, at, bitmap, seen, union>>

Bitmap ==
  /\ form = "trace" /\ verdict = "open" /\ at \in Ids /\ bitmap[at] = {}
  /\ \E bits \in SUBSET AllBits, told \in 0 .. count :
       /\ bitmap' = [bitmap EXCEPT ![at] = bits]
       /\ Judge(Cardinality(bits) = told /\ \A c \in 1 .. at - 1 : bits \cap bitmap[c] = {}, "open")
       /\ at' = IF bits = {} THEN at + 1 ELSE at
  /\ UNCHANGED <<form, count, seen, union>>

\* One record of the trace; there are as many as bits in the bitmap.
Triple ==
  /\ form = "trace" /\ verdict = "open" /\ at \in Ids /\ bitmap[at] # {}
  /\ \E ident \in AllBits \cup {count} :
       /\ seen' = [seen EXCEPT ![at] = @ \cup {ident}]
       /\ Judge(ident < count /\ ident \in bitmap[at] /\ ident \notin seen[at], "open")
  /\ at' = IF seen'[at] = bitmap[at] THEN at + 1 ELSE at
  /\ UNCHANGED <<form, count, bitmap, union>>

Join ==
  /\ form = "trace" /\ verdict = "open" /\ at > Consumers
  /\ \E saved \in SUBSET AllBits :
       /\ union' = saved
       /\ Judge(saved = 0 .. count - 1 /\ UNION {bitmap[c] : c \in Ids} = 0 .. count - 1, "accepted")
  /\ UNCHANGED <<form, count, at, bitmap, seen>>

Next == Chunk \/ Populations \/ Bitmap \/ Triple \/ Join

Spec == Init /\ [][Next]_vars
-----------------------------------------------------------------------------
\* Every message at one consumer, and no bit that is no message.
Exact == Disjoint(bitmap) /\ UNION {bitmap[c] : c \in Ids} = 0 .. count - 1
\* Exact as far as the chunks read go.
Read == 0 .. count - 1 \cap 0 .. at * ByteBits - 1
ExactSoFar == Disjoint(bitmap) /\ UNION {bitmap[c] : c \in Ids} = Read /\ union = Read

\* Both replays accept exactly what they should: every message was received
\* once, by one consumer, as its trace says, and the saved union is the union;
\* and the stream rejects bits only if they cannot be those of such a run,
\* whatever the size of its last chunk and byte (verify_membership,
\* verify_record).
MembershipExact ==
  /\ verdict = "accepted" => Exact /\ union = 0 .. count - 1 /\ (form = "trace" => seen = bitmap)
  /\ form = "stream" /\ verdict = "rejected" => ~ExactSoFar
=============================================================================

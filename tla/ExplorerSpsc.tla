----------------------------- MODULE ExplorerSpsc ----------------------------
(***************************************************************************)
(* formal/models/spsc.py: the finite transition system that stands for     *)
(* src/elite_spsc.c in the repository's formal campaign.  A load of the    *)
(* other side's cursor may return any value between the last one seen and  *)
(* the current one.  Wrong(side) is the verdict yielded in place of a      *)
(* successor.                                                              *)
(***************************************************************************)
EXTENDS Integers, TLC

CONSTANTS SlotCount, Reservations, MayAbort

Slots == 0 .. SlotCount - 1
Free      == 0
Written   == 1
Published == 2
Borrowed  == 3

VARIABLES published, reclaimed,   \* the two cursors
          writer, reader,         \* pc, snapshot of the other cursor, locals
          slot                    \* epoch, words, committed value, owner

vars == <<published, reclaimed, writer, reader, slot>>

Init ==
  /\ published = 0 /\ reclaimed = 0
  /\ writer = [pc |-> "check", seen |-> 0, left |-> Reservations, done |-> FALSE]
  /\ reader = [pc |-> "check", seen |-> 0, read |-> 0]
  /\ slot = [b \in Slots |-> [epoch |-> 0, word0 |-> 0, word1 |-> 0,
                              committed |-> 0, owner |-> Free]]

W == published % SlotCount      \* the slot the producer works on
R == reclaimed % SlotCount      \* the slot the consumer works on
Terminal == writer.done /\ reader.pc = "done"

\* Model.invariant.
Invariant ==
  /\ published - reclaimed \in 0 .. SlotCount
  /\ writer.seen \in 0 .. reclaimed /\ reader.seen \in 0 .. published
  /\ \A t \in reclaimed .. published - 1 :
       LET s == slot[t % SlotCount] IN
       /\ s.owner \in {Published, Borrowed}
       /\ s.word0 = s.committed /\ s.word1 = s.committed

Wrong(side) ==
  \/ side = "P" /\ writer.pc = "reserve" /\ slot[W].owner # Free       \* OVERWRITE_LIVE_LEASE
  \/ side = "C" /\ reader.pc = "borrow" /\ slot[R].owner # Published   \* READ_UNCOMMITTED
  \/ side = "C" /\ reader.pc = "word1" /\ slot[R].word1 # reader.read  \* TORN_PAYLOAD

WriterAt(pc) == writer.pc = pc /\ ~writer.done
WriterGoes(changes) == writer' = changes @@ writer /\ UNCHANGED <<reader, reclaimed>>
Full == published - writer.seen >= SlotCount

FinishBudget ==
  /\ WriterAt("check") /\ writer.left = 0
  /\ WriterGoes([done |-> TRUE]) /\ UNCHANGED <<published, slot>>

CheckSpace ==
  /\ WriterAt("check") /\ writer.left > 0
  /\ IF Full THEN \E c \in writer.seen .. reclaimed :
                    WriterGoes([pc |-> "recheck", seen |-> c])
             ELSE WriterGoes([pc |-> "reserve"])
  /\ UNCHANGED <<published, slot>>

RecheckSpace ==
  /\ WriterAt("recheck")
  /\ WriterGoes([pc |-> IF Full THEN "check" ELSE "reserve"])
  /\ UNCHANGED <<published, slot>>

ReserveSlot ==
  /\ WriterAt("reserve")
  /\ slot' = [slot EXCEPT ![W].owner = Written, ![W].epoch = @ + 1]
  /\ WriterGoes([pc |-> "write0", left |-> writer.left - 1])
  /\ UNCHANGED published

AbortSlot ==
  /\ MayAbort /\ ~writer.done /\ writer.pc \in {"write0", "write1", "publish"}
  /\ slot' = [slot EXCEPT ![W].owner = Free]
  /\ WriterGoes([pc |-> "check"])
  /\ UNCHANGED published

MessageValue == Reservations - writer.left
WriteSlot ==
  /\ \/ /\ WriterAt("write0") /\ WriterGoes([pc |-> "write1"])
        /\ slot' = [slot EXCEPT ![W].word0 = MessageValue]
     \/ /\ WriterAt("write1") /\ WriterGoes([pc |-> "publish"])
        /\ slot' = [slot EXCEPT ![W].word1 = MessageValue]
  /\ UNCHANGED published

Publish ==
  /\ WriterAt("publish")
  /\ published' = published + 1
  /\ slot' = [slot EXCEPT ![W].committed = MessageValue, ![W].owner = Published]
  /\ WriterGoes([pc |-> "local"])

FinishWrite ==
  /\ WriterAt("local")
  /\ WriterGoes([pc |-> "check"]) /\ UNCHANGED <<published, slot>>

ReaderAt(pc) == reader.pc = pc
ReaderGoes(changes) == reader' = changes @@ reader /\ UNCHANGED <<writer, published>>
Uncovered == reader.seen <= reclaimed

CheckData ==
  /\ ReaderAt("check")
  /\ IF Uncovered THEN \E p \in reader.seen .. published :
                         ReaderGoes([pc |-> "recheck", seen |-> p])
                  ELSE ReaderGoes([pc |-> "borrow"])
  /\ UNCHANGED <<reclaimed, slot>>

RecheckData ==
  /\ ReaderAt("recheck")
  /\ ReaderGoes([pc |-> IF ~Uncovered THEN "borrow"
                        ELSE IF writer.done /\ reclaimed = published THEN "done"
                        ELSE "check"])
  /\ UNCHANGED <<reclaimed, slot>>

BorrowSlot ==
  /\ ReaderAt("borrow")
  /\ slot' = [slot EXCEPT ![R].owner = Borrowed]
  /\ ReaderGoes([pc |-> "word0"]) /\ UNCHANGED reclaimed

ReadSlot ==
  /\ \/ ReaderAt("word0") /\ ReaderGoes([pc |-> "word1", read |-> slot[R].word0])
     \/ ReaderAt("word1") /\ ReaderGoes([pc |-> "reclaim"])
  /\ UNCHANGED <<reclaimed, slot>>

Reclaim ==
  /\ ReaderAt("reclaim")
  /\ reclaimed' = reclaimed + 1
  /\ slot' = [slot EXCEPT ![R].owner = Free]
  /\ ReaderGoes([pc |-> "local", read |-> 0])

FinishRead ==
  /\ ReaderAt("local")
  /\ ReaderGoes([pc |-> "check"]) /\ UNCHANGED <<reclaimed, slot>>

ProducerStep == ~Wrong("P") /\
  (FinishBudget \/ CheckSpace \/ RecheckSpace \/ ReserveSlot \/ AbortSlot
     \/ WriteSlot \/ Publish \/ FinishWrite)
ConsumerStep == ~Wrong("C") /\
  (CheckData \/ RecheckData \/ BorrowSlot \/ ReadSlot \/ Reclaim \/ FinishRead)

Next == ProducerStep \/ ConsumerStep
Spec == Init /\ [][Next]_vars
=============================================================================

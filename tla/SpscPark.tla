------------------------------ MODULE SpscPark ------------------------------
(***************************************************************************)
(* Parking on the SPSC layout (src/src/elite_wait.c): elite_wait_data and  *)
(* elite_wait_space sleep on a futex word; every publication, reclamation  *)
(* and retirement ends by exchanging the word for 0 and, if it was 1, by   *)
(* waking the sleeper.                                                     *)
(*                                                                         *)
(* The notifier stores the cursor and then exchanges the word; the waiter  *)
(* exchanges the word and then loads the cursor.  The load may be stale,   *)
(* so what keeps a wake-up from being lost is that both exchange the same  *)
(* word: the waiter's exchange acquires what the last notifier to exchange *)
(* it had released (carried), also when the value it replaces is the same. *)
(*                                                                         *)
(* Cursors out of range and wait words other than 0 and 1 cannot occur     *)
(* (TypeOK, WakeupsExact), so el_wait's el_fail branches have no action.     *)
(***************************************************************************)
EXTENDS Spsc

VARIABLES
  word,      \* data_wait and space_wait
  carried,   \* what the last notification of each word released
  asleep,    \* endpoints blocked in the kernel
  expired    \* waiting endpoints whose deadline has passed

parking  == <<word, carried, asleep, expired>>
base     == <<cursors, desc, token, flags, history>>
parkVars == <<vars, parking>>

Words     == {"data", "space"}
Waiter(w) == IF w = "data" THEN Consumer ELSE Producer
Word(e)   == IF e = Consumer THEN "data" ELSE "space"
Peer(e)   == IF e = Consumer THEN published ELSE reclaimed

ASSUME ParkAssumption == Parkable

ParkInit ==
  /\ Init
  /\ word = [w \in Words |-> 0]
  /\ carried = [w \in Words |-> [peer |-> 0, retired |-> FALSE]]
  /\ asleep = {} /\ expired = {}
-----------------------------------------------------------------------------
(* el_notify: the exchange of the word, and the wake it may call for.      *)

NextWord(p) ==
  LET rest == Tail(call[p].notify)
  IN  call' = [call EXCEPT ![p] =
                 IF rest = <<>> THEN NoCall ELSE [pc |-> "notify", notify |-> rest]]

\* Mutant: a word that is 0 already is not exchanged.
Notify_SkipsSameValue(p) ==
  /\ At(p, "notify")
  /\ LET w == Head(call[p].notify) IN
       /\ word' = [word EXCEPT ![w] = 0]
       /\ carried' = IF word[w] = 0 THEN carried ELSE
            [carried EXCEPT ![w] =
               [peer    |-> IF p # Waiter(w) /\ p # Authority THEN Peer(Waiter(w)) ELSE @.peer,
                retired |-> @.retired \/ p \in aware]]
       /\ IF word[w] = 1 THEN Goto(p, "wake") ELSE NextWord(p)
  /\ UNCHANGED <<base, control, loads, asleep, expired>>

Notify(p) ==
  /\ At(p, "notify")
  /\ LET w == Head(call[p].notify) IN
       /\ word' = [word EXCEPT ![w] = 0]
       /\ carried' = [carried EXCEPT ![w] =
            [peer    |-> IF p # Waiter(w) /\ p # Authority THEN Peer(Waiter(w)) ELSE @.peer,
             retired |-> @.retired \/ p \in aware]]
       /\ IF word[w] = 1 THEN Goto(p, "wake") ELSE NextWord(p)
  /\ UNCHANGED <<base, control, loads, asleep, expired>>

Wake(p) ==
  /\ At(p, "wake")
  /\ asleep' = asleep \ {Waiter(Head(call[p].notify))}
  /\ NextWord(p)
  /\ UNCHANGED <<base, control, loads, word, carried, expired>>
-----------------------------------------------------------------------------
(* el_wait.                                                                *)

Available(e, peer) == IF e = Consumer THEN peer > cursor[e] ELSE ~Full(peer)

\* predicate: the gate, then the peer's cursor, which also renews the cache.
\* The call goes on to done if there is something to return, to more if not.
Predicate(e, more, done) ==
  \/ /\ e \in poisoned \/ gate # "READY"
     /\ aware' = IF e \in poisoned THEN aware ELSE aware \cup {e}
     /\ Goto(e, done)
     /\ UNCHANGED loads
  \/ /\ e \notin poisoned /\ (gate = "READY" \/ e \notin aware)
     /\ \E peer \in view[e] .. Peer(e) :
          /\ cached' = [cached EXCEPT ![e] = peer]
          /\ view' = [view EXCEPT ![e] = peer]
          /\ Goto(e, IF Available(e, peer) THEN done ELSE more)
     /\ UNCHANGED aware

\* elite_wait_data, elite_wait_space: the first look, before any deadline;
\* with a zero timeout it is the only one.
Wait(e) ==
  /\ At(e, "idle") /\ token[e].owned = "none"
  /\ \E more \in {"arm", "idle"} : Predicate(e, more, "idle")
  /\ expired' = expired \ {e}
  /\ UNCHANGED <<base, gate, failure, word, carried, asleep>>

\* An exchange of the word acquires what the last notifier released.
Acquire(e) ==
  LET c == carried[Word(e)]
  IN  /\ view' = [view EXCEPT ![e] = IF c.peer > @ THEN c.peer ELSE @]
      /\ aware' = IF c.retired THEN aware \cup {e} ELSE aware
      /\ UNCHANGED <<gate, failure, cached>>

Arm(e) ==
  /\ At(e, "arm") /\ e \notin expired
  /\ word' = [word EXCEPT ![Word(e)] = 1]
  /\ Acquire(e)
  /\ Goto(e, "recheck")
  /\ UNCHANGED <<base, carried, asleep, expired>>

Recheck(e) ==
  /\ At(e, "recheck")
  /\ Predicate(e, IF e \in expired THEN "disarm_last" ELSE "sleep", "disarm")
  /\ UNCHANGED <<base, gate, failure, parking>>

\* FUTEX_WAIT sleeps only while the word is still 1.
Sleep(e) ==
  /\ At(e, "sleep")
  /\ IF word[Word(e)] = 1
     THEN asleep' = asleep \cup {e} /\ Goto(e, "asleep")
     ELSE Goto(e, "disarm_again") /\ UNCHANGED asleep
  /\ UNCHANGED <<base, control, loads, word, carried, expired>>

Awake(e) ==
  /\ At(e, "asleep") /\ e \notin asleep
  /\ Goto(e, "disarm_again")
  /\ UNCHANGED <<base, control, loads, parking>>

\* Mutant: the kernel wait has no time slice.
Timeout_Never(e) ==
  /\ At(e, "asleep") /\ e \in asleep /\ word[Word(e)] = 0
  /\ asleep' = asleep \ {e}
  /\ Goto(e, "disarm_again")
  /\ UNCHANGED <<base, control, loads, word, carried, expired>>

\* The end of a slice of at most 10 ms, or a signal.
Timeout(e) ==
  /\ At(e, "asleep") /\ e \in asleep
  /\ asleep' = asleep \ {e}
  /\ Goto(e, "disarm_again")
  /\ UNCHANGED <<base, control, loads, word, carried, expired>>

Disarm(e) ==
  /\ \/ At(e, "disarm") /\ Goto(e, "idle")
     \/ At(e, "disarm_again") /\ Goto(e, "again")
     \/ At(e, "disarm_last") /\ Goto(e, "last")
  /\ word' = [word EXCEPT ![Word(e)] = 0]
  /\ Acquire(e)
  /\ UNCHANGED <<base, carried, asleep, expired>>

Again(e) ==
  /\ At(e, "again")
  /\ Predicate(e, "arm", "idle")
  /\ UNCHANGED <<base, gate, failure, parking>>

\* The deadline has passed: whatever the last look says is returned.
LastLook(e) ==
  /\ At(e, "last") \/ (At(e, "arm") /\ e \in expired)
  /\ Predicate(e, "idle", "idle")
  /\ UNCHANGED <<base, gate, failure, parking>>

WaitLabels == {"arm", "recheck", "sleep", "asleep", "disarm", "disarm_again",
               "disarm_last", "again", "last"}

\* The monotonic clock reaches the deadline of a waiting call.
Expire(e) ==
  /\ call[e].pc \in WaitLabels /\ e \notin expired
  /\ expired' = expired \cup {e}
  /\ UNCHANGED <<vars, word, carried, asleep>>
-----------------------------------------------------------------------------
NotifyStep(p) == Notify(p) \/ Wake(p)
WaitStep(e) == Arm(e) \/ Recheck(e) \/ Sleep(e) \/ Awake(e) \/ Timeout(e)
                 \/ Disarm(e) \/ Again(e) \/ LastLook(e)

ParkNext ==
  \/ Next /\ UNCHANGED parking
  \/ \E p \in Procs : NotifyStep(p)
  \/ \E e \in Endpoints : Wait(e) \/ WaitStep(e) \/ Expire(e)

ParkSpec == ParkInit /\ [][ParkNext]_parkVars

\* A live waiter is scheduled, the clock advances and a slice of sleep ends.
FairParkSpec ==
  ParkSpec /\ \A e \in Endpoints : WF_parkVars(WaitStep(e)) /\ WF_parkVars(Expire(e))
-----------------------------------------------------------------------------
ArmedLabels == {"recheck", "sleep", "asleep", "disarm", "disarm_again", "disarm_last"}

\* Wake-ups are neither lost nor spurious.  Whenever an endpoint sleeps although
\* its peer has moved or the generation has retired, somebody is still to notify
\* its word or to wake it (or died before doing so); and on every way out of the
\* wait the word was taken back, so that no later notification makes a system call
\* for a process that does not wait (el_wait, el_notify).
Due(e) == Available(e, Peer(e)) \/ gate # "READY"
WillWake(p, e) == /\ call[p].pc \in {"notify", "wake"}
                  /\ \E i \in DOMAIN call[p].notify : call[p].notify[i] = Word(e)
WakeupsExact ==
  /\ \A e \in asleep : Due(e) => \E p \in Procs : WillWake(p, e)
  /\ \A w \in Words : word[w] = 1 => call[Waiter(w)].pc \in ArmedLabels

\* A wait returns after its deadline, also when the peer is dead.
WaitReturns ==
  \A e \in Endpoints :
    call[e].pc \in WaitLabels ~> call[e].pc \notin WaitLabels \/ e \in crashed
=============================================================================

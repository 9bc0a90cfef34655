------------------------------ MODULE Channel ------------------------------
(***************************************************************************)
(* What one generation of a ring promises to its endpoints, whichever      *)
(* layout implements it (NCQ: elite_mpmc_ncq.c, SPSC: elite_spsc.c).       *)
(*                                                                         *)
(* A block is free, or the token of exactly one endpoint, or published in  *)
(* the ready sequence, or retained for ever by a generation that retired.  *)
(* Published blocks are borrowed in publication order, and only the        *)
(* endpoint that owns a block for writing can change its message.          *)
(***************************************************************************)
EXTENDS Integers, Sequences

CONSTANTS Producers, Consumers, Blocks,
          Messages                        \* contents a block may have

Endpoints == Producers \cup Consumers
NoToken   == [kind |-> "none", block |-> 0]
Token(k, b) == [kind |-> k, block |-> b]

VARIABLES free,       \* blocks available to a reservation
          ready,      \* published blocks, oldest first
          token,      \* what each endpoint owns
          retained,   \* blocks abandoned in the retired generation
          message     \* contents of each block

vars == <<free, ready, token, retained, message>>

Init == /\ free = Blocks
        /\ ready = <<>>
        /\ token = [e \in Endpoints |-> NoToken]
        /\ retained = {}
        /\ message \in [Blocks -> Messages]

Take(e, k, b) == /\ token[e] = NoToken
                 /\ token' = [token EXCEPT ![e] = Token(k, b)]

Drop(e, k, b) == /\ token[e] = Token(k, b)
                 /\ token' = [token EXCEPT ![e] = NoToken]

Reserve(e, b) == /\ b \in free
                 /\ Take(e, "write", b)
                 /\ free' = free \ {b}
                 /\ UNCHANGED <<ready, retained, message>>

Write(e, b) == /\ token[e] = Token("write", b)
               /\ message' \in [Blocks -> Messages]
               /\ \A c \in Blocks \ {b} : message'[c] = message[c]
               /\ UNCHANGED <<free, ready, token, retained>>

Publish(e, b) == /\ Drop(e, "write", b)
                 /\ ready' = Append(ready, b)
                 /\ UNCHANGED <<free, retained, message>>

Borrow(e) == /\ ready # <<>>
             /\ Take(e, "read", Head(ready))
             /\ ready' = Tail(ready)
             /\ UNCHANGED <<free, retained, message>>

Return(e, k, b) == /\ Drop(e, k, b)
                   /\ free' = free \cup {b}
                   /\ UNCHANGED <<ready, retained, message>>

Abandon(e, k, b) == /\ Drop(e, k, b)
                    /\ retained' = retained \cup {b}
                    /\ UNCHANGED <<free, ready, message>>

Next == \/ \E p \in Producers, b \in Blocks :
             Reserve(p, b) \/ Write(p, b) \/ Publish(p, b)
        \/ \E c \in Consumers : Borrow(c)
        \/ \E e \in Endpoints, k \in {"write", "read"}, b \in Blocks :
             Return(e, k, b) \/ Abandon(e, k, b)

Spec == Init /\ [][Next]_vars
=============================================================================

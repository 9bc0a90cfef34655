------------------------------- MODULE Deposit -------------------------------
(***************************************************************************)
(* tools/deposit_turn12.py: publishers copy the files of a bundle, checked *)
(* against its manifest and the expected digest, into a shared folder that *)
(* a sync client may replicate at any moment.  Publishers work at the same *)
(* time, may hold different bundles and may be killed and run again.       *)
(*                                                                         *)
(* A content is named by the bundle it comes from; a file being written is *)
(* Partial until its last byte and fsync.                                  *)
(***************************************************************************)
EXTENDS Integers, FiniteSets

CONSTANTS Publishers,
          Bundles,     \* archives a publisher may hold
          NameCount,   \* files to deposit: archive, report, their digests
          MaxKills

VARIABLES
  pub,      \* publisher -> pc, bundle, next file
  folder,   \* name -> content
  temp,     \* publisher -> content of its last temporary file
  kills

vars == <<pub, folder, temp, kills>>

Names   == 1 .. NameCount
Absent  == "absent"
Partial == "partial"

Init ==
  /\ pub \in [Publishers -> [pc : {"look"}, bundle : Bundles, n : {1}]]
  /\ folder = [n \in Names |-> Absent] /\ temp = [p \in Publishers |-> Absent]
  /\ kills = 0

At(p, pc) == pub[p].pc = pc
To(p, pc) == pub' = [pub EXCEPT ![p].pc = pc]
Name(p)   == pub[p].n
Onward(p) == IF Name(p) = NameCount THEN To(p, "verified")
             ELSE pub' = [pub EXCEPT ![p].pc = "look", ![p].n = @ + 1]

\* copy_checked: an identical file is left alone, another one is a conflict.
Look(p) ==
  /\ At(p, "look")
  /\ IF folder[Name(p)] = Absent THEN To(p, "create")
     ELSE IF folder[Name(p)] = pub[p].bundle THEN Onward(p)
     ELSE To(p, "failed")
  /\ UNCHANGED <<folder, temp, kills>>

Create(p) ==
  /\ At(p, "create") /\ temp' = [temp EXCEPT ![p] = Partial] /\ To(p, "write")
  /\ UNCHANGED <<folder, kills>>

\* A write that fails ends the copy; otherwise the digests are compared.
WriteTemp(p) ==
  /\ At(p, "write")
  /\ \/ temp' = [temp EXCEPT ![p] = pub[p].bundle] /\ To(p, "link")
     \/ temp' = [temp EXCEPT ![p] = Absent] /\ To(p, "failed")
  /\ UNCHANGED <<folder, kills>>

\* os.link refuses a name that somebody made since the look.
Link(p) ==
  /\ At(p, "link")
  /\ IF folder[Name(p)] = Absent
       THEN folder' = [folder EXCEPT ![Name(p)] = temp[p]] /\ To(p, "unlink")
       ELSE UNCHANGED folder /\ To(p, "collided")
  /\ UNCHANGED <<temp, kills>>

Unlink(p) ==
  /\ pub[p].pc \in {"unlink", "collided"} /\ temp' = [temp EXCEPT ![p] = Absent]
  /\ IF At(p, "unlink") THEN Onward(p) ELSE To(p, "failed")
  /\ UNCHANGED <<folder, kills>>

\* The temporary file stays, and the next run makes another one.
Kill(p) ==
  /\ ~At(p, "killed") /\ kills < MaxKills /\ kills' = kills + 1
  /\ To(p, "killed") /\ UNCHANGED <<folder, temp>>

\* Run again, perhaps with another bundle.
Again(p) ==
  /\ pub[p].pc \in {"killed", "failed"}
  /\ \E b \in Bundles : pub' = [pub EXCEPT ![p] = [pc |-> "look", bundle |-> b, n |-> 1]]
  /\ UNCHANGED <<folder, temp, kills>>

Next == \E p \in Publishers : \/ Look(p) \/ Create(p) \/ WriteTemp(p) \/ Link(p)
                              \/ Unlink(p) \/ Kill(p) \/ Again(p)

Spec == Init /\ [][Next]_vars
-----------------------------------------------------------------------------
\* What a publisher has reported as LOCAL_VERIFIED stays so: every file it named
\* is there, whole, and its own, whoever published before, since or meanwhile;
\* and no file of the folder is ever seen half written (copy_checked, main).
DepositStands ==
  /\ \A p \in Publishers : At(p, "verified") => \A n \in Names : folder[n] = pub[p].bundle
  /\ \A n \in Names : folder[n] # Partial
=============================================================================

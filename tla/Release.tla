------------------------------- MODULE Release -------------------------------
(***************************************************************************)
(* How a source tree becomes an archive with a trust capsule:              *)
(*   tools/regenerate_manifests.py   digests of every file, of the sources *)
(*   tools/verify_release.py         the tree is what the manifests say    *)
(*   tools/build_release_archive.py  verify, copy, inspect, write capsule  *)
(*   tools/verify_trust_capsule.py   what a receiver accepts               *)
(*                                                                         *)
(* Every tool reads file by file while the tree is being edited, and may   *)
(* be killed between two files.  The author runs one tool at a time, and   *)
(* an edit makes a content that was not there before.  File i comes before *)
(* file i + 1 in every sorted list and the manifests before both; a digest *)
(* is the content it is the digest of.  The report's own digest, version   *)
(* numbers, sizes and path rules are left out.                             *)
(***************************************************************************)
EXTENDS Integers, FiniteSets

CONSTANTS FileCount,
          Sources,    \* files the source policy names
          Required,   \* files a release must have
          MaxEdits, MaxKills

VARIABLES
  tree,      \* file -> content, 0 when it is not there
  listed,    \* MANIFEST.sha256: [files, sources], or Absent
  policy,    \* SOURCE_MANIFEST.sha256: source -> content, or Absent
  job,       \* the tool that runs: name, next file, what it has read
  archive, capsule,
  past,      \* the trees there have been
  kills

vars == <<tree, listed, policy, job, archive, capsule, past, kills>>

Files  == 1 .. FileCount
Absent == [is |-> "absent"]
Idle   == [tool |-> "none"]
There(t) == {f \in Files : t[f] # 0}
Pick(S, t) == [f \in S |-> t[f]]
SourceMembers(names) == Sources \cap names
Complete(names) == Required \subseteq names

Init ==
  /\ tree = [f \in Files |-> 1]
  /\ listed = Absent /\ policy = Absent /\ job = Idle
  /\ archive = Absent /\ capsule = Absent
  /\ past = {tree} /\ kills = 0

On(tool) == job.tool = tool
Fails == job' = Idle
ReadOnly == UNCHANGED <<tree, listed, policy, archive, capsule, past, kills>>

(***************************************************************************)
(* regenerate: the inventory, then each file, then the two manifests.      *)
(***************************************************************************)
Regenerate ==
  /\ job = Idle
  /\ job' = [tool |-> "regenerate", i |-> 1, names |-> There(tree), read |-> [f \in Files |-> 0]]
  /\ ReadOnly

Digests ==
  /\ On("regenerate") /\ job.i <= FileCount
  /\ IF job.i \in job.names /\ tree[job.i] = 0 THEN Fails
     ELSE job' = [job EXCEPT !.i = @ + 1,
                             !.read[job.i] = IF job.i \in job.names THEN tree[job.i] ELSE 0]
  /\ ReadOnly

WritesPolicy ==
  /\ On("regenerate") /\ job.i = FileCount + 1
  /\ policy' = [is |-> "policy", of |-> Pick(SourceMembers(job.names), job.read)]
  /\ job' = [job EXCEPT !.i = @ + 1]
  /\ UNCHANGED <<tree, listed, archive, capsule, past, kills>>

WritesListed ==
  /\ On("regenerate") /\ job.i = FileCount + 2
  /\ listed' = [is |-> "listed", of |-> Pick(job.names, job.read),
                policy |-> [is |-> "policy", of |-> Pick(SourceMembers(job.names), job.read)]]
  /\ job' = Idle
  /\ UNCHANGED <<tree, policy, archive, capsule, past, kills>>

(***************************************************************************)
(* build: no output may exist, not even that of a build that failed.       *)
(***************************************************************************)
Build ==
  /\ job = Idle /\ listed # Absent /\ policy # Absent
  /\ archive = Absent /\ capsule = Absent
  /\ job' = [tool |-> "verify", i |-> 1, full |-> listed, sources |-> policy, names |-> There(tree)]
  /\ ReadOnly

\* verify: the inventory, each file in turn, then the sources against the rest.
Matches ==
  /\ On("verify") /\ job.i <= FileCount
  /\ IF /\ job.i = 1 => job.names = DOMAIN job.full.of /\ Complete(job.names)
                        /\ policy = job.full.policy
        /\ job.i \in job.names => tree[job.i] # 0 /\ tree[job.i] = job.full.of[job.i]
       THEN job' = [job EXCEPT !.i = @ + 1] ELSE Fails
  /\ ReadOnly

SourcesMatch ==
  /\ On("verify") /\ job.i = FileCount + 1
  /\ IF job.sources.of = Pick(SourceMembers(job.names), job.full.of)
       THEN job' = [tool |-> "copy", i |-> 1, names |-> DOMAIN listed.of] ELSE Fails
  /\ ReadOnly

\* The archive exists from the first member on.
CopiesManifests ==
  /\ On("copy") /\ archive = Absent
  /\ archive' = [is |-> "archive", listed |-> listed, policy |-> policy,
                 files |-> [f \in {} |-> 0], whole |-> FALSE]
  /\ UNCHANGED <<tree, listed, policy, job, capsule, past, kills>>

Copies ==
  /\ On("copy") /\ archive # Absent /\ job.i <= FileCount
  /\ IF job.i \notin job.names
       THEN job' = [job EXCEPT !.i = @ + 1] /\ UNCHANGED archive
     ELSE IF tree[job.i] = 0 THEN Fails /\ UNCHANGED archive
     ELSE /\ archive' = [archive EXCEPT !.files =
               [f \in DOMAIN @ \cup {job.i} |-> IF f = job.i THEN tree[f] ELSE @[f]]]
          /\ job' = [job EXCEPT !.i = @ + 1]
  /\ UNCHANGED <<tree, listed, policy, capsule, past, kills>>

\* A zip file has its directory only when it was closed.
Closes ==
  /\ On("copy") /\ archive # Absent /\ job.i = FileCount + 1
  /\ archive' = [archive EXCEPT !.whole = TRUE]
  /\ job' = [tool |-> "inspect"]
  /\ UNCHANGED <<tree, listed, policy, capsule, past, kills>>

\* Mutant: the manifest is compared by names only.
Inspects_Names(a) ==
  /\ a.is = "archive" /\ a.whole /\ Complete(DOMAIN a.files)
  /\ DOMAIN a.listed.of = DOMAIN a.files /\ a.listed.policy = a.policy

\* inspect_archive
Inspects(a) ==
  /\ a.is = "archive" /\ a.whole
  /\ Complete(DOMAIN a.files)
  /\ DOMAIN a.listed.of = DOMAIN a.files
  /\ DOMAIN a.policy.of = SourceMembers(DOMAIN a.listed.of)
  /\ a.listed.of = a.files /\ a.listed.policy = a.policy
  /\ \A f \in DOMAIN a.policy.of : a.policy.of[f] = a.files[f]

WritesCapsule ==
  /\ On("inspect")
  /\ IF Inspects(archive) THEN capsule' = [is |-> "capsule", archive |-> archive]
                          ELSE UNCHANGED capsule
  /\ job' = Idle
  /\ UNCHANGED <<tree, listed, policy, archive, past, kills>>

(***************************************************************************)
(* Around the tools: edits, deaths, and a failed output removed by hand.   *)
(***************************************************************************)
Latest(f) == CHOOSE v \in 0 .. MaxEdits + 1 :
               (\E t \in past : t[f] = v) /\ \A t \in past : t[f] <= v
Edit(f) ==
  /\ Cardinality(past) <= MaxEdits
  /\ \E v \in {0, Latest(f) + 1} \ {tree[f]} : tree' = [tree EXCEPT ![f] = v]
  /\ past' = past \cup {tree'}
  /\ UNCHANGED <<listed, policy, job, archive, capsule, kills>>

Kill ==
  /\ job # Idle /\ kills < MaxKills
  /\ job' = Idle /\ kills' = kills + 1
  /\ UNCHANGED <<tree, listed, policy, archive, capsule, past>>

Discard ==
  /\ job = Idle /\ archive # Absent /\ capsule = Absent /\ archive' = Absent
  /\ UNCHANGED <<tree, listed, policy, job, capsule, past, kills>>

Next ==
  \/ Regenerate \/ Digests \/ WritesPolicy \/ WritesListed
  \/ Build \/ Matches \/ SourcesMatch
  \/ CopiesManifests \/ Copies \/ Closes \/ WritesCapsule
  \/ (\E f \in Files : Edit(f)) \/ Kill \/ Discard

Spec == Init /\ [][Next]_vars
-----------------------------------------------------------------------------
\* verify_trust_capsule.verify: the capsule is what inspect_archive says again.
Accepted == capsule # Absent /\ Inspects(archive) /\ capsule.archive = archive

\* What a receiver accepts is one tree, as it stood at some moment of the
\* author's work: the tools read file by file while it changes, and no mixture
\* of two of its states is ever released (verify_release.verify,
\* build_release_archive.build, verify_trust_capsule.inspect_archive).
ReleaseIsSnapshot ==
  Accepted => \E t \in past : archive.files = Pick(There(t), t)
=============================================================================

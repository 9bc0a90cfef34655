------------------------------- MODULE Lease -------------------------------
(***************************************************************************)
(* The leases of one endpoint of the Python binding and the exporters of   *)
(* their payloads (bindings/python/elite_ringbuffer/__init__.py and        *)
(* bindings/python/elite_buffer.c).                                        *)
(*                                                                         *)
(* Every method of the endpoint holds its RLock, but a ctypes call lets    *)
(* the other threads run, so each one is a call action, where the native   *)
(* effect takes place, and a return action.  A KeyboardInterrupt may come  *)
(* in place of the return, before or after the effect.  What does not take *)
(* the lock at all interleaves as well: the buffer protocol, whose         *)
(* _assert_live callback is arbitrary Python, and the finalizers, which    *)
(* the collector runs in any thread and in any order.  A finalizer that    *)
(* runs inside a method of the endpoint finds nothing that its running     *)
(* before or after the method would not find, so threads need no nesting.  *)
(***************************************************************************)
EXTENDS Naturals, FiniteSets

CONSTANTS
  Threads,        \* threads of the process
  Interruptible,  \* those a KeyboardInterrupt may reach (the main thread)
  NoThread,
  MaxLeases,      \* bound: acquisitions that take a new _LeaseState
  MaxViews,       \* bound: exports of one exporter
  MaxInterrupts,  \* bound: KeyboardInterrupts delivered at a native call
  Faults          \* whether the native layer may report integrity failures

ASSUME LeaseAssumption ==
  /\ Interruptible \subseteq Threads /\ NoThread \notin Threads
  /\ MaxLeases \in Nat \ {0} /\ MaxViews \in Nat \ {0} /\ MaxInterrupts \in Nat
  /\ Faults \in BOOLEAN

VARIABLES
  native,      \* the elite_connection behind the handle
  life,        \* the _EndpointLifetime
  lock,        \* the thread that holds the endpoint's RLock
  state,       \* the _LeaseState of each lease
  exporter,    \* the current LeaseBuffer of each lease
  app,         \* what the application still refers to
  failed,      \* obligations in _FAILED_CLEANUP; 0 stands for the endpoint
  task,        \* what each thread is doing
  interrupts   \* KeyboardInterrupts delivered so far

vars == <<native, life, lock, state, exporter, app, failed, task, interrupts>>

Leases == 1 .. MaxLeases

(* Steps of a task; those of InCall are native calls, before and after     *)
(* their effect.                                                           *)
Calls  == {"acquire", "retain", "end_view", "transfer", "retire", "detach", "drain"}
InCall == Calls \cup {"acquired", "retained", "view_ended", "transferred", "retired",
                      "detached", "drained"}
Steps  == InCall \cup {"idle", "export", "reexport", "drop", "finish", "cleanup", "close"}

\* by: the application, the close of an exporter nobody transfers through,
\* the undoing of a failed export, the finalizer of a _Pin, or that of the
\* endpoint.
NoTask   == [pc |-> "idle", lease |-> 0, act |-> "none", res |-> "none", by |-> "app"]
NewState == [made |-> FALSE, active |-> FALSE, acquiring |-> FALSE, uncertain |-> FALSE,
             viewPin |-> FALSE, cleanupRequested |-> FALSE, finalized |-> FALSE]
NoExporter == [rooted |-> FALSE, closed |-> TRUE, closing |-> FALSE,
               closeRequested |-> FALSE, exports |-> 0]

Init ==
  /\ native = [attached |-> TRUE, owner |-> 0, views |-> 0, gate |-> "READY", poisoned |-> FALSE]
  /\ life = [pin |-> 0, poisoned |-> FALSE, closeRequested |-> FALSE, receipt |-> "none"]
  /\ lock = NoThread
  /\ state = [l \in Leases |-> NewState]
  /\ exporter = [l \in Leases |-> NoExporter]
  /\ app = [endpoint |-> TRUE, leases |-> {}, views |-> [l \in Leases |-> 0],
            stale |-> [l \in Leases |-> 0]]
  /\ failed = {}
  /\ task = [t \in Threads |-> NoTask]
  /\ interrupts = 0
-----------------------------------------------------------------------------
(* Who still refers to what.  A task refers to the lease it works on.      *)

At(t, pc)   == task[t].pc = pc
WorkedOn(l) == \E t \in Threads : task[t].lease = l /\ ~At(t, "idle")

\* A view refers to its exporter, an exporter to its _Pin and a _Pin to its
\* endpoint.  Views in a garbage cycle (stale) keep nothing alive.
Reachable(l) == \/ l \in app.leases \/ app.views[l] > 0
                \/ \E t \in Threads : task[t].lease = l /\ task[t].by = "app" /\ ~At(t, "idle")
Garbage(l)   == state[l].made /\ ~Reachable(l) /\ ~WorkedOn(l)
EndpointReachable == \/ app.endpoint
                     \/ \E l \in Leases : Reachable(l)
                     \/ \E t \in Threads : task[t].by = "app" /\ ~At(t, "idle")

\* A state lives in its _Pin's finalizer, in the exporter or among the failures.
Alive(l) == /\ state[l].made
            /\ ~state[l].finalized \/ exporter[l].rooted \/ l \in failed \/ WorkedOn(l)

\* _EndpointLifetime.busy, through the weak reference _pin.
Busy == \/ life.poisoned
        \/ /\ life.pin # 0 /\ Alive(life.pin)
           /\ state[life.pin].active \/ state[life.pin].acquiring

\* Mutant: an uncertain lease counts as live.
Live_IgnoresUncertain(l) == native.attached /\ ~life.poisoned /\ state[l].active

\* _assert_live.
Live(l) == native.attached /\ ~life.poisoned /\ state[l].active /\ ~state[l].uncertain

Free(t)    == lock \in {NoThread, t}
Unlock     == lock' = NoThread
Release(t) == lock' = IF lock = t THEN NoThread ELSE lock
Become(t, r) == task' = [task EXCEPT ![t] = r]
Move(t, pc)  == Become(t, [task[t] EXCEPT !.pc = pc])
Return(t, pc, r) == Become(t, [task[t] EXCEPT !.pc = pc, !.res = r])
Stop(t)      == Become(t, NoTask)
Retain(l)    == failed' = failed \cup {l}   \* _retain_failure

\* el_enter: a second call inside the endpoint sees in_call set, or, the flag
\* being no atomic, does not.
Answers(t) == IF \E u \in Threads \ {t} : task[u].pc \in InCall
              THEN {"entered", "BUSY"} ELSE {"entered"}
-----------------------------------------------------------------------------
(* _obtain: the recovery state is installed before the native call.        *)

Obtain(t) ==
  /\ At(t, "idle") /\ lock = NoThread
  /\ app.endpoint /\ native.attached /\ ~Busy
  /\ \E l \in Leases :
       /\ ~state[l].made /\ \A k \in 1 .. l - 1 : state[k].made
       /\ state' = [state EXCEPT ![l].made = TRUE, ![l].acquiring = TRUE]
       /\ life' = [life EXCEPT !.pin = l]
       /\ Become(t, [NoTask EXCEPT !.pc = "acquire", !.lease = l])
  /\ lock' = t
  /\ UNCHANGED <<native, exporter, app, failed, interrupts>>

\* elite_write_reserve or elite_read_borrow: a token; nothing available; an
\* error; or a token and an error (el_read_metadata finds it damaged).
Acquire(t) ==
  /\ At(t, "acquire")
  /\ \E r \in Answers(t) :
       IF r = "BUSY" \/ native.owner # 0 \/ native.poisoned \/ native.gate # "READY"
       THEN Return(t, "acquired", "error") /\ UNCHANGED native
       ELSE \/ Return(t, "acquired", "none") /\ UNCHANGED native
            \/ /\ Return(t, "acquired", "ok")
               /\ native' = [native EXCEPT !.owner = task[t].lease]
            \/ /\ Faults
               /\ Return(t, "acquired", "kept")
               /\ native' = [native EXCEPT !.owner = task[t].lease, !.poisoned = TRUE, !.gate = "FAILED"]
  /\ UNCHANGED <<life, lock, state, exporter, app, failed, interrupts>>

Owning(t) == task[t].res \in {"ok", "kept"}   \* lease.opaque is not all zero

\* adopt, and the lease handed to the caller (as the resource of the
\* exception when the call failed with a token).
AcquireReturns(t) ==
  /\ At(t, "acquired")
  /\ LET l == task[t].lease IN
       /\ state' = [state EXCEPT ![l].acquiring = FALSE, ![l].active = Owning(t)]
       /\ life' = IF Owning(t) THEN life ELSE [life EXCEPT !.pin = 0]
       /\ app' = IF Owning(t) THEN [app EXCEPT !.leases = @ \cup {l}] ELSE app
  /\ Stop(t) /\ Unlock
  /\ UNCHANGED <<native, exporter, failed, interrupts>>

\* An exception in place of a return.
Interrupts(t, pc, after) ==
  /\ t \in Interruptible /\ interrupts < MaxInterrupts
  /\ task[t].pc \in {pc, after}
  /\ interrupts' = interrupts + 1

\* Mutant: the interrupted acquisition is not retained.
AcquireInterrupted_NotRetained(t) ==
  /\ Interrupts(t, "acquire", "acquired")
  /\ state' = [state EXCEPT ![task[t].lease].acquiring = FALSE, ![task[t].lease].uncertain = TRUE,
                            ![task[t].lease].active = Owning(t)]
  /\ life' = [life EXCEPT !.poisoned = TRUE]
  /\ Stop(t) /\ Unlock
  /\ UNCHANGED <<native, exporter, app, failed>>

AcquireInterrupted(t) ==
  /\ Interrupts(t, "acquire", "acquired")
  /\ LET l == task[t].lease IN
       /\ state' = [state EXCEPT ![l].acquiring = FALSE, ![l].uncertain = TRUE,
                                 ![l].active = Owning(t)]
       /\ Retain(l)
  /\ life' = [life EXCEPT !.poisoned = TRUE]
  /\ Stop(t) /\ Unlock
  /\ UNCHANGED <<native, exporter, app>>
-----------------------------------------------------------------------------
(* _Lease.buffer: a native view pin per open exporter, then an export.     *)

Buffer(t, l) ==
  /\ At(t, "idle") /\ lock = NoThread
  /\ l \in app.leases /\ Live(l)
  /\ \/ /\ exporter[l].closed /\ ~state[l].viewPin
        /\ state' = [state EXCEPT ![l].viewPin = TRUE]
        /\ Become(t, [NoTask EXCEPT !.pc = "retain", !.lease = l])
        /\ UNCHANGED exporter
     \/ /\ ~exporter[l].closed /\ exporter[l].exports < MaxViews
        /\ exporter' = [exporter EXCEPT ![l].exports = @ + 1]
        /\ Become(t, [NoTask EXCEPT !.pc = "export", !.lease = l])
        /\ UNCHANGED state
  /\ lock' = t
  /\ UNCHANGED <<native, life, app, failed, interrupts>>

\* elite_view_retain.
ViewRetain(t) ==
  /\ At(t, "retain")
  /\ \E r \in Answers(t) :
       IF r = "BUSY" \/ native.owner # task[t].lease \/ native.poisoned
       THEN Return(t, "retained", "error") /\ UNCHANGED native
       ELSE Return(t, "retained", "ok") /\ native' = [native EXCEPT !.views = @ + 1]
  /\ UNCHANGED <<life, lock, state, exporter, app, failed, interrupts>>

\* The exporter is created and buffer_get counts the export it starts; if it
\* cannot be created, the pin is dropped again.
RetainReturns(t) ==
  /\ At(t, "retained")
  /\ LET l == task[t].lease IN
       \/ /\ task[t].res = "error"
          /\ state' = [state EXCEPT ![l].viewPin = FALSE]
          /\ Stop(t) /\ Unlock
          /\ UNCHANGED exporter
       \/ /\ task[t].res = "ok"
          /\ exporter' = [exporter EXCEPT ![l] =
               [NoExporter EXCEPT !.rooted = TRUE, !.closed = FALSE, !.exports = 1]]
          /\ Move(t, "export")
          /\ UNCHANGED <<state, lock>>
       \/ /\ task[t].res = "ok"
          /\ Become(t, [task[t] EXCEPT !.pc = "drop", !.by = "undo"])
          /\ UNCHANGED <<state, exporter, lock>>
  /\ UNCHANGED <<native, life, app, failed, interrupts>>

RetainInterrupted(t) ==
  /\ Interrupts(t, "retain", "retained")
  /\ state' = [state EXCEPT ![task[t].lease].uncertain = TRUE]
  /\ life' = [life EXCEPT !.poisoned = TRUE]
  /\ Retain(task[t].lease)
  /\ Stop(t) /\ Unlock
  /\ UNCHANGED <<native, exporter, app>>

\* buffer_get through view.obj, which takes no lock.
Reexport(t, l) ==
  /\ At(t, "idle") /\ app.views[l] > 0
  /\ ~exporter[l].closed /\ ~exporter[l].closeRequested /\ exporter[l].exports < MaxViews
  /\ exporter' = [exporter EXCEPT ![l].exports = @ + 1]
  /\ Become(t, [NoTask EXCEPT !.pc = "reexport", !.lease = l])
  /\ UNCHANGED <<native, life, lock, state, app, failed, interrupts>>

\* The start of close_buffer: closed blocks new exports, closing a second close.
StartClose(x) == [x EXCEPT !.closed = TRUE, !.closing = TRUE]

\* buffer_release, and rollback_export: a close that was requested meanwhile
\* takes place when the last export ends.
EndExport(t, l) ==
  LET x == [exporter[l] EXCEPT !.exports = @ - 1]
  IN  IF x.exports = 0 /\ x.closeRequested /\ ~x.closed
      THEN /\ exporter' = [exporter EXCEPT ![l] = StartClose(x)]
           /\ Become(t, [NoTask EXCEPT !.pc = "drop", !.lease = l, !.by = "exporter"])
      ELSE /\ exporter' = [exporter EXCEPT ![l] = x]
           /\ Stop(t)

\* _assert_live answers: the export becomes a view, or fails, as it also may
\* for a reason of its own (PyBuffer_FillInfo).
Exported(t) ==
  /\ task[t].pc \in {"export", "reexport"}
  /\ LET l == task[t].lease IN
       \/ /\ Live(l)
          /\ app' = [app EXCEPT !.views[l] = @ + 1]
          /\ Stop(t) /\ UNCHANGED exporter
       \/ EndExport(t, l) /\ UNCHANGED app
  /\ lock' = IF At(t, "export") THEN NoThread ELSE lock
  /\ UNCHANGED <<native, life, state, failed, interrupts>>

ReleaseView(t, l) ==
  /\ At(t, "idle") /\ app.views[l] > 0
  /\ app' = [app EXCEPT !.views[l] = @ - 1]
  /\ EndExport(t, l)
  /\ UNCHANGED <<native, life, lock, state, failed, interrupts>>
-----------------------------------------------------------------------------
(* _drop_view_pin, always from within close_buffer except when it undoes.  *)

\* What close_buffer does when the drop is over: the exporter lets go of the
\* lease, or opens again.
Closed(x)   == [x EXCEPT !.closing = FALSE, !.rooted = FALSE]
Reopened(x) == [x EXCEPT !.closing = FALSE, !.closed = FALSE]

\* The drop succeeded: a transfer goes on, everything else is over.
Dropped(t) ==
  LET l == task[t].lease
  IN  /\ exporter' = IF task[t].by \in {"app", "exporter"}
                     THEN [exporter EXCEPT ![l] = Closed(@)] ELSE exporter
      /\ IF task[t].by = "app"
         THEN Move(t, "finish") /\ lock' = t
         ELSE Stop(t) /\ Release(t)

\* The drop raised: the caller has the exception, or cleanup_unraisable
\* records the obligation.
NotDropped(t, recorded) ==
  LET l == task[t].lease
  IN  /\ exporter' = IF task[t].by = "undo" THEN exporter
                     ELSE [exporter EXCEPT ![l] = Reopened(@)]
      /\ failed' = IF recorded \/ task[t].by = "exporter" THEN failed \cup {l} ELSE failed
      /\ Stop(t) /\ Release(t)

Drop(t) ==
  /\ At(t, "drop") /\ Free(t)
  /\ LET l == task[t].lease IN
       \/ /\ ~state[l].viewPin
          /\ Dropped(t) /\ UNCHANGED failed
       \/ /\ state[l].viewPin /\ ~Live(l)
          /\ NotDropped(t, FALSE)
       \/ /\ state[l].viewPin /\ Live(l)
          /\ Move(t, "end_view") /\ lock' = t
          /\ UNCHANGED <<exporter, failed>>
  /\ UNCHANGED <<native, life, state, app, interrupts>>

\* elite_view_end.
ViewEnd(t) ==
  /\ At(t, "end_view")
  /\ \E r \in Answers(t) :
       IF r = "BUSY" \/ native.owner # task[t].lease \/ native.views = 0
       THEN Return(t, "view_ended", "error") /\ UNCHANGED native
       ELSE Return(t, "view_ended", "ok") /\ native' = [native EXCEPT !.views = @ - 1]
  /\ UNCHANGED <<life, lock, state, exporter, app, failed, interrupts>>

\* Mutant: the requested cleanup is forgotten.
EndViewReturns_ForgetsCleanup(t) ==
  /\ At(t, "view_ended")
  /\ \/ /\ task[t].res = "error"
        /\ NotDropped(t, TRUE) /\ UNCHANGED state
     \/ /\ task[t].res = "ok"
        /\ state' = [state EXCEPT ![task[t].lease].viewPin = FALSE]
        /\ Dropped(t) /\ UNCHANGED failed
  /\ UNCHANGED <<native, life, app, interrupts>>

\* A cleanup requested while the pin was held runs now, inside the close.
EndViewReturns(t) ==
  /\ At(t, "view_ended")
  /\ LET l == task[t].lease IN
       \/ /\ task[t].res = "error"
          /\ NotDropped(t, TRUE) /\ UNCHANGED state
       \/ /\ task[t].res = "ok"
          /\ state' = [state EXCEPT ![l].viewPin = FALSE]
          /\ IF state[l].cleanupRequested
             THEN Move(t, "cleanup") /\ UNCHANGED <<exporter, lock>>
             ELSE Dropped(t)
          /\ UNCHANGED failed
  /\ UNCHANGED <<native, life, app, interrupts>>

EndViewInterrupted(t) ==
  /\ Interrupts(t, "end_view", "view_ended")
  /\ state' = [state EXCEPT ![task[t].lease].uncertain = TRUE]
  /\ life' = [life EXCEPT !.poisoned = TRUE]
  /\ NotDropped(t, TRUE)
  /\ UNCHANGED <<native, app>>
-----------------------------------------------------------------------------
(* finish: the transfer of the token, asked for by the application or by a *)
(* cleanup.                                                                *)

Acts == {"commit", "return", "abandon"}

\* Mutant: pending exports do not keep the exporter open.
Transfers_IgnoresPending(t, l, a) ==
  /\ At(t, "idle") /\ lock = NoThread
  /\ l \in app.leases
  /\ ~exporter[l].closed /\ app.views[l] + app.stale[l] = 0
  /\ exporter' = [exporter EXCEPT ![l] = StartClose(@)]
  /\ Become(t, [NoTask EXCEPT !.lease = l, !.act = a, !.pc = "drop"])
  /\ lock' = t
  /\ UNCHANGED <<native, life, state, app, failed, interrupts>>

\* commit, abort or release, and abandon: _end_exports comes first.
Transfers(t, l, a) ==
  /\ At(t, "idle") /\ lock = NoThread
  /\ l \in app.leases
  /\ LET new == [NoTask EXCEPT !.lease = l, !.act = a] IN
       \/ /\ exporter[l].closed /\ ~exporter[l].closing
          /\ Become(t, [new EXCEPT !.pc = "finish"])
          /\ UNCHANGED exporter
       \/ /\ ~exporter[l].closed /\ exporter[l].exports = 0
          /\ exporter' = [exporter EXCEPT ![l] = StartClose(@)]
          /\ Become(t, [new EXCEPT !.pc = "drop"])
  /\ lock' = t
  /\ UNCHANGED <<native, life, state, app, failed, interrupts>>

\* cleanup returns; inside a close, so does the close.
CleanupReturns(t) == Dropped(t)

\* How a call of finish ends with an exception: the application has it; a
\* cleanup answers an EliteError by retiring the generation and abandoning,
\* once, and records everything else.
Fails(t, elite) ==
  LET l == task[t].lease
  IN  \/ /\ task[t].by = "app"
         /\ Stop(t) /\ Release(t) /\ UNCHANGED <<failed, exporter>>
      \/ /\ task[t].by # "app"
         /\ elite /\ task[t].act = "return"
         /\ IF state[l].active
            THEN /\ Move(t, "retire") /\ UNCHANGED exporter
                 /\ IF task[t].by = "pin" THEN Release(t) ELSE UNCHANGED lock
            ELSE CleanupReturns(t)
         /\ UNCHANGED failed
      \/ /\ task[t].by # "app"
         /\ ~(elite /\ task[t].act = "return")
         /\ Retain(l) /\ CleanupReturns(t)

Finish(t) ==
  /\ At(t, "finish") /\ Free(t)
  /\ LET l == task[t].lease IN
       \/ /\ ~Live(l)
          /\ Fails(t, native.attached /\ life.poisoned)
       \/ /\ Live(l) /\ state[l].viewPin
          /\ Fails(t, TRUE)
       \/ /\ Live(l) /\ ~state[l].viewPin
          /\ Move(t, "transfer") /\ lock' = t
          /\ UNCHANGED <<exporter, failed>>
  /\ UNCHANGED <<native, life, state, app, interrupts>>

\* What elite_write_commit, el_release_public and elite_abandon_retained ask.
Admitted(l, a) ==
  /\ native.owner = l /\ native.views = 0
  /\ CASE a = "commit"  -> ~native.poisoned /\ native.gate = "READY"
       [] a = "return"  -> ~native.poisoned /\ native.gate # "FAILED"
       [] a = "abandon" -> native.gate # "READY"

Transfer(t) ==
  /\ At(t, "transfer")
  /\ LET l == task[t].lease
         a == task[t].act
     IN  \E r \in Answers(t) :
           IF r = "BUSY" \/ ~Admitted(l, a)
           THEN Return(t, "transferred", "error") /\ UNCHANGED native
           ELSE \/ /\ Return(t, "transferred", "ok")
                   /\ native' = [native EXCEPT !.owner = 0, !.poisoned = @ \/ a = "abandon"]
                \/ /\ Faults /\ a # "abandon"
                   /\ Return(t, "transferred", "error")
                   /\ native' = [native EXCEPT !.poisoned = TRUE, !.gate = "FAILED"]
  /\ UNCHANGED <<life, lock, state, exporter, app, failed, interrupts>>

\* The token is gone whatever the status says besides; try_close comes last.
TransferReturns(t) ==
  /\ At(t, "transferred")
  /\ LET l == task[t].lease IN
       \/ /\ task[t].res = "ok"
          /\ state' = [state EXCEPT ![l].active = FALSE]
          /\ life' = [life EXCEPT !.pin = 0]
          /\ IF life.closeRequested /\ native.attached /\ ~life.poisoned
             THEN Move(t, "detach") /\ UNCHANGED <<exporter, lock>>
             ELSE IF task[t].by = "app" THEN Stop(t) /\ Unlock /\ UNCHANGED exporter
                  ELSE CleanupReturns(t)
          /\ UNCHANGED failed
       \/ /\ task[t].res = "error"
          /\ Fails(t, TRUE)
          /\ UNCHANGED <<life, state>>
  /\ UNCHANGED <<native, app, interrupts>>

TransferInterrupted(t) ==
  /\ Interrupts(t, "transfer", "transferred")
  /\ LET l == task[t].lease IN
       /\ state' = [state EXCEPT ![l].uncertain = TRUE]
       /\ Retain(l)
       /\ IF task[t].by = "app" THEN Stop(t) /\ Unlock /\ UNCHANGED exporter
          ELSE IF task[t].act = "return"
               THEN /\ Move(t, "retire") /\ UNCHANGED exporter
                    /\ IF task[t].by = "pin" THEN Unlock ELSE UNCHANGED lock
               ELSE CleanupReturns(t)
  /\ UNCHANGED <<native, life, app>>
-----------------------------------------------------------------------------
(* cleanup and its retirement, which a _Pin's finalizer calls without the  *)
(* lock.                                                                   *)

Cleanup(t) ==
  /\ At(t, "cleanup")
  /\ LET s == state[task[t].lease] IN
       IF ~s.active \/ s.uncertain \/ s.viewPin
       THEN CleanupReturns(t)
       ELSE /\ Become(t, [task[t] EXCEPT !.pc = "finish", !.act = "return"])
            /\ UNCHANGED <<exporter, lock>>
  /\ UNCHANGED <<native, life, state, app, failed, interrupts>>

\* elite_retire.
Retire(t) ==
  /\ At(t, "retire")
  /\ \E r \in Answers(t) :
       IF r = "BUSY" THEN Return(t, "retired", "error") /\ UNCHANGED native
       ELSE /\ Return(t, "retired", "ok")
            /\ native' = [native EXCEPT !.gate = IF @ = "READY" THEN "RETIRED" ELSE @]
  /\ UNCHANGED <<life, lock, state, exporter, app, failed, interrupts>>

RetireReturns(t) ==
  /\ At(t, "retired")
  /\ IF task[t].res = "ok"
     THEN /\ Become(t, [task[t] EXCEPT !.pc = "finish", !.act = "abandon"])
          /\ UNCHANGED <<exporter, lock, failed>>
     ELSE Retain(task[t].lease) /\ CleanupReturns(t)
  /\ UNCHANGED <<native, life, state, app, interrupts>>

RetireInterrupted(t) ==
  /\ Interrupts(t, "retire", "retired")
  /\ Retain(task[t].lease) /\ CleanupReturns(t)
  /\ UNCHANGED <<native, life, state, app>>

\* enable_drain.
EnableDrain(t) ==
  /\ At(t, "idle") /\ lock = NoThread
  /\ app.endpoint /\ native.attached
  /\ Become(t, [NoTask EXCEPT !.pc = "drain"]) /\ lock' = t
  /\ UNCHANGED <<native, life, state, exporter, app, failed, interrupts>>

Drain(t) ==
  /\ At(t, "drain") /\ Move(t, "drained")
  /\ UNCHANGED <<native, life, lock, state, exporter, app, failed, interrupts>>

DrainReturns(t) ==
  /\ At(t, "drained") /\ Stop(t) /\ Unlock
  /\ UNCHANGED <<native, life, state, exporter, app, failed, interrupts>>
-----------------------------------------------------------------------------
(* _EndpointLifetime.close, called by the application, by the endpoint's   *)
(* finalizer or by the transfer that ends the last lease.                  *)

Close(t) ==
  /\ At(t, "idle") /\ lock = NoThread
  /\ app.endpoint /\ native.attached /\ ~Busy
  /\ Become(t, [NoTask EXCEPT !.pc = "detach"]) /\ lock' = t
  /\ UNCHANGED <<native, life, state, exporter, app, failed, interrupts>>

\* Mutant: try_close does not look at busy.
FinalizeEndpoint_IgnoresBusy(t) ==
  /\ At(t, "idle") /\ ~EndpointReachable /\ ~life.closeRequested
  /\ life' = [life EXCEPT !.closeRequested = TRUE]
  /\ Become(t, [NoTask EXCEPT !.pc = "close", !.by = "endpoint"])
  /\ UNCHANGED <<native, lock, state, exporter, app, failed, interrupts>>

\* request_close; try_close looks at busy before close takes the lock.
FinalizeEndpoint(t) ==
  /\ At(t, "idle") /\ ~EndpointReachable /\ ~life.closeRequested
  /\ life' = [life EXCEPT !.closeRequested = TRUE]
  /\ task' = IF native.attached /\ ~Busy
             THEN [task EXCEPT ![t] = [NoTask EXCEPT !.pc = "close", !.by = "endpoint"]]
             ELSE task
  /\ UNCHANGED <<native, lock, state, exporter, app, failed, interrupts>>

TryClose(t) ==
  /\ At(t, "close") /\ Free(t)
  /\ IF native.attached /\ ~Busy
     THEN Move(t, "detach") /\ lock' = t /\ UNCHANGED failed
     ELSE /\ Stop(t) /\ UNCHANGED lock
          /\ failed' = IF native.attached THEN failed \cup {0} ELSE failed
  /\ UNCHANGED <<native, life, state, exporter, app, interrupts>>

\* elite_detach; failing system calls are Lifecycle's subject.
Detach(t) ==
  /\ At(t, "detach")
  /\ \E r \in Answers(t) :
       IF r = "BUSY" \/ native.owner # 0 \/ native.views # 0
       THEN Return(t, "detached", "error") /\ UNCHANGED native
       ELSE Return(t, "detached", "ok") /\ native' = [native EXCEPT !.attached = FALSE]
  /\ UNCHANGED <<life, lock, state, exporter, app, failed, interrupts>>

\* An explicit close passes an exception on, try_close records it.
Detached(t, raised) ==
  /\ failed' = IF raised /\ (task[t].lease # 0 \/ task[t].by = "endpoint")
               THEN failed \cup {0} ELSE failed
  /\ IF task[t].by = "exporter" THEN CleanupReturns(t)
     ELSE Stop(t) /\ Release(t) /\ UNCHANGED exporter

DetachReturns(t) ==
  /\ At(t, "detached")
  /\ life' = IF task[t].res = "ok" THEN [life EXCEPT !.receipt = "saved"] ELSE life
  /\ Detached(t, task[t].res = "error")
  /\ UNCHANGED <<native, state, app, interrupts>>

DetachInterrupted(t) ==
  /\ Interrupts(t, "detach", "detached")
  /\ Detached(t, TRUE)
  /\ UNCHANGED <<native, life, state, app>>
-----------------------------------------------------------------------------
(* The application lets go, and the collector.                             *)

\* The application forgets a lease or the endpoint, or a view with the cycle
\* that refers to it.
Forget ==
  /\ \/ \E l \in app.leases : app' = [app EXCEPT !.leases = @ \ {l}]
     \/ \E l \in Leases : /\ app.views[l] > 0
                          /\ app' = [app EXCEPT !.views[l] = @ - 1, !.stale[l] = @ + 1]
     \/ app.endpoint /\ app' = [app EXCEPT !.endpoint = FALSE]
  /\ UNCHANGED <<native, life, lock, state, exporter, failed, task, interrupts>>

\* The finalizer of a _Pin: request_cleanup.
FinalizePin(t, l) ==
  /\ At(t, "idle") /\ Garbage(l) /\ ~state[l].finalized
  /\ state' = [state EXCEPT ![l].finalized = TRUE, ![l].cleanupRequested = TRUE]
  /\ Become(t, [NoTask EXCEPT !.pc = "cleanup", !.lease = l, !.by = "pin"])
  /\ UNCHANGED <<native, life, lock, exporter, app, failed, interrupts>>

\* buffer_finalize.
FinalizeExporter(t, l) ==
  /\ At(t, "idle") /\ Garbage(l)
  /\ exporter[l].rooted /\ ~exporter[l].closeRequested
  /\ LET x == [exporter[l] EXCEPT !.closeRequested = TRUE] IN
       IF x.exports = 0 /\ ~x.closed
       THEN /\ exporter' = [exporter EXCEPT ![l] = StartClose(x)]
            /\ Become(t, [NoTask EXCEPT !.pc = "drop", !.lease = l, !.by = "exporter"])
       ELSE exporter' = [exporter EXCEPT ![l] = x] /\ UNCHANGED task
  /\ UNCHANGED <<native, life, lock, state, app, failed, interrupts>>

\* buffer_clear, which severs the references of what is left.
ClearExporter(l) ==
  /\ Garbage(l) /\ exporter[l].rooted /\ exporter[l].closeRequested
  /\ exporter[l].exports = 0
  /\ exporter' = [exporter EXCEPT ![l].closed = TRUE, ![l].rooted = FALSE]
  /\ UNCHANGED <<native, life, lock, state, app, failed, task, interrupts>>

\* The memoryview of a collected cycle releases its buffer.
CollectView(t, l) ==
  /\ At(t, "idle") /\ app.stale[l] > 0
  /\ Reachable(l) \/ ~WorkedOn(l)
  /\ app' = [app EXCEPT !.stale[l] = @ - 1]
  /\ EndExport(t, l)
  /\ UNCHANGED <<native, life, lock, state, failed, interrupts>>

\* The manager or a peer retires the generation.
PeerRetires ==
  /\ native.gate = "READY"
  /\ \E g \in {"RETIRED"} \cup IF Faults THEN {"FAILED"} ELSE {} :
       native' = [native EXCEPT !.gate = g]
  /\ UNCHANGED <<life, lock, state, exporter, app, failed, task, interrupts>>
-----------------------------------------------------------------------------
Application(t) ==
  \/ Obtain(t) \/ EnableDrain(t) \/ Close(t)
  \/ \E l \in Leases :
       \/ Buffer(t, l) \/ Reexport(t, l) \/ ReleaseView(t, l)
       \/ \E a \in Acts : Transfers(t, l, a)

Continues(t) ==
  \/ Acquire(t) \/ AcquireReturns(t) \/ ViewRetain(t) \/ RetainReturns(t) \/ Exported(t)
  \/ Drop(t) \/ ViewEnd(t) \/ EndViewReturns(t)
  \/ Finish(t) \/ Transfer(t) \/ TransferReturns(t)
  \/ Cleanup(t) \/ Retire(t) \/ RetireReturns(t) \/ Drain(t) \/ DrainReturns(t)
  \/ TryClose(t) \/ Detach(t) \/ DetachReturns(t)

Interrupted(t) ==
  \/ AcquireInterrupted(t) \/ RetainInterrupted(t) \/ EndViewInterrupted(t)
  \/ TransferInterrupted(t) \/ RetireInterrupted(t) \/ DetachInterrupted(t)

Collector(t) ==
  \/ FinalizeEndpoint(t)
  \/ \E l \in Leases : \/ FinalizePin(t, l) \/ FinalizeExporter(t, l)
                       \/ CollectView(t, l) \/ ClearExporter(l)

Next ==
  \/ \E t \in Threads : Application(t) \/ Continues(t) \/ Interrupted(t) \/ Collector(t)
  \/ Forget \/ PeerRetires

Spec == Init /\ [][Next]_vars

\* The scheduler runs every thread that can go on, the lock is handed to
\* every waiter in the end, and the collector runs.
Fairness ==
  /\ \A t \in Threads : SF_vars(Continues(t))
  /\ WF_vars(\E t \in Threads : Collector(t))

FairSpec == Spec /\ Fairness
-----------------------------------------------------------------------------
TypeOK ==
  /\ native \in [attached : BOOLEAN, owner : {0} \cup Leases, views : 0 .. 1,
                 gate : {"READY", "RETIRED", "FAILED"}, poisoned : BOOLEAN]
  /\ life \in [pin : {0} \cup Leases, poisoned : BOOLEAN, closeRequested : BOOLEAN,
               receipt : {"none", "saved"}]
  /\ lock \in Threads \cup {NoThread}
  /\ state \in [Leases -> [made : BOOLEAN, active : BOOLEAN, acquiring : BOOLEAN,
                           uncertain : BOOLEAN, viewPin : BOOLEAN,
                           cleanupRequested : BOOLEAN, finalized : BOOLEAN]]
  /\ exporter \in [Leases -> [rooted : BOOLEAN, closed : BOOLEAN, closing : BOOLEAN,
                              closeRequested : BOOLEAN, exports : 0 .. MaxViews]]
  /\ app \in [endpoint : BOOLEAN, leases : SUBSET Leases,
              views : [Leases -> 0 .. MaxViews], stale : [Leases -> 0 .. MaxViews]]
  /\ failed \subseteq {0} \cup Leases
  /\ task \in [Threads -> [pc : Steps, lease : {0} \cup Leases, act : Acts \cup {"none"},
                           res : {"none", "ok", "error", "kept"},
                           by : {"app", "undo", "exporter", "pin", "endpoint"}]]
  /\ interrupts \in 0 .. MaxInterrupts

\* A view that anyone may still read or write, garbage cycles included, keeps
\* the endpoint mapped and the slot owned, whatever threads, finalizers and
\* interrupts do meanwhile (elite_buffer.c; README "Python lifetime rules").
ViewsPinned ==
  \A l \in Leases : app.views[l] + app.stale[l] > 0 =>
    native.attached /\ native.owner = l /\ native.views = 1

\* A token that no thread is busy with is never forgotten: the endpoint still
\* refuses a second lease and its own close, and whoever could return the
\* token is still there to do so or is recorded as a failed cleanup
\* (_LeaseState, _retain_failure).
TokenTracked ==
  \A l \in Leases : native.owner = l /\ ~WorkedOn(l) =>
    /\ Busy
    /\ Reachable(l) \/ ~state[l].finalized \/ exporter[l].rooted \/ l \in failed

\* Nothing is reported as a failed cleanup in a process that was never
\* interrupted, as long as the native layer reports no failure.
HealthyNeverRetained ==
  interrupts = 0 /\ native.gate # "FAILED" /\ ~native.poisoned => failed = {}

\* A token whose transfer or acquisition was interrupted stays where the
\* interrupted call left it: nothing in this process moves it any more
\* ("Never re-export or retry that token", finish).
NeverRetried ==
  [][\A l \in Leases : state[l].uncertain => (native'.owner = l <=> native.owner = l)]_vars

\* Whatever order the collector chooses, an endpoint of which the application
\* holds neither the wrapper nor a lease nor a view is detached in the end,
\* unless a cleanup failed; detaching needs the token back.
LetsGo == ~app.endpoint /\ app.leases = {} /\ \A l \in Leases : app.views[l] = 0
DroppedIsDetached == LetsGo ~> (~LetsGo \/ ~native.attached \/ failed # {})

\* Native calls on one endpoint are serialized (bindings/python/README.md:
\* "Per-endpoint RLocks serialize calls and shutdown").
CallsSerialized ==
  \A t, u \in Threads : task[t].pc \in InCall /\ task[u].pc \in InCall => t = u
=============================================================================

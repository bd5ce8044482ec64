---------------------------- MODULE WriteBehind -----------------------------
(***************************************************************************)
(* How one live session's events reach storage: the batching controller of *)
(* packages/session/session-persistence/src/write-behind.ts together with  *)
(* the part of coordinator.ts that feeds it (session/event), drains it     *)
(* (session/flush, session/disposed) and writes for it (createWriteBehind, *)
(* appendLiveBatch, appendCore).                                           *)
(*                                                                         *)
(* An action is one JavaScript job.  A write settles in several jobs: its  *)
(* catch handler, its finally handler, then whoever awaited it; enqueue    *)
(* and flush may run between them, a timer may not.                        *)
(*                                                                         *)
(* A definition under a "Fault:" line is a plausible bug that a property   *)
(* catches when it replaces the definition below it; no action uses it.    *)
(***************************************************************************)
EXTENDS Naturals, FiniteSets, Sequences

CONSTANTS Caller,       \* flush calls made by session/flush
          Retirement,   \* the flush made when the session is disposed
          SeedEvents,   \* events the session was created with
          MaxEvents,    \* bound: events ever accepted
          MaxFailures   \* bound: failed writes, once initialized

ASSUME CallersAssumption == Retirement \notin Caller
ASSUME EventsAssumption ==
  /\ SeedEvents \in Nat
  /\ MaxEvents \in Nat
  /\ SeedEvents <= MaxEvents
  /\ MaxFailures \in Nat

Flush == Caller \cup {Retirement}

Event == 1 .. MaxEvents

VARIABLES
  accepted,         \* events in the session's log
  stored,           \* events in the backend, in order; its length is the cursor
  init,             \* live.init: "pending", "ready" or "failed"
  pending,          \* queued events
  timer,            \* the batching deadline is armed
  deadlineExpired,  \* it passed while a write was active
  automaticPaused,  \* a failed write stopped the automatic path
  active,           \* the write in progress: "none", "background" or "barrier"
  write,            \* how far it is: "none", "writing", "written" or "failed"
  batch,            \* its events
  continuation,     \* continueAutomatic is queued
  barrier,          \* drainBarrier: "none", "overlapping", "overlapped",
                    \*   "writing", "written" or "failed"
  flushState,       \* of each flush call
  mark,             \* history: events accepted when it was called
  closed,           \* the session is disposed
  released,         \* its controller is dropped
  failures          \* failed writes so far

queueVars   == <<pending, timer, deadlineExpired, automaticPaused>>
writeVars   == <<active, write, batch>>
flushVars   == <<flushState, mark>>
sessionVars == <<accepted, closed, released>>
backendVars == <<stored, init, failures>>
vars == <<sessionVars, backendVars, queueVars, writeVars, continuation,
          barrier, flushVars>>

Run(from, to) == [k \in 1 .. to + 1 - from |-> from + k - 1]

(* Either an earlier process stored part of the seed, or the session is    *)
(* prepared and fully stored.  The controller may have been created by the *)
(* first event itself, which is then in the seed too.                      *)
Init ==
  /\ accepted = SeedEvents
  /\ \/ /\ init = "pending"
        /\ \E n \in 0 .. SeedEvents : stored = Run(1, n)
        /\ \E late \in BOOLEAN :
             /\ late => SeedEvents > 0
             /\ pending = IF late THEN <<SeedEvents>> ELSE <<>>
             /\ timer = late
     \/ init = "ready" /\ stored = Run(1, SeedEvents) /\ pending = <<>> /\ timer = FALSE
  /\ deadlineExpired = FALSE /\ automaticPaused = FALSE
  /\ active = "none" /\ write = "none" /\ batch = <<>>
  /\ continuation = FALSE /\ barrier = "none"
  /\ flushState = [f \in Flush |-> "idle"] /\ mark = [f \in Flush |-> 0]
  /\ closed = FALSE /\ released = FALSE /\ failures = 0

-----------------------------------------------------------------------------
(* Building blocks of the controller.                                      *)

\* Fault: a flush leaves the batch timer armed.
TimerSurvives == timer' = timer /\ deadlineExpired' = FALSE

CancelAutomaticWait == timer' = FALSE /\ deadlineExpired' = FALSE

(* One stable prefix: everything queued.                                   *)
StartWrite(kind) ==
  /\ batch' = pending
  /\ pending' = <<>>
  /\ CancelAutomaticWait
  /\ active' = kind
  /\ write' = "writing"

\* Fault: a failed write resolves its drain.
SettleResolved(outcome) ==
  flushState' = [f \in Flush |->
    IF flushState[f] = "joined" /\ outcome = "resolved" THEN outcome ELSE flushState[f]]

Settle(outcome) ==
  flushState' = [f \in Flush |-> IF flushState[f] = "joined" THEN outcome ELSE flushState[f]]

(* The queue's next job is due before any timer.                           *)
JobQueued ==
  continuation \/ write \in {"written", "failed"}
    \/ barrier \in {"overlapped", "written", "failed"}

-----------------------------------------------------------------------------
(* The session's events.                                                   *)

NextEvent == accepted + 1

\* Fault: events behind a write arm no timer.
ArmsOnlyWhenEmpty == timer' = (timer \/ pending = <<>>)

(* A pause ends with new work; otherwise the window opens with the first   *)
(* queued event.                                                           *)
Rearm == timer' = (timer \/ automaticPaused \/ pending = <<>>)

Enqueue ==
  /\ ~closed
  /\ accepted < MaxEvents
  /\ accepted' = accepted + 1
  /\ pending' = Append(pending, NextEvent)
  /\ IF barrier # "none"
       THEN UNCHANGED <<timer, deadlineExpired, automaticPaused>>
       ELSE /\ Rearm
            /\ automaticPaused' = FALSE
            /\ deadlineExpired' = (deadlineExpired /\ ~automaticPaused)
  /\ UNCHANGED <<closed, released, backendVars, writeVars, continuation,
                 barrier, flushVars>>

\* Fault: a window that ends during a write is forgotten.
ExpiryForgotten == deadlineExpired' = deadlineExpired

(* The fixed window ends.                                                  *)
ExpiryRemembered == deadlineExpired' = TRUE

Deadline ==
  /\ timer
  /\ ~JobQueued
  /\ IF active # "none"
       THEN /\ timer' = FALSE
            /\ ExpiryRemembered
            /\ UNCHANGED <<pending, writeVars>>
       ELSE StartWrite("background")
  /\ UNCHANGED <<sessionVars, backendVars, automaticPaused, continuation,
                 barrier, flushVars>>

(* After a background write: its successor is over budget, or has a timer. *)
ContinueAutomatic ==
  /\ continuation
  /\ continuation' = FALSE
  /\ IF barrier = "none" /\ pending # <<>> /\ deadlineExpired
       THEN StartWrite("background")
       ELSE UNCHANGED <<pending, timer, deadlineExpired, writeVars>>
  /\ UNCHANGED <<sessionVars, backendVars, automaticPaused, barrier, flushVars>>

-----------------------------------------------------------------------------
(* A write: initialization first, then the batch without what that stored. *)

InitSucceeds ==
  /\ init = "pending"
  /\ init' = "ready"
  /\ stored' = Run(1, SeedEvents)
  /\ UNCHANGED <<sessionVars, failures, queueVars, writeVars, continuation,
                 barrier, flushVars>>

InitFails ==
  /\ init = "pending"
  /\ init' = "failed"
  /\ UNCHANGED <<sessionVars, stored, failures, queueVars, writeVars,
                 continuation, barrier, flushVars>>

(* The batch without the events that are already stored, in its order.     *)
Fresh ==
  LET kept   == {i \in DOMAIN batch : batch[i] > Len(stored)}
      nth(k) == CHOOSE i \in kept : Cardinality({j \in kept : j < i}) = k - 1
  IN [k \in 1 .. Cardinality(kept) |-> batch[nth(k)]]

Contiguous == \A k \in DOMAIN Fresh : Fresh[k] = Len(stored) + k

WriteSucceeds ==
  /\ write = "writing" /\ ~continuation
  /\ init = "ready"
  /\ Contiguous
  /\ stored' = stored \o Fresh
  /\ write' = "written"
  /\ batch' = <<>>
  /\ UNCHANGED <<sessionVars, init, failures, queueVars, active, continuation,
                 barrier, flushVars>>

Retained == batch \o pending

(* The backend stored nothing, or refused the batch: the events are kept.  *)
WriteFails ==
  /\ write = "writing" /\ ~continuation
  /\ \/ init = "failed" /\ UNCHANGED failures
     \/ init = "ready" /\ ~Contiguous /\ UNCHANGED failures
     \/ init = "ready" /\ failures < MaxFailures /\ failures' = failures + 1
  /\ write' = "failed"
  /\ pending' = Retained
  /\ batch' = <<>>
  /\ CancelAutomaticWait
  /\ automaticPaused' = TRUE
  /\ UNCHANGED <<sessionVars, stored, init, active, continuation, barrier,
                 flushVars>>

(* The finally handler, which also schedules whoever awaits the write.     *)
WriteSettles ==
  /\ write \in {"written", "failed"}
  /\ active' = "none" /\ write' = "none"
  /\ continuation' = (active = "background" /\ write = "written")
  /\ barrier' = CASE barrier = "overlapping" -> "overlapped"
                  [] barrier = "writing"     -> write
                  [] OTHER                   -> barrier
  /\ UNCHANGED <<sessionVars, backendVars, queueVars, batch, flushVars>>

-----------------------------------------------------------------------------
(* Flushes.                                                                *)

(* Every caller first cancels the batching wait, then awaits init.         *)
CallFlush(f) ==
  /\ flushState[f] = "idle"
  /\ flushState' = [flushState EXCEPT ![f] = "waiting"]
  /\ mark' = [mark EXCEPT ![f] = accepted]
  /\ CancelAutomaticWait

SessionFlush(f) ==
  /\ ~released
  /\ CallFlush(f)
  /\ UNCHANGED <<sessionVars, backendVars, pending, automaticPaused, writeVars,
                 continuation, barrier>>

FlushRejected(f) ==
  /\ flushState[f] = "waiting"
  /\ init = "failed"
  /\ flushState' = [flushState EXCEPT ![f] = "rejected"]
  /\ CancelAutomaticWait
  /\ UNCHANGED <<sessionVars, backendVars, pending, automaticPaused, writeVars,
                 continuation, barrier, mark>>

\* Fault: a flush writes beside the background write.
OverlapIgnored == FALSE

Overlaps == active # "none"

(* Join the barrier, or open one; it closes in this very job when nothing  *)
(* is queued and no write is active.                                       *)
JoinBarrier(f) ==
  /\ flushState[f] = "waiting"
  /\ init = "ready"
  /\ IF barrier # "none"
       THEN /\ flushState' = [flushState EXCEPT ![f] = "joined"]
            /\ UNCHANGED <<queueVars, writeVars, barrier>>
       ELSE /\ automaticPaused' = FALSE
            /\ \/ /\ Overlaps
                  /\ flushState' = [flushState EXCEPT ![f] = "joined"]
                  /\ barrier' = "overlapping"
                  /\ CancelAutomaticWait
                  /\ UNCHANGED <<pending, writeVars>>
               \/ /\ ~Overlaps /\ pending # <<>>
                  /\ flushState' = [flushState EXCEPT ![f] = "joined"]
                  /\ barrier' = "writing"
                  /\ StartWrite("barrier")
               \/ /\ ~Overlaps /\ pending = <<>>
                  /\ flushState' = [flushState EXCEPT ![f] = "resolved"]
                  /\ CancelAutomaticWait
                  /\ UNCHANGED <<pending, writeVars, barrier>>
  /\ UNCHANGED <<sessionVars, backendVars, continuation, mark>>

(* The barrier resumes after a write; admission closes in the job that     *)
(* sees the queue empty.                                                   *)
BarrierContinues ==
  /\ barrier \in {"overlapped", "written"}
  /\ automaticPaused' = (automaticPaused /\ barrier # "overlapped")
  /\ IF pending = <<>>
       THEN /\ barrier' = "none"
            /\ Settle("resolved")
            /\ UNCHANGED <<pending, timer, deadlineExpired, writeVars>>
       ELSE /\ barrier' = "writing"
            /\ StartWrite("barrier")
            /\ UNCHANGED flushState
  /\ UNCHANGED <<sessionVars, backendVars, continuation, mark>>

BarrierFails ==
  /\ barrier = "failed"
  /\ barrier' = "none"
  /\ Settle("rejected")
  /\ UNCHANGED <<sessionVars, backendVars, queueVars, writeVars, continuation,
                 mark>>

-----------------------------------------------------------------------------
(* Retirement: the disposed session accepts no more, is flushed, and its   *)
(* controller is dropped once that flush resolved.                         *)

Retire ==
  /\ ~closed
  /\ closed' = TRUE
  /\ CallFlush(Retirement)
  /\ UNCHANGED <<accepted, released, backendVars, pending, automaticPaused,
                 writeVars, continuation, barrier>>

\* Fault: retirement releases the session whatever the drain did.
DrainOver == flushState[Retirement] \in {"resolved", "rejected"}

DrainSucceeded == flushState[Retirement] = "resolved"

Release ==
  /\ DrainSucceeded
  /\ ~released
  /\ released' = TRUE
  /\ UNCHANGED <<accepted, closed, backendVars, queueVars, writeVars,
                 continuation, barrier, flushVars>>

-----------------------------------------------------------------------------

Next ==
  \/ Enqueue \/ Deadline \/ ContinueAutomatic
  \/ InitSucceeds \/ InitFails
  \/ WriteSucceeds \/ WriteFails \/ WriteSettles
  \/ \E f \in Caller : SessionFlush(f)
  \/ \E f \in Flush : FlushRejected(f) \/ JoinBarrier(f)
  \/ BarrierContinues \/ BarrierFails
  \/ Retire \/ Release

Spec == Init /\ [][Next]_vars

(* Timers fire, queued jobs run, and the backend answers each operation.   *)
Fairness ==
  /\ WF_vars(Deadline) /\ WF_vars(ContinueAutomatic)
  /\ WF_vars(InitSucceeds \/ InitFails)
  /\ WF_vars(WriteSucceeds \/ WriteFails) /\ WF_vars(WriteSettles)
  /\ \A f \in Flush : WF_vars(FlushRejected(f) \/ JoinBarrier(f))
  /\ WF_vars(BarrierContinues) /\ WF_vars(BarrierFails)
  /\ WF_vars(Release)

LiveSpec == Spec /\ Fairness

-----------------------------------------------------------------------------
(* Properties.                                                             *)

(* The state is well typed.                                                *)
TypeOK ==
  /\ accepted \in 0 .. MaxEvents
  /\ stored \in Seq(Event)
  /\ init \in {"pending", "ready", "failed"}
  /\ pending \in Seq(Event)
  /\ timer \in BOOLEAN /\ deadlineExpired \in BOOLEAN /\ automaticPaused \in BOOLEAN
  /\ active \in {"none", "background", "barrier"}
  /\ write \in {"none", "writing", "written", "failed"}
  /\ batch \in Seq(Event)
  /\ continuation \in BOOLEAN
  /\ barrier \in {"none", "overlapping", "overlapped", "writing", "written", "failed"}
  /\ flushState \in [Flush -> {"idle", "waiting", "joined", "resolved", "rejected"}]
  /\ mark \in [Flush -> 0 .. MaxEvents]
  /\ closed \in BOOLEAN /\ released \in BOOLEAN
  /\ failures \in 0 .. MaxFailures

(* Whatever fails and retries, the batch being written followed by the     *)
(* queue is one gapless run of the session's events up to the newest, and  *)
(* it starts no later than where storage ends: so no event is lost, none   *)
(* overtakes another, and the backend's contiguity check never refuses.    *)
QueueCoversTheRest ==
  LET first == accepted + 1 - Len(batch) - Len(pending)
  IN /\ batch \o pending = Run(first, accepted)
     /\ first <= Len(stored) + 1 \/ (init # "ready" /\ first <= SeedEvents + 1)

(* Queued events always have somebody who will write them: an armed timer, *)
(* a write in progress (whose end continues or has kept a timer), an open  *)
(* barrier, a flush awaiting initialization; or the queue is paused after  *)
(* a failure, which the next event or flush ends; or initialization failed *)
(* and nothing can be written.                                             *)
NeverStranded ==
  pending # <<>> =>
    \/ timer
    \/ deadlineExpired /\ (active # "none" \/ continuation)
    \/ barrier # "none"
    \/ \E f \in Flush : flushState[f] = "waiting"
    \/ automaticPaused
    \/ init = "failed"

(* The automatic path is quiet under a barrier and after a failure: no     *)
(* timer runs there, nor for an empty queue, and a pause holds events.     *)
AutomaticPathIsQuiet ==
  /\ timer => pending # <<>> /\ barrier = "none" /\ ~automaticPaused
  /\ automaticPaused => pending # <<>>

(* A controller is dropped only when every event of its session is stored: *)
(* otherwise it is kept, with its events.                                  *)
ReleasedIsDurable ==
  released => Len(stored) = accepted /\ pending = <<>> /\ active = "none"

Abstract == INSTANCE DurableLog WITH
              flushState <- [f \in Flush |-> IF flushState[f] = "joined" THEN "waiting"
                                                                       ELSE flushState[f]]

(* Storage grows by prefixes of what was accepted, and a flush resolves    *)
(* only when all accepted before the call is durable, though it may join a *)
(* barrier somebody else opened, overlap a background write, or race new   *)
(* events.                                                                 *)
ImplementsDurableLog == Abstract!Spec

(* Every accepted event becomes durable by itself, unless a failure paused *)
(* the automatic path or initialization failed.                            *)
EventuallyStored ==
  \A e \in Event :
    (accepted >= e) ~> (Len(stored) >= e \/ automaticPaused \/ init = "failed")

(* A flush never hangs: once events stop arriving (MaxEvents bounds them)  *)
(* it settles, also when the write it waits for is not its own or fails.   *)
FlushSettles ==
  \A f \in Flush :
    (flushState[f] = "waiting") ~> (flushState[f] \in {"resolved", "rejected"})
=============================================================================

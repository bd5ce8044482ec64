------------------------------ MODULE AgentLoop ------------------------------
(***************************************************************************)
(* One agent's driver: packages/core/agent-loop/src/agent.ts together with *)
(* the two inbox lists it consumes (packages/core/agent/src/inbox.ts).     *)
(*                                                                         *)
(* JavaScript runs one thing at a time, so an action here is the code      *)
(* between two points where somebody else can run: an await, or a          *)
(* synchronous publication whose observers may call back into the agent.   *)
(* pc names the point the driver has reached:                              *)
(*                                                                         *)
(*   awaits          preStep, decided, model, tools, stopping, again, exit *)
(*   agent/* events  woken (agent/status running), erred (agent/error)     *)
(*   session/event   boundary, entered, stepEnded, unwind, turnEnded       *)
(*                                                                         *)
(* In the last group the session refuses a second append, so an observer   *)
(* can still abort the activity but cannot insert, remove or clear.        *)
(*                                                                         *)
(* Two synchronous frames can be suspended under an observer: a waking     *)
(* send between its insertion and wakeDriver (wakeFrame), and a driver     *)
(* that has published its idle phase but not yet replayed its latched wake *)
(* (replayFrame).  Nothing asynchronous runs before they return.           *)
(*                                                                         *)
(* A definition under a "Fault:" line is a plausible bug that a property   *)
(* catches when it replaces the definition below it; no action uses it.    *)
(***************************************************************************)
EXTENDS Naturals, FiniteSets, Sequences

CONSTANTS SeedTurns,       \* turns in the log the session was resumed from
          MaxSeeded,       \* bound: messages already parked in that log
          MaxMessages,     \* bound: messages ever sent
          MaxCancels,      \* bound: cancels other than the disposal's
          MaxFaults,       \* bound: failures, rejected steps and emptied batches
          MaxMaintenance,  \* bound: maintenance tasks
          MaxSteps         \* bound: steps of one turn

ASSUME SeedTurnsIsNat == SeedTurns \in Nat
ASSUME BoundsAssumption ==
  /\ MaxSeeded \in Nat
  /\ MaxMessages \in Nat
  /\ MaxSeeded <= MaxMessages
  /\ MaxCancels \in Nat
  /\ MaxFaults \in Nat
  /\ MaxMaintenance \in Nat
  /\ MaxSteps \in Nat

Message == 1 .. MaxMessages     \* numbered in the order they are sent

VARIABLES
  phase,          \* "idle", "maintenance" or "running"
  turn,           \* lastTurn while idle or in maintenance, else phase.turn
  step,           \* phase.step
  wakeRequested,  \* the wake latch
  abort,          \* cause the activity's controller was aborted with, or "none"
  nextTurn,       \* inbox: prompts awaiting a turn each
  nextStep,       \* inbox: input awaiting the next step boundary
  pc,             \* where the driver is
  batch,          \* messages claimed for the step being proposed
  decision,       \* what pre-step decided
  turnEnds,       \* the turn's ending so far
  wakeFrame,      \* a send suspended before wakeDriver: "none", "live", "afterAbort"
  replayFrame,    \* a driver suspended before its replay: "none", "plain", "latched"
  activity,       \* identity of activityDone
  settled,        \* the activityDone promises that are resolved
  disposal,       \* "no", "requested" (cancelled, in whenIdle) or "done"
  watching,       \* the activityDone that whenIdle awaits
  trace,          \* the turn and step brackets in the session log
  transcript,     \* history: user/message events, with their origin
  discarded,      \* history: messages cancelled or removed from the inbox
  refused,        \* history: messages claimed by a step that never started
  waking,         \* history: messages sent with wakeup
  sawMax,         \* history: a step of this turn hit the output ceiling
  used            \* the budgets spent

inboxVars == <<nextTurn, nextStep>>
turnVars  == <<batch, decision, turnEnds, sawMax>>
waitVars  == <<disposal, watching>>
fateVars  == <<transcript, discarded, refused, waking>>
vars == <<phase, turn, step, wakeRequested, abort, inboxVars, pc, turnVars,
          wakeFrame, replayFrame, activity, settled, waitVars, trace, fateVars,
          used>>

Log == INSTANCE SessionTrace WITH CallId <- {}

-----------------------------------------------------------------------------
(* Control points.                                                         *)

Publishing == {"boundary", "entered", "stepEnded", "unwind", "turnEnded"}
Synchronous == Publishing \cup {"woken", "erred"}
Awaiting == {"preStep", "decided", "model", "tools", "stopping", "again", "exit"}

Aborted == abort # "none"
HasPending == nextTurn # <<>> \/ nextStep # <<>>

Elems(s) == {s[i] : i \in DOMAIN s}
Pending == Elems(nextTurn) \cup Elems(nextStep)

(* Public calls can arrive, and a session append would be accepted.        *)
Callable == pc \notin Publishing /\ disposal # "done"

(* The driver continues a synchronous stretch / resumes from an await.     *)
At(point) == pc = point /\ wakeFrame = "none"
Resumed(point) == At(point) /\ replayFrame = "none"

SentFrom(origin, s) == [i \in DOMAIN s |-> [message |-> s[i], origin |-> origin]]

Init ==
  /\ phase = "idle" /\ turn = SeedTurns /\ step = 0
  /\ wakeRequested = FALSE /\ abort = "none"
  /\ \E n \in 0 .. MaxSeeded :
       /\ nextTurn = [i \in 1 .. n |-> i]
       /\ used = [messages |-> n, cancels |-> 0, faults |-> 0, maintenance |-> 0]
  /\ nextStep = <<>>
  /\ pc = "none" /\ batch = <<>> /\ decision = "none"
  /\ turnEnds = "none" /\ sawMax = FALSE
  /\ wakeFrame = "none" /\ replayFrame = "none"
  /\ activity = 0 /\ settled = {0}
  /\ disposal = "no" /\ watching = 0
  /\ trace = Log!Fresh
  /\ transcript = <<>> /\ discarded = {} /\ refused = {} /\ waking = {}

-----------------------------------------------------------------------------
(* Waking and cancelling.                                                  *)

(* wakeDriver from idle: reserve the running phase and publish it.         *)
StartDriver ==
  /\ phase' = "running"
  /\ step' = 0
  /\ abort' = "none"
  /\ wakeRequested' = FALSE
  /\ activity' = activity + 1
  /\ pc' = "woken"

\* Fault: a wake latches whatever the live driver is doing.
LatchesAlways(afterAbort) == TRUE

(* Maintenance and aborted drivers cannot deliver the wake; disposal must  *)
(* not be delayed by one.                                                  *)
Latches(afterAbort) == abort # "disposed" /\ (phase = "maintenance" \/ afterAbort)

(* wakeDriver: start one driver, or latch the wake behind an activity that *)
(* cannot deliver it.                                                      *)
WakeDriver(afterAbort) ==
  \/ phase = "idle" /\ StartDriver
  \/ /\ phase # "idle"
     /\ wakeRequested' = (wakeRequested \/ Latches(afterAbort))
     /\ UNCHANGED <<phase, step, abort, activity, pc>>

\* Fault: a sent message jumps its queue.
AtFront(list, message) == <<message>> \o list

(* Where a sent message goes in its list. *)
AtEnd(list, message) == Append(list, message)

(* send, up to the publication of the inserted message.  A wake that finds *)
(* its activity aborted is re-targeted to the next turn.                   *)
Send(target, wakeup) ==
  LET afterAbort == wakeup /\ phase # "idle" /\ Aborted
      message == used.messages + 1
  IN
  /\ Callable
  /\ wakeFrame = "none"
  /\ used.messages < MaxMessages
  /\ used' = [used EXCEPT !.messages = message]
  /\ IF afterAbort \/ target = "next-turn"
       THEN nextTurn' = AtEnd(nextTurn, message) /\ UNCHANGED nextStep
       ELSE nextStep' = AtEnd(nextStep, message) /\ UNCHANGED nextTurn
  /\ waking' = IF wakeup THEN waking \cup {message} ELSE waking
  /\ wakeFrame' = CASE ~wakeup -> "none"
                    [] wakeup /\ afterAbort -> "afterAbort"
                    [] wakeup /\ ~afterAbort -> "live"
  /\ UNCHANGED <<phase, turn, step, wakeRequested, abort, pc, turnVars,
                 replayFrame, activity, settled, waitVars, trace, transcript,
                 discarded, refused>>

(* The rest of a waking send, after the observers of its insertion.        *)
Wake ==
  /\ wakeFrame # "none"
  /\ wakeFrame' = "none"
  /\ WakeDriver(wakeFrame = "afterAbort")
  /\ UNCHANGED <<turn, inboxVars, turnVars, replayFrame, settled, waitVars,
                 trace, fateVars, used>>

Without(list, i) == SubSeq(list, 1, i - 1) \o SubSeq(list, i + 1, Len(list))

(* inbox.remove of a pending message.                                      *)
Remove ==
  /\ Callable
  /\ \/ \E i \in DOMAIN nextTurn :
          /\ nextTurn' = Without(nextTurn, i)
          /\ discarded' = discarded \cup {nextTurn[i]}
          /\ UNCHANGED nextStep
     \/ \E i \in DOMAIN nextStep :
          /\ nextStep' = Without(nextStep, i)
          /\ discarded' = discarded \cup {nextStep[i]}
          /\ UNCHANGED nextTurn
  /\ UNCHANGED <<phase, turn, step, wakeRequested, abort, pc, turnVars,
                 wakeFrame, replayFrame, activity, settled, waitVars, trace,
                 transcript, refused, waking, used>>

(* cancel.  Clearing a non-empty inbox appends, which a publishing session *)
(* refuses before anything has changed.  The first cause wins.             *)
CancelWith(cause, keepInbox) ==
  /\ disposal # "done"
  /\ keepInbox \/ ~HasPending \/ pc \notin Publishing
  /\ IF keepInbox
       THEN UNCHANGED <<inboxVars, discarded, wakeRequested>>
       ELSE /\ nextTurn' = <<>> /\ nextStep' = <<>>
            /\ discarded' = discarded \cup Pending
            /\ wakeRequested' = FALSE
  /\ abort' = IF phase # "idle" /\ ~Aborted THEN cause ELSE abort
  /\ UNCHANGED <<phase, turn, step, pc, turnVars, wakeFrame, replayFrame,
                 activity, settled, trace, transcript, refused, waking>>

Cancel(keepInbox) ==
  /\ used.cancels < MaxCancels
  /\ used' = [used EXCEPT !.cancels = @ + 1]
  /\ CancelWith("user", keepInbox)
  /\ UNCHANGED waitVars

(* Lifecycle disposal: a disposed cancel, then whenIdle.                   *)
Dispose ==
  /\ disposal = "no"
  /\ CancelWith("disposed", FALSE)
  /\ disposal' = "requested"
  /\ watching' = activity
  /\ UNCHANGED used

\* Fault: whenIdle trusts the first promise that settles.
AnySettlement == TRUE

(* The awaited activity is still the agent's current one.                  *)
StillCurrent == watching = activity

(* One round of whenIdle: it returns only if no activity replaced the one  *)
(* it awaited.                                                             *)
WhenIdle ==
  /\ disposal = "requested"
  /\ watching \in settled
  /\ wakeFrame = "none" /\ replayFrame = "none" /\ pc \notin Synchronous
  /\ IF StillCurrent
       THEN disposal' = "done" /\ UNCHANGED watching
       ELSE watching' = activity /\ UNCHANGED disposal
  /\ UNCHANGED <<phase, turn, step, wakeRequested, abort, inboxVars, pc,
                 turnVars, wakeFrame, replayFrame, activity, settled, trace,
                 fateVars, used>>

-----------------------------------------------------------------------------
(* Maintenance.                                                            *)

\* Fault: an aborted activity never resolves.
SettleUnlessAborted == IF Aborted THEN settled ELSE settled \cup {activity}

(* The activity's promise resolves.                                        *)
Settle == settled \cup {activity}

RunMaintenance ==
  /\ phase = "idle"
  /\ Callable
  /\ used.maintenance < MaxMaintenance
  /\ used' = [used EXCEPT !.maintenance = @ + 1]
  /\ phase' = "maintenance"
  /\ abort' = "none"
  /\ wakeRequested' = FALSE
  /\ activity' = activity + 1
  /\ UNCHANGED <<turn, step, inboxVars, pc, turnVars, wakeFrame, replayFrame,
                 settled, waitVars, trace, fateVars>>

(* The task settles: back to idle, and a latched wake that still has work  *)
(* starts a driver before the task's activity resolves.                    *)
MaintenanceSettles ==
  /\ phase = "maintenance"
  /\ wakeFrame = "none" /\ replayFrame = "none"
  /\ settled' = Settle
  /\ IF wakeRequested /\ HasPending
       THEN StartDriver
       ELSE /\ phase' = "idle" /\ abort' = "none" /\ wakeRequested' = FALSE
            /\ UNCHANGED <<step, activity, pc>>
  /\ UNCHANGED <<turn, inboxVars, turnVars, wakeFrame, replayFrame, waitVars,
                 trace, fateVars, used>>

-----------------------------------------------------------------------------
(* The turn.                                                               *)

(* turn(): open the bracket, unless the activity was aborted before it.    *)
TurnStart ==
  /\ At("woken") \/ Resumed("again")
  /\ IF Aborted
       THEN pc' = "exit" /\ UNCHANGED <<turn, trace, turnEnds, sawMax>>
       ELSE /\ turn' = turn + 1
            /\ trace' = Log!TurnStarted(trace, turn + 1)
            /\ turnEnds' = "none"
            /\ sawMax' = FALSE
            /\ pc' = "boundary"
  /\ UNCHANGED <<phase, step, wakeRequested, abort, inboxVars, batch, decision,
                 wakeFrame, replayFrame, activity, settled, waitVars, fateVars,
                 used>>

\* Fault: every step boundary takes a queued prompt.
AnyBoundary == TRUE

(* Only a turn's first boundary targets next-turn, and so also consumes    *)
(* one queued prompt.                                                      *)
FirstBoundary == step = 0

ClaimedBatch ==
  SentFrom("next-step", nextStep) \o
    IF FirstBoundary /\ nextTurn # <<>>
      THEN SentFrom("next-turn", <<Head(nextTurn)>>)
      ELSE <<>>

\* Fault: the claimed prompt stays queued.
QueueUnclaimed == nextTurn

QueueAfterClaim ==
  IF FirstBoundary /\ nextTurn # <<>> THEN Tail(nextTurn) ELSE nextTurn

(* preStep, up to its first await: claim the batch.                        *)
Claim ==
  /\ At("boundary")
  /\ ~Aborted
  /\ nextStep' = <<>>
  /\ batch' = ClaimedBatch
  /\ nextTurn' = QueueAfterClaim
  /\ pc' = "preStep"
  /\ UNCHANGED <<phase, turn, step, wakeRequested, abort, decision, turnEnds,
                 sawMax, wakeFrame, replayFrame, activity, settled, waitVars,
                 trace, fateVars, used>>

(* The rest of preStep: assembly and the agent/pre-step waterfall.  A      *)
(* listener may leave one message out (DropClaimed) or the whole batch     *)
(* (Decide); runtime context may add a message of its own, so an empty     *)
(* batch can still enter.                                                  *)
DropClaimed ==
  /\ Resumed("preStep")
  /\ used.faults < MaxFaults
  /\ used' = [used EXCEPT !.faults = @ + 1]
  /\ \E i \in DOMAIN batch :
       /\ refused' = refused \cup {batch[i].message}
       /\ batch' = Without(batch, i)
  /\ UNCHANGED <<phase, turn, step, wakeRequested, abort, inboxVars, pc, decision,
                 turnEnds, sawMax, wakeFrame, replayFrame, activity, settled,
                 waitVars, trace, transcript, discarded, waking>>

Decide(verdict) ==
  /\ Resumed("preStep")
  /\ ~Aborted
  /\ \/ verdict = "messages" /\ UNCHANGED <<batch, refused, used>>
     \/ verdict = "empty" /\ batch = <<>> /\ UNCHANGED <<batch, refused, used>>
     \/ /\ verdict = "reject" \/ batch # <<>>
        /\ used.faults < MaxFaults
        /\ used' = [used EXCEPT !.faults = @ + 1]
        /\ refused' = refused \cup {batch[i].message : i \in DOMAIN batch}
        /\ batch' = <<>>
  /\ decision' = verdict
  /\ pc' = "decided"
  /\ UNCHANGED <<phase, turn, step, wakeRequested, abort, inboxVars, turnEnds,
                 sawMax, wakeFrame, replayFrame, activity, settled, waitVars,
                 trace, transcript, discarded, waking>>

(* The turn closes: turn/end is appended and its observers run.            *)
CloseTurn(reason) ==
  /\ turnEnds' = reason
  /\ trace' = Log!TurnEnded(trace, turn)
  /\ pc' = "turnEnded"

(* turn() after preStep, when no step starts.  A rejection wins even over  *)
(* an abort that arrived since; an ended turn with nothing more to say     *)
(* breaks; a first step with no message completes without a model call.    *)
EndWithoutStep ==
  /\ Resumed("decided")
  /\ \/ decision = "reject" /\ CloseTurn("blocked")
     \/ decision = "empty" /\ turnEnds # "none" /\ CloseTurn(turnEnds)
     \/ decision = "empty" /\ turnEnds = "none" /\ step = 0 /\ CloseTurn("completed")
  /\ decision' = "none"
  /\ UNCHANGED <<phase, turn, step, wakeRequested, abort, inboxVars, batch,
                 sawMax, wakeFrame, replayFrame, activity, settled, waitVars,
                 fateVars, used>>

Enters ==
  decision = "messages" \/ (decision = "empty" /\ turnEnds = "none" /\ step # 0)

(* step/start, then one user/message per admitted message.                 *)
StepStart ==
  /\ Resumed("decided")
  /\ Enters
  /\ ~Aborted
  /\ step' = step + 1
  /\ trace' = Log!StepStarted(trace, turn, step + 1)
  /\ transcript' = transcript \o
       [i \in DOMAIN batch |-> [message |-> batch[i].message, turn |-> turn,
                                step |-> step + 1, origin |-> batch[i].origin]]
  /\ batch' = <<>>
  /\ decision' = "none"
  /\ pc' = "entered"
  /\ UNCHANGED <<phase, turn, wakeRequested, abort, inboxVars, turnEnds, sawMax,
                 wakeFrame, replayFrame, activity, settled, waitVars, discarded,
                 refused, waking, used>>

\* Fault: no abort check between step/start and the request.
RequestModelUnchecked ==
  /\ At("entered")
  /\ pc' = "model"
  /\ UNCHANGED <<phase, turn, step, wakeRequested, abort, inboxVars, turnVars,
                 wakeFrame, replayFrame, activity, settled, waitVars, trace,
                 fateVars, used>>

(* step(): the abort check ahead of the first model request.               *)
RequestModel ==
  /\ At("entered")
  /\ ~Aborted
  /\ pc' = "model"
  /\ UNCHANGED <<phase, turn, step, wakeRequested, abort, inboxVars, turnVars,
                 wakeFrame, replayFrame, activity, settled, waitVars, trace,
                 fateVars, used>>

(* The response asks for tools, while the turn has a step to spare.        *)
RunTools ==
  /\ Resumed("model")
  /\ ~Aborted
  /\ pc' = "tools"
  /\ UNCHANGED <<phase, turn, step, wakeRequested, abort, inboxVars, turnVars,
                 wakeFrame, replayFrame, activity, settled, waitVars, trace,
                 fateVars, used>>

(* A committed tool result contributes a context message to next-step.     *)
AcceptContext ==
  /\ Resumed("tools")
  /\ used.messages < MaxMessages
  /\ used' = [used EXCEPT !.messages = @ + 1]
  /\ nextStep' = AtEnd(nextStep, used.messages + 1)
  /\ UNCHANGED <<phase, turn, step, wakeRequested, abort, nextTurn, pc,
                 turnVars, wakeFrame, replayFrame, activity, settled, waitVars,
                 trace, fateVars>>

\* Fault: the last step alone decides the turn's ending.
LastEnding(stepEnd) == stepEnd

(* The output ceiling is sticky over the endings of later steps.           *)
StickyEnding(stepEnd) == IF turnEnds = "max-tokens" THEN turnEnds ELSE stepEnd

(* step() returns: stepEnd is "none" when tools ran and none concluded.    *)
StepReturns(stepEnd) ==
  /\ \/ Resumed("model") /\ ~Aborted /\ stepEnd \in {"completed", "max-tokens"}
     \/ Resumed("tools") /\ stepEnd \in {"completed", "none"}
  /\ stepEnd = "none" => step < MaxSteps
  /\ turnEnds' = StickyEnding(stepEnd)
  /\ sawMax' = (sawMax \/ stepEnd = "max-tokens")
  /\ trace' = Log!StepEnded(trace, turn, step)
  /\ pc' = "stepEnded"
  /\ UNCHANGED <<phase, turn, step, wakeRequested, abort, inboxVars, batch,
                 decision, wakeFrame, replayFrame, activity, settled, waitVars,
                 fateVars, used>>

(* After step/end: an ended turn with no steering waits on turn-stopping.  *)
AfterStep ==
  /\ At("stepEnded")
  /\ ~Aborted
  /\ pc' = IF turnEnds # "none" /\ nextStep = <<>> THEN "stopping" ELSE "boundary"
  /\ UNCHANGED <<phase, turn, step, wakeRequested, abort, inboxVars, turnVars,
                 wakeFrame, replayFrame, activity, settled, waitVars, trace,
                 fateVars, used>>

(* agent/turn-stopping settled: steering that arrived meanwhile reopens    *)
(* the turn.                                                               *)
TurnStopped ==
  /\ Resumed("stopping")
  /\ ~Aborted
  /\ IF nextStep = <<>>
       THEN CloseTurn(turnEnds)
       ELSE pc' = "boundary" /\ UNCHANGED <<turnEnds, trace>>
  /\ UNCHANGED <<phase, turn, step, wakeRequested, abort, inboxVars, batch,
                 decision, sawMax, wakeFrame, replayFrame, activity, settled,
                 waitVars, fateVars, used>>

-----------------------------------------------------------------------------
(* Failure and abort inside a turn.                                        *)

\* Fault: a throw leaves the step open.
ThrowUnclosed == trace

(* The bracket events of a throw: an open step is closed on the way out.   *)
ThrowTrace ==
  IF pc \in {"entered", "model", "tools"} THEN Log!StepEnded(trace, turn, step) ELSE trace

(* A throw at an abort check or from a plugin, the model or a tool.  The   *)
(* claimed batch stays removed.                                            *)
Throw ==
  /\ \/ At("boundary") \/ At("entered") \/ At("stepEnded")
     \/ \E p \in {"preStep", "decided", "model", "tools", "stopping"} : Resumed(p)
  /\ \/ /\ Aborted
        /\ pc = "decided" => Enters
        /\ UNCHANGED used
     \/ /\ ~Aborted
        /\ pc \in {"preStep", "model", "tools", "stopping"}
        /\ used.faults < MaxFaults
        /\ used' = [used EXCEPT !.faults = @ + 1]
  /\ trace' = ThrowTrace
  /\ refused' = refused \cup {batch[i].message : i \in DOMAIN batch}
  /\ batch' = <<>>
  /\ decision' = "none"
  /\ pc' = "unwind"
  /\ UNCHANGED <<phase, turn, step, wakeRequested, abort, inboxVars, turnEnds,
                 sawMax, wakeFrame, replayFrame, activity, settled, waitVars,
                 transcript, discarded, waking>>

(* The catch: an aborted activity ends the turn aborted whatever was       *)
(* thrown, any other failure is published first.                           *)
Unwind ==
  /\ At("unwind")
  /\ IF Aborted
       THEN CloseTurn("aborted")
       ELSE pc' = "erred" /\ UNCHANGED <<turnEnds, trace>>
  /\ UNCHANGED <<phase, turn, step, wakeRequested, abort, inboxVars, batch,
                 decision, sawMax, wakeFrame, replayFrame, activity, settled,
                 waitVars, fateVars, used>>

EndErred ==
  /\ At("erred")
  /\ CloseTurn("error")
  /\ UNCHANGED <<phase, turn, step, wakeRequested, abort, inboxVars, batch,
                 decision, sawMax, wakeFrame, replayFrame, activity, settled,
                 waitVars, fateVars, used>>

-----------------------------------------------------------------------------
(* The driver between turns.                                               *)

(* The turn threw or returned false from inside its loop.                  *)
Leaves == turnEnds \in {"blocked", "aborted", "error"} \/ step = 0

(* A turn that broke out of its loop with work pending is followed by      *)
(* another under a fresh controller, which makes a latched wake stale.     *)
TurnReturns ==
  /\ At("turnEnded")
  /\ IF Leaves \/ ~HasPending
       THEN pc' = "exit" /\ UNCHANGED <<abort, wakeRequested, step>>
       ELSE pc' = "again" /\ abort' = "none" /\ wakeRequested' = FALSE /\ step' = 0
  /\ UNCHANGED <<phase, turn, inboxVars, turnVars, wakeFrame, replayFrame,
                 activity, settled, waitVars, trace, fateVars, used>>

(* kick's finally, first half: publish the idle phase.                     *)
GoIdle ==
  /\ Resumed("exit")
  /\ phase' = "idle"
  /\ abort' = "none"
  /\ wakeRequested' = FALSE
  /\ settled' = Settle
  /\ replayFrame' = IF wakeRequested THEN "latched" ELSE "plain"
  /\ pc' = "none"
  /\ UNCHANGED <<turn, step, inboxVars, turnVars, wakeFrame, activity, waitVars,
                 trace, fateVars, used>>

\* Fault: the latched wake is forgotten at idle.
ReplayNever == FALSE

ReplayDue == replayFrame = "latched" /\ HasPending

(* kick's finally, second half: replay the latched wake if it still has    *)
(* work.  An observer of the idle status may have started an activity.     *)
Replay ==
  /\ replayFrame # "none"
  /\ wakeFrame = "none"
  /\ pc \notin Synchronous
  /\ replayFrame' = "none"
  /\ IF ReplayDue
       THEN WakeDriver(FALSE)
       ELSE UNCHANGED <<phase, step, abort, wakeRequested, activity, pc>>
  /\ UNCHANGED <<turn, inboxVars, turnVars, wakeFrame, settled, waitVars, trace,
                 fateVars, used>>

-----------------------------------------------------------------------------
Driver ==
  \/ TurnStart \/ Claim
  \/ DropClaimed
  \/ \E verdict \in {"reject", "empty", "messages"} : Decide(verdict)
  \/ EndWithoutStep \/ StepStart \/ RequestModel \/ RunTools
  \/ \E stepEnd \in {"none", "completed", "max-tokens"} : StepReturns(stepEnd)
  \/ AfterStep \/ TurnStopped \/ Throw \/ Unwind \/ EndErred
  \/ TurnReturns \/ GoIdle \/ Replay

Caller ==
  \/ \E target \in {"next-turn", "next-step"}, wakeup \in BOOLEAN : Send(target, wakeup)
  \/ Remove
  \/ \E keepInbox \in BOOLEAN : Cancel(keepInbox)
  \/ Dispose
  \/ RunMaintenance

Next == Driver \/ Caller \/ Wake \/ AcceptContext \/ WhenIdle \/ MaintenanceSettles

Spec == Init /\ [][Next]_vars

(* The driver is one async function: whatever it awaits is assumed to      *)
(* settle, and then its continuation runs.  The same holds of a suspended  *)
(* send, of whenIdle and of a maintenance task.  Callers owe nothing.      *)
Fairness ==
  /\ WF_vars(Driver)
  /\ WF_vars(Wake)
  /\ WF_vars(WhenIdle)
  /\ WF_vars(MaintenanceSettles)

LiveSpec == Spec /\ Fairness

-----------------------------------------------------------------------------
(* Properties.                                                             *)

Endings == {"none", "completed", "max-tokens", "blocked", "aborted", "error"}

(* Every variable keeps its type.                                          *)
TypeOK ==
  /\ phase \in {"idle", "maintenance", "running"}
  /\ turn \in Nat /\ step \in Nat /\ activity \in Nat /\ watching \in Nat
  /\ wakeRequested \in BOOLEAN /\ sawMax \in BOOLEAN
  /\ abort \in {"none", "user", "disposed"}
  /\ nextTurn \in Seq(Message) /\ nextStep \in Seq(Message)
  /\ pc \in {"none"} \cup Synchronous \cup Awaiting
  /\ batch \in Seq([message : Message, origin : {"next-turn", "next-step"}])
  /\ decision \in {"none", "reject", "empty", "messages"}
  /\ turnEnds \in Endings
  /\ wakeFrame \in {"none", "live", "afterAbort"}
  /\ replayFrame \in {"none", "plain", "latched"}
  /\ settled \subseteq Nat
  /\ disposal \in {"no", "requested", "done"}
  /\ trace \in Log!SessionTraceRecord
  /\ transcript \in Seq([message : Message, turn : Nat, step : Nat,
                         origin : {"next-turn", "next-step"}])
  /\ discarded \subseteq Message /\ refused \subseteq Message
  /\ waking \subseteq Message
  /\ used \in [messages : 0 .. MaxMessages, cancels : Nat, faults : Nat,
               maintenance : Nat]

(* A message is delivered exactly once or not at all: at any moment each   *)
(* message sent is pending at one place, claimed, in the transcript once,  *)
(* discarded by a cancel or removal, or refused with its batch.            *)
Copies(message) ==
    Cardinality({i \in DOMAIN nextTurn : nextTurn[i] = message})
  + Cardinality({i \in DOMAIN nextStep : nextStep[i] = message})
  + Cardinality({i \in DOMAIN batch : batch[i].message = message})
  + Cardinality({i \in DOMAIN transcript : transcript[i].message = message})
  + Cardinality({fate \in {discarded, refused} : message \in fate})

EveryMessageHasOneFate ==
  \A m \in Message : Copies(m) = IF m <= used.messages THEN 1 ELSE 0

(* followup: "the item becomes the sole ordinary message of its own turn", *)
(* and opens it.                                                           *)
OwnTurn ==
  \A i, j \in DOMAIN transcript :
    /\ transcript[i].origin = "next-turn"
    /\ transcript[j].origin = "next-turn"
    /\ transcript[i].turn = transcript[j].turn
    => i = j /\ transcript[i].step = 1

(* Within each list, messages reach the transcript in the order they were  *)
(* sent, whatever was aborted, re-targeted or removed in between.          *)
InOrder ==
  \A i, j \in DOMAIN transcript :
    /\ i < j
    /\ transcript[i].origin = transcript[j].origin
    => transcript[i].message < transcript[j].message

(* With no driver, the log is balanced, its next turn is the one the agent *)
(* will open, and no claimed message is held.                              *)
IdleIsClosed ==
  phase # "running" =>
    /\ pc = "none"
    /\ batch = <<>>
    /\ trace.openTurn = 0 /\ trace.openStep = 0
    /\ trace.nextTurn = turn + 1

(* The wake latch is only ever held over an activity that cannot deliver   *)
(* the wake itself: maintenance, or a driver that is already aborted.      *)
LatchAwaitsConvergence ==
  wakeRequested => phase = "maintenance" \/ (phase = "running" /\ Aborted)

(* max-tokens is sticky: a turn one of whose steps hit the output ceiling  *)
(* is never reported completed, however many steps follow.                 *)
StickyCeiling ==
  pc = "turnEnded" /\ sawMax => turnEnds \in {"max-tokens", "blocked", "aborted", "error"}

(* When disposal's whenIdle returns, no driver, task or replay is left.    *)
DisposedIsQuiescent ==
  disposal = "done" => phase = "idle" /\ pc = "none" /\ replayFrame = "none"

(* No append of the driver is one the session invariant would veto.        *)
ImplementsSessionTrace == Log!Spec

(* Once aborted, an activity opens no turn and no step and asks the model  *)
(* nothing.                                                                *)
AbortSpendsNothing ==
  [][Aborted => /\ trace'.openTurn # 0 => trace.openTurn # 0
                /\ trace'.openStep # 0 => trace.openStep # 0
                /\ pc' = "model" => pc = "model"]_vars

(* A latched wake is honoured: a driver starts, unless the queue empties.  *)
LatchedWakeRuns == wakeRequested ~> (pc \in {"woken", "again"} \/ ~HasPending)

(* Disposal ends, even if messages keep waking the agent meanwhile.        *)
DisposalCompletes == disposal = "requested" ~> disposal = "done"

(* agent.ts: "Live drivers claim queued work themselves".  With no cancel, *)
(* failure or refusal, no waking message is left behind by an idle driver. *)
LiveDriverClaimsWakes ==
  /\ phase = "idle" /\ replayFrame = "none" /\ wakeFrame = "none"
  /\ used.cancels = 0 /\ used.faults = 0 /\ disposal = "no"
  => waking \cap Pending = {}

(* agent.ts: "disposal never latches, so teardown waits on no model turn". *)
(* The activity that a disposed cancel reached takes no new latch.         *)
DisposalNeverLatches ==
  [][/\ disposal = "requested" /\ watching = activity /\ activity \notin settled
     /\ wakeRequested'
     => wakeRequested]_vars
=============================================================================

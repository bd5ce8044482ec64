--------------------------- MODULE ToolScheduler ----------------------------
(***************************************************************************)
(* The tool calls of one assistant step: executeToolCalls of               *)
(* packages/core/agent-loop/src/tool-calls.ts with the four stages it      *)
(* drives in packages/core/tools/src/index.ts (prepare, dispatch,          *)
(* finalize, finish).                                                      *)
(*                                                                         *)
(* The scheduler is one async function; pc is where it stands:             *)
(*                                                                         *)
(*   awaiting   classify (between two groups), preparing, prepared,        *)
(*              started, finalizing, committed, racing, draining           *)
(*   running    filling, committing, skipping, skipped: no dispatch can    *)
(*              settle; observers of an event or result can only abort     *)
(*   over       returned, failed                                           *)
(*                                                                         *)
(* Dispatched calls run beside it.  Calls are numbered in model order, the *)
(* group being run is groupStart .. N (groupStart alone when exclusive),   *)
(* and nextToStart and committed count from the first call of the step.    *)
(*                                                                         *)
(* A definition under a "Fault:" line is a plausible bug that a property   *)
(* catches when it replaces the definition below it; no action uses it.    *)
(***************************************************************************)
EXTENDS Naturals, FiniteSets, Sequences

CONSTANTS N,            \* tool calls of the assistant message
          PoolSizes,    \* values the live setting maxParallelToolCalls may take
          WithContext,  \* calls whose result carries context for the next step
          Concluding    \* calls whose result concludes the turn

ASSUME NIsNat == N \in Nat
ASSUME PoolSizesArePositive == PoolSizes \subseteq Nat \ {0}

Call == 1 .. N

VARIABLES
  pc,
  nextToStart,  \* next call to start
  committed,    \* calls whose result is recorded
  groupStart,   \* first call of the group
  mode,         \* "parallel" or "exclusive": how the group was classified
  limit,        \* maxParallelToolCalls as read at the start of the group
  aborted,      \* the group's own reading of the signal
  signal,       \* the step's abort signal
  failure,      \* schedulerFailure: call whose stage failed first, or 0
  stage,        \* what prepare decided for the call being started
  phase,        \* of each call
  outcome,      \* of each call: its result so far (notRun, aborted: cancelled)
  inFlight,     \* started dispatches the scheduler has not yet collected
  concluded,    \* a recorded result concludes the turn
  log,          \* the tool events appended to the session
  accepted,     \* calls whose context was handed to the agent's inbox
  invoked,      \* history: calls whose tool body was invoked
  barrier       \* history: calls started in an exclusive group

groupVars == <<groupStart, mode, limit>>
runVars   == <<nextToStart, groupVars, aborted, stage, barrier>>
bodyVars  == <<phase, outcome, invoked>>
logVars   == <<committed, concluded, log, accepted>>
vars == <<pc, runVars, bodyVars, logVars, signal, failure, inFlight>>

ToolEvent == [type : {"tool/call", "tool/result"}, call : Call]

Calls(events)   == {events[k].call : k \in {j \in DOMAIN events : events[j].type = "tool/call"}}
Results(events) == {events[k].call : k \in {j \in DOMAIN events : events[j].type = "tool/result"}}

(* The step's brackets stay open throughout; the calls awaiting a result   *)
(* are read off the log.                                                   *)
Log == INSTANCE SessionTrace WITH
         CallId <- Call, SeedTurns <- 0,
         trace <- [openTurn |-> 1, openStep |-> 1, nextTurn |-> 1, nextStep |-> 1,
                   pendingCalls |-> Calls(log) \ Results(log),
                   namedTurn |-> 1, namedStep |-> 1]

Init ==
  /\ pc = "classify"
  /\ nextToStart = 1 /\ committed = 0
  /\ groupStart = 1 /\ mode = "exclusive" /\ limit \in PoolSizes
  /\ aborted = FALSE /\ signal \in BOOLEAN /\ failure = 0
  /\ stage = "none"
  /\ phase = [c \in Call |-> "waiting"]
  /\ outcome = [c \in Call |-> "none"]
  /\ inFlight = {}
  /\ concluded = FALSE /\ log = <<>> /\ accepted = <<>>
  /\ invoked = {} /\ barrier = {}

Append1(type, c) == Append(log, [type |-> type, call |-> c])

Executing == {c \in Call : phase[c] \in {"dispatched", "running"}}

Running == pc \in {"filling", "committing", "skipping", "skipped"}

Over == pc \in {"returned", "failed"}

-----------------------------------------------------------------------------
(* Groups.                                                                 *)

GroupEnd(m) == IF m = "parallel" THEN N ELSE groupStart

(* The calls left are classified afresh: a registry change between groups  *)
(* counts.                                                                 *)
Classify ==
  /\ pc = "classify"
  /\ IF nextToStart > N
       THEN /\ pc' = "returned"
            /\ UNCHANGED runVars
       ELSE /\ pc' = "filling"
            /\ groupStart' = nextToStart
            /\ mode' \in {"parallel", "exclusive"}
            /\ limit' \in PoolSizes
            /\ aborted' = signal
            /\ UNCHANGED <<nextToStart, stage, barrier>>
  /\ UNCHANGED <<bodyVars, logVars, signal, failure, inFlight>>

\* Fault: the pool admits one call too many.
OverfullPool ==
  /\ ~aborted
  /\ nextToStart <= GroupEnd(mode)
  /\ Cardinality(inFlight) <= limit

(* fillPool's loop condition.                                              *)
MayStart ==
  /\ ~aborted
  /\ nextToStart <= GroupEnd(mode)
  /\ Cardinality(inFlight) < limit

\* Fault: the mode of a later call is not read again.
JoinsUnchecked(kind) == nextToStart = groupStart => kind = mode

(* The first call of a group keeps the mode that opened the group; a later *)
(* one is classified again, and joins only while it is still parallel.     *)
Joins(kind) ==
  IF nextToStart = groupStart THEN kind = mode ELSE kind = "parallel"

(* The call's event precedes the ordered pre-execute gate.                 *)
StartCall(kind) ==
  /\ pc = "filling"
  /\ MayStart
  /\ Joins(kind)
  /\ log' = Append1("tool/call", nextToStart)
  /\ phase' = [phase EXCEPT ![nextToStart] = "preparing"]
  /\ barrier' = IF kind = "exclusive" THEN barrier \cup {nextToStart} ELSE barrier
  /\ pc' = "preparing"
  /\ UNCHANGED <<nextToStart, groupVars, aborted, stage, outcome, invoked,
                 committed, concluded, accepted, signal, failure, inFlight>>

Fails(c) == failure' = IF failure = 0 THEN c ELSE failure

(* The session refuses the call's event.                                   *)
StartThrows ==
  /\ pc = "filling"
  /\ MayStart
  /\ Fails(nextToStart)
  /\ pc' = "draining"
  /\ UNCHANGED <<runVars, bodyVars, logVars, signal, inFlight>>

\* Fault: a group is left with siblings in flight after an abort.
AfterPoolEager == IF aborted THEN "skipping" ELSE IF inFlight # {} THEN "racing" ELSE "classify"

(* Nothing (more) may start: wait for a dispatch, or leave the group.      *)
AfterPool ==
  IF inFlight # {} THEN "racing" ELSE IF aborted THEN "skipping" ELSE "classify"

StopFilling ==
  /\ pc = "filling"
  /\ \/ ~MayStart
     \/ nextToStart > groupStart      \* reclassified: a barrier
  /\ pc' = AfterPool
  /\ UNCHANGED <<runVars, bodyVars, logVars, signal, failure, inFlight>>

-----------------------------------------------------------------------------
(* Starting a call: prepare, then dispatch without waiting.                *)

(* The gate allows only a call whose signal is still live; a denial still  *)
(* gets post-execute, a broken call or pipeline does not.                  *)
Preparations ==
  {<<"post", "error">>, <<"final", "error">>}
    \cup IF signal THEN {<<"post", "notRun">>, <<"final", "notRun">>}
                   ELSE {<<"dispatch", "none">>}

PrepareDecides ==
  /\ pc = "preparing"
  /\ \E p \in Preparations :
       /\ stage' = p[1]
       /\ outcome' = [outcome EXCEPT ![nextToStart] = p[2]]
  /\ pc' = "prepared"
  /\ UNCHANGED <<nextToStart, groupVars, aborted, barrier, phase, invoked,
                 logVars, signal, failure, inFlight>>

PrepareThrows ==
  /\ pc = "preparing"
  /\ Fails(nextToStart)
  /\ pc' = "draining"
  /\ UNCHANGED <<runVars, bodyVars, logVars, signal, inFlight>>

\* Fault: a failure does not stop further dispatches.
HealthyUnchecked == TRUE

Healthy == failure = 0

Prepared ==
  /\ pc = "prepared"
  /\ Healthy
  /\ phase' = [phase EXCEPT ![nextToStart] =
                 IF stage = "dispatch" THEN "dispatched" ELSE stage]
  /\ inFlight' = IF stage = "dispatch" THEN inFlight \cup {nextToStart} ELSE inFlight
  /\ stage' = "none"
  /\ pc' = "started"
  /\ UNCHANGED <<nextToStart, groupVars, aborted, barrier, outcome, invoked,
                 logVars, signal, failure>>

CallStarted ==
  /\ pc = "started"
  /\ Healthy
  /\ nextToStart' = nextToStart + 1
  /\ pc' = "committing"
  /\ UNCHANGED <<groupVars, aborted, stage, barrier, bodyVars, logVars,
                 signal, failure, inFlight>>

(* throwSchedulerFailure at the points where the scheduler resumes.        *)
FailureSeen ==
  /\ pc \in {"prepared", "started", "committed"}
  /\ failure # 0
  /\ pc' = "draining"
  /\ UNCHANGED <<runVars, bodyVars, logVars, signal, failure, inFlight>>

-----------------------------------------------------------------------------
(* A dispatched call, beside the scheduler (tools/src/index.ts).           *)

\* Fault: any abort reports the body as never run.
SupersedeBlindly(c, r) == IF signal /\ r = "ok" THEN "notRun" ELSE r

(* Cancellation replaces a success, by whether the body was invoked.       *)
Supersede(c, r) ==
  IF signal /\ r = "ok"
    THEN IF c \in invoked THEN "aborted" ELSE "notRun"
    ELSE r

(* The around-dispatch wrappers reach the tool body.                       *)
InvokeBody(c) ==
  /\ ~Running
  /\ phase[c] = "dispatched"
  /\ ~signal
  /\ phase' = [phase EXCEPT ![c] = "running"]
  /\ invoked' = invoked \cup {c}
  /\ UNCHANGED <<pc, runVars, outcome, logVars, signal, failure, inFlight>>

(* A wrapper may answer without the body or abort the call's own signal;   *)
(* a pipeline failure is final.                                            *)
DispatchSettles(c) ==
  /\ ~Running
  /\ c \in Executing
  /\ \/ \E r \in {"ok", "error", IF c \in invoked THEN "aborted" ELSE "notRun"} :
          /\ phase' = [phase EXCEPT ![c] = "post"]
          /\ outcome' = [outcome EXCEPT ![c] = Supersede(c, r)]
     \/ /\ phase' = [phase EXCEPT ![c] = "final"]
        /\ outcome' = [outcome EXCEPT ![c] = "error"]
  /\ UNCHANGED <<pc, runVars, invoked, logVars, signal, failure, inFlight>>

DispatchRejects(c) ==
  /\ ~Running
  /\ c \in Executing
  /\ phase' = [phase EXCEPT ![c] = "broken"]
  /\ Fails(c)
  /\ UNCHANGED <<pc, runVars, outcome, invoked, logVars, signal, inFlight>>

-----------------------------------------------------------------------------
(* commitReady: the contiguous settled calls, in model order.              *)

Ready(stages) ==
  /\ committed < GroupEnd(mode)
  /\ phase[committed + 1] \in stages

Answer(c, r) ==
  /\ log' = Append1("tool/result", c)
  /\ outcome' = [outcome EXCEPT ![c] = r]
  /\ phase' = [phase EXCEPT ![c] = "done"]

(* The result event, then its context for the next step boundary.          *)
Record(c, r) ==
  /\ Answer(c, r)
  /\ accepted' = IF c \in WithContext THEN Append(accepted, c) ELSE accepted
  /\ concluded' = (concluded \/ c \in Concluding)
  /\ committed' = committed + 1
  /\ pc' = "committing"
  /\ UNCHANGED <<runVars, invoked, signal, failure, inFlight>>

CommitFinal ==
  /\ pc = "committing"
  /\ Ready({"final"})
  /\ Record(committed + 1, outcome[committed + 1])

FinalizeStarts ==
  /\ pc = "committing"
  /\ Ready({"post"})
  /\ pc' = "finalizing"
  /\ UNCHANGED <<runVars, bodyVars, logVars, signal, failure, inFlight>>

(* Post-execute accepts the result, or blocks it or fails.                 *)
CommitPost ==
  /\ pc = "finalizing"
  /\ LET c == committed + 1
     IN \E r \in {outcome[c], "error"} : Record(c, Supersede(c, r))

(* The finalizing stage throws, or the session refuses the result.         *)
CommitThrows ==
  /\ \/ pc = "committing" /\ Ready({"final"})
     \/ pc = "finalizing"
  /\ Fails(committed + 1)
  /\ pc' = "draining"
  /\ UNCHANGED <<runVars, bodyVars, logVars, signal, inFlight>>

(* The agent's inbox refuses the context of a result already recorded.     *)
ContextThrows ==
  LET c == committed + 1
  IN /\ c \in WithContext
     /\ \/ pc = "committing" /\ Ready({"final"}) /\ Answer(c, outcome[c])
        \/ pc = "finalizing" /\ \E r \in {outcome[c], "error"} : Answer(c, Supersede(c, r))
     /\ Fails(c)
     /\ pc' = "draining"
     /\ UNCHANGED <<runVars, invoked, committed, concluded, accepted, signal, inFlight>>

CommitStops ==
  /\ pc = "committing"
  /\ ~Ready({"post", "final"})
  /\ pc' = "committed"
  /\ UNCHANGED <<runVars, bodyVars, logVars, signal, failure, inFlight>>

\* Fault: the abort is only read where it was first read.
HeardOnce(a) == a

Heard(a) == a \/ signal

(* Abort may have arrived while a stage was awaited.                       *)
Refill ==
  /\ pc = "committed"
  /\ Healthy
  /\ aborted' = Heard(aborted)
  /\ pc' = "filling"
  /\ UNCHANGED <<nextToStart, groupVars, stage, barrier, bodyVars, logVars,
                 signal, failure, inFlight>>

-----------------------------------------------------------------------------
(* Waiting for the pool.                                                   *)

\* Fault: a settled dispatch stays in the pool.
Uncollected(c) == inFlight

Collected(c) == inFlight \ {c}

(* Promise.race: any settled dispatch.                                     *)
Race(c) ==
  /\ pc = "racing"
  /\ c \in inFlight \ Executing
  /\ inFlight' = Collected(c)
  /\ pc' = IF failure # 0 THEN "draining" ELSE "committing"
  /\ UNCHANGED <<runVars, bodyVars, logVars, signal, failure>>

\* Fault: a failure leaves without draining the pool.
QuiescentNever == TRUE

Quiescent == inFlight \cap Executing = {}

(* Promise.allSettled, then the failure reaches the turn.                  *)
Drained ==
  /\ pc = "draining"
  /\ Quiescent
  /\ pc' = "failed"
  /\ UNCHANGED <<runVars, bodyVars, logVars, signal, failure, inFlight>>

-----------------------------------------------------------------------------
(* Abort: calls never started are recorded as such, in model order.        *)

SkipCall ==
  /\ pc = "skipping"
  /\ nextToStart <= N
  /\ log' = Append1("tool/call", nextToStart)
  /\ pc' = "skipped"
  /\ UNCHANGED <<runVars, bodyVars, committed, concluded, accepted, signal,
                 failure, inFlight>>

SkipResult ==
  /\ pc = "skipped"
  /\ log' = Append1("tool/result", nextToStart)
  /\ phase' = [phase EXCEPT ![nextToStart] = "done"]
  /\ outcome' = [outcome EXCEPT ![nextToStart] = "notRun"]
  /\ nextToStart' = nextToStart + 1
  /\ pc' = "skipping"
  /\ UNCHANGED <<groupVars, aborted, stage, barrier, invoked, committed,
                 concluded, accepted, signal, failure, inFlight>>

(* The session refuses either event of a skipped call: no dispatch is left *)
(* to wait for.                                                            *)
SkipThrows ==
  /\ pc \in {"skipping", "skipped"}
  /\ nextToStart <= N
  /\ Fails(nextToStart)
  /\ phase' = IF pc = "skipped" THEN [phase EXCEPT ![nextToStart] = "broken"] ELSE phase
  /\ pc' = "failed"
  /\ UNCHANGED <<runVars, outcome, invoked, logVars, signal, inFlight>>

\* Fault: skipping starts past the group that was aborted.
SkipDoneWithGroup ==
  /\ pc = "skipping"
  /\ nextToStart > GroupEnd(mode)
  /\ pc' = "returned"
  /\ UNCHANGED <<runVars, bodyVars, logVars, signal, failure, inFlight>>

SkipDone ==
  /\ pc = "skipping"
  /\ nextToStart > N
  /\ pc' = "returned"
  /\ UNCHANGED <<runVars, bodyVars, logVars, signal, failure, inFlight>>

(* Anyone may abort the step whenever other code runs: between awaits, and *)
(* from an observer of the event just appended.                            *)
Abort ==
  /\ ~Over /\ pc # "filling"
  /\ ~signal
  /\ signal' = TRUE
  /\ UNCHANGED <<pc, runVars, bodyVars, logVars, failure, inFlight>>

-----------------------------------------------------------------------------

Scheduler ==
  \/ Classify \/ StopFilling
  \/ \E kind \in {"parallel", "exclusive"} : StartCall(kind)
  \/ StartThrows
  \/ PrepareDecides \/ PrepareThrows \/ Prepared \/ CallStarted \/ FailureSeen
  \/ CommitFinal \/ FinalizeStarts \/ CommitPost \/ CommitThrows \/ ContextThrows
  \/ CommitStops \/ Refill
  \/ \E c \in Call : Race(c)
  \/ Drained \/ SkipCall \/ SkipResult \/ SkipThrows \/ SkipDone

Settlement(c) == DispatchSettles(c) \/ DispatchRejects(c)

Next ==
  \/ Scheduler
  \/ \E c \in Call : InvokeBody(c) \/ Settlement(c)
  \/ Abort

Spec == Init /\ [][Next]_vars

(* The scheduler is one promise chain, which the event loop keeps running; *)
(* a dispatched call eventually settles (a tool that never does keeps the  *)
(* step open by design).                                                   *)
Fairness ==
  /\ WF_vars(Scheduler)
  /\ \A c \in Call : WF_vars(Settlement(c))

LiveSpec == Spec /\ Fairness

-----------------------------------------------------------------------------
(* Properties.                                                             *)

Phase == {"waiting", "preparing", "dispatched", "running", "post", "final",
          "broken", "done"}

Outcome == {"none", "ok", "error", "aborted", "notRun"}

(* The state is well typed, and no result is committed for a call that was *)
(* not started (tool-calls.ts, runGroup).                                  *)
TypeOK ==
  /\ pc \in {"classify", "filling", "preparing", "prepared", "started",
             "committing", "finalizing", "committed", "racing", "draining",
             "skipping", "skipped", "returned", "failed"}
  /\ nextToStart \in 1 .. N + 1
  /\ committed \in 0 .. N
  /\ groupStart \in 1 .. N + 1
  /\ mode \in {"parallel", "exclusive"}
  /\ limit \in PoolSizes
  /\ aborted \in BOOLEAN
  /\ signal \in BOOLEAN
  /\ failure \in 0 .. N
  /\ stage \in {"none", "dispatch", "post", "final"}
  /\ phase \in [Call -> Phase]
  /\ outcome \in [Call -> Outcome]
  /\ inFlight \subseteq Call
  /\ concluded \in BOOLEAN
  /\ log \in Seq(ToolEvent)
  /\ accepted \in Seq(Call)
  /\ invoked \subseteq Call
  /\ barrier \subseteq Call

Increasing(s) == \A j, k \in DOMAIN s : j < k => s[j] < s[k]

OrderedByType ==
  \A j, k \in DOMAIN log :
    (j < k /\ log[j].type = log[k].type) => log[j].call < log[k].call

(* However the dispatches interleave, the log holds the call events, and   *)
(* separately the results, of an initial run of the calls in model order   *)
(* with none repeated, and contexts reach the inbox in that order, each    *)
(* after its call's result (tool-calls.ts header: "policy, results, and    *)
(* result context remain model-ordered").                                  *)
ModelOrder ==
  /\ OrderedByType
  /\ \A calls \in {Calls(log), Results(log)} : \A c \in calls : 1 .. c \subseteq calls
  /\ Increasing(accepted)
  /\ \A k \in DOMAIN accepted : accepted[k] \in Results(log)

(* When the scheduler returns, completed or aborted at any point, every    *)
(* call of the message is answered in the log, so the transcript replays.  *)
AnsweredOnReturn == pc = "returned" => Calls(log) = Call /\ Results(log) = Call

(* While a call started as a barrier is anywhere between its call event    *)
(* and its result, no other call of the step is: earlier ones are recorded *)
(* and later ones untouched.                                               *)
ExclusiveRunsAlone ==
  \A b \in barrier :
    (phase[b] # "done" /\ ~Over)
      => \A c \in Call \ {b} : phase[c] = IF c < b THEN "done" ELSE "waiting"

(* No more dispatches overlap than the limit the group read, whatever the  *)
(* setting becomes meanwhile.                                              *)
PoolIsBounded == Cardinality(inFlight \cup Executing) <= limit

(* What the log says of a cancelled call is what happened: "aborted before *)
(* dispatch" only of a call whose body was never invoked, "aborted" only   *)
(* of one whose body was.                                                  *)
HonestOutcome ==
  \A c \in Results(log) :
    /\ outcome[c] = "notRun" => c \notin invoked
    /\ outcome[c] = "aborted" => c \in invoked

(* A group is left only when every call it started is recorded: the throw  *)
(* marked unreachable ("a non-aborted group commits every started call")   *)
(* is, and a group left by abort has lost no settled result either.        *)
NothingSettledIsLost ==
  pc \in {"classify", "skipping"} => Results(log) = 1 .. nextToStart - 1

(* The scheduler's rejection waits for every started dispatch, and leaves  *)
(* the log as the failure found it: the calls it started keep their call   *)
(* event, and only those that really settled have a result.                *)
FailureDrains ==
  pc = "failed" =>
    /\ Executing = {}
    /\ \A c \in Call \ Results(log) : phase[c] # "done"
    /\ Calls(log) = {c \in Call : phase[c] # "waiting"}

(* Once the step is aborted no body is invoked and no further call starts. *)
AbortStopsStarts ==
  [][signal => /\ invoked' = invoked
               /\ \A c \in Call : phase[c] = "waiting" => phase'[c] # "preparing"]_vars

(* After the first scheduler failure nothing starts or is dispatched, and  *)
(* it is that failure, not a later one, the step will report.              *)
FailureStopsDispatch ==
  [][failure # 0 =>
       /\ failure' = failure
       /\ \A c \in Call : phase'[c] \in {"preparing", "dispatched"}
                            => phase'[c] = phase[c]]_vars

(* The session never vetoes an event: each result answers a pending call   *)
(* of the open step.                                                       *)
AppendsAccepted == [][Log!Execute]_log

(* The step's calls do end, under failure and abort alike, once the tools  *)
(* already dispatched settle.                                              *)
Terminates == <>Over
=============================================================================

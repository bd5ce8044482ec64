---------------------------- MODULE SessionTrace ----------------------------
(***************************************************************************)
(* What the session package accepts as a legal event log: the bookkeeping  *)
(* of packages/core/session/src/invariant.ts, which vetoes the append of   *)
(* an event that breaks it.  This is the abstract specification of every   *)
(* component that appends execution events: AgentLoop and ToolScheduler    *)
(* apply the transitions WITHOUT the checks, and are shown to implement    *)
(* Spec, that is, never to attempt an append the invariant would veto.     *)
(*                                                                         *)
(* Turns and steps are numbered from 1; the code's null is 0.  A bracket   *)
(* event names the turn (and step) it is about: the trace keeps the        *)
(* numbers the last one named, which must be those the bookkeeping expects.*)
(***************************************************************************)
EXTENDS Naturals

CONSTANTS CallId,       \* tool calls of the log
          SeedTurns     \* closed turns in the log the session started from

VARIABLE trace

SessionTraceRecord ==
  [openTurn : Nat, openStep : Nat, nextTurn : Nat, nextStep : Nat,
   pendingCalls : SUBSET CallId, namedTurn : Nat, namedStep : Nat]

Fresh ==
  [openTurn |-> 0, openStep |-> 0, nextTurn |-> SeedTurns + 1, nextStep |-> 1,
   pendingCalls |-> {}, namedTurn |-> 0, namedStep |-> 0]

-----------------------------------------------------------------------------
(* The transition each event makes on the committed trace.                 *)

TurnStarted(t, turn) ==
  [t EXCEPT !.namedTurn = turn, !.namedStep = 0, !.openTurn = turn, !.nextStep = 1]

TurnEnded(t, turn) ==
  [t EXCEPT !.namedTurn = turn, !.namedStep = 0, !.openTurn = 0, !.nextTurn = @ + 1]

StepStarted(t, turn, step) ==
  [t EXCEPT !.namedTurn = turn, !.namedStep = step, !.openStep = step]

StepEnded(t, turn, step) ==
  [t EXCEPT !.namedTurn = turn, !.namedStep = step, !.openStep = 0,
            !.nextStep = @ + 1, !.pendingCalls = {}]

Called(t, call) == [t EXCEPT !.pendingCalls = @ \cup {call}]

Resulted(t, call) == [t EXCEPT !.pendingCalls = @ \ {call}]

-----------------------------------------------------------------------------
(* The events the validator accepts.                                       *)

Init == trace = Fresh

StartTurn ==
  /\ trace.openTurn = 0
  /\ trace' = TurnStarted(trace, trace.nextTurn)

EndTurn ==
  /\ trace.openTurn # 0
  /\ trace.openStep = 0
  /\ trace' = TurnEnded(trace, trace.openTurn)

StartStep ==
  /\ trace.openTurn # 0
  /\ trace.openStep = 0
  /\ trace' = StepStarted(trace, trace.openTurn, trace.nextStep)

EndStep ==
  /\ trace.openTurn # 0
  /\ trace.openStep # 0
  /\ trace' = StepEnded(trace, trace.openTurn, trace.openStep)

ToolCall(call) ==
  /\ trace.openStep # 0
  /\ trace' = Called(trace, call)

(* A result answers a call of its own step.                                *)
ToolResult(call) ==
  /\ trace.openStep # 0
  /\ call \in trace.pendingCalls
  /\ trace' = Resulted(trace, call)

(* The two exceptions: a result marked TOOL_NOT_STARTED needs no call, and *)
(* a content rewrite of a recorded result needs only an open turn.         *)
NotStartedResult(call) ==
  /\ trace.openStep # 0
  /\ trace' = Resulted(trace, call)

ReplaceResult ==
  /\ trace.openTurn # 0
  /\ UNCHANGED trace

(* The events of an execution, which takes no exception.                   *)
Execute ==
  \/ StartTurn \/ EndTurn \/ StartStep \/ EndStep
  \/ \E call \in CallId : ToolCall(call) \/ ToolResult(call)

Next == Execute \/ ReplaceResult \/ \E call \in CallId : NotStartedResult(call)

Spec == Init /\ [][Next]_trace
=============================================================================

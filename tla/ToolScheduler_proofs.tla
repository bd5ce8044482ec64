------------------------ MODULE ToolScheduler_proofs -------------------------
(***************************************************************************)
(* What the tool-call scheduler guarantees for any number of calls and any *)
(* pool sizes: the inductive invariant that ties its position to the       *)
(* progress of each call, to the pool and to the session's log, and the    *)
(* properties that follow from it.                                         *)
(***************************************************************************)
EXTENDS ToolScheduler, FiniteSetTheorems, TLAPS

-----------------------------------------------------------------------------
(* The inductive invariant.                                                *)

(* Started, and not yet recorded.                                          *)
Started == {"dispatched", "running", "post", "final", "broken"}

(* No group is open.                                                       *)
Between == {"classify", "skipping", "skipped", "returned"}

(* The next call is being started.                                         *)
Starting == {"preparing", "prepared", "started"}

Failing == {"draining", "failed"}

(* The group contains what is started of it, and a call is recorded only   *)
(* once it is started.                                                     *)
PositionInv ==
  /\ committed < nextToStart
  /\ groupStart <= nextToStart
  /\ pc = "classify" => committed = nextToStart - 1
  /\ pc = "returned" => nextToStart = N + 1
  /\ pc = "skipped" => nextToStart <= N
  /\ pc \notin Between \cup {"failed"} =>
       groupStart <= N /\ groupStart <= committed + 1 /\ nextToStart <= GroupEnd(mode) + 1
  /\ pc \in Starting => nextToStart <= GroupEnd(mode)
  /\ pc = "finalizing" => Ready({"post"})
  /\ pc = "prepared" => stage # "none"

(* How far each call is, by where it is relative to the two counters.      *)
PhaseInv ==
  /\ \A c \in Call : c <= committed => phase[c] = "done"
  /\ \A c \in Call : committed < c /\ c < nextToStart =>
       /\ pc \in Between => phase[c] = "done"
       /\ pc \in Failing => phase[c] \in Started \cup {"done"}
       /\ pc \notin Between \cup Failing => phase[c] \in Started
  /\ \A c \in Call : c = nextToStart =>
       /\ pc \in {"preparing", "prepared"} => phase[c] = "preparing"
       /\ pc = "started" => phase[c] \in Started
       /\ pc \in Failing => phase[c] \in Started \cup {"waiting", "preparing"}
       /\ pc = "draining" /\ phase[c] # "waiting" => c <= GroupEnd(mode)
       /\ pc \notin Starting \cup Failing => phase[c] = "waiting"
  /\ \A c \in Call : nextToStart < c => phase[c] = "waiting"

(* Every running dispatch is in the pool; at the end of a commit round the *)
(* first call not recorded is.                                             *)
PoolInv ==
  /\ Executing \subseteq inFlight
  /\ Cardinality(inFlight) <= limit
  /\ pc \in {"preparing", "prepared"} => Cardinality(inFlight) < limit
  /\ pc \in Between => inFlight = {}
  /\ pc \in {"committed", "filling"} /\ committed + 1 < nextToStart =>
       committed + 1 \in inFlight

(* A broken dispatch is seen by the scheduler before anything else starts. *)
FailureInv ==
  /\ pc \in Between \cup {"filling"} => failure = 0
  /\ pc \in Failing => failure # 0
  /\ \A c \in Call : phase[c] = "broken" =>
       failure # 0 /\ (c \in inFlight \/ pc \in Failing)
  /\ pc = "failed" => Executing = {}

(* While the pool is filled the scheduler knows of the abort.              *)
AbortInv == pc = "filling" /\ signal => aborted

(* A result tells whether the body was invoked.                            *)
OutcomeInv ==
  /\ \A c \in invoked : phase[c] \notin {"waiting", "preparing", "dispatched"}
  /\ \A c \in Call : /\ outcome[c] = "notRun" => c \notin invoked
                     /\ outcome[c] = "aborted" => c \in invoked
  /\ \A c \in Call : phase[c] = "dispatched" => outcome[c] = "none"
  /\ pc = "prepared" /\ stage = "dispatch" => outcome[nextToStart] = "none"

(* A barrier is a group of its own.                                        *)
BarrierInv ==
  \A b \in barrier :
    /\ phase[b] # "waiting"
    /\ b < groupStart \/ (b = groupStart /\ mode = "exclusive")

(* The log says how far each call is, and its results are an initial run.  *)
LogInv ==
  /\ Calls(log) = {c \in Call : phase[c] # "waiting"}
                    \cup (IF pc = "skipped" THEN {nextToStart} ELSE {})
  /\ Results(log) = {c \in Call : phase[c] = "done"}
  /\ \A c, d \in Call : d < c /\ phase[c] = "done" => phase[d] = "done"
  /\ OrderedByType
  /\ \A k \in DOMAIN accepted : accepted[k] <= committed
  /\ Increasing(accepted)

IInv ==
  /\ TypeOK /\ PositionInv /\ PhaseInv /\ PoolInv /\ FailureInv
  /\ AbortInv /\ OutcomeInv /\ BarrierInv /\ LogInv

-----------------------------------------------------------------------------
(* Lemmas on the parts.                                                    *)

(* A group lies within the step's calls.                                   *)
LEMMA GroupWithin ==
  ASSUME TypeOK, PositionInv, pc \notin Between \cup {"failed"}
  PROVE  GroupEnd(mode) \in Call /\ groupStart <= GroupEnd(mode)
BY NIsNat DEF TypeOK, PositionInv, GroupEnd, Call

(* The pool is finite, and its size a number.                              *)
LEMMA PoolIsFinite ==
  ASSUME TypeOK
  PROVE  IsFiniteSet(inFlight) /\ Cardinality(inFlight) \in Nat /\ limit \in Nat \ {0}
<1>1. IsFiniteSet(Call) /\ inFlight \subseteq Call  BY NIsNat, FS_Interval DEF Call, TypeOK
<1>2. IsFiniteSet(inFlight)  BY <1>1, FS_Subset
<1>3. QED  BY <1>2, FS_CardinalityType, PoolSizesArePositive DEF TypeOK

(* What an appended event adds to the log.                                 *)
LEMMA LogGrows ==
  ASSUME TypeOK, NEW type \in {"tool/call", "tool/result"}, NEW c \in Call,
         log' = Append1(type, c)
  PROVE  /\ log' \in Seq(ToolEvent)
         /\ Calls(log') = Calls(log) \cup (IF type = "tool/call" THEN {c} ELSE {})
         /\ Results(log') = Results(log) \cup (IF type = "tool/result" THEN {c} ELSE {})
<1> DEFINE e == [type |-> type, call |-> c]
<1>1. e \in ToolEvent /\ log \in Seq(ToolEvent)  BY DEF ToolEvent, TypeOK
<1>2. /\ log' \in Seq(ToolEvent)
      /\ DOMAIN log = 1 .. Len(log) /\ DOMAIN log' = 1 .. Len(log) + 1
      /\ Len(log) \in Nat
      /\ \A k \in 1 .. Len(log) : log'[k] = log[k]
      /\ log'[Len(log) + 1] = e
  BY <1>1 DEF Append1
<1>3. Calls(log') = Calls(log) \cup (IF type = "tool/call" THEN {c} ELSE {})
  BY <1>2 DEF Calls
<1>4. Results(log') = Results(log) \cup (IF type = "tool/result" THEN {c} ELSE {})
  BY <1>2 DEF Results
<1>5. QED  BY <1>2, <1>3, <1>4

(* An event behind every one of its type keeps the log in order.           *)
LEMMA OrderGrows ==
  ASSUME TypeOK, OrderedByType, NEW type \in {"tool/call", "tool/result"}, NEW c \in Call,
         log' = Append1(type, c),
         \A d \in (IF type = "tool/call" THEN Calls(log) ELSE Results(log)) : d < c
  PROVE  OrderedByType'
<1> DEFINE e == [type |-> type, call |-> c]
<1>1. e \in ToolEvent /\ log \in Seq(ToolEvent)  BY DEF ToolEvent, TypeOK
<1>2. /\ DOMAIN log = 1 .. Len(log) /\ DOMAIN log' = 1 .. Len(log) + 1
      /\ Len(log) \in Nat
      /\ \A k \in 1 .. Len(log) : log'[k] = log[k]
      /\ log'[Len(log) + 1] = e
  BY <1>1 DEF Append1
<1>3. ASSUME NEW j \in 1 .. Len(log), log[j].type = type PROVE log[j].call < c
  <2>1. type = "tool/call" => log[j].call \in Calls(log)  BY <1>2, <1>3 DEF Calls
  <2>2. type = "tool/result" => log[j].call \in Results(log)  BY <1>2, <1>3 DEF Results
  <2>3. QED  BY <2>1, <2>2
<1>4. ASSUME NEW j \in 1 .. Len(log) + 1, NEW k \in 1 .. Len(log) + 1, j < k,
             log'[j].type = log'[k].type
      PROVE  log'[j].call < log'[k].call
  <2>1. j \in 1 .. Len(log)  BY <1>2, <1>4
  <2>2. CASE k \in 1 .. Len(log)
    BY <1>2, <1>4, <2>1, <2>2 DEF OrderedByType
  <2>3. CASE k = Len(log) + 1
    BY <1>2, <1>3, <1>4, <2>1, <2>3
  <2>4. QED  BY <1>2, <2>2, <2>3
<1>5. QED  BY <1>2, <1>4 DEF OrderedByType

(* A step that appends nothing and moves no call across "waiting" or       *)
(* "done" leaves what the log says true.                                   *)
LEMMA LogKept ==
  ASSUME LogInv, UNCHANGED <<log, accepted, committed>>, pc # "skipped", pc' # "skipped",
         \A c \in Call : /\ phase'[c] = "waiting" <=> phase[c] = "waiting"
                         /\ phase'[c] = "done" <=> phase[c] = "done"
  PROVE  LogInv'
BY DEF LogInv, OrderedByType, Increasing

(* The calls left are not started, the others are.                         *)
LEMMA NotStarted ==
  ASSUME TypeOK, PositionInv, PhaseInv, pc \notin Starting \cup Failing, NEW c \in Call
  PROVE  phase[c] = "waiting" <=> c >= nextToStart
<1>1. c \in Nat /\ nextToStart \in Nat /\ committed \in Nat
  BY NIsNat DEF Call, TypeOK
<1>2. QED  BY <1>1 DEF PhaseInv, Started

-----------------------------------------------------------------------------
(* The invariant holds initially and every action keeps it: the groups.    *)

(* Between two groups everything started is recorded.                      *)
LEMMA ClassifyInv == IInv /\ Classify => IInv'
<1> SUFFICES ASSUME IInv, Classify PROVE IInv'  OBVIOUS
<1> USE DEF IInv, Classify, runVars, groupVars, bodyVars, logVars
<1>1. TypeOK'  BY DEF TypeOK
<1>2. CASE nextToStart > N
  <2>1. PositionInv'  BY <1>2, NIsNat DEF PositionInv, TypeOK, Between, Starting
  <2>2. PhaseInv'  BY <1>2 DEF PhaseInv, Between, Starting, Failing
  <2>3. PoolInv'  BY <1>2 DEF PoolInv, Executing, Between
  <2>4. FailureInv'  BY <1>2 DEF FailureInv, Between, Failing
  <2>5. AbortInv' /\ OutcomeInv' /\ BarrierInv'
    BY <1>2 DEF AbortInv, OutcomeInv, BarrierInv
  <2>6. LogInv'  BY <1>2, LogKept
  <2>7. QED  BY <1>1, <2>1, <2>2, <2>3, <2>4, <2>5, <2>6
<1>3. CASE ~(nextToStart > N)
  <2>1. /\ pc = "classify" /\ pc' = "filling" /\ committed = nextToStart - 1
        /\ groupStart' = nextToStart /\ inFlight = {} /\ nextToStart \in Call
    BY <1>3, NIsNat DEF PositionInv, PoolInv, Between, TypeOK, Call
  <2>2. PositionInv'
    BY <1>3, <2>1, NIsNat DEF PositionInv, TypeOK, Between, Starting, GroupEnd, Call
  <2>3. PhaseInv'
    BY <1>3, <2>1, NIsNat DEF PhaseInv, TypeOK, Call, Between, Starting, Failing
  <2>4. PoolInv'
    <3>1. Cardinality({}) = 0 /\ limit' \in Nat \ {0}
      BY <1>3, FS_EmptySet, PoolSizesArePositive
    <3>2. QED  BY <1>3, <2>1, <3>1 DEF PoolInv, Executing, Between, TypeOK
  <2>5. FailureInv'  BY <1>3, <2>1 DEF FailureInv, Between, Failing
  <2>6. AbortInv' /\ OutcomeInv'  BY <1>3, <2>1 DEF AbortInv, OutcomeInv
  <2>7. BarrierInv'
    <3>1. ASSUME NEW b \in barrier PROVE phase[b] # "waiting" /\ b < nextToStart
      BY <2>1, NotStarted, NIsNat DEF BarrierInv, TypeOK, Call, Starting, Failing
    <3>2. QED  BY <1>3, <2>1, <3>1 DEF BarrierInv
  <2>8. LogInv'  BY <1>3, <2>1, LogKept
  <2>9. QED  BY <1>1, <2>2, <2>3, <2>4, <2>5, <2>6, <2>7, <2>8
<1>4. QED  BY <1>2, <1>3

(* A group is left only over an empty pool.                                *)
LEMMA StopFillingInv == IInv /\ StopFilling => IInv'
<1> SUFFICES ASSUME IInv, StopFilling PROVE IInv'  OBVIOUS
<1> USE DEF IInv, StopFilling, AfterPool, runVars, groupVars, bodyVars, logVars
<1>1. TypeOK'  BY DEF TypeOK
<1>2. inFlight = {} => committed = nextToStart - 1
  BY NIsNat DEF PoolInv, PositionInv, TypeOK
<1>3. PositionInv'  BY <1>2 DEF PositionInv, Between, Starting, Ready, GroupEnd
<1>4. PhaseInv'
  BY <1>2, NIsNat DEF PhaseInv, TypeOK, Call, Between, Starting, Failing
<1>5. PoolInv'  BY DEF PoolInv, Executing, Between
<1>6. FailureInv'  BY DEF FailureInv, Between, Failing, Executing
<1>7. AbortInv' /\ OutcomeInv' /\ BarrierInv'
  BY DEF AbortInv, OutcomeInv, BarrierInv
<1>8. LogInv'  BY LogKept
<1>9. QED  BY <1>1, <1>3, <1>4, <1>5, <1>6, <1>7, <1>8

(* A call starts behind all others, and as a barrier only in a group of    *)
(* its own.                                                                *)
LEMMA StartCallInv ==
  ASSUME IInv, NEW kind \in {"parallel", "exclusive"}, StartCall(kind)
  PROVE  IInv'
<1> USE DEF IInv, StartCall, groupVars
<1>1. /\ pc = "filling" /\ pc' = "preparing" /\ nextToStart \in Call
      /\ nextToStart <= GroupEnd(mode)
  BY GroupWithin, NIsNat DEF MayStart, Between, Call, TypeOK
<1>2. \A c \in Call : phase'[c] = IF c = nextToStart THEN "preparing" ELSE phase[c]
  BY DEF TypeOK
<1>3. phase[nextToStart] = "waiting"  BY <1>1 DEF PhaseInv, Starting, Failing
<1>4. TypeOK'  BY <1>1, LogGrows DEF TypeOK, Phase
<1>5. PositionInv'  BY <1>1 DEF PositionInv, Between, Starting, GroupEnd
<1>6. PhaseInv'
  BY <1>1, <1>2, NIsNat DEF PhaseInv, PositionInv, TypeOK, Call, Between, Starting, Failing
<1>7. PoolInv'  BY <1>1, <1>2 DEF PoolInv, MayStart, Executing, Between
<1>8. FailureInv'  BY <1>1, <1>2 DEF FailureInv, Between, Failing
<1>9. AbortInv' /\ OutcomeInv'  BY <1>1, <1>2, <1>3 DEF AbortInv, OutcomeInv, TypeOK
<1>10. BarrierInv'  BY <1>1, <1>2 DEF BarrierInv, Joins, TypeOK
<1>11. LogInv'
  <2>1. /\ Calls(log') = Calls(log) \cup {nextToStart}
        /\ Results(log') = Results(log)
    BY <1>1, LogGrows
  <2>2. \A d \in Calls(log) : d < nextToStart
    BY <1>1, NotStarted, NIsNat DEF LogInv, Starting, Failing, TypeOK, Call
  <2>3. OrderedByType'  BY <1>1, <2>2, OrderGrows DEF LogInv
  <2>4. Calls(log') = {c \in Call : phase'[c] # "waiting"}
    BY <1>1, <1>2, <2>1 DEF LogInv
  <2>5. Results(log') = {c \in Call : phase'[c] = "done"}
    BY <1>1, <1>2, <1>3, <2>1 DEF LogInv
  <2>6. \A c, d \in Call : d < c /\ phase'[c] = "done" => phase'[d] = "done"
    BY <1>1, <1>2, <1>3 DEF LogInv
  <2>7. QED  BY <1>1, <2>3, <2>4, <2>5, <2>6 DEF LogInv, Increasing
<1>12. QED  BY <1>4, <1>5, <1>6, <1>7, <1>8, <1>9, <1>10, <1>11

(* A refused call event leaves everything as it was.                       *)
LEMMA StartThrowsInv == IInv /\ StartThrows => IInv'
<1> SUFFICES ASSUME IInv, StartThrows PROVE IInv'  OBVIOUS
<1> USE DEF IInv, StartThrows, Fails, runVars, groupVars, bodyVars, logVars
<1>1. pc = "filling" /\ pc' = "draining" /\ nextToStart \in Call
  BY GroupWithin, NIsNat DEF MayStart, Between, Call, TypeOK
<1>2. failure' \in 1 .. N  BY <1>1, NIsNat DEF TypeOK, Call
<1>3. TypeOK'  BY <1>2 DEF TypeOK
<1>4. PositionInv'  BY <1>1 DEF PositionInv, Between, Starting, GroupEnd
<1>5. PhaseInv'  BY <1>1 DEF PhaseInv, Between, Starting, Failing, GroupEnd
<1>6. PoolInv'  BY <1>1 DEF PoolInv, Executing, Between
<1>7. FailureInv'  BY <1>1, <1>2 DEF FailureInv, Between, Failing
<1>8. AbortInv' /\ OutcomeInv' /\ BarrierInv'
  BY <1>1 DEF AbortInv, OutcomeInv, BarrierInv
<1>9. LogInv'  BY <1>1, LogKept
<1>10. QED  BY <1>3, <1>4, <1>5, <1>6, <1>7, <1>8, <1>9

-----------------------------------------------------------------------------
(* Starting a call.                                                        *)

(* A decided call has an outcome unless it is to be dispatched.            *)
LEMMA PrepareDecidesInv == IInv /\ PrepareDecides => IInv'
<1> SUFFICES ASSUME IInv, PrepareDecides PROVE IInv'  OBVIOUS
<1> USE DEF IInv, PrepareDecides, groupVars, logVars
<1>1. pc = "preparing" /\ pc' = "prepared" /\ nextToStart \in Call
  BY GroupWithin, NIsNat DEF PositionInv, Starting, Between, Call, TypeOK
<1>2. phase[nextToStart] = "preparing"  BY <1>1 DEF PhaseInv
<1>3. PICK p \in Preparations :
        stage' = p[1] /\ outcome' = [outcome EXCEPT ![nextToStart] = p[2]]
  OBVIOUS
<1>4. /\ stage' \in {"dispatch", "post", "final"}
      /\ p[2] \in {"none", "error", "notRun"}
      /\ stage' = "dispatch" => p[2] = "none"
  BY <1>3 DEF Preparations
<1>5. \A c \in Call : outcome'[c] = IF c = nextToStart THEN p[2] ELSE outcome[c]
  BY <1>3 DEF TypeOK
<1>6. TypeOK'  BY <1>1, <1>3, <1>4 DEF TypeOK, Outcome
<1>7. PositionInv'
  BY <1>1, <1>4 DEF PositionInv, Between, Starting, GroupEnd
<1>8. PhaseInv'  BY <1>1 DEF PhaseInv, Between, Starting, Failing
<1>9. PoolInv'  BY <1>1 DEF PoolInv, Executing, Between
<1>10. FailureInv'  BY <1>1 DEF FailureInv, Between, Failing
<1>11. OutcomeInv'  BY <1>1, <1>2, <1>4, <1>5 DEF OutcomeInv, TypeOK
<1>12. AbortInv' /\ BarrierInv'  BY <1>1 DEF AbortInv, BarrierInv
<1>13. LogInv'  BY <1>1, LogKept
<1>14. QED  BY <1>6, <1>7, <1>8, <1>9, <1>10, <1>11, <1>12, <1>13

(* A stage that throws leaves its call as it was.                          *)
LEMMA PrepareThrowsInv == IInv /\ PrepareThrows => IInv'
<1> SUFFICES ASSUME IInv, PrepareThrows PROVE IInv'  OBVIOUS
<1> USE DEF IInv, PrepareThrows, Fails, runVars, groupVars, bodyVars, logVars
<1>1. pc = "preparing" /\ pc' = "draining" /\ nextToStart \in Call
  BY GroupWithin, NIsNat DEF PositionInv, Starting, Between, Call, TypeOK
<1>2. failure' \in 1 .. N  BY <1>1, NIsNat DEF TypeOK, Call
<1>3. TypeOK'  BY <1>2 DEF TypeOK
<1>4. PositionInv'  BY <1>1 DEF PositionInv, Between, Starting, GroupEnd
<1>5. PhaseInv'
  BY <1>1 DEF PhaseInv, PositionInv, Between, Starting, Failing, GroupEnd
<1>6. PoolInv'  BY <1>1 DEF PoolInv, Executing, Between
<1>7. FailureInv'  BY <1>1, <1>2 DEF FailureInv, Between, Failing
<1>8. AbortInv' /\ OutcomeInv' /\ BarrierInv'
  BY <1>1 DEF AbortInv, OutcomeInv, BarrierInv
<1>9. LogInv'  BY <1>1, LogKept
<1>10. QED  BY <1>3, <1>4, <1>5, <1>6, <1>7, <1>8, <1>9

(* A dispatch joins a pool that had room for it.                           *)
LEMMA PreparedInv == IInv /\ Prepared => IInv'
<1> SUFFICES ASSUME IInv, Prepared PROVE IInv'  OBVIOUS
<1> USE DEF IInv, Prepared, Healthy, groupVars, logVars
<1>1. pc = "prepared" /\ pc' = "started" /\ nextToStart \in Call
  BY GroupWithin, NIsNat DEF PositionInv, Starting, Between, Call, TypeOK
<1>2. /\ phase[nextToStart] = "preparing"
      /\ stage \in {"dispatch", "post", "final"}
      /\ stage = "dispatch" => outcome[nextToStart] = "none"
  BY <1>1 DEF PhaseInv, OutcomeInv, PositionInv, TypeOK
<1>3. \A c \in Call : phase'[c] =
        IF c = nextToStart THEN IF stage = "dispatch" THEN "dispatched" ELSE stage
                           ELSE phase[c]
  BY DEF TypeOK
<1>4. TypeOK'  BY <1>1, <1>2, <1>3 DEF TypeOK, Phase
<1>5. PositionInv'  BY <1>1 DEF PositionInv, Between, Starting, GroupEnd
<1>6. PhaseInv'
  BY <1>1, <1>2, <1>3, NIsNat DEF PhaseInv, PositionInv, TypeOK, Call, Started, Between,
                                  Starting, Failing
<1>7. PoolInv'
  <2>1. inFlight \subseteq inFlight' /\ (stage = "dispatch" => nextToStart \in inFlight')
    OBVIOUS
  <2>2. Executing' \subseteq inFlight'
    BY <1>1, <1>2, <1>3, <2>1 DEF PoolInv, Executing
  <2>3. Cardinality(inFlight) + 1 <= limit
    BY <1>1, PoolIsFinite DEF PoolInv
  <2>4. inFlight' \in {inFlight, inFlight \cup {nextToStart}}  OBVIOUS
  <2>5. /\ Cardinality(inFlight) \in Nat
        /\ Cardinality(inFlight \cup {nextToStart})
             \in {Cardinality(inFlight), Cardinality(inFlight) + 1}
    BY PoolIsFinite, FS_AddElement
  <2>6. Cardinality(inFlight') <= limit'  BY <2>3, <2>4, <2>5, PoolIsFinite
  <2>7. QED  BY <1>1, <2>2, <2>6 DEF PoolInv, Between
<1>8. FailureInv'  BY <1>1, <1>2, <1>3 DEF FailureInv, Between, Failing, TypeOK
<1>9. OutcomeInv'  BY <1>1, <1>2, <1>3 DEF OutcomeInv, TypeOK
<1>10. AbortInv'  BY <1>1 DEF AbortInv
<1>11. BarrierInv'  BY <1>1, <1>2, <1>3 DEF BarrierInv, TypeOK
<1>12. LogInv'  BY <1>1, <1>2, <1>3, LogKept
<1>13. QED  BY <1>4, <1>5, <1>6, <1>7, <1>8, <1>9, <1>10, <1>11, <1>12

(* The next call becomes a started one.                                    *)
LEMMA CallStartedInv == IInv /\ CallStarted => IInv'
<1> SUFFICES ASSUME IInv, CallStarted PROVE IInv'  OBVIOUS
<1> USE DEF IInv, CallStarted, Healthy, groupVars, bodyVars, logVars
<1>1. /\ pc = "started" /\ pc' = "committing" /\ nextToStart \in Call
      /\ nextToStart' = nextToStart + 1 /\ nextToStart <= GroupEnd(mode)
  BY GroupWithin, NIsNat DEF PositionInv, Starting, Between, Call, TypeOK
<1>2. GroupEnd(mode) \in Call  BY <1>1, GroupWithin DEF Between
<1>3. TypeOK'  BY <1>1, NIsNat DEF TypeOK, Call
<1>4. PositionInv'
  BY <1>1, <1>2, NIsNat DEF PositionInv, TypeOK, Call, Between, Starting, GroupEnd
<1>5. PhaseInv'
  BY <1>1, NIsNat DEF PhaseInv, PositionInv, TypeOK, Call, Between, Starting, Failing
<1>6. PoolInv'  BY <1>1 DEF PoolInv, Executing, Between
<1>7. FailureInv'  BY <1>1 DEF FailureInv, Between, Failing
<1>8. AbortInv' /\ OutcomeInv' /\ BarrierInv'
  BY <1>1 DEF AbortInv, OutcomeInv, BarrierInv
<1>9. LogInv'  BY <1>1, LogKept
<1>10. QED  BY <1>3, <1>4, <1>5, <1>6, <1>7, <1>8, <1>9

(* The failure of a sibling sends the scheduler to drain the pool.         *)
LEMMA FailureSeenInv == IInv /\ FailureSeen => IInv'
<1> SUFFICES ASSUME IInv, FailureSeen PROVE IInv'  OBVIOUS
<1> USE DEF IInv, FailureSeen, runVars, groupVars, bodyVars, logVars
<1>1. TypeOK'  BY DEF TypeOK
<1>2. PositionInv'  BY DEF PositionInv, Between, Starting, GroupEnd
<1>3. PhaseInv'
  BY DEF PhaseInv, PositionInv, Between, Starting, Failing, GroupEnd
<1>4. PoolInv'  BY DEF PoolInv, Executing, Between
<1>5. FailureInv'  BY DEF FailureInv, Between, Failing
<1>6. AbortInv' /\ OutcomeInv' /\ BarrierInv'
  BY DEF AbortInv, OutcomeInv, BarrierInv
<1>7. LogInv'  BY LogKept
<1>8. QED  BY <1>1, <1>2, <1>3, <1>4, <1>5, <1>6, <1>7

-----------------------------------------------------------------------------
(* Dispatched calls, beside the scheduler.                                 *)

(* A running dispatch is started, not recorded, and in the pool.           *)
LEMMA ExecutingIsOpen ==
  ASSUME IInv, NEW c \in Executing
  PROVE  /\ c \in Call /\ c \in inFlight /\ committed < c /\ c <= nextToStart
         /\ c = nextToStart => pc \in {"started"} \cup Failing
         /\ pc \notin Between
<1>1. c \in Call /\ phase[c] \in {"dispatched", "running"}  BY DEF Executing
<1>2. c \in inFlight /\ pc \notin Between  BY DEF IInv, PoolInv
<1>3. c \in Nat /\ committed \in Nat /\ nextToStart \in Nat
  BY <1>1, NIsNat DEF Call, IInv, TypeOK
<1>4. committed < c /\ c <= nextToStart  BY <1>1, <1>3 DEF IInv, PhaseInv
<1>5. c = nextToStart => pc \in {"started"} \cup Failing
  BY <1>1 DEF IInv, PhaseInv, Starting
<1>6. QED  BY <1>1, <1>2, <1>4, <1>5

(* A body runs only for a dispatched call.                                 *)
LEMMA InvokeBodyInv ==
  ASSUME IInv, NEW c \in Call, InvokeBody(c)
  PROVE  IInv'
<1> USE DEF IInv, InvokeBody, runVars, groupVars, logVars
<1>1. /\ c \in Executing /\ pc' = pc /\ phase[c] = "dispatched" /\ pc \notin Between
      /\ pc # "filling" /\ pc # "failed"
  BY ExecutingIsOpen DEF Executing, Running, FailureInv
<1>2. \A d \in Call : phase'[d] = IF d = c THEN "running" ELSE phase[d]
  BY DEF TypeOK
<1>3. TypeOK'  BY DEF TypeOK, Phase
<1>4. PositionInv'
  BY <1>1, <1>2, GroupWithin, NIsNat
     DEF PositionInv, TypeOK, Call, Between, Starting, Ready, GroupEnd
<1>5. PhaseInv'
  BY <1>1, <1>2, ExecutingIsOpen, NIsNat
     DEF PhaseInv, TypeOK, Call, Between, Started, Starting, Failing, GroupEnd
<1>6. PoolInv'  BY <1>1, <1>2 DEF PoolInv, Executing
<1>7. FailureInv'  BY <1>1, <1>2 DEF FailureInv
<1>8. AbortInv'  BY DEF AbortInv
<1>9. OutcomeInv'  BY <1>1, <1>2 DEF OutcomeInv, TypeOK
<1>10. BarrierInv'  BY <1>1, <1>2 DEF BarrierInv, TypeOK
<1>11. LogInv'  BY <1>1, <1>2, LogKept DEF Between
<1>12. QED  BY <1>3, <1>4, <1>5, <1>6, <1>7, <1>8, <1>9, <1>10, <1>11

(* A dispatch that settles keeps its place in the pool until it is         *)
(* collected, and its result tells whether the body was invoked.           *)
LEMMA DispatchSettlesInv ==
  ASSUME IInv, NEW c \in Call, DispatchSettles(c)
  PROVE  IInv'
<1> USE DEF IInv, DispatchSettles, runVars, groupVars, logVars
<1>1. /\ c \in Executing /\ pc' = pc /\ pc \notin Between /\ pc # "filling"
      /\ pc # "failed" /\ phase[c] \in {"dispatched", "running"}
  BY ExecutingIsOpen DEF Executing, Running, FailureInv
<1>2. PICK s \in {"post", "final"}, r \in Outcome :
        /\ phase' = [phase EXCEPT ![c] = s]
        /\ outcome' = [outcome EXCEPT ![c] = r]
        /\ r = "notRun" => c \notin invoked
        /\ r = "aborted" => c \in invoked
  <2>1. CASE \E r \in {"ok", "error", IF c \in invoked THEN "aborted" ELSE "notRun"} :
               /\ phase' = [phase EXCEPT ![c] = "post"]
               /\ outcome' = [outcome EXCEPT ![c] = Supersede(c, r)]
    BY <2>1 DEF Supersede, Outcome
  <2>2. CASE /\ phase' = [phase EXCEPT ![c] = "final"]
             /\ outcome' = [outcome EXCEPT ![c] = "error"]
    BY <2>2 DEF Outcome
  <2>3. QED  BY <2>1, <2>2
<1>3. \A d \in Call : /\ phase'[d] = IF d = c THEN s ELSE phase[d]
                     /\ outcome'[d] = IF d = c THEN r ELSE outcome[d]
  BY <1>2 DEF TypeOK
<1>4. TypeOK'  BY <1>2 DEF TypeOK, Phase
<1>5. PositionInv'
  BY <1>1, <1>3, GroupWithin, NIsNat
     DEF PositionInv, TypeOK, Call, Between, Starting, Ready, GroupEnd
<1>6. PhaseInv'
  BY <1>1, <1>3, ExecutingIsOpen, NIsNat
     DEF PhaseInv, TypeOK, Call, Between, Started, Starting, Failing, GroupEnd
<1>7. PoolInv'  BY <1>1, <1>3 DEF PoolInv, Executing
<1>8. FailureInv'  BY <1>1, <1>3 DEF FailureInv
<1>9. AbortInv'  BY DEF AbortInv
<1>10. OutcomeInv'
  BY <1>1, <1>2, <1>3, NIsNat DEF OutcomeInv, PhaseInv, TypeOK, Call
<1>11. BarrierInv'  BY <1>1, <1>3 DEF BarrierInv, TypeOK
<1>12. LogInv'  BY <1>1, <1>3, LogKept DEF Between
<1>13. QED  BY <1>4, <1>5, <1>6, <1>7, <1>8, <1>9, <1>10, <1>11, <1>12

(* A dispatch that rejects is the failure, or comes after it.              *)
LEMMA DispatchRejectsInv ==
  ASSUME IInv, NEW c \in Call, DispatchRejects(c)
  PROVE  IInv'
<1> USE DEF IInv, DispatchRejects, Fails, runVars, groupVars, logVars
<1>1. /\ c \in Executing /\ pc' = pc /\ pc \notin Between /\ pc # "filling"
      /\ pc # "failed" /\ phase[c] \in {"dispatched", "running"} /\ c \in inFlight
  BY ExecutingIsOpen DEF Executing, Running, FailureInv
<1>2. \A d \in Call : phase'[d] = IF d = c THEN "broken" ELSE phase[d]
  BY DEF TypeOK
<1>3. failure' \in 1 .. N  BY NIsNat DEF TypeOK, Call
<1>4. TypeOK'  BY <1>3 DEF TypeOK, Phase
<1>5. PositionInv'
  BY <1>1, <1>2, GroupWithin, NIsNat
     DEF PositionInv, TypeOK, Call, Between, Starting, Ready, GroupEnd
<1>6. PhaseInv'
  BY <1>1, <1>2, ExecutingIsOpen, NIsNat
     DEF PhaseInv, TypeOK, Call, Between, Started, Starting, Failing, GroupEnd
<1>7. PoolInv'  BY <1>1, <1>2 DEF PoolInv, Executing
<1>8. FailureInv'  BY <1>1, <1>2, <1>3 DEF FailureInv
<1>9. AbortInv'  BY DEF AbortInv
<1>10. OutcomeInv'  BY <1>1, <1>2 DEF OutcomeInv, TypeOK
<1>11. BarrierInv'  BY <1>1, <1>2 DEF BarrierInv, TypeOK
<1>12. LogInv'  BY <1>1, <1>2, LogKept DEF Between
<1>13. QED  BY <1>4, <1>5, <1>6, <1>7, <1>8, <1>9, <1>10, <1>11, <1>12

-----------------------------------------------------------------------------
(* Recording, in model order.                                              *)

(* A call that is ready to be recorded is a settled call of the group.     *)
LEMMA ReadyIsStarted ==
  ASSUME IInv, pc \in {"committing", "finalizing"}, NEW stages,
         stages \subseteq {"post", "final"}, Ready(stages)
  PROVE  /\ committed + 1 \in Call /\ committed + 1 < nextToStart
         /\ committed + 1 <= GroupEnd(mode)
         /\ phase[committed + 1] \in {"post", "final"}
<1>1. committed \in Nat /\ nextToStart \in Nat /\ GroupEnd(mode) \in Call
  BY GroupWithin, NIsNat DEF IInv, TypeOK, Between
<1>2. committed + 1 \in Call /\ committed + 1 <= GroupEnd(mode)
  BY <1>1, NIsNat DEF Ready, Call
<1>3. phase[committed + 1] \in {"post", "final"}  BY DEF Ready
<1>4. phase[committed + 1] # "waiting"  BY <1>3
<1>5. committed + 1 < nextToStart
  BY <1>1, <1>2, <1>4, NotStarted, NIsNat DEF IInv, Starting, Failing
<1>6. QED  BY <1>2, <1>3, <1>5

(* Answering moves one call from started to done, in the log too.          *)
LEMMA AnswerFacts ==
  ASSUME IInv, pc \in {"committing", "finalizing"}, Ready({"post", "final"}),
         NEW r \in Outcome, Answer(committed + 1, r)
  PROVE  /\ \A d \in Call : /\ phase'[d] = IF d = committed + 1 THEN "done" ELSE phase[d]
                           /\ outcome'[d] = IF d = committed + 1 THEN r ELSE outcome[d]
         /\ phase' \in [Call -> Phase] /\ outcome' \in [Call -> Outcome]
         /\ log' \in Seq(ToolEvent) /\ OrderedByType'
         /\ Calls(log') = {d \in Call : phase'[d] # "waiting"}
         /\ Results(log') = {d \in Call : phase'[d] = "done"}
         /\ \A c, d \in Call : d < c /\ phase'[c] = "done" => phase'[d] = "done"
<1> DEFINE c == committed + 1
<1> USE DEF IInv, Answer
<1>1. /\ c \in Call /\ c < nextToStart /\ phase[c] \in {"post", "final"}
      /\ committed \in Nat /\ nextToStart \in Nat
  BY ReadyIsStarted, NIsNat DEF TypeOK
<1>2. \A d \in Call : /\ phase'[d] = IF d = c THEN "done" ELSE phase[d]
                     /\ outcome'[d] = IF d = c THEN r ELSE outcome[d]
  BY DEF TypeOK
<1>3. phase' \in [Call -> Phase] /\ outcome' \in [Call -> Outcome]
  BY DEF TypeOK, Phase
<1>4. /\ log' \in Seq(ToolEvent)
      /\ Calls(log') = Calls(log)
      /\ Results(log') = Results(log) \cup {c}
  BY <1>1, LogGrows
<1>5. \A d \in Results(log) : d < c
  <2> SUFFICES ASSUME NEW d \in Call, phase[d] = "done" PROVE d < c
    BY DEF LogInv
  <2>1. d < nextToStart
    BY NotStarted, NIsNat DEF TypeOK, Call, Starting, Failing
  <2>2. ~(committed < d)  BY <2>1 DEF PhaseInv, Started, Between, Failing
  <2>3. QED  BY <1>1, <2>2, NIsNat DEF Call
<1>6. OrderedByType'  BY <1>1, <1>5, OrderGrows DEF LogInv
<1>7. Calls(log') = {d \in Call : phase'[d] # "waiting"}
  BY <1>1, <1>2, <1>4 DEF LogInv
<1>8. Results(log') = {d \in Call : phase'[d] = "done"}
  BY <1>1, <1>2, <1>4 DEF LogInv
<1>9. ASSUME NEW a \in Call, NEW d \in Call, d < a, phase'[a] = "done"
      PROVE  phase'[d] = "done"
  <2>1. CASE a = c
    <3>1. d <= committed  BY <1>1, <1>9, <2>1, NIsNat DEF Call
    <3>2. QED  BY <1>2, <3>1 DEF PhaseInv
  <2>2. CASE a # c  BY <1>2, <1>9, <2>2 DEF LogInv
  <2>3. QED  BY <2>1, <2>2
<1>10. QED  BY <1>2, <1>3, <1>4, <1>6, <1>7, <1>8, <1>9

(* Recording advances over the call that was answered.                     *)
LEMMA RecordInv ==
  ASSUME IInv, pc \in {"committing", "finalizing"}, Ready({"post", "final"}),
         NEW r \in Outcome, Record(committed + 1, r),
         r = "notRun" => committed + 1 \notin invoked,
         r = "aborted" => committed + 1 \in invoked
  PROVE  IInv'
<1> DEFINE c == committed + 1
<1> USE DEF IInv, Record, runVars, groupVars
<1>1. /\ c \in Call /\ c < nextToStart /\ phase[c] \in {"post", "final"}
      /\ c <= GroupEnd(mode) /\ committed' = c /\ pc' = "committing"
      /\ committed \in Nat /\ nextToStart \in Nat
  BY ReadyIsStarted, NIsNat DEF TypeOK
<1>2. \A d \in Call : /\ phase'[d] = IF d = c THEN "done" ELSE phase[d]
                     /\ outcome'[d] = IF d = c THEN r ELSE outcome[d]
  BY AnswerFacts
<1>3. TypeOK'
  <2>1. committed' \in 0 .. N  BY <1>1, NIsNat DEF Call
  <2>2. /\ log' \in Seq(ToolEvent)
        /\ phase' \in [Call -> Phase] /\ outcome' \in [Call -> Outcome]
    BY AnswerFacts
  <2>3. accepted' \in Seq(Call)  BY <1>1 DEF TypeOK
  <2>4. QED  BY <1>1, <2>1, <2>2, <2>3 DEF TypeOK
<1>4. PositionInv'
  BY <1>1, NIsNat DEF PositionInv, TypeOK, Call, Between, Starting, GroupEnd
<1>5. PhaseInv'
  BY <1>1, <1>2, NIsNat DEF PhaseInv, TypeOK, Call, Between, Started, Starting, Failing
<1>6. PoolInv'  BY <1>1, <1>2 DEF PoolInv, Executing, Between
<1>7. FailureInv'  BY <1>1, <1>2 DEF FailureInv, Between, Failing
<1>8. AbortInv'  BY <1>1 DEF AbortInv
<1>9. OutcomeInv'  BY <1>1, <1>2 DEF OutcomeInv, TypeOK
<1>10. BarrierInv'  BY <1>1, <1>2 DEF BarrierInv, TypeOK
<1>11. LogInv'
  <2>1. (\A k \in DOMAIN accepted' : accepted'[k] <= committed') /\ Increasing(accepted')
    <3>1. CASE accepted' = accepted
      <4>1. \A k \in DOMAIN accepted : accepted[k] \in Nat /\ accepted[k] <= committed
        BY NIsNat DEF LogInv, TypeOK, Call
      <4>2. \A k \in DOMAIN accepted' : accepted'[k] <= committed'
        BY <1>1, <3>1, <4>1
      <4>3. Increasing(accepted')  BY <3>1 DEF LogInv, Increasing
      <4>4. QED  BY <4>2, <4>3
    <3>2. CASE accepted' = Append(accepted, c)
      <4>1. /\ DOMAIN accepted = 1 .. Len(accepted) /\ Len(accepted) \in Nat
            /\ DOMAIN accepted' = 1 .. Len(accepted) + 1
            /\ accepted'[Len(accepted) + 1] = c
            /\ \A k \in 1 .. Len(accepted) : /\ accepted'[k] = accepted[k]
                                             /\ accepted[k] \in Nat
                                             /\ accepted[k] < c
        BY <1>1, <3>2, NIsNat DEF TypeOK, LogInv, Call
      <4>2. ASSUME NEW j \in DOMAIN accepted', NEW k \in DOMAIN accepted', j < k
            PROVE  accepted'[j] < accepted'[k]
        BY <4>1, <4>2 DEF LogInv, Increasing
      <4>3. \A k \in DOMAIN accepted' : accepted'[k] <= committed'
        BY <1>1, <4>1
      <4>4. QED  BY <4>2, <4>3 DEF Increasing
    <3>3. QED  BY <3>1, <3>2
  <2>2. QED  BY <1>1, <2>1, AnswerFacts DEF LogInv
<1>12. QED  BY <1>3, <1>4, <1>5, <1>6, <1>7, <1>8, <1>9, <1>10, <1>11

(* A final result is recorded as it is.                                    *)
LEMMA CommitFinalInv == IInv /\ CommitFinal => IInv'
<1> SUFFICES ASSUME IInv, CommitFinal PROVE IInv'  OBVIOUS
<1>1. pc = "committing" /\ Ready({"final"}) /\ Ready({"post", "final"})
  BY DEF CommitFinal, Ready
<1>2. committed + 1 \in Call  BY <1>1, ReadyIsStarted
<1>3. /\ outcome[committed + 1] \in Outcome
      /\ outcome[committed + 1] = "notRun" => committed + 1 \notin invoked
      /\ outcome[committed + 1] = "aborted" => committed + 1 \in invoked
  BY <1>2 DEF IInv, TypeOK, OutcomeInv
<1>4. QED  BY <1>1, <1>3, RecordInv DEF CommitFinal

(* Post-execute keeps the result true.                                     *)
LEMMA CommitPostInv == IInv /\ CommitPost => IInv'
<1> SUFFICES ASSUME IInv, CommitPost PROVE IInv'  OBVIOUS
<1> DEFINE c == committed + 1
<1>1. pc = "finalizing" /\ Ready({"post", "final"})
  BY DEF CommitPost, Ready, IInv, PositionInv
<1>2. c \in Call  BY <1>1, ReadyIsStarted
<1>3. PICK r \in {outcome[c], "error"} : Record(c, Supersede(c, r))
  BY DEF CommitPost
<1>4. /\ Supersede(c, r) \in Outcome
      /\ Supersede(c, r) = "notRun" => c \notin invoked
      /\ Supersede(c, r) = "aborted" => c \in invoked
  BY <1>2 DEF IInv, TypeOK, Outcome, OutcomeInv, Supersede
<1>5. QED  BY <1>1, <1>3, <1>4, RecordInv

(* Finalizing, or leaving the round, records nothing.                      *)
LEMMA FinalizeStartsInv == IInv /\ FinalizeStarts => IInv'
<1> SUFFICES ASSUME IInv, FinalizeStarts PROVE IInv'  OBVIOUS
<1> USE DEF IInv, FinalizeStarts, runVars, groupVars, bodyVars, logVars
<1>1. TypeOK'  BY DEF TypeOK
<1>2. PositionInv'  BY DEF PositionInv, Between, Starting, Ready, GroupEnd
<1>3. PhaseInv'  BY DEF PhaseInv, Between, Starting, Failing
<1>4. PoolInv'  BY DEF PoolInv, Executing, Between
<1>5. FailureInv'  BY DEF FailureInv, Between, Failing
<1>6. AbortInv' /\ OutcomeInv' /\ BarrierInv'
  BY DEF AbortInv, OutcomeInv, BarrierInv
<1>7. LogInv'  BY LogKept
<1>8. QED  BY <1>1, <1>2, <1>3, <1>4, <1>5, <1>6, <1>7

(* A commit that throws leaves its call as it was.                         *)
LEMMA CommitThrowsInv == IInv /\ CommitThrows => IInv'
<1> SUFFICES ASSUME IInv, CommitThrows PROVE IInv'  OBVIOUS
<1> USE DEF IInv, CommitThrows, Fails, runVars, groupVars, bodyVars, logVars
<1>1. pc \in {"committing", "finalizing"} /\ pc' = "draining"  OBVIOUS
<1>2. committed + 1 \in Call
  BY <1>1, ReadyIsStarted DEF PositionInv
<1>3. failure' \in 1 .. N  BY <1>2, NIsNat DEF TypeOK, Call
<1>4. TypeOK'  BY <1>3 DEF TypeOK
<1>5. PositionInv'  BY <1>1 DEF PositionInv, Between, Starting, GroupEnd
<1>6. PhaseInv'  BY <1>1 DEF PhaseInv, Between, Starting, Failing, GroupEnd
<1>7. PoolInv'  BY <1>1 DEF PoolInv, Executing, Between
<1>8. FailureInv'  BY <1>1, <1>3 DEF FailureInv, Between, Failing
<1>9. AbortInv' /\ OutcomeInv' /\ BarrierInv'
  BY <1>1 DEF AbortInv, OutcomeInv, BarrierInv
<1>10. LogInv'  BY <1>1, LogKept
<1>11. QED  BY <1>4, <1>5, <1>6, <1>7, <1>8, <1>9, <1>10

(* A refused context leaves its call answered, and not yet counted.        *)
LEMMA ContextThrowsInv == IInv /\ ContextThrows => IInv'
<1> SUFFICES ASSUME IInv, ContextThrows PROVE IInv'  OBVIOUS
<1> DEFINE c == committed + 1
<1> USE DEF IInv, ContextThrows, Fails, runVars, groupVars
<1>1. pc \in {"committing", "finalizing"} /\ Ready({"post", "final"}) /\ pc' = "draining"
  BY DEF Ready, PositionInv
<1>2. /\ c \in Call /\ c < nextToStart /\ phase[c] \in {"post", "final"}
      /\ committed \in Nat /\ nextToStart \in Nat
  BY <1>1, ReadyIsStarted, NIsNat DEF TypeOK
<1>3. PICK r \in Outcome : /\ Answer(c, r)
                           /\ r = "notRun" => c \notin invoked
                           /\ r = "aborted" => c \in invoked
  <2>1. CASE Answer(c, outcome[c])  BY <1>2, <2>1 DEF TypeOK, OutcomeInv
  <2>2. CASE \E r \in {outcome[c], "error"} : Answer(c, Supersede(c, r))
    BY <1>2, <2>2 DEF TypeOK, Outcome, OutcomeInv, Supersede
  <2>3. QED  BY <2>1, <2>2
<1>4. \A d \in Call : /\ phase'[d] = IF d = c THEN "done" ELSE phase[d]
                     /\ outcome'[d] = IF d = c THEN r ELSE outcome[d]
  BY <1>1, <1>3, AnswerFacts
<1>5. failure' \in 1 .. N  BY <1>2, NIsNat DEF TypeOK, Call
<1>6. TypeOK'
  <2>1. /\ log' \in Seq(ToolEvent)
        /\ phase' \in [Call -> Phase] /\ outcome' \in [Call -> Outcome]
    BY <1>1, <1>3, AnswerFacts
  <2>2. QED  BY <1>1, <1>5, <2>1 DEF TypeOK
<1>7. PositionInv'  BY <1>1 DEF PositionInv, Between, Starting, GroupEnd
<1>8. PhaseInv'
  BY <1>1, <1>2, <1>4, NIsNat DEF PhaseInv, Call, Between, Started, Starting, Failing
<1>9. PoolInv'  BY <1>1, <1>2, <1>4 DEF PoolInv, Executing, Between
<1>10. FailureInv'  BY <1>1, <1>4, <1>5 DEF FailureInv, Between, Failing
<1>11. OutcomeInv'  BY <1>1, <1>3, <1>4 DEF OutcomeInv, TypeOK
<1>12. AbortInv' /\ BarrierInv'  BY <1>1, <1>2, <1>4 DEF AbortInv, BarrierInv, TypeOK
<1>13. LogInv'  BY <1>1, <1>3, AnswerFacts DEF LogInv, Increasing
<1>14. QED  BY <1>6, <1>7, <1>8, <1>9, <1>10, <1>11, <1>12, <1>13

(* When nothing more can be recorded, the first call left is in the pool.  *)
LEMMA CommitStopsInv == IInv /\ CommitStops => IInv'
<1> SUFFICES ASSUME IInv, CommitStops PROVE IInv'  OBVIOUS
<1> USE DEF IInv, CommitStops, runVars, groupVars, bodyVars, logVars
<1>1. pc = "committing" /\ pc' = "committed"  OBVIOUS
<1>2. TypeOK'  BY DEF TypeOK
<1>3. PositionInv'  BY <1>1 DEF PositionInv, Between, Starting, GroupEnd
<1>4. PhaseInv'  BY <1>1 DEF PhaseInv, Between, Starting, Failing
<1>5. committed + 1 < nextToStart => committed + 1 \in inFlight
  <2> SUFFICES ASSUME committed + 1 < nextToStart PROVE committed + 1 \in inFlight
    OBVIOUS
  <2>1. /\ committed \in Nat /\ nextToStart \in Nat /\ GroupEnd(mode) \in Call
        /\ nextToStart <= GroupEnd(mode) + 1
    BY <1>1, GroupWithin, NIsNat DEF TypeOK, PositionInv, Between
  <2>2. committed + 1 \in Call /\ committed < GroupEnd(mode)
    BY <2>1, NIsNat DEF Call
  <2>3. phase[committed + 1] \in Started \ {"post", "final"}
    BY <1>1, <2>1, <2>2 DEF PhaseInv, Between, Failing, Ready
  <2>4. phase[committed + 1] \in {"dispatched", "running", "broken"}
    BY <2>3 DEF Started
  <2>5. QED  BY <1>1, <2>2, <2>4 DEF PoolInv, FailureInv, Executing, Failing
<1>6. PoolInv'  BY <1>1, <1>5 DEF PoolInv, Executing, Between
<1>7. FailureInv'  BY <1>1 DEF FailureInv, Between, Failing
<1>8. AbortInv' /\ OutcomeInv' /\ BarrierInv'
  BY <1>1 DEF AbortInv, OutcomeInv, BarrierInv
<1>9. LogInv'  BY <1>1, LogKept
<1>10. QED  BY <1>2, <1>3, <1>4, <1>6, <1>7, <1>8, <1>9

(* The abort is heard before the pool is filled again.                     *)
LEMMA RefillInv == IInv /\ Refill => IInv'
<1> SUFFICES ASSUME IInv, Refill PROVE IInv'  OBVIOUS
<1> USE DEF IInv, Refill, Healthy, groupVars, bodyVars, logVars
<1>1. pc = "committed" /\ pc' = "filling"  OBVIOUS
<1>2. TypeOK'  BY DEF TypeOK, Heard
<1>3. PositionInv'  BY <1>1 DEF PositionInv, Between, Starting, GroupEnd
<1>4. PhaseInv'  BY <1>1 DEF PhaseInv, Between, Starting, Failing
<1>5. PoolInv'  BY <1>1 DEF PoolInv, Executing, Between
<1>6. FailureInv'  BY <1>1 DEF FailureInv, Between, Failing
<1>7. AbortInv'  BY DEF AbortInv, Heard
<1>8. OutcomeInv' /\ BarrierInv'  BY <1>1 DEF OutcomeInv, BarrierInv
<1>9. LogInv'  BY <1>1, LogKept
<1>10. QED  BY <1>2, <1>3, <1>4, <1>5, <1>6, <1>7, <1>8, <1>9

-----------------------------------------------------------------------------
(* Waiting for the pool.                                                   *)

(* A settled dispatch leaves the pool; the failure it may have brought is  *)
(* heard at once.                                                          *)
LEMMA RaceInv ==
  ASSUME IInv, NEW c \in Call, Race(c)
  PROVE  IInv'
<1> USE DEF IInv, Race, Collected, runVars, groupVars, bodyVars, logVars
<1>1. pc = "racing" /\ pc' = IF failure # 0 THEN "draining" ELSE "committing"
  OBVIOUS
<1>2. TypeOK'  BY <1>1 DEF TypeOK
<1>3. PositionInv'  BY <1>1 DEF PositionInv, Between, Starting, GroupEnd
<1>4. PhaseInv'  BY <1>1 DEF PhaseInv, Between, Starting, Failing, GroupEnd
<1>5. PoolInv'
  <2>1. Executing' \subseteq inFlight'  BY DEF PoolInv, Executing
  <2>2. Cardinality(inFlight') <= Cardinality(inFlight) /\ Cardinality(inFlight') \in Nat
    <3>1. inFlight' \subseteq inFlight  OBVIOUS
    <3>2. QED  BY <3>1, PoolIsFinite, FS_Subset, FS_CardinalityType
  <2>3. QED  BY <1>1, <2>1, <2>2, PoolIsFinite DEF PoolInv, Between
<1>6. FailureInv'  BY <1>1 DEF FailureInv, Between, Failing
<1>7. AbortInv' /\ OutcomeInv' /\ BarrierInv'
  BY <1>1 DEF AbortInv, OutcomeInv, BarrierInv
<1>8. LogInv'  BY <1>1, LogKept
<1>9. QED  BY <1>2, <1>3, <1>4, <1>5, <1>6, <1>7, <1>8

(* The failure leaves when no dispatch runs.                               *)
LEMMA DrainedInv == IInv /\ Drained => IInv'
<1> SUFFICES ASSUME IInv, Drained PROVE IInv'  OBVIOUS
<1> USE DEF IInv, Drained, Quiescent, runVars, groupVars, bodyVars, logVars
<1>1. pc = "draining" /\ pc' = "failed"  OBVIOUS
<1>2. TypeOK'  BY DEF TypeOK
<1>3. PositionInv'  BY <1>1 DEF PositionInv, Between, Starting, GroupEnd
<1>4. PhaseInv'  BY <1>1 DEF PhaseInv, Between, Starting, Failing, GroupEnd
<1>5. PoolInv'  BY <1>1 DEF PoolInv, Executing, Between
<1>6. FailureInv'  BY <1>1 DEF FailureInv, PoolInv, Between, Failing, Executing
<1>7. AbortInv' /\ OutcomeInv' /\ BarrierInv'
  BY <1>1 DEF AbortInv, OutcomeInv, BarrierInv
<1>8. LogInv'  BY <1>1, LogKept
<1>9. QED  BY <1>2, <1>3, <1>4, <1>5, <1>6, <1>7, <1>8

-----------------------------------------------------------------------------
(* Abort.                                                                  *)

(* A skipped call is logged behind all others.                             *)
LEMMA SkipCallInv == IInv /\ SkipCall => IInv'
<1> SUFFICES ASSUME IInv, SkipCall PROVE IInv'  OBVIOUS
<1> USE DEF IInv, SkipCall, runVars, groupVars, bodyVars
<1>1. pc = "skipping" /\ pc' = "skipped" /\ nextToStart \in Call
  BY NIsNat DEF TypeOK, Call
<1>2. TypeOK'  BY <1>1, LogGrows DEF TypeOK
<1>3. PositionInv'  BY <1>1, NIsNat DEF PositionInv, Between, Starting, Call
<1>4. PhaseInv'  BY <1>1 DEF PhaseInv, Between, Starting, Failing
<1>5. PoolInv'  BY <1>1 DEF PoolInv, Executing, Between
<1>6. FailureInv'  BY <1>1 DEF FailureInv, Between, Failing
<1>7. AbortInv' /\ OutcomeInv' /\ BarrierInv'
  BY <1>1 DEF AbortInv, OutcomeInv, BarrierInv
<1>8. LogInv'
  <2>1. /\ Calls(log') = Calls(log) \cup {nextToStart}
        /\ Results(log') = Results(log)
    BY <1>1, LogGrows
  <2>2. \A d \in Calls(log) : d < nextToStart
    BY <1>1, NotStarted, NIsNat DEF LogInv, Starting, Failing, TypeOK, Call
  <2>3. OrderedByType'  BY <1>1, <2>2, OrderGrows DEF LogInv
  <2>4. QED  BY <1>1, <2>1, <2>3 DEF LogInv, Increasing
<1>9. QED  BY <1>2, <1>3, <1>4, <1>5, <1>6, <1>7, <1>8

(* Its result says that it never ran.                                      *)
LEMMA SkipResultInv == IInv /\ SkipResult => IInv'
<1> SUFFICES ASSUME IInv, SkipResult PROVE IInv'  OBVIOUS
<1> USE DEF IInv, SkipResult, groupVars
<1>1. /\ pc = "skipped" /\ pc' = "skipping" /\ nextToStart \in Call
      /\ nextToStart' = nextToStart + 1
  BY NIsNat DEF TypeOK, PositionInv, Call
<1>2. phase[nextToStart] = "waiting"  BY <1>1 DEF PhaseInv, Starting, Failing
<1>3. \A d \in Call :
        /\ phase'[d] = IF d = nextToStart THEN "done" ELSE phase[d]
        /\ outcome'[d] = IF d = nextToStart THEN "notRun" ELSE outcome[d]
  BY DEF TypeOK
<1>4. TypeOK'
  <2>1. nextToStart' \in 1 .. N + 1  BY <1>1, NIsNat DEF Call
  <2>2. log' \in Seq(ToolEvent)  BY <1>1, LogGrows
  <2>3. QED  BY <1>1, <2>1, <2>2 DEF TypeOK, Phase, Outcome
<1>5. PositionInv'
  BY <1>1, NIsNat DEF PositionInv, TypeOK, Between, Starting
<1>6. PhaseInv'
  BY <1>1, <1>3, NIsNat DEF PhaseInv, PositionInv, TypeOK, Call, Between, Starting, Failing
<1>7. PoolInv'  BY <1>1, <1>3 DEF PoolInv, Executing, Between
<1>8. FailureInv'  BY <1>1, <1>3 DEF FailureInv, Between, Failing
<1>9. AbortInv'  BY <1>1 DEF AbortInv
<1>10. OutcomeInv'  BY <1>1, <1>2, <1>3 DEF OutcomeInv, TypeOK
<1>11. BarrierInv'  BY <1>1, <1>3 DEF BarrierInv, TypeOK
<1>12. LogInv'
  <2>1. /\ Calls(log') = Calls(log)
        /\ Results(log') = Results(log) \cup {nextToStart}
    BY <1>1, LogGrows
  <2>2. \A d \in Results(log) : d < nextToStart
    BY <1>1, NotStarted, NIsNat DEF LogInv, Starting, Failing, TypeOK, Call
  <2>3. OrderedByType'  BY <1>1, <2>2, OrderGrows DEF LogInv
  <2>4. Calls(log') = {d \in Call : phase'[d] # "waiting"}
    BY <1>1, <1>3, <2>1 DEF LogInv
  <2>5. Results(log') = {d \in Call : phase'[d] = "done"}
    BY <1>1, <1>3, <2>1 DEF LogInv
  <2>6. \A c, d \in Call : d < c /\ phase'[c] = "done" => phase'[d] = "done"
    <3> SUFFICES ASSUME NEW c \in Call, NEW d \in Call, d < c, phase'[c] = "done"
                 PROVE  phase'[d] = "done"
      OBVIOUS
    <3>1. CASE c = nextToStart
      <4>1. d < nextToStart /\ committed \in Nat /\ d \in Nat  BY <3>1, NIsNat DEF TypeOK, Call
      <4>2. phase[d] = "done"  BY <1>1, <4>1 DEF PhaseInv, Between
      <4>3. QED  BY <1>3, <4>1, <4>2
    <3>2. CASE c # nextToStart  BY <1>2, <1>3, <3>2 DEF LogInv
    <3>3. QED  BY <3>1, <3>2
  <2>7. QED  BY <1>1, <2>3, <2>4, <2>5, <2>6 DEF LogInv, Increasing
<1>13. QED  BY <1>4, <1>5, <1>6, <1>7, <1>8, <1>9, <1>10, <1>11, <1>12

(* A refused event of a skipped call is the failure, over an empty pool.   *)
LEMMA SkipThrowsInv == IInv /\ SkipThrows => IInv'
<1> SUFFICES ASSUME IInv, SkipThrows PROVE IInv'  OBVIOUS
<1> USE DEF IInv, SkipThrows, Fails, runVars, groupVars, logVars
<1>1. /\ pc \in {"skipping", "skipped"} /\ pc' = "failed" /\ nextToStart \in Call
      /\ nextToStart \in Nat /\ inFlight = {}
  BY NIsNat DEF TypeOK, Call, PoolInv, Between
<1>2. phase[nextToStart] = "waiting"  BY <1>1 DEF PhaseInv, Starting, Failing
<1>3. \A d \in Call :
        phase'[d] = IF pc = "skipped" /\ d = nextToStart THEN "broken" ELSE phase[d]
  BY DEF TypeOK
<1>4. failure' \in 1 .. N  BY <1>1, NIsNat DEF TypeOK, Call
<1>5. TypeOK'  BY <1>1, <1>4 DEF TypeOK, Phase
<1>6. PositionInv'  BY <1>1 DEF PositionInv, Between, Starting
<1>7. PhaseInv'
  BY <1>1, <1>2, <1>3, NIsNat
     DEF PhaseInv, PositionInv, TypeOK, Call, Between, Started, Starting, Failing
<1>8. PoolInv'  BY <1>1, <1>3 DEF PoolInv, Executing, Between
<1>9. FailureInv'  BY <1>1, <1>3, <1>4 DEF FailureInv, PoolInv, Executing, Between, Failing
<1>10. OutcomeInv'  BY <1>1, <1>2, <1>3 DEF OutcomeInv, TypeOK
<1>11. AbortInv' /\ BarrierInv'  BY <1>1, <1>3 DEF AbortInv, BarrierInv, TypeOK
<1>12. LogInv'  BY <1>1, <1>2, <1>3 DEF LogInv, OrderedByType, Increasing
<1>13. QED  BY <1>5, <1>6, <1>7, <1>8, <1>9, <1>10, <1>11, <1>12

(* Skipping ends when every call is recorded.                              *)
LEMMA SkipDoneInv == IInv /\ SkipDone => IInv'
<1> SUFFICES ASSUME IInv, SkipDone PROVE IInv'  OBVIOUS
<1> USE DEF IInv, SkipDone, runVars, groupVars, bodyVars, logVars
<1>1. pc = "skipping" /\ pc' = "returned"  OBVIOUS
<1>2. TypeOK'  BY DEF TypeOK
<1>3. PositionInv'  BY <1>1, NIsNat DEF PositionInv, TypeOK, Between, Starting
<1>4. PhaseInv'  BY <1>1 DEF PhaseInv, Between, Starting, Failing
<1>5. PoolInv'  BY <1>1 DEF PoolInv, Executing, Between
<1>6. FailureInv'  BY <1>1 DEF FailureInv, Between, Failing
<1>7. AbortInv' /\ OutcomeInv' /\ BarrierInv'
  BY <1>1 DEF AbortInv, OutcomeInv, BarrierInv
<1>8. LogInv'  BY <1>1, LogKept
<1>9. QED  BY <1>2, <1>3, <1>4, <1>5, <1>6, <1>7, <1>8

(* An abort changes nothing but the signal.                                *)
LEMMA AbortKeepsInv == IInv /\ Abort => IInv'
<1> SUFFICES ASSUME IInv, Abort PROVE IInv'  OBVIOUS
<1> USE DEF IInv, Abort, runVars, groupVars, bodyVars, logVars
<1>1. TypeOK'  BY DEF TypeOK
<1>2. PositionInv' /\ PhaseInv'
  BY DEF PositionInv, PhaseInv, Between, Starting, Failing, Ready, GroupEnd
<1>3. PoolInv' /\ FailureInv'  BY DEF PoolInv, FailureInv, Executing
<1>4. AbortInv' /\ OutcomeInv' /\ BarrierInv'
  BY DEF AbortInv, OutcomeInv, BarrierInv
<1>5. LogInv'  BY DEF LogInv, OrderedByType, Increasing
<1>6. QED  BY <1>1, <1>2, <1>3, <1>4, <1>5

-----------------------------------------------------------------------------
(* Invariance.                                                             *)

(* The scheduler begins between two groups, with nothing started.          *)
LEMMA InitInv == Init => IInv
<1> SUFFICES ASSUME Init PROVE IInv  OBVIOUS
<1> USE DEF Init
<1>1. Calls(log) = {} /\ Results(log) = {} /\ DOMAIN log = {} /\ DOMAIN accepted = {}
  BY DEF Calls, Results
<1>2. TypeOK
  <2>1. /\ nextToStart \in 1 .. N + 1 /\ committed \in 0 .. N
        /\ groupStart \in 1 .. N + 1 /\ failure \in 0 .. N
    BY NIsNat
  <2>2. phase \in [Call -> Phase] /\ outcome \in [Call -> Outcome]
    BY DEF Phase, Outcome
  <2>3. log \in Seq(ToolEvent) /\ accepted \in Seq(Call)  OBVIOUS
  <2>4. QED  BY <2>1, <2>2, <2>3 DEF TypeOK
<1>3. PositionInv  BY NIsNat DEF PositionInv, Between, Starting
<1>4. PhaseInv  BY NIsNat DEF PhaseInv, Call, Between, Starting, Failing
<1>5. PoolInv
  BY FS_EmptySet, PoolSizesArePositive DEF PoolInv, Executing
<1>6. FailureInv  BY DEF FailureInv, Failing
<1>7. AbortInv /\ OutcomeInv /\ BarrierInv  BY DEF AbortInv, OutcomeInv, BarrierInv
<1>8. LogInv  BY <1>1 DEF LogInv, OrderedByType, Increasing
<1>9. QED  BY <1>2, <1>3, <1>4, <1>5, <1>6, <1>7, <1>8 DEF IInv

(* A step that changes nothing keeps the invariant.                        *)
LEMMA StutterInv == IInv /\ UNCHANGED vars => IInv'
BY DEF vars, runVars, groupVars, bodyVars, logVars, IInv, TypeOK, PositionInv,
       PhaseInv, PoolInv, FailureInv, AbortInv, OutcomeInv, BarrierInv, LogInv,
       OrderedByType, Increasing, Executing, Ready, GroupEnd

(* Every step of the scheduler, of a dispatch or of an abort keeps the     *)
(* invariant.                                                              *)
LEMMA NextInv == IInv /\ [Next]_vars => IInv'
<1> SUFFICES ASSUME IInv, [Next]_vars PROVE IInv'  OBVIOUS
<1>1. CASE Classify \/ StopFilling \/ StartThrows
  BY <1>1, ClassifyInv, StopFillingInv, StartThrowsInv
<1>2. ASSUME NEW kind \in {"parallel", "exclusive"}, StartCall(kind) PROVE IInv'
  BY <1>2, StartCallInv
<1>3. CASE PrepareDecides \/ PrepareThrows \/ Prepared \/ CallStarted \/ FailureSeen
  BY <1>3, PrepareDecidesInv, PrepareThrowsInv, PreparedInv, CallStartedInv,
     FailureSeenInv
<1>4. CASE \/ CommitFinal \/ FinalizeStarts \/ CommitPost \/ CommitThrows
           \/ ContextThrows \/ CommitStops
  BY <1>4, CommitFinalInv, FinalizeStartsInv, CommitPostInv, CommitThrowsInv,
     ContextThrowsInv, CommitStopsInv
<1>5. CASE Refill \/ Drained \/ SkipCall \/ SkipResult \/ SkipThrows \/ SkipDone
  BY <1>5, RefillInv, DrainedInv, SkipCallInv, SkipResultInv, SkipThrowsInv, SkipDoneInv
<1>6. ASSUME NEW c \in Call, Race(c) \/ InvokeBody(c) \/ Settlement(c) PROVE IInv'
  BY <1>6, RaceInv, InvokeBodyInv, DispatchSettlesInv, DispatchRejectsInv DEF Settlement
<1>7. CASE Abort \/ UNCHANGED vars
  BY <1>7, AbortKeepsInv, StutterInv
<1>8. QED  BY <1>1, <1>2, <1>3, <1>4, <1>5, <1>6, <1>7 DEF Next, Scheduler

(* The invariant holds of every reachable state.                           *)
THEOREM SchedulerInvariance == Spec => []IInv
  BY InitInv, NextInv, PTL DEF Spec

-----------------------------------------------------------------------------
(* What follows.                                                           *)

(* The limit of the group bounds the dispatches that overlap.              *)
THEOREM PoolIsBoundedAlways == Spec => []PoolIsBounded
<1>1. IInv => PoolIsBounded
  <2> SUFFICES ASSUME IInv PROVE PoolIsBounded  OBVIOUS
  <2>1. inFlight \cup Executing = inFlight  BY DEF IInv, PoolInv
  <2>2. QED  BY <2>1 DEF IInv, PoolInv, PoolIsBounded
<1>2. QED  BY <1>1, SchedulerInvariance, PTL

(* Between its call event and its result a barrier is alone.               *)
THEOREM ExclusiveRunsAloneAlways == Spec => []ExclusiveRunsAlone
<1>1. IInv => ExclusiveRunsAlone
  <2> SUFFICES ASSUME IInv, NEW b \in barrier, phase[b] # "done", ~Over,
                      NEW c \in Call \ {b}
               PROVE  phase[c] = IF c < b THEN "done" ELSE "waiting"
    BY DEF ExclusiveRunsAlone
  <2>1. /\ b \in Call /\ b \in Nat /\ c \in Nat /\ committed \in Nat
        /\ nextToStart \in Nat /\ groupStart \in Nat
    BY NIsNat DEF IInv, TypeOK, Call
  <2>2. committed < b /\ b <= nextToStart /\ phase[b] # "waiting"
    BY <2>1 DEF IInv, PhaseInv, BarrierInv
  <2>3. pc \notin Between \cup {"failed"}
    BY <2>1, <2>2 DEF IInv, PhaseInv, Between, Starting, Failing, Over
  <2>4. /\ b = groupStart /\ committed = groupStart - 1
        /\ nextToStart <= groupStart + 1
    BY <2>1, <2>2, <2>3 DEF IInv, BarrierInv, PositionInv, GroupEnd
  <2>5. CASE c < b
    BY <2>1, <2>4, <2>5 DEF IInv, PhaseInv
  <2>6. CASE c > b
    <3>1. c > GroupEnd(mode)
      BY <2>1, <2>4, <2>6 DEF IInv, BarrierInv, GroupEnd
    <3>2. QED
      BY <2>1, <2>3, <2>4, <2>6, <3>1, GroupWithin, NIsNat
         DEF IInv, PhaseInv, PositionInv, Starting, Failing, Call
  <2>7. QED  BY <2>1, <2>5, <2>6
<1>2. QED  BY <1>1, SchedulerInvariance, PTL

(* A cancelled result says whether the body was invoked.                   *)
THEOREM HonestOutcomeAlways == Spec => []HonestOutcome
<1>1. IInv => HonestOutcome
  BY DEF IInv, LogInv, OutcomeInv, HonestOutcome
<1>2. QED  BY <1>1, SchedulerInvariance, PTL

(* A group is left with everything it started recorded.                    *)
LEMMA RecordedBetween ==
  ASSUME IInv, pc \in {"classify", "skipping", "returned"}
  PROVE  Results(log) = 1 .. nextToStart - 1 /\ Calls(log) = Results(log)
<1>1. nextToStart \in 1 .. N + 1  BY DEF IInv, TypeOK
<1>2. ASSUME NEW c \in Call
      PROVE  /\ c < nextToStart => phase[c] = "done"
             /\ c >= nextToStart => phase[c] = "waiting"
  BY <1>1, NIsNat DEF IInv, PhaseInv, TypeOK, Call, Between, Starting, Failing
<1>3. \A c \in Call : c \in Nat  BY NIsNat DEF Call
<1>4. 1 .. nextToStart - 1 = {c \in Call : c < nextToStart}
  BY <1>1, NIsNat DEF Call
<1>5. {c \in Call : phase[c] = "done"} = {c \in Call : c < nextToStart}
  BY <1>1, <1>2, <1>3
<1>6. {c \in Call : phase[c] # "waiting"} = {c \in Call : c < nextToStart}
  BY <1>1, <1>2, <1>3
<1>7. QED  BY <1>4, <1>5, <1>6 DEF IInv, LogInv

(* No call that was started, and no settled result, is lost with a group.  *)
THEOREM NothingSettledIsLostAlways == Spec => []NothingSettledIsLost
<1>1. IInv => NothingSettledIsLost  BY RecordedBetween DEF NothingSettledIsLost
<1>2. QED  BY <1>1, SchedulerInvariance, PTL

(* A scheduler that returns has answered every call.                       *)
THEOREM AnsweredOnReturnAlways == Spec => []AnsweredOnReturn
<1>1. IInv => AnsweredOnReturn
  <2> SUFFICES ASSUME IInv, pc = "returned" PROVE Calls(log) = Call /\ Results(log) = Call
    BY DEF AnsweredOnReturn
  <2>1. nextToStart - 1 = N  BY NIsNat DEF IInv, PositionInv
  <2>2. QED  BY <2>1, RecordedBetween DEF Call
<1>2. QED  BY <1>1, SchedulerInvariance, PTL

(* A failure leaves over a quiet pool and an honest log.                   *)
THEOREM FailureDrainsAlways == Spec => []FailureDrains
<1>1. IInv => FailureDrains
  BY DEF IInv, FailureInv, LogInv, FailureDrains
<1>2. QED  BY <1>1, SchedulerInvariance, PTL

(* Calls, results and contexts are in model order.                         *)
THEOREM ModelOrderAlways == Spec => []ModelOrder
<1>1. IInv => ModelOrder
  <2> SUFFICES ASSUME IInv PROVE ModelOrder  OBVIOUS
  <2>1. /\ committed \in Nat /\ nextToStart \in Nat /\ committed < nextToStart
        /\ \A c \in Call : c \in Nat
    BY NIsNat DEF IInv, TypeOK, Call, PositionInv
  <2>2. ASSUME NEW c \in Calls(log), NEW d \in 1 .. c PROVE d \in Calls(log)
    <3>1. c \in Call /\ d \in Call /\ d <= c
      BY NIsNat DEF IInv, LogInv, PositionInv, TypeOK, Call
    <3>2. c <= nextToStart  BY <2>1, <3>1 DEF IInv, LogInv, PhaseInv
    <3>3. d < c => phase[d] # "waiting"
      BY <2>1, <3>1, <3>2 DEF IInv, PhaseInv, Started
    <3>4. QED  BY <2>1, <3>1, <3>3 DEF IInv, LogInv
  <2>3. ASSUME NEW c \in Results(log), NEW d \in 1 .. c PROVE d \in Results(log)
    <3>1. c \in Call /\ d \in Call /\ d <= c /\ phase[c] = "done"
      BY NIsNat DEF IInv, LogInv, TypeOK, Call
    <3>2. c < nextToStart
      BY <2>1, <3>1 DEF IInv, PhaseInv, Started, Starting, Failing
    <3>3. d < c => phase[d] = "done"
      BY <2>1, <3>1, <3>2 DEF IInv, LogInv
    <3>4. QED  BY <2>1, <3>1, <3>3 DEF IInv, LogInv
  <2>4. ASSUME NEW k \in DOMAIN accepted PROVE accepted[k] \in Results(log)
    <3>1. accepted[k] \in Call /\ accepted[k] <= committed
      BY DEF IInv, TypeOK, LogInv
    <3>2. QED  BY <3>1 DEF IInv, PhaseInv, LogInv
  <2>5. \A calls \in {Calls(log), Results(log)} : \A c \in calls : 1 .. c \subseteq calls
    BY <2>2, <2>3
  <2>6. QED  BY <2>4, <2>5 DEF IInv, LogInv, ModelOrder
<1>2. QED  BY <1>1, SchedulerInvariance, PTL

(* After an abort no body is invoked and no call starts.                   *)
THEOREM AbortStopsStartsAlways == Spec => AbortStopsStarts
<1> DEFINE Stops == signal => /\ invoked' = invoked
                             /\ \A c \in Call : phase[c] = "waiting"
                                               => phase'[c] # "preparing"
<1>1. IInv /\ [Next]_vars => [Stops]_vars
  <2> SUFFICES ASSUME IInv, Next, signal
               PROVE  /\ invoked' = invoked
                      /\ \A c \in Call : phase[c] = "waiting" => phase'[c] # "preparing"
    OBVIOUS
  <2> USE DEF runVars, groupVars, bodyVars, logVars
  <2>1. ASSUME NEW kind \in {"parallel", "exclusive"}, StartCall(kind) PROVE FALSE
    BY <2>1 DEF StartCall, MayStart, IInv, AbortInv
  <2>2. \A c \in Call : ~InvokeBody(c)  BY DEF InvokeBody
  <2>3. CASE phase' = phase /\ invoked' = invoked
    BY <2>3
  <2>4. CASE /\ invoked' = invoked
             /\ \E c \in Call, s \in Phase \ {"preparing"} : phase' = [phase EXCEPT ![c] = s]
    BY <2>4 DEF IInv, TypeOK
  <2>5. CASE Prepared \/ SkipResult
    <3>1. nextToStart \in 1 .. N + 1 /\ nextToStart <= N
      <4>1. CASE pc = "prepared"
        BY <4>1, GroupWithin, NIsNat
           DEF IInv, TypeOK, PositionInv, Starting, Between, Call
      <4>2. CASE pc = "skipped"
        BY <4>2 DEF IInv, TypeOK, PositionInv
      <4>3. QED  BY <2>5, <4>1, <4>2 DEF Prepared, SkipResult
    <3>2. nextToStart \in Call  BY <3>1, NIsNat DEF Call
    <3>3. invoked' = invoked  BY <2>5 DEF Prepared, SkipResult
    <3>4. \E s \in Phase \ {"preparing"} : phase' = [phase EXCEPT ![nextToStart] = s]
      BY <2>5 DEF Prepared, SkipResult, Phase, IInv, PositionInv, TypeOK
    <3>5. QED  BY <2>4, <3>2, <3>3, <3>4
  <2>6. ASSUME NEW c \in Call, Settlement(c)
        PROVE  \E s \in Phase \ {"preparing"} : phase' = [phase EXCEPT ![c] = s]
    BY <2>6 DEF Settlement, DispatchSettles, DispatchRejects, Phase
  <2>7. \A c \in Call : Settlement(c) => invoked' = invoked
    BY DEF Settlement, DispatchSettles, DispatchRejects
  <2>8. CASE CommitFinal \/ CommitPost
    <3>1. pc \in {"committing", "finalizing"} /\ Ready({"post", "final"})
      BY <2>8 DEF CommitFinal, CommitPost, Ready, IInv, PositionInv
    <3>2. committed + 1 \in Call  BY <3>1, ReadyIsStarted
    <3>3. invoked' = invoked /\ phase' = [phase EXCEPT ![committed + 1] = "done"]
      BY <2>8 DEF CommitFinal, CommitPost, Record, Answer
    <3>4. QED  BY <2>4, <3>2, <3>3 DEF Phase
  <2>9. CASE \/ Classify \/ StopFilling \/ PrepareDecides \/ PrepareThrows
             \/ CallStarted \/ FailureSeen \/ FinalizeStarts \/ CommitThrows
             \/ CommitStops \/ Refill \/ Drained \/ SkipCall \/ SkipDone \/ Abort
             \/ StartThrows
    BY <2>3, <2>9
       DEF Classify, StopFilling, StartThrows, PrepareDecides, PrepareThrows, CallStarted, FailureSeen,
           FinalizeStarts, CommitThrows, CommitStops, Refill, Drained, SkipCall,
           SkipDone, Abort
  <2>10. ASSUME NEW c \in Call, Race(c) PROVE phase' = phase /\ invoked' = invoked
    BY <2>10 DEF Race
  <2>11. CASE ContextThrows
    <3>1. pc \in {"committing", "finalizing"} /\ Ready({"post", "final"})
      BY <2>11 DEF ContextThrows, Ready, IInv, PositionInv
    <3>2. committed + 1 \in Call  BY <3>1, ReadyIsStarted
    <3>3. invoked' = invoked /\ phase' = [phase EXCEPT ![committed + 1] = "done"]
      BY <2>11 DEF ContextThrows, Answer
    <3>4. QED  BY <2>4, <3>2, <3>3 DEF Phase
  <2>12. CASE SkipThrows
    BY <2>12 DEF SkipThrows, IInv, TypeOK
  <2>13. QED
    BY <2>1, <2>2, <2>3, <2>4, <2>5, <2>6, <2>7, <2>8, <2>9, <2>10, <2>11, <2>12
       DEF Next, Scheduler
<1>2. QED
  BY <1>1, SchedulerInvariance, PTL DEF Spec, AbortStopsStarts

(* After a failure nothing starts or is dispatched, and it is that failure *)
(* that leaves.                                                            *)
THEOREM FailureStopsDispatchAlways == Spec => FailureStopsDispatch
<1> DEFINE Stops == failure # 0 =>
                      /\ failure' = failure
                      /\ \A c \in Call : phase'[c] \in {"preparing", "dispatched"}
                                        => phase'[c] = phase[c]
<1>1. IInv /\ [Next]_vars => [Stops]_vars
  <2> SUFFICES ASSUME IInv, Next, failure # 0
               PROVE  /\ failure' = failure
                      /\ \A c \in Call : phase'[c] \in {"preparing", "dispatched"}
                                        => phase'[c] = phase[c]
    OBVIOUS
  <2> USE DEF runVars, groupVars, bodyVars, logVars, Fails
  <2>1. pc \notin Between \cup {"filling"}  BY DEF IInv, FailureInv
  <2>2. /\ ~Classify /\ ~StopFilling /\ ~StartThrows
        /\ ~SkipCall /\ ~SkipResult /\ ~SkipThrows /\ ~SkipDone
        /\ \A kind \in {"parallel", "exclusive"} : ~StartCall(kind)
    BY <2>1 DEF Between, Classify, StopFilling, StartThrows, SkipCall, SkipResult,
                SkipThrows, SkipDone, StartCall
  <2>3. ~Prepared /\ ~CallStarted /\ ~Refill
    BY DEF Prepared, CallStarted, Refill, Healthy
  <2>4. CASE failure' = failure /\ phase' = phase
    BY <2>4
  <2>5. CASE /\ failure' = failure
             /\ \E c \in Call, s \in Phase \ {"preparing", "dispatched"} :
                  phase' = [phase EXCEPT ![c] = s]
    BY <2>5 DEF IInv, TypeOK
  <2>6. ASSUME NEW c \in Call, InvokeBody(c) \/ Settlement(c)
        PROVE  /\ failure' = failure
               /\ \E s \in Phase \ {"preparing", "dispatched"} :
                    phase' = [phase EXCEPT ![c] = s]
    BY <2>6 DEF InvokeBody, Settlement, DispatchSettles, DispatchRejects, Phase
  <2>7. CASE CommitFinal \/ CommitPost
    <3>1. pc \in {"committing", "finalizing"} /\ Ready({"post", "final"})
      BY <2>7 DEF CommitFinal, CommitPost, Ready, IInv, PositionInv
    <3>2. committed + 1 \in Call  BY <3>1, ReadyIsStarted
    <3>3. failure' = failure /\ phase' = [phase EXCEPT ![committed + 1] = "done"]
      BY <2>7 DEF CommitFinal, CommitPost, Record, Answer
    <3>4. QED  BY <2>5, <3>2, <3>3 DEF Phase
  <2>8. CASE \/ PrepareDecides \/ PrepareThrows \/ FailureSeen \/ FinalizeStarts
             \/ CommitThrows \/ CommitStops \/ Drained \/ Abort
    BY <2>4, <2>8
       DEF PrepareDecides, PrepareThrows, FailureSeen, FinalizeStarts, CommitThrows,
           CommitStops, Drained, Abort
  <2>9. ASSUME NEW c \in Call, Race(c) PROVE failure' = failure /\ phase' = phase
    BY <2>9 DEF Race
  <2>10. CASE ContextThrows
    <3>1. pc \in {"committing", "finalizing"} /\ Ready({"post", "final"})
      BY <2>10 DEF ContextThrows, Ready, IInv, PositionInv
    <3>2. committed + 1 \in Call  BY <3>1, ReadyIsStarted
    <3>3. failure' = failure /\ phase' = [phase EXCEPT ![committed + 1] = "done"]
      BY <2>10 DEF ContextThrows, Answer
    <3>4. QED  BY <2>5, <3>2, <3>3 DEF Phase
  <2>11. QED
    BY <2>2, <2>3, <2>4, <2>5, <2>6, <2>7, <2>8, <2>9, <2>10 DEF Next, Scheduler
<1>2. QED
  BY <1>1, SchedulerInvariance, PTL DEF Spec, FailureStopsDispatch

-----------------------------------------------------------------------------
(* The session's bracket protocol.                                         *)

Trace == [openTurn |-> 1, openStep |-> 1, nextTurn |-> 1, nextStep |-> 1,
          pendingCalls |-> Calls(log) \ Results(log),
          namedTurn |-> 1, namedStep |-> 1]

(* A call event opens a call of the step.                                  *)
LEMMA CallAccepted ==
  ASSUME IInv, NEW c \in Call, log' = Append1("tool/call", c), c \notin Results(log)
  PROVE  Log!Execute
<1>1. Calls(log') \ Results(log') = (Calls(log) \ Results(log)) \cup {c}
  BY LogGrows DEF IInv
<1>2. Trace' = Log!Called(Trace, c)  BY <1>1 DEF Trace, Log!Called
<1>3. Log!ToolCall(c)  BY <1>2 DEF Log!ToolCall, Trace, Log!Called
<1>4. QED  BY <1>3 DEF Log!Execute

(* A result event answers a call that is open.                             *)
LEMMA ResultAccepted ==
  ASSUME IInv, NEW c \in Call, log' = Append1("tool/result", c),
         c \in Calls(log) \ Results(log)
  PROVE  Log!Execute
<1>1. Calls(log') \ Results(log') = (Calls(log) \ Results(log)) \ {c}
  BY LogGrows DEF IInv
<1>2. Trace' = Log!Resulted(Trace, c)  BY <1>1 DEF Trace, Log!Resulted
<1>3. Log!ToolResult(c)  BY <1>2 DEF Log!ToolResult, Trace, Log!Resulted
<1>4. QED  BY <1>3 DEF Log!Execute

(* The session accepts every event the scheduler appends.                  *)
THEOREM AppendsAcceptedAlways == Spec => AppendsAccepted
<1>1. IInv /\ [Next]_vars => [Log!Execute]_log
  <2> SUFFICES ASSUME IInv, [Next]_vars, log' # log PROVE Log!Execute
    OBVIOUS
  <2> USE DEF runVars, groupVars, bodyVars, logVars
  <2>1. ASSUME NEW kind \in {"parallel", "exclusive"}, StartCall(kind) PROVE Log!Execute
    <3>1. nextToStart \in Call
      BY <2>1, GroupWithin, NIsNat DEF StartCall, MayStart, Between, Call, IInv, TypeOK
    <3>2. nextToStart \notin Results(log)
      BY <2>1, <3>1 DEF StartCall, IInv, PhaseInv, LogInv, Starting, Failing
    <3>3. QED  BY <2>1, <3>1, <3>2, CallAccepted DEF StartCall
  <2>2. CASE SkipCall
    <3>1. nextToStart \in Call  BY <2>2, NIsNat DEF SkipCall, Call, IInv, TypeOK
    <3>2. nextToStart \notin Results(log)
      BY <2>2, <3>1 DEF SkipCall, IInv, PhaseInv, LogInv, Starting, Failing
    <3>3. QED  BY <2>2, <3>1, <3>2, CallAccepted DEF SkipCall
  <2>3. CASE SkipResult
    <3>1. nextToStart \in Call
      BY <2>3, NIsNat DEF SkipResult, PositionInv, Call, IInv, TypeOK
    <3>2. nextToStart \in Calls(log) \ Results(log)
      BY <2>3, <3>1 DEF SkipResult, IInv, PhaseInv, LogInv, Starting, Failing
    <3>3. QED  BY <2>3, <3>1, <3>2, ResultAccepted DEF SkipResult
  <2>4. CASE CommitFinal \/ CommitPost \/ ContextThrows
    <3>1. pc \in {"committing", "finalizing"} /\ Ready({"post", "final"})
      BY <2>4 DEF CommitFinal, CommitPost, ContextThrows, Ready, IInv, PositionInv
    <3>2. committed + 1 \in Call /\ phase[committed + 1] \in {"post", "final"}
      BY <3>1, ReadyIsStarted
    <3>3. log' = Append1("tool/result", committed + 1)
      BY <2>4 DEF CommitFinal, CommitPost, ContextThrows, Record, Answer
    <3>4. committed + 1 \in Calls(log) \ Results(log)
      BY <3>2 DEF IInv, LogInv
    <3>5. QED  BY <3>2, <3>3, <3>4, ResultAccepted
  <2>5. ASSUME \/ Classify \/ StopFilling \/ PrepareDecides \/ PrepareThrows
               \/ Prepared \/ CallStarted \/ FailureSeen \/ FinalizeStarts
               \/ CommitThrows \/ CommitStops \/ Refill \/ Drained \/ SkipThrows
               \/ StartThrows \/ SkipDone
               \/ Abort \/ UNCHANGED vars
        PROVE  FALSE
    BY <2>5
       DEF Classify, StopFilling, PrepareDecides, PrepareThrows, Prepared, CallStarted,
           FailureSeen, FinalizeStarts, CommitThrows, CommitStops, Refill, Drained,
           StartThrows, SkipThrows, SkipDone, Abort, vars
  <2>6. ASSUME NEW c \in Call, Race(c) \/ InvokeBody(c) \/ Settlement(c) PROVE FALSE
    BY <2>6 DEF Race, InvokeBody, Settlement, DispatchSettles, DispatchRejects
  <2>7. QED  BY <2>1, <2>2, <2>3, <2>4, <2>5, <2>6 DEF Next, Scheduler
<1>2. QED
  BY <1>1, SchedulerInvariance, PTL DEF Spec, AppendsAccepted
=============================================================================

--------------------------- MODULE AgentLoop_proofs ---------------------------
(***************************************************************************)
(* What AgentLoop's control guarantees for every value of its bounds: the  *)
(* inductive invariant that ties the driver's position to its phase, to    *)
(* the brackets in the session log, to the wake latch and to the activity  *)
(* promise, and the properties that follow from it.                        *)
(***************************************************************************)
EXTENDS AgentLoop, TLAPS

-----------------------------------------------------------------------------
(* The inductive invariant.                                                *)

InTurn == {"boundary", "preStep", "decided", "entered", "model", "tools",
           "stepEnded", "stopping", "unwind", "erred"}
InStep == {"entered", "model", "tools"}
Point == {"none"} \cup Synchronous \cup Awaiting

ControlInv ==
  /\ phase \in {"idle", "maintenance", "running"}
  /\ pc \in Point
  /\ pc = "none" <=> phase # "running"
  /\ turn \in Nat /\ step \in Nat
  /\ abort \in {"none", "user", "disposed"}
  /\ phase = "idle" => abort = "none"

TraceRecord == [openTurn : Nat, openStep : Nat, nextTurn : Nat, nextStep : Nat,
                pendingCalls : SUBSET {}, namedTurn : Nat, namedStep : Nat]

(* Where the driver is determines which brackets are open in the log.      *)
BracketInv ==
  /\ trace \in TraceRecord
  /\ trace.openTurn = IF pc \in InTurn THEN turn ELSE 0
  /\ trace.nextTurn = IF pc \in InTurn THEN turn ELSE turn + 1
  /\ trace.openStep = IF pc \in InStep THEN step ELSE 0
  /\ pc \in InTurn => turn # 0
  /\ pc \in InStep => step # 0 /\ trace.nextStep = step
  /\ pc \in InTurn \ InStep => trace.nextStep = step + 1
  /\ pc \in {"woken", "again"} => step = 0

(* A claimed batch is held only between its claim and its step.            *)
BatchInv ==
  batch = <<>> \/ pc = "preStep" \/ (pc = "decided" /\ decision = "messages")

LatchInv ==
  /\ wakeRequested \in BOOLEAN
  /\ LatchAwaitsConvergence
  /\ wakeFrame \in {"none", "live", "afterAbort"}
  /\ wakeFrame = "afterAbort" => phase # "idle" /\ Aborted

CeilingInv ==
  /\ sawMax \in BOOLEAN
  /\ sawMax /\ pc \in InTurn => turnEnds = "max-tokens"
  /\ StickyCeiling

(* The current activity is settled exactly when the agent is idle.         *)
ActivityInv ==
  /\ activity \in Nat
  /\ settled \subseteq 0 .. activity
  /\ activity \in settled <=> phase = "idle"
  /\ disposal \in {"no", "requested", "done"}
  /\ disposal = "done" => wakeFrame = "none"
  /\ DisposedIsQuiescent

IInv ==
  ControlInv /\ BracketInv /\ BatchInv /\ LatchInv /\ CeilingInv /\ ActivityInv

-----------------------------------------------------------------------------
(* What the bracket events of a turn do to the fields of the trace.        *)
LEMMA TurnEvents ==
  ASSUME NEW t \in TraceRecord, NEW n \in Nat
  PROVE  /\ Log!TurnStarted(t, n) \in TraceRecord
         /\ Log!TurnStarted(t, n).openTurn = n
         /\ Log!TurnStarted(t, n).openStep = t.openStep
         /\ Log!TurnStarted(t, n).nextTurn = t.nextTurn
         /\ Log!TurnStarted(t, n).nextStep = 1
         /\ Log!TurnEnded(t, n) \in TraceRecord
         /\ Log!TurnEnded(t, n).openTurn = 0
         /\ Log!TurnEnded(t, n).openStep = t.openStep
         /\ Log!TurnEnded(t, n).nextTurn = t.nextTurn + 1
         /\ Log!TurnEnded(t, n).nextStep = t.nextStep
<1> USE DEF TraceRecord
<1>1. /\ Log!TurnStarted(t, n) \in TraceRecord
      /\ Log!TurnStarted(t, n).openTurn = n
      /\ Log!TurnStarted(t, n).openStep = t.openStep
      /\ Log!TurnStarted(t, n).nextTurn = t.nextTurn
      /\ Log!TurnStarted(t, n).nextStep = 1
  BY DEF Log!TurnStarted
<1>2. /\ Log!TurnEnded(t, n) \in TraceRecord
      /\ Log!TurnEnded(t, n).openTurn = 0
      /\ Log!TurnEnded(t, n).openStep = t.openStep
      /\ Log!TurnEnded(t, n).nextTurn = t.nextTurn + 1
      /\ Log!TurnEnded(t, n).nextStep = t.nextStep
  <2>1. PICK m \in Nat : m = t.nextTurn + 1  OBVIOUS
  <2>2. Log!TurnEnded(t, n) =
          [t EXCEPT !.namedTurn = n, !.namedStep = 0, !.openTurn = 0, !.nextTurn = m]
    BY <2>1 DEF Log!TurnEnded
  <2>3. [t EXCEPT !.namedTurn = n, !.namedStep = 0, !.openTurn = 0, !.nextTurn = m]
          \in TraceRecord
    OBVIOUS
  <2>4. Log!TurnEnded(t, n).openTurn = 0  BY <2>2
  <2>5. Log!TurnEnded(t, n).openStep = t.openStep  BY <2>2
  <2>6. Log!TurnEnded(t, n).nextTurn = m  BY <2>2
  <2>7. Log!TurnEnded(t, n).nextStep = t.nextStep  BY <2>2
  <2>8. QED  BY <2>1, <2>2, <2>3, <2>4, <2>5, <2>6, <2>7
<1>3. QED  BY <1>1, <1>2

(* And those of a step.                                                    *)
LEMMA StepEvents ==
  ASSUME NEW t \in TraceRecord, NEW n \in Nat, NEW k \in Nat
  PROVE  /\ Log!StepStarted(t, n, k) \in TraceRecord
         /\ Log!StepStarted(t, n, k).openTurn = t.openTurn
         /\ Log!StepStarted(t, n, k).openStep = k
         /\ Log!StepStarted(t, n, k).nextTurn = t.nextTurn
         /\ Log!StepStarted(t, n, k).nextStep = t.nextStep
         /\ Log!StepEnded(t, n, k) \in TraceRecord
         /\ Log!StepEnded(t, n, k).openTurn = t.openTurn
         /\ Log!StepEnded(t, n, k).openStep = 0
         /\ Log!StepEnded(t, n, k).nextTurn = t.nextTurn
         /\ Log!StepEnded(t, n, k).nextStep = t.nextStep + 1
<1> USE DEF TraceRecord
<1>1. /\ Log!StepStarted(t, n, k) \in TraceRecord
      /\ Log!StepStarted(t, n, k).openTurn = t.openTurn
      /\ Log!StepStarted(t, n, k).openStep = k
      /\ Log!StepStarted(t, n, k).nextTurn = t.nextTurn
      /\ Log!StepStarted(t, n, k).nextStep = t.nextStep
  BY DEF Log!StepStarted
<1>2. /\ Log!StepEnded(t, n, k) \in TraceRecord
      /\ Log!StepEnded(t, n, k).openTurn = t.openTurn
      /\ Log!StepEnded(t, n, k).openStep = 0
      /\ Log!StepEnded(t, n, k).nextTurn = t.nextTurn
      /\ Log!StepEnded(t, n, k).nextStep = t.nextStep + 1
  <2>1. PICK m \in Nat : m = t.nextStep + 1  OBVIOUS
  <2>2. Log!StepEnded(t, n, k) =
          [t EXCEPT !.namedTurn = n, !.namedStep = k, !.openStep = 0, !.nextStep = m,
                    !.pendingCalls = {}]
    BY <2>1 DEF Log!StepEnded
  <2>3. [t EXCEPT !.namedTurn = n, !.namedStep = k, !.openStep = 0, !.nextStep = m,
                  !.pendingCalls = {}] \in TraceRecord
    OBVIOUS
  <2>4. Log!StepEnded(t, n, k).openTurn = t.openTurn  BY <2>2
  <2>5. Log!StepEnded(t, n, k).openStep = 0  BY <2>2
  <2>6. Log!StepEnded(t, n, k).nextTurn = t.nextTurn  BY <2>2
  <2>7. Log!StepEnded(t, n, k).nextStep = m  BY <2>2
  <2>8. QED  BY <2>1, <2>2, <2>3, <2>4, <2>5, <2>6, <2>7
<1>3. QED  BY <1>1, <1>2

(* The driver's own turn opens.                                            *)
LEMMA TurnOpens ==
  ASSUME IInv, trace' = Log!TurnStarted(trace, turn + 1)
  PROVE  /\ trace' \in TraceRecord
         /\ trace'.openTurn = turn + 1
         /\ trace'.openStep = trace.openStep
         /\ trace'.nextTurn = trace.nextTurn
         /\ trace'.nextStep = 1
<1>1. trace \in TraceRecord /\ turn \in Nat /\ step \in Nat /\ turn + 1 \in Nat /\ step + 1 \in Nat
  BY DEF IInv, ControlInv, BracketInv
<1>2. QED  BY <1>1, TurnEvents

(* It closes.                                                              *)
LEMMA TurnCloses ==
  ASSUME IInv, trace' = Log!TurnEnded(trace, turn)
  PROVE  /\ trace' \in TraceRecord
         /\ trace'.openTurn = 0
         /\ trace'.openStep = trace.openStep
         /\ trace'.nextTurn = trace.nextTurn + 1
         /\ trace'.nextStep = trace.nextStep
<1>1. trace \in TraceRecord /\ turn \in Nat /\ step \in Nat /\ turn + 1 \in Nat /\ step + 1 \in Nat
  BY DEF IInv, ControlInv, BracketInv
<1>2. QED  BY <1>1, TurnEvents

(* The next step of it opens.                                              *)
LEMMA StepOpens ==
  ASSUME IInv, trace' = Log!StepStarted(trace, turn, step + 1)
  PROVE  /\ trace' \in TraceRecord
         /\ trace'.openTurn = trace.openTurn
         /\ trace'.openStep = step + 1
         /\ trace'.nextTurn = trace.nextTurn
         /\ trace'.nextStep = trace.nextStep
<1>1. trace \in TraceRecord /\ turn \in Nat /\ step \in Nat /\ turn + 1 \in Nat /\ step + 1 \in Nat
  BY DEF IInv, ControlInv, BracketInv
<1>2. QED  BY <1>1, StepEvents

(* And closes.                                                             *)
LEMMA StepCloses ==
  ASSUME IInv, trace' = Log!StepEnded(trace, turn, step)
  PROVE  /\ trace' \in TraceRecord
         /\ trace'.openTurn = trace.openTurn
         /\ trace'.openStep = 0
         /\ trace'.nextTurn = trace.nextTurn
         /\ trace'.nextStep = trace.nextStep + 1
<1>1. trace \in TraceRecord /\ turn \in Nat /\ step \in Nat /\ turn + 1 \in Nat /\ step + 1 \in Nat
  BY DEF IInv, ControlInv, BracketInv
<1>2. QED  BY <1>1, StepEvents

(* A resumed, idle agent satisfies the invariant.                          *)
LEMMA InitInv == Init => IInv
<1> SUFFICES ASSUME Init PROVE IInv  OBVIOUS
<1> USE DEF Init
<1>1. ControlInv  BY SeedTurnsIsNat DEF ControlInv, Point
<1>2. BracketInv
  BY SeedTurnsIsNat DEF BracketInv, TraceRecord, InTurn, InStep, Log!Fresh
<1>3. BatchInv  BY DEF BatchInv
<1>4. LatchInv  BY DEF LatchInv, LatchAwaitsConvergence
<1>5. CeilingInv  BY DEF CeilingInv, StickyCeiling
<1>6. ActivityInv  BY DEF ActivityInv, DisposedIsQuiescent
<1>7. QED  BY <1>1, <1>2, <1>3, <1>4, <1>5, <1>6 DEF IInv

(* Opening a turn moves the bracket and forgets the previous ending.       *)
LEMMA TurnStartInv == IInv /\ TurnStart => IInv'
<1> SUFFICES ASSUME IInv, TurnStart PROVE IInv'  OBVIOUS
<1> USE DEF IInv, TurnStart, At, Resumed, inboxVars, turnVars, waitVars,
      fateVars
<1>1. ControlInv'  BY DEF ControlInv, Point, Synchronous, Publishing, Awaiting
<1>2. BracketInv'
  BY TurnOpens DEF BracketInv, ControlInv, TraceRecord, InTurn, InStep
<1>3. BatchInv'  BY DEF BatchInv, ControlInv
<1>4. LatchInv'  BY DEF LatchInv, LatchAwaitsConvergence, ControlInv, Aborted
<1>5. CeilingInv'  BY DEF CeilingInv, StickyCeiling, ControlInv, InTurn
<1>6. ActivityInv'  BY DEF ActivityInv, DisposedIsQuiescent, ControlInv
<1>7. QED  BY <1>1, <1>2, <1>3, <1>4, <1>5, <1>6

(* Claiming a batch is the only way to come to hold one.                   *)
LEMMA ClaimInv == IInv /\ Claim => IInv'
<1> SUFFICES ASSUME IInv, Claim PROVE IInv'  OBVIOUS
<1> USE DEF IInv, Claim, At, inboxVars, turnVars, waitVars, fateVars
<1>1. ControlInv'  BY DEF ControlInv, Point, Synchronous, Publishing, Awaiting
<1>2. BracketInv'  BY DEF BracketInv, ControlInv, InTurn, InStep
<1>3. BatchInv'  BY DEF BatchInv, ControlInv
<1>4. LatchInv'  BY DEF LatchInv, LatchAwaitsConvergence, ControlInv, Aborted
<1>5. CeilingInv'  BY DEF CeilingInv, StickyCeiling, ControlInv, InTurn
<1>6. ActivityInv'  BY DEF ActivityInv, DisposedIsQuiescent, ControlInv
<1>7. QED  BY <1>1, <1>2, <1>3, <1>4, <1>5, <1>6

(* A listener that leaves a message out changes the batch alone.           *)
LEMMA DropClaimedInv == IInv /\ DropClaimed => IInv'
<1> SUFFICES ASSUME IInv, DropClaimed PROVE IInv'  OBVIOUS
<1> USE DEF IInv, DropClaimed, At, Resumed, inboxVars, turnVars, waitVars, fateVars
<1>1. ControlInv'  BY DEF ControlInv
<1>2. BracketInv'  BY DEF BracketInv
<1>3. BatchInv'  BY DEF BatchInv
<1>4. LatchInv'  BY DEF LatchInv, LatchAwaitsConvergence, Aborted
<1>5. CeilingInv'  BY DEF CeilingInv, StickyCeiling
<1>6. ActivityInv'  BY DEF ActivityInv, DisposedIsQuiescent
<1>7. QED  BY <1>1, <1>2, <1>3, <1>4, <1>5, <1>6

(* A pre-step decision keeps a batch only if the step will enter.          *)
LEMMA DecideInv == ASSUME NEW verdict PROVE IInv /\ Decide(verdict) => IInv'
<1> SUFFICES ASSUME IInv, Decide(verdict) PROVE IInv'  OBVIOUS
<1> USE DEF IInv, Decide, At, Resumed, inboxVars, turnVars, waitVars, fateVars
<1>1. ControlInv'  BY DEF ControlInv, Point, Synchronous, Publishing, Awaiting
<1>2. BracketInv'  BY DEF BracketInv, ControlInv, InTurn, InStep
<1>3. BatchInv'  BY DEF BatchInv, ControlInv
<1>4. LatchInv'  BY DEF LatchInv, LatchAwaitsConvergence, ControlInv, Aborted
<1>5. CeilingInv'  BY DEF CeilingInv, StickyCeiling, ControlInv, InTurn
<1>6. ActivityInv'  BY DEF ActivityInv, DisposedIsQuiescent, ControlInv
<1>7. QED  BY <1>1, <1>2, <1>3, <1>4, <1>5, <1>6

(* A turn that ends at pre-step closes with no step open.                  *)
LEMMA EndWithoutStepInv == IInv /\ EndWithoutStep => IInv'
<1> SUFFICES ASSUME IInv, EndWithoutStep PROVE IInv'  OBVIOUS
<1> USE DEF IInv, EndWithoutStep, CloseTurn, At, Resumed, inboxVars, turnVars,
      waitVars, fateVars
<1>1. ControlInv'  BY DEF ControlInv, Point, Synchronous, Publishing, Awaiting
<1>2. BracketInv'
  BY TurnCloses DEF BracketInv, ControlInv, TraceRecord, InTurn, InStep
<1>3. BatchInv'  BY DEF BatchInv, ControlInv
<1>4. LatchInv'  BY DEF LatchInv, LatchAwaitsConvergence, ControlInv, Aborted
<1>5. CeilingInv'  BY DEF CeilingInv, StickyCeiling, ControlInv, InTurn
<1>6. ActivityInv'  BY DEF ActivityInv, DisposedIsQuiescent, ControlInv
<1>7. QED  BY <1>1, <1>2, <1>3, <1>4, <1>5, <1>6

(* step/start opens the next step of the open turn.                        *)
LEMMA StepStartInv == IInv /\ StepStart => IInv'
<1> SUFFICES ASSUME IInv, StepStart PROVE IInv'  OBVIOUS
<1> USE DEF IInv, StepStart, Enters, At, Resumed, inboxVars, turnVars,
      waitVars, fateVars
<1>1. ControlInv'  BY DEF ControlInv, Point, Synchronous, Publishing, Awaiting
<1>2. BracketInv'
  <2>1. /\ trace' \in TraceRecord
        /\ trace'.openTurn = trace.openTurn
        /\ trace'.openStep = step'
        /\ trace'.nextTurn = trace.nextTurn
        /\ trace'.nextStep = trace.nextStep
    BY StepOpens
  <2>2. QED  BY <2>1 DEF BracketInv, ControlInv, InTurn, InStep
<1>3. BatchInv'  BY DEF BatchInv, ControlInv
<1>4. LatchInv'  BY DEF LatchInv, LatchAwaitsConvergence, ControlInv, Aborted
<1>5. CeilingInv'  BY DEF CeilingInv, StickyCeiling, ControlInv, InTurn
<1>6. ActivityInv'  BY DEF ActivityInv, DisposedIsQuiescent, ControlInv
<1>7. QED  BY <1>1, <1>2, <1>3, <1>4, <1>5, <1>6

(* Asking the model changes the position only.                             *)
LEMMA RequestModelInv == IInv /\ RequestModel => IInv'
<1> SUFFICES ASSUME IInv, RequestModel PROVE IInv'  OBVIOUS
<1> USE DEF IInv, RequestModel, At, inboxVars, turnVars, waitVars, fateVars
<1>1. ControlInv'  BY DEF ControlInv, Point, Synchronous, Publishing, Awaiting
<1>2. BracketInv'  BY DEF BracketInv, ControlInv, InTurn, InStep
<1>3. BatchInv'  BY DEF BatchInv, ControlInv
<1>4. LatchInv'  BY DEF LatchInv, LatchAwaitsConvergence, ControlInv, Aborted
<1>5. CeilingInv'  BY DEF CeilingInv, StickyCeiling, ControlInv, InTurn
<1>6. ActivityInv'  BY DEF ActivityInv, DisposedIsQuiescent, ControlInv
<1>7. QED  BY <1>1, <1>2, <1>3, <1>4, <1>5, <1>6

(* Running tools changes the position only.                                *)
LEMMA RunToolsInv == IInv /\ RunTools => IInv'
<1> SUFFICES ASSUME IInv, RunTools PROVE IInv'  OBVIOUS
<1> USE DEF IInv, RunTools, At, Resumed, inboxVars, turnVars, waitVars,
      fateVars
<1>1. ControlInv'  BY DEF ControlInv, Point, Synchronous, Publishing, Awaiting
<1>2. BracketInv'  BY DEF BracketInv, ControlInv, InTurn, InStep
<1>3. BatchInv'  BY DEF BatchInv, ControlInv
<1>4. LatchInv'  BY DEF LatchInv, LatchAwaitsConvergence, ControlInv, Aborted
<1>5. CeilingInv'  BY DEF CeilingInv, StickyCeiling, ControlInv, InTurn
<1>6. ActivityInv'  BY DEF ActivityInv, DisposedIsQuiescent, ControlInv
<1>7. QED  BY <1>1, <1>2, <1>3, <1>4, <1>5, <1>6

(* Context contributed by a tool changes the inbox only.                   *)
LEMMA AcceptContextInv == IInv /\ AcceptContext => IInv'
<1> SUFFICES ASSUME IInv, AcceptContext PROVE IInv'  OBVIOUS
<1> USE DEF IInv, AcceptContext, At, Resumed, inboxVars, turnVars, waitVars,
      fateVars
<1>1. ControlInv'  BY DEF ControlInv, Point, Synchronous, Publishing, Awaiting
<1>2. BracketInv'  BY DEF BracketInv, ControlInv, InTurn, InStep
<1>3. BatchInv'  BY DEF BatchInv, ControlInv
<1>4. LatchInv'  BY DEF LatchInv, LatchAwaitsConvergence, ControlInv, Aborted
<1>5. CeilingInv'  BY DEF CeilingInv, StickyCeiling, ControlInv, InTurn
<1>6. ActivityInv'  BY DEF ActivityInv, DisposedIsQuiescent, ControlInv
<1>7. QED  BY <1>1, <1>2, <1>3, <1>4, <1>5, <1>6

(* A returning step closes its bracket and keeps a reached ceiling.        *)
LEMMA StepReturnsInv == ASSUME NEW stepEnd PROVE IInv /\ StepReturns(stepEnd) => IInv'
<1> SUFFICES ASSUME IInv, StepReturns(stepEnd) PROVE IInv'  OBVIOUS
<1> USE DEF IInv, StepReturns, StickyEnding, At, Resumed, inboxVars, turnVars,
      waitVars, fateVars
<1>1. ControlInv'  BY DEF ControlInv, Point, Synchronous, Publishing, Awaiting
<1>2. BracketInv'
  BY StepCloses DEF BracketInv, ControlInv, TraceRecord, InTurn, InStep
<1>3. BatchInv'  BY DEF BatchInv, ControlInv
<1>4. LatchInv'  BY DEF LatchInv, LatchAwaitsConvergence, ControlInv, Aborted
<1>5. CeilingInv'  BY DEF CeilingInv, StickyCeiling, ControlInv, InTurn
<1>6. ActivityInv'  BY DEF ActivityInv, DisposedIsQuiescent, ControlInv
<1>7. QED  BY <1>1, <1>2, <1>3, <1>4, <1>5, <1>6

(* The boundary after a step changes the position only.                    *)
LEMMA AfterStepInv == IInv /\ AfterStep => IInv'
<1> SUFFICES ASSUME IInv, AfterStep PROVE IInv'  OBVIOUS
<1> USE DEF IInv, AfterStep, At, inboxVars, turnVars, waitVars, fateVars
<1>1. ControlInv'  BY DEF ControlInv, Point, Synchronous, Publishing, Awaiting
<1>2. BracketInv'  BY DEF BracketInv, ControlInv, InTurn, InStep
<1>3. BatchInv'  BY DEF BatchInv, ControlInv
<1>4. LatchInv'  BY DEF LatchInv, LatchAwaitsConvergence, ControlInv, Aborted
<1>5. CeilingInv'  BY DEF CeilingInv, StickyCeiling, ControlInv, InTurn
<1>6. ActivityInv'  BY DEF ActivityInv, DisposedIsQuiescent, ControlInv
<1>7. QED  BY <1>1, <1>2, <1>3, <1>4, <1>5, <1>6

(* turn-stopping either reopens the turn or closes it as it ended.         *)
LEMMA TurnStoppedInv == IInv /\ TurnStopped => IInv'
<1> SUFFICES ASSUME IInv, TurnStopped PROVE IInv'  OBVIOUS
<1> USE DEF IInv, TurnStopped, CloseTurn, At, Resumed, inboxVars, turnVars,
      waitVars, fateVars
<1>1. ControlInv'  BY DEF ControlInv, Point, Synchronous, Publishing, Awaiting
<1>2. BracketInv'
  BY TurnCloses DEF BracketInv, ControlInv, TraceRecord, InTurn, InStep
<1>3. BatchInv'  BY DEF BatchInv, ControlInv
<1>4. LatchInv'  BY DEF LatchInv, LatchAwaitsConvergence, ControlInv, Aborted
<1>5. CeilingInv'  BY DEF CeilingInv, StickyCeiling, ControlInv, InTurn
<1>6. ActivityInv'  BY DEF ActivityInv, DisposedIsQuiescent, ControlInv
<1>7. QED  BY <1>1, <1>2, <1>3, <1>4, <1>5, <1>6

(* A throw closes the open step, if any, and drops the batch.              *)
LEMMA ThrowInv == IInv /\ Throw => IInv'
<1> SUFFICES ASSUME IInv, Throw PROVE IInv'  OBVIOUS
<1> USE DEF IInv, Throw, ThrowTrace, At, Resumed, inboxVars, turnVars,
      waitVars, fateVars
<1>1. ControlInv'  BY DEF ControlInv, Point, Synchronous, Publishing, Awaiting
<1>2. BracketInv'
  BY StepCloses DEF BracketInv, ControlInv, TraceRecord, InTurn, InStep
<1>3. BatchInv'  BY DEF BatchInv, ControlInv
<1>4. LatchInv'  BY DEF LatchInv, LatchAwaitsConvergence, ControlInv, Aborted
<1>5. CeilingInv'  BY DEF CeilingInv, StickyCeiling, ControlInv, InTurn
<1>6. ActivityInv'  BY DEF ActivityInv, DisposedIsQuiescent, ControlInv
<1>7. QED  BY <1>1, <1>2, <1>3, <1>4, <1>5, <1>6

(* The catch closes an aborted turn and only reports any other failure.    *)
LEMMA UnwindInv == IInv /\ Unwind => IInv'
<1> SUFFICES ASSUME IInv, Unwind PROVE IInv'  OBVIOUS
<1> USE DEF IInv, Unwind, CloseTurn, At, inboxVars, turnVars, waitVars,
      fateVars
<1>1. ControlInv'  BY DEF ControlInv, Point, Synchronous, Publishing, Awaiting
<1>2. BracketInv'
  BY TurnCloses DEF BracketInv, ControlInv, TraceRecord, InTurn, InStep
<1>3. BatchInv'  BY DEF BatchInv, ControlInv
<1>4. LatchInv'  BY DEF LatchInv, LatchAwaitsConvergence, ControlInv, Aborted
<1>5. CeilingInv'  BY DEF CeilingInv, StickyCeiling, ControlInv, InTurn
<1>6. ActivityInv'  BY DEF ActivityInv, DisposedIsQuiescent, ControlInv
<1>7. QED  BY <1>1, <1>2, <1>3, <1>4, <1>5, <1>6

(* A reported failure closes the turn.                                     *)
LEMMA EndErredInv == IInv /\ EndErred => IInv'
<1> SUFFICES ASSUME IInv, EndErred PROVE IInv'  OBVIOUS
<1> USE DEF IInv, EndErred, CloseTurn, At, inboxVars, turnVars, waitVars,
      fateVars
<1>1. ControlInv'  BY DEF ControlInv, Point, Synchronous, Publishing, Awaiting
<1>2. BracketInv'
  BY TurnCloses DEF BracketInv, ControlInv, TraceRecord, InTurn, InStep
<1>3. BatchInv'  BY DEF BatchInv, ControlInv
<1>4. LatchInv'  BY DEF LatchInv, LatchAwaitsConvergence, ControlInv, Aborted
<1>5. CeilingInv'  BY DEF CeilingInv, StickyCeiling, ControlInv, InTurn
<1>6. ActivityInv'  BY DEF ActivityInv, DisposedIsQuiescent, ControlInv
<1>7. QED  BY <1>1, <1>2, <1>3, <1>4, <1>5, <1>6

(* Between turns the controller and the latch start afresh.                *)
LEMMA TurnReturnsInv == IInv /\ TurnReturns => IInv'
<1> SUFFICES ASSUME IInv, TurnReturns PROVE IInv'  OBVIOUS
<1> USE DEF IInv, TurnReturns, At, inboxVars, turnVars, waitVars, fateVars
<1>1. ControlInv'  BY DEF ControlInv, Point, Synchronous, Publishing, Awaiting
<1>2. BracketInv'  BY DEF BracketInv, ControlInv, InTurn, InStep
<1>3. BatchInv'  BY DEF BatchInv, ControlInv
<1>4. LatchInv'  BY DEF LatchInv, LatchAwaitsConvergence, ControlInv, Aborted
<1>5. CeilingInv'  BY DEF CeilingInv, StickyCeiling, ControlInv, InTurn
<1>6. ActivityInv'  BY DEF ActivityInv, DisposedIsQuiescent, ControlInv
<1>7. QED  BY <1>1, <1>2, <1>3, <1>4, <1>5, <1>6

(* Publishing idle settles the activity and hands the latch to the replay. *)
LEMMA GoIdleInv == IInv /\ GoIdle => IInv'
<1> SUFFICES ASSUME IInv, GoIdle PROVE IInv'  OBVIOUS
<1> USE DEF IInv, GoIdle, At, Resumed, Settle, inboxVars, turnVars, waitVars,
      fateVars
<1>1. ControlInv'  BY DEF ControlInv, Point, Synchronous, Publishing, Awaiting
<1>2. BracketInv'  BY DEF BracketInv, ControlInv, InTurn, InStep
<1>3. BatchInv'  BY DEF BatchInv, ControlInv
<1>4. LatchInv'  BY DEF LatchInv, LatchAwaitsConvergence, ControlInv, Aborted
<1>5. CeilingInv'  BY DEF CeilingInv, StickyCeiling, ControlInv, InTurn
<1>6. ActivityInv'  BY DEF ActivityInv, DisposedIsQuiescent, ControlInv
<1>7. QED  BY <1>1, <1>2, <1>3, <1>4, <1>5, <1>6

(* The replay starts a driver on an idle agent or joins a live one.        *)
LEMMA ReplayInv == IInv /\ Replay => IInv'
<1> SUFFICES ASSUME IInv, Replay PROVE IInv'  OBVIOUS
<1> USE DEF IInv, Replay, WakeDriver, StartDriver, Latches, inboxVars,
      turnVars, waitVars, fateVars
<1>1. ControlInv'  BY DEF ControlInv, Point, Synchronous, Publishing, Awaiting
<1>2. BracketInv'  BY DEF BracketInv, ControlInv, InTurn, InStep
<1>3. BatchInv'  BY DEF BatchInv, ControlInv
<1>4. LatchInv'  BY DEF LatchInv, LatchAwaitsConvergence, ControlInv, Aborted
<1>5. CeilingInv'  BY DEF CeilingInv, StickyCeiling, ControlInv, InTurn
<1>6. ActivityInv'  BY DEF ActivityInv, DisposedIsQuiescent, ControlInv
<1>7. QED  BY <1>1, <1>2, <1>3, <1>4, <1>5, <1>6

(* A send suspends its wake, and remembers an abort it has seen.           *)
LEMMA SendInv == ASSUME NEW target, NEW wakeup \in BOOLEAN PROVE IInv /\ Send(target, wakeup) => IInv'
<1> SUFFICES ASSUME IInv, Send(target, wakeup) PROVE IInv'  OBVIOUS
<1> USE DEF IInv, Send, Callable, inboxVars, turnVars, waitVars, fateVars
<1>1. ControlInv'  BY DEF ControlInv, Point, Synchronous, Publishing, Awaiting
<1>2. BracketInv'  BY DEF BracketInv, ControlInv, InTurn, InStep
<1>3. BatchInv'  BY DEF BatchInv, ControlInv
<1>4. LatchInv'  BY DEF LatchInv, LatchAwaitsConvergence, ControlInv, Aborted
<1>5. CeilingInv'  BY DEF CeilingInv, StickyCeiling, ControlInv, InTurn
<1>6. ActivityInv'  BY DEF ActivityInv, DisposedIsQuiescent, ControlInv
<1>7. QED  BY <1>1, <1>2, <1>3, <1>4, <1>5, <1>6

(* A wake starts a driver or latches over an aborted activity.             *)
LEMMA WakeInv == IInv /\ Wake => IInv'
<1> SUFFICES ASSUME IInv, Wake PROVE IInv'  OBVIOUS
<1> USE DEF IInv, Wake, WakeDriver, StartDriver, Latches, inboxVars, turnVars,
      waitVars, fateVars
<1>1. ControlInv'  BY DEF ControlInv, Point, Synchronous, Publishing, Awaiting
<1>2. BracketInv'  BY DEF BracketInv, ControlInv, InTurn, InStep
<1>3. BatchInv'  BY DEF BatchInv, ControlInv
<1>4. LatchInv'  BY DEF LatchInv, LatchAwaitsConvergence, ControlInv, Aborted
<1>5. CeilingInv'  BY DEF CeilingInv, StickyCeiling, ControlInv, InTurn
<1>6. ActivityInv'  BY DEF ActivityInv, DisposedIsQuiescent, ControlInv
<1>7. QED  BY <1>1, <1>2, <1>3, <1>4, <1>5, <1>6

(* Removing a pending message leaves the control alone.                    *)
LEMMA RemoveInv == IInv /\ Remove => IInv'
<1> SUFFICES ASSUME IInv, Remove PROVE IInv'  OBVIOUS
<1> USE DEF IInv, Remove, inboxVars, turnVars, waitVars, fateVars
<1>1. ControlInv'  BY DEF ControlInv, Point, Synchronous, Publishing, Awaiting
<1>2. BracketInv'  BY DEF BracketInv, ControlInv, InTurn, InStep
<1>3. BatchInv'  BY DEF BatchInv, ControlInv
<1>4. LatchInv'  BY DEF LatchInv, LatchAwaitsConvergence, ControlInv, Aborted
<1>5. CeilingInv'  BY DEF CeilingInv, StickyCeiling, ControlInv, InTurn
<1>6. ActivityInv'  BY DEF ActivityInv, DisposedIsQuiescent, ControlInv
<1>7. QED  BY <1>1, <1>2, <1>3, <1>4, <1>5, <1>6

(* A cancel aborts an activity and withdraws the latch with the inbox.     *)
LEMMA CancelInv == ASSUME NEW keepInbox \in BOOLEAN PROVE IInv /\ Cancel(keepInbox) => IInv'
<1> SUFFICES ASSUME IInv, Cancel(keepInbox) PROVE IInv'  OBVIOUS
<1> USE DEF IInv, Cancel, CancelWith, inboxVars, turnVars, waitVars, fateVars
<1>1. ControlInv'  BY DEF ControlInv, Point, Synchronous, Publishing, Awaiting
<1>2. BracketInv'  BY DEF BracketInv, ControlInv, InTurn, InStep
<1>3. BatchInv'  BY DEF BatchInv, ControlInv
<1>4. LatchInv'  BY DEF LatchInv, LatchAwaitsConvergence, ControlInv, Aborted
<1>5. CeilingInv'  BY DEF CeilingInv, StickyCeiling, ControlInv, InTurn
<1>6. ActivityInv'  BY DEF ActivityInv, DisposedIsQuiescent, ControlInv
<1>7. QED  BY <1>1, <1>2, <1>3, <1>4, <1>5, <1>6

(* Disposal is such a cancel, and starts waiting.                          *)
LEMMA DisposeInv == IInv /\ Dispose => IInv'
<1> SUFFICES ASSUME IInv, Dispose PROVE IInv'  OBVIOUS
<1> USE DEF IInv, Dispose, CancelWith, inboxVars, turnVars, waitVars, fateVars
<1>1. ControlInv'  BY DEF ControlInv, Point, Synchronous, Publishing, Awaiting
<1>2. BracketInv'  BY DEF BracketInv, ControlInv, InTurn, InStep
<1>3. BatchInv'  BY DEF BatchInv, ControlInv
<1>4. LatchInv'  BY DEF LatchInv, LatchAwaitsConvergence, ControlInv, Aborted
<1>5. CeilingInv'  BY DEF CeilingInv, StickyCeiling, ControlInv, InTurn
<1>6. ActivityInv'  BY DEF ActivityInv, DisposedIsQuiescent, ControlInv
<1>7. QED  BY <1>1, <1>2, <1>3, <1>4, <1>5, <1>6

(* whenIdle returns only when the activity it awaited is current and settled. *)
LEMMA WhenIdleInv == IInv /\ WhenIdle => IInv'
<1> SUFFICES ASSUME IInv, WhenIdle PROVE IInv'  OBVIOUS
<1> USE DEF IInv, WhenIdle, StillCurrent, inboxVars, turnVars, waitVars,
      fateVars
<1>1. ControlInv'  BY DEF ControlInv, Point, Synchronous, Publishing, Awaiting
<1>2. BracketInv'  BY DEF BracketInv, ControlInv, InTurn, InStep
<1>3. BatchInv'  BY DEF BatchInv, ControlInv
<1>4. LatchInv'  BY DEF LatchInv, LatchAwaitsConvergence, ControlInv, Aborted
<1>5. CeilingInv'  BY DEF CeilingInv, StickyCeiling, ControlInv, InTurn
<1>6. ActivityInv'  BY DEF ActivityInv, DisposedIsQuiescent, ControlInv
<1>7. QED  BY <1>1, <1>2, <1>3, <1>4, <1>5, <1>6

(* Maintenance is an activity of an idle agent.                            *)
LEMMA RunMaintenanceInv == IInv /\ RunMaintenance => IInv'
<1> SUFFICES ASSUME IInv, RunMaintenance PROVE IInv'  OBVIOUS
<1> USE DEF IInv, RunMaintenance, Callable, inboxVars, turnVars, waitVars,
      fateVars
<1>1. ControlInv'  BY DEF ControlInv, Point, Synchronous, Publishing, Awaiting
<1>2. BracketInv'  BY DEF BracketInv, ControlInv, InTurn, InStep
<1>3. BatchInv'  BY DEF BatchInv, ControlInv
<1>4. LatchInv'  BY DEF LatchInv, LatchAwaitsConvergence, ControlInv, Aborted
<1>5. CeilingInv'  BY DEF CeilingInv, StickyCeiling, ControlInv, InTurn
<1>6. ActivityInv'  BY DEF ActivityInv, DisposedIsQuiescent, ControlInv
<1>7. QED  BY <1>1, <1>2, <1>3, <1>4, <1>5, <1>6

(* A settled task becomes idle or hands its latch to a driver.             *)
LEMMA MaintenanceSettlesInv == IInv /\ MaintenanceSettles => IInv'
<1> SUFFICES ASSUME IInv, MaintenanceSettles PROVE IInv'  OBVIOUS
<1> USE DEF IInv, MaintenanceSettles, StartDriver, Settle, inboxVars,
      turnVars, waitVars, fateVars
<1>1. ControlInv'  BY DEF ControlInv, Point, Synchronous, Publishing, Awaiting
<1>2. BracketInv'  BY DEF BracketInv, ControlInv, InTurn, InStep
<1>3. BatchInv'  BY DEF BatchInv, ControlInv
<1>4. LatchInv'  BY DEF LatchInv, LatchAwaitsConvergence, ControlInv, Aborted
<1>5. CeilingInv'  BY DEF CeilingInv, StickyCeiling, ControlInv, InTurn
<1>6. ActivityInv'  BY DEF ActivityInv, DisposedIsQuiescent, ControlInv
<1>7. QED  BY <1>1, <1>2, <1>3, <1>4, <1>5, <1>6

(* A step that changes nothing keeps the invariant.                        *)
LEMMA StutterInv == IInv /\ UNCHANGED vars => IInv'
  BY DEF vars, turnVars, waitVars, inboxVars, fateVars, IInv, ControlInv, BracketInv,
     BatchInv, LatchInv, CeilingInv, ActivityInv, LatchAwaitsConvergence,
     StickyCeiling, DisposedIsQuiescent, Aborted

(* Every step of the specification keeps the invariant.                    *)
LEMMA NextInv == IInv /\ [Next]_vars => IInv'
<1> SUFFICES ASSUME IInv, [Next]_vars PROVE IInv'  OBVIOUS
<1>1. CASE Driver
  BY <1>1, TurnStartInv, ClaimInv, DropClaimedInv, DecideInv, EndWithoutStepInv, StepStartInv,
     RequestModelInv, RunToolsInv, StepReturnsInv, AfterStepInv, TurnStoppedInv,
     ThrowInv, UnwindInv, EndErredInv, TurnReturnsInv, GoIdleInv, ReplayInv
     DEF Driver
<1>2. CASE Caller
  BY <1>2, SendInv, RemoveInv, CancelInv, DisposeInv, RunMaintenanceInv DEF Caller
<1>3. CASE Wake  BY <1>3, WakeInv
<1>4. CASE AcceptContext  BY <1>4, AcceptContextInv
<1>5. CASE WhenIdle  BY <1>5, WhenIdleInv
<1>6. CASE MaintenanceSettles  BY <1>6, MaintenanceSettlesInv
<1>7. CASE UNCHANGED vars  BY <1>7, StutterInv
<1>8. QED  BY <1>1, <1>2, <1>3, <1>4, <1>5, <1>6, <1>7 DEF Next

(* The invariant holds of every reachable state.                           *)
THEOREM Invariance == Spec => []IInv
  BY InitInv, NextInv, PTL DEF Spec

-----------------------------------------------------------------------------
(* With no driver, the log is balanced and no claimed message is held.     *)
THEOREM IdleIsClosedAlways == Spec => []IdleIsClosed
<1>1. IInv => IdleIsClosed
  BY DEF IInv, ControlInv, BracketInv, BatchInv, IdleIsClosed, InTurn, InStep
<1>2. QED  BY <1>1, Invariance, PTL

(* The wake latch is held only over maintenance or an aborted driver.      *)
THEOREM LatchAwaitsConvergenceAlways == Spec => []LatchAwaitsConvergence
<1>1. IInv => LatchAwaitsConvergence  BY DEF IInv, LatchInv
<1>2. QED  BY <1>1, Invariance, PTL

(* A turn that hit the output ceiling is never reported completed.         *)
THEOREM StickyCeilingAlways == Spec => []StickyCeiling
<1>1. IInv => StickyCeiling  BY DEF IInv, CeilingInv
<1>2. QED  BY <1>1, Invariance, PTL

(* Disposal's whenIdle returns only over a quiescent agent.                *)
THEOREM DisposedIsQuiescentAlways == Spec => []DisposedIsQuiescent
<1>1. IInv => DisposedIsQuiescent  BY DEF IInv, ActivityInv
<1>2. QED  BY <1>1, Invariance, PTL

-----------------------------------------------------------------------------
(* Every event the driver appends is one the session invariant accepts.    *)

(* The driver opens a turn only when the log has none open.                *)
LEMMA StartsTurn == IInv /\ TurnStart => [Log!Next]_trace
<1> SUFFICES ASSUME IInv, TurnStart PROVE [Log!Next]_trace  OBVIOUS
<1>1. CASE Aborted  BY <1>1 DEF TurnStart
<1>2. CASE ~Aborted
  <2>1. pc \in {"woken", "again"} /\ trace' = Log!TurnStarted(trace, turn + 1)
    BY <1>2 DEF TurnStart, At, Resumed
  <2>2. trace.openTurn = 0 /\ trace.nextTurn = turn + 1
    BY <2>1 DEF IInv, BracketInv, InTurn
  <2>3. QED  BY <2>1, <2>2 DEF Log!Next, Log!Execute, Log!StartTurn
<1>3. QED  BY <1>1, <1>2

(* Closing a turn is the log's turn/end, or changes nothing.               *)
LEMMA EndsTurn ==
  ASSUME NEW reason, IInv, CloseTurn(reason), pc \in InTurn \ InStep
  PROVE  [Log!Next]_trace
<1>1. trace.openTurn # 0 /\ trace.openStep = 0 /\ trace.openTurn = turn
  BY DEF IInv, BracketInv, InTurn, InStep
<1>2. QED  BY <1>1 DEF CloseTurn, Log!Next, Log!Execute, Log!EndTurn

(* The driver opens the step the log expects next.                         *)
LEMMA StartsStep == IInv /\ StepStart => [Log!Next]_trace
<1> SUFFICES ASSUME IInv, StepStart PROVE [Log!Next]_trace  OBVIOUS
<1>1. pc = "decided" /\ trace' = Log!StepStarted(trace, turn, step + 1)
  BY DEF StepStart, At, Resumed
<1>2. /\ trace.openTurn # 0 /\ trace.openTurn = turn
      /\ trace.openStep = 0 /\ trace.nextStep = step + 1
  BY <1>1 DEF IInv, BracketInv, InTurn, InStep
<1>3. QED  BY <1>1, <1>2 DEF Log!Next, Log!Execute, Log!StartStep

(* Closing a step is the log's step/end.                                   *)
LEMMA EndsStep ==
  ASSUME IInv, pc \in InStep, trace' = Log!StepEnded(trace, turn, step)
  PROVE  [Log!Next]_trace
<1>1. /\ trace.openTurn # 0 /\ trace.openTurn = turn
      /\ trace.openStep # 0 /\ trace.openStep = step
  BY DEF IInv, BracketInv, InTurn, InStep
<1>2. QED  BY <1>1 DEF Log!Next, Log!Execute, Log!EndStep

(* Every step of the driver is a step of the log or leaves it alone.       *)
LEMMA DriverTraces == IInv /\ Driver => [Log!Next]_trace
<1> SUFFICES ASSUME IInv, Driver PROVE [Log!Next]_trace  OBVIOUS
<1> USE DEF InTurn, InStep, At, Resumed
<1>1. CASE TurnStart  BY <1>1, StartsTurn
<1>2. CASE StepStart  BY <1>2, StartsStep
<1>3. ASSUME NEW stepEnd, StepReturns(stepEnd) PROVE [Log!Next]_trace
  BY <1>3, EndsStep DEF StepReturns
<1>4. CASE EndWithoutStep  BY <1>4, EndsTurn DEF EndWithoutStep
<1>5. CASE TurnStopped
  BY <1>5, EndsTurn DEF TurnStopped
<1>6. CASE Throw
  <2>1. CASE pc \in InStep  BY <1>6, <2>1, EndsStep DEF Throw, ThrowTrace
  <2>2. CASE pc \notin InStep  BY <1>6, <2>2 DEF Throw, ThrowTrace
  <2>3. QED  BY <2>1, <2>2
<1>7. CASE Unwind  BY <1>7, EndsTurn DEF Unwind
<1>8. CASE EndErred  BY <1>8, EndsTurn DEF EndErred
<1>9. CASE \/ Claim \/ DropClaimed \/ RequestModel \/ RunTools \/ AfterStep \/ TurnReturns
           \/ GoIdle \/ Replay \/ \E verdict : Decide(verdict)
  BY <1>9 DEF Claim, DropClaimed, RequestModel, RunTools, AfterStep, TurnReturns, GoIdle,
     Replay, Decide
<1>10. QED  BY <1>1, <1>2, <1>3, <1>4, <1>5, <1>6, <1>7, <1>8, <1>9 DEF Driver

(* Nobody but the driver appends brackets.                                 *)
LEMMA OthersDoNotTrace ==
  ASSUME \/ Caller \/ Wake \/ AcceptContext \/ WhenIdle \/ MaintenanceSettles
         \/ UNCHANGED vars
  PROVE  UNCHANGED trace
  BY DEF Caller, Send, Remove, Cancel, CancelWith, Dispose, RunMaintenance, Wake,
     AcceptContext, WhenIdle, MaintenanceSettles, vars

(* The driver implements the session invariant: no append is vetoed.       *)
THEOREM DriverImplementsSessionTrace == Spec => ImplementsSessionTrace
<1>1. Init => Log!Init  BY DEF Init, Log!Init
<1>2. IInv /\ [Next]_vars => [Log!Next]_trace
  BY DriverTraces, OthersDoNotTrace DEF Next
<1>3. QED  BY <1>1, <1>2, Invariance, PTL DEF Spec, ImplementsSessionTrace, Log!Spec

-----------------------------------------------------------------------------
(* Under an abort the driver reaches a point inside a turn, inside a step  *)
(* or at the model only from another such point.                           *)
LEMMA AbortedMoves ==
  ASSUME IInv, [Next]_vars, Aborted
  PROVE  /\ pc' \in InTurn => pc \in InTurn
         /\ pc' \in InStep => pc \in InStep
         /\ pc' = "model" => pc = "model"
<1> USE DEF InTurn, InStep, At, Resumed
<1>1. CASE TurnStart \/ Claim \/ DropClaimed \/ StepStart \/ RequestModel \/ AfterStep \/ TurnStopped
  BY <1>1 DEF TurnStart, Claim, DropClaimed, StepStart, RequestModel, AfterStep, TurnStopped
<1>2. ASSUME NEW verdict, Decide(verdict) PROVE FALSE  BY <1>2 DEF Decide
<1>3. CASE EndWithoutStep \/ RunTools  BY <1>3 DEF EndWithoutStep, RunTools, CloseTurn
<1>4. ASSUME NEW stepEnd, StepReturns(stepEnd) PROVE pc \in InStep /\ pc' = "stepEnded"
  BY <1>4 DEF StepReturns
<1>5. CASE Throw
  BY <1>5 DEF Throw
<1>6. CASE Unwind \/ EndErred \/ TurnReturns \/ GoIdle
  BY <1>6 DEF Unwind, EndErred, TurnReturns, GoIdle, CloseTurn
<1>7. CASE Replay \/ Wake \/ MaintenanceSettles
  BY <1>7 DEF Replay, Wake, MaintenanceSettles, WakeDriver, StartDriver
<1>8. CASE Caller
  BY <1>8 DEF Caller, Send, Remove, Cancel, CancelWith, Dispose, RunMaintenance
<1>9. CASE AcceptContext \/ WhenIdle \/ UNCHANGED vars
  BY <1>9 DEF AcceptContext, WhenIdle, vars
<1>10. QED
  BY <1>1, <1>2, <1>3, <1>4, <1>5, <1>6, <1>7, <1>8, <1>9 DEF Next, Driver

(* An aborted activity opens no turn and no step and asks the model        *)
(* nothing.                                                                *)
THEOREM AbortSpendsNothingAlways == Spec => AbortSpendsNothing
<1> DEFINE Spends == Aborted => /\ trace'.openTurn # 0 => trace.openTurn # 0
                                /\ trace'.openStep # 0 => trace.openStep # 0
                                /\ pc' = "model" => pc = "model"
<1>1. IInv /\ IInv' /\ [Next]_vars => [Spends]_vars
  <2> SUFFICES ASSUME IInv, IInv', [Next]_vars, Aborted PROVE Spends  OBVIOUS
  <2>1. /\ pc' \in InTurn => pc \in InTurn
        /\ pc' \in InStep => pc \in InStep
        /\ pc' = "model" => pc = "model"
    BY AbortedMoves
  <2>2. trace'.openTurn # 0 => pc' \in InTurn  BY DEF IInv, BracketInv
  <2>3. trace'.openStep # 0 => pc' \in InStep  BY DEF IInv, BracketInv
  <2>4. pc \in InTurn => trace.openTurn # 0  BY DEF IInv, BracketInv
  <2>5. pc \in InStep => trace.openStep # 0  BY DEF IInv, BracketInv
  <2>6. QED  BY <2>1, <2>2, <2>3, <2>4, <2>5
<1>2. QED  BY <1>1, Invariance, PTL DEF Spec, AbortSpendsNothing
=============================================================================

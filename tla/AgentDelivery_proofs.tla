------------------------- MODULE AgentDelivery_proofs -------------------------
(***************************************************************************)
(* What AgentLoop does with its messages, for every value of its bounds:   *)
(* no send, claim, cancel, removal, refusal or failure loses or duplicates *)
(* one, none overtakes another of its list, and a queued prompt opens a    *)
(* turn of its own.                                                        *)
(*                                                                         *)
(* The invariant (Fated) says where each message is, as a function from    *)
(* the messages sent to six places, so that a step is proved by naming the *)
(* set of messages it moves and the place it moves them to.                *)
(***************************************************************************)
EXTENDS AgentLoop_proofs, FiniteSetTheorems, SequenceTheorems

(* A list whose messages are in the order they were sent.                  *)
Increasing(s) == \A i, j \in DOMAIN s : i < j => s[i] < s[j]

(* Items of a claimed batch and of the transcript.                         *)
Claimed   == [message : Message, origin : {"next-turn", "next-step"}]
Delivered == [message : Message, turn : Nat, step : Nat, origin : {"next-turn", "next-step"}]

(* The messages of a sequence of items.                                    *)
Messages(s) == {s[i].message : i \in DOMAIN s}

-----------------------------------------------------------------------------
(* Messages are numbers.                                                   *)
LEMMA MessageIsNat == \A s \in Seq(Message) : \A i \in DOMAIN s : s[i] \in Nat /\ s[i] \in Message
  BY BoundsAssumption DEF Message

(* What a sequence holds at an index.                                      *)
LEMMA InSequence ==
  ASSUME NEW S, NEW s \in Seq(S), NEW i \in DOMAIN s
  PROVE  s[i] \in S
  OBVIOUS

(* A message at the end.                                                   *)
LEMMA AppendFacts ==
  ASSUME NEW s \in Seq(Message), NEW m \in Message
  PROVE  /\ Append(s, m) \in Seq(Message)
         /\ Elems(Append(s, m)) = Elems(s) \cup {m}
         /\ Increasing(s) /\ (\A i \in DOMAIN s : s[i] < m) => Increasing(Append(s, m))
<1> DEFINE t == Append(s, m)
<1>1. /\ t \in Seq(Message) /\ Len(t) = Len(s) + 1 /\ Len(s) \in Nat
      /\ DOMAIN s = 1 .. Len(s) /\ DOMAIN t = 1 .. Len(s) + 1
      /\ \A i \in 1 .. Len(s) : t[i] = s[i]
      /\ t[Len(s) + 1] = m
  OBVIOUS
<1> HIDE DEF t
<1>2. Elems(t) = Elems(s) \cup {m}
  BY <1>1 DEF Elems
<1>3. ASSUME Increasing(s), \A i \in DOMAIN s : s[i] < m PROVE Increasing(t)
  BY <1>1, <1>3 DEF Increasing
<1> QED
  BY <1>1, <1>2, <1>3 DEF t

(* An item taken out of a sequence.                                        *)
LEMMA WithoutItem ==
  ASSUME NEW S, NEW s \in Seq(S), NEW i \in DOMAIN s
  PROVE  /\ Without(s, i) \in Seq(S) /\ Len(Without(s, i)) = Len(s) - 1
         /\ DOMAIN Without(s, i) = 1 .. Len(s) - 1
         /\ \A k \in 1 .. Len(s) - 1 :
              Without(s, i)[k] = IF k < i THEN s[k] ELSE s[k + 1]
<1> DEFINE t == Without(s, i)
           n == Len(s)
           a == SubSeq(s, 1, i - 1)
           b == SubSeq(s, i + 1, n)
<1>1. n \in Nat /\ DOMAIN s = 1 .. n /\ i \in 1 .. n
  OBVIOUS
<1>2. a \in Seq(S) /\ Len(a) = i - 1 /\ \A k \in 1 .. i - 1 : a[k] = s[k]
  BY <1>1
<1>3. b \in Seq(S) /\ Len(b) = n - i /\ \A k \in 1 .. n - i : b[k] = s[i + k]
  BY <1>1
<1>4. t = a \o b  BY DEF Without
<1> HIDE DEF a, b, t
<1>5. /\ t \in Seq(S) /\ Len(t) = Len(a) + Len(b)
      /\ \A k \in 1 .. Len(a) + Len(b) :
           t[k] = IF k <= Len(a) THEN a[k] ELSE b[k - Len(a)]
  BY <1>2, <1>3, <1>4, ConcatProperties
<1>6. Len(t) = n - 1 /\ DOMAIN t = 1 .. n - 1
  BY <1>1, <1>2, <1>3, <1>5
<1>7. ASSUME NEW k \in 1 .. n - 1 PROVE t[k] = IF k < i THEN s[k] ELSE s[k + 1]
  <2>1. CASE k < i
    <3>1. k \in 1 .. i - 1  BY <1>1, <2>1
    <3>2. t[k] = a[k]  BY <1>1, <1>2, <1>3, <1>5, <3>1
    <3> QED  BY <1>2, <2>1, <3>1, <3>2
  <2>2. CASE ~(k < i)
    <3>1. k - (i - 1) \in 1 .. n - i /\ i + (k - (i - 1)) = k + 1  BY <1>1, <2>2
    <3>2. t[k] = b[k - (i - 1)]  BY <1>1, <1>2, <1>3, <1>5, <2>2
    <3> QED  BY <1>3, <2>2, <3>1, <3>2
  <2> QED  BY <2>1, <2>2
<1> QED  BY <1>5, <1>6, <1>7 DEF t

(* A message taken out of a list in order.                                 *)
LEMMA WithoutFacts ==
  ASSUME NEW s \in Seq(Message), NEW i \in DOMAIN s, Increasing(s)
  PROVE  /\ Without(s, i) \in Seq(Message)
         /\ Elems(Without(s, i)) = Elems(s) \ {s[i]}
         /\ Increasing(Without(s, i))
<1> DEFINE t == Without(s, i)
           n == Len(s)
<1>1. n \in Nat /\ DOMAIN s = 1 .. n /\ i \in 1 .. n
  OBVIOUS
<1>2. /\ t \in Seq(Message) /\ Len(t) = n - 1
      /\ \A k \in 1 .. n - 1 : t[k] = IF k < i THEN s[k] ELSE s[k + 1]
  BY WithoutItem
<1>3. DOMAIN t = 1 .. n - 1
  BY WithoutItem
<1> HIDE DEF t
<1>4. Elems(t) \subseteq Elems(s) \ {s[i]}
  <2> SUFFICES ASSUME NEW k \in 1 .. n - 1 PROVE t[k] \in Elems(s) /\ t[k] # s[i]
    BY <1>3 DEF Elems
  <2>1. CASE k < i
    <3>1. t[k] = s[k] /\ k \in DOMAIN s  BY <1>1, <1>2, <2>1
    <3>2. s[k] < s[i]  BY <3>1, <2>1 DEF Increasing
    <3>3. s[k] \in Nat /\ s[i] \in Nat  BY <1>1, MessageIsNat, <3>1
    <3> QED  BY <3>1, <3>2, <3>3 DEF Elems
  <2>2. CASE ~(k < i)
    <3>1. t[k] = s[k + 1] /\ k + 1 \in DOMAIN s /\ i < k + 1  BY <1>1, <1>2, <2>2
    <3>2. s[i] < s[k + 1]  BY <3>1 DEF Increasing
    <3>3. s[k + 1] \in Nat /\ s[i] \in Nat  BY <1>1, MessageIsNat, <3>1
    <3> QED  BY <3>1, <3>2, <3>3 DEF Elems
  <2> QED  BY <2>1, <2>2
<1>5. Elems(s) \ {s[i]} \subseteq Elems(t)
  <2> SUFFICES ASSUME NEW k \in 1 .. n, s[k] # s[i] PROVE s[k] \in Elems(t)
    BY <1>1 DEF Elems
  <2>1. CASE k < i
    <3>1. k \in DOMAIN t /\ t[k] = s[k]  BY <1>1, <1>2, <1>3, <2>1
    <3> QED  BY <3>1 DEF Elems
  <2>2. CASE i < k
    <3>1. k - 1 \in DOMAIN t /\ t[k - 1] = s[k]  BY <1>1, <1>2, <1>3, <2>2
    <3> QED  BY <3>1 DEF Elems
  <2> QED  BY <2>1, <2>2, <1>1
<1>6. Increasing(t)
  <2> SUFFICES ASSUME NEW j \in 1 .. n - 1, NEW k \in 1 .. n - 1, j < k PROVE t[j] < t[k]
    BY <1>3 DEF Increasing
  <2> DEFINE a == IF j < i THEN j ELSE j + 1
             b == IF k < i THEN k ELSE k + 1
  <2>1. a \in DOMAIN s /\ b \in DOMAIN s /\ a < b /\ t[j] = s[a] /\ t[k] = s[b]
    BY <1>1, <1>2
  <2> HIDE DEF a, b
  <2> QED  BY <2>1 DEF Increasing
<1> QED
  BY <1>2, <1>4, <1>5, <1>6 DEF t

(* The first message taken out.                                            *)
LEMMA TailFacts ==
  ASSUME NEW s \in Seq(Message), s # <<>>, Increasing(s)
  PROVE  /\ Tail(s) \in Seq(Message) /\ Head(s) \in Message /\ Head(s) \in Elems(s)
         /\ Elems(Tail(s)) = Elems(s) \ {Head(s)}
         /\ Increasing(Tail(s))
         /\ \A j \in DOMAIN Tail(s) : Head(s) < Tail(s)[j]
<1> DEFINE t == Tail(s)
           n == Len(s)
<1>1. n \in Nat \ {0} /\ DOMAIN s = 1 .. n /\ Head(s) = s[1] /\ 1 \in DOMAIN s
  OBVIOUS
<1>2. t \in Seq(Message) /\ Len(t) = n - 1 /\ \A k \in 1 .. n - 1 : t[k] = s[k + 1]
  BY <1>1
<1>3. DOMAIN t = 1 .. n - 1
  BY <1>2
<1> HIDE DEF t
<1>4. \A k \in 1 .. n - 1 : k + 1 \in DOMAIN s /\ s[1] < s[k + 1]
  BY <1>1 DEF Increasing
<1>5. Elems(t) \subseteq Elems(s) \ {s[1]}
  <2>1. ASSUME NEW k \in 1 .. n - 1 PROVE t[k] \in Elems(s) /\ t[k] # s[1]
    <3>1. s[k + 1] \in Nat /\ s[1] \in Nat  BY <1>1, <1>4, MessageIsNat
    <3> QED  BY <1>2, <1>4, <3>1 DEF Elems
  <2> QED  BY <1>3, <2>1 DEF Elems
<1>6. Elems(s) \ {s[1]} \subseteq Elems(t)
  <2> SUFFICES ASSUME NEW k \in 1 .. n, s[k] # s[1] PROVE s[k] \in Elems(t)
    BY <1>1 DEF Elems
  <2>1. k - 1 \in DOMAIN t /\ t[k - 1] = s[k]
    BY <1>1, <1>2, <1>3
  <2> QED  BY <2>1 DEF Elems
<1>7. Increasing(t)
  <2> SUFFICES ASSUME NEW j \in 1 .. n - 1, NEW k \in 1 .. n - 1, j < k PROVE t[j] < t[k]
    BY <1>3 DEF Increasing
  <2>1. j + 1 \in DOMAIN s /\ k + 1 \in DOMAIN s /\ j + 1 < k + 1
    BY <1>1
  <2> QED  BY <1>2, <2>1 DEF Increasing
<1>8. \A j \in DOMAIN t : s[1] < t[j]
  BY <1>2, <1>3, <1>4
<1> QED
  <2>1. Head(s) \in Message  BY <1>1
  <2>2. Head(s) \in Elems(s)  BY <1>1 DEF Elems
  <2> QED  BY <1>1, <1>2, <1>5, <1>6, <1>7, <1>8, <2>1, <2>2 DEF t

-----------------------------------------------------------------------------
(* Where the messages are.                                                 *)

(* The places a message can be in.                                         *)
Fates == {"nextTurn", "nextStep", "batch", "transcript", "discarded", "refused"}

(* The messages that f gives one place.                                    *)
With(f, fate) == {m \in DOMAIN f : f[m] = fate}

(* The messages in a place.                                                *)
Place(fate) ==
  CASE fate = "nextTurn"   -> Elems(nextTurn)
    [] fate = "nextStep"   -> Elems(nextStep)
    [] fate = "batch"      -> Messages(batch)
    [] fate = "transcript" -> Messages(transcript)
    [] fate = "discarded"  -> discarded
    [] fate = "refused"    -> refused

(* One place for each message sent.                                        *)
FateInv ==
  \E f \in [1 .. used.messages -> Fates] : \A fate \in Fates : Place(fate) = With(f, fate)

(* No message is in a sequence of items twice.                             *)
Distinct(s) == \A i, j \in DOMAIN s : s[i].message = s[j].message => i = j

(* The items of one list are in the order they were sent.                  *)
Ordered(s) == \A i, j \in DOMAIN s :
  i < j /\ s[i].origin = s[j].origin => s[i].message < s[j].message

(* Whatever was taken from a list was sent before what is left in it.      *)
Ahead(s, origin, list) == \A i \in DOMAIN s, j \in DOMAIN list :
  s[i].origin = origin => s[i].message < list[j]

(* Nothing overtakes: not in a list, not on its way to the transcript.     *)
OrderInv ==
  /\ Increasing(nextTurn) /\ Increasing(nextStep)
  /\ Ordered(batch) /\ Distinct(batch)
  /\ Ordered(transcript) /\ Distinct(transcript)
  /\ \A i \in DOMAIN transcript, j \in DOMAIN batch :
       transcript[i].origin = batch[j].origin => transcript[i].message < batch[j].message
  /\ Ahead(batch, "next-turn", nextTurn) /\ Ahead(batch, "next-step", nextStep)
  /\ Ahead(transcript, "next-turn", nextTurn) /\ Ahead(transcript, "next-step", nextStep)

(* At most one prompt to a turn, claimed before its first step.            *)
TurnInv ==
  /\ OwnTurn
  /\ \A i \in DOMAIN transcript :
       /\ transcript[i].turn <= turn
       /\ transcript[i].origin = "next-turn" /\ transcript[i].turn = turn /\ pc \in InTurn
            => step # 0
  /\ \A i, j \in DOMAIN batch :
       batch[i].origin = "next-turn" =>
         /\ step = 0
         /\ batch[j].origin = "next-turn" => i = j

(* The part of TypeOK that IInv leaves open.                               *)
DataOK ==
  /\ nextTurn \in Seq(Message) /\ nextStep \in Seq(Message)
  /\ batch \in Seq(Claimed) /\ transcript \in Seq(Delivered)
  /\ discarded \subseteq Message /\ refused \subseteq Message /\ waking \subseteq Message
  /\ used \in [messages : 0 .. MaxMessages, cancels : Nat, faults : Nat, maintenance : Nat]
  /\ decision \in {"none", "reject", "empty", "messages"}
  /\ turnEnds \in Endings
  /\ replayFrame \in {"none", "plain", "latched"}
  /\ watching \in Nat

(* The invariant.                                                          *)
Fated == DataOK /\ OrderInv /\ FateInv /\ TurnInv

-----------------------------------------------------------------------------
(* A resumed agent's parked messages are queued, in order.                 *)
LEMMA FateInit == Init => Fated
<1> SUFFICES ASSUME Init PROVE Fated
  OBVIOUS
<1> USE DEF Init
<1>1. PICK n \in 0 .. MaxSeeded :
        /\ nextTurn = [i \in 1 .. n |-> i]
        /\ used = [messages |-> n, cancels |-> 0, faults |-> 0, maintenance |-> 0]
  OBVIOUS
<1>2. n \in Nat /\ n <= MaxMessages /\ \A i \in 1 .. n : i \in Message
  BY BoundsAssumption DEF Message
<1>3. nextTurn \in [1 .. n -> Message]
  BY <1>1, <1>2
<1>4. nextTurn \in Seq(Message)
  BY <1>2, <1>3, SeqDef
<1>5. DOMAIN nextTurn = 1 .. n /\ \A i \in 1 .. n : nextTurn[i] = i
  BY <1>1
<1>6. DataOK
  <2>1. used \in [messages : 0 .. MaxMessages, cancels : Nat, faults : Nat, maintenance : Nat]
    BY <1>1, <1>2, BoundsAssumption
  <2>2. nextStep \in Seq(Message) /\ batch \in Seq(Claimed) /\ transcript \in Seq(Delivered)
    BY EmptySeq
  <2>3. /\ decision \in {"none", "reject", "empty", "messages"}
        /\ turnEnds \in Endings
        /\ replayFrame \in {"none", "plain", "latched"}
        /\ discarded \subseteq Message /\ refused \subseteq Message
        /\ waking \subseteq Message
    BY DEF Endings
  <2>4. watching \in Nat
    OBVIOUS
  <2> QED  BY ONLY <1>4, <2>1, <2>2, <2>3, <2>4 DEF DataOK
<1>7. OrderInv
  BY <1>5 DEF OrderInv, Increasing, Ordered, Distinct, Ahead
<1>8. FateInv
  <2> DEFINE f == [m \in 1 .. n |-> "nextTurn"]
  <2>1. f \in [1 .. used.messages -> Fates] /\ DOMAIN f = 1 .. n
    BY <1>1 DEF Fates
  <2>2. Elems(nextTurn) = With(f, "nextTurn")
    BY <1>5 DEF Elems, With
  <2>3. \A fate \in Fates \ {"nextTurn"} : With(f, fate) = {}
    BY DEF With, Fates
  <2>4. Elems(nextStep) = {} /\ Messages(batch) = {} /\ Messages(transcript) = {}
    BY DEF Elems, Messages
  <2> HIDE DEF f
  <2> QED  BY <2>1, <2>2, <2>3, <2>4 DEF FateInv, Fates, Place
<1>9. TurnInv
  BY DEF TurnInv, OwnTurn
<1> QED
  BY <1>6, <1>7, <1>8, <1>9 DEF Fated

(* The two invariants together give every variable its type.               *)
LEMMA TypesComplete == IInv /\ DataOK => TypeOK
<1> SUFFICES ASSUME IInv, DataOK PROVE TypeOK
  OBVIOUS
<1>1. trace \in Log!SessionTraceRecord
  BY DEF IInv, BracketInv, TraceRecord, Log!SessionTraceRecord
<1>2. settled \subseteq Nat
  BY DEF IInv, ActivityInv
<1> QED
  BY <1>1, <1>2
  DEF TypeOK, DataOK, Claimed, Delivered, IInv, ControlInv, LatchInv, CeilingInv, ActivityInv, Point

(* A step that moves no message.                                           *)
LEMMA FatesKept ==
  ASSUME IInv, IInv', Fated,
         UNCHANGED <<nextTurn, nextStep, batch, transcript, discarded, refused, waking>>,
         /\ used' \in [messages : 0 .. MaxMessages, cancels : Nat, faults : Nat, maintenance : Nat]
         /\ used'.messages = used.messages
         /\ decision' \in {"none", "reject", "empty", "messages"}
         /\ turnEnds' \in Endings
         /\ replayFrame' \in {"none", "plain", "latched"}
         /\ watching' \in Nat,
         turn <= turn', batch = <<>> \/ step' = step,
         pc' \in InTurn => \/ pc \in InTurn /\ turn' = turn /\ step' = step
                           \/ turn' = turn + 1
  PROVE  Fated'
<1>1. OrderInv' /\ FateInv'
  BY DEF Fated, OrderInv, FateInv, Place
<1>2. TurnInv'
  <2>1. OwnTurn'
    BY DEF Fated, TurnInv, OwnTurn
  <2>2. ASSUME NEW i \in DOMAIN transcript
        PROVE  /\ transcript[i].turn <= turn'
               /\ transcript[i].origin = "next-turn" /\ transcript[i].turn = turn' /\ pc' \in InTurn
                    => step' # 0
    <3>1. transcript[i].turn \in Nat /\ turn \in Nat /\ turn' \in Nat /\ transcript[i].turn <= turn
      <4>1. transcript[i] \in Delivered  BY InSequence DEF Fated, DataOK
      <4>2. transcript[i].turn \in Nat  BY <4>1 DEF Delivered
      <4> QED  BY <4>2 DEF Fated, IInv, ControlInv, TurnInv
    <3> QED  BY <3>1 DEF Fated, TurnInv
  <2>3. \A i, j \in DOMAIN batch :
          batch[i].origin = "next-turn" => /\ step' = 0
                                           /\ batch[j].origin = "next-turn" => i = j
    BY DEF Fated, TurnInv
  <2> QED  BY <2>1, <2>2, <2>3 DEF TurnInv
<1>3. DataOK'
  BY DEF Fated, DataOK
<1> QED
  BY <1>1, <1>2, <1>3 DEF Fated

(* The driver's position and its endings are all that such a step changes. *)
LEMMA QuietDriver ==
  ASSUME IInv, IInv', Fated,
         \/ TurnStart \/ EndWithoutStep \/ RequestModel \/ RunTools
         \/ \E stepEnd \in {"none", "completed", "max-tokens"} : StepReturns(stepEnd)
         \/ AfterStep \/ TurnStopped \/ Unwind \/ EndErred \/ TurnReturns \/ GoIdle
  PROVE  Fated'
<1> USE DEF inboxVars, turnVars, waitVars, fateVars, InTurn, CloseTurn, At, Resumed
<1>0. /\ used \in [messages : 0 .. MaxMessages, cancels : Nat, faults : Nat, maintenance : Nat]
      /\ decision \in {"none", "reject", "empty", "messages"}
      /\ turnEnds \in Endings
      /\ replayFrame \in {"none", "plain", "latched"}
      /\ watching \in Nat /\ turn \in Nat
  BY DEF Fated, DataOK, IInv, ControlInv
<1>1. CASE TurnStart
  BY <1>0, <1>1, FatesKept DEF TurnStart, Endings
<1>2. CASE EndWithoutStep
  BY <1>0, <1>2, FatesKept DEF EndWithoutStep, Endings
<1>3. CASE RequestModel \/ RunTools
  BY <1>0, <1>3, FatesKept DEF RequestModel, RunTools
<1>4. ASSUME NEW stepEnd \in {"none", "completed", "max-tokens"}, StepReturns(stepEnd)
      PROVE  Fated'
  BY <1>0, <1>4, FatesKept DEF StepReturns, StickyEnding, Endings
<1>5. CASE AfterStep \/ TurnStopped
  BY <1>0, <1>5, FatesKept DEF AfterStep, TurnStopped
<1>6. CASE Unwind \/ EndErred
  BY <1>0, <1>6, FatesKept DEF Unwind, EndErred, Endings
<1>7. CASE TurnReturns
  BY <1>0, <1>7, FatesKept DEF TurnReturns, IInv, BatchInv
<1>8. CASE GoIdle
  BY <1>0, <1>8, FatesKept DEF GoIdle
<1> QED
  BY <1>1, <1>2, <1>3, <1>4, <1>5, <1>6, <1>7, <1>8

(* Neither do the others that move no message.                             *)
LEMMA QuietOthers ==
  ASSUME IInv, IInv', Fated,
         \/ Replay \/ Wake \/ WhenIdle \/ MaintenanceSettles \/ RunMaintenance
         \/ UNCHANGED vars
  PROVE  Fated'
<1> USE DEF inboxVars, turnVars, waitVars, fateVars, InTurn, At, Resumed, StartDriver, WakeDriver
<1>0. /\ used \in [messages : 0 .. MaxMessages, cancels : Nat, faults : Nat, maintenance : Nat]
      /\ decision \in {"none", "reject", "empty", "messages"}
      /\ turnEnds \in Endings
      /\ replayFrame \in {"none", "plain", "latched"}
      /\ watching \in Nat /\ turn \in Nat /\ activity \in Nat
  BY DEF Fated, DataOK, IInv, ControlInv, ActivityInv
<1>b. phase # "running" => batch = <<>>
  BY DEF IInv, BatchInv, ControlInv
<1>1. CASE Replay
  <2>1. /\ UNCHANGED <<nextTurn, nextStep, batch, transcript, discarded, refused, waking,
                       used, decision, turnEnds, watching, turn>>
        /\ replayFrame' = "none"
    BY <1>1 DEF Replay
  <2>2. \/ phase = "idle" /\ pc' = "woken"
        \/ step' = step /\ pc' = pc
    BY <1>1 DEF Replay
  <2> QED  BY <1>0, <1>b, <2>1, <2>2, FatesKept
<1>2. CASE Wake
  BY <1>0, <1>b, <1>2, FatesKept DEF Wake
<1>3. CASE WhenIdle
  BY <1>0, <1>3, FatesKept DEF WhenIdle
<1>4. CASE MaintenanceSettles
  BY <1>0, <1>b, <1>4, FatesKept DEF MaintenanceSettles
<1>5. CASE RunMaintenance
  BY <1>0, <1>5, FatesKept DEF RunMaintenance
<1>6. CASE UNCHANGED vars
  BY <1>0, <1>6, FatesKept DEF vars
<1> QED
  BY <1>1, <1>2, <1>3, <1>4, <1>5, <1>6

-----------------------------------------------------------------------------
(* Moving messages from place to place.                                    *)

(* The places are disjoint and hold exactly the messages sent.             *)
LEMMA FateFacts ==
  ASSUME FateInv
  PROVE  /\ \A p, q \in Fates : p # q => Place(p) \cap Place(q) = {}
         /\ \A p \in Fates : Place(p) \subseteq 1 .. used.messages
         /\ \A m \in 1 .. used.messages : \E p \in Fates : m \in Place(p)
<1>1. PICK f \in [1 .. used.messages -> Fates] :
        \A fate \in Fates : Place(fate) = With(f, fate)
  BY DEF FateInv
<1>2. \A p \in Fates : \A m : m \in Place(p) <=> m \in 1 .. used.messages /\ f[m] = p
  BY <1>1 DEF With
<1> QED
  BY <1>2

(* Moving any of the messages to one place keeps one place for each.       *)
LEMMA FateMoved ==
  ASSUME FateInv, used'.messages = used.messages,
         NEW S \in SUBSET (1 .. used.messages), NEW p \in Fates,
         Place(p)' = Place(p) \cup S,
         \A q \in Fates \ {p} : Place(q)' = Place(q) \ S
  PROVE  FateInv'
<1>1. PICK f \in [1 .. used.messages -> Fates] :
        \A fate \in Fates : Place(fate) = With(f, fate)
  BY DEF FateInv
<1> DEFINE g == [m \in 1 .. used.messages |-> IF m \in S THEN p ELSE f[m]]
<1>2. g \in [1 .. used'.messages -> Fates]
  OBVIOUS
<1>3. With(g, p) = With(f, p) \cup S /\ \A q \in Fates \ {p} : With(g, q) = With(f, q) \ S
  BY DEF With
<1>4. \A q \in Fates : Place(q)' = With(g, q)
  BY <1>1, <1>3
<1> HIDE DEF g
<1> QED
  BY <1>2, <1>4 DEF FateInv

(* So does putting the next message anywhere.                              *)
LEMMA FateBegins ==
  ASSUME FateInv, used.messages \in Nat, used'.messages = used.messages + 1,
         NEW p \in Fates,
         Place(p)' = Place(p) \cup {used.messages + 1},
         \A q \in Fates \ {p} : Place(q)' = Place(q)
  PROVE  FateInv'
<1>1. PICK f \in [1 .. used.messages -> Fates] :
        \A fate \in Fates : Place(fate) = With(f, fate)
  BY DEF FateInv
<1> DEFINE n == used.messages
           g == [m \in 1 .. n + 1 |-> IF m = n + 1 THEN p ELSE f[m]]
<1>2. g \in [1 .. used'.messages -> Fates]
  OBVIOUS
<1>3. \A q \in Fates : Place(q)' = With(g, q)
  BY <1>1 DEF With
<1> HIDE DEF g
<1> QED
  BY <1>2, <1>3 DEF FateInv

(* The places, one by one.                                                 *)
LEMMA PlacesAre ==
  /\ Place("nextTurn") = Elems(nextTurn) /\ Place("nextStep") = Elems(nextStep)
  /\ Place("batch") = Messages(batch) /\ Place("transcript") = Messages(transcript)
  /\ Place("discarded") = discarded /\ Place("refused") = refused
  BY DEF Place

(* The same of the next state.                                             *)
LEMMA PlacesBecome ==
  /\ Place("nextTurn")' = Elems(nextTurn') /\ Place("nextStep")' = Elems(nextStep')
  /\ Place("batch")' = Messages(batch') /\ Place("transcript")' = Messages(transcript')
  /\ Place("discarded")' = discarded' /\ Place("refused")' = refused'
  BY DEF Place, Elems, Messages

(* A new message is behind all others.                                     *)
LEMMA Sends ==
  ASSUME Fated, used.messages < MaxMessages, used'.messages = used.messages + 1,
         UNCHANGED <<batch, transcript, discarded, refused>>,
         \/ nextTurn' = Append(nextTurn, used.messages + 1) /\ UNCHANGED nextStep
         \/ nextStep' = Append(nextStep, used.messages + 1) /\ UNCHANGED nextTurn
  PROVE  OrderInv' /\ FateInv' /\ nextTurn' \in Seq(Message) /\ nextStep' \in Seq(Message)
<1> DEFINE m == used.messages + 1
<1>0. used.messages \in Nat /\ m \in Message /\ m \in Nat
  BY BoundsAssumption DEF Fated, DataOK, Message
<1>1. /\ \A i \in DOMAIN nextTurn : nextTurn[i] \in 1 .. used.messages
      /\ \A i \in DOMAIN nextStep : nextStep[i] \in 1 .. used.messages
      /\ \A i \in DOMAIN batch : batch[i].message \in 1 .. used.messages
      /\ \A i \in DOMAIN transcript : transcript[i].message \in 1 .. used.messages
  BY FateFacts, PlacesAre DEF Fated, Fates, Elems, Messages
<1>2. ASSUME NEW list \in Seq(Message), NEW origin,
             \A i \in DOMAIN list : list[i] \in 1 .. used.messages,
             Increasing(list), Ahead(batch, origin, list), Ahead(transcript, origin, list)
      PROVE  /\ Append(list, m) \in Seq(Message)
             /\ Elems(Append(list, m)) = Elems(list) \cup {m}
             /\ Increasing(Append(list, m))
             /\ Ahead(batch, origin, Append(list, m))
             /\ Ahead(transcript, origin, Append(list, m))
  <2>1. \A i \in DOMAIN list : list[i] < m
    BY <1>0, <1>2
  <2>2. \A j \in DOMAIN Append(list, m) :
          \/ j \in DOMAIN list /\ Append(list, m)[j] = list[j]
          \/ Append(list, m)[j] = m
    BY <1>0, <1>2
  <2>3. Ahead(batch, origin, Append(list, m)) /\ Ahead(transcript, origin, Append(list, m))
    BY <1>0, <1>1, <1>2, <2>2 DEF Ahead
  <2> QED  BY <1>0, <1>2, <2>1, <2>3, AppendFacts
<1> HIDE DEF m
<1>3. CASE nextTurn' = Append(nextTurn, m) /\ UNCHANGED nextStep
  <2>1. /\ nextTurn' \in Seq(Message) /\ Elems(nextTurn') = Elems(nextTurn) \cup {m}
        /\ Increasing(nextTurn')
        /\ Ahead(batch, "next-turn", nextTurn') /\ Ahead(transcript, "next-turn", nextTurn')
    BY <1>1, <1>2, <1>3 DEF Fated, DataOK, OrderInv
  <2>2. OrderInv'
    BY <1>3, <2>1 DEF Fated, OrderInv
  <2>3. FateInv'
    BY <1>0, <1>3, <2>1, PlacesAre, PlacesBecome, FateBegins DEF Fated, Fates, m
  <2> QED  BY <1>3, <2>1, <2>2, <2>3 DEF Fated, DataOK
<1>4. CASE nextStep' = Append(nextStep, m) /\ UNCHANGED nextTurn
  <2>1. /\ nextStep' \in Seq(Message) /\ Elems(nextStep') = Elems(nextStep) \cup {m}
        /\ Increasing(nextStep')
        /\ Ahead(batch, "next-step", nextStep') /\ Ahead(transcript, "next-step", nextStep')
    BY <1>1, <1>2, <1>4 DEF Fated, DataOK, OrderInv
  <2>2. OrderInv'
    BY <1>4, <2>1 DEF Fated, OrderInv
  <2>3. FateInv'
    BY <1>0, <1>4, <2>1, PlacesAre, PlacesBecome, FateBegins DEF Fated, Fates, m
  <2> QED  BY <1>4, <2>1, <2>2, <2>3 DEF Fated, DataOK
<1> QED
  BY <1>3, <1>4 DEF m

(* What a list keeps stays ahead of it.                                    *)
LEMMA AheadOfFewer ==
  ASSUME NEW s, NEW origin, NEW list, NEW rest, Ahead(s, origin, list), Elems(rest) \subseteq Elems(list)
  PROVE  Ahead(s, origin, rest)
<1> SUFFICES ASSUME NEW i \in DOMAIN s, NEW j \in DOMAIN rest, s[i].origin = origin
             PROVE  s[i].message < rest[j]
  BY DEF Ahead
<1>1. PICK k \in DOMAIN list : list[k] = rest[j]
  BY DEF Elems
<1> QED
  BY <1>1 DEF Ahead

(* A removal discards its message and keeps the order of the others.       *)
LEMMA RemoveFates ==
  ASSUME IInv, IInv', Fated, Remove
  PROVE  Fated'
<1> USE DEF inboxVars, turnVars, waitVars, fateVars
<1>0. /\ nextTurn \in Seq(Message) /\ nextStep \in Seq(Message)
      /\ Increasing(nextTurn) /\ Increasing(nextStep)
      /\ used'.messages = used.messages
  BY DEF Fated, DataOK, OrderInv, Remove
<1>1. CASE \E i \in DOMAIN nextTurn :
             /\ nextTurn' = Without(nextTurn, i)
             /\ discarded' = discarded \cup {nextTurn[i]}
             /\ UNCHANGED nextStep
  <2>1. PICK i \in DOMAIN nextTurn :
             /\ nextTurn' = Without(nextTurn, i)
             /\ discarded' = discarded \cup {nextTurn[i]}
             /\ UNCHANGED nextStep
    BY <1>1
  <2>2. /\ nextTurn' \in Seq(Message) /\ Increasing(nextTurn')
        /\ Elems(nextTurn') = Elems(nextTurn) \ {nextTurn[i]}
        /\ nextTurn[i] \in Message
    BY <1>0, <2>1, WithoutFacts, InSequence
  <2>3. Ahead(batch, "next-turn", nextTurn') /\ Ahead(transcript, "next-turn", nextTurn')
    BY <2>2, AheadOfFewer DEF Fated, OrderInv
  <2>4. FateInv'
    <3>1. nextTurn[i] \in Place("nextTurn")
      BY PlacesAre DEF Elems
    <3>2. {nextTurn[i]} \in SUBSET (1 .. used.messages)
          /\ \A q \in Fates \ {"nextTurn"} : nextTurn[i] \notin Place(q)
      BY <3>1, FateFacts DEF Fated, Fates
    <3>3. /\ Place("discarded")' = Place("discarded") \cup {nextTurn[i]}
          /\ \A q \in Fates \ {"discarded"} : Place(q)' = Place(q) \ {nextTurn[i]}
      BY <2>1, <2>2, <3>2, PlacesAre, PlacesBecome DEF Remove, Fates
    <3>4. "discarded" \in Fates  BY DEF Fates
    <3> QED  BY <1>0, <3>2, <3>3, <3>4, FateMoved DEF Fated
  <2> QED
    BY <2>1, <2>2, <2>3, <2>4 DEF Remove, Fated, DataOK, OrderInv, TurnInv, OwnTurn
<1>2. CASE \E i \in DOMAIN nextStep :
             /\ nextStep' = Without(nextStep, i)
             /\ discarded' = discarded \cup {nextStep[i]}
             /\ UNCHANGED nextTurn
  <2>1. PICK i \in DOMAIN nextStep :
             /\ nextStep' = Without(nextStep, i)
             /\ discarded' = discarded \cup {nextStep[i]}
             /\ UNCHANGED nextTurn
    BY <1>2
  <2>2. /\ nextStep' \in Seq(Message) /\ Increasing(nextStep')
        /\ Elems(nextStep') = Elems(nextStep) \ {nextStep[i]}
        /\ nextStep[i] \in Message
    BY <1>0, <2>1, WithoutFacts, InSequence
  <2>3. Ahead(batch, "next-step", nextStep') /\ Ahead(transcript, "next-step", nextStep')
    BY <2>2, AheadOfFewer DEF Fated, OrderInv
  <2>4. FateInv'
    <3>1. nextStep[i] \in Place("nextStep")
      BY PlacesAre DEF Elems
    <3>2. {nextStep[i]} \in SUBSET (1 .. used.messages)
          /\ \A q \in Fates \ {"nextStep"} : nextStep[i] \notin Place(q)
      BY <3>1, FateFacts DEF Fated, Fates
    <3>3. /\ Place("discarded")' = Place("discarded") \cup {nextStep[i]}
          /\ \A q \in Fates \ {"discarded"} : Place(q)' = Place(q) \ {nextStep[i]}
      BY <2>1, <2>2, <3>2, PlacesAre, PlacesBecome DEF Remove, Fates
    <3>4. "discarded" \in Fates  BY DEF Fates
    <3> QED  BY <1>0, <3>2, <3>3, <3>4, FateMoved DEF Fated
  <2> QED
    BY <2>1, <2>2, <2>3, <2>4 DEF Remove, Fated, DataOK, OrderInv, TurnInv, OwnTurn
<1> QED
  BY <1>1, <1>2 DEF Remove

(* A send adds its message at the end of one list.                         *)
LEMMA SendFates ==
  ASSUME IInv, IInv', Fated, NEW target, NEW wakeup \in BOOLEAN, Send(target, wakeup)
  PROVE  Fated'
<1> DEFINE m == used.messages + 1
<1>1. /\ used.messages < MaxMessages /\ used' = [used EXCEPT !.messages = m]
      /\ \/ nextTurn' = Append(nextTurn, m) /\ UNCHANGED nextStep
         \/ nextStep' = Append(nextStep, m) /\ UNCHANGED nextTurn
      /\ waking' \in {waking, waking \cup {m}}
      /\ UNCHANGED <<batch, transcript, discarded, refused, decision, turnEnds,
                     replayFrame, watching, turn, step, pc>>
  BY DEF Send, AtEnd, turnVars, waitVars
<1>2. used \in [messages : 0 .. MaxMessages, cancels : Nat, faults : Nat, maintenance : Nat]
  BY DEF Fated, DataOK
<1>3. /\ used'.messages = m /\ m \in Message
      /\ used' \in [messages : 0 .. MaxMessages, cancels : Nat, faults : Nat, maintenance : Nat]
  <2>0. used.messages \in Nat /\ used.messages < MaxMessages /\ MaxMessages \in Nat
    BY ONLY <1>1, <1>2, BoundsAssumption
  <2>1. m \in 0 .. MaxMessages /\ m \in Message
    BY ONLY <2>0 DEF Message
  <2>2. used' = [used EXCEPT !.messages = m]
    BY ONLY <1>1
  <2> HIDE DEF m
  <2> QED  BY ONLY <1>2, <2>1, <2>2
<1>4. OrderInv' /\ FateInv' /\ nextTurn' \in Seq(Message) /\ nextStep' \in Seq(Message)
  BY <1>1, <1>3, Sends
<1>5. DataOK'
  BY <1>1, <1>3, <1>4 DEF Fated, DataOK
<1>6. TurnInv'
  BY <1>1 DEF Fated, TurnInv, OwnTurn
<1> QED
  BY <1>4, <1>5, <1>6 DEF Fated

(* So does a tool's context message.                                       *)
LEMMA AcceptContextFates ==
  ASSUME IInv, IInv', Fated, AcceptContext
  PROVE  Fated'
<1> DEFINE m == used.messages + 1
<1>1. /\ used.messages < MaxMessages /\ used' = [used EXCEPT !.messages = @ + 1]
      /\ nextStep' = Append(nextStep, m) /\ UNCHANGED nextTurn
      /\ UNCHANGED <<batch, transcript, discarded, refused, waking, decision, turnEnds,
                     replayFrame, watching, turn, step, pc>>
  BY DEF AcceptContext, AtEnd, turnVars, waitVars, fateVars
<1>2. used \in [messages : 0 .. MaxMessages, cancels : Nat, faults : Nat, maintenance : Nat]
  BY DEF Fated, DataOK
<1>3. /\ used'.messages = m
      /\ used' \in [messages : 0 .. MaxMessages, cancels : Nat, faults : Nat, maintenance : Nat]
  <2>0. used.messages \in Nat /\ used.messages < MaxMessages /\ MaxMessages \in Nat
    BY ONLY <1>1, <1>2, BoundsAssumption
  <2>1. m \in 0 .. MaxMessages
    BY ONLY <2>0
  <2>2. used' = [used EXCEPT !.messages = m]
    BY ONLY <1>1
  <2> HIDE DEF m
  <2> QED  BY ONLY <1>2, <2>1, <2>2
<1>4. OrderInv' /\ FateInv' /\ nextTurn' \in Seq(Message) /\ nextStep' \in Seq(Message)
  BY <1>1, <1>3, Sends
<1>5. DataOK'
  BY <1>1, <1>3, <1>4 DEF Fated, DataOK
<1>6. TurnInv'
  BY <1>1 DEF Fated, TurnInv, OwnTurn
<1> QED
  BY <1>4, <1>5, <1>6 DEF Fated

(* A cancel that clears the inbox discards what was pending in it.         *)
LEMMA ClearFates ==
  ASSUME IInv, Fated, nextTurn' = <<>>, nextStep' = <<>>, discarded' = discarded \cup Pending,
         UNCHANGED <<batch, transcript, refused>>, used'.messages = used.messages
  PROVE  OrderInv' /\ FateInv' /\ discarded' \subseteq Message
<1>1. /\ Elems(nextTurn') = {} /\ Elems(nextStep') = {}
      /\ DOMAIN nextTurn' = {} /\ DOMAIN nextStep' = {}
  BY DEF Elems
<1>2. OrderInv'
  BY <1>1 DEF Fated, OrderInv, Increasing, Ordered, Distinct, Ahead
<1>3. FateInv'
  <2>1. Pending \in SUBSET (1 .. used.messages)
        /\ \A q \in Fates \ {"nextTurn", "nextStep"} : Place(q) \cap Pending = {}
    BY FateFacts, PlacesAre DEF Fated, Fates, Pending
  <2>2. /\ Place("discarded")' = Place("discarded") \cup Pending
        /\ \A q \in Fates \ {"discarded"} : Place(q)' = Place(q) \ Pending
    <3>1. Place("discarded")' = Place("discarded") \cup Pending
      BY PlacesAre, PlacesBecome
    <3>2. Place("nextTurn")' = {} /\ Place("nextStep")' = {}
      BY <1>1, PlacesBecome
    <3>3. Place("nextTurn") \subseteq Pending /\ Place("nextStep") \subseteq Pending
      BY PlacesAre DEF Pending
    <3>4. \A q \in {"batch", "transcript", "refused"} : Place(q)' = Place(q)
      BY PlacesAre, PlacesBecome
    <3> QED  BY <2>1, <3>1, <3>2, <3>3, <3>4 DEF Fates
  <2>3. "discarded" \in Fates  BY DEF Fates
  <2> QED  BY <2>1, <2>2, <2>3, FateMoved DEF Fated
<1>4. Elems(nextTurn) \subseteq Message /\ Elems(nextStep) \subseteq Message
  <2>1. nextTurn \in Seq(Message) /\ nextStep \in Seq(Message)  BY DEF Fated, DataOK
  <2> QED  BY <2>1, InSequence DEF Elems
<1> QED
  BY <1>2, <1>3, <1>4 DEF Fated, DataOK, Pending

(* Cancel and disposal clear the inbox or leave it.                        *)
LEMMA CancelFates ==
  ASSUME IInv, IInv', Fated, NEW cause, NEW keepInbox \in BOOLEAN, CancelWith(cause, keepInbox),
         used'.messages = used.messages,
         used' \in [messages : 0 .. MaxMessages, cancels : Nat, faults : Nat, maintenance : Nat],
         watching' \in Nat
  PROVE  Fated'
<1>1. UNCHANGED <<batch, transcript, refused, waking, decision, turnEnds, replayFrame,
                  turn, step, pc>>
  BY DEF CancelWith, turnVars
<1>2. OrderInv' /\ FateInv' /\ discarded' \subseteq Message
      /\ nextTurn' \in Seq(Message) /\ nextStep' \in Seq(Message)
  <2>1. CASE keepInbox
    <3>1. UNCHANGED <<nextTurn, nextStep, discarded>>
      BY <2>1 DEF CancelWith, inboxVars
    <3> QED  BY <1>1, <3>1 DEF Fated, DataOK, OrderInv, FateInv, Place
  <2>2. CASE ~keepInbox
    <3>1. nextTurn' = <<>> /\ nextStep' = <<>> /\ discarded' = discarded \cup Pending
      BY <2>2 DEF CancelWith
    <3> QED  BY <1>1, <3>1, ClearFates
  <2> QED  BY <2>1, <2>2
<1>3. DataOK'
  BY <1>1, <1>2 DEF Fated, DataOK
<1>4. TurnInv'
  BY <1>1 DEF Fated, TurnInv, OwnTurn
<1> QED
  BY <1>2, <1>3, <1>4 DEF Fated

(* Both callers of a cancel keep the invariant.                            *)
LEMMA CallerCancelFates ==
  ASSUME IInv, IInv', Fated, (\E keepInbox \in BOOLEAN : Cancel(keepInbox)) \/ Dispose
  PROVE  Fated'
<1>0. /\ used \in [messages : 0 .. MaxMessages, cancels : Nat, faults : Nat, maintenance : Nat]
      /\ watching \in Nat /\ activity \in Nat
  BY DEF Fated, DataOK, IInv, ActivityInv
<1>1. CASE \E keepInbox \in BOOLEAN : Cancel(keepInbox)
  <2>1. PICK keepInbox \in BOOLEAN : Cancel(keepInbox)  BY <1>1
  <2>2. /\ used' = [used EXCEPT !.cancels = @ + 1] /\ watching' = watching
        /\ CancelWith("user", keepInbox)
    BY <2>1 DEF Cancel, waitVars
  <2> QED  BY <1>0, <2>2, CancelFates
<1>2. CASE Dispose
  <2>1. used' = used /\ watching' = activity /\ CancelWith("disposed", FALSE)
    BY <1>2 DEF Dispose
  <2> QED  BY <1>0, <2>1, CancelFates
<1> QED
  BY <1>1, <1>2

(* A batch that enters no step is refused.                                 *)
LEMMA Refuses ==
  ASSUME IInv, Fated, refused' = refused \cup Messages(batch), batch' = <<>>,
         UNCHANGED <<nextTurn, nextStep, transcript, discarded>>,
         used'.messages = used.messages
  PROVE  OrderInv' /\ FateInv' /\ refused' \subseteq Message
<1>1. Messages(batch') = {} /\ DOMAIN batch' = {}
  BY DEF Messages
<1>2. OrderInv'
  BY <1>1 DEF Fated, OrderInv, Increasing, Ordered, Distinct, Ahead
<1>3. FateInv'
  <2>1. Messages(batch) \in SUBSET (1 .. used.messages)
        /\ \A q \in Fates \ {"batch"} : Place(q) \cap Messages(batch) = {}
    BY FateFacts, PlacesAre DEF Fated, Fates
  <2>2. /\ Place("refused")' = Place("refused") \cup Messages(batch)
        /\ \A q \in Fates \ {"refused"} : Place(q)' = Place(q) \ Messages(batch)
    <3>1. Place("refused")' = Place("refused") \cup Messages(batch)
      BY PlacesAre, PlacesBecome
    <3>2. Place("batch")' = {} /\ Place("batch") = Messages(batch)
      BY <1>1, PlacesAre, PlacesBecome
    <3>3. \A q \in {"nextTurn", "nextStep", "transcript", "discarded"} : Place(q)' = Place(q)
      BY PlacesAre, PlacesBecome
    <3> QED  BY <2>1, <3>1, <3>2, <3>3 DEF Fates
  <2>3. "refused" \in Fates  BY DEF Fates
  <2> QED  BY <2>1, <2>2, <2>3, FateMoved DEF Fated
<1>4. Messages(batch) \subseteq Message
  <2>1. \A i \in DOMAIN batch : batch[i] \in Claimed  BY InSequence DEF Fated, DataOK
  <2> QED  BY <2>1 DEF Messages, Claimed
<1> QED
  BY <1>2, <1>3, <1>4 DEF Fated, DataOK

(* A message left out by a listener is refused; the others keep their      *)
(* order.                                                                  *)
LEMMA DropClaimedFates ==
  ASSUME IInv, IInv', Fated, DropClaimed
  PROVE  Fated'
<1>0. /\ used \in [messages : 0 .. MaxMessages, cancels : Nat, faults : Nat, maintenance : Nat]
      /\ batch \in Seq(Claimed)
  BY DEF Fated, DataOK
<1>1. PICK i \in DOMAIN batch :
        /\ refused' = refused \cup {batch[i].message}
        /\ batch' = Without(batch, i)
  BY DEF DropClaimed
<1>2. /\ UNCHANGED <<nextTurn, nextStep, transcript, discarded, waking, decision, turnEnds,
                     replayFrame, watching, turn, step, pc>>
      /\ pc = "preStep" /\ used' = [used EXCEPT !.faults = @ + 1]
  BY DEF DropClaimed, Resumed, At, inboxVars, waitVars
<1>3. /\ used'.messages = used.messages
      /\ used' \in [messages : 0 .. MaxMessages, cancels : Nat, faults : Nat, maintenance : Nat]
  BY <1>0, <1>2
<1> DEFINE n == Len(batch)
           from(k) == IF k < i THEN k ELSE k + 1
<1>4. /\ n \in Nat /\ DOMAIN batch = 1 .. n /\ i \in 1 .. n
      /\ batch' \in Seq(Claimed) /\ DOMAIN batch' = 1 .. n - 1
      /\ \A k \in 1 .. n - 1 : batch'[k] = IF k < i THEN batch[k] ELSE batch[k + 1]
  BY <1>0, <1>1, WithoutItem
<1>5. /\ \A k \in DOMAIN batch' : /\ from(k) \in DOMAIN batch \ {i}
                                  /\ batch'[k] = batch[from(k)]
      /\ \A j, k \in DOMAIN batch' : j < k => from(j) < from(k)
      /\ \A j, k \in DOMAIN batch' : from(j) = from(k) => j = k
      /\ \A l \in DOMAIN batch \ {i} : \E k \in DOMAIN batch' : from(k) = l
  <2>1. \A l \in DOMAIN batch \ {i} : \E k \in DOMAIN batch' : from(k) = l
    <3> SUFFICES ASSUME NEW l \in 1 .. n, l # i PROVE \E k \in 1 .. n - 1 : from(k) = l
      BY <1>4
    <3>1. CASE l < i  BY <1>4, <3>1
    <3>2. CASE i < l
      <4>1. l - 1 \in 1 .. n - 1 /\ from(l - 1) = l  BY <1>4, <3>2
      <4> QED  BY <4>1
    <3> QED  BY <1>4, <3>1, <3>2
  <2> QED  BY <1>4, <2>1
<1> HIDE DEF from, n
<1>6. Messages(batch') = Messages(batch) \ {batch[i].message}
  <2>1. ASSUME NEW k \in DOMAIN batch'
        PROVE  batch'[k].message \in Messages(batch) \ {batch[i].message}
    BY <1>5 DEF Messages, Fated, OrderInv, Distinct
  <2>2. ASSUME NEW l \in DOMAIN batch \ {i} PROVE batch[l].message \in Messages(batch')
    BY <1>5 DEF Messages
  <2> QED  BY <2>1, <2>2 DEF Messages
<1>7. OrderInv'
  <2>1. Ordered(batch') /\ Distinct(batch')
    BY <1>5 DEF Fated, OrderInv, Ordered, Distinct
  <2>2. /\ Ahead(batch', "next-turn", nextTurn)
        /\ Ahead(batch', "next-step", nextStep)
        /\ \A j \in DOMAIN transcript : \A k \in DOMAIN batch' :
             transcript[j].origin = batch'[k].origin
               => transcript[j].message < batch'[k].message
    BY <1>5 DEF Fated, OrderInv, Ahead
  <2> QED  BY <1>2, <2>1, <2>2 DEF Fated, OrderInv
<1>8. FateInv'
  <2> DEFINE m == batch[i].message
  <2>1. m \in Place("batch")  BY PlacesAre DEF Messages
  <2>2. {m} \in SUBSET (1 .. used.messages) /\ \A q \in Fates \ {"batch"} : m \notin Place(q)
    BY <2>1, FateFacts DEF Fated, Fates
  <2>3. /\ Place("refused")' = Place("refused") \cup {m}
        /\ \A q \in Fates \ {"refused"} : Place(q)' = Place(q) \ {m}
    BY <1>1, <1>2, <1>6, <2>2, PlacesAre, PlacesBecome DEF Fates
  <2>4. "refused" \in Fates  BY DEF Fates
  <2> QED  BY <1>3, <2>2, <2>3, <2>4, FateMoved DEF Fated
<1>9. DataOK'
  <2>1. batch[i] \in Claimed  BY <1>0, InSequence
  <2>2. batch[i].message \in Message  BY <2>1 DEF Claimed
  <2> QED  BY <1>1, <1>2, <1>3, <1>4, <2>2 DEF Fated, DataOK
<1>10. TurnInv'
  <2>1. \A j, k \in DOMAIN batch' :
          batch'[j].origin = "next-turn" => /\ step = 0
                                            /\ batch'[k].origin = "next-turn" => j = k
    BY <1>5 DEF Fated, TurnInv
  <2> QED  BY <1>2, <2>1 DEF Fated, TurnInv, OwnTurn
<1> QED
  BY <1>7, <1>8, <1>9, <1>10 DEF Fated

(* A pre-step decision keeps the batch or refuses all of it.               *)
LEMMA DecideFates ==
  ASSUME IInv, IInv', Fated, NEW verdict \in {"reject", "empty", "messages"}, Decide(verdict)
  PROVE  Fated'
<1>0. used \in [messages : 0 .. MaxMessages, cancels : Nat, faults : Nat, maintenance : Nat]
  BY DEF Fated, DataOK
<1>1. /\ UNCHANGED <<nextTurn, nextStep, transcript, discarded, waking, turnEnds, replayFrame,
                     watching, turn, step>>
      /\ decision' = verdict /\ pc = "preStep" /\ pc' = "decided"
  BY DEF Decide, Resumed, At, inboxVars, waitVars
<1>2. CASE UNCHANGED <<batch, refused, used>>
  <2>1. \/ pc \in InTurn /\ turn' = turn /\ step' = step
    BY <1>1 DEF InTurn
  <2>2. turn \in Nat /\ turn' \in Nat  BY DEF IInv, ControlInv
  <2>3. DataOK  BY DEF Fated
  <2> QED  BY <1>0, <1>1, <1>2, <2>1, <2>2, <2>3, FatesKept DEF DataOK
<1>3. CASE /\ used' = [used EXCEPT !.faults = @ + 1]
           /\ refused' = refused \cup Messages(batch) /\ batch' = <<>>
  <2>1. /\ used'.messages = used.messages
        /\ used' \in [messages : 0 .. MaxMessages, cancels : Nat, faults : Nat, maintenance : Nat]
    BY <1>0, <1>3
  <2>2. OrderInv' /\ FateInv' /\ refused' \subseteq Message
    BY <1>1, <1>3, <2>1, Refuses
  <2>3. DataOK'
    <3>1. batch' \in Seq(Claimed)  BY <1>3, EmptySeq
    <3> QED  BY <1>1, <2>1, <2>2, <3>1 DEF Fated, DataOK
  <2>4. TurnInv'
    <3>1. pc \in InTurn /\ DOMAIN batch' = {}  BY <1>1, <1>3 DEF InTurn
    <3> QED  BY <1>1, <3>1 DEF Fated, TurnInv, OwnTurn
  <2> QED  BY <2>2, <2>3, <2>4 DEF Fated
<1> QED
  BY <1>2, <1>3 DEF Decide, Messages

(* A throw refuses the batch it interrupts.                                *)
LEMMA ThrowFates ==
  ASSUME IInv, IInv', Fated, Throw
  PROVE  Fated'
<1>0. used \in [messages : 0 .. MaxMessages, cancels : Nat, faults : Nat, maintenance : Nat]
  BY DEF Fated, DataOK
<1>1. /\ UNCHANGED <<nextTurn, nextStep, transcript, discarded, waking, turnEnds, replayFrame,
                     watching, turn, step>>
      /\ decision' = "none" /\ pc \in InTurn
      /\ refused' = refused \cup Messages(batch) /\ batch' = <<>>
  BY DEF Throw, Resumed, At, inboxVars, waitVars, InTurn, Messages
<1>2. /\ used'.messages = used.messages
      /\ used' \in [messages : 0 .. MaxMessages, cancels : Nat, faults : Nat, maintenance : Nat]
  BY <1>0 DEF Throw
<1>3. OrderInv' /\ FateInv' /\ refused' \subseteq Message
  BY <1>1, <1>2, Refuses
<1>4. DataOK'
  <2>1. batch' \in Seq(Claimed)  BY <1>1, EmptySeq
  <2> QED  BY <1>1, <1>2, <1>3, <2>1 DEF Fated, DataOK
<1>5. TurnInv'
  <2>1. DOMAIN batch' = {}  BY <1>1
  <2> QED  BY <1>1, <2>1 DEF Fated, TurnInv, OwnTurn
<1> QED
  BY <1>3, <1>4, <1>5 DEF Fated

(* The transcript a step starts with ends with its batch.                  *)
LEMMA StepTranscript ==
  ASSUME Fated, turn \in Nat, step \in Nat, StepStart
  PROVE  /\ transcript' \in Seq(Delivered)
         /\ Len(transcript) \in Nat /\ DOMAIN transcript = 1 .. Len(transcript)
         /\ \A i \in DOMAIN transcript' :
              \/ i \in DOMAIN transcript /\ transcript'[i] = transcript[i]
              \/ /\ i > Len(transcript) /\ i - Len(transcript) \in DOMAIN batch
                 /\ transcript'[i].message = batch[i - Len(transcript)].message
                 /\ transcript'[i].origin = batch[i - Len(transcript)].origin
                 /\ transcript'[i].turn = turn
                 /\ transcript'[i].step = step + 1
         /\ Messages(transcript') = Messages(transcript) \cup Messages(batch)
<1> DEFINE a == Len(transcript)
           b == Len(batch)
           D == [i \in DOMAIN batch |-> [message |-> batch[i].message, turn |-> turn,
                                         step |-> step + 1, origin |-> batch[i].origin]]
<1>1. transcript \in Seq(Delivered) /\ batch \in Seq(Claimed)
  BY DEF Fated, DataOK
<1>2. /\ a \in Nat /\ b \in Nat /\ DOMAIN transcript = 1 .. a /\ DOMAIN batch = 1 .. b
  BY <1>1
<1>3. ASSUME NEW i \in 1 .. b
      PROVE  /\ D[i].message = batch[i].message /\ D[i].origin = batch[i].origin
             /\ D[i].turn = turn /\ D[i].step = step + 1
             /\ D[i] \in Delivered
  <2>1. batch[i] \in Claimed  BY <1>1, <1>2, InSequence
  <2>2. batch[i].message \in Message /\ batch[i].origin \in {"next-turn", "next-step"}
    BY <2>1 DEF Claimed
  <2>3. D[i] = [message |-> batch[i].message, turn |-> turn,
                step |-> step + 1, origin |-> batch[i].origin]
    BY <1>2
  <2> QED  BY <2>2, <2>3 DEF Delivered
<1>4. D \in Seq(Delivered) /\ Len(D) = b
  <2>1. D \in [1 .. b -> Delivered]  BY <1>2, <1>3
  <2> HIDE DEF D
  <2>2. D \in Seq(Delivered)  BY <1>2, <2>1, SeqDef
  <2>3. DOMAIN D = 1 .. Len(D) /\ Len(D) \in Nat  BY <2>2
  <2> QED  BY <1>2, <2>1, <2>2, <2>3
<1>5. transcript' = transcript \o D
  BY DEF StepStart
<1> HIDE DEF D
<1>6. /\ transcript' \in Seq(Delivered) /\ Len(transcript') = a + b
      /\ \A i \in 1 .. a + b : transcript'[i] = IF i <= a THEN transcript[i] ELSE D[i - a]
  <2>1. /\ transcript' \in Seq(Delivered) /\ Len(transcript') = Len(transcript) + Len(D)
        /\ \A i \in 1 .. Len(transcript) + Len(D) :
             transcript'[i] = IF i <= Len(transcript) THEN transcript[i] ELSE D[i - Len(transcript)]
    <3>1. transcript \in Seq(Delivered) /\ D \in Seq(Delivered)  BY <1>1, <1>4
    <3> QED  BY ONLY <1>5, <3>1, ConcatProperties
  <2> QED  BY <1>4, <2>1
<1>7. DOMAIN transcript' = 1 .. a + b
  BY <1>6
<1>8. ASSUME NEW i \in DOMAIN transcript'
      PROVE  \/ i \in DOMAIN transcript /\ transcript'[i] = transcript[i]
             \/ /\ i > a /\ i - a \in DOMAIN batch
                /\ transcript'[i].message = batch[i - a].message
                /\ transcript'[i].origin = batch[i - a].origin
                /\ transcript'[i].turn = turn
                /\ transcript'[i].step = step + 1
  <2>1. CASE i <= a  BY <1>2, <1>6, <1>7, <2>1
  <2>2. CASE ~(i <= a)
    <3>1. i > a /\ i - a \in 1 .. b  BY <1>2, <1>7, <2>2
    <3>2. transcript'[i] = D[i - a]  BY <1>6, <1>7, <2>2
    <3> QED  BY <1>2, <1>3, <3>1, <3>2
  <2> QED  BY <2>1, <2>2
<1>9. Messages(transcript') = Messages(transcript) \cup Messages(batch)
  <2>1. Messages(transcript') \subseteq Messages(transcript) \cup Messages(batch)
    BY <1>8 DEF Messages
  <2>2. ASSUME NEW i \in 1 .. a PROVE transcript[i].message \in Messages(transcript')
    <3>1. i \in 1 .. a + b /\ i <= a  BY <1>2
    <3>2. transcript'[i] = transcript[i]  BY <1>6, <3>1
    <3> QED  BY <1>7, <3>1, <3>2 DEF Messages
  <2>3. ASSUME NEW i \in 1 .. b PROVE batch[i].message \in Messages(transcript')
    <3>1. PICK k \in 1 .. a + b : k = a + i  BY <1>2
    <3>2. ~(k <= a) /\ k - a = i  BY <1>2, <3>1
    <3>3. transcript'[k] = D[i]  BY <1>6, <3>2
    <3>4. transcript'[k].message = batch[i].message  BY <1>3, <3>3
    <3> QED  BY <1>7, <3>4 DEF Messages
  <2> QED  BY <1>2, <2>1, <2>2, <2>3 DEF Messages
<1> QED
  BY <1>2, <1>6, <1>8, <1>9

(* Entering a step keeps the order: its batch was sent after the           *)
(* transcript and before the lists.                                        *)
LEMMA StepStartOrder ==
  ASSUME IInv, IInv', Fated, StepStart
  PROVE  OrderInv'
<1> DEFINE a == Len(transcript)
           T == transcript'
<1>1. turn \in Nat /\ step \in Nat  BY DEF IInv, ControlInv
<1>2. /\ a \in Nat /\ DOMAIN transcript = 1 .. a /\ T \in Seq(Delivered)
      /\ \A i \in DOMAIN T :
              \/ i \in DOMAIN transcript /\ T[i] = transcript[i]
              \/ /\ i > a /\ i - a \in DOMAIN batch
                 /\ T[i].message = batch[i - a].message
                 /\ T[i].origin = batch[i - a].origin
  BY <1>1, StepTranscript
<1>3. nextTurn' = nextTurn /\ nextStep' = nextStep /\ batch' = <<>>
  BY DEF StepStart, inboxVars
<1>4. DOMAIN T \subseteq Nat
  BY <1>2
<1> HIDE DEF T
<1>5. \A i \in DOMAIN transcript, j \in DOMAIN batch :
         transcript[i].message # batch[j].message
  BY FateFacts, PlacesAre DEF Fated, Fates, Messages
<1>6. Ordered(T)
  <2> SUFFICES ASSUME NEW i \in DOMAIN T, NEW j \in DOMAIN T, i < j, T[i].origin = T[j].origin
               PROVE  T[i].message < T[j].message
    BY DEF Ordered
  <2>1. i \in Nat /\ j \in Nat  BY <1>4
  <2>2. CASE j \in DOMAIN transcript
    <3>1. i \in DOMAIN transcript /\ T[i] = transcript[i] /\ T[j] = transcript[j]
      BY <1>2, <2>1, <2>2
    <3>2. Ordered(transcript)  BY DEF Fated, OrderInv
    <3>3. transcript[i].message < transcript[j].message
      BY <2>2, <3>1, <3>2 DEF Ordered
    <3> QED  BY <3>1, <3>3
  <2>3. CASE i \in DOMAIN transcript /\ j \notin DOMAIN transcript
    <3>1. /\ j - a \in DOMAIN batch /\ T[i] = transcript[i]
          /\ T[j].message = batch[j - a].message /\ T[j].origin = batch[j - a].origin
      BY <1>2, <2>1, <2>3
    <3> QED  BY <2>3, <3>1 DEF Fated, OrderInv
  <2>4. CASE i \notin DOMAIN transcript
    <3>1. /\ i - a \in DOMAIN batch
          /\ T[i].message = batch[i - a].message /\ T[i].origin = batch[i - a].origin
          /\ j - a \in DOMAIN batch
          /\ T[j].message = batch[j - a].message /\ T[j].origin = batch[j - a].origin
          /\ i - a < j - a
      BY <1>2, <2>1, <2>4
    <3> QED  BY <3>1 DEF Fated, OrderInv, Ordered
  <2> QED  BY <2>2, <2>3, <2>4
<1>7. Distinct(T)
  <2> SUFFICES ASSUME NEW i \in DOMAIN T, NEW j \in DOMAIN T, T[i].message = T[j].message
               PROVE  i = j
    BY DEF Distinct
  <2>1. i \in Nat /\ j \in Nat  BY <1>4
  <2>2. CASE i \in DOMAIN transcript /\ j \in DOMAIN transcript
    <3>1. T[i] = transcript[i] /\ T[j] = transcript[j]  BY <1>2, <2>1, <2>2
    <3> QED  BY <2>2, <3>1 DEF Fated, OrderInv, Distinct
  <2>3. CASE i \in DOMAIN transcript /\ j \notin DOMAIN transcript
    BY <1>2, <1>5, <2>1, <2>3
  <2>4. CASE i \notin DOMAIN transcript /\ j \in DOMAIN transcript
    BY <1>2, <1>5, <2>1, <2>4
  <2>5. CASE i \notin DOMAIN transcript /\ j \notin DOMAIN transcript
    <3>1. /\ i - a \in DOMAIN batch /\ j - a \in DOMAIN batch
          /\ batch[i - a].message = batch[j - a].message
      BY <1>2, <2>1, <2>5
    <3>2. i - a = j - a  BY <3>1 DEF Fated, OrderInv, Distinct
    <3> QED  BY <1>2, <2>1, <3>2
  <2> QED  BY <2>2, <2>3, <2>4, <2>5
<1>8. Ahead(T, "next-turn", nextTurn) /\ Ahead(T, "next-step", nextStep)
  BY <1>2 DEF Fated, OrderInv, Ahead
<1>9. DOMAIN batch' = {}  BY <1>3
<1> QED
  <2>1. Increasing(nextTurn') /\ Increasing(nextStep')  BY <1>3 DEF Fated, OrderInv
  <2>2. Ordered(batch') /\ Distinct(batch')  BY <1>9 DEF Ordered, Distinct
  <2>3. Ordered(transcript') /\ Distinct(transcript')  BY <1>6, <1>7 DEF T
  <2>4. Ahead(batch', "next-turn", nextTurn') /\ Ahead(batch', "next-step", nextStep')
    BY <1>9 DEF Ahead
  <2>5. Ahead(transcript', "next-turn", nextTurn') /\ Ahead(transcript', "next-step", nextStep')
    BY <1>3, <1>8 DEF T
  <2> QED  BY <1>9, <2>1, <2>2, <2>3, <2>4, <2>5 DEF OrderInv

(* Entering a step moves its batch to the transcript.                      *)
LEMMA StepStartFates ==
  ASSUME IInv, IInv', Fated, StepStart
  PROVE  Fated'
<1> DEFINE a == Len(transcript)
           T == transcript'
<1>0. OrderInv'  BY StepStartOrder
<1>1. turn \in Nat /\ step \in Nat /\ pc = "decided"
  BY DEF IInv, ControlInv, StepStart, Resumed, At
<1>2. /\ a \in Nat /\ DOMAIN transcript = 1 .. a /\ T \in Seq(Delivered)
      /\ \A i \in DOMAIN T :
              \/ i \in DOMAIN transcript /\ T[i] = transcript[i]
              \/ /\ i > a /\ i - a \in DOMAIN batch
                 /\ T[i].message = batch[i - a].message
                 /\ T[i].origin = batch[i - a].origin
                 /\ T[i].turn = turn /\ T[i].step = step + 1
      /\ Messages(T) = Messages(transcript) \cup Messages(batch)
  BY <1>1, StepTranscript
<1>3. /\ UNCHANGED <<nextTurn, nextStep, discarded, refused, waking, used, turnEnds, replayFrame,
                     watching, turn>>
      /\ batch' = <<>> /\ decision' = "none" /\ step' = step + 1
  BY DEF StepStart, inboxVars, waitVars
<1>4. DataOK'
  <2>1. batch' \in Seq(Claimed)  BY <1>3, EmptySeq
  <2> QED  BY <1>2, <1>3, <2>1 DEF Fated, DataOK
<1>5. FateInv'
  <2>1. Messages(batch) \in SUBSET (1 .. used.messages)
        /\ \A q \in Fates \ {"batch"} : Place(q) \cap Messages(batch) = {}
    BY FateFacts, PlacesAre DEF Fated, Fates
  <2>2. /\ Place("transcript")' = Place("transcript") \cup Messages(batch)
        /\ \A q \in Fates \ {"transcript"} : Place(q)' = Place(q) \ Messages(batch)
    <3>1. Place("transcript")' = Place("transcript") \cup Messages(batch)
      BY <1>2, PlacesAre, PlacesBecome
    <3>2. Place("batch")' = {} /\ Place("batch") = Messages(batch)
      BY <1>3, PlacesAre, PlacesBecome DEF Messages
    <3>3. \A q \in {"nextTurn", "nextStep", "refused", "discarded"} : Place(q)' = Place(q)
      BY <1>3, PlacesAre, PlacesBecome
    <3> QED  BY <2>1, <3>1, <3>2, <3>3 DEF Fates
  <2>3. "transcript" \in Fates  BY DEF Fates
  <2> QED  BY <1>3, <2>1, <2>2, <2>3, FateMoved DEF Fated
<1> HIDE DEF T
<1>6. \A i \in DOMAIN transcript :
         transcript[i].origin = "next-turn" /\ transcript[i].turn = turn => step # 0
  BY <1>1 DEF Fated, TurnInv, InTurn
<1>7. \A i, j \in DOMAIN batch :
         batch[i].origin = "next-turn" => /\ step = 0
                                          /\ batch[j].origin = "next-turn" => i = j
  BY DEF Fated, TurnInv
<1>8. ASSUME NEW i \in DOMAIN T, NEW j \in DOMAIN T,
             T[i].origin = "next-turn", T[j].origin = "next-turn", T[i].turn = T[j].turn
      PROVE  i = j /\ T[i].step = 1
  <2>1. i \in Nat /\ j \in Nat  BY <1>2
  <2>2. CASE i \in DOMAIN transcript /\ j \in DOMAIN transcript
    <3>1. T[i] = transcript[i] /\ T[j] = transcript[j]  BY <1>2, <2>1, <2>2
    <3> QED  BY <1>8, <2>2, <3>1 DEF Fated, TurnInv, OwnTurn
  <2>3. CASE i \in DOMAIN transcript /\ j \notin DOMAIN transcript
    BY <1>2, <1>6, <1>7, <1>8, <2>1, <2>3
  <2>4. CASE i \notin DOMAIN transcript /\ j \in DOMAIN transcript
    BY <1>2, <1>6, <1>7, <1>8, <2>1, <2>4
  <2>5. CASE i \notin DOMAIN transcript /\ j \notin DOMAIN transcript
    <3>1. /\ i - a \in DOMAIN batch /\ j - a \in DOMAIN batch
          /\ batch[i - a].origin = "next-turn" /\ batch[j - a].origin = "next-turn"
          /\ T[i].step = step + 1
      BY <1>2, <1>8, <2>1, <2>5
    <3>2. i - a = j - a /\ step = 0  BY <1>7, <3>1
    <3> QED  BY <1>2, <2>1, <3>1, <3>2
  <2> QED  BY <2>2, <2>3, <2>4, <2>5
<1>9. \A i \in DOMAIN T : T[i].turn <= turn
  BY <1>1, <1>2 DEF Fated, TurnInv
<1>10. TurnInv'
  <2>1. OwnTurn'  BY <1>8 DEF OwnTurn, T
  <2>2. DOMAIN batch' = {} /\ step' # 0  BY <1>1, <1>3
  <2>3. \A i \in DOMAIN transcript' : transcript'[i].turn <= turn'  BY <1>3, <1>9 DEF T
  <2> QED  BY <2>1, <2>2, <2>3 DEF TurnInv
<1> QED
  BY <1>0, <1>4, <1>5, <1>10 DEF Fated

(* A sequence followed by one more element.                                *)
LEMMA OneMore ==
  ASSUME NEW R, NEW s \in Seq(R), NEW x \in R, NEW t, t = s \o <<x>>
  PROVE  /\ t \in Seq(R) /\ Len(s) \in Nat /\ Len(t) = Len(s) + 1
         /\ DOMAIN t = 1 .. Len(s) + 1
         /\ t[Len(s) + 1] = x
         /\ \A i \in 1 .. Len(s) : t[i] = s[i]
<1>1. <<x>> \in Seq(R) /\ Len(<<x>>) = 1 /\ <<x>>[1] = x /\ Len(s) \in Nat
  OBVIOUS
<1>2. /\ t \in Seq(R) /\ Len(t) = Len(s) + 1
      /\ \A i \in 1 .. Len(s) + 1 : t[i] = IF i <= Len(s) THEN s[i] ELSE <<x>>[i - Len(s)]
  <2> DEFINE y == <<x>>
  <2>1. y \in Seq(R) /\ Len(y) = 1 /\ t = s \o y  BY <1>1
  <2> HIDE DEF y
  <2>2. /\ t \in Seq(R) /\ Len(t) = Len(s) + Len(y)
        /\ \A i \in 1 .. Len(s) + Len(y) : t[i] = IF i <= Len(s) THEN s[i] ELSE y[i - Len(s)]
    BY <2>1, ConcatProperties
  <2> QED  BY <2>1, <2>2 DEF y
<1>3. t[Len(s) + 1] = x
  <2>1. PICK k \in 1 .. Len(s) + 1 : k = Len(s) + 1  BY <1>1
  <2>2. ~(k <= Len(s)) /\ k - Len(s) = 1  BY <1>1, <2>1
  <2>3. t[k] = <<x>>[1]  BY <1>2, <2>2
  <2> QED  BY <1>1, <2>1, <2>3
<1>4. DOMAIN t = 1 .. Len(s) + 1
  BY <1>2
<1>5. ASSUME NEW i \in 1 .. Len(s) PROVE t[i] = s[i]
  <2>1. i \in 1 .. Len(s) + 1 /\ i <= Len(s)  BY <1>1
  <2> QED  BY <1>2, <2>1
<1> QED
  BY <1>1, <1>2, <1>3, <1>4, <1>5

(* Input taken from a list keeps its order and names where it came from.   *)
LEMMA SentFacts ==
  ASSUME NEW list \in Seq(Message)
  PROVE  /\ SentFrom("next-step", list) \in Seq(Claimed)
         /\ Len(list) \in Nat /\ DOMAIN list = 1 .. Len(list)
         /\ Len(SentFrom("next-step", list)) = Len(list)
         /\ \A i \in 1 .. Len(list) :
              /\ SentFrom("next-step", list)[i].message = list[i]
              /\ SentFrom("next-step", list)[i].origin = "next-step"
<1> DEFINE a == SentFrom("next-step", list)
           n == Len(list)
<1>1. n \in Nat /\ DOMAIN list = 1 .. n /\ \A i \in 1 .. n : list[i] \in Message
  OBVIOUS
<1>2. a = [i \in 1 .. n |-> [message |-> list[i], origin |-> "next-step"]]
  BY <1>1 DEF SentFrom
<1>3. \A i \in 1 .. n : [message |-> list[i], origin |-> "next-step"] \in Claimed
  BY <1>1 DEF Claimed
<1> HIDE DEF a
<1>4. a \in [1 .. n -> Claimed]  BY <1>2, <1>3
<1>5. a \in Seq(Claimed)  BY <1>1, <1>4, SeqDef
<1>6. Len(a) = n
  <2>1. DOMAIN a = 1 .. Len(a) /\ Len(a) \in Nat  BY <1>5
  <2> QED  BY <1>1, <1>4, <2>1
<1>7. ASSUME NEW i \in 1 .. n PROVE a[i].message = list[i] /\ a[i].origin = "next-step"
  <2>1. a[i] = [message |-> list[i], origin |-> "next-step"]  BY <1>2
  <2> QED  BY <2>1
<1> QED
  BY <1>1, <1>5, <1>6, <1>7 DEF a

(* A batch of the steering in list followed by one prompt.                 *)
SteeringThen(claimed, list, item) ==
  \A i \in DOMAIN claimed :
    \/ i \in DOMAIN list /\ claimed[i].message = list[i] /\ claimed[i].origin = "next-step"
    \/ i = Len(list) + 1 /\ claimed[i].message = item.message /\ claimed[i].origin = "next-turn"

(* The batch that is claimed: the steering, then at a first boundary one   *)
(* prompt.                                                                 *)
LEMMA ClaimedFacts ==
  ASSUME NEW list \in Seq(Message), NEW item \in Claimed, item.origin = "next-turn",
         NEW steering, steering = SentFrom("next-step", list),
         NEW claimed, claimed = steering \o <<item>>
  PROVE  /\ claimed \in Seq(Claimed)
         /\ SteeringThen(claimed, list, item)
         /\ Messages(claimed) = Elems(list) \cup {item.message}
<1> DEFINE a == steering
           n == Len(list)
           head == item.message
<1>1. /\ n \in Nat /\ DOMAIN list = 1 .. n
      /\ a \in Seq(Claimed) /\ Len(a) = n
      /\ \A i \in 1 .. n : a[i].message = list[i] /\ a[i].origin = "next-step"
  BY SentFacts
<1>2. item \in Claimed /\ item.message = head /\ item.origin = "next-turn"
  OBVIOUS
<1>4. claimed = a \o <<item>>
  OBVIOUS
<1> HIDE DEF a, head
<1>5. /\ claimed \in Seq(Claimed) /\ DOMAIN claimed = 1 .. Len(a) + 1
      /\ claimed[Len(a) + 1] = item /\ \A i \in 1 .. Len(a) : claimed[i] = a[i]
  BY ONLY <1>1, <1>2, <1>4, OneMore
<1>6. DOMAIN claimed = 1 .. n + 1 /\ claimed[n + 1] = item /\ \A i \in 1 .. n : claimed[i] = a[i]
  BY ONLY <1>1, <1>5
<1> HIDE DEF n
<1>7. ASSUME NEW i \in DOMAIN claimed
      PROVE  \/ i \in DOMAIN list /\ claimed[i].message = list[i] /\ claimed[i].origin = "next-step"
             \/ i = n + 1 /\ claimed[i].message = head /\ claimed[i].origin = "next-turn"
  <2>1. i \in 1 .. n \/ i = n + 1  BY ONLY <1>1, <1>6, i \in DOMAIN claimed
  <2>2. CASE i \in 1 .. n  BY ONLY <1>1, <1>6, <2>2
  <2>3. CASE i = n + 1  BY ONLY <1>2, <1>6, <2>3
  <2> QED  BY <2>1, <2>2, <2>3
<1>8. Messages(claimed) = Elems(list) \cup {head}
  <2>1. \A i \in DOMAIN claimed : claimed[i].message \in Elems(list) \cup {head}
    BY ONLY <1>7 DEF Elems
  <2>2. ASSUME NEW i \in 1 .. n PROVE list[i] \in Messages(claimed)
    <3>1. i \in DOMAIN claimed  BY ONLY <1>1, <1>6, i \in 1 .. n
    <3>2. claimed[i].message = list[i]  BY ONLY <1>1, <1>6, i \in 1 .. n
    <3> QED  BY ONLY <3>1, <3>2 DEF Messages
  <2>3. head \in Messages(claimed)
    <3>1. n + 1 \in DOMAIN claimed  BY ONLY <1>1, <1>6
    <3>2. claimed[n + 1].message = head  BY ONLY <1>2, <1>6
    <3> QED  BY ONLY <3>1, <3>2 DEF Messages
  <2> QED  BY ONLY <1>1, <2>1, <2>2, <2>3 DEF Messages, Elems
<1> QED
  BY ONLY <1>5, <1>7, <1>8 DEF n, head, SteeringThen

(* What claiming moves: the whole of nextStep and at most one prompt.      *)
LEMMA ClaimFates ==
  ASSUME IInv, IInv', Fated, Claim
  PROVE  Fated'
<1> DEFINE takes == step = 0 /\ nextTurn # <<>>
           S == Elems(nextStep) \cup (IF takes THEN {Head(nextTurn)} ELSE {})
<1>1. /\ UNCHANGED <<transcript, discarded, refused, waking, used, decision, turnEnds,
                     replayFrame, watching, turn, step>>
      /\ pc \in InTurn /\ batch = <<>> /\ nextStep' = <<>>
      /\ nextTurn' = IF takes THEN Tail(nextTurn) ELSE nextTurn
  BY DEF Claim, At, InTurn, QueueAfterClaim, FirstBoundary, IInv, BatchInv, fateVars, waitVars
<1>2. nextTurn \in Seq(Message) /\ nextStep \in Seq(Message)
      /\ Increasing(nextTurn) /\ Increasing(nextStep)
  BY DEF Fated, DataOK, OrderInv
<1>3. batch' = SentFrom("next-step", nextStep) \o
                 IF takes THEN SentFrom("next-turn", <<Head(nextTurn)>>) ELSE <<>>
  BY DEF Claim, ClaimedBatch, FirstBoundary
<1>4. takes => Head(nextTurn) \in Message
  BY <1>2, TailFacts
<1>5. /\ Len(nextStep) \in Nat /\ DOMAIN nextStep = 1 .. Len(nextStep)
      /\ batch' \in Seq(Claimed)
      /\ \A i \in DOMAIN batch' :
           \/ /\ i \in DOMAIN nextStep /\ batch'[i].message = nextStep[i]
              /\ batch'[i].origin = "next-step"
           \/ /\ i = Len(nextStep) + 1 /\ takes
              /\ batch'[i].message = Head(nextTurn) /\ batch'[i].origin = "next-turn"
      /\ Messages(batch') = S
  <2> HIDE DEF takes
  <2>1. Len(nextStep) \in Nat /\ DOMAIN nextStep = 1 .. Len(nextStep)
    BY <1>2
  <2>2. CASE takes
    <3>1. batch' = SentFrom("next-step", nextStep) \o SentFrom("next-turn", <<Head(nextTurn)>>)
      BY <1>3, <2>2
    <3>2. Head(nextTurn) \in Message /\ nextStep \in Seq(Message)  BY <1>2, <1>4, <2>2
    <3>3. /\ batch' \in Seq(Claimed)
          /\ \A i \in DOMAIN batch' :
               \/ /\ i \in DOMAIN nextStep /\ batch'[i].message = nextStep[i]
                  /\ batch'[i].origin = "next-step"
               \/ /\ i = Len(nextStep) + 1
                  /\ batch'[i].message = Head(nextTurn) /\ batch'[i].origin = "next-turn"
          /\ Messages(batch') = Elems(nextStep) \cup {Head(nextTurn)}
      <4> DEFINE item == [message |-> Head(nextTurn), origin |-> "next-turn"]
                 steering == SentFrom("next-step", nextStep)
                 claimed == batch'
      <4>1. item \in Claimed /\ item.message = Head(nextTurn) /\ item.origin = "next-turn"
        BY <3>2 DEF Claimed
      <4>2. SentFrom("next-turn", <<Head(nextTurn)>>) = <<item>>
        <5>1. SentFrom("next-turn", <<Head(nextTurn)>>) = [i \in 1 .. 1 |-> item]
          BY DEF SentFrom
        <5>2. [i \in 1 .. 1 |-> item] = <<item>>  OBVIOUS
        <5> QED  BY <5>1, <5>2
      <4>3. nextStep \in Seq(Message) /\ steering = SentFrom("next-step", nextStep)
        BY <3>2
      <4>4. claimed = steering \o <<item>>
        BY <3>1, <4>2
      <4> HIDE DEF item, steering, claimed
      <4>5. /\ claimed \in Seq(Claimed)
            /\ \A i \in DOMAIN claimed :
                 \/ /\ i \in DOMAIN nextStep /\ claimed[i].message = nextStep[i]
                    /\ claimed[i].origin = "next-step"
                 \/ /\ i = Len(nextStep) + 1
                    /\ claimed[i].message = item.message /\ claimed[i].origin = "next-turn"
            /\ Messages(claimed) = Elems(nextStep) \cup {item.message}
        <5>1. claimed \in Seq(Claimed)  BY ONLY <4>1, <4>3, <4>4, ClaimedFacts
        <5>2. Messages(claimed) = Elems(nextStep) \cup {item.message}
          BY ONLY <4>1, <4>3, <4>4, ClaimedFacts
        <5>3. SteeringThen(claimed, nextStep, item)
          BY ONLY <4>1, <4>3, <4>4, ClaimedFacts
        <5> QED  BY ONLY <5>1, <5>2, <5>3 DEF SteeringThen
      <4> QED  BY <4>1, <4>5 DEF claimed
    <3> QED  BY <2>1, <2>2, <3>3
  <2>3. CASE ~takes
    <3> DEFINE sent == SentFrom("next-step", nextStep)
    <3>1. batch' = sent \o <<>>  BY <1>3, <2>3
    <3>2. /\ sent \in Seq(Claimed) /\ Len(sent) = Len(nextStep)
          /\ \A i \in 1 .. Len(nextStep) :
               sent[i].message = nextStep[i] /\ sent[i].origin = "next-step"
      BY <1>2, SentFacts
    <3> HIDE DEF sent
    <3>3. batch' = sent  BY ONLY <3>1, <3>2, ConcatEmptySeq
    <3>4. DOMAIN sent = 1 .. Len(nextStep)  BY <3>2
    <3>5. Messages(sent) = Elems(nextStep)  BY <2>1, <3>2, <3>4 DEF Messages, Elems
    <3> QED  BY <2>1, <2>3, <3>2, <3>3, <3>4, <3>5
  <2> QED  BY <2>2, <2>3
<1>6. takes => /\ Tail(nextTurn) \in Seq(Message) /\ Head(nextTurn) \in Elems(nextTurn)
               /\ Elems(Tail(nextTurn)) = Elems(nextTurn) \ {Head(nextTurn)}
               /\ Increasing(Tail(nextTurn))
               /\ \A j \in DOMAIN Tail(nextTurn) : Head(nextTurn) < Tail(nextTurn)[j]
  BY <1>2, TailFacts
<1>7. /\ nextTurn' \in Seq(Message) /\ Increasing(nextTurn')
      /\ Elems(nextTurn') = Elems(nextTurn) \ (IF takes THEN {Head(nextTurn)} ELSE {})
      /\ takes => \A j \in DOMAIN nextTurn' : Head(nextTurn) < nextTurn'[j]
  BY <1>1, <1>2, <1>6
<1>8. Elems(nextTurn) \cap Elems(nextStep) = {}
  BY FateFacts, PlacesAre DEF Fated, Fates
<1> HIDE DEF S, takes
<1>9. DataOK'
  <2>1. nextStep' \in Seq(Message)  BY <1>1, EmptySeq
  <2> QED  BY <1>1, <1>5, <1>7, <2>1 DEF Fated, DataOK
<1>10. FateInv'
  <2>1. S \in SUBSET (1 .. used.messages)
        /\ \A q \in Fates \ {"nextTurn", "nextStep"} : Place(q) \cap S = {}
    <3>1. S \subseteq Elems(nextTurn) \cup Elems(nextStep)  BY <1>6 DEF S
    <3> QED  BY <3>1, FateFacts, PlacesAre DEF Fated, Fates
  <2>2. /\ Place("batch")' = Place("batch") \cup S
        /\ \A q \in Fates \ {"batch"} : Place(q)' = Place(q) \ S
    <3>1. Place("batch")' = S /\ Place("batch") = {}
      <4>1. Messages(batch) = {}  BY <1>1 DEF Messages
      <4>2. Messages(batch') = S  BY <1>5
      <4> QED  BY <4>1, <4>2, PlacesAre, PlacesBecome
    <3>2. Place("nextStep")' = {} /\ Place("nextStep") \subseteq S
      BY <1>1, PlacesAre, PlacesBecome DEF Elems, S
    <3>3. Place("nextTurn")' = Place("nextTurn") \ S
      BY <1>6, <1>7, <1>8, PlacesAre, PlacesBecome DEF S
    <3>4. \A q \in {"transcript", "refused", "discarded"} : Place(q)' = Place(q)
      BY <1>1, PlacesAre, PlacesBecome
    <3> QED  BY <2>1, <3>1, <3>2, <3>3, <3>4 DEF Fates
  <2>3. "batch" \in Fates  BY DEF Fates
  <2> QED  BY <1>1, <2>1, <2>2, <2>3, FateMoved DEF Fated
<1>11. OrderInv'
  <2>1. Increasing(nextTurn') /\ Increasing(nextStep')
    BY <1>1, <1>7 DEF Increasing
  <2>2. Ordered(transcript') /\ Distinct(transcript')
    BY <1>1 DEF Fated, OrderInv
  <2>3. DOMAIN batch' \subseteq Nat  BY <1>5
  <2>4. Ordered(batch')
    <3> SUFFICES ASSUME NEW i \in DOMAIN batch', NEW j \in DOMAIN batch', i < j,
                        batch'[i].origin = batch'[j].origin
                 PROVE  batch'[i].message < batch'[j].message
      BY DEF Ordered
    <3>1. i \in DOMAIN nextStep /\ j \in DOMAIN nextStep
          /\ batch'[i].message = nextStep[i] /\ batch'[j].message = nextStep[j]
      BY <1>5, <2>3
    <3> QED  BY <1>2, <3>1 DEF Increasing
  <2>5. Distinct(batch')
    <3> SUFFICES ASSUME NEW i \in DOMAIN batch', NEW j \in DOMAIN batch', i < j,
                        batch'[i].message = batch'[j].message
                 PROVE  FALSE
      BY <2>3 DEF Distinct
    <3>1. CASE j \in DOMAIN nextStep
      <4>1. i \in DOMAIN nextStep /\ batch'[i].message = nextStep[i] /\ batch'[j].message = nextStep[j]
        BY <1>5, <2>3, <3>1
      <4>2. nextStep[i] < nextStep[j]  BY <1>2, <3>1, <4>1 DEF Increasing
      <4>3. nextStep[i] \in Nat /\ nextStep[j] \in Nat  BY <1>2, <3>1, <4>1, MessageIsNat
      <4>4. nextStep[i] = nextStep[j]  BY <4>1
      <4> QED  BY ONLY <4>2, <4>3, <4>4
    <3>2. CASE j \notin DOMAIN nextStep
      <4>1. j = Len(nextStep) + 1 /\ takes /\ batch'[j].message = Head(nextTurn)
        BY <1>5, <3>2
      <4>2. i \in DOMAIN nextStep /\ batch'[i].message = nextStep[i]
        BY <1>5, <2>3, <4>1
      <4>3. nextStep[i] \in Elems(nextStep) /\ Head(nextTurn) \in Elems(nextTurn)
        BY <1>6, <4>1, <4>2 DEF Elems
      <4> QED  BY <1>8, <4>1, <4>2, <4>3
    <3> QED  BY <3>1, <3>2
  <2>6. ASSUME NEW i \in DOMAIN transcript, NEW j \in DOMAIN batch',
               transcript[i].origin = batch'[j].origin
        PROVE  transcript[i].message < batch'[j].message
    <3>1. CASE j \in DOMAIN nextStep
      <4>1. batch'[j].message = nextStep[j] /\ batch'[j].origin = "next-step"
        BY <1>5, <3>1
      <4> QED  BY <2>6, <3>1, <4>1 DEF Fated, OrderInv, Ahead
    <3>2. CASE j \notin DOMAIN nextStep
      <4>1. takes /\ batch'[j].message = Head(nextTurn) /\ batch'[j].origin = "next-turn"
        BY <1>5, <3>2
      <4>2. PICK k \in DOMAIN nextTurn : nextTurn[k] = Head(nextTurn)
        BY <1>6, <4>1 DEF Elems
      <4> QED  BY <2>6, <4>1, <4>2 DEF Fated, OrderInv, Ahead
    <3> QED  BY <3>1, <3>2
  <2>7. Ahead(batch', "next-turn", nextTurn')
    BY <1>5, <1>7 DEF Ahead
  <2>8. Ahead(batch', "next-step", nextStep') /\ Ahead(transcript', "next-step", nextStep')
    BY <1>1 DEF Ahead
  <2>9. Ahead(transcript', "next-turn", nextTurn')
    <3>1. Elems(nextTurn') \subseteq Elems(nextTurn)  BY <1>7
    <3> QED  BY <1>1, <3>1, AheadOfFewer DEF Fated, OrderInv
  <2> QED  BY <1>1, <2>1, <2>2, <2>4, <2>5, <2>6, <2>7, <2>8, <2>9 DEF OrderInv
<1>12. TurnInv'
  <2>1. \A i, j \in DOMAIN batch' :
           batch'[i].origin = "next-turn" => /\ step = 0
                                             /\ batch'[j].origin = "next-turn" => i = j
    BY <1>5 DEF takes
  <2> QED  BY <1>1, <2>1 DEF Fated, TurnInv, OwnTurn
<1> QED
  BY <1>9, <1>10, <1>11, <1>12 DEF Fated

-----------------------------------------------------------------------------
(* Every step of the specification keeps each message in one place.        *)
LEMMA FatedNext == IInv /\ IInv' /\ Fated /\ [Next]_vars => Fated'
<1> SUFFICES ASSUME IInv, IInv', Fated, [Next]_vars PROVE Fated'
  OBVIOUS
<1>1. CASE Driver
  BY <1>1, QuietDriver, QuietOthers, ClaimFates, DropClaimedFates, DecideFates,
     StepStartFates, ThrowFates DEF Driver
<1>2. CASE Caller
  BY <1>2, SendFates, RemoveFates, CallerCancelFates, QuietOthers DEF Caller
<1>3. CASE AcceptContext
  BY <1>3, AcceptContextFates
<1>4. CASE Wake \/ WhenIdle \/ MaintenanceSettles \/ UNCHANGED vars
  BY <1>4, QuietOthers
<1> QED
  BY <1>1, <1>2, <1>3, <1>4 DEF Next

(* Every reachable state has each message in one place and in order.       *)
THEOREM FatedAlways == Spec => []Fated
  BY FateInit, FatedNext, Invariance, PTL DEF Spec

(* Every variable keeps its type: the inbox, the batch and the transcript  *)
(* only ever hold messages that were sent.                                 *)
THEOREM TypeOKAlways == Spec => []TypeOK
<1>1. IInv /\ Fated => TypeOK
  BY TypesComplete DEF Fated
<1> QED
  BY <1>1, Invariance, FatedAlways, PTL

(* followup: "the item becomes the sole ordinary message of its own turn"  *)
(* and opens it, whatever cancels, failures and re-targeted wakes          *)
(* intervene.                                                              *)
THEOREM OwnTurnAlways == Spec => []OwnTurn
<1>1. Fated => OwnTurn
  BY DEF Fated, TurnInv
<1> QED
  BY <1>1, FatedAlways, PTL

(* Within each list, messages reach the transcript in the order they were  *)
(* sent.                                                                   *)
THEOREM InOrderAlways == Spec => []InOrder
<1>1. Fated => InOrder
  BY DEF Fated, OrderInv, Ordered, InOrder
<1> QED
  BY <1>1, FatedAlways, PTL

-----------------------------------------------------------------------------
(* From one place to one copy.                                             *)

(* A list in order holds a message once or not at all.                     *)
LEMMA CopiesInList ==
  ASSUME NEW s \in Seq(Message), Increasing(s), NEW m
  PROVE  Cardinality({i \in DOMAIN s : s[i] = m}) = IF m \in Elems(s) THEN 1 ELSE 0
<1>1. ASSUME NEW i \in DOMAIN s, NEW j \in DOMAIN s, s[i] = s[j] PROVE i = j
  <2>1. i \in Nat /\ j \in Nat  OBVIOUS
  <2>2. s[i] \in Nat /\ s[j] \in Nat  BY MessageIsNat
  <2>3. ~(i < j) /\ ~(j < i)  BY <1>1, <2>2 DEF Increasing
  <2> QED  BY <2>1, <2>3
<1>2. CASE m \in Elems(s)
  <2>1. PICK i \in DOMAIN s : s[i] = m  BY <1>2 DEF Elems
  <2>2. {j \in DOMAIN s : s[j] = m} = {i}  BY <1>1, <2>1
  <2> QED  BY <1>2, <2>2, FS_Singleton
<1>3. CASE m \notin Elems(s)
  <2>1. {j \in DOMAIN s : s[j] = m} = {}  BY <1>3 DEF Elems
  <2> QED  BY <1>3, <2>1, FS_EmptySet
<1> QED
  BY <1>2, <1>3

(* So does a sequence of items without repetition.                         *)
LEMMA CopiesInItems ==
  ASSUME NEW s, Distinct(s), NEW m
  PROVE  Cardinality({i \in DOMAIN s : s[i].message = m}) = IF m \in Messages(s) THEN 1 ELSE 0
<1>1. CASE m \in Messages(s)
  <2>1. PICK i \in DOMAIN s : s[i].message = m  BY <1>1 DEF Messages
  <2>2. {j \in DOMAIN s : s[j].message = m} = {i}  BY <2>1 DEF Distinct
  <2> QED  BY <1>1, <2>2, FS_Singleton
<1>2. CASE m \notin Messages(s)
  <2>1. {j \in DOMAIN s : s[j].message = m} = {}  BY <1>2 DEF Messages
  <2> QED  BY <1>2, <2>1, FS_EmptySet
<1> QED
  BY <1>1, <1>2

(* A message is discarded or refused, not both.                            *)
LEMMA CopiesGivenUp ==
  ASSUME NEW m, discarded \cap refused = {}
  PROVE  Cardinality({fate \in {discarded, refused} : m \in fate}) =
           IF m \in discarded \cup refused THEN 1 ELSE 0
<1> DEFINE G == {fate \in {discarded, refused} : m \in fate}
<1>1. CASE m \in discarded
  <2>1. G = {discarded}  BY <1>1
  <2> QED  BY <1>1, <2>1, FS_Singleton
<1>2. CASE m \in refused
  <2>1. G = {refused}  BY <1>2
  <2> QED  BY <1>2, <2>1, FS_Singleton
<1>3. CASE m \notin discarded /\ m \notin refused
  <2>1. G = {}  BY <1>3
  <2> QED  BY <1>3, <2>1, FS_EmptySet
<1> QED
  BY <1>1, <1>2, <1>3

(* A message in one place has one copy; one that was never sent has none.  *)
LEMMA OnePlaceIsOneCopy == Fated => EveryMessageHasOneFate
<1> SUFFICES ASSUME Fated, NEW m \in Message
             PROVE  Copies(m) = IF m <= used.messages THEN 1 ELSE 0
  BY DEF EveryMessageHasOneFate
<1>1. /\ nextTurn \in Seq(Message) /\ nextStep \in Seq(Message)
      /\ Increasing(nextTurn) /\ Increasing(nextStep)
      /\ Distinct(batch) /\ Distinct(transcript)
      /\ used.messages \in Nat /\ m \in Nat /\ m >= 1
  BY BoundsAssumption DEF Fated, DataOK, OrderInv, Message
<1>2. /\ \A p, q \in Fates : p # q => ~(m \in Place(p) /\ m \in Place(q))
      /\ (\E p \in Fates : m \in Place(p)) <=> m <= used.messages
  <2>1. /\ \A p, q \in Fates : p # q => Place(p) \cap Place(q) = {}
        /\ \A p \in Fates : Place(p) \subseteq 1 .. used.messages
        /\ \A k \in 1 .. used.messages : \E p \in Fates : k \in Place(p)
    BY FateFacts DEF Fated
  <2> QED  BY <1>1, <2>1
<1>3. Place("discarded") \cap Place("refused") = {}
  BY FateFacts DEF Fated, Fates
<1> DEFINE In(p) == IF m \in Place(p) THEN 1 ELSE 0
           gone == IF m \in Place("discarded") \cup Place("refused") THEN 1 ELSE 0
<1>4. Copies(m) = In("nextTurn") + In("nextStep") + In("batch") + In("transcript") + gone
  <2>1. Cardinality({i \in DOMAIN nextTurn : nextTurn[i] = m}) = In("nextTurn")
    BY <1>1, CopiesInList, PlacesAre
  <2>2. Cardinality({i \in DOMAIN nextStep : nextStep[i] = m}) = In("nextStep")
    BY <1>1, CopiesInList, PlacesAre
  <2>3. Cardinality({i \in DOMAIN batch : batch[i].message = m}) = In("batch")
    BY <1>1, CopiesInItems, PlacesAre
  <2>4. Cardinality({i \in DOMAIN transcript : transcript[i].message = m}) = In("transcript")
    BY <1>1, CopiesInItems, PlacesAre
  <2>5. Cardinality({fate \in {discarded, refused} : m \in fate}) = gone
    BY <1>3, CopiesGivenUp, PlacesAre
  <2> HIDE DEF In, gone
  <2> QED  BY <2>1, <2>2, <2>3, <2>4, <2>5 DEF Copies
<1>5. In("nextTurn") + In("nextStep") + In("batch") + In("transcript") + gone
        = IF m <= used.messages THEN 1 ELSE 0
  BY <1>1, <1>2 DEF Fates
<1> QED
  BY <1>4, <1>5

(* A message is delivered exactly once or not at all: none is lost or      *)
(* duplicated by a cancel, a removal, a refusal or a failure.              *)
THEOREM EveryMessageHasOneFateAlways == Spec => []EveryMessageHasOneFate
  BY OnePlaceIsOneCopy, FatedAlways, PTL
=============================================================================

------------------------- MODULE WriteBehind_proofs -------------------------
(***************************************************************************)
(* What the write-behind queue guarantees for every number of flush calls, *)
(* events and failures: the inductive invariant that ties the queue to the *)
(* write in progress, the barrier, the pause and the store, the properties *)
(* that follow from it, the step simulation of DurableLog and what it      *)
(* brings: the promise of DurableLog, kept by the queue.                   *)
(***************************************************************************)
EXTENDS WriteBehind, FiniteSetTheorems, SequenceTheorems, TLAPS

-----------------------------------------------------------------------------
(* The inductive invariant.                                                *)

(* A write, the barrier that waits for it and the initialization both need *)
(* agree.                                                                  *)
ControlInv ==
  /\ active = "none" <=> write = "none"
  /\ write = "writing" <=> batch # <<>>
  /\ barrier = "writing" <=> active = "barrier"
  /\ barrier = "overlapping" => active = "background"
  /\ barrier \in {"overlapped", "written", "failed"} => active = "none"
  /\ continuation => active # "background"
  /\ barrier # "none" => init = "ready"

(* A pause begins with a failed write and outlives the barrier it failed.  *)
PauseInv ==
  /\ automaticPaused \/ write = "failed" => ~deadlineExpired
  /\ barrier = "written" => ~automaticPaused
  /\ barrier = "writing" => (automaticPaused <=> write = "failed")
  /\ barrier = "failed" => automaticPaused

(* How many of the session's events left the queue.                        *)
Taken == accepted - Len(pending) - Len(batch)

(* Position by position, the batch and then the queue hold the newest      *)
(* events.                                                                 *)
QueueInv ==
  /\ Len(pending) + Len(batch) <= accepted
  /\ \A k \in 1 .. Len(batch) : batch[k] = Taken + k
  /\ \A k \in 1 .. Len(pending) : pending[k] = Taken + Len(batch) + k
  /\ Taken <= Len(stored) \/ (init # "ready" /\ Taken <= SeedEvents)

(* The store holds a prefix.                                               *)
StoreInv ==
  /\ SeedEvents <= accepted
  /\ Len(stored) <= accepted
  /\ init = "pending" => Len(stored) <= SeedEvents
  /\ \A k \in 1 .. Len(stored) : stored[k] = k

(* A flush waits for an open barrier, and a retired session stays drained. *)
FlushInv ==
  /\ \A f \in Flush : flushState[f] = "joined" => barrier # "none"
  /\ \A f \in Flush : mark[f] <= accepted
  /\ flushState[Retirement] = "idle" <=> ~closed
  /\ flushState[Retirement] = "resolved" =>
       pending = <<>> /\ active = "none" /\ init = "ready"
  /\ released => flushState[Retirement] = "resolved"

IInv ==
  /\ TypeOK /\ ControlInv /\ AutomaticPathIsQuiet /\ PauseInv /\ NeverStranded
  /\ QueueInv /\ StoreInv /\ FlushInv
-----------------------------------------------------------------------------
(* The queue and the store.                                                *)

(* What an action leaves alone stays as it was.                            *)
LEMMA QueueKept ==
  ASSUME QueueInv, StoreInv, UNCHANGED <<accepted, stored, init, pending, batch>>
  PROVE  QueueInv' /\ StoreInv'
BY DEF QueueInv, StoreInv, Taken

(* Starting a write moves the whole queue into the batch.                  *)
LEMMA QueueMoved ==
  ASSUME TypeOK, QueueInv, StoreInv, batch = <<>>, batch' = pending, pending' = <<>>,
         UNCHANGED <<accepted, stored, init>>
  PROVE  QueueInv' /\ StoreInv'
<1>1. Len(batch) = 0 /\ Len(pending') = 0 /\ Len(pending) \in Nat
  BY DEF TypeOK
<1>2. Taken' = Taken  BY <1>1 DEF Taken, TypeOK
<1>3. \A k \in 1 .. Len(batch') : batch'[k] = Taken' + k
  <2>1. \A k \in 1 .. Len(pending) : pending[k] = Taken + Len(batch) + k
    BY DEF QueueInv
  <2>2. Taken \in Int  BY <1>1 DEF Taken, TypeOK
  <2>3. QED  BY <1>1, <1>2, <2>1, <2>2
<1>4. QueueInv'  BY <1>1, <1>2, <1>3 DEF QueueInv
<1>5. StoreInv'  BY DEF StoreInv
<1>6. QED  BY <1>4, <1>5

(* A new event goes behind the newest one.                                 *)
LEMMA QueueGrows ==
  ASSUME TypeOK, QueueInv, StoreInv, accepted' = accepted + 1,
         pending' = Append(pending, accepted + 1), UNCHANGED <<stored, init, batch>>
  PROVE  QueueInv' /\ StoreInv'
<1>1. /\ Len(pending') = Len(pending) + 1
      /\ Len(pending) \in Nat /\ Len(batch) \in Nat /\ accepted \in Nat
      /\ Len(stored) \in Nat
  BY DEF TypeOK
<1>2. Taken' = Taken  BY <1>1 DEF Taken
<1>3. ASSUME NEW k \in 1 .. Len(pending')
      PROVE  pending'[k] = Taken + Len(batch) + k
  <2>1. CASE k = Len(pending) + 1
    BY <1>1, <2>1 DEF TypeOK, Taken
  <2>2. CASE k # Len(pending) + 1
    <3>1. k \in 1 .. Len(pending)  BY <1>1, <2>2
    <3>2. pending'[k] = pending[k]  BY <3>1 DEF TypeOK
    <3>3. QED  BY <3>1, <3>2 DEF QueueInv
  <2>3. QED  BY <2>1, <2>2
<1>4. QueueInv'  BY <1>1, <1>2, <1>3 DEF QueueInv
<1>5. StoreInv'  BY <1>1, EventsAssumption DEF StoreInv
<1>6. QED  BY <1>4, <1>5

(* A failed batch returns in front of what arrived meanwhile.              *)
LEMMA QueueRetained ==
  ASSUME TypeOK, QueueInv, StoreInv, pending' = batch \o pending, batch' = <<>>,
         UNCHANGED <<accepted, stored, init>>
  PROVE  QueueInv' /\ StoreInv'
<1>1. /\ Len(pending') = Len(batch) + Len(pending) /\ Len(batch') = 0
      /\ Len(pending) \in Nat /\ Len(batch) \in Nat /\ accepted \in Nat
  BY DEF TypeOK
<1>2. Taken' = Taken  BY <1>1 DEF Taken
<1>3. ASSUME NEW k \in 1 .. Len(pending') PROVE pending'[k] = Taken + k
  <2>1. CASE k <= Len(batch)
    <3>1. k \in 1 .. Len(batch)  BY <1>1, <2>1
    <3>2. pending'[k] = batch[k]  BY <3>1 DEF TypeOK
    <3>3. QED  BY <3>1, <3>2 DEF QueueInv
  <2>2. CASE k > Len(batch)
    <3>1. k - Len(batch) \in 1 .. Len(pending)  BY <1>1, <2>2
    <3>2. pending'[k] = pending[k - Len(batch)]  BY <1>1, <2>2, <3>1 DEF TypeOK
    <3>3. pending[k - Len(batch)] = Taken + Len(batch) + (k - Len(batch))
      BY <3>1 DEF QueueInv
    <3>4. QED  BY <1>1, <3>2, <3>3 DEF Taken
  <2>3. QED  BY <1>1, <2>1, <2>2
<1>4. QueueInv'
  <2>1. ASSUME NEW k \in 1 .. Len(pending') PROVE pending'[k] = Taken + Len(batch') + k
    BY <1>1, <1>3 DEF Taken
  <2>2. QED  BY <1>1, <1>2, <2>1 DEF QueueInv
<1>5. StoreInv'  BY DEF StoreInv
<1>6. QED  BY <1>4, <1>5

(* Initialization stores the seed.                                         *)
LEMMA SeedStored ==
  ASSUME TypeOK, QueueInv, StoreInv, init = "pending", init' = "ready",
         stored' = Run(1, SeedEvents), UNCHANGED <<accepted, pending, batch>>
  PROVE  QueueInv' /\ StoreInv'
<1>1. SeedEvents \in Nat /\ Len(stored) \in Nat /\ Taken \in Int
  BY EventsAssumption DEF TypeOK, Taken
<1>2. stored' = [k \in 1 .. SeedEvents |-> k]
  <2>1. 1 .. SeedEvents + 1 - 1 = 1 .. SeedEvents  BY <1>1
  <2>2. \A k \in 1 .. SeedEvents : 1 + k - 1 = k  BY <1>1
  <2>3. QED  BY <2>1, <2>2 DEF Run
<1>3. Len(stored') = SeedEvents  BY <1>1, <1>2
<1>4. Taken' = Taken  BY DEF Taken
<1>5. QueueInv'  BY <1>1, <1>3, <1>4 DEF QueueInv, StoreInv
<1>6. StoreInv'  BY <1>1, <1>2, <1>3 DEF StoreInv
<1>7. QED  BY <1>5, <1>6

(* The fresh part of a batch begins where the store ends and reaches the   *)
(* batch's end, if the store does not reach further.                       *)
LEMMA FreshIsTheRest ==
  ASSUME TypeOK, QueueInv, StoreInv, init = "ready", Contiguous
  PROVE  \E n \in Nat : /\ Fresh = [k \in 1 .. n |-> Len(stored) + k]
                        /\ Taken + Len(batch) <= Len(stored) + n
                        /\ Len(stored) + n <= accepted
<1> DEFINE a == Taken + 1
           b == Len(batch)
           c == Len(stored)
           first == c - Taken + 1
           kept == {i \in DOMAIN batch : batch[i] > c}
           n == Cardinality(kept)
<1>1. /\ b \in Nat /\ c \in Nat /\ Taken \in Nat /\ Len(pending) \in Nat
      /\ accepted \in Nat /\ DOMAIN batch = 1 .. b
  BY DEF TypeOK, Taken, QueueInv
<1>2. Taken <= c  BY DEF QueueInv
<1>3. kept = first .. b
  <2>1. \A i \in 1 .. b : batch[i] = Taken + i  BY DEF QueueInv
  <2>2. \A i \in 1 .. b : batch[i] > c <=> i >= first  BY <1>1, <2>1
  <2>3. first \in Nat /\ first >= 1  BY <1>1, <1>2
  <2>4. QED  BY <1>1, <2>2, <2>3
<1>4. n = IF first > b THEN 0 ELSE b - first + 1
  <2>1. first \in Int /\ b \in Int  BY <1>1
  <2>2. Cardinality(first .. b) = IF first > b THEN 0 ELSE b - first + 1
    BY <2>1, FS_Interval
  <2>3. QED  BY <1>3, <2>2
<1>5. n \in Nat /\ Taken + b <= c + n /\ (n = 0 \/ c + n = Taken + b)
  BY <1>1, <1>2, <1>4
<1>6. Fresh = [k \in 1 .. n |-> c + k]
  <2>1. DOMAIN Fresh = 1 .. n /\ Fresh = [k \in DOMAIN Fresh |-> Fresh[k]]
    BY DEF Fresh
  <2>2. \A k \in DOMAIN Fresh : Fresh[k] = c + k  BY DEF Contiguous
  <2>3. QED  BY <2>1, <2>2
<1>7. c + n <= accepted
  BY <1>1, <1>5 DEF StoreInv, QueueInv, Taken
<1>8. QED  BY <1>5, <1>6, <1>7

(* A written batch extends the stored prefix up to the batch's end.        *)
LEMMA BatchStored ==
  ASSUME TypeOK, QueueInv, StoreInv, init = "ready", Contiguous,
         stored' = stored \o Fresh, batch' = <<>>,
         UNCHANGED <<accepted, pending, init>>
  PROVE  QueueInv' /\ StoreInv' /\ stored' \in Seq(Event)
<1>1. PICK n \in Nat : /\ Fresh = [k \in 1 .. n |-> Len(stored) + k]
                       /\ Taken + Len(batch) <= Len(stored) + n
                       /\ Len(stored) + n <= accepted
  BY FreshIsTheRest
<1>2. /\ Len(batch) \in Nat /\ Len(stored) \in Nat /\ Len(pending) \in Nat
      /\ accepted \in Nat /\ accepted <= MaxEvents
  BY EventsAssumption DEF TypeOK
<1>3. Fresh \in Seq(Event) /\ Len(Fresh) = n
  BY <1>1, <1>2, EventsAssumption DEF Event
<1>4. stored' \in Seq(Event) /\ Len(stored') = Len(stored) + n
  <2>1. stored \in Seq(Event)  BY DEF TypeOK
  <2>2. QED  BY <1>3, <2>1, ConcatProperties
<1>5. ASSUME NEW k \in 1 .. Len(stored') PROVE stored'[k] = k
  <2>1. CASE k <= Len(stored)
    <3>1. stored'[k] = stored[k]  BY <1>2, <1>3, <2>1 DEF TypeOK
    <3>2. QED  BY <1>2, <2>1, <3>1 DEF StoreInv
  <2>2. CASE k > Len(stored)
    <3>1. k - Len(stored) \in 1 .. n  BY <1>2, <1>4, <2>2
    <3>2. stored'[k] = Fresh[k - Len(stored)]
      BY <1>2, <1>3, <1>4, <2>2, <3>1 DEF TypeOK
    <3>3. QED  BY <1>1, <1>2, <3>1, <3>2
  <2>3. QED  BY <1>2, <1>4, <2>1, <2>2
<1>6. StoreInv'  BY <1>1, <1>2, <1>4, <1>5 DEF StoreInv
<1>7. Len(batch') = 0 /\ Taken' = Taken + Len(batch)  BY <1>2 DEF Taken
<1>8. QueueInv'
  <2>1. \A k \in 1 .. Len(pending') : pending'[k] = Taken' + Len(batch') + k
    <3>1. \A k \in 1 .. Len(pending) : pending[k] = Taken + Len(batch) + k
      BY DEF QueueInv
    <3>2. Taken \in Int  BY <1>2 DEF Taken
    <3>3. QED  BY <1>2, <1>7, <3>1, <3>2
  <2>2. Len(pending') + Len(batch') <= accepted'  BY <1>2, <1>7 DEF QueueInv
  <2>3. Taken' <= Len(stored')  BY <1>1, <1>4, <1>7
  <2>4. QED  BY <1>7, <2>1, <2>2, <2>3 DEF QueueInv
<1>9. QED  BY <1>4, <1>6, <1>8

-----------------------------------------------------------------------------
(* One lemma per action.                                                   *)

(* A new event opens the window, unless a barrier will write it.           *)
LEMMA EnqueueInv ==
  ASSUME IInv, Enqueue
  PROVE  IInv'
<1> USE DEF Enqueue, Rearm, NextEvent, backendVars, queueVars, sessionVars, writeVars, flushVars
<1>1. QueueInv' /\ StoreInv'  BY QueueGrows DEF IInv
<1>2. TypeOK'
  <2>1. pending' \in Seq(Event) /\ batch' \in Seq(Event)
    BY EventsAssumption, ConcatProperties, EmptySeq DEF IInv, TypeOK, Event
  <2>2. /\ flushState' \in [Flush -> {"idle", "waiting", "joined", "resolved", "rejected"}]
        /\ mark' \in [Flush -> 0 .. MaxEvents]
        /\ stored' \in Seq(Event)
    BY DEF IInv, TypeOK
  <2>3. timer' \in BOOLEAN /\ deadlineExpired' \in BOOLEAN /\ automaticPaused' \in BOOLEAN
    BY DEF IInv, TypeOK
  <2>4. QED  BY <2>1, <2>2, <2>3, EventsAssumption DEF IInv, TypeOK
<1>3. ControlInv'  BY DEF IInv, TypeOK, ControlInv
<1>4. AutomaticPathIsQuiet' /\ PauseInv'
  BY DEF IInv, TypeOK, ControlInv, AutomaticPathIsQuiet, PauseInv
<1>5. NeverStranded'
  BY DEF IInv, TypeOK, ControlInv, AutomaticPathIsQuiet, PauseInv, NeverStranded
<1>6. FlushInv'
  BY DEF IInv, TypeOK, ControlInv, AutomaticPathIsQuiet, FlushInv
<1>7. QED  BY <1>1, <1>2, <1>3, <1>4, <1>5, <1>6 DEF IInv

(* The window ends: a write starts, or the one in progress is told.        *)
LEMMA DeadlineInv ==
  ASSUME IInv, Deadline
  PROVE  IInv'
<1> USE DEF Deadline, ExpiryRemembered, StartWrite, CancelAutomaticWait, JobQueued, backendVars, queueVars, sessionVars, writeVars, flushVars
<1>1. QueueInv' /\ StoreInv'  BY QueueKept, QueueMoved DEF IInv, ControlInv
<1>2. TypeOK'
  <2>1. pending' \in Seq(Event) /\ batch' \in Seq(Event)
    BY EventsAssumption, ConcatProperties, EmptySeq DEF IInv, TypeOK, Event
  <2>2. /\ flushState' \in [Flush -> {"idle", "waiting", "joined", "resolved", "rejected"}]
        /\ mark' \in [Flush -> 0 .. MaxEvents]
        /\ stored' \in Seq(Event)
    BY DEF IInv, TypeOK
  <2>3. timer' \in BOOLEAN /\ deadlineExpired' \in BOOLEAN /\ automaticPaused' \in BOOLEAN
    BY DEF IInv, TypeOK
  <2>4. QED  BY <2>1, <2>2, <2>3, EventsAssumption DEF IInv, TypeOK
<1>3. ControlInv'  BY DEF IInv, TypeOK, ControlInv, AutomaticPathIsQuiet
<1>4. AutomaticPathIsQuiet' /\ PauseInv'
  BY DEF IInv, TypeOK, ControlInv, AutomaticPathIsQuiet, PauseInv
<1>5. NeverStranded'
  BY DEF IInv, TypeOK, ControlInv, AutomaticPathIsQuiet, PauseInv, NeverStranded
<1>6. FlushInv'
  BY DEF IInv, TypeOK, ControlInv, AutomaticPathIsQuiet, FlushInv
<1>7. QED  BY <1>1, <1>2, <1>3, <1>4, <1>5, <1>6 DEF IInv

(* A background write is followed by the next, if its window has ended.    *)
LEMMA ContinueAutomaticInv ==
  ASSUME IInv, ContinueAutomatic
  PROVE  IInv'
<1> USE DEF ContinueAutomatic, StartWrite, CancelAutomaticWait, backendVars, queueVars, sessionVars, writeVars, flushVars
<1>1. QueueInv' /\ StoreInv'
  <2>1. CASE UNCHANGED <<pending, batch>>  BY <2>1, QueueKept DEF IInv
  <2>2. CASE ~UNCHANGED <<pending, batch>>
    <3>1. batch' = pending /\ pending' = <<>>  BY <2>2
    <3>2. batch = <<>>  BY <2>2 DEF IInv, TypeOK, ControlInv
    <3>3. QED  BY <3>1, <3>2, QueueMoved DEF IInv
  <2>3. QED  BY <2>1, <2>2
<1>2. TypeOK'
  <2>1. pending' \in Seq(Event) /\ batch' \in Seq(Event)
    BY EventsAssumption, ConcatProperties, EmptySeq DEF IInv, TypeOK, Event
  <2>2. /\ flushState' \in [Flush -> {"idle", "waiting", "joined", "resolved", "rejected"}]
        /\ mark' \in [Flush -> 0 .. MaxEvents]
        /\ stored' \in Seq(Event)
    BY DEF IInv, TypeOK
  <2>3. timer' \in BOOLEAN /\ deadlineExpired' \in BOOLEAN /\ automaticPaused' \in BOOLEAN
    BY DEF IInv, TypeOK
  <2>4. QED  BY <2>1, <2>2, <2>3, EventsAssumption DEF IInv, TypeOK
<1>3. ControlInv'  BY DEF IInv, TypeOK, ControlInv
<1>4. AutomaticPathIsQuiet' /\ PauseInv'
  BY DEF IInv, TypeOK, ControlInv, AutomaticPathIsQuiet, PauseInv
<1>5. NeverStranded'
  BY DEF IInv, TypeOK, ControlInv, AutomaticPathIsQuiet, PauseInv, NeverStranded
<1>6. FlushInv'
  BY DEF IInv, TypeOK, ControlInv, AutomaticPathIsQuiet, FlushInv
<1>7. QED  BY <1>1, <1>2, <1>3, <1>4, <1>5, <1>6 DEF IInv

(* Initialization stores the seed.                                         *)
LEMMA InitSucceedsInv ==
  ASSUME IInv, InitSucceeds
  PROVE  IInv'
<1> USE DEF InitSucceeds, backendVars, queueVars, sessionVars, writeVars, flushVars
<1>1. QueueInv' /\ StoreInv'  BY SeedStored DEF IInv
<1>2. TypeOK'
  <2>1. stored' \in Seq(Event)  BY EventsAssumption DEF Run, Event
  <2>2. QED  BY <2>1 DEF IInv, TypeOK
<1>3. ControlInv'  BY DEF IInv, TypeOK, ControlInv
<1>4. AutomaticPathIsQuiet' /\ PauseInv'
  BY DEF IInv, TypeOK, ControlInv, AutomaticPathIsQuiet, PauseInv
<1>5. NeverStranded'
  BY DEF IInv, TypeOK, ControlInv, AutomaticPathIsQuiet, PauseInv, NeverStranded
<1>6. FlushInv'
  BY DEF IInv, TypeOK, ControlInv, AutomaticPathIsQuiet, FlushInv
<1>7. QED  BY <1>1, <1>2, <1>3, <1>4, <1>5, <1>6 DEF IInv

(* A failed initialization leaves the queue to nobody.                     *)
LEMMA InitFailsInv ==
  ASSUME IInv, InitFails
  PROVE  IInv'
<1> USE DEF InitFails, backendVars, queueVars, sessionVars, writeVars, flushVars
<1>1. QueueInv' /\ StoreInv'  BY DEF IInv, QueueInv, StoreInv, Taken
<1>2. TypeOK'  BY DEF IInv, TypeOK
<1>3. ControlInv'  BY DEF IInv, TypeOK, ControlInv
<1>4. AutomaticPathIsQuiet' /\ PauseInv'
  BY DEF IInv, TypeOK, ControlInv, AutomaticPathIsQuiet, PauseInv
<1>5. NeverStranded'
  BY DEF IInv, TypeOK, ControlInv, AutomaticPathIsQuiet, PauseInv, NeverStranded
<1>6. FlushInv'
  BY DEF IInv, TypeOK, ControlInv, AutomaticPathIsQuiet, FlushInv
<1>7. QED  BY <1>1, <1>2, <1>3, <1>4, <1>5, <1>6 DEF IInv

(* A write that succeeds extends the store.                                *)
LEMMA WriteSucceedsInv ==
  ASSUME IInv, WriteSucceeds
  PROVE  IInv'
<1> USE DEF WriteSucceeds, backendVars, queueVars, sessionVars, writeVars, flushVars
<1>1. QueueInv' /\ StoreInv'  BY BatchStored DEF IInv
<1>2. TypeOK'  BY BatchStored DEF IInv, TypeOK
<1>3. ControlInv'  BY DEF IInv, TypeOK, ControlInv
<1>4. AutomaticPathIsQuiet' /\ PauseInv'
  BY DEF IInv, TypeOK, ControlInv, AutomaticPathIsQuiet, PauseInv
<1>5. NeverStranded'
  BY DEF IInv, TypeOK, ControlInv, AutomaticPathIsQuiet, PauseInv, NeverStranded
<1>6. FlushInv'
  BY DEF IInv, TypeOK, ControlInv, AutomaticPathIsQuiet, FlushInv
<1>7. QED  BY <1>1, <1>2, <1>3, <1>4, <1>5, <1>6 DEF IInv

(* A write that fails gives its events back and pauses the queue.          *)
LEMMA WriteFailsInv ==
  ASSUME IInv, WriteFails
  PROVE  IInv'
<1> USE DEF WriteFails, Retained, CancelAutomaticWait, backendVars, queueVars, sessionVars, writeVars, flushVars
<1>1. QueueInv' /\ StoreInv'  BY QueueRetained DEF IInv
<1>2. TypeOK'
  <2>1. pending' \in Seq(Event) /\ batch' \in Seq(Event)
    BY EventsAssumption, ConcatProperties, EmptySeq DEF IInv, TypeOK, Event
  <2>2. /\ flushState' \in [Flush -> {"idle", "waiting", "joined", "resolved", "rejected"}]
        /\ mark' \in [Flush -> 0 .. MaxEvents]
        /\ stored' \in Seq(Event)
    BY DEF IInv, TypeOK
  <2>3. timer' \in BOOLEAN /\ deadlineExpired' \in BOOLEAN /\ automaticPaused' \in BOOLEAN
    BY DEF IInv, TypeOK
  <2>4. QED  BY <2>1, <2>2, <2>3, EventsAssumption DEF IInv, TypeOK
<1>3. ControlInv'  BY DEF IInv, TypeOK, ControlInv
<1>4. AutomaticPathIsQuiet' /\ PauseInv'
  <2>1. pending' # <<>>
    BY ConcatEqualIffEmpty DEF IInv, TypeOK, ControlInv
  <2>2. QED  BY <2>1 DEF IInv, TypeOK, ControlInv, AutomaticPathIsQuiet, PauseInv
<1>5. NeverStranded'
  BY DEF IInv, TypeOK, ControlInv, AutomaticPathIsQuiet, PauseInv, NeverStranded
<1>6. FlushInv'
  BY DEF IInv, TypeOK, ControlInv, AutomaticPathIsQuiet, FlushInv
<1>7. QED  BY <1>1, <1>2, <1>3, <1>4, <1>5, <1>6 DEF IInv

(* Settling a write wakes the barrier or the automatic path.               *)
LEMMA WriteSettlesInv ==
  ASSUME IInv, WriteSettles
  PROVE  IInv'
<1> USE DEF WriteSettles, backendVars, queueVars, sessionVars, writeVars, flushVars
<1>1. QueueInv' /\ StoreInv'  BY QueueKept DEF IInv
<1>2. TypeOK'  BY DEF IInv, TypeOK
<1>3. ControlInv'  BY DEF IInv, TypeOK, ControlInv
<1>4. AutomaticPathIsQuiet' /\ PauseInv'
  BY DEF IInv, TypeOK, ControlInv, AutomaticPathIsQuiet, PauseInv
<1>5. NeverStranded'
  BY DEF IInv, TypeOK, ControlInv, AutomaticPathIsQuiet, PauseInv, NeverStranded
<1>6. FlushInv'
  BY DEF IInv, TypeOK, ControlInv, AutomaticPathIsQuiet, FlushInv
<1>7. QED  BY <1>1, <1>2, <1>3, <1>4, <1>5, <1>6 DEF IInv

(* A flush disarms the window and will write what it held.                 *)
LEMMA SessionFlushInv ==
  ASSUME NEW f \in Caller, IInv, SessionFlush(f)
  PROVE  IInv'
<1> USE DEF SessionFlush, CallFlush, CancelAutomaticWait, backendVars, queueVars, sessionVars, writeVars, flushVars
<1>1. QueueInv' /\ StoreInv'  BY QueueKept DEF IInv
<1>2. TypeOK'  BY DEF IInv, TypeOK
<1>3. ControlInv'  BY DEF IInv, TypeOK, ControlInv
<1>4. AutomaticPathIsQuiet' /\ PauseInv'
  BY DEF IInv, TypeOK, ControlInv, AutomaticPathIsQuiet, PauseInv
<1>5. NeverStranded'
  <2>1. f \in Flush /\ flushState'[f] = "waiting"  BY DEF IInv, TypeOK, Flush
  <2>2. QED  BY <2>1 DEF NeverStranded
<1>6. FlushInv'
  <2>1. f \in Flush /\ f # Retirement /\ Retirement \in Flush
    BY CallersAssumption DEF Flush
  <2>2. flushState'[Retirement] = flushState[Retirement]  BY <2>1 DEF IInv, TypeOK
  <2>3. ASSUME NEW g \in Flush
        PROVE  /\ flushState'[g] = "joined" => barrier # "none"
               /\ mark'[g] <= accepted
    BY <2>1, <2>3 DEF IInv, TypeOK, FlushInv
  <2>4. QED  BY <2>2, <2>3 DEF IInv, FlushInv
<1>7. QED  BY <1>1, <1>2, <1>3, <1>4, <1>5, <1>6 DEF IInv

(* A flush of an uninitialized session is rejected.                        *)
LEMMA FlushRejectedInv ==
  ASSUME NEW f \in Flush, IInv, FlushRejected(f)
  PROVE  IInv'
<1> USE DEF FlushRejected, CancelAutomaticWait, backendVars, queueVars, sessionVars, writeVars, flushVars
<1>1. QueueInv' /\ StoreInv'  BY QueueKept DEF IInv
<1>2. TypeOK'  BY DEF IInv, TypeOK
<1>3. ControlInv'  BY DEF IInv, TypeOK, ControlInv
<1>4. AutomaticPathIsQuiet' /\ PauseInv'
  BY DEF IInv, TypeOK, ControlInv, AutomaticPathIsQuiet, PauseInv
<1>5. NeverStranded'
  BY DEF IInv, TypeOK, ControlInv, AutomaticPathIsQuiet, PauseInv, NeverStranded
<1>6. FlushInv'
  BY DEF IInv, TypeOK, ControlInv, AutomaticPathIsQuiet, FlushInv
<1>7. QED  BY <1>1, <1>2, <1>3, <1>4, <1>5, <1>6 DEF IInv

(* A flush joins the barrier, opens one, or finds nothing to do.           *)
LEMMA JoinBarrierInv ==
  ASSUME NEW f \in Flush, IInv, JoinBarrier(f)
  PROVE  IInv'
<1> USE DEF JoinBarrier, Overlaps, StartWrite, CancelAutomaticWait, backendVars, queueVars, sessionVars, writeVars, flushVars
<1>1. QueueInv' /\ StoreInv'  BY QueueKept, QueueMoved DEF IInv, ControlInv
<1>2. TypeOK'
  <2>1. pending' \in Seq(Event) /\ batch' \in Seq(Event)
    BY EventsAssumption, ConcatProperties, EmptySeq DEF IInv, TypeOK, Event
  <2>2. /\ flushState' \in [Flush -> {"idle", "waiting", "joined", "resolved", "rejected"}]
        /\ mark' \in [Flush -> 0 .. MaxEvents]
        /\ stored' \in Seq(Event)
    BY DEF IInv, TypeOK
  <2>3. timer' \in BOOLEAN /\ deadlineExpired' \in BOOLEAN /\ automaticPaused' \in BOOLEAN
    BY DEF IInv, TypeOK
  <2>4. QED  BY <2>1, <2>2, <2>3, EventsAssumption DEF IInv, TypeOK
<1>3. ControlInv'  BY DEF IInv, TypeOK, ControlInv
<1>4. AutomaticPathIsQuiet' /\ PauseInv'
  BY DEF IInv, TypeOK, ControlInv, AutomaticPathIsQuiet, PauseInv
<1>5. NeverStranded'
  BY DEF IInv, TypeOK, ControlInv, AutomaticPathIsQuiet, PauseInv, NeverStranded
<1>6. FlushInv'
  <2>1. Retirement \in Flush  BY DEF Flush
  <2>2. ASSUME NEW g \in Flush
        PROVE  flushState'[g] = "joined" => barrier' # "none"
    BY <2>2 DEF IInv, TypeOK, FlushInv
  <2>3. flushState[Retirement] = "resolved" => flushState'[Retirement] = "resolved"
    BY <2>1 DEF IInv, TypeOK
  <2>4. flushState[Retirement] = "idle" <=> flushState'[Retirement] = "idle"
    BY <2>1 DEF IInv, TypeOK
  <2>5. flushState[Retirement] = "resolved" => pending' = <<>> /\ active' = "none"
    BY <2>1 DEF IInv, TypeOK, ControlInv, FlushInv
  <2>6. flushState'[Retirement] = "resolved" /\ flushState[Retirement] # "resolved" =>
          pending' = <<>> /\ active' = "none"
    BY <2>1 DEF IInv, TypeOK
  <2>7. QED  BY <2>2, <2>3, <2>4, <2>5, <2>6 DEF IInv, FlushInv
<1>7. QED  BY <1>1, <1>2, <1>3, <1>4, <1>5, <1>6 DEF IInv

(* The barrier writes what arrived meanwhile, or closes over no queue.     *)
LEMMA BarrierContinuesInv ==
  ASSUME IInv, BarrierContinues
  PROVE  IInv'
<1> USE DEF BarrierContinues, Settle, StartWrite, CancelAutomaticWait, backendVars, queueVars, sessionVars, writeVars, flushVars
<1>1. QueueInv' /\ StoreInv'
  <2>1. CASE UNCHANGED <<pending, batch>>  BY <2>1, QueueKept DEF IInv
  <2>2. CASE ~UNCHANGED <<pending, batch>>
    <3>1. batch' = pending /\ pending' = <<>>  BY <2>2
    <3>2. batch = <<>>  BY <2>2 DEF IInv, TypeOK, ControlInv
    <3>3. QED  BY <3>1, <3>2, QueueMoved DEF IInv
  <2>3. QED  BY <2>1, <2>2
<1>2. TypeOK'
  <2>1. pending' \in Seq(Event) /\ batch' \in Seq(Event)
    BY EventsAssumption, ConcatProperties, EmptySeq DEF IInv, TypeOK, Event
  <2>2. /\ flushState' \in [Flush -> {"idle", "waiting", "joined", "resolved", "rejected"}]
        /\ mark' \in [Flush -> 0 .. MaxEvents]
        /\ stored' \in Seq(Event)
    BY DEF IInv, TypeOK
  <2>3. timer' \in BOOLEAN /\ deadlineExpired' \in BOOLEAN /\ automaticPaused' \in BOOLEAN
    BY DEF IInv, TypeOK
  <2>4. QED  BY <2>1, <2>2, <2>3, EventsAssumption DEF IInv, TypeOK
<1>3. ControlInv'  BY DEF IInv, TypeOK, ControlInv
<1>4. AutomaticPathIsQuiet' /\ PauseInv'
  BY DEF IInv, TypeOK, ControlInv, AutomaticPathIsQuiet, PauseInv
<1>5. NeverStranded'
  BY DEF IInv, TypeOK, ControlInv, AutomaticPathIsQuiet, PauseInv, NeverStranded
<1>6. FlushInv'
  <2>1. Retirement \in Flush  BY DEF Flush
  <2>2. ASSUME NEW g \in Flush
        PROVE  flushState'[g] = "joined" => barrier' # "none"
    BY <2>2 DEF IInv, TypeOK
  <2>3. flushState[Retirement] = "resolved" => flushState'[Retirement] = "resolved"
    BY <2>1 DEF IInv, TypeOK
  <2>4. flushState[Retirement] = "idle" <=> flushState'[Retirement] = "idle"
    BY <2>1 DEF IInv, TypeOK
  <2>5. flushState'[Retirement] = "resolved" => pending' = <<>> /\ active' = "none" /\ init = "ready"
    BY <2>1 DEF IInv, TypeOK, ControlInv, FlushInv
  <2>6. QED  BY <2>2, <2>3, <2>4, <2>5 DEF IInv, FlushInv
<1>7. QED  BY <1>1, <1>2, <1>3, <1>4, <1>5, <1>6 DEF IInv

(* A failed barrier leaves a paused queue.                                 *)
LEMMA BarrierFailsInv ==
  ASSUME IInv, BarrierFails
  PROVE  IInv'
<1> USE DEF BarrierFails, Settle, backendVars, queueVars, sessionVars, writeVars, flushVars
<1>1. QueueInv' /\ StoreInv'  BY QueueKept DEF IInv
<1>2. TypeOK'  BY DEF IInv, TypeOK
<1>3. ControlInv'  BY DEF IInv, TypeOK, ControlInv
<1>4. AutomaticPathIsQuiet' /\ PauseInv'
  BY DEF IInv, TypeOK, ControlInv, AutomaticPathIsQuiet, PauseInv
<1>5. NeverStranded'
  BY DEF IInv, TypeOK, ControlInv, AutomaticPathIsQuiet, PauseInv, NeverStranded
<1>6. FlushInv'
  <2>1. Retirement \in Flush  BY DEF Flush
  <2>2. ASSUME NEW g \in Flush
        PROVE  flushState'[g] = "joined" => barrier' # "none"
    BY <2>2 DEF IInv, TypeOK
  <2>3. flushState[Retirement] = "resolved" => flushState'[Retirement] = "resolved"
    BY <2>1 DEF IInv, TypeOK
  <2>4. flushState[Retirement] = "idle" <=> flushState'[Retirement] = "idle"
    BY <2>1 DEF IInv, TypeOK
  <2>5. flushState'[Retirement] = "resolved" => pending' = <<>> /\ active' = "none" /\ init = "ready"
    BY <2>1 DEF IInv, TypeOK, ControlInv, FlushInv
  <2>6. QED  BY <2>2, <2>3, <2>4, <2>5 DEF IInv, FlushInv
<1>7. QED  BY <1>1, <1>2, <1>3, <1>4, <1>5, <1>6 DEF IInv

(* Retirement is one more flush.                                           *)
LEMMA RetireInv ==
  ASSUME IInv, Retire
  PROVE  IInv'
<1> USE DEF Retire, CallFlush, CancelAutomaticWait, backendVars, queueVars, sessionVars, writeVars, flushVars
<1>1. QueueInv' /\ StoreInv'  BY QueueKept DEF IInv
<1>2. TypeOK'  BY DEF IInv, TypeOK
<1>3. ControlInv'  BY DEF IInv, TypeOK, ControlInv
<1>4. AutomaticPathIsQuiet' /\ PauseInv'
  BY DEF IInv, TypeOK, ControlInv, AutomaticPathIsQuiet, PauseInv
<1>5. NeverStranded'
  <2>1. Retirement \in Flush /\ flushState'[Retirement] = "waiting"  BY DEF IInv, TypeOK, Flush
  <2>2. QED  BY <2>1 DEF NeverStranded
<1>6. FlushInv'
  <2>1. Retirement \in Flush  BY DEF Flush
  <2>2. flushState'[Retirement] = "waiting"  BY <2>1 DEF IInv, TypeOK
  <2>3. ASSUME NEW g \in Flush
        PROVE  /\ flushState'[g] = "joined" => barrier # "none"
               /\ mark'[g] <= accepted
    BY <2>1, <2>3 DEF IInv, TypeOK, FlushInv
  <2>4. ~released  BY DEF IInv, TypeOK, FlushInv
  <2>5. QED  BY <2>2, <2>3, <2>4 DEF IInv, TypeOK, FlushInv
<1>7. QED  BY <1>1, <1>2, <1>3, <1>4, <1>5, <1>6 DEF IInv

(* A drained session stays drained, so it may be released.                 *)
LEMMA ReleaseInv ==
  ASSUME IInv, Release
  PROVE  IInv'
<1> USE DEF Release, DrainSucceeded, backendVars, queueVars, sessionVars, writeVars, flushVars
<1>1. QueueInv' /\ StoreInv'  BY QueueKept DEF IInv
<1>2. TypeOK'  BY DEF IInv, TypeOK
<1>3. ControlInv'  BY DEF IInv, TypeOK, ControlInv
<1>4. AutomaticPathIsQuiet' /\ PauseInv'
  BY DEF IInv, TypeOK, ControlInv, AutomaticPathIsQuiet, PauseInv
<1>5. NeverStranded'
  BY DEF IInv, TypeOK, ControlInv, AutomaticPathIsQuiet, PauseInv, NeverStranded
<1>6. FlushInv'
  BY DEF IInv, TypeOK, ControlInv, AutomaticPathIsQuiet, FlushInv
<1>7. QED  BY <1>1, <1>2, <1>3, <1>4, <1>5, <1>6 DEF IInv

-----------------------------------------------------------------------------
(* Every reachable state.                                                  *)

(* The store never holds more than was accepted, from the start.           *)
LEMMA InitInv == Init => IInv
<1> SUFFICES ASSUME Init PROVE IInv  OBVIOUS
<1> USE EventsAssumption
<1>1. \A n \in 0 .. SeedEvents : /\ Run(1, n) \in Seq(Event)
                                 /\ Len(Run(1, n)) = n
                                 /\ \A k \in 1 .. n : Run(1, n)[k] = k
  <2>1. ASSUME NEW n \in 0 .. SeedEvents PROVE Run(1, n) = [k \in 1 .. n |-> k]
    BY DEF Run
  <2>2. QED  BY <2>1 DEF Event
<1>2. PICK n \in 0 .. SeedEvents : stored = Run(1, n) /\ (init = "ready" => n = SeedEvents)
  BY DEF Init
<1>3. stored \in Seq(Event) /\ Len(stored) = n /\ \A k \in 1 .. n : stored[k] = k
  BY <1>1, <1>2
<1>4. \/ pending = <<>> /\ timer = FALSE
      \/ pending = <<SeedEvents>> /\ timer = TRUE /\ SeedEvents > 0 /\ init = "pending"
  BY DEF Init
<1>5. pending \in Seq(Event) /\ (timer <=> pending # <<>>)
  <2>1. CASE pending = <<>> /\ timer = FALSE  BY <2>1, EmptySeq
  <2>2. CASE pending = <<SeedEvents>> /\ timer = TRUE /\ SeedEvents > 0
    <3>1. SeedEvents \in Event  BY <2>2 DEF Event
    <3>2. QED  BY <2>2, <3>1
  <2>3. QED  BY <1>4, <2>1, <2>2
<1>6. TypeOK
  <2>1. batch \in Seq(Event) /\ timer \in BOOLEAN  BY <1>4, EmptySeq DEF Init
  <2>2. init \in {"pending", "ready", "failed"}  BY DEF Init
  <2>3. /\ flushState \in [Flush -> {"idle", "waiting", "joined", "resolved", "rejected"}]
        /\ mark \in [Flush -> 0 .. MaxEvents]
    BY DEF Init
  <2>4. accepted \in 0 .. MaxEvents /\ failures \in 0 .. MaxFailures  BY DEF Init
  <2>5. /\ active = "none" /\ write = "none" /\ barrier = "none"
        /\ deadlineExpired = FALSE /\ automaticPaused = FALSE /\ continuation = FALSE
        /\ closed = FALSE /\ released = FALSE
    BY DEF Init
  <2>6. stored \in Seq(Event) /\ pending \in Seq(Event)  BY <1>1, <1>2, <1>5
  <2>7. QED  BY <2>1, <2>2, <2>3, <2>4, <2>5, <2>6 DEF TypeOK
<1>7. ControlInv /\ AutomaticPathIsQuiet /\ PauseInv /\ NeverStranded
  BY <1>4, <1>5 DEF Init, ControlInv, AutomaticPathIsQuiet, PauseInv, NeverStranded
<1>8. QueueInv
  <2>1. Len(batch) = 0 /\ accepted = SeedEvents  BY DEF Init
  <2>2. CASE pending = <<>>  BY <1>2, <1>3, <2>1, <2>2 DEF QueueInv, Taken, Init
  <2>3. CASE pending # <<>>
    BY <1>4, <2>1, <2>3 DEF QueueInv, Taken
  <2>4. QED  BY <2>2, <2>3
<1>9. StoreInv  BY <1>2, <1>3 DEF StoreInv, Init
<1>10. FlushInv  BY DEF Init, FlushInv, Flush
<1>11. QED  BY <1>6, <1>7, <1>8, <1>9, <1>10 DEF IInv

(* A step that changes nothing keeps the invariant.                        *)
LEMMA StutterInv == IInv /\ UNCHANGED vars => IInv'
BY DEF IInv, TypeOK, ControlInv, AutomaticPathIsQuiet, PauseInv, NeverStranded,
       QueueInv, Taken, StoreInv, FlushInv, vars, sessionVars, backendVars,
       queueVars, writeVars, flushVars

(* Every step of the specification keeps the invariant.                    *)
LEMMA NextInv == IInv /\ [Next]_vars => IInv'
<1> SUFFICES ASSUME IInv, [Next]_vars PROVE IInv'  OBVIOUS
<1>1. CASE Enqueue \/ Deadline \/ ContinueAutomatic
  BY <1>1, EnqueueInv, DeadlineInv, ContinueAutomaticInv
<1>2. CASE InitSucceeds \/ InitFails
  BY <1>2, InitSucceedsInv, InitFailsInv
<1>3. CASE WriteSucceeds \/ WriteFails \/ WriteSettles
  BY <1>3, WriteSucceedsInv, WriteFailsInv, WriteSettlesInv
<1>4. ASSUME NEW f \in Caller, SessionFlush(f) PROVE IInv'
  BY <1>4, SessionFlushInv
<1>5. ASSUME NEW f \in Flush, FlushRejected(f) \/ JoinBarrier(f) PROVE IInv'
  BY <1>5, FlushRejectedInv, JoinBarrierInv
<1>6. CASE BarrierContinues \/ BarrierFails
  BY <1>6, BarrierContinuesInv, BarrierFailsInv
<1>7. CASE Retire \/ Release
  BY <1>7, RetireInv, ReleaseInv
<1>8. CASE UNCHANGED vars
  BY <1>8, StutterInv
<1>9. QED  BY <1>1, <1>2, <1>3, <1>4, <1>5, <1>6, <1>7, <1>8 DEF Next

(* The invariant holds of every reachable state.                           *)
THEOREM WriteBehindInvariance == Spec => []IInv
  BY InitInv, NextInv, PTL DEF Spec

(* Queued events always have somebody who will write them.                 *)
THEOREM NeverStrandedAlways == Spec => []NeverStranded
<1>1. IInv => NeverStranded  BY DEF IInv
<1>2. QED  BY <1>1, WriteBehindInvariance, PTL

(* No timer runs under a barrier, after a failure or for an empty queue.   *)
THEOREM AutomaticPathIsQuietAlways == Spec => []AutomaticPathIsQuiet
<1>1. IInv => AutomaticPathIsQuiet  BY DEF IInv
<1>2. QED  BY <1>1, WriteBehindInvariance, PTL

(* The batch and the queue are one gapless run up to the newest event, and *)
(* it starts no later than where storage ends.                             *)
THEOREM QueueCoversTheRestAlways == Spec => []QueueCoversTheRest
<1>1. IInv => QueueCoversTheRest
  <2> SUFFICES ASSUME IInv PROVE QueueCoversTheRest  OBVIOUS
  <2> DEFINE first == accepted + 1 - Len(batch) - Len(pending)
  <2>1. /\ Len(batch) \in Nat /\ Len(pending) \in Nat /\ accepted \in Nat
        /\ Len(stored) \in Nat /\ SeedEvents \in Nat
        /\ batch \in Seq(Event) /\ pending \in Seq(Event)
    BY EventsAssumption DEF IInv, TypeOK
  <2>2. first = Taken + 1 /\ Taken \in Nat
    BY <2>1 DEF Taken, IInv, QueueInv
  <2>3. accepted + 1 - first = Len(batch) + Len(pending)  BY <2>1
  <2>4. /\ batch \o pending \in Seq(Event)
        /\ Len(batch \o pending) = Len(batch) + Len(pending)
        /\ \A k \in 1 .. Len(batch) + Len(pending) :
             (batch \o pending)[k] = IF k <= Len(batch) THEN batch[k]
                                                       ELSE pending[k - Len(batch)]
    BY <2>1, ConcatProperties
  <2>5. ASSUME NEW k \in 1 .. Len(batch) + Len(pending)
        PROVE  (batch \o pending)[k] = first + k - 1
    <3>1. CASE k <= Len(batch)
      <4>1. k \in 1 .. Len(batch)  BY <2>1, <3>1
      <4>2. batch[k] = Taken + k  BY <4>1 DEF IInv, QueueInv
      <4>3. QED  BY <2>2, <2>4, <3>1, <4>2
    <3>2. CASE k > Len(batch)
      <4>1. k - Len(batch) \in 1 .. Len(pending)  BY <2>1, <3>2
      <4>2. pending[k - Len(batch)] = Taken + Len(batch) + (k - Len(batch))
        BY <4>1 DEF IInv, QueueInv
      <4>3. (batch \o pending)[k] = pending[k - Len(batch)]  BY <2>1, <2>4, <3>2
      <4>4. Taken + Len(batch) + (k - Len(batch)) = first + k - 1  BY <2>1, <2>2
      <4>5. QED  BY <4>2, <4>3, <4>4
    <3>3. QED  BY <2>1, <3>1, <3>2
  <2>6. batch \o pending = [k \in 1 .. Len(batch) + Len(pending) |-> first + k - 1]
    <3>1. batch \o pending = [k \in 1 .. Len(batch) + Len(pending) |-> (batch \o pending)[k]]
      BY <2>4, LenProperties
    <3>2. QED  BY <2>5, <3>1
  <2>7. batch \o pending = Run(first, accepted)
    BY <2>3, <2>6 DEF Run
  <2>8. first <= Len(stored) + 1 \/ (init # "ready" /\ first <= SeedEvents + 1)
    BY <2>1, <2>2 DEF IInv, QueueInv
  <2>9. QED  BY <2>7, <2>8 DEF QueueCoversTheRest
<1>2. QED  BY <1>1, WriteBehindInvariance, PTL

(* With nothing queued and nothing being written, everything is stored.    *)
LEMMA DrainedIsStored ==
  ASSUME IInv, pending = <<>>, active = "none", init = "ready"
  PROVE  batch = <<>> /\ Len(stored) = accepted
<1>1. batch = <<>>  BY DEF IInv, TypeOK, ControlInv
<1>2. Len(batch) = 0 /\ Len(pending) = 0  BY <1>1
<1>3. Len(stored) \in Nat /\ accepted \in Nat /\ Taken = accepted
  BY <1>2 DEF IInv, TypeOK, Taken
<1>4. Taken <= Len(stored) /\ Len(stored) <= accepted
  BY DEF IInv, QueueInv, StoreInv
<1>5. QED  BY <1>1, <1>3, <1>4

(* A controller is dropped only when every event of its session is stored. *)
THEOREM ReleasedIsDurableAlways == Spec => []ReleasedIsDurable
<1>1. IInv => ReleasedIsDurable
  BY DrainedIsStored DEF IInv, FlushInv, ReleasedIsDurable
<1>2. QED  BY <1>1, WriteBehindInvariance, PTL

-----------------------------------------------------------------------------
(* The refinement of DurableLog.  A flush that joined a barrier is one     *)
(* that still waits.                                                       *)

Seen == [f \in Flush |-> IF flushState[f] = "joined" THEN "waiting" ELSE flushState[f]]

AbstractVars == <<accepted, stored, Seen, mark>>

(* The stored events are the first ones.                                   *)
LEMMA StoredIsFirst ==
  ASSUME NEW n \in Nat, NEW s \in Seq(Event), Len(s) = n, \A k \in 1 .. n : s[k] = k
  PROVE  s = Abstract!FirstEvents(n)
<1>1. s = [k \in 1 .. n |-> s[k]]  BY LenProperties
<1>2. QED  BY <1>1 DEF Abstract!FirstEvents

(* Storing more of the accepted events is the abstract Persist.            *)
LEMMA Persists ==
  ASSUME IInv, IInv', UNCHANGED <<accepted, flushState, mark>>,
         Len(stored) < Len(stored')
  PROVE  Abstract!Persist
<1>1. /\ Len(stored') \in Nat /\ Len(stored) \in Nat /\ accepted \in Nat
      /\ stored' \in Seq(Event) /\ Len(stored') <= accepted
      /\ \A k \in 1 .. Len(stored') : stored'[k] = k
  BY DEF IInv, TypeOK, StoreInv
<1>2. stored' = Abstract!FirstEvents(Len(stored'))  BY <1>1, StoredIsFirst
<1>3. Len(stored') \in Len(stored) + 1 .. accepted  BY <1>1
<1>4. QED  BY <1>2, <1>3 DEF Abstract!Persist

(* A store that grew by nothing did not change.                            *)
LEMMA SameStore ==
  ASSUME IInv, IInv', Len(stored) = Len(stored')
  PROVE  stored' = stored
<1>1. /\ stored \in Seq(Event) /\ stored' \in Seq(Event)
      /\ \A k \in 1 .. Len(stored) : stored[k] = stored'[k]
  BY DEF IInv, TypeOK, StoreInv
<1>2. QED  BY <1>1, SeqEqual

(* Initialization and writes persist accepted events, or change nothing.   *)
LEMMA StoreGrows ==
  ASSUME IInv, IInv', InitSucceeds \/ WriteSucceeds
  PROVE  Abstract!Persist \/ UNCHANGED AbstractVars
<1>1. UNCHANGED <<accepted, flushState, mark>>
  BY DEF InitSucceeds, WriteSucceeds, sessionVars, flushVars
<1>2. Len(stored) <= Len(stored')
  <2>1. CASE InitSucceeds
    <3>1. stored' = Run(1, SeedEvents) /\ init = "pending"  BY <2>1 DEF InitSucceeds
    <3>2. Len(stored') = SeedEvents
      BY <3>1, EventsAssumption DEF Run
    <3>3. QED  BY <3>1, <3>2 DEF IInv, StoreInv
  <2>2. CASE WriteSucceeds
    <3>1. PICK n \in Nat : Fresh = [k \in 1 .. n |-> Len(stored) + k]
      BY <2>2, FreshIsTheRest DEF IInv, WriteSucceeds
    <3>2. stored \in Seq(Nat) /\ Fresh \in Seq(Nat) /\ Len(Fresh) = n
      <4>1. Event \subseteq Nat /\ stored \in Seq(Event)  BY DEF Event, IInv, TypeOK
      <4>2. stored \in Seq(Nat)  BY <4>1, SeqMonotonic
      <4>3. Len(stored) \in Nat  BY <4>2, LenProperties
      <4>4. QED  BY <3>1, <4>2, <4>3
    <3>3. Len(stored') = Len(stored) + n
      BY <2>2, <3>2, ConcatProperties DEF WriteSucceeds
    <3>4. QED  BY <3>2, <3>3
  <2>3. QED  BY <2>1, <2>2
<1>3. Len(stored) \in Nat /\ Len(stored') \in Nat  BY DEF IInv, TypeOK
<1>4. CASE Len(stored) < Len(stored')  BY <1>1, <1>4, Persists
<1>5. CASE Len(stored) = Len(stored')
  BY <1>1, <1>5, SameStore DEF AbstractVars, Seen
<1>6. QED  BY <1>2, <1>3, <1>4, <1>5

(* Calling a flush, on behalf of a session or of its retirement.           *)
LEMMA Calls ==
  ASSUME IInv, NEW f \in Flush, CallFlush(f), UNCHANGED <<accepted, stored>>
  PROVE  Abstract!CallFlush(f)
<1>1. Seen' = [Seen EXCEPT ![f] = "waiting"]
  BY DEF CallFlush, Seen, IInv, TypeOK
<1>2. Seen[f] = "idle"  BY DEF CallFlush, Seen
<1>3. QED  BY <1>1, <1>2 DEF CallFlush, Abstract!CallFlush, Seen

(* A single flush that waits for initialization settles alone.             *)
LEMMA SettlesAlone ==
  ASSUME IInv, NEW f \in Flush, flushState[f] = "waiting",
         NEW outcome \in {"resolved", "rejected"},
         flushState' = [flushState EXCEPT ![f] = outcome],
         UNCHANGED <<accepted, stored, mark>>,
         outcome = "resolved" => mark[f] <= Len(stored)
  PROVE  Abstract!ResolveFlushes \/ Abstract!RejectFlushes
<1>1. {f} \in SUBSET {g \in Flush : Seen[g] = "waiting"}  BY DEF Seen
<1>2. Seen' = [g \in Flush |-> IF g \in {f} THEN outcome ELSE Seen[g]]
  BY DEF Seen, IInv, TypeOK
<1>3. CASE outcome = "resolved"
  BY <1>1, <1>2, <1>3 DEF Abstract!ResolveFlushes, Seen
<1>4. CASE outcome = "rejected"
  BY <1>1, <1>2, <1>4 DEF Abstract!RejectFlushes, Seen
<1>5. QED  BY <1>3, <1>4

(* The callers of a barrier settle together.                               *)
LEMMA SettleTogether ==
  ASSUME IInv, NEW outcome \in {"resolved", "rejected"}, Settle(outcome),
         UNCHANGED <<accepted, stored, mark>>,
         outcome = "resolved" => \A f \in Flush : mark[f] <= Len(stored)
  PROVE  Abstract!ResolveFlushes \/ Abstract!RejectFlushes
<1> DEFINE done == {g \in Flush : flushState[g] = "joined"}
<1>1. done \in SUBSET {g \in Flush : Seen[g] = "waiting"}  BY DEF Seen
<1>2. Seen' = [g \in Flush |-> IF g \in done THEN outcome ELSE Seen[g]]
  BY DEF Seen, Settle, IInv, TypeOK
<1>3. CASE outcome = "resolved"
  BY <1>1, <1>2, <1>3 DEF Abstract!ResolveFlushes, Seen
<1>4. CASE outcome = "rejected"
  BY <1>1, <1>2, <1>4 DEF Abstract!RejectFlushes, Seen
<1>5. QED  BY <1>3, <1>4

(* With nothing queued, every flush is covered by the store.               *)
LEMMA DrainedCovers ==
  ASSUME IInv, pending = <<>>, active = "none", init = "ready"
  PROVE  \A f \in Flush : mark[f] <= Len(stored)
BY DrainedIsStored DEF IInv, FlushInv

(* Joining a barrier is invisible; finding nothing to do resolves.         *)
LEMMA JoinsOrSettles ==
  ASSUME IInv, NEW f \in Flush, JoinBarrier(f)
  PROVE  Abstract!ResolveFlushes \/ Abstract!RejectFlushes \/ UNCHANGED AbstractVars
<1>1. /\ flushState[f] = "waiting" /\ init = "ready"
      /\ UNCHANGED <<accepted, stored, mark>>
  BY DEF JoinBarrier, sessionVars, backendVars
<1>2. CASE flushState' = [flushState EXCEPT ![f] = "joined"]
  <2>1. Seen' = Seen  BY <1>1, <1>2 DEF Seen, IInv, TypeOK
  <2>2. QED  BY <1>1, <2>1 DEF AbstractVars
<1>3. CASE /\ flushState' = [flushState EXCEPT ![f] = "resolved"]
           /\ ~Overlaps /\ pending = <<>>
  <2>1. mark[f] <= Len(stored)
    BY <1>1, <1>3, DrainedCovers DEF Overlaps
  <2>2. QED  BY <1>1, <1>3, <2>1, SettlesAlone
<1>4. QED  BY <1>2, <1>3 DEF JoinBarrier

(* Every step of the queue is a step of the durable log or leaves it alone.*)
LEMMA StepSimulation == IInv /\ IInv' /\ [Next]_vars => Abstract!Next \/ UNCHANGED AbstractVars
<1> SUFFICES ASSUME IInv, IInv', [Next]_vars
             PROVE  Abstract!Next \/ UNCHANGED AbstractVars
  OBVIOUS
<1> USE DEF sessionVars, backendVars, queueVars, writeVars, flushVars
<1>1. CASE Enqueue
  <2>1. Abstract!Accept  BY <1>1 DEF Enqueue, Abstract!Accept
  <2>2. QED  BY <2>1 DEF Abstract!Next
<1>2. CASE \/ Deadline \/ ContinueAutomatic \/ InitFails \/ WriteFails
           \/ WriteSettles \/ Release \/ UNCHANGED vars
  <2>1. UNCHANGED <<accepted, stored, flushState, mark>>
    BY <1>2 DEF Deadline, ContinueAutomatic, InitFails, WriteFails, WriteSettles,
                Release, vars
  <2>2. QED  BY <2>1 DEF AbstractVars, Seen
<1>3. CASE InitSucceeds \/ WriteSucceeds
  BY <1>3, StoreGrows DEF Abstract!Next
<1>4. ASSUME NEW f \in Caller, SessionFlush(f) PROVE Abstract!Next
  <2>1. f \in Flush  BY DEF Flush
  <2>2. Abstract!CallFlush(f)  BY <1>4, <2>1, Calls DEF SessionFlush
  <2>3. QED  BY <2>1, <2>2 DEF Abstract!Next
<1>5. ASSUME NEW f \in Flush, FlushRejected(f) PROVE Abstract!Next
  <2>1. Abstract!ResolveFlushes \/ Abstract!RejectFlushes
    BY <1>5, SettlesAlone DEF FlushRejected
  <2>2. QED  BY <2>1 DEF Abstract!Next
<1>6. ASSUME NEW f \in Flush, JoinBarrier(f)
      PROVE  Abstract!Next \/ UNCHANGED AbstractVars
  BY <1>6, JoinsOrSettles DEF Abstract!Next
<1>7. CASE BarrierContinues
  <2>1. CASE pending = <<>>
    <3>1. active = "none" /\ init = "ready"
      BY <1>7 DEF BarrierContinues, IInv, TypeOK, ControlInv
    <3>2. Abstract!ResolveFlushes \/ Abstract!RejectFlushes
      BY <1>7, <2>1, <3>1, DrainedCovers, SettleTogether DEF BarrierContinues
    <3>3. QED  BY <3>2 DEF Abstract!Next
  <2>2. CASE pending # <<>>
    BY <1>7, <2>2 DEF BarrierContinues, AbstractVars, Seen
  <2>3. QED  BY <2>1, <2>2
<1>8. CASE BarrierFails
  <2>1. Abstract!ResolveFlushes \/ Abstract!RejectFlushes
    BY <1>8, SettleTogether DEF BarrierFails
  <2>2. QED  BY <2>1 DEF Abstract!Next
<1>9. CASE Retire
  <2>1. Retirement \in Flush  BY DEF Flush
  <2>2. Abstract!CallFlush(Retirement)  BY <1>9, <2>1, Calls DEF Retire
  <2>3. QED  BY <2>1, <2>2 DEF Abstract!Next
<1>10. QED  BY <1>1, <1>2, <1>3, <1>4, <1>5, <1>6, <1>7, <1>8, <1>9 DEF Next

(* The initial states of the queue are initial states of the durable log.  *)
LEMMA InitSimulation == Init => Abstract!Init
<1> SUFFICES ASSUME Init PROVE Abstract!Init  OBVIOUS
<1>1. \A n \in 0 .. SeedEvents : Run(1, n) = Abstract!FirstEvents(n)
  BY EventsAssumption DEF Run, Abstract!FirstEvents
<1>2. SeedEvents \in 0 .. SeedEvents  BY EventsAssumption
<1>3. \E n \in 0 .. SeedEvents : stored = Abstract!FirstEvents(n)
  BY <1>1, <1>2 DEF Init
<1>4. Seen = [f \in Flush |-> "idle"]  BY DEF Init, Seen
<1>5. QED  BY <1>3, <1>4 DEF Init, Abstract!Init, Seen

(* The queue implements the durable log: storage grows by prefixes of what *)
(* was accepted, and a flush resolves only over a store that covers it.    *)
THEOREM QueueImplementsDurableLog == Spec => ImplementsDurableLog
<1>1. AbstractVars = Abstract!vars  BY DEF AbstractVars, Abstract!vars, Seen
<1>2. IInv /\ IInv' /\ [Next]_vars => [Abstract!Next]_(Abstract!vars)
  BY StepSimulation DEF AbstractVars, Abstract!vars, Seen
<1>3. QED
  BY <1>2, InitSimulation, WriteBehindInvariance, PTL
     DEF Spec, ImplementsDurableLog, Abstract!Spec

-----------------------------------------------------------------------------
(* What DurableLog promises, and so the queue.                             *)

AbstractInv ==
  /\ accepted \in Nat /\ Len(stored) \in Nat /\ mark \in [Flush -> Nat]
  /\ Abstract!Promise

(* The first n events are n.                                               *)
LEMMA FirstFacts == \A n \in Nat : Len(Abstract!FirstEvents(n)) = n
  BY DEF Abstract!FirstEvents

LEMMA PromiseInit == Abstract!Init => AbstractInv
<1> SUFFICES ASSUME Abstract!Init PROVE AbstractInv  OBVIOUS
<1>1. PICK n \in 0 .. SeedEvents : stored = Abstract!FirstEvents(n)
  BY DEF Abstract!Init
<1>2. n \in Nat /\ n <= SeedEvents /\ SeedEvents \in Nat  BY EventsAssumption
<1>3. Len(stored) = n  BY <1>1, <1>2, FirstFacts
<1>4. accepted = SeedEvents /\ mark = [f \in Flush |-> 0] /\ \A f \in Flush : Seen[f] = "idle"
  BY DEF Abstract!Init, Seen
<1>5. QED  BY <1>1, <1>2, <1>3, <1>4 DEF AbstractInv, Abstract!Promise, Seen

(* A step of the durable log keeps the promise and recalls nothing.        *)
LEMMA PromiseStep ==
  ASSUME AbstractInv, [Abstract!Next]_AbstractVars
  PROVE  /\ AbstractInv'
         /\ Len(stored) <= Len(stored')
         /\ \A f \in Flush : Seen[f] \in {"resolved", "rejected"} =>
              Seen'[f] = Seen[f] /\ mark'[f] = mark[f]
<1> USE DEF AbstractInv
<1>1. /\ Len(stored) \in Nat /\ accepted \in Nat /\ Len(stored) <= accepted
      /\ stored = Abstract!FirstEvents(Len(stored))
      /\ \A f \in Flush : Seen[f] = "resolved" => mark[f] <= Len(stored)
  BY DEF Abstract!Promise, Seen
<1> DEFINE Kept == /\ Len(stored') <= accepted' /\ stored' = Abstract!FirstEvents(Len(stored'))
                   /\ \A f \in Flush : Seen'[f] = "resolved" => mark'[f] <= Len(stored')
<1>kept. Kept => Abstract!Promise'
  BY DEF Abstract!Promise, Seen
<1>2. CASE Abstract!Accept
  <2>1. accepted' = accepted + 1 /\ UNCHANGED <<stored, Seen, mark>>
    BY <1>2 DEF Abstract!Accept, Seen
  <2>2. accepted' \in Nat /\ Len(stored) <= accepted'  BY <1>1, <2>1
  <2>3. QED  BY <1>1, <1>kept, <2>1, <2>2
<1>3. CASE Abstract!Persist
  <2>1. PICK n \in Len(stored) + 1 .. accepted : stored' = Abstract!FirstEvents(n)
    BY <1>3 DEF Abstract!Persist
  <2>2. UNCHANGED <<accepted, Seen, mark>>  BY <1>3 DEF Abstract!Persist, Seen
  <2>3. n \in Nat /\ Len(stored) <= n /\ n <= accepted  BY <1>1
  <2>4. Len(stored') = n  BY <2>1, <2>3, FirstFacts
  <2>5. \A f \in Flush : Seen[f] = "resolved" => mark[f] <= n
    BY <1>1, <2>3
  <2>6. QED  BY <1>1, <1>kept, <2>1, <2>2, <2>3, <2>4, <2>5
<1>4. ASSUME NEW f \in Flush, Abstract!CallFlush(f)
      PROVE  /\ UNCHANGED <<accepted, stored>> /\ Seen[f] = "idle"
             /\ Seen' = [Seen EXCEPT ![f] = "waiting"] /\ mark' = [mark EXCEPT ![f] = accepted]
  BY <1>4 DEF Abstract!CallFlush, Seen
<1>5. ASSUME NEW f \in Flush, Abstract!CallFlush(f)
      PROVE  /\ Seen'[f] = "waiting" /\ mark' \in [Flush -> Nat]
             /\ \A g \in Flush \ {f} : Seen'[g] = Seen[g] /\ mark'[g] = mark[g]
  BY <1>1, <1>4, <1>5 DEF Seen
<1>6. CASE \E f \in Flush : Abstract!CallFlush(f)
  <2>1. PICK f \in Flush : Abstract!CallFlush(f)  BY <1>6
  <2>2. \A g \in Flush : Seen'[g] = "resolved" => g # f /\ mark'[g] <= Len(stored)
    BY <1>1, <1>5, <2>1
  <2>3. QED  BY <1>1, <1>kept, <1>4, <1>5, <2>1, <2>2
<1>7. CASE Abstract!ResolveFlushes \/ Abstract!RejectFlushes
  <2>1. UNCHANGED <<accepted, stored, mark>>
    BY <1>7 DEF Abstract!ResolveFlushes, Abstract!RejectFlushes
  <2>2. PICK done \in SUBSET {f \in Flush : Seen[f] = "waiting"}, outcome \in {"resolved", "rejected"} :
          /\ outcome = "resolved" => \A f \in done : mark[f] <= Len(stored)
          /\ Seen' = [f \in Flush |-> IF f \in done THEN outcome ELSE Seen[f]]
    BY <1>7 DEF Abstract!ResolveFlushes, Abstract!RejectFlushes, Seen
  <2>3. \A f \in Flush : Seen'[f] = "resolved" => mark[f] <= Len(stored)
    BY <1>1, <2>2
  <2>4. QED  BY <1>1, <1>kept, <2>1, <2>2, <2>3
<1>8. CASE UNCHANGED AbstractVars
  BY <1>1, <1>8 DEF AbstractVars, Abstract!Promise, Seen
<1>9. QED  BY <1>2, <1>3, <1>6, <1>7, <1>8 DEF Abstract!Next

(* Whoever implements DurableLog keeps its promise, and the queue does: a  *)
(* flush that resolved, joined to whichever barrier and whoever opened it, *)
(* finds all that was accepted before it in the store (flush, joinBarrier).*)
THEOREM PromiseKept == Spec => []Abstract!Promise
<1>1. AbstractVars = Abstract!vars  BY DEF AbstractVars, Abstract!vars, Seen
<1>2. AbstractInv /\ [Abstract!Next]_(Abstract!vars) => AbstractInv'
  BY PromiseStep DEF AbstractVars, Abstract!vars, Seen
<1>3. AbstractInv => Abstract!Promise  BY DEF AbstractInv
<1>4. QED
  BY <1>2, <1>3, PromiseInit, QueueImplementsDurableLog, PTL
     DEF ImplementsDurableLog, Abstract!Spec

(* An answer to a flush is final, and storage never shrinks.               *)
THEOREM NothingRecalledAlways == Spec => Abstract!NothingRecalled
<1>1. AbstractVars = Abstract!vars  BY DEF AbstractVars, Abstract!vars, Seen
<1>2. AbstractInv /\ [Abstract!Next]_(Abstract!vars) => AbstractInv'
  BY PromiseStep DEF AbstractVars, Abstract!vars, Seen
<1>3. AbstractInv /\ [Abstract!Next]_(Abstract!vars) =>
        [/\ Len(stored) <= Len(stored')
         /\ \A f \in Flush : Seen[f] \in {"resolved", "rejected"} =>
              Seen'[f] = Seen[f] /\ mark'[f] = mark[f]]_(Abstract!vars)
  BY <1>1, PromiseStep
<1>4. QED
  BY <1>2, <1>3, PromiseInit, QueueImplementsDurableLog, PTL
     DEF ImplementsDurableLog, Abstract!Spec, Abstract!NothingRecalled, Seen
=============================================================================

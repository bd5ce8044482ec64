-------------------------- MODULE JobRegistry_proofs --------------------------
(***************************************************************************)
(* The safety of JobRegistry for any number of jobs, owners, waits and any *)
(* limit.  The inductive invariant ties each record to its status, each    *)
(* wait to its job, and each teardown to the jobs it still has to see      *)
(* settled.                                                                *)
(***************************************************************************)
EXTENDS JobRegistry, FiniteSetTheorems, TLAPS

Active(j) == status[j] \in {"running", "stopping"}

(* A live job has a record and no announcement; it is reported exactly     *)
(* when a kill or a teardown answered for it.                              *)
Records ==
  \A j \in Job :
    /\ status[j] = "absent" =>
         j \notin store /\ notices[j] = 0 /\ ~told[j] /\ ~reported[j] /\ producer[j] = "none"
    /\ Active(j) => j \in store /\ notices[j] = 0
    /\ Active(j) /\ reported[j] => told[j]
    /\ told[j] => reported[j]

(* A pending wait is about a live job, a resolved one about a settled job. *)
Waits ==
  \A w \in Wait :
    /\ wait[w] # "idle" => status[waitFor[w]] # "absent"
    /\ wait[w] = "waiting" => Active(waitFor[w])
    /\ wait[w] \in {"released", "terminal"} => status[waitFor[w]] = "settled"

(* Once the service is torn down, what still lives is claimed and awaited. *)
Claimed ==
  /\ service \in {"draining", "down"} => \A j \in Job : Active(j) => reported[j] /\ j \in all
  /\ service = "down" => \A j \in Job : ~Active(j)

(* The record of an owned job has a cleanup ahead or is awaited by it.     *)
Ownership ==
  /\ \A o \in Owner : /\ scope[o] \in {"draining", "disposed"} => o \notin cleanups
                      /\ scope[o] \in {"live", "unloading"} => owned[o] = {}
  /\ \A j \in store : owner[j] \in Owner =>
       \/ owner[j] \in cleanups
       \/ scope[owner[j]] = "draining" /\ j \in owned[owner[j]]

IInv ==
  TypeOK /\ Records /\ Waits /\ ToldExactlyOnce /\ Claimed /\ Ownership /\ LimitHolds

-----------------------------------------------------------------------------
(* What a settlement preserves.                                            *)

LEMMA SettleTypes ==
  ASSUME TypeOK, NEW S \in SUBSET Job, NEW C \in SUBSET Job, Settle(S, C)
  PROVE  /\ status' \in [Job -> {"absent", "running", "stopping", "settled"}]
         /\ reported' \in [Job -> BOOLEAN]
         /\ notices' \in [Job -> Nat]
         /\ wait' \in [Wait -> {"idle", "waiting", "expired", "released", "aborted",
                                "rejected", "live", "terminal"}]
  BY DEF TypeOK, Settle

LEMMA SettleStatus ==
  ASSUME TypeOK, NEW S \in SUBSET Job, NEW C \in SUBSET Job, Settle(S, C),
         \A j \in S \cup C : Active(j)
  PROVE  \A j \in Job : /\ Active(j)' <=> Active(j) /\ j \notin S
                        /\ status'[j] = "absent" <=> status[j] = "absent"
                        /\ status'[j] = "settled" <=> status[j] = "settled" \/ j \in S
  BY DEF TypeOK, Settle, Active

LEMMA SettleRecords ==
  ASSUME TypeOK, Records, NEW S \in SUBSET Job, NEW C \in SUBSET Job, Settle(S, C),
         \A j \in S \cup C : Active(j),
         told' = [j \in Job |-> told[j] \/ j \in C], UNCHANGED store,
         \A j \in Job : status[j] = "absent" => producer'[j] = producer[j]
  PROVE  Records' /\ \A j \in Job : reported[j] \/ j \in C => reported'[j]
<1>1. \A j \in Job : /\ Active(j)' <=> Active(j) /\ j \notin S
                     /\ status'[j] = "absent" <=> status[j] = "absent"
                     /\ status'[j] = "settled" <=> status[j] = "settled" \/ j \in S
  BY SettleStatus
<1>2. ASSUME NEW j \in Job
      PROVE  /\ told'[j] <=> told[j] \/ j \in C
             /\ reported[j] \/ j \in C => reported'[j]
             /\ j \notin S => notices'[j] = notices[j]
             /\ j \notin S => (reported'[j] <=> reported[j] \/ j \in C)
  BY DEF TypeOK, Settle
<1>3. \A j \in Job : ~(status[j] = "absent" /\ Active(j))
  BY DEF Active
<1> QED
  BY <1>1, <1>2, <1>3 DEF Records

LEMMA SettleWaits ==
  ASSUME TypeOK, Waits, NEW S \in SUBSET Job, NEW C \in SUBSET Job, Settle(S, C),
         \A j \in S \cup C : Active(j), UNCHANGED waitFor
  PROVE  Waits'
<1>1. \A j \in Job : /\ Active(j)' <=> Active(j) /\ j \notin S
                     /\ status'[j] = "absent" <=> status[j] = "absent"
                     /\ status'[j] = "settled" <=> status[j] = "settled" \/ j \in S
  BY SettleStatus
<1> QED
  BY <1>1 DEF Waits, TypeOK, Settle

LEMMA SettleTold ==
  ASSUME TypeOK, Records, Waits, ToldExactlyOnce, Claimed,
         NEW S \in SUBSET Job, NEW C \in SUBSET Job, Settle(S, C),
         \A j \in S \cup C : Active(j),
         told' = [j \in Job |-> told[j] \/ j \in C], UNCHANGED waitFor
  PROVE  ToldExactlyOnce'
<1> SUFFICES ASSUME NEW j \in Job, status'[j] = "settled"
             PROVE  /\ notices'[j] <= 1
                    /\ notices'[j] = 0 =>
                         told'[j] \/ \E w \in Wait : waitFor[w] = j /\ Carries(w)'
                    /\ notices'[j] = 1 =>
                         ~told'[j] /\ ~\E w \in Wait : waitFor[w] = j /\ Carries(w)'
  BY DEF ToldExactlyOnce
<1>1. /\ status'[j] = "settled" <=> status[j] = "settled" \/ j \in S
      /\ \A k \in Job : status'[k] = "settled" <=> status[k] = "settled" \/ k \in S
  BY SettleStatus
<1>t. told'[j] <=> told[j] \/ j \in C
  OBVIOUS
<1>2. CASE j \notin S
  <2>1. status[j] = "settled" /\ notices'[j] = notices[j] /\ j \notin C
    BY <1>1, <1>2 DEF Settle, TypeOK, Active
  <2>2. \A w \in Wait : waitFor[w] = j => (Carries(w)' <=> Carries(w))
    BY <1>1, <1>2, <2>1 DEF Carries, Settle, TypeOK, Waits, Active
  <2> QED
    BY <1>t, <2>1, <2>2 DEF ToldExactlyOnce
<1>3. CASE j \in S
  <2>1. Active(j) /\ notices[j] = 0 /\ (reported[j] <=> told[j])
    BY <1>3 DEF Records, TypeOK
  <2>2. \A w \in Wait : waitFor[w] = j => (Carries(w)' <=> w \in Waiters(j))
    BY <1>1, <1>3, <2>1 DEF Carries, Settle, TypeOK, Waits, Active, Waiters, Counted
  <2>3. service \in {"draining", "down"} => reported[j]
    BY <2>1 DEF Claimed
  <2> DEFINE hushed == reported[j] \/ j \in C \/ Waiters(j) # {}
  <2>4. notices'[j] = IF ~hushed THEN 1 ELSE 0
    BY <1>3, <2>1, <2>3 DEF Settle, TypeOK
  <2>5. (\E w \in Wait : waitFor[w] = j /\ Carries(w)') <=> Waiters(j) # {}
    BY <2>2 DEF Waiters
  <2> QED
    BY <1>t, <2>1, <2>4, <2>5
<1> QED
  BY <1>2, <1>3

-----------------------------------------------------------------------------
(* The steps.                                                              *)

(* Ownership and the limit survive when no job starts or leaves.           *)
LEMMA SettledOnly ==
  ASSUME IInv, \A j \in Job : Active(j)' => Active(j), UNCHANGED owner
  PROVE  LimitHolds'
<1> SUFFICES ASSUME NEW o \in Owner \cup {Nobody}
             PROVE  Cardinality({j \in Job : owner[j] = o /\ Active(j)'}) <= Limit
  BY DEF LimitHolds, Active
<1> DEFINE before == {j \in Job : owner[j] = o /\ Active(j)}
           after  == {j \in Job : owner[j] = o /\ Active(j)'}
<1>1. IsFiniteSet(before) /\ after \subseteq before
  BY JobAssumption, FS_Subset
<1>2. Cardinality(after) <= Cardinality(before)
  BY <1>1, FS_Subset
<1>3. Cardinality(before) <= Limit
  BY DEF IInv, LimitHolds, Active
<1>4. Cardinality(after) \in Nat /\ Cardinality(before) \in Nat
  BY <1>1, FS_Subset, FS_CardinalityType
<1> QED
  BY <1>2, <1>3, <1>4, LimitAssumption

LEMMA StartKeeps ==
  ASSUME IInv, NEW j \in Job, NEW o \in Owner \cup {Nobody}, Start(j, o)
  PROVE  IInv'
<1> USE DEF IInv
<1>1. TypeOK'
  BY DEF TypeOK, Start, waitVars
<1>a. \A k \in Job : Active(k)' <=> Active(k) \/ k = j
  BY DEF Start, TypeOK, Active
<1>2. Records'
  BY <1>a DEF TypeOK, Records, Start, Active
<1>3. Waits'
  BY DEF TypeOK, Waits, Start, Active, waitVars
<1>4. ToldExactlyOnce'
  BY DEF TypeOK, ToldExactlyOnce, Start, Carries, Waits, waitVars
<1>5. Claimed'
  BY DEF Claimed, Start
<1>6. Ownership'
  BY OwnersAssumption DEF TypeOK, Ownership, Start, Owns, Records
<1>7. LimitHolds'
  <2> SUFFICES ASSUME NEW p \in Owner \cup {Nobody}
               PROVE  Cardinality({k \in Job : owner'[k] = p /\ Active(k)'}) <= Limit
    BY DEF LimitHolds, Active
  <2> DEFINE before == {k \in Job : owner[k] = p /\ Active(k)}
             after  == {k \in Job : owner'[k] = p /\ Active(k)'}
  <2>1. IsFiniteSet(before) /\ j \notin before
    BY JobAssumption, FS_Subset DEF Start, Active
  <2>2. Cardinality(before) <= Limit /\ Cardinality(before) \in Nat
    BY <2>1, FS_CardinalityType DEF LimitHolds, Active
  <2>3. CASE p # o
    <3>1. after = before
      BY <1>a, <2>1, <2>3 DEF Start, TypeOK
    <3> QED
      BY <2>2, <3>1
  <2>4. CASE p = o
    <3>1. after = before \cup {j}
      BY <1>a, <2>4 DEF Start, TypeOK
    <3>2. Cardinality(after) = Cardinality(before) + 1
      BY <2>1, <3>1, FS_AddElement
    <3>3. before = ActiveOf(o)
      BY <2>4 DEF ActiveOf, Active, Records, TypeOK
    <3>4. Cardinality(before) < Limit
      BY <3>3 DEF Start
    <3> QED
      BY <2>2, <3>2, <3>4, LimitAssumption
  <2> QED
    BY <2>3, <2>4
<1> QED
  BY <1>1, <1>2, <1>3, <1>4, <1>5, <1>6, <1>7

LEMMA ProducerSettlesKeeps ==
  ASSUME IInv, NEW j \in Job, ProducerSettles(j)
  PROVE  IInv'
<1> USE DEF IInv
<1> DEFINE S == FirstOutcome(j)
<1>0. /\ S \in SUBSET Job /\ {} \in SUBSET Job /\ Settle(S, {})
      /\ \A k \in S \cup {} : Active(k)
      /\ told' = [k \in Job |-> told[k] \/ k \in {}]
      /\ \A k \in Job : status[k] = "absent" => producer'[k] = producer[k]
  BY DEF ProducerSettles, FirstOutcome, TypeOK, Active, Records
<1>1. TypeOK'
  BY <1>0, SettleTypes DEF TypeOK, ProducerSettles, scopeVars
<1>2. Records' /\ \A k \in Job : reported[k] => reported'[k]
  BY <1>0, SettleRecords DEF ProducerSettles
<1>3. Waits'
  BY <1>0, SettleWaits DEF ProducerSettles
<1>4. ToldExactlyOnce'
  BY <1>0, SettleTold DEF ProducerSettles
<1>a. \A k \in Job : Active(k)' => Active(k)
  BY <1>0, SettleStatus
<1>5. Claimed'
  BY <1>2, <1>a DEF Claimed, ProducerSettles
<1>6. Ownership'
  BY DEF Ownership, ProducerSettles, scopeVars
<1>7. LimitHolds'
  BY <1>a, SettledOnly DEF ProducerSettles
<1> QED
  BY <1>1, <1>2, <1>3, <1>4, <1>5, <1>6, <1>7

(* Operations that neither settle nor start a job.                         *)
LEMMA RecordStepsKeep ==
  ASSUME IInv, NEW j \in Job, Collect(j) \/ Kill(j)
  PROVE  IInv'
<1> USE DEF IInv
<1>1. TypeOK'
  BY DEF TypeOK, Collect, Kill, waitVars, scopeVars
<1>a. \A k \in Job : Active(k)' <=> Active(k)
  BY DEF TypeOK, Collect, Kill, Active
<1>b. \A k \in Job : status'[k] = status[k] \/ (Active(k) /\ Active(k)')
  BY DEF TypeOK, Collect, Kill, Active
<1>2. Records'
  BY <1>a DEF TypeOK, Records, Collect, Kill, Active
<1>3. Waits'
  BY <1>a, <1>b DEF TypeOK, Waits, Collect, Kill, waitVars, Active
<1>4. ToldExactlyOnce'
  BY DEF TypeOK, ToldExactlyOnce, Collect, Kill, waitVars, Carries
<1>5. Claimed'
  BY <1>a DEF TypeOK, Claimed, Collect, Kill
<1>6. Ownership'
  BY DEF Ownership, Collect, Kill, scopeVars
<1>7. LimitHolds'
  BY <1>a, SettledOnly DEF Collect, Kill
<1> QED
  BY <1>1, <1>2, <1>3, <1>4, <1>5, <1>6, <1>7

LEMMA WaitStepsKeep ==
  ASSUME IInv, NEW w \in Wait,
         BeginWait(w) \/ WaitExpires(w) \/ WaitAborted(w) \/ WaitRejects(w) \/ WaitReturns(w)
  PROVE  IInv'
<1> USE DEF IInv
<1>s. /\ UNCHANGED <<status, owner, producer, notices, told, store, waitFor,
                     scope, cleanups, owned, service, all>>
      /\ \A v \in Wait : v # w => wait'[v] = wait[v]
      /\ \A k \in Job : reported[k] => reported'[k]
      /\ \A k \in Job : status[k] # "settled" => (reported'[k] <=> reported[k])
  BY DEF TypeOK, BeginWait, WaitExpires, WaitAborted, WaitRejects, WaitReturns, MoveWait,
         jobVars, scopeVars
<1>1. TypeOK'
  BY DEF TypeOK, BeginWait, WaitExpires, WaitAborted, WaitRejects, WaitReturns, MoveWait,
         jobVars, scopeVars
<1>a. \A k \in Job : Active(k)' <=> Active(k)
  BY <1>s DEF Active
<1>2. Records'
  BY <1>s, <1>a DEF Records, Active
<1>3. Waits'
  <2>1. /\ wait'[w] # "idle" => status[waitFor[w]] # "absent"
        /\ wait'[w] = "waiting" => Active(waitFor[w])
        /\ wait'[w] \in {"released", "terminal"} => status[waitFor[w]] = "settled"
    BY DEF TypeOK, Waits, BeginWait, WaitExpires, WaitAborted, WaitRejects, WaitReturns,
           MoveWait, Active
  <2> QED
    BY <1>s, <1>a, <2>1 DEF Waits, TypeOK
<1>4. ToldExactlyOnce'
  <2>1. status[waitFor[w]] = "settled" => (Carries(w)' <=> Carries(w))
    BY <1>s DEF TypeOK, Waits, Carries, Active, BeginWait, WaitExpires, WaitAborted,
                WaitRejects, WaitReturns, MoveWait
  <2>2. \A v \in Wait : status[waitFor[v]] = "settled" => (Carries(v)' <=> Carries(v))
    BY <1>s, <2>1 DEF Carries
  <2> QED
    BY <1>s, <2>2 DEF ToldExactlyOnce
<1>5. Claimed'
  BY <1>s, <1>a DEF Claimed
<1>6. Ownership'
  BY <1>s DEF Ownership
<1>7. LimitHolds'
  BY <1>s, <1>a, SettledOnly
<1> QED
  BY <1>1, <1>2, <1>3, <1>4, <1>5, <1>6, <1>7

(* What both teardowns share.                                              *)
LEMMA CancelKeeps ==
  ASSUME IInv, NEW S \in SUBSET store, CancelForTeardown(S), UNCHANGED <<store, waitFor>>
  PROVE  /\ Records' /\ Waits' /\ ToldExactlyOnce'
         /\ status' \in [Job -> {"absent", "running", "stopping", "settled"}]
         /\ producer' \in [Job -> {"none", "live", "cancelled", "done"}]
         /\ reported' \in [Job -> BOOLEAN] /\ told' \in [Job -> BOOLEAN]
         /\ notices' \in [Job -> Nat]
         /\ wait' \in [Wait -> {"idle", "waiting", "expired", "released", "aborted",
                                "rejected", "live", "terminal"}]
         /\ \A j \in Job : Active(j)' => Active(j)
         /\ \A j \in Job : reported[j] => reported'[j]
         /\ \A j \in S : Active(j) => reported'[j]
<1> USE DEF IInv
<1> DEFINE C == {j \in S : status[j] # "settled"}
<1>1. PICK throwing \in SUBSET C :
        /\ told' = [j \in Job |-> told[j] \/ j \in C]
        /\ producer' = [j \in Job |-> IF j \in C \ throwing /\ producer[j] = "live"
                                        THEN "cancelled" ELSE producer[j]]
        /\ Settle(throwing, C)
  BY DEF CancelForTeardown, Forced
<1>2. /\ C \in SUBSET Job /\ throwing \in SUBSET Job
      /\ \A j \in C : Active(j)
      /\ \A j \in throwing \cup C : Active(j)
      /\ \A j \in S : Active(j) => j \in C
  BY DEF TypeOK, Records, Active
<1>3. \A j \in Job : status[j] = "absent" => producer'[j] = producer[j]
  BY <1>1, <1>2 DEF TypeOK, Active
<1> HIDE DEF C
<1>4. Records' /\ \A j \in Job : reported[j] \/ j \in C => reported'[j]
  BY <1>1, <1>2, <1>3, SettleRecords
<1>5. Waits'
  BY <1>1, <1>2, SettleWaits
<1>6. ToldExactlyOnce'
  BY <1>1, <1>2, SettleTold
<1>7. /\ status' \in [Job -> {"absent", "running", "stopping", "settled"}]
      /\ reported' \in [Job -> BOOLEAN] /\ notices' \in [Job -> Nat]
      /\ wait' \in [Wait -> {"idle", "waiting", "expired", "released", "aborted",
                             "rejected", "live", "terminal"}]
  BY <1>1, <1>2, SettleTypes
<1>8. /\ producer' \in [Job -> {"none", "live", "cancelled", "done"}]
      /\ told' \in [Job -> BOOLEAN]
  BY <1>1 DEF TypeOK
<1>9. \A j \in Job : Active(j)' => Active(j)
  BY <1>1, <1>2, SettleStatus
<1>10. \A j \in S : Active(j) => reported'[j]
  BY <1>2, <1>4
<1> QED
  BY <1>4, <1>5, <1>6, <1>7, <1>8, <1>9, <1>10

LEMMA OwnerStepsKeep ==
  ASSUME IInv, NEW o \in Owner,
         StartRefused(o) \/ DisposeOwner(o) \/ OwnerCleanup(o) \/ OwnerGone(o)
  PROVE  IInv'
<1> USE DEF IInv
<1>1. CASE DisposeOwner(o)
  BY <1>1 DEF DisposeOwner, TypeOK, Records, Waits, ToldExactlyOnce, Claimed, Ownership,
              LimitHolds, Active, Carries, jobVars, waitVars
<1>2. CASE OwnerCleanup(o)
  <2> DEFINE S == {j \in store : owner[j] = o}
  <2>0. S \in SUBSET store /\ CancelForTeardown(S) /\ UNCHANGED <<store, waitFor>>
    BY <1>2 DEF OwnerCleanup, TypeOK
  <2>1. /\ Records' /\ Waits' /\ ToldExactlyOnce'
        /\ status' \in [Job -> {"absent", "running", "stopping", "settled"}]
        /\ producer' \in [Job -> {"none", "live", "cancelled", "done"}]
        /\ reported' \in [Job -> BOOLEAN] /\ told' \in [Job -> BOOLEAN]
        /\ notices' \in [Job -> Nat]
        /\ wait' \in [Wait -> {"idle", "waiting", "expired", "released", "aborted",
                               "rejected", "live", "terminal"}]
        /\ \A j \in Job : Active(j)' => Active(j)
        /\ \A j \in Job : reported[j] => reported'[j]
    <3> HIDE DEF S
    <3> QED
      BY <2>0, CancelKeeps
  <2>2. TypeOK'
    BY <1>2, <2>1 DEF OwnerCleanup, TypeOK, Detached
  <2>3. Claimed'
    BY <1>2, <2>1 DEF OwnerCleanup, Claimed
  <2>4. Ownership'
    BY <1>2 DEF OwnerCleanup, Ownership, Detached, TypeOK
  <2>5. LimitHolds'
    BY <1>2, <2>1, SettledOnly DEF OwnerCleanup
  <2> QED
    BY <2>1, <2>2, <2>3, <2>4, <2>5
<1>3. CASE OwnerGone(o)
  <2>1. UNCHANGED <<jobVars, waitVars, cleanups, owned, service, all>>
    BY <1>3 DEF OwnerGone
  <2>2. \A j \in Job : Active(j)' <=> Active(j)
    BY <2>1 DEF Active, jobVars
  <2>3. \A j \in owned[o] : ~Active(j)
    BY <1>3 DEF OwnerGone, Ownership, Active
  <2>4. TypeOK'
    BY <1>3 DEF OwnerGone, TypeOK, jobVars, waitVars
  <2>5. Records'
    BY <1>3, <2>2, <2>3 DEF OwnerGone, Records, jobVars, Active
  <2>6. Waits' /\ ToldExactlyOnce'
    BY <2>1 DEF Waits, ToldExactlyOnce, Carries, Active, jobVars, waitVars
  <2>9. Claimed'
    BY <2>1, <2>2 DEF Claimed, jobVars
  <2>7. Ownership'
    BY <1>3 DEF OwnerGone, Ownership, TypeOK, jobVars
  <2>8. LimitHolds'
    BY <2>1, <2>2, SettledOnly DEF jobVars
  <2> QED
    BY <2>4, <2>5, <2>6, <2>7, <2>8, <2>9
<1>4. CASE StartRefused(o)
  <2>1. UNCHANGED <<jobVars, store, waitVars, scope, owned, service, all>>
    BY <1>4 DEF StartRefused
  <2>2. TypeOK'
    BY <1>4, <2>1 DEF StartRefused, TypeOK, jobVars, waitVars
  <2>3. Records' /\ Waits' /\ ToldExactlyOnce' /\ Claimed' /\ LimitHolds'
    BY <2>1 DEF Records, Waits, ToldExactlyOnce, Claimed, LimitHolds, Active, Carries,
                jobVars, waitVars
  <2>4. Ownership'
    BY <1>4, <2>1 DEF StartRefused, Owns, Ownership, TypeOK, jobVars
  <2> QED
    BY <2>2, <2>3, <2>4
<1> QED
  BY <1>1, <1>2, <1>3, <1>4

LEMMA ServiceStepsKeep ==
  ASSUME IInv, DisposeService \/ ServiceCleanup \/ ServiceGone
  PROVE  IInv'
<1> USE DEF IInv
<1>1. CASE DisposeService
  BY <1>1 DEF DisposeService, TypeOK, Records, Waits, ToldExactlyOnce, Claimed, Ownership,
              LimitHolds, Active, Carries, jobVars, waitVars, scopeVars
<1>2. CASE ServiceCleanup
  <2>0. store \in SUBSET store /\ CancelForTeardown(store) /\ UNCHANGED <<store, waitFor>>
    BY <1>2 DEF ServiceCleanup
  <2>1. /\ Records' /\ Waits' /\ ToldExactlyOnce'
        /\ status' \in [Job -> {"absent", "running", "stopping", "settled"}]
        /\ producer' \in [Job -> {"none", "live", "cancelled", "done"}]
        /\ reported' \in [Job -> BOOLEAN] /\ told' \in [Job -> BOOLEAN]
        /\ notices' \in [Job -> Nat]
        /\ wait' \in [Wait -> {"idle", "waiting", "expired", "released", "aborted",
                               "rejected", "live", "terminal"}]
        /\ \A j \in Job : Active(j)' => Active(j)
        /\ \A j \in store : Active(j) => reported'[j]
    BY <2>0, CancelKeeps
  <2>2. TypeOK'
    BY <1>2, <2>1 DEF ServiceCleanup, TypeOK, scopeVars
  <2>3. Claimed'
    BY <1>2, <2>1 DEF ServiceCleanup, Claimed, Records
  <2>4. Ownership'
    BY <1>2 DEF ServiceCleanup, Ownership, scopeVars
  <2>5. LimitHolds'
    BY <1>2, <2>1, SettledOnly DEF ServiceCleanup
  <2> QED
    BY <2>1, <2>2, <2>3, <2>4, <2>5
<1>3. CASE ServiceGone
  <2>1. \A j \in Job : ~Active(j)
    BY <1>3 DEF ServiceGone, Claimed, Active
  <2>2. \A j \in Job : ~Active(j)'
    BY <1>3, <2>1 DEF ServiceGone, Active, jobVars
  <2>3. TypeOK'
    BY <1>3 DEF ServiceGone, TypeOK, jobVars, waitVars
  <2>4. Records' /\ Claimed'
    BY <1>3, <2>2 DEF ServiceGone, Records, Claimed, jobVars
  <2>5. Waits' /\ ToldExactlyOnce'
    BY <1>3 DEF ServiceGone, Waits, ToldExactlyOnce, Carries, Active, jobVars, waitVars
  <2>7. Ownership'
    BY <1>3 DEF ServiceGone, Ownership
  <2>6. LimitHolds'
    BY <1>3, <2>2, SettledOnly DEF ServiceGone, jobVars
  <2> QED
    BY <2>3, <2>4, <2>5, <2>6, <2>7
<1> QED
  BY <1>1, <1>2, <1>3

-----------------------------------------------------------------------------
(* The theorems.                                                           *)

(* From the empty registry on, every step of every operation keeps the     *)
(* inductive invariant.                                                    *)
THEOREM JobsInvariance == Spec => []IInv
<1>1. Init => IInv
  <2> SUFFICES ASSUME Init PROVE IInv
    OBVIOUS
  <2>1. TypeOK /\ Records /\ Waits /\ ToldExactlyOnce /\ Claimed /\ Ownership
    BY DEF Init, TypeOK, Records, Waits, ToldExactlyOnce, Claimed, Ownership, Active
  <2>2. LimitHolds
    <3>1. \A o \in Owner \cup {Nobody} :
            {j \in Job : owner[j] = o /\ status[j] \in {"running", "stopping"}} = {}
      BY DEF Init
    <3> QED
      BY <3>1, FS_EmptySet, LimitAssumption DEF LimitHolds
  <2> QED
    BY <2>1, <2>2 DEF IInv
<1>2. IInv /\ [Next]_vars => IInv'
  <2> SUFFICES ASSUME IInv, [Next]_vars PROVE IInv'
    OBVIOUS
  <2>1. CASE UNCHANGED vars
    BY <2>1 DEF IInv, TypeOK, Records, Waits, ToldExactlyOnce, Claimed, Ownership, LimitHolds,
                Active, Carries, vars, jobVars, waitVars, scopeVars
  <2>2. CASE Next
    BY <2>2, StartKeeps, ProducerSettlesKeeps, RecordStepsKeep, WaitStepsKeep,
       OwnerStepsKeep, ServiceStepsKeep DEF Next
  <2> QED
    BY <2>1, <2>2
<1> QED
  BY <1>1, <1>2, PTL DEF Spec

(* However waits expire or abort around a settlement, and whatever late    *)
(* outcome follows, a completion is announced, carried by a wait or        *)
(* answered for by a kill or teardown: once, and by exactly one of these.  *)
THEOREM ToldExactlyOnceAlways == Spec => []ToldExactlyOnce
<1>1. IInv => ToldExactlyOnce
  BY DEF IInv
<1> QED
  BY <1>1, JobsInvariance, PTL

(* disposeOwned and disposeAll end with every job they own settled and     *)
(* without a record, also for jobs started while the scope unloaded.       *)
THEOREM NothingOutlivesAlways == Spec => []NothingOutlives
<1>1. IInv => NothingOutlives
  BY DEF IInv, NothingOutlives, Ownership, Records, Claimed, Active, TypeOK
<1> QED
  BY <1>1, JobsInvariance, PTL

(* Admission bounds the jobs that run or are still stopping, per owner.    *)
THEOREM LimitHoldsAlways == Spec => []LimitHolds
<1>1. IInv => LimitHolds
  BY DEF IInv
<1> QED
  BY <1>1, JobsInvariance, PTL
=============================================================================

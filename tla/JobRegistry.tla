----------------------------- MODULE JobRegistry -----------------------------
(***************************************************************************)
(* The process-local registry of background jobs,                          *)
(* packages/jobs/jobs-local/src/index.ts: admission, the first settlement  *)
(* and who hears of it, waits that expire or are aborted around it, and    *)
(* the teardowns of one owner and of the service.                          *)
(*                                                                         *)
(* An action is one JavaScript job.  What a settlement or an abort decides *)
(* synchronously is one step; the tail of a wait runs in a later one.      *)
(* A kill whose cancel throws changes nothing and has no action.  No       *)
(* producer starts, kills or tears down jobs from within its own run or    *)
(* cancel.  Ids, labels, output and the fence between sessions are left    *)
(* out.                                                                    *)
(*                                                                         *)
(* A definition under a "Fault:" line is a plausible bug that a property   *)
(* catches when it replaces the definition below it; no action uses it.    *)
(***************************************************************************)
EXTENDS Naturals, FiniteSets

CONSTANTS Job,     \* jobs ever started
          Owner,   \* agents that own jobs
          Nobody,  \* the bucket of unowned jobs
          Wait,    \* calls of wait
          Limit    \* maxConcurrentJobsPerOwner

ASSUME JobAssumption == IsFiniteSet(Job)
ASSUME OwnersAssumption == Nobody \notin Owner
ASSUME LimitAssumption == Limit \in Nat \ {0}

VARIABLES
  status,     \* of each job: "absent", "running", "stopping" or "settled"
  owner,      \* its owner
  producer,   \* its work: "none", "live", "cancelled" or "done"
  reported,   \* its record needs no completion notice
  notices,    \* history: times it was announced unreported
  told,       \* history: a kill or a teardown answered for it before it settled
  store,      \* jobs with a record
  waitFor,    \* the job each wait is about
  wait,       \* "idle", "waiting", "expired", "released", "aborted",
              \*   "rejected", "live" (returned a live job) or "terminal"
  scope,      \* of each owner: "live", "unloading", "draining" or "disposed"
  cleanups,   \* owners with an attached cleanup
  owned,      \* the jobs each draining cleanup awaits
  service,    \* "up", "unloading", "draining" or "down"
  all         \* the jobs the service's teardown awaits

jobVars  == <<status, owner, producer, reported, notices, told>>
waitVars == <<waitFor, wait>>
scopeVars == <<scope, cleanups, owned>>
vars == <<jobVars, store, waitVars, scopeVars, service, all>>

Init ==
  /\ status = [j \in Job |-> "absent"]
  /\ owner = [j \in Job |-> Nobody]
  /\ producer = [j \in Job |-> "none"]
  /\ reported = [j \in Job |-> FALSE]
  /\ notices = [j \in Job |-> 0]
  /\ told = [j \in Job |-> FALSE]
  /\ store = {}
  /\ waitFor \in [Wait -> Job] /\ wait = [w \in Wait |-> "idle"]
  /\ scope = [o \in Owner |-> "live"] /\ cleanups = {}
  /\ owned = [o \in Owner |-> {}]
  /\ service = "up" /\ all = {}

-----------------------------------------------------------------------------
(* Admission.                                                              *)

\* Fault: a job that was asked to stop no longer counts.
RunningOf(o) == {j \in store : owner[j] = o /\ status[j] = "running"}

ActiveOf(o) == {j \in store : owner[j] = o /\ status[j] \in {"running", "stopping"}}

(* The owner is registered, and its cleanup is attached or can be: a scope *)
(* that unloads refuses new effects.                                       *)
Owns(o) ==
  o \in Owner =>
    scope[o] \in (IF o \in cleanups THEN {"live", "unloading", "draining"} ELSE {"live"})

(* The limit is reached, or run throws, once the cleanup is attached.      *)
StartRefused(o) ==
  /\ service = "up" /\ Owns(o)
  /\ cleanups' = cleanups \cup {o}
  /\ UNCHANGED <<jobVars, store, waitVars, scope, owned, service, all>>

(* A service that unloads is no longer handed out.                         *)
Start(j, o) ==
  /\ service = "up" /\ status[j] = "absent"
  /\ Owns(o)
  /\ Cardinality(ActiveOf(o)) < Limit
  /\ status' = [status EXCEPT ![j] = "running"]
  /\ owner' = [owner EXCEPT ![j] = o]
  /\ producer' = [producer EXCEPT ![j] = "live"]
  /\ store' = store \cup {j}
  /\ cleanups' = cleanups \cup ({o} \ {Nobody})
  /\ UNCHANGED <<reported, notices, told, waitVars, scope, owned, service, all>>

-----------------------------------------------------------------------------
(* Settlement.                                                             *)

\* Fault: an aborted wait is uncounted only when its tail runs.
CountedToTheEnd == {"waiting", "expired", "released", "aborted"}

Counted == {"waiting", "expired", "released"}

Waiters(j) == {w \in Wait : waitFor[w] = j /\ wait[w] \in Counted}

(* The first outcome of each job in S: waits are released and make it      *)
(* reported; then it is announced.  A claimed job is reported beforehand.  *)
Settle(S, claimed) ==
  LET hushed == {j \in S : reported[j] \/ j \in claimed \/ Waiters(j) # {}}
  IN /\ status' = [j \in Job |-> IF j \in S THEN "settled"
                                 ELSE IF j \in claimed THEN "stopping" ELSE status[j]]
     /\ reported' = [j \in Job |-> reported[j] \/ j \in claimed \cup hushed]
     /\ wait' = [w \in Wait |-> IF wait[w] = "waiting" /\ waitFor[w] \in S
                                  THEN "released" ELSE wait[w]]
     /\ notices' = [j \in Job |-> IF j \in S \ hushed /\ service \in {"up", "unloading"}
                                    THEN notices[j] + 1 ELSE notices[j]]

(* A late outcome finds the record settled.                                *)
FirstOutcome(j) == {k \in {j} : status[k] # "settled"}

(* The producer's promise settles, perhaps after a teardown gave up on it. *)
ProducerSettles(j) ==
  /\ producer[j] \in {"live", "cancelled"}
  /\ producer' = [producer EXCEPT ![j] = "done"]
  /\ Settle(FirstOutcome(j), {})
  /\ UNCHANGED <<owner, told, store, waitFor, scopeVars, service, all>>

-----------------------------------------------------------------------------
(* Operations on a record.                                                 *)

(* A read or a kill of a settled job.                                      *)
Collect(j) ==
  /\ service = "up" /\ j \in store /\ status[j] = "settled"
  /\ reported' = [reported EXCEPT ![j] = TRUE]
  /\ UNCHANGED <<status, owner, producer, notices, told, store, waitVars,
                 scopeVars, service, all>>

Kill(j) ==
  /\ service = "up" /\ j \in store /\ status[j] \in {"running", "stopping"}
  /\ status' = [status EXCEPT ![j] = "stopping"]
  /\ reported' = [reported EXCEPT ![j] = TRUE]
  /\ told' = [told EXCEPT ![j] = TRUE]
  /\ producer' = [producer EXCEPT ![j] = IF @ = "live" THEN "cancelled" ELSE @]
  /\ UNCHANGED <<owner, notices, store, waitVars, scopeVars, service, all>>

MoveWait(w, from, to) ==
  /\ wait[w] = from
  /\ wait' = [wait EXCEPT ![w] = to]
  /\ UNCHANGED <<waitFor, store, scopeVars, service, all>>

(* A wait for a settled job returns at once, which is a Collect.           *)
BeginWait(w) ==
  /\ service = "up" /\ waitFor[w] \in store
  /\ status[waitFor[w]] \in {"running", "stopping"}
  /\ MoveWait(w, "idle", "waiting")
  /\ UNCHANGED jobVars

WaitExpires(w) == MoveWait(w, "waiting", "expired") /\ UNCHANGED jobVars

(* The abort listener is detached when the wait is resolved.               *)
WaitAborted(w) == MoveWait(w, "waiting", "aborted") /\ UNCHANGED jobVars

WaitRejects(w) == MoveWait(w, "aborted", "rejected") /\ UNCHANGED jobVars

(* The tail of a resolved wait looks at the record again.                  *)
WaitReturns(w) ==
  /\ wait[w] \in {"expired", "released"}
  /\ LET j    == waitFor[w]
         over == status[j] = "settled"
     IN /\ reported' = [reported EXCEPT ![j] = @ \/ over]
        /\ MoveWait(w, wait[w], IF over THEN "terminal" ELSE "live")
  /\ UNCHANGED <<status, owner, producer, notices, told>>

-----------------------------------------------------------------------------
(* Teardown.                                                               *)

\* Fault: a cancel that throws leaves its job to its producer.
ForcedNever(throwing) == {}

Forced(throwing) == throwing

(* Each live job of S is claimed, then cancelled; one whose cancel throws  *)
(* is settled on the spot.                                                 *)
CancelForTeardown(S) ==
  LET live == {j \in S : status[j] # "settled"}
  IN \E throwing \in SUBSET live :
       /\ told' = [j \in Job |-> told[j] \/ j \in live]
       /\ producer' = [j \in Job |-> IF j \in live \ throwing /\ producer[j] = "live"
                                       THEN "cancelled" ELSE producer[j]]
       /\ Settle(Forced(throwing), live)

DisposeOwner(o) ==
  /\ scope[o] = "live"
  /\ scope' = [scope EXCEPT ![o] = "unloading"]
  /\ UNCHANGED <<jobVars, store, waitVars, cleanups, owned, service, all>>

\* Fault: the cleanup is forgotten only once it is over.
StillAttached(o) == cleanups

Detached(o) == cleanups \ {o}

(* disposeOwned, as the effect of the unloading scope.                     *)
OwnerCleanup(o) ==
  /\ scope[o] = "unloading" /\ o \in cleanups
  /\ scope' = [scope EXCEPT ![o] = "draining"]
  /\ cleanups' = Detached(o)
  /\ owned' = [owned EXCEPT ![o] = {j \in store : owner[j] = o}]
  /\ CancelForTeardown(owned'[o])
  /\ UNCHANGED <<owner, store, waitFor, service, all>>

OwnerGone(o) ==
  /\ \/ scope[o] = "draining" /\ \A j \in owned[o] : status[j] = "settled"
     \/ scope[o] = "unloading" /\ o \notin cleanups
  /\ scope' = [scope EXCEPT ![o] = "disposed"]
  /\ store' = store \ owned[o]
  /\ UNCHANGED <<jobVars, waitVars, cleanups, owned, service, all>>

DisposeService ==
  /\ service = "up"
  /\ service' = "unloading"
  /\ UNCHANGED <<jobVars, store, waitVars, scopeVars, all>>

(* disposeAll; it closes the listeners before it cancels.                  *)
ServiceCleanup ==
  /\ service = "unloading"
  /\ service' = "draining"
  /\ all' = store
  /\ CancelForTeardown(store)
  /\ UNCHANGED <<owner, store, waitFor, scopeVars>>

(* Owner cleanups are then detached; they find an empty store.             *)
ServiceGone ==
  /\ service = "draining" /\ \A j \in all : status[j] = "settled"
  /\ service' = "down"
  /\ store' = {}
  /\ cleanups' = {}
  /\ UNCHANGED <<jobVars, waitVars, scope, owned, all>>

-----------------------------------------------------------------------------

Next ==
  \/ \E j \in Job : \/ \E o \in Owner \cup {Nobody} : Start(j, o)
                    \/ ProducerSettles(j) \/ Collect(j) \/ Kill(j)
  \/ \E w \in Wait : \/ BeginWait(w) \/ WaitExpires(w) \/ WaitAborted(w)
                     \/ WaitRejects(w) \/ WaitReturns(w)
  \/ \E o \in Owner : StartRefused(o) \/ DisposeOwner(o) \/ OwnerCleanup(o) \/ OwnerGone(o)
  \/ DisposeService \/ ServiceCleanup \/ ServiceGone

Spec == Init /\ [][Next]_vars

(* Queued jobs run, and a producer whose cancel returned settles; one that *)
(* is not cancelled may run forever.                                       *)
Fairness ==
  /\ \A j \in Job : WF_vars(producer[j] = "cancelled" /\ ProducerSettles(j))
  /\ \A o \in Owner : WF_vars(OwnerCleanup(o) \/ OwnerGone(o))
  /\ WF_vars(ServiceCleanup \/ ServiceGone)

LiveSpec == Spec /\ Fairness

-----------------------------------------------------------------------------
(* Properties.                                                             *)

(* The state is well typed.                                                *)
TypeOK ==
  /\ status \in [Job -> {"absent", "running", "stopping", "settled"}]
  /\ owner \in [Job -> Owner \cup {Nobody}]
  /\ producer \in [Job -> {"none", "live", "cancelled", "done"}]
  /\ reported \in [Job -> BOOLEAN] /\ told \in [Job -> BOOLEAN]
  /\ notices \in [Job -> Nat]
  /\ store \in SUBSET Job
  /\ waitFor \in [Wait -> Job]
  /\ wait \in [Wait -> {"idle", "waiting", "expired", "released", "aborted",
                        "rejected", "live", "terminal"}]
  /\ scope \in [Owner -> {"live", "unloading", "draining", "disposed"}]
  /\ cleanups \in SUBSET Owner
  /\ owned \in [Owner -> SUBSET Job]
  /\ service \in {"up", "unloading", "draining", "down"}
  /\ all \in SUBSET Job

(* A wait that carries, or will carry, the outcome of its job.             *)
Carries(w) ==
  \/ wait[w] \in {"released", "terminal"}
  \/ wait[w] = "expired" /\ status[waitFor[w]] = "settled"

(* A completion is told exactly once: it is announced once, or a kill or a *)
(* teardown answered for it, or a wait carries it, and then it is not      *)
(* announced.  No abort, expiry or late outcome in between swallows a      *)
(* completion or repeats it.                                               *)
ToldExactlyOnce ==
  \A j \in Job : status[j] = "settled" =>
    LET carried == \E w \in Wait : waitFor[w] = j /\ Carries(w)
    IN /\ notices[j] <= 1
       /\ notices[j] = 0 => told[j] \/ carried
       /\ notices[j] = 1 => ~told[j] /\ ~carried

(* Teardown leaves nothing behind: a disposed owner and a stopped service  *)
(* have no record and no job that is not settled, also when jobs start     *)
(* while the owner's scope unloads.                                        *)
NothingOutlives ==
  /\ \A o \in Owner : scope[o] = "disposed" =>
       \A j \in Job : owner[j] = o => j \notin store /\ status[j] \in {"absent", "settled"}
  /\ service = "down" => \A j \in Job : status[j] \in {"absent", "settled"}

(* No owner has more than Limit jobs that run or are still stopping.       *)
LimitHolds ==
  \A o \in Owner \cup {Nobody} :
    Cardinality({j \in Job : owner[j] = o /\ status[j] \in {"running", "stopping"}}) <= Limit

(* Teardowns end, although a cancel may throw and a producer that was never *)
(* asked to stop may run forever: an owner's ends also when the service    *)
(* goes down first.                                                        *)
TeardownEnds ==
  /\ \A o \in Owner : (scope[o] = "unloading") ~> (scope[o] = "disposed")
  /\ (service = "unloading") ~> (service = "down")
=============================================================================

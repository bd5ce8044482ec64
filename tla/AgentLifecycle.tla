---------------------------- MODULE AgentLifecycle ----------------------------
(***************************************************************************)
(* How agents come to life and go: the factory and its ownership,          *)
(* packages/core/agent-loop/src/index.ts, over the registries of sessions  *)
(* and agents, packages/core/session/src/index.ts and                      *)
(* packages/core/agent/src/index.ts.                                       *)
(*                                                                         *)
(* A lifecycle is one call of create, createAgent or resume, or one        *)
(* configured start.  The fiber that owns it, the factory, its caller and  *)
(* the holder of its handle may each end it at any point; they race with   *)
(* the load, the setup, the publication and with other lifecycles of the   *)
(* same id.  An action is one JavaScript job: publication is a single job, *)
(* in which listeners may throw or abort the caller's signal.  A call that *)
(* is refused before it changes anything has no action, and fibers are not *)
(* restarted.                                                              *)
(*                                                                         *)
(* A definition under a "Fault:" line is a plausible bug that a property   *)
(* catches when it replaces the definition below it; no action uses it.    *)
(***************************************************************************)
EXTENDS Naturals, Sequences

CONSTANTS Life,   \* lifecycles ever begun
          Id,     \* shared agent and session identities
          Owner,  \* fibers of other plugins that own lifecycles
          Loop,   \* the factory's own fiber, owner of configured starts
          None

ASSUME LoopAssumption == Loop \notin Owner
ASSUME NoneAssumption == None \notin Life

VARIABLES
  at,        \* of each lifecycle, where its caller's continuation is (Phase)
  idOf,      \* its id
  ownerOf,   \* the fiber that owns it
  abort,     \* its fused signal is aborted
  prep,      \* its caller's preparation: "none", "reading", "held" or "released"
  driver,    \* its driver: "none", "built" or "stopped"
  teardown,  \* its memoized disposal: "no", "draining", "rejected" or "done"
  follow,    \* its effect on the owner: "none", "load", "attached", "running" or "gone"
  edges,     \* history: what was announced of it
  sessionAt, \* the lifecycle whose session holds an id
  agentAt,   \* the lifecycle whose agent holds an id
  fiber,     \* of each owner: "active", "unloading" or "gone"
  factory,   \* "active", "unloading", "draining" or "down"
  awaited    \* the teardowns the factory's disposal joined

lifeVars == <<at, idOf, ownerOf, abort, prep, driver, teardown, follow, edges>>
registryVars == <<sessionAt, agentAt>>
fiberVars == <<fiber, factory, awaited>>
vars == <<lifeVars, registryVars, fiberVars>>

(* A configured start may wait for an id ("waiting", "woken") and fall     *)
(* back to creating it ("fallback").                                       *)
InFlight == {"waiting", "woken", "loading", "loaded", "fallback", "setup", "ready",
             "failing"}
Phase == InFlight \cup {"none", "live", "failed"}

Init ==
  /\ at = [l \in Life |-> "none"]
  /\ idOf \in [Life -> Id]
  /\ ownerOf \in [Life -> Owner \cup {Loop}]
  /\ abort = [l \in Life |-> FALSE]
  /\ prep = [l \in Life |-> "none"]
  /\ driver = [l \in Life |-> "none"]
  /\ teardown = [l \in Life |-> "no"]
  /\ follow = [l \in Life |-> "none"]
  /\ edges = [l \in Life |-> <<>>]
  /\ sessionAt = [i \in Id |-> None] /\ agentAt = [i \in Id |-> None]
  /\ fiber = [o \in Owner |-> "active"]
  /\ factory = "active" /\ awaited = {}

-----------------------------------------------------------------------------
(* Parts of jobs.                                                          *)

(* The owner accepts effects and the factory is active.                    *)
Accepts(l) ==
  /\ factory = "active"
  /\ ownerOf[l] \in Owner => fiber[ownerOf[l]] = "active"

Free(i) == sessionAt[i] = None /\ agentAt[i] = None

Move(l, phase) == at' = [at EXCEPT ![l] = phase]

(* The caller's `using` block ends.                                        *)
ReleasePreparation(l) ==
  prep' = [prep EXCEPT ![l] = IF @ = "held" THEN "released" ELSE @]

(* The first call of dispose; every other one joins it.                    *)
BeginTeardown(S) ==
  /\ abort' = [l \in Life |-> abort[l] \/ l \in S]
  /\ teardown' = [l \in Life |-> IF l \in S /\ teardown[l] = "no"
                                   THEN "draining" ELSE teardown[l]]

-----------------------------------------------------------------------------
(* Starting.                                                               *)

(* prepare: the driver is built under its effect on the owner.  A          *)
(* constructor that throws leaves a teardown nobody awaits.                *)
Prepare(l) ==
  /\ follow' = [follow EXCEPT ![l] = "attached"]
  /\ \/ /\ driver' = [driver EXCEPT ![l] = "built"]
        /\ Move(l, "setup")
        /\ UNCHANGED <<abort, teardown, prep>>
     \/ /\ Move(l, "failed")
        /\ BeginTeardown({l})
        /\ ReleasePreparation(l)
        /\ UNCHANGED driver
  /\ UNCHANGED <<idOf, ownerOf, edges, registryVars, fiberVars>>

CreateAgent(l) == at[l] = "none" /\ Accepts(l) /\ Prepare(l)

BeginLoad(l) ==
  /\ Move(l, "loading")
  /\ prep' = [prep EXCEPT ![l] = "reading"]
  /\ follow' = [follow EXCEPT ![l] = "load"]
  /\ UNCHANGED <<idOf, ownerOf, abort, driver, teardown, edges, registryVars, fiberVars>>

Resume(l) == at[l] = "none" /\ Accepts(l) /\ BeginLoad(l)

(* restoreOrCreateConfigured on an id that a lifecycle still occupies; on  *)
(* a free one it is a Resume.                                              *)
WaitForDraining(l) ==
  /\ at[l] = "none" /\ ownerOf[l] = Loop /\ factory = "active"
  /\ ~Free(idOf[l])
  /\ Move(l, "waiting")
  /\ UNCHANGED <<idOf, ownerOf, abort, prep, driver, teardown, follow, edges,
                 registryVars, fiberVars>>

(* raceAbortCall: the load wins only if nothing aborted before; one that   *)
(* comes too late is released at once.                                     *)
LoadReturns(l) ==
  /\ prep[l] = "reading"
  /\ \/ /\ at[l] = "loading" /\ ~abort[l]
        /\ Move(l, "loaded")
        /\ prep' = [prep EXCEPT ![l] = "held"]
        /\ follow' = [follow EXCEPT ![l] = "gone"]
     \/ /\ at[l] # "loading"
        /\ prep' = [prep EXCEPT ![l] = "released"]
        /\ UNCHANGED <<at, follow>>
  /\ UNCHANGED <<idOf, ownerOf, abort, driver, teardown, edges, registryVars, fiberVars>>

(* A configured start whose artifact does not exist is created instead.    *)
LoadFails(l) ==
  /\ at[l] = "loading"
  /\ \/ abort[l] /\ UNCHANGED prep
     \/ prep' = [prep EXCEPT ![l] = "none"]
  /\ \/ Move(l, "failed")
     \/ ownerOf[l] = Loop /\ Move(l, "fallback")
  /\ follow' = [follow EXCEPT ![l] = "gone"]
  /\ UNCHANGED <<idOf, ownerOf, abort, driver, teardown, edges, registryVars, fiberVars>>

\* Fault: a loaded session is used without looking at its owners again.
LoadTrusted(l) == TRUE

StillOwned(l) == Accepts(l) /\ ~abort[l]

(* The rest of resumeWith and the start of setupAndPublish.                *)
LoadedTail(l) ==
  /\ at[l] = "loaded"
  /\ IF StillOwned(l) THEN Prepare(l)
     ELSE /\ Move(l, "failed")
          /\ ReleasePreparation(l)
          /\ UNCHANGED <<idOf, ownerOf, abort, driver, teardown, follow, edges,
                         registryVars, fiberVars>>

SetupReturns(l) ==
  /\ at[l] = "setup" /\ ~abort[l]
  /\ Move(l, "ready")
  /\ UNCHANGED <<idOf, ownerOf, abort, prep, driver, teardown, follow, edges,
                 registryVars, fiberVars>>

(* The setup throws, or an abort overtakes it.                             *)
SetupFails(l) ==
  /\ at[l] = "setup"
  /\ Move(l, "failing")
  /\ BeginTeardown({l})
  /\ UNCHANGED <<idOf, ownerOf, prep, driver, follow, edges, registryVars, fiberVars>>

-----------------------------------------------------------------------------
(* Publication.                                                            *)

Created(part) == <<part, "created">>

Enter(l) ==
  /\ sessionAt' = [sessionAt EXCEPT ![idOf[l]] = l]
  /\ agentAt' = [agentAt EXCEPT ![idOf[l]] = l]

Undisturbed(l) == ~abort[l]

(* enter, announce and the checks between them.  It ends with phase over   *)
(* if everything went well, else with other and a teardown.  A listener    *)
(* that throws or aborts vetoes it, after the session or after both have   *)
(* been announced.                                                         *)
PublishTo(l, over, other) ==
  \/ /\ Undisturbed(l) /\ Free(idOf[l])
     /\ Enter(l)
     /\ edges' = [edges EXCEPT ![l] = <<Created("session"), Created("agent")>>]
     /\ Move(l, over)
     /\ UNCHANGED <<abort, teardown>>
  \/ /\ Undisturbed(l) /\ Free(idOf[l])
     /\ Enter(l)
     /\ edges' \in {[edges EXCEPT ![l] = <<Created("session")>>],
                    [edges EXCEPT ![l] = <<Created("session"), Created("agent")>>]}
     /\ Move(l, other)
     /\ BeginTeardown({l})
  \/ /\ ~(Undisturbed(l) /\ Free(idOf[l]))
     /\ Move(l, other)
     /\ BeginTeardown({l})
     /\ UNCHANGED <<edges, registryVars>>

Publish(l) ==
  /\ at[l] = "ready"
  /\ PublishTo(l, "live", "failing")
  /\ IF at'[l] = "live" THEN ReleasePreparation(l) ELSE UNCHANGED prep
  /\ UNCHANGED <<idOf, ownerOf, driver, follow, fiberVars>>

(* create: preparation and publication in one job; its failure awaits no   *)
(* teardown.                                                               *)
Create(l) ==
  /\ at[l] \in {"none", "fallback"} /\ Accepts(l)
  /\ follow' = [follow EXCEPT ![l] = "attached"]
  /\ driver' = [driver EXCEPT ![l] = "built"]
  /\ PublishTo(l, "live", "failed")
  /\ UNCHANGED <<idOf, ownerOf, prep, fiberVars>>

(* The artifact exists, or the factory is not active any more.             *)
FallbackFails(l) ==
  /\ at[l] = "fallback"
  /\ Move(l, "failed")
  /\ UNCHANGED <<idOf, ownerOf, abort, prep, driver, teardown, follow, edges,
                 registryVars, fiberVars>>

(* The rejection waits for the teardown.                                   *)
CreationRejects(l) ==
  /\ at[l] = "failing" /\ teardown[l] \in {"rejected", "done"}
  /\ Move(l, "failed")
  /\ ReleasePreparation(l)
  /\ UNCHANGED <<idOf, ownerOf, abort, driver, teardown, follow, edges,
                 registryVars, fiberVars>>

-----------------------------------------------------------------------------
(* Ending.                                                                 *)

(* Only creations for a caller have a signal of their own.                 *)
CallerAborts(l) ==
  /\ ownerOf[l] \in Owner /\ at[l] \in {"loading", "loaded", "setup", "ready"}
  /\ abort' = [abort EXCEPT ![l] = TRUE]
  /\ UNCHANGED <<at, idOf, ownerOf, prep, driver, teardown, follow, edges,
                 registryVars, fiberVars>>

DisposeHandle(l) ==
  /\ at[l] = "live" /\ teardown[l] = "no"
  /\ BeginTeardown({l})
  /\ UNCHANGED <<at, idOf, ownerOf, prep, driver, follow, edges, registryVars, fiberVars>>

\* Fault: a lifecycle leaves the registries by its id.
EnteredById(l) == TRUE

Entered(l) == sessionAt[idOf[l]] = l

\* Fault: the session leaves before the agent.
SessionFirst == <<"session", "agent">>

Departure == <<"agent", "session">>

Disposed(l, part) ==
  IF \E n \in DOMAIN edges[l] : edges[l][n] = Created(part)
  THEN <<<<part, "disposed">>>> ELSE <<>>

(* detachAgent, then detachSession: what was announced is told to be over. *)
(* A waiter looks at the registries when it is told so, and goes on once   *)
(* both are free of the id.                                                *)
Leave(l) ==
  IF Entered(l)
  THEN /\ sessionAt' = [sessionAt EXCEPT ![idOf[l]] = None]
       /\ agentAt' = [agentAt EXCEPT ![idOf[l]] = None]
       /\ edges' = [edges EXCEPT ![l] =
                      @ \o Disposed(l, Departure[1]) \o Disposed(l, Departure[2])]
       /\ at' = [w \in Life |->
                   IF at[w] = "waiting" /\ idOf[w] = idOf[l]
                      /\ Disposed(l, Departure[2]) # <<>>
                   THEN "woken" ELSE at[w]]
  ELSE UNCHANGED <<registryVars, edges, at>>

(* The driver is idle and its scope disposed; the effect is withdrawn,     *)
(* unless the owner runs it.                                               *)
EndTeardown(l) ==
  /\ teardown[l] = "draining"
  /\ driver' = [driver EXCEPT ![l] = IF @ = "built" THEN "stopped" ELSE @]
  /\ Leave(l)
  /\ teardown' = [teardown EXCEPT ![l] = "done"]
  /\ follow' = [follow EXCEPT ![l] = "gone"]
  /\ UNCHANGED <<idOf, ownerOf, abort, prep, fiberVars>>

(* dispose called by an observer of an append while messages are pending:  *)
(* cancel's clear may not append and throws before it aborts the driver,   *)
(* which runs on while the finally blocks let go of it.                    *)
DisposeInsideAppend(l) ==
  /\ at[l] = "live" /\ teardown[l] = "no"
  /\ abort' = [abort EXCEPT ![l] = TRUE]
  /\ teardown' = [teardown EXCEPT ![l] = "rejected"]
  /\ Leave(l)
  /\ follow' = [follow EXCEPT ![l] = "gone"]
  /\ UNCHANGED <<idOf, ownerOf, prep, driver, fiberVars>>

(* waitForDrainingConfiguredIdentity returns.                              *)
WaiterResumes(l) ==
  /\ \/ at[l] = "woken"
     \/ at[l] = "waiting" /\ factory \in {"draining", "down"}
  /\ IF factory = "active" THEN BeginLoad(l)
     ELSE /\ Move(l, "failed")
          /\ UNCHANGED <<idOf, ownerOf, abort, prep, driver, teardown, follow,
                         edges, registryVars, fiberVars>>

-----------------------------------------------------------------------------
(* Owners.                                                                 *)

UnloadOwner(o) ==
  /\ fiber[o] = "active"
  /\ fiber' = [fiber EXCEPT ![o] = "unloading"]
  /\ UNCHANGED <<lifeVars, registryVars, factory, awaited>>

(* The effect of a load, or the one of a lifecycle, which has nothing to   *)
(* do if a teardown already runs.                                          *)
OwnerEffect(l) ==
  /\ ownerOf[l] \in Owner /\ fiber[ownerOf[l]] = "unloading"
  /\ \/ /\ follow[l] = "load"
        /\ follow' = [follow EXCEPT ![l] = "gone"]
        /\ abort' = [abort EXCEPT ![l] = TRUE]
        /\ UNCHANGED teardown
     \/ /\ follow[l] = "attached" /\ teardown[l] = "no"
        /\ follow' = [follow EXCEPT ![l] = "running"]
        /\ BeginTeardown({l})
     \/ /\ follow[l] = "attached" /\ teardown[l] # "no"
        /\ follow' = [follow EXCEPT ![l] = "gone"]
        /\ UNCHANGED <<abort, teardown>>
  /\ UNCHANGED <<at, idOf, ownerOf, prep, driver, edges, registryVars, fiberVars>>

OwnerGone(o) ==
  /\ fiber[o] = "unloading"
  /\ \A l \in Life : ownerOf[l] = o => follow[l] \in {"none", "gone"}
  /\ fiber' = [fiber EXCEPT ![o] = "gone"]
  /\ UNCHANGED <<lifeVars, registryVars, factory, awaited>>

UnloadFactory ==
  /\ factory = "active"
  /\ factory' = "unloading"
  /\ UNCHANGED <<lifeVars, registryVars, fiber, awaited>>

(* liveAgents.                                                             *)
Tracked ==
  {l \in Life : \/ teardown[l] = "draining"
                \/ teardown[l] = "no" /\ at[l] \in {"setup", "ready", "live"}}

(* FactoryOwnership.dispose; configured lifecycles' effects on this fiber  *)
(* run beside it and join it.                                              *)
DisposeFactory ==
  /\ factory = "unloading"
  /\ factory' = "draining"
  /\ awaited' = Tracked
  /\ abort' = [l \in Life |-> abort[l] \/ at[l] = "loading" \/ l \in Tracked]
  /\ teardown' = [l \in Life |-> IF l \in Tracked THEN "draining" ELSE teardown[l]]
  /\ UNCHANGED <<at, idOf, ownerOf, prep, driver, follow, edges, registryVars, fiber>>

FactoryDown ==
  /\ factory = "draining"
  /\ \A l \in awaited : teardown[l] = "done"
  /\ \A l \in Life : at[l] \notin InFlight
  /\ factory' = "down"
  /\ UNCHANGED <<lifeVars, registryVars, fiber, awaited>>

-----------------------------------------------------------------------------

Next ==
  \/ \E l \in Life :
       \/ CreateAgent(l) \/ Resume(l) \/ WaitForDraining(l) \/ Create(l)
       \/ LoadReturns(l) \/ LoadFails(l) \/ LoadedTail(l)
       \/ SetupReturns(l) \/ SetupFails(l) \/ Publish(l)
       \/ FallbackFails(l) \/ CreationRejects(l) \/ WaiterResumes(l)
       \/ CallerAborts(l) \/ DisposeHandle(l) \/ DisposeInsideAppend(l)
       \/ EndTeardown(l) \/ OwnerEffect(l)
  \/ \E o \in Owner : UnloadOwner(o) \/ OwnerGone(o)
  \/ UnloadFactory \/ DisposeFactory \/ FactoryDown

Spec == Init /\ [][Next]_vars

(* Queued jobs run, a backend lists its sessions, and a driver that is     *)
(* cancelled comes to rest.  A load or a setup may never return.           *)
Continues(l) ==
  \/ abort[l] /\ (LoadFails(l) \/ SetupFails(l))
  \/ LoadedTail(l) \/ Publish(l) \/ WaiterResumes(l)
  \/ at[l] = "fallback" /\ (Create(l) \/ FallbackFails(l))
  \/ CreationRejects(l) \/ EndTeardown(l) \/ OwnerEffect(l)

Fairness ==
  /\ \A l \in Life : WF_vars(Continues(l))
  /\ \A o \in Owner : WF_vars(OwnerGone(o))
  /\ WF_vars(DisposeFactory \/ FactoryDown)

LiveSpec == Spec /\ Fairness

-----------------------------------------------------------------------------
(* Properties.                                                             *)

(* What observers are told of a lifecycle while it is registered, and      *)
(* before and after.                                                       *)
Begun == {<<Created("session")>>, <<Created("session"), Created("agent")>>}
Half  == <<Created("session"), <<"session", "disposed">>>>
Whole == <<Created("session"), Created("agent"),
           <<"agent", "disposed">>, <<"session", "disposed">>>>
Over  == {<<>>, Half, Whole}

(* The state is well typed.                                                *)
TypeOK ==
  /\ at \in [Life -> Phase]
  /\ idOf \in [Life -> Id]
  /\ ownerOf \in [Life -> Owner \cup {Loop}]
  /\ abort \in [Life -> BOOLEAN]
  /\ prep \in [Life -> {"none", "reading", "held", "released"}]
  /\ driver \in [Life -> {"none", "built", "stopped"}]
  /\ teardown \in [Life -> {"no", "draining", "rejected", "done"}]
  /\ follow \in [Life -> {"none", "load", "attached", "running", "gone"}]
  /\ edges \in [Life -> Begun \cup Over]
  /\ sessionAt \in [Id -> Life \cup {None}] /\ agentAt \in [Id -> Life \cup {None}]
  /\ fiber \in [Owner -> {"active", "unloading", "gone"}]
  /\ factory \in {"active", "unloading", "draining", "down"}
  /\ awaited \in SUBSET Life

(* Observers see every lifecycle begin and end in pairs and in order, the  *)
(* agent within its session, and exactly while the registries hold it:     *)
(* however publication was vetoed, and whoever ended it.  A duplicate that *)
(* loses the race for an id never evicts the one that holds it.            *)
PairedAnnouncements ==
  \A l \in Life :
    IF sessionAt[idOf[l]] = l
    THEN agentAt[idOf[l]] = l /\ edges[l] \in Begun
    ELSE agentAt[idOf[l]] # l /\ edges[l] \in Over

(* Nothing outlives its owners.  When an owner has gone, each of its       *)
(* drivers is being disposed and each of its loads is given up; a factory  *)
(* that is down has no creation in flight, no driver but those whose       *)
(* disposal failed, no id and no preparation.  A preparation of a creation *)
(* that failed goes back only after its driver has stopped.                *)
NothingOutlives ==
  /\ \A l \in Life : ownerOf[l] \in Owner /\ fiber[ownerOf[l]] = "gone" =>
       /\ driver[l] = "built" => teardown[l] # "no"
       /\ at[l] = "loading" => abort[l]
  /\ factory = "down" => \A l \in Life :
       /\ at[l] \notin InFlight /\ prep[l] # "held"
       /\ driver[l] = "built" => teardown[l] = "rejected"
       /\ sessionAt[idOf[l]] # l
  /\ \A l \in Life : at[l] = "failed" /\ prep[l] = "released" => driver[l] # "built"

(* Creations that are called off settle, although the load or the setup    *)
(* may never return; a configured start that waits for an id goes on when  *)
(* its occupant has gone, and the fibers come down.                        *)
LifecyclesSettle ==
  /\ \A l \in Life : (at[l] \in InFlight /\ abort[l]) ~> (at[l] \notin InFlight)
  /\ \A l \in Life : (at[l] = "waiting" /\ Free(idOf[l])) ~> (at[l] # "waiting")
  /\ \A o \in Owner : (fiber[o] = "unloading") ~> (fiber[o] = "gone")
  /\ (factory = "unloading") ~> (factory = "down")

(* "An agent left the registry; AgentLoop emits this after driver          *)
(* quiescence": the driver of an agent announced as disposed has stopped.  *)
DisposedAfterQuiescence ==
  \A l \in Life : (\E n \in DOMAIN edges[l] : edges[l][n] = <<"agent", "disposed">>) =>
    driver[l] = "stopped"
=============================================================================

------------------------ MODULE AgentLifecycle_proofs ------------------------
(***************************************************************************)
(* The safety of AgentLifecycle for any number of lifecycles, ids and      *)
(* owners.  The inductive invariant ties the stage of each lifecycle to    *)
(* its driver, its teardown, its effect and its preparation, and the       *)
(* registries to the lifecycles they hold.                                 *)
(***************************************************************************)
EXTENDS AgentLifecycle, SequenceTheorems, TLAPS

Early == {"none", "waiting", "woken", "loading", "loaded", "fallback"}

(* Before its driver is built.                                             *)
Begins(l) ==
  /\ at[l] \in Early =>
       driver[l] = "none" /\ teardown[l] = "no" /\ edges[l] = <<>> /\ sessionAt[idOf[l]] # l
  /\ at[l] \in {"none", "waiting", "woken"} =>
       prep[l] = "none" /\ follow[l] = "none" /\ ~abort[l]
  /\ at[l] \in {"waiting", "woken"} => ownerOf[l] = Loop
  /\ at[l] = "loading" => follow[l] = "load" \/ (abort[l] /\ follow[l] = "gone")
  /\ at[l] = "loading" /\ ownerOf[l] = Loop /\ abort[l] => factory # "active"
  /\ at[l] = "fallback" => ownerOf[l] = Loop /\ (prep[l] = "none" \/ factory # "active")
  /\ follow[l] = "load" => at[l] = "loading"

(* From then on.                                                           *)
Runs(l) ==
  /\ at[l] \in {"setup", "ready"} => edges[l] = <<>> /\ sessionAt[idOf[l]] # l
  /\ driver[l] = "built" /\ teardown[l] = "no" =>
       follow[l] = "attached" /\ at[l] \in {"setup", "ready", "live"}
  /\ driver[l] # "built" /\ teardown[l] = "no" =>
       follow[l] \in {"none", "load", "gone"} /\ at[l] \in Early \cup {"failed"}
  /\ teardown[l] = "done" => driver[l] # "built" /\ follow[l] = "gone"
  /\ teardown[l] = "rejected" => at[l] = "live" /\ follow[l] = "gone"

Prepared(l) ==
  /\ prep[l] = "held" => at[l] \in {"loaded", "setup", "ready", "failing"}
  /\ prep[l] = "reading" =>
       at[l] \in {"loading", "fallback", "failed"} /\ driver[l] = "none"
  /\ at[l] = "failed" /\ prep[l] = "released" => driver[l] # "built"

(* What the registries hold is being run or disposed.                      *)
Registries ==
  /\ agentAt = sessionAt
  /\ \A i \in Id : sessionAt[i] # None =>
       LET l == sessionAt[i]
       IN /\ idOf[l] = i /\ edges[l] \in Begun
          /\ driver[l] = "built" /\ teardown[l] \in {"no", "draining"}
  /\ \A l \in Life : sessionAt[idOf[l]] # l => edges[l] \in Over

(* An owner that has gone has no effect left; the factory that disposes    *)
(* joins every teardown.                                                   *)
Owners ==
  /\ \A l \in Life : ownerOf[l] \in Owner /\ fiber[ownerOf[l]] = "gone" =>
       follow[l] \in {"none", "gone"}
  /\ factory \in {"draining", "down"} => \A l \in Life :
       /\ driver[l] = "built" => teardown[l] # "no"
       /\ teardown[l] = "draining" => l \in awaited
  /\ factory = "down" => \A l \in Life : at[l] \notin InFlight /\ teardown[l] # "draining"

(* What is being disposed has been aborted.                                *)
Aborts == \A l \in Life : teardown[l] # "no" => abort[l]

Stages == \A l \in Life : Begins(l) /\ Runs(l) /\ Prepared(l)

IInv == TypeOK /\ Stages /\ Aborts /\ Registries /\ Owners

-----------------------------------------------------------------------------
(* The steps.                                                              *)

LEMMA TeardownTypes ==
  ASSUME TypeOK, NEW S \in SUBSET Life, BeginTeardown(S)
  PROVE  /\ abort' \in [Life -> BOOLEAN]
         /\ teardown' \in [Life -> {"no", "draining", "rejected", "done"}]
  BY DEF TypeOK, BeginTeardown

LEMMA TeardownOf ==
  ASSUME TypeOK, NEW l \in Life, BeginTeardown({l})
  PROVE  /\ abort' \in [Life -> BOOLEAN] /\ abort'[l]
         /\ teardown' \in [Life -> {"no", "draining", "rejected", "done"}]
         /\ teardown'[l] = IF teardown[l] = "no" THEN "draining" ELSE teardown[l]
         /\ \A k \in Life \ {l} : abort'[k] = abort[k] /\ teardown'[k] = teardown[k]
<1>1. /\ abort' = [k \in Life |-> abort[k] \/ k \in {l}]
      /\ teardown' = [k \in Life |-> IF k \in {l} /\ teardown[k] = "no"
                                        THEN "draining" ELSE teardown[k]]
  BY DEF BeginTeardown
<1>2. /\ abort' \in [Life -> BOOLEAN]
      /\ teardown' \in [Life -> {"no", "draining", "rejected", "done"}]
  BY TeardownTypes
<1>3. abort'[l] /\ \A k \in Life \ {l} : abort'[k] = abort[k]
  BY <1>1 DEF TypeOK
<1>4. teardown'[l] = IF teardown[l] = "no" THEN "draining" ELSE teardown[l]
  BY <1>1
<1>5. \A k \in Life \ {l} : teardown'[k] = teardown[k]
  BY <1>1
<1> QED
  BY <1>2, <1>3, <1>4, <1>5

LEMMA AbortsKept ==
  ASSUME TypeOK, Aborts, NEW l \in Life,
         \/ BeginTeardown({l})
         \/ UNCHANGED teardown /\ \A k \in Life : abort[k] => abort'[k]
  PROVE  Aborts'
<1>1. CASE BeginTeardown({l})
  BY <1>1, TeardownOf DEF Aborts
<1>2. CASE UNCHANGED teardown /\ \A k \in Life : abort[k] => abort'[k]
  BY <1>2 DEF Aborts
<1> QED
  BY <1>1, <1>2

LEMMA PrepareTypes ==
  ASSUME TypeOK, NEW l \in Life, Prepare(l)
  PROVE  TypeOK'
<1>1. UNCHANGED <<idOf, ownerOf, edges, registryVars, fiberVars>>
  BY DEF Prepare
<1>2. /\ follow' \in [Life -> {"none", "load", "attached", "running", "gone"}]
      /\ driver' \in [Life -> {"none", "built", "stopped"}]
  BY DEF TypeOK, Prepare
<1>3. at' \in [Life -> Phase]
  BY DEF TypeOK, Prepare, Move, Phase, InFlight
<1>4. /\ abort' \in [Life -> BOOLEAN]
      /\ teardown' \in [Life -> {"no", "draining", "rejected", "done"}]
  BY TeardownTypes DEF TypeOK, Prepare
<1>5. prep' \in [Life -> {"none", "reading", "held", "released"}]
  BY DEF TypeOK, Prepare, ReleasePreparation
<1> QED
  BY <1>1, <1>2, <1>3, <1>4, <1>5 DEF TypeOK, registryVars, fiberVars

LEMMA CreateAgentKeeps ==
  ASSUME IInv, NEW l \in Life, CreateAgent(l)
  PROVE  IInv'
<1> USE LoopAssumption, NoneAssumption
    DEF IInv, CreateAgent, Accepts, Prepare, Move, BeginTeardown,
        ReleasePreparation, Phase, InFlight, registryVars, fiberVars
<1>1. TypeOK'
  BY PrepareTypes
<1>2. Stages'
  <2> SUFFICES ASSUME NEW k \in Life
               PROVE  Begins(k)' /\ Runs(k)' /\ Prepared(k)'
    BY DEF Stages
  <2>1. Begins(k) /\ Runs(k) /\ Prepared(k) /\ Begins(l) /\ Runs(l) /\ Prepared(l)
    BY DEF Stages
  <2>2. CASE k # l
    BY <2>1, <2>2 DEF TypeOK, Begins, Runs, Prepared
  <2>3. CASE k = l
    BY <2>1, <2>3 DEF TypeOK, Begins, Runs, Prepared, Early
  <2> QED
    BY <2>2, <2>3
<1>3. Registries'
  BY DEF TypeOK, Registries, Stages, Begins, Runs, Early
<1>4. Owners'
  BY DEF TypeOK, Owners, Stages, Begins, Runs, Early, InFlight
<1>5. Aborts'
  <2>1. \/ BeginTeardown({l})
        \/ UNCHANGED teardown /\ \A k \in Life : abort[k] => abort'[k]
    BY DEF TypeOK
  <2> QED
    BY <2>1, AbortsKept
<1> QED
  BY <1>1, <1>2, <1>3, <1>4, <1>5

LEMMA ResumeKeeps ==
  ASSUME IInv, NEW l \in Life, Resume(l)
  PROVE  IInv'
<1> USE LoopAssumption, NoneAssumption
    DEF IInv, Resume, Accepts, BeginLoad, Move, Phase, InFlight, registryVars,
        fiberVars
<1>1. TypeOK'
  BY DEF TypeOK
<1>2. Stages'
  <2> SUFFICES ASSUME NEW k \in Life
               PROVE  Begins(k)' /\ Runs(k)' /\ Prepared(k)'
    BY DEF Stages
  <2>1. Begins(k) /\ Runs(k) /\ Prepared(k) /\ Begins(l) /\ Runs(l) /\ Prepared(l)
    BY DEF Stages
  <2>2. CASE k # l
    BY <2>1, <2>2 DEF TypeOK, Begins, Runs, Prepared
  <2>3. CASE k = l
    BY <2>1, <2>3 DEF TypeOK, Begins, Runs, Prepared, Early
  <2> QED
    BY <2>2, <2>3
<1>3. Registries'
  BY DEF TypeOK, Registries, Stages, Begins, Runs, Early
<1>4. Owners'
  BY DEF TypeOK, Owners, Stages, Begins, Runs, Early, InFlight
<1>5. Aborts'
  BY DEF TypeOK, Aborts
<1> QED
  BY <1>1, <1>2, <1>3, <1>4, <1>5

LEMMA WaitForDrainingKeeps ==
  ASSUME IInv, NEW l \in Life, WaitForDraining(l)
  PROVE  IInv'
<1> USE LoopAssumption, NoneAssumption
    DEF IInv, WaitForDraining, Move, Phase, InFlight, registryVars, fiberVars
<1>1. TypeOK'
  BY DEF TypeOK
<1>2. Stages'
  <2> SUFFICES ASSUME NEW k \in Life
               PROVE  Begins(k)' /\ Runs(k)' /\ Prepared(k)'
    BY DEF Stages
  <2>1. Begins(k) /\ Runs(k) /\ Prepared(k) /\ Begins(l) /\ Runs(l) /\ Prepared(l)
    BY DEF Stages
  <2>2. CASE k # l
    BY <2>1, <2>2 DEF TypeOK, Begins, Runs, Prepared
  <2>3. CASE k = l
    BY <2>1, <2>3 DEF TypeOK, Begins, Runs, Prepared, Early
  <2> QED
    BY <2>2, <2>3
<1>3. Registries'
  BY DEF TypeOK, Registries, Stages, Begins, Runs, Early
<1>4. Owners'
  BY DEF TypeOK, Owners, Stages, Begins, Runs, Early, InFlight
<1>5. Aborts'
  BY DEF TypeOK, Aborts
<1> QED
  BY <1>1, <1>2, <1>3, <1>4, <1>5

LEMMA LoadReturnsKeeps ==
  ASSUME IInv, NEW l \in Life, LoadReturns(l)
  PROVE  IInv'
<1> USE LoopAssumption, NoneAssumption
    DEF IInv, LoadReturns, Move, Phase, InFlight, registryVars, fiberVars
<1>1. TypeOK'
  BY DEF TypeOK
<1>2. Stages'
  <2> SUFFICES ASSUME NEW k \in Life
               PROVE  Begins(k)' /\ Runs(k)' /\ Prepared(k)'
    BY DEF Stages
  <2>1. Begins(k) /\ Runs(k) /\ Prepared(k) /\ Begins(l) /\ Runs(l) /\ Prepared(l)
    BY DEF Stages
  <2>2. CASE k # l
    BY <2>1, <2>2 DEF TypeOK, Begins, Runs, Prepared
  <2>3. CASE k = l
    BY <2>1, <2>3 DEF TypeOK, Begins, Runs, Prepared, Early
  <2> QED
    BY <2>2, <2>3
<1>3. Registries'
  BY DEF TypeOK, Registries, Stages, Begins, Runs, Early
<1>4. Owners'
  BY DEF TypeOK, Owners, Stages, Begins, Runs, Early, InFlight
<1>5. Aborts'
  BY DEF TypeOK, Aborts
<1> QED
  BY <1>1, <1>2, <1>3, <1>4, <1>5

LEMMA LoadFailsKeeps ==
  ASSUME IInv, NEW l \in Life, LoadFails(l)
  PROVE  IInv'
<1> USE LoopAssumption, NoneAssumption
    DEF IInv, LoadFails, Move, Phase, InFlight, registryVars, fiberVars
<1>1. TypeOK'
  BY DEF TypeOK
<1>2. Stages'
  <2> SUFFICES ASSUME NEW k \in Life
               PROVE  Begins(k)' /\ Runs(k)' /\ Prepared(k)'
    BY DEF Stages
  <2>1. Begins(k) /\ Runs(k) /\ Prepared(k) /\ Begins(l) /\ Runs(l) /\ Prepared(l)
    BY DEF Stages
  <2>2. CASE k # l
    BY <2>1, <2>2 DEF TypeOK, Begins, Runs, Prepared
  <2>3. CASE k = l
    BY <2>1, <2>3 DEF TypeOK, Begins, Runs, Prepared, Early
  <2> QED
    BY <2>2, <2>3
<1>3. Registries'
  BY DEF TypeOK, Registries, Stages, Begins, Runs, Early
<1>4. Owners'
  BY DEF TypeOK, Owners, Stages, Begins, Runs, Early, InFlight
<1>5. Aborts'
  BY DEF TypeOK, Aborts
<1> QED
  BY <1>1, <1>2, <1>3, <1>4, <1>5

LEMMA LoadedTailKeeps ==
  ASSUME IInv, NEW l \in Life, LoadedTail(l)
  PROVE  IInv'
<1> USE LoopAssumption, NoneAssumption
    DEF IInv, LoadedTail, StillOwned, Accepts, Prepare, Move, BeginTeardown,
        ReleasePreparation, Phase, InFlight, registryVars, fiberVars
<1>1. TypeOK'
  <2>1. CASE StillOwned(l)
    BY <2>1, PrepareTypes
  <2>2. CASE ~StillOwned(l)
    BY <2>2 DEF TypeOK
  <2> QED
    BY <2>1, <2>2
<1>2. Stages'
  <2> SUFFICES ASSUME NEW k \in Life
               PROVE  Begins(k)' /\ Runs(k)' /\ Prepared(k)'
    BY DEF Stages
  <2>1. Begins(k) /\ Runs(k) /\ Prepared(k) /\ Begins(l) /\ Runs(l) /\ Prepared(l)
    BY DEF Stages
  <2>2. CASE k # l
    BY <2>1, <2>2 DEF TypeOK, Begins, Runs, Prepared
  <2>3. CASE k = l
    BY <2>1, <2>3 DEF TypeOK, Begins, Runs, Prepared, Early
  <2> QED
    BY <2>2, <2>3
<1>3. Registries'
  BY DEF TypeOK, Registries, Stages, Begins, Runs, Early
<1>4. Owners'
  BY DEF TypeOK, Owners, Stages, Begins, Runs, Early, InFlight
<1>5. Aborts'
  <2>1. \/ BeginTeardown({l})
        \/ UNCHANGED teardown /\ \A k \in Life : abort[k] => abort'[k]
    BY DEF TypeOK
  <2> QED
    BY <2>1, AbortsKept
<1> QED
  BY <1>1, <1>2, <1>3, <1>4, <1>5

LEMMA SetupReturnsKeeps ==
  ASSUME IInv, NEW l \in Life, SetupReturns(l)
  PROVE  IInv'
<1> USE LoopAssumption, NoneAssumption
    DEF IInv, SetupReturns, Move, Phase, InFlight, registryVars, fiberVars
<1>1. TypeOK'
  BY DEF TypeOK
<1>2. Stages'
  <2> SUFFICES ASSUME NEW k \in Life
               PROVE  Begins(k)' /\ Runs(k)' /\ Prepared(k)'
    BY DEF Stages
  <2>1. Begins(k) /\ Runs(k) /\ Prepared(k) /\ Begins(l) /\ Runs(l) /\ Prepared(l)
    BY DEF Stages
  <2>2. CASE k # l
    BY <2>1, <2>2 DEF TypeOK, Begins, Runs, Prepared
  <2>3. CASE k = l
    BY <2>1, <2>3 DEF TypeOK, Begins, Runs, Prepared, Early
  <2> QED
    BY <2>2, <2>3
<1>3. Registries'
  BY DEF TypeOK, Registries, Stages, Begins, Runs, Early
<1>4. Owners'
  BY DEF TypeOK, Owners, Stages, Begins, Runs, Early, InFlight
<1>5. Aborts'
  BY DEF TypeOK, Aborts
<1> QED
  BY <1>1, <1>2, <1>3, <1>4, <1>5

LEMMA SetupFailsKeeps ==
  ASSUME IInv, NEW l \in Life, SetupFails(l)
  PROVE  IInv'
<1> USE LoopAssumption, NoneAssumption
    DEF IInv, SetupFails, Move, BeginTeardown, Phase, InFlight, registryVars,
        fiberVars
<1>1. TypeOK'
  BY DEF TypeOK
<1>2. Stages'
  <2> SUFFICES ASSUME NEW k \in Life
               PROVE  Begins(k)' /\ Runs(k)' /\ Prepared(k)'
    BY DEF Stages
  <2>1. Begins(k) /\ Runs(k) /\ Prepared(k) /\ Begins(l) /\ Runs(l) /\ Prepared(l)
    BY DEF Stages
  <2>2. CASE k # l
    BY <2>1, <2>2 DEF TypeOK, Begins, Runs, Prepared
  <2>3. CASE k = l
    BY <2>1, <2>3 DEF TypeOK, Begins, Runs, Prepared, Early
  <2> QED
    BY <2>2, <2>3
<1>3. Registries'
  BY DEF TypeOK, Registries, Stages, Begins, Runs, Early
<1>4. Owners'
  BY DEF TypeOK, Owners, Stages, Begins, Runs, Early, InFlight
<1>5. Aborts'
  BY DEF TypeOK, Aborts
<1> QED
  BY <1>1, <1>2, <1>3, <1>4, <1>5

LEMMA FallbackFailsKeeps ==
  ASSUME IInv, NEW l \in Life, FallbackFails(l)
  PROVE  IInv'
<1> USE LoopAssumption, NoneAssumption
    DEF IInv, FallbackFails, Move, Phase, InFlight, registryVars, fiberVars
<1>1. TypeOK'
  BY DEF TypeOK
<1>2. Stages'
  <2> SUFFICES ASSUME NEW k \in Life
               PROVE  Begins(k)' /\ Runs(k)' /\ Prepared(k)'
    BY DEF Stages
  <2>1. Begins(k) /\ Runs(k) /\ Prepared(k) /\ Begins(l) /\ Runs(l) /\ Prepared(l)
    BY DEF Stages
  <2>2. CASE k # l
    BY <2>1, <2>2 DEF TypeOK, Begins, Runs, Prepared
  <2>3. CASE k = l
    BY <2>1, <2>3 DEF TypeOK, Begins, Runs, Prepared, Early
  <2> QED
    BY <2>2, <2>3
<1>3. Registries'
  BY DEF TypeOK, Registries, Stages, Begins, Runs, Early
<1>4. Owners'
  BY DEF TypeOK, Owners, Stages, Begins, Runs, Early, InFlight
<1>5. Aborts'
  BY DEF TypeOK, Aborts
<1> QED
  BY <1>1, <1>2, <1>3, <1>4, <1>5

LEMMA CreationRejectsKeeps ==
  ASSUME IInv, NEW l \in Life, CreationRejects(l)
  PROVE  IInv'
<1> USE LoopAssumption, NoneAssumption
    DEF IInv, CreationRejects, Move, ReleasePreparation, Phase, InFlight,
        registryVars, fiberVars
<1>1. TypeOK'
  BY DEF TypeOK
<1>2. Stages'
  <2> SUFFICES ASSUME NEW k \in Life
               PROVE  Begins(k)' /\ Runs(k)' /\ Prepared(k)'
    BY DEF Stages
  <2>1. Begins(k) /\ Runs(k) /\ Prepared(k) /\ Begins(l) /\ Runs(l) /\ Prepared(l)
    BY DEF Stages
  <2>2. CASE k # l
    BY <2>1, <2>2 DEF TypeOK, Begins, Runs, Prepared
  <2>3. CASE k = l
    BY <2>1, <2>3 DEF TypeOK, Begins, Runs, Prepared, Early
  <2> QED
    BY <2>2, <2>3
<1>3. Registries'
  BY DEF TypeOK, Registries, Stages, Begins, Runs, Early
<1>4. Owners'
  BY DEF TypeOK, Owners, Stages, Begins, Runs, Early, InFlight
<1>5. Aborts'
  BY DEF TypeOK, Aborts
<1> QED
  BY <1>1, <1>2, <1>3, <1>4, <1>5

LEMMA WaiterResumesKeeps ==
  ASSUME IInv, NEW l \in Life, WaiterResumes(l)
  PROVE  IInv'
<1> USE LoopAssumption, NoneAssumption
    DEF IInv, WaiterResumes, BeginLoad, Move, Phase, InFlight, registryVars,
        fiberVars
<1>1. TypeOK'
  BY DEF TypeOK
<1>2. Stages'
  <2> SUFFICES ASSUME NEW k \in Life
               PROVE  Begins(k)' /\ Runs(k)' /\ Prepared(k)'
    BY DEF Stages
  <2>1. Begins(k) /\ Runs(k) /\ Prepared(k) /\ Begins(l) /\ Runs(l) /\ Prepared(l)
    BY DEF Stages
  <2>2. CASE k # l
    BY <2>1, <2>2 DEF TypeOK, Begins, Runs, Prepared
  <2>3. CASE k = l
    BY <2>1, <2>3 DEF TypeOK, Begins, Runs, Prepared, Early
  <2> QED
    BY <2>2, <2>3
<1>3. Registries'
  BY DEF TypeOK, Registries, Stages, Begins, Runs, Early
<1>4. Owners'
  BY DEF TypeOK, Owners, Stages, Begins, Runs, Early, InFlight
<1>5. Aborts'
  BY DEF TypeOK, Aborts
<1> QED
  BY <1>1, <1>2, <1>3, <1>4, <1>5

LEMMA CallerAbortsKeeps ==
  ASSUME IInv, NEW l \in Life, CallerAborts(l)
  PROVE  IInv'
<1> USE LoopAssumption, NoneAssumption
    DEF IInv, CallerAborts, registryVars, fiberVars
<1>1. TypeOK'
  BY DEF TypeOK
<1>2. Stages'
  <2> SUFFICES ASSUME NEW k \in Life
               PROVE  Begins(k)' /\ Runs(k)' /\ Prepared(k)'
    BY DEF Stages
  <2>1. Begins(k) /\ Runs(k) /\ Prepared(k) /\ Begins(l) /\ Runs(l) /\ Prepared(l)
    BY DEF Stages
  <2>2. CASE k # l
    BY <2>1, <2>2 DEF TypeOK, Begins, Runs, Prepared
  <2>3. CASE k = l
    BY <2>1, <2>3 DEF TypeOK, Begins, Runs, Prepared, Early
  <2> QED
    BY <2>2, <2>3
<1>3. Registries'
  BY DEF TypeOK, Registries, Stages, Begins, Runs, Early
<1>4. Owners'
  BY DEF TypeOK, Owners, Stages, Begins, Runs, Early, InFlight
<1>5. Aborts'
  BY DEF TypeOK, Aborts
<1> QED
  BY <1>1, <1>2, <1>3, <1>4, <1>5

LEMMA DisposeHandleKeeps ==
  ASSUME IInv, NEW l \in Life, DisposeHandle(l)
  PROVE  IInv'
<1> USE LoopAssumption, NoneAssumption
    DEF IInv, DisposeHandle, BeginTeardown, registryVars, fiberVars
<1>1. TypeOK'
  BY DEF TypeOK
<1>2. Stages'
  <2> SUFFICES ASSUME NEW k \in Life
               PROVE  Begins(k)' /\ Runs(k)' /\ Prepared(k)'
    BY DEF Stages
  <2>1. Begins(k) /\ Runs(k) /\ Prepared(k) /\ Begins(l) /\ Runs(l) /\ Prepared(l)
    BY DEF Stages
  <2>2. CASE k # l
    BY <2>1, <2>2 DEF TypeOK, Begins, Runs, Prepared
  <2>3. CASE k = l
    BY <2>1, <2>3 DEF TypeOK, Begins, Runs, Prepared, Early
  <2> QED
    BY <2>2, <2>3
<1>3. Registries'
  BY DEF TypeOK, Registries, Stages, Begins, Runs, Early
<1>4. Owners'
  BY DEF TypeOK, Owners, Stages, Begins, Runs, Early, InFlight
<1>5. Aborts'
  BY DEF TypeOK, Aborts
<1> QED
  BY <1>1, <1>2, <1>3, <1>4, <1>5

LEMMA OwnerEffectTypes ==
  ASSUME TypeOK, NEW l \in Life, OwnerEffect(l)
  PROVE  TypeOK'
<1>1. UNCHANGED <<at, idOf, ownerOf, prep, driver, edges, registryVars, fiberVars>>
  BY DEF OwnerEffect
<1>2. follow' \in [Life -> {"none", "load", "attached", "running", "gone"}]
  BY DEF TypeOK, OwnerEffect
<1>3. /\ abort' \in [Life -> BOOLEAN]
      /\ teardown' \in [Life -> {"no", "draining", "rejected", "done"}]
  <2>1. CASE BeginTeardown({l})
    BY <2>1, TeardownTypes
  <2>2. CASE abort' = [abort EXCEPT ![l] = TRUE] /\ UNCHANGED teardown
    BY <2>2 DEF TypeOK
  <2>3. CASE UNCHANGED <<abort, teardown>>
    BY <2>3 DEF TypeOK
  <2> QED
    BY <2>1, <2>2, <2>3 DEF OwnerEffect
<1> QED
  BY <1>1, <1>2, <1>3 DEF TypeOK, registryVars, fiberVars

LEMMA OwnerEffectKeeps ==
  ASSUME IInv, NEW l \in Life, OwnerEffect(l)
  PROVE  IInv'
<1> USE LoopAssumption, NoneAssumption
    DEF IInv, OwnerEffect, BeginTeardown, registryVars, fiberVars
<1>1. TypeOK'
  BY OwnerEffectTypes
<1>2. Stages'
  <2> SUFFICES ASSUME NEW k \in Life
               PROVE  Begins(k)' /\ Runs(k)' /\ Prepared(k)'
    BY DEF Stages
  <2>1. Begins(k) /\ Runs(k) /\ Prepared(k) /\ Begins(l) /\ Runs(l) /\ Prepared(l)
    BY DEF Stages
  <2>2. CASE k # l
    BY <2>1, <2>2 DEF TypeOK, Begins, Runs, Prepared
  <2>3. CASE k = l
    BY <2>1, <2>3 DEF TypeOK, Begins, Runs, Prepared, Early
  <2> QED
    BY <2>2, <2>3
<1>3. Registries'
  BY DEF TypeOK, Registries, Stages, Begins, Runs, Early
<1>4. Owners'
  BY DEF TypeOK, Owners, Stages, Begins, Runs, Early, InFlight
<1>5. Aborts'
  <2>1. \/ BeginTeardown({l})
        \/ UNCHANGED teardown /\ \A k \in Life : abort[k] => abort'[k]
    BY DEF TypeOK
  <2> QED
    BY <2>1, AbortsKept
<1> QED
  BY <1>1, <1>2, <1>3, <1>4, <1>5

-----------------------------------------------------------------------------
(* Publication and departure.                                              *)

(* What the session and agent lists tell is one of five histories.         *)
LEMMA Concatenations ==
  ASSUME NEW a, NEW b, NEW c, NEW d
  PROVE  /\ <<a>> \o <<>> \o <<b>> = <<a, b>>
         /\ <<a, b>> \o <<c>> \o <<d>> = <<a, b, c, d>>
<1> DEFINE S == {a, b, c, d}
<1>1. <<a>> \o <<b>> = <<a, b>>
  <2>1. <<a>> \in Seq(S) /\ <<b>> \in Seq(S) /\ <<a, b>> \in Seq(S)
    OBVIOUS
  <2>2. /\ <<a>> \o <<b>> \in Seq(S)
        /\ Len(<<a>> \o <<b>>) = 2
        /\ \A i \in 1..2 : (<<a>> \o <<b>>)[i] = <<a, b>>[i]
    <3>1. Len(<<a>>) = 1 /\ Len(<<b>>) = 1
      OBVIOUS
    <3> QED
      BY <2>1, <3>1, ConcatProperties
  <2>3. Len(<<a, b>>) = 2
    OBVIOUS
  <2> HIDE DEF S
  <2> QED
    BY <2>1, <2>2, <2>3, SeqEqual
<1>2. <<a, b>> \o <<c>> = <<a, b, c>>
  <2>1. <<a, b>> \in Seq(S) /\ <<c>> \in Seq(S) /\ <<a, b, c>> \in Seq(S)
    OBVIOUS
  <2>2. /\ <<a, b>> \o <<c>> \in Seq(S)
        /\ Len(<<a, b>> \o <<c>>) = 3
        /\ \A i \in 1..3 : (<<a, b>> \o <<c>>)[i] = <<a, b, c>>[i]
    <3>1. Len(<<a, b>>) = 2 /\ Len(<<c>>) = 1
      OBVIOUS
    <3> QED
      BY <2>1, <3>1, ConcatProperties
  <2>3. Len(<<a, b, c>>) = 3
    OBVIOUS
  <2> HIDE DEF S
  <2> QED
    BY <2>1, <2>2, <2>3, SeqEqual
<1>3. <<a, b, c>> \o <<d>> = <<a, b, c, d>>
  <2>1. <<a, b, c>> \in Seq(S) /\ <<d>> \in Seq(S) /\ <<a, b, c, d>> \in Seq(S)
    OBVIOUS
  <2>2. /\ <<a, b, c>> \o <<d>> \in Seq(S)
        /\ Len(<<a, b, c>> \o <<d>>) = 4
        /\ \A i \in 1..4 : (<<a, b, c>> \o <<d>>)[i] = <<a, b, c, d>>[i]
    <3>1. Len(<<a, b, c>>) = 3 /\ Len(<<d>>) = 1
      OBVIOUS
    <3> QED
      BY <2>1, <3>1, ConcatProperties
  <2>3. Len(<<a, b, c, d>>) = 4
    OBVIOUS
  <2> HIDE DEF S
  <2> QED
    BY <2>1, <2>2, <2>3, SeqEqual
<1>4. <<a>> \o <<>> = <<a>>
  <2>1. <<a>> \in Seq(S)
    OBVIOUS
  <2> QED
    BY <2>1, ConcatEmptySeq
<1> QED
  BY <1>1, <1>2, <1>3, <1>4

LEMMA DepartureTold ==
  ASSUME NEW l \in Life, edges[l] \in Begun
  PROVE  edges[l] \o Disposed(l, Departure[1]) \o Disposed(l, Departure[2]) \in Over
<1>1. Departure[1] = "agent" /\ Departure[2] = "session"
  BY DEF Departure
<1>2. CASE edges[l] = <<Created("session")>>
  <2>1. Disposed(l, "agent") = <<>>
    BY <1>2 DEF Disposed, Created
  <2>2. Disposed(l, "session") = <<<<"session", "disposed">>>>
    BY <1>2 DEF Disposed, Created
  <2>3. <<Created("session")>> \o <<>> \o <<<<"session", "disposed">>>> = Half
    BY Concatenations DEF Half
  <2> QED
    BY <1>1, <1>2, <2>1, <2>2, <2>3 DEF Over
<1>3. CASE edges[l] = <<Created("session"), Created("agent")>>
  <2>1. Disposed(l, "agent") = <<<<"agent", "disposed">>>>
    BY <1>3 DEF Disposed, Created
  <2>2. Disposed(l, "session") = <<<<"session", "disposed">>>>
    BY <1>3 DEF Disposed, Created
  <2>3. <<Created("session"), Created("agent")>> \o <<<<"agent", "disposed">>>>
          \o <<<<"session", "disposed">>>> = Whole
    <3> DEFINE a == Created("session")
               b == Created("agent")
               c == <<"agent", "disposed">>
               d == <<"session", "disposed">>
    <3>1. Whole = <<a, b, c, d>>
      BY DEF Whole
    <3> HIDE DEF a, b, c, d
    <3>2. <<a, b>> \o <<c>> \o <<d>> = <<a, b, c, d>>
      BY Concatenations
    <3>3. <<a, b>> \o <<c>> \o <<d>> = Whole
      BY <3>1, <3>2
    <3> QED
      BY <3>3 DEF a, b, c, d
  <2> QED
    BY <1>1, <1>3, <2>1, <2>2, <2>3 DEF Over
<1> QED
  BY <1>2, <1>3 DEF Begun

LEMMA LeaveLeaves ==
  ASSUME IInv, NEW l \in Life, Leave(l), UNCHANGED idOf
  PROVE  /\ sessionAt' \in [Id -> Life \cup {None}] /\ agentAt' = sessionAt'
         /\ \A i \in Id : sessionAt'[i] # l /\ sessionAt'[i] \in {sessionAt[i], None}
         /\ edges' \in [Life -> Begun \cup Over] /\ edges'[l] \in Over
         /\ \A k \in Life \ {l} : edges'[k] = edges[k]
         /\ \A k \in Life \ {l} : sessionAt[idOf[k]] = k <=> sessionAt'[idOf[k]] = k
         /\ at' \in [Life -> Phase]
         /\ \A k \in Life : at'[k] = at[k] \/ (at[k] = "waiting" /\ at'[k] = "woken")
         /\ sessionAt[idOf[l]] # l => UNCHANGED edges
<1> USE NoneAssumption DEF IInv
<1>1. CASE Entered(l)
  <2>1. edges[l] \in Begun
    BY <1>1 DEF Entered, Registries, TypeOK
  <2> DEFINE told == edges[l] \o Disposed(l, Departure[1]) \o Disposed(l, Departure[2])
  <2>2. told \in Over
    BY <2>1, DepartureTold
  <2>3. edges' = [edges EXCEPT ![l] = told]
    BY <1>1 DEF Leave
  <2>4. edges' \in [Life -> Begun \cup Over] /\ edges'[l] \in Over
        /\ \A k \in Life \ {l} : edges'[k] = edges[k]
    <3> HIDE DEF told
    <3> QED
      BY <2>2, <2>3 DEF TypeOK
  <2>5. /\ at' \in [Life -> Phase]
        /\ \A k \in Life : at'[k] = at[k] \/ (at[k] = "waiting" /\ at'[k] = "woken")
    <3> DEFINE wakes(k) == at[k] = "waiting" /\ idOf[k] = idOf[l]
                             /\ Disposed(l, Departure[2]) # <<>>
    <3>1. at' = [k \in Life |-> IF wakes(k) THEN "woken" ELSE at[k]]
      BY <1>1 DEF Leave
    <3>2. \A k \in Life : wakes(k) => at[k] = "waiting"
      OBVIOUS
    <3> HIDE DEF wakes
    <3>3. "woken" \in Phase
      BY DEF Phase, InFlight
    <3> QED
      BY <3>1, <3>2, <3>3 DEF TypeOK
  <2>6. /\ sessionAt' = [sessionAt EXCEPT ![idOf[l]] = None]
        /\ agentAt' = [agentAt EXCEPT ![idOf[l]] = None]
        /\ agentAt = sessionAt /\ idOf[l] \in Id
    BY <1>1 DEF Leave, Registries, TypeOK
  <2>7. /\ sessionAt' \in [Id -> Life \cup {None}] /\ agentAt' = sessionAt'
        /\ \A i \in Id : sessionAt'[i] # l /\ sessionAt'[i] \in {sessionAt[i], None}
    BY <2>6 DEF Registries, TypeOK
  <2>8. \A k \in Life \ {l} : sessionAt[idOf[k]] = k <=> sessionAt'[idOf[k]] = k
    BY <1>1, <2>6 DEF Entered, TypeOK
  <2> QED
    BY <1>1, <2>4, <2>5, <2>7, <2>8 DEF Entered
<1>2. CASE ~Entered(l)
  <2>1. UNCHANGED <<registryVars, edges, at>>
    BY <1>2 DEF Leave
  <2>2. \A i \in Id : sessionAt[i] # l
    BY <1>2 DEF Entered, Registries, TypeOK
  <2> QED
    BY <1>2, <2>1, <2>2 DEF Entered, Registries, TypeOK, registryVars
<1> QED
  BY <1>1, <1>2

LEMMA EndTeardownKeeps ==
  ASSUME IInv, NEW l \in Life, EndTeardown(l)
  PROVE  IInv'
<1> USE LoopAssumption, NoneAssumption
    DEF IInv, EndTeardown, registryVars, fiberVars
<1>l. /\ sessionAt' \in [Id -> Life \cup {None}] /\ agentAt' = sessionAt'
      /\ \A i \in Id : sessionAt'[i] # l /\ sessionAt'[i] \in {sessionAt[i], None}
      /\ edges' \in [Life -> Begun \cup Over] /\ edges'[l] \in Over
      /\ \A k \in Life \ {l} : edges'[k] = edges[k]
      /\ \A k \in Life \ {l} : sessionAt[idOf[k]] = k <=> sessionAt'[idOf[k]] = k
      /\ at' \in [Life -> Phase]
      /\ \A k \in Life : at'[k] = at[k] \/ (at[k] = "waiting" /\ at'[k] = "woken")
      /\ sessionAt[idOf[l]] # l => UNCHANGED edges
  BY LeaveLeaves
<1>1. TypeOK'
  BY <1>l DEF TypeOK
<1>2. Stages'
  <2> SUFFICES ASSUME NEW k \in Life
               PROVE  Begins(k)' /\ Runs(k)' /\ Prepared(k)'
    BY DEF Stages
  <2>1. Begins(k) /\ Runs(k) /\ Prepared(k) /\ Begins(l) /\ Runs(l) /\ Prepared(l)
    BY DEF Stages
  <2>2. CASE k # l
    BY <1>l, <2>1, <2>2 DEF TypeOK, Begins, Runs, Prepared, Early
  <2>3. CASE k = l
    <3>1. at[l] \notin Early /\ at'[l] = at[l] /\ sessionAt'[idOf[l]] # l
      BY <1>l, <2>1 DEF TypeOK, Begins, Early
    <3>2. /\ driver'[l] = driver[l] \/ driver'[l] = "stopped"
          /\ teardown'[l] \in {"done", "rejected"} /\ follow'[l] = "gone"
          /\ prep'[l] = prep[l]
      BY DEF TypeOK
    <3>3. teardown'[l] = "done" => driver'[l] # "built"
      BY <2>1 DEF TypeOK, Runs
    <3>4. teardown'[l] = "rejected" => at[l] = "live"
      BY <2>1 DEF TypeOK, Runs
    <3>5. at[l] \in {"setup", "ready"} => edges'[l] = <<>>
      BY <1>l, <2>1 DEF Runs
    <3>6. /\ prep[l] = "reading" => driver'[l] = "none"
          /\ at[l] = "failed" /\ prep[l] = "released" => driver'[l] # "built"
      BY <2>1, <3>2 DEF TypeOK, Prepared
    <3>7. Begins(l)'
      BY <3>1, <3>2 DEF Begins, Early
    <3>8. Runs(l)'
      BY <3>1, <3>2, <3>3, <3>4, <3>5 DEF Runs
    <3>9. Prepared(l)'
      BY <2>1, <3>1, <3>2, <3>6 DEF Prepared
    <3> QED
      BY <2>3, <3>7, <3>8, <3>9
  <2> QED
    BY <2>2, <2>3
<1>3. Registries'
  <2>1. ASSUME NEW i \in Id, sessionAt'[i] # None
        PROVE  LET k == sessionAt'[i]
               IN /\ idOf'[k] = i /\ edges'[k] \in Begun
                  /\ driver'[k] = "built" /\ teardown'[k] \in {"no", "draining"}
    BY <1>l, <2>1 DEF TypeOK, Registries
  <2>2. ASSUME NEW k \in Life, sessionAt'[idOf'[k]] # k
        PROVE  edges'[k] \in Over
    BY <1>l, <2>2 DEF TypeOK, Registries
  <2> QED
    BY <1>l, <2>1, <2>2 DEF Registries
<1>4. Owners'
  BY <1>l DEF TypeOK, Owners, Stages, Begins, Runs, Early, InFlight
<1>5. Aborts'
  BY DEF TypeOK, Aborts
<1> QED
  BY <1>1, <1>2, <1>3, <1>4, <1>5

LEMMA DisposeInsideAppendKeeps ==
  ASSUME IInv, NEW l \in Life, DisposeInsideAppend(l)
  PROVE  IInv'
<1> USE LoopAssumption, NoneAssumption
    DEF IInv, DisposeInsideAppend, registryVars, fiberVars
<1>l. /\ sessionAt' \in [Id -> Life \cup {None}] /\ agentAt' = sessionAt'
      /\ \A i \in Id : sessionAt'[i] # l /\ sessionAt'[i] \in {sessionAt[i], None}
      /\ edges' \in [Life -> Begun \cup Over] /\ edges'[l] \in Over
      /\ \A k \in Life \ {l} : edges'[k] = edges[k]
      /\ \A k \in Life \ {l} : sessionAt[idOf[k]] = k <=> sessionAt'[idOf[k]] = k
      /\ at' \in [Life -> Phase]
      /\ \A k \in Life : at'[k] = at[k] \/ (at[k] = "waiting" /\ at'[k] = "woken")
      /\ sessionAt[idOf[l]] # l => UNCHANGED edges
  BY LeaveLeaves
<1>1. TypeOK'
  BY <1>l DEF TypeOK
<1>2. Stages'
  <2> SUFFICES ASSUME NEW k \in Life
               PROVE  Begins(k)' /\ Runs(k)' /\ Prepared(k)'
    BY DEF Stages
  <2>1. Begins(k) /\ Runs(k) /\ Prepared(k) /\ Begins(l) /\ Runs(l) /\ Prepared(l)
    BY DEF Stages
  <2>2. CASE k # l
    BY <1>l, <2>1, <2>2 DEF TypeOK, Begins, Runs, Prepared, Early
  <2>3. CASE k = l
    <3>1. at[l] \notin Early /\ at'[l] = at[l] /\ sessionAt'[idOf[l]] # l
      BY <1>l, <2>1 DEF TypeOK, Begins, Early
    <3>2. /\ driver'[l] = driver[l] \/ driver'[l] = "stopped"
          /\ teardown'[l] \in {"done", "rejected"} /\ follow'[l] = "gone"
          /\ prep'[l] = prep[l]
      BY DEF TypeOK
    <3>3. teardown'[l] = "done" => driver'[l] # "built"
      BY <2>1 DEF TypeOK, Runs
    <3>4. teardown'[l] = "rejected" => at[l] = "live"
      BY <2>1 DEF TypeOK, Runs
    <3>5. at[l] \in {"setup", "ready"} => edges'[l] = <<>>
      BY <1>l, <2>1 DEF Runs
    <3>6. /\ prep[l] = "reading" => driver'[l] = "none"
          /\ at[l] = "failed" /\ prep[l] = "released" => driver'[l] # "built"
      BY <2>1, <3>2 DEF TypeOK, Prepared
    <3>7. Begins(l)'
      BY <3>1, <3>2 DEF Begins, Early
    <3>8. Runs(l)'
      BY <3>1, <3>2, <3>3, <3>4, <3>5 DEF Runs
    <3>9. Prepared(l)'
      BY <2>1, <3>1, <3>2, <3>6 DEF Prepared
    <3> QED
      BY <2>3, <3>7, <3>8, <3>9
  <2> QED
    BY <2>2, <2>3
<1>3. Registries'
  <2>1. ASSUME NEW i \in Id, sessionAt'[i] # None
        PROVE  LET k == sessionAt'[i]
               IN /\ idOf'[k] = i /\ edges'[k] \in Begun
                  /\ driver'[k] = "built" /\ teardown'[k] \in {"no", "draining"}
    BY <1>l, <2>1 DEF TypeOK, Registries
  <2>2. ASSUME NEW k \in Life, sessionAt'[idOf'[k]] # k
        PROVE  edges'[k] \in Over
    BY <1>l, <2>2 DEF TypeOK, Registries
  <2> QED
    BY <1>l, <2>1, <2>2 DEF Registries
<1>4. Owners'
  BY <1>l DEF TypeOK, Owners, Stages, Begins, Runs, Early, InFlight
<1>5. Aborts'
  BY DEF TypeOK, Aborts
<1> QED
  BY <1>1, <1>2, <1>3, <1>4, <1>5

(* The outcomes of a publication: refused, or entered and announced.       *)
LEMMA Outcomes ==
  ASSUME IInv, NEW l \in Life, NEW over \in Phase, NEW other \in Phase,
         PublishTo(l, over, other), edges[l] = <<>>
  PROVE  /\ at' \in [Life -> Phase] /\ edges' \in [Life -> Begun \cup Over]
         /\ abort' \in [Life -> BOOLEAN]
         /\ teardown' \in [Life -> {"no", "draining", "rejected", "done"}]
         /\ \A k \in Life \ {l} : /\ at'[k] = at[k] /\ edges'[k] = edges[k]
                                 /\ abort'[k] = abort[k] /\ teardown'[k] = teardown[k]
         /\ \/ at'[l] = over /\ teardown'[l] = teardown[l] /\ ~abort[l]
            \/ at'[l] = other /\ abort'[l]
               /\ teardown'[l] = IF teardown[l] = "no" THEN "draining" ELSE teardown[l]
         /\ \/ UNCHANGED registryVars /\ edges'[l] = <<>> /\ at'[l] = other
            \/ /\ sessionAt[idOf[l]] = None /\ edges'[l] \in Begun /\ ~abort[l]
               /\ sessionAt' = [sessionAt EXCEPT ![idOf[l]] = l]
               /\ agentAt' = sessionAt'
<1> USE DEF IInv
<1>1. CASE /\ Undisturbed(l) /\ Free(idOf[l])
           /\ Enter(l)
           /\ edges' = [edges EXCEPT ![l] = <<Created("session"), Created("agent")>>]
           /\ Move(l, over)
           /\ UNCHANGED <<abort, teardown>>
  BY <1>1 DEF TypeOK, Undisturbed, Free, Enter, Move, Begun, Registries
<1>2. CASE /\ Undisturbed(l) /\ Free(idOf[l])
           /\ Enter(l)
           /\ edges' \in {[edges EXCEPT ![l] = <<Created("session")>>],
                          [edges EXCEPT ![l] = <<Created("session"), Created("agent")>>]}
           /\ Move(l, other)
           /\ BeginTeardown({l})
  <2>1. \E e \in Begun : edges' = [edges EXCEPT ![l] = e]
    BY <1>2 DEF Begun
  <2>2. /\ edges' \in [Life -> Begun \cup Over] /\ edges'[l] \in Begun
        /\ \A k \in Life \ {l} : edges'[k] = edges[k]
    BY <2>1 DEF TypeOK
  <2>3. /\ sessionAt[idOf[l]] = None /\ ~abort[l] /\ agentAt' = sessionAt'
        /\ sessionAt' = [sessionAt EXCEPT ![idOf[l]] = l]
    BY <1>2 DEF TypeOK, Undisturbed, Free, Enter, Registries
  <2>4. /\ at' \in [Life -> Phase] /\ at'[l] = other
        /\ \A k \in Life \ {l} : at'[k] = at[k]
    BY <1>2 DEF TypeOK, Move
  <2>5. /\ abort' \in [Life -> BOOLEAN] /\ abort'[l]
        /\ teardown' \in [Life -> {"no", "draining", "rejected", "done"}]
        /\ teardown'[l] = IF teardown[l] = "no" THEN "draining" ELSE teardown[l]
        /\ \A k \in Life \ {l} : abort'[k] = abort[k] /\ teardown'[k] = teardown[k]
    BY <1>2, TeardownOf
  <2> QED
    BY <2>2, <2>3, <2>4, <2>5
<1>3. CASE /\ Move(l, other)
           /\ BeginTeardown({l})
           /\ UNCHANGED <<edges, registryVars>>
  <2>1. /\ at' \in [Life -> Phase] /\ at'[l] = other
        /\ \A k \in Life \ {l} : at'[k] = at[k]
    BY <1>3 DEF TypeOK, Move
  <2>2. /\ abort' \in [Life -> BOOLEAN] /\ abort'[l]
        /\ teardown' \in [Life -> {"no", "draining", "rejected", "done"}]
        /\ teardown'[l] = IF teardown[l] = "no" THEN "draining" ELSE teardown[l]
        /\ \A k \in Life \ {l} : abort'[k] = abort[k] /\ teardown'[k] = teardown[k]
    BY <1>3, TeardownOf
  <2> QED
    BY <1>3, <2>1, <2>2 DEF TypeOK
<1> QED
  BY <1>1, <1>2, <1>3 DEF PublishTo

LEMMA PublishKeeps ==
  ASSUME IInv, NEW l \in Life, Publish(l)
  PROVE  IInv'
<1> USE LoopAssumption, NoneAssumption DEF IInv, Publish
<1>0. Begins(l) /\ Runs(l) /\ Prepared(l) /\ edges[l] = <<>>
  BY DEF Stages, Begins, Runs, Early
<1>l. /\ at' \in [Life -> Phase] /\ edges' \in [Life -> Begun \cup Over]
      /\ abort' \in [Life -> BOOLEAN]
      /\ teardown' \in [Life -> {"no", "draining", "rejected", "done"}]
      /\ \A k \in Life \ {l} : /\ at'[k] = at[k] /\ edges'[k] = edges[k]
                              /\ abort'[k] = abort[k] /\ teardown'[k] = teardown[k]
      /\ \/ at'[l] = "live" /\ teardown'[l] = teardown[l] /\ ~abort[l]
         \/ at'[l] = "failing" /\ abort'[l]
            /\ teardown'[l] = IF teardown[l] = "no" THEN "draining" ELSE teardown[l]
      /\ \/ UNCHANGED registryVars /\ edges'[l] = <<>> /\ at'[l] = "failing"
         \/ /\ sessionAt[idOf[l]] = None /\ edges'[l] \in Begun /\ ~abort[l]
            /\ sessionAt' = [sessionAt EXCEPT ![idOf[l]] = l]
            /\ agentAt' = sessionAt'
  <2>1. "live" \in Phase /\ "failing" \in Phase
    BY DEF Phase, InFlight
  <2> QED
    BY <1>0, <2>1, Outcomes
<1>1. TypeOK'
  <2>1. /\ sessionAt' \in [Id -> Life \cup {None}]
        /\ agentAt' \in [Id -> Life \cup {None}]
    BY <1>l DEF TypeOK, registryVars
  <2> QED
    BY <1>l, <2>1 DEF TypeOK, fiberVars, ReleasePreparation
<1>r. \A k \in Life \ {l} : sessionAt[idOf[k]] # k => sessionAt'[idOf[k]] # k
  BY <1>l DEF TypeOK, registryVars
<1>2. Stages'
  <2> SUFFICES ASSUME NEW k \in Life
               PROVE  Begins(k)' /\ Runs(k)' /\ Prepared(k)'
    BY DEF Stages
  <2>1. Begins(k) /\ Runs(k) /\ Prepared(k)
    BY DEF Stages
  <2>2. CASE k # l
    <3>1. /\ at'[k] = at[k] /\ edges'[k] = edges[k] /\ abort'[k] = abort[k]
          /\ teardown'[k] = teardown[k] /\ driver'[k] = driver[k] /\ prep'[k] = prep[k]
          /\ follow'[k] = follow[k] /\ UNCHANGED <<idOf, ownerOf, factory>>
          /\ sessionAt[idOf[k]] # k => sessionAt'[idOf[k]] # k
      BY <1>l, <1>r, <2>2 DEF TypeOK, fiberVars, ReleasePreparation
    <3> QED
      BY <2>1, <3>1 DEF Begins, Runs, Prepared
  <2>3. CASE k = l
    BY <1>0, <1>l, <2>3 DEF TypeOK, Begins, Runs, Prepared, Early, fiberVars,
                            ReleasePreparation, Registries
  <2> QED
    BY <2>2, <2>3
<1>3. Registries'
  <2>0. driver'[l] = "built" \/ UNCHANGED registryVars
    BY <1>0, <1>l DEF TypeOK, Runs, Aborts, Early
  <2>1. ASSUME NEW i \in Id, sessionAt'[i] # None
        PROVE  LET k == sessionAt'[i]
               IN /\ idOf'[k] = i /\ edges'[k] \in Begun
                  /\ driver'[k] = "built" /\ teardown'[k] \in {"no", "draining"}
    BY <1>0, <1>l, <2>0, <2>1 DEF TypeOK, Registries, registryVars, Runs, Begins, Early
  <2>2. ASSUME NEW k \in Life, sessionAt'[idOf'[k]] # k
        PROVE  edges'[k] \in Over
    BY <1>0, <1>l, <2>2 DEF TypeOK, Registries, registryVars, Over
  <2> QED
    BY <1>l, <2>1, <2>2 DEF Registries, registryVars
<1>4. Owners'
  BY <1>0, <1>l DEF TypeOK, Owners, Stages, Begins, Runs, Early, InFlight, fiberVars
<1>5. Aborts'
  BY <1>l DEF TypeOK, Aborts
<1> QED
  BY <1>1, <1>2, <1>3, <1>4, <1>5

LEMMA CreateKeeps ==
  ASSUME IInv, NEW l \in Life, Create(l)
  PROVE  IInv'
<1> USE LoopAssumption, NoneAssumption DEF IInv, Create, Accepts
<1>0. Begins(l) /\ Runs(l) /\ Prepared(l) /\ edges[l] = <<>>
  BY DEF Stages, Begins, Runs, Early
<1>l. /\ at' \in [Life -> Phase] /\ edges' \in [Life -> Begun \cup Over]
      /\ abort' \in [Life -> BOOLEAN]
      /\ teardown' \in [Life -> {"no", "draining", "rejected", "done"}]
      /\ \A k \in Life \ {l} : /\ at'[k] = at[k] /\ edges'[k] = edges[k]
                              /\ abort'[k] = abort[k] /\ teardown'[k] = teardown[k]
      /\ \/ at'[l] = "live" /\ teardown'[l] = teardown[l] /\ ~abort[l]
         \/ at'[l] = "failed" /\ abort'[l]
            /\ teardown'[l] = IF teardown[l] = "no" THEN "draining" ELSE teardown[l]
      /\ \/ UNCHANGED registryVars /\ edges'[l] = <<>> /\ at'[l] = "failed"
         \/ /\ sessionAt[idOf[l]] = None /\ edges'[l] \in Begun /\ ~abort[l]
            /\ sessionAt' = [sessionAt EXCEPT ![idOf[l]] = l]
            /\ agentAt' = sessionAt'
  <2>1. "live" \in Phase /\ "failed" \in Phase
    BY DEF Phase, InFlight
  <2> QED
    BY <1>0, <2>1, Outcomes
<1>1. TypeOK'
  <2>1. /\ sessionAt' \in [Id -> Life \cup {None}]
        /\ agentAt' \in [Id -> Life \cup {None}]
    BY <1>l DEF TypeOK, registryVars
  <2> QED
    BY <1>l, <2>1 DEF TypeOK, fiberVars, ReleasePreparation
<1>r. \A k \in Life \ {l} : sessionAt[idOf[k]] # k => sessionAt'[idOf[k]] # k
  BY <1>l DEF TypeOK, registryVars
<1>2. Stages'
  <2> SUFFICES ASSUME NEW k \in Life
               PROVE  Begins(k)' /\ Runs(k)' /\ Prepared(k)'
    BY DEF Stages
  <2>1. Begins(k) /\ Runs(k) /\ Prepared(k)
    BY DEF Stages
  <2>2. CASE k # l
    <3>1. /\ at'[k] = at[k] /\ edges'[k] = edges[k] /\ abort'[k] = abort[k]
          /\ teardown'[k] = teardown[k] /\ driver'[k] = driver[k] /\ prep'[k] = prep[k]
          /\ follow'[k] = follow[k] /\ UNCHANGED <<idOf, ownerOf, factory>>
          /\ sessionAt[idOf[k]] # k => sessionAt'[idOf[k]] # k
      BY <1>l, <1>r, <2>2 DEF TypeOK, fiberVars, ReleasePreparation
    <3> QED
      BY <2>1, <3>1 DEF Begins, Runs, Prepared
  <2>3. CASE k = l
    BY <1>0, <1>l, <2>3 DEF TypeOK, Begins, Runs, Prepared, Early, fiberVars,
                            ReleasePreparation, Registries
  <2> QED
    BY <2>2, <2>3
<1>3. Registries'
  <2>0. driver'[l] = "built" \/ UNCHANGED registryVars
    BY <1>0, <1>l DEF TypeOK, Runs, Aborts, Early
  <2>1. ASSUME NEW i \in Id, sessionAt'[i] # None
        PROVE  LET k == sessionAt'[i]
               IN /\ idOf'[k] = i /\ edges'[k] \in Begun
                  /\ driver'[k] = "built" /\ teardown'[k] \in {"no", "draining"}
    BY <1>0, <1>l, <2>0, <2>1 DEF TypeOK, Registries, registryVars, Runs, Begins, Early
  <2>2. ASSUME NEW k \in Life, sessionAt'[idOf'[k]] # k
        PROVE  edges'[k] \in Over
    BY <1>0, <1>l, <2>2 DEF TypeOK, Registries, registryVars, Over
  <2> QED
    BY <1>l, <2>1, <2>2 DEF Registries, registryVars
<1>4. Owners'
  BY <1>0, <1>l DEF TypeOK, Owners, Stages, Begins, Runs, Early, InFlight, fiberVars
<1>5. Aborts'
  BY <1>l DEF TypeOK, Aborts
<1> QED
  BY <1>1, <1>2, <1>3, <1>4, <1>5

-----------------------------------------------------------------------------
(* Owners and the factory.                                                 *)

LEMMA UnloadOwnerKeeps ==
  ASSUME IInv, NEW o \in Owner, UnloadOwner(o)
  PROVE  IInv'
<1> USE DEF IInv, UnloadOwner, lifeVars, registryVars
<1>1. TypeOK'
  BY DEF TypeOK
<1>2. Stages'
  BY DEF TypeOK, Stages, Begins, Runs, Prepared, Early
<1>3. Registries'
  BY DEF TypeOK, Registries
<1>4. Owners'
  BY DEF TypeOK, Owners, Stages, Begins, Runs, Prepared, Early, InFlight
<1>5. Aborts'
  BY DEF TypeOK, Aborts
<1> QED
  BY <1>1, <1>2, <1>3, <1>4, <1>5

LEMMA OwnerGoneKeeps ==
  ASSUME IInv, NEW o \in Owner, OwnerGone(o)
  PROVE  IInv'
<1> USE DEF IInv, OwnerGone, lifeVars, registryVars
<1>1. TypeOK'
  BY DEF TypeOK
<1>2. Stages'
  BY DEF TypeOK, Stages, Begins, Runs, Prepared, Early
<1>3. Registries'
  BY DEF TypeOK, Registries
<1>4. Owners'
  BY DEF TypeOK, Owners, Stages, Begins, Runs, Prepared, Early, InFlight
<1>5. Aborts'
  BY DEF TypeOK, Aborts
<1> QED
  BY <1>1, <1>2, <1>3, <1>4, <1>5

LEMMA UnloadFactoryKeeps ==
  ASSUME IInv, UnloadFactory
  PROVE  IInv'
<1> USE DEF IInv, UnloadFactory, lifeVars, registryVars
<1>1. TypeOK'
  BY DEF TypeOK
<1>2. Stages'
  BY DEF TypeOK, Stages, Begins, Runs, Prepared, Early
<1>3. Registries'
  BY DEF TypeOK, Registries
<1>4. Owners'
  BY DEF TypeOK, Owners, Stages, Begins, Runs, Prepared, Early, InFlight
<1>5. Aborts'
  BY DEF TypeOK, Aborts
<1> QED
  BY <1>1, <1>2, <1>3, <1>4, <1>5

LEMMA DisposeFactoryKeeps ==
  ASSUME IInv, DisposeFactory
  PROVE  IInv'
<1> USE DEF IInv, DisposeFactory, Tracked, registryVars
<1>1. TypeOK'
  BY DEF TypeOK
<1>2. Stages'
  BY DEF TypeOK, Stages, Begins, Runs, Prepared, Early
<1>3. Registries'
  BY DEF TypeOK, Registries
<1>4. Owners'
  BY DEF TypeOK, Owners, Stages, Begins, Runs, Prepared, Early, InFlight
<1>5. Aborts'
  BY DEF TypeOK, Aborts
<1> QED
  BY <1>1, <1>2, <1>3, <1>4, <1>5

LEMMA FactoryDownKeeps ==
  ASSUME IInv, FactoryDown
  PROVE  IInv'
<1> USE DEF IInv, FactoryDown, lifeVars, registryVars
<1>1. TypeOK'
  BY DEF TypeOK
<1>2. Stages'
  BY DEF TypeOK, Stages, Begins, Runs, Prepared, Early
<1>3. Registries'
  BY DEF TypeOK, Registries
<1>4. Owners'
  BY DEF TypeOK, Owners, Stages, Begins, Runs, Prepared, Early, InFlight
<1>5. Aborts'
  BY DEF TypeOK, Aborts
<1> QED
  BY <1>1, <1>2, <1>3, <1>4, <1>5

-----------------------------------------------------------------------------
(* The theorems.                                                           *)

LEMMA InitIInv == Init => IInv
<1> SUFFICES ASSUME Init PROVE IInv
  OBVIOUS
<1>1. TypeOK
  BY DEF Init, TypeOK, Phase, Over
<1>2. Stages
  BY NoneAssumption DEF Init, Stages, Begins, Runs, Prepared, Early
<1>3. Registries
  BY NoneAssumption DEF Init, Registries, Over
<1>4. Owners
  BY DEF Init, Owners
<1>5. Aborts
  BY DEF Init, Aborts
<1> QED
  BY <1>1, <1>2, <1>3, <1>4, <1>5 DEF IInv

LEMMA StepIInv == IInv /\ [Next]_vars => IInv'
<1> SUFFICES ASSUME IInv, [Next]_vars PROVE IInv'
  OBVIOUS
<1>1. CASE UNCHANGED vars
  BY <1>1 DEF IInv, TypeOK, Stages, Aborts, Begins, Runs, Prepared, Registries, Owners,
              vars, lifeVars, registryVars, fiberVars
<1>2. ASSUME NEW l \in Life,
             \/ CreateAgent(l) \/ Resume(l) \/ WaitForDraining(l) \/ Create(l)
             \/ LoadReturns(l) \/ LoadFails(l) \/ LoadedTail(l)
             \/ SetupReturns(l) \/ SetupFails(l) \/ Publish(l)
             \/ FallbackFails(l) \/ CreationRejects(l) \/ WaiterResumes(l)
             \/ CallerAborts(l) \/ DisposeHandle(l) \/ DisposeInsideAppend(l)
             \/ EndTeardown(l) \/ OwnerEffect(l)
      PROVE  IInv'
  BY <1>2, CreateAgentKeeps, ResumeKeeps, WaitForDrainingKeeps, CreateKeeps,
     LoadReturnsKeeps, LoadFailsKeeps, LoadedTailKeeps, SetupReturnsKeeps,
     SetupFailsKeeps, PublishKeeps, FallbackFailsKeeps, CreationRejectsKeeps,
     WaiterResumesKeeps, CallerAbortsKeeps, DisposeHandleKeeps,
     DisposeInsideAppendKeeps, EndTeardownKeeps, OwnerEffectKeeps
<1>3. ASSUME NEW o \in Owner, UnloadOwner(o) \/ OwnerGone(o)
      PROVE  IInv'
  BY <1>3, UnloadOwnerKeeps, OwnerGoneKeeps
<1>4. CASE UnloadFactory \/ DisposeFactory \/ FactoryDown
  BY <1>4, UnloadFactoryKeeps, DisposeFactoryKeeps, FactoryDownKeeps
<1> QED
  BY <1>1, <1>2, <1>3, <1>4 DEF Next

(* The inductive invariant: the stage of every lifecycle, its driver, its  *)
(* teardown, its effects and the registries agree.                         *)
THEOREM LifecycleInvariance == Spec => []IInv
<1>1. Init => IInv
  BY InitIInv
<1>2. IInv /\ [Next]_vars => IInv'
  BY StepIInv
<1> QED
  BY <1>1, <1>2, PTL DEF Spec

(* Every lifecycle is announced and told to be over in pairs and in order, *)
(* and a duplicate never evicts the lifecycle that holds the id.           *)
THEOREM PairedAnnouncementsAlways == Spec => []PairedAnnouncements
<1>1. IInv => PairedAnnouncements
  <2> SUFFICES ASSUME IInv, NEW l \in Life
               PROVE  IF sessionAt[idOf[l]] = l
                      THEN agentAt[idOf[l]] = l /\ edges[l] \in Begun
                      ELSE agentAt[idOf[l]] # l /\ edges[l] \in Over
    BY DEF PairedAnnouncements
  <2>1. CASE sessionAt[idOf[l]] = l
    BY <2>1, NoneAssumption DEF IInv, TypeOK, Registries
  <2>2. CASE sessionAt[idOf[l]] # l
    BY <2>2 DEF IInv, Registries
  <2> QED
    BY <2>1, <2>2
<1> QED
  BY <1>1, LifecycleInvariance, PTL

(* No driver, load, id or preparation outlives the owners of a lifecycle.  *)
THEOREM NothingOutlivesAlways == Spec => []NothingOutlives
<1>1. IInv => NothingOutlives
  <2> SUFFICES ASSUME IInv PROVE NothingOutlives
    OBVIOUS
  <2>1. ASSUME NEW l \in Life PROVE Begins(l) /\ Runs(l) /\ Prepared(l)
    BY DEF IInv, Stages
  <2>2. ASSUME NEW l \in Life, ownerOf[l] \in Owner, fiber[ownerOf[l]] = "gone"
        PROVE  /\ driver[l] = "built" => teardown[l] # "no"
               /\ at[l] = "loading" => abort[l]
    BY <2>1, <2>2 DEF IInv, Owners, Begins, Runs
  <2>3. ASSUME factory = "down", NEW l \in Life
        PROVE  /\ at[l] \notin InFlight /\ prep[l] # "held"
               /\ driver[l] = "built" => teardown[l] = "rejected"
               /\ sessionAt[idOf[l]] # l
    BY <2>1, <2>3, NoneAssumption DEF IInv, TypeOK, Owners, Runs, Prepared, Registries, InFlight
  <2>4. ASSUME NEW l \in Life, at[l] = "failed", prep[l] = "released"
        PROVE  driver[l] # "built"
    BY <2>1, <2>4 DEF Prepared
  <2> QED
    BY <2>2, <2>3, <2>4 DEF NothingOutlives
<1> QED
  BY <1>1, LifecycleInvariance, PTL
==============================================================================

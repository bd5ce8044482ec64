---------------------------- MODULE Preparations ----------------------------
(***************************************************************************)
(* The pool of prepared, unpublished sessions: packages/session/           *)
(* session-persistence/src/preparations.ts, as coordinator.ts uses it to   *)
(* resume a session (prepare, load), to observe one (borrowSession) and to *)
(* append to one (append).                                                 *)
(*                                                                         *)
(* The operations on one session's storage run one after the other, in the *)
(* order they were asked for; a caller resumes in a microtask, before any  *)
(* further storage operation completes.  A prepared source is known by the *)
(* revision of the log it was read from.                                   *)
(*                                                                         *)
(* A definition under a "Fault:" line is a plausible bug that a property   *)
(* catches when it replaces the definition below it; no action uses it.    *)
(***************************************************************************)
EXTENDS Naturals, FiniteSets, Sequences

CONSTANTS Id,         \* stored sessions
          Preparer,   \* calls of prepare and load
          Borrower,   \* calls of borrowSession
          Writer,     \* calls of append
          Capacity,   \* ready sources kept: preparedSessionCacheSize
          Damaged,    \* those whose log needs a repair
          MaxForeign, \* bound: writes of other processes
          NoId        \* the session of a call not yet made

ASSUME CallersAssumption ==
  /\ Preparer \cap Borrower = {} /\ Preparer \cap Writer = {}
  /\ Borrower \cap Writer = {}
  /\ NoId \notin Id
  /\ Damaged \subseteq Id
ASSUME BoundsAssumption == Capacity \in Nat \ {0} /\ MaxForeign \in Nat

Caller == Preparer \cup Borrower \cup Writer

VARIABLES
  entry,     \* of each session: its entry in the pool
  order,     \* the entries in the order they were last touched
  chain,     \* of each session: the storage operations asked for
  revision,  \* of each session's log
  damaged,   \* the log needs a repair
  tracked,   \* the coordinator knows the log's length
  live,      \* a session was published from the pool
  foreign,   \* writes of other processes so far
  call       \* each call: where it is, the session it is about, whether the
             \*   entry it was given is still in the pool, and its revision

pool    == <<entry, order>>
storage == <<revision, damaged, tracked, live, foreign>>
vars    == <<pool, chain, storage, call>>

NoEntry == [phase |-> "absent", source |-> 0, pins |-> 0]

At(pc) == [pc |-> pc, on |-> NoId, holds |-> FALSE, view |-> 0]
Done   == At("done")

Job(kind, who) == [kind |-> kind, who |-> who, current |-> TRUE]

Init ==
  /\ entry = [i \in Id |-> NoEntry] /\ order = <<>>
  /\ chain = [i \in Id |-> <<>>]
  /\ revision = [i \in Id |-> 1]
  /\ damaged = [i \in Id |-> i \in Damaged]
  /\ tracked = [i \in Id |-> FALSE] /\ live = [i \in Id |-> FALSE]
  /\ foreign = 0
  /\ call = [c \in Caller |-> At("idle")]

-----------------------------------------------------------------------------
(* The pool.                                                               *)

(* The order s without i, which is in it once at most.                     *)
Without(s, i) ==
  IF \E k \in DOMAIN s : s[k] = i
    THEN LET k == CHOOSE k \in DOMAIN s : s[k] = i
         IN  SubSeq(s, 1, k - 1) \o SubSeq(s, k + 1, Len(s))
    ELSE s

Ready(e) == {i \in Id : e[i].phase = "ready"}

\* Fault: eviction does not look at the leases.
EvictableAnyway(e, i) == e[i].phase = "ready"

Evictable(e, i) == e[i].phase = "ready" /\ e[i].pins = 0

(* Beyond the capacity the entry touched longest ago leaves, if any may:   *)
(* the set has one member or none.                                         *)
Evicted(o, e) ==
  {o[k] : k \in {k \in DOMAIN o :
     /\ Cardinality(Ready(e)) > Capacity
     /\ Evictable(e, o[k])
     /\ \A j \in DOMAIN o : Evictable(e, o[j]) => k <= j}}

(* The calls cs, to which the entries of gone are lost.                    *)
Losing(cs, gone) ==
  [c \in Caller |-> IF cs[c].on \in gone THEN [cs[c] EXCEPT !.holds = FALSE] ELSE cs[c]]

(* The pool becomes e, in which i was touched, and the calls cs.           *)
Touch(e, i, cs) ==
  LET o   == Append(Without(order, i), i)
      out == Evicted(o, e)
  IN  /\ entry' = [k \in Id |-> IF k \in out THEN NoEntry ELSE e[k]]
      /\ order' = IF out = {} THEN o ELSE Without(o, CHOOSE k \in out : TRUE)
      /\ call' = Losing(cs, out)

(* The entry of i leaves, and a load in progress for it is no longer the   *)
(* pool's.                                                                 *)
Remove(i, jobs, cs) ==
  /\ entry' = [entry EXCEPT ![i] = NoEntry]
  /\ order' = Without(order, i)
  /\ call' = Losing(cs, {i})
  /\ chain' = [chain EXCEPT ![i] = [k \in DOMAIN jobs |->
       IF jobs[k].kind = "load" THEN [jobs[k] EXCEPT !.current = FALSE] ELSE jobs[k]]]

Keep(cs) == call' = cs /\ UNCHANGED pool

\* Fault: a reservation that ends does not resume its waiters.
WokenNever(i) == call

(* Whoever waits for the reservation of i resumes.                         *)
Woken(i) ==
  [c \in Caller |-> IF call[c].pc = "waiting" /\ call[c].on = i
                      THEN [call[c] EXCEPT !.pc = "woken"] ELSE call[c]]

Goes(c, pc) == [call EXCEPT ![c].pc = pc]
Ends(who)   == [c \in Caller |-> IF c \in who THEN Done ELSE call[c]]

Readied(i, source) == [entry EXCEPT ![i].phase = "ready", ![i].source = source]

Queue(i, job) == chain' = [chain EXCEPT ![i] = Append(@, job)]

Running(i) == Head(chain[i])
Rest(i)    == Tail(chain[i])
Dequeue(i) == chain' = [chain EXCEPT ![i] = Rest(i)]

(* A caller is about to resume.                                            *)
Microtask == \E c \in Caller : call[c].pc \in {"loaded", "woken", "again"}

Runs(i, kind) == chain[i] # <<>> /\ Running(i).kind = kind

-----------------------------------------------------------------------------
(* Calls of prepare, load and borrowSession.                               *)

Pinned(c) == IF c \in Borrower THEN 1 ELSE 0

Given(c, i, pc, view) ==
  call' = [call EXCEPT ![c] = [pc |-> pc, on |-> i, holds |-> TRUE, view |-> view]]

(* The load that fills the entry is for c, too.                            *)
AlsoFor(c, jobs) ==
  [k \in DOMAIN jobs |-> IF jobs[k].kind = "load" /\ jobs[k].current
                           THEN [jobs[k] EXCEPT !.who = @ \cup {c}] ELSE jobs[k]]

(* entryFor: share the entry of the session, or start to load one.         *)
Enter(c, i) ==
  /\ \/ live[i] /\ Keep(Ends({c})) /\ UNCHANGED chain
     \/ /\ ~live[i] /\ entry[i].phase = "absent"
        /\ entry' = [entry EXCEPT ![i] = [NoEntry EXCEPT !.phase = "loading", !.pins = Pinned(c)]]
        /\ order' = Append(order, i)
        /\ Queue(i, Job("load", {c}))
        /\ Given(c, i, "loading", 0)
     \/ /\ ~live[i] /\ entry[i].phase = "loading"
        /\ entry' = [entry EXCEPT ![i].pins = @ + Pinned(c)]
        /\ chain' = [chain EXCEPT ![i] = AlsoFor(c, @)]
        /\ Given(c, i, "loading", 0)
        /\ UNCHANGED order
     \/ /\ ~live[i] /\ entry[i].phase \in {"ready", "committing", "reserved"}
        /\ entry' = [entry EXCEPT ![i].pins = @ + Pinned(c)]
        /\ Given(c, i, "loaded", entry[i].source)
        /\ UNCHANGED <<order, chain>>
  /\ UNCHANGED storage

Call(c) ==
  /\ c \notin Writer
  /\ \/ call[c].pc = "idle" /\ ~Microtask /\ \E i \in Id : Enter(c, i)
     \/ call[c].pc = "again" /\ Enter(c, call[c].on)

(* The source is read and, if the entry is still in the pool, ready.       *)
Load(i) ==
  /\ Runs(i, "load") /\ ~Microtask
  /\ LET cs == [c \in Caller |-> IF c \in Running(i).who
                  THEN [call[c] EXCEPT !.pc = "loaded", !.view = revision[i]] ELSE call[c]]
     IN  IF Running(i).current THEN Touch(Readied(i, revision[i]), i, cs) ELSE Keep(cs)
  /\ Dequeue(i)
  /\ UNCHANGED storage

LoadFails(i) ==
  /\ Runs(i, "load") /\ ~Microtask
  /\ IF Running(i).current
       THEN Remove(i, Rest(i), Ends(Running(i).who))
       ELSE Keep(Ends(Running(i).who)) /\ Dequeue(i)
  /\ UNCHANGED storage

-----------------------------------------------------------------------------
(* prepare and load: reserve the entry, repairing the log first.           *)

Reserve(c) ==
  /\ c \in Preparer /\ call[c].pc \in {"loaded", "woken"}
  /\ LET i == call[c].on
     IN  \/ ~call[c].holds /\ Keep(Goes(c, "again")) /\ UNCHANGED chain
         \/ call[c].holds /\ entry[i].phase # "ready" /\ Keep(Goes(c, "waiting")) /\ UNCHANGED chain
         \/ /\ call[c].holds /\ entry[i].phase = "ready"
            /\ entry' = [entry EXCEPT ![i].phase = "committing"]
            /\ call' = Goes(c, "committing")
            /\ Queue(i, Job("commit", {c}))
            /\ UNCHANGED order
  /\ UNCHANGED storage

(* The running operation ends, and with it the entry of c.                 *)
Discard(i, c, next) ==
  IF call[c].holds
    THEN Remove(i, Rest(i), [Woken(i) EXCEPT ![c] = next])
    ELSE Keep([call EXCEPT ![c] = next]) /\ Dequeue(i)

Again(c) == [call[c] EXCEPT !.pc = "again", !.view = 0]

\* Fault: the log may have changed since the source was read.
CurrentEnough(i, r) == TRUE

Current(i, r) == revision[i] = r

(* Nothing to repair: the source is the caller's alone, unless it has been *)
(* cancelled or the entry is gone.                                         *)
Commit(i) ==
  /\ Runs(i, "commit") /\ ~Microtask
  /\ \E c \in Running(i).who :
       /\ Current(i, call[c].view) /\ ~damaged[i]
       /\ \/ /\ call[c].holds
             /\ entry' = [entry EXCEPT ![i].phase = "reserved"]
             /\ call' = Goes(c, "reserved")
             /\ UNCHANGED order
          \/ /\ call[c].holds
             /\ Touch(Readied(i, call[c].view), i, [Woken(i) EXCEPT ![c] = Done])
          \/ /\ ~call[c].holds
             /\ \E next \in {Again(c), Done} : Keep([call EXCEPT ![c] = next])
  /\ Dequeue(i)
  /\ tracked' = [tracked EXCEPT ![i] = TRUE]
  /\ UNCHANGED <<revision, damaged, live, foreign>>

(* The source is stale, or it is repaired and thereby stale.               *)
CommitAgain(i) ==
  /\ Runs(i, "commit") /\ ~Microtask
  /\ \E c \in Running(i).who :
       /\ \/ ~Current(i, call[c].view) /\ UNCHANGED <<revision, damaged>>
          \/ /\ Current(i, call[c].view) /\ damaged[i]
             /\ revision' = [revision EXCEPT ![i] = @ + 1]
             /\ damaged' = [damaged EXCEPT ![i] = FALSE]
       /\ Discard(i, c, Again(c))
  /\ UNCHANGED <<tracked, live, foreign>>

(* A repair that fails half-way leaves another log than the one read: cut  *)
(* back, and perhaps complete.                                             *)
HalfRepaired(i) ==
  /\ damaged[i]
  /\ revision' = [revision EXCEPT ![i] = @ + 1]
  /\ \E still \in BOOLEAN : damaged' = [damaged EXCEPT ![i] = still]

CommitFails(i) ==
  /\ Runs(i, "commit") /\ ~Microtask
  /\ \E c \in Running(i).who :
       /\ UNCHANGED <<revision, damaged>> \/ (Current(i, call[c].view) /\ HalfRepaired(i))
       /\ Discard(i, c, Done)
  /\ UNCHANGED <<tracked, live, foreign>>

(* The owner publishes the session, keeps its inspection only, or gives    *)
(* the preparation back.                                                   *)
Finish(c) ==
  /\ call[c].pc = "reserved"
  /\ LET i  == call[c].on
         cs == [Woken(i) EXCEPT ![c] = Done]
     IN  \/ /\ call[c].holds
            /\ \E published \in BOOLEAN : live' = [live EXCEPT ![i] = published]
            /\ Remove(i, chain[i], cs)
         \/ call[c].holds /\ Touch(Readied(i, call[c].view), i, cs) /\ UNCHANGED <<live, chain>>
         \/ ~call[c].holds /\ Keep(Ends({c})) /\ UNCHANGED <<live, chain>>
  /\ UNCHANGED <<revision, damaged, tracked, foreign>>

-----------------------------------------------------------------------------
(* borrowSession: a lease keeps its entry from eviction.                   *)

\* Fault: a lease that ends keeps its pin.
UnpinNever(c) == Keep(Ends({c}))

(* The lease ends, and its call.                                           *)
Unpin(c) ==
  LET i == call[c].on
      e == [entry EXCEPT ![i].pins = @ - 1]
  IN  IF ~call[c].holds THEN Keep(Ends({c}))
      ELSE IF e[i].phase = "ready" THEN Touch(e, i, Ends({c}))
      ELSE entry' = e /\ call' = Ends({c}) /\ UNCHANGED order

Borrow(c) ==
  /\ c \in Borrower /\ call[c].pc = "loaded"
  /\ LET i == call[c].on
     IN  \/ live[i] /\ Unpin(c) /\ UNCHANGED chain
         \/ /\ ~live[i]
            /\ IF call[c].holds /\ entry[i].phase = "ready"
                 THEN Touch(entry, i, Goes(c, "checking"))
                 ELSE Keep(Goes(c, "checking"))
            /\ Queue(i, Job("check", {c}))
  /\ UNCHANGED storage

(* The source is current, or someone has it reserved; or it is stale.      *)
Check(i) ==
  /\ Runs(i, "check") /\ ~Microtask
  /\ \E c \in Running(i).who :
       LET exclusive == call[c].holds /\ entry[i].phase # "ready"
       IN  \/ live[i] /\ Unpin(c) /\ Dequeue(i)
           \/ /\ ~live[i] /\ (Current(i, call[c].view) \/ exclusive)
              /\ Keep(Goes(c, "leased")) /\ Dequeue(i)
           \/ ~live[i] /\ ~Current(i, call[c].view) /\ ~exclusive /\ Discard(i, c, Again(c))
  /\ UNCHANGED storage

CheckFails(i) ==
  /\ Runs(i, "check") /\ ~Microtask
  /\ \E c \in Running(i).who : Unpin(c)
  /\ Dequeue(i)
  /\ UNCHANGED storage

Dispose(c) ==
  /\ call[c].pc = "leased"
  /\ Unpin(c)
  /\ UNCHANGED <<chain, storage>>

-----------------------------------------------------------------------------
(* Cancellation: a caller that waits, leaves at once; a reservation that   *)
(* has not begun its repair gives the entry up.                            *)

(* The operations asked for stay in the chain, without their caller.       *)
NotFor(c, jobs) == [k \in DOMAIN jobs |-> [jobs[k] EXCEPT !.who = @ \ {c}]]

AbortLoading(c) ==
  /\ call[c].pc = "loading" /\ ~Microtask
  /\ chain' = [chain EXCEPT ![call[c].on] = NotFor(c, @)]
  /\ IF c \in Borrower THEN Unpin(c) ELSE Keep(Ends({c}))
  /\ UNCHANGED storage

AbortWaiting(c) ==
  /\ call[c].pc = "waiting" /\ ~Microtask
  /\ Keep(Ends({c}))
  /\ UNCHANGED <<chain, storage>>

AbortCommit(c) ==
  /\ call[c].pc = "committing" /\ ~Microtask
  /\ LET i == call[c].on
     IN  /\ c \notin Running(i).who
         /\ IF call[c].holds
              THEN Remove(i, NotFor(c, chain[i]), [Woken(i) EXCEPT ![c] = Done])
              ELSE Keep(Ends({c})) /\ chain' = [chain EXCEPT ![i] = NotFor(c, @)]
  /\ UNCHANGED storage

AbortCheck(c) ==
  /\ call[c].pc = "checking" /\ ~Microtask
  /\ c \notin Running(call[c].on).who
  /\ Unpin(c)
  /\ chain' = [chain EXCEPT ![call[c].on] = NotFor(c, @)]
  /\ UNCHANGED storage

(* Its turn comes, and it finds its caller gone.                           *)
Skip(i) ==
  /\ Runs(i, "commit") \/ Runs(i, "check")
  /\ Running(i).who = {}
  /\ Dequeue(i)
  /\ UNCHANGED <<pool, storage, call>>

-----------------------------------------------------------------------------
(* append: refused while the session is reserved; otherwise it invalidates *)
(* the entry once it is done.                                              *)

CallAppend(c) ==
  /\ c \in Writer /\ call[c].pc = "idle" /\ ~Microtask
  /\ \E i \in Id : Queue(i, Job("append", {c}))
  /\ Keep(Goes(c, "queued"))
  /\ UNCHANGED storage

\* Fault: an append goes on beside a reservation.
WritableAlways(i) == TRUE

Writable(i) == entry[i].phase \notin {"committing", "reserved"}

Begins(i, kind) == <<[Running(i) EXCEPT !.kind = kind]>> \o Rest(i)

(* The first append of this process adopts the log, by way of the ready    *)
(* source, which it takes out of the pool.                                 *)
BeginAppend(i) ==
  /\ Runs(i, "append")
  /\ \/ ~Writable(i) /\ Keep(Ends(Running(i).who)) /\ Dequeue(i)
     \/ /\ Writable(i) /\ tracked[i]
        /\ Keep(call) /\ chain' = [chain EXCEPT ![i] = Begins(i, "appending")]
     \/ /\ Writable(i) /\ ~tracked[i]
        /\ IF entry[i].phase = "ready"
             THEN Remove(i, Begins(i, "adopting"), call)
             ELSE Keep(call) /\ chain' = [chain EXCEPT ![i] = Begins(i, "adopting")]
  /\ UNCHANGED storage

(* The last round found the log current, and repaired by those before.     *)
Adopt(i) ==
  /\ Runs(i, "adopting") /\ ~Microtask
  /\ tracked' = [tracked EXCEPT ![i] = TRUE]
  /\ damaged' = [damaged EXCEPT ![i] = FALSE]
  /\ revision' = IF damaged[i] THEN [revision EXCEPT ![i] = @ + 1] ELSE revision
  /\ Keep(call) /\ chain' = [chain EXCEPT ![i] = Begins(i, "appending")]
  /\ UNCHANGED <<live, foreign>>

AdoptFails(i) ==
  /\ Runs(i, "adopting") /\ ~Microtask
  /\ UNCHANGED <<revision, damaged>> \/ HalfRepaired(i)
  /\ Keep(Ends(Running(i).who)) /\ Dequeue(i)
  /\ UNCHANGED <<tracked, live, foreign>>

EndAppend(i) ==
  /\ Runs(i, "appending") /\ ~Microtask
  /\ revision' = [revision EXCEPT ![i] = @ + 1]
  /\ Remove(i, Rest(i), [c \in Caller |-> IF c \in Running(i).who THEN Done ELSE Woken(i)[c]])
  /\ UNCHANGED <<damaged, tracked, live, foreign>>

(* The batch written in part is cut off again.                             *)
AppendFails(i) ==
  /\ Runs(i, "appending") /\ ~Microtask
  /\ revision' \in {revision, [revision EXCEPT ![i] = @ + 1]}
  /\ Keep(Ends(Running(i).who)) /\ Dequeue(i)
  /\ UNCHANGED <<damaged, tracked, live, foreign>>

(* Another process writes a log that is not in use here; before anyone     *)
(* has read it, this makes no difference.                                  *)
ForeignWrite(i) ==
  /\ foreign < MaxForeign
  /\ entry[i].phase \in {"ready", "committing"} /\ ~Runs(i, "appending")
  /\ foreign' = foreign + 1
  /\ revision' = [revision EXCEPT ![i] = @ + 1]
  /\ UNCHANGED <<pool, chain, damaged, tracked, live, call>>

-----------------------------------------------------------------------------
Storage(i) ==
  \/ Load(i) \/ LoadFails(i) \/ Commit(i) \/ CommitAgain(i) \/ CommitFails(i)
  \/ Check(i) \/ CheckFails(i) \/ Skip(i)
  \/ BeginAppend(i) \/ Adopt(i) \/ AdoptFails(i) \/ EndAppend(i) \/ AppendFails(i)

Resume(c) == (call[c].pc = "again" /\ Call(c)) \/ Reserve(c) \/ Borrow(c)

Next ==
  \/ \E i \in Id : Storage(i) \/ ForeignWrite(i)
  \/ \E c \in Caller :
       \/ Call(c) \/ Reserve(c) \/ Borrow(c) \/ Finish(c) \/ Dispose(c) \/ CallAppend(c)
       \/ AbortLoading(c) \/ AbortWaiting(c) \/ AbortCommit(c) \/ AbortCheck(c)

Spec == Init /\ [][Next]_vars

(* The event loop gets to every answer of the storage, callers resume, and *)
(* the owners of reservations and leases are done with them in the end.    *)
LiveSpec ==
  /\ Spec
  /\ \A i \in Id : SF_vars(Storage(i))
  /\ \A c \in Caller : WF_vars(Resume(c)) /\ WF_vars(Finish(c)) /\ WF_vars(Dispose(c))

-----------------------------------------------------------------------------
Phase == {"absent", "loading", "ready", "committing", "reserved"}

(* Every variable has its type.                                            *)
TypeOK ==
  /\ entry \in [Id -> [phase : Phase, source : Nat, pins : Nat]]
  /\ \A i \in Id : (entry[i].phase # "absent") = (\E k \in DOMAIN order : order[k] = i)
  /\ \A j, k \in DOMAIN order : order[j] = order[k] => j = k
  /\ revision \in [Id -> Nat]
  /\ damaged \in [Id -> BOOLEAN] /\ tracked \in [Id -> BOOLEAN] /\ live \in [Id -> BOOLEAN]
  /\ call \in [Caller -> [pc : {"idle", "loading", "loaded", "waiting", "woken", "again", "committing",
                               "reserved", "checking", "leased", "queued", "done"},
                         on : Id \cup {NoId}, holds : BOOLEAN, view : Nat]]

(* Whoever has a reservation has it alone, for the log as it is: repaired, *)
(* not written to since it was read, and with no append in progress        *)
(* (commitPrepared, assertWritable, invalidate).                           *)
ReservedIsCurrent ==
  \A c \in Preparer : call[c].pc = "reserved" =>
    /\ call[c].holds /\ entry[call[c].on].phase = "reserved"
    /\ call[c].view = revision[call[c].on] /\ ~damaged[call[c].on]
    /\ \A kind \in {"adopting", "appending"} : ~Runs(call[c].on, kind)
    /\ \A d \in Preparer : call[d].pc = "reserved" /\ call[d].on = call[c].on => d = c

(* A borrower that has not let go of its entry.                            *)
Leases(c, i) ==
  call[c].on = i /\ call[c].holds /\ call[c].pc \in {"loading", "loaded", "checking", "leased"}

(* An entry is pinned exactly by the leases on it, also after cancelled    *)
(* borrows, and the pool exceeds its capacity only by entries on lease     *)
(* (touch, borrow).                                                        *)
LeasesAreCounted ==
  /\ \A i \in Id : entry[i].phase # "absent" =>
       entry[i].pins = Cardinality({c \in Borrower : Leases(c, i)})
  /\ Cardinality(Ready(entry)) > Capacity =>
       \A i \in Ready(entry) : \E c \in Borrower : Leases(c, i)

(* An entry on a lease that goes on leaves the pool only by an operation   *)
(* on the log of its own session, never for another's sake (touch, borrow).*)
LeaseKeepsEntry ==
  [][\A i \in Id, c \in Borrower :
       Leases(c, i) /\ call'[c].pc # "done" /\ entry[i].phase = "ready" /\ entry'[i].phase = "absent"
         => chain'[i] # chain[i]]_vars

(* Every call ends: no retry goes on for ever and no waiter is forgotten,  *)
(* as long as leases and reservations end (prepare, load, borrowSession).  *)
PreparationsSettle == <>[](\A c \in Caller : call[c].pc \in {"idle", "done"})
=============================================================================

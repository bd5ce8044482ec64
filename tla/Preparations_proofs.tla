------------------------- MODULE Preparations_proofs -------------------------
(***************************************************************************)
(* Reservations and leases of Preparations, for any sessions, callers and  *)
(* capacity.                                                               *)
(* The inductive invariant of the reservations says which calls each       *)
(* operation of a chain is for, that one load at most fills an entry, and  *)
(* that the phase of an entry names the one call that has it to itself.    *)
(* That of the leases, on top of it, counts the leases on each entry, and  *)
(* says that the order has the pool's entries and that whoever waits for a *)
(* load that is not the pool's any more has no entry to let go of.         *)
(***************************************************************************)
EXTENDS Preparations, Integers, SequenceTheorems, FiniteSetTheorems,
        WellFoundedInduction, TLAPS

CallPoint == {"idle", "loading", "loaded", "waiting", "woken", "again", "committing",
              "reserved", "checking", "leased", "queued", "done"}

CallRecord  == [pc : CallPoint, on : Id \cup {NoId}, holds : BOOLEAN, view : Nat]
EntryRecord == [phase : Phase, source : Nat, pins : Int]
JobRecord   == [kind : {"load", "commit", "check", "append", "adopting", "appending"},
                who : SUBSET Caller, current : BOOLEAN]

(* An append that adopts the log or writes to it.                          *)
Begun(kind) == kind \in {"adopting", "appending"}

(* A call that is about some session.                                      *)
Sited(r)   == r.pc \notin {"idle", "queued", "done"} => r.on \in Id
Placed(cs) == \A c \in Caller : Sited(cs[c])

(* The call r waits for an operation of this kind on i.                    *)
Asked(r, kind, i) ==
  \/ kind = "load" /\ r.pc = "loading" /\ r.on = i
  \/ kind = "commit" /\ r.pc = "committing" /\ r.on = i
  \/ kind = "check" /\ r.pc = "checking" /\ r.on = i
  \/ kind \in {"append", "adopting", "appending"} /\ r.pc = "queued"

(* An operation is asked for by calls that wait for it and for no other,   *)
(* and only the first one runs.                                            *)
JobsOK(ch, cs) ==
  /\ \A i \in Id : \A k \in DOMAIN ch[i] : \A c \in ch[i][k].who :
       Asked(cs[c], ch[i][k].kind, i)
  /\ \A i, j \in Id : \A k \in DOMAIN ch[i], l \in DOMAIN ch[j] :
       \A c \in ch[i][k].who \cap ch[j][l].who : i = j /\ k = l
  /\ \A i \in Id : \A k \in DOMAIN ch[i] : Begun(ch[i][k].kind) => k = 1

Fills(job) == job.kind = "load" /\ job.current

(* One load at most fills an entry; nothing is appended to a reserved log. *)
ChainOK(ch, e) ==
  \A i \in Id : \A k \in DOMAIN ch[i] :
    /\ Fills(ch[i][k]) => /\ e[i].phase = "loading"
                          /\ \A l \in DOMAIN ch[i] : Fills(ch[i][l]) => k = l
    /\ Begun(ch[i][k].kind) => e[i].phase # "reserved"

Exclusive(r) == r.pc \in {"committing", "reserved"} /\ r.holds

(* The entry says who reserves it, and a reservation is of the log as it is. *)
ReservedOK(e, cs, rev, dam) ==
  /\ \A c \in Caller : Exclusive(cs[c]) => e[cs[c].on].phase = cs[c].pc
  /\ \A c, d \in Caller : Exclusive(cs[c]) /\ Exclusive(cs[d]) /\ cs[c].on = cs[d].on => c = d
  /\ \A c \in Caller : cs[c].pc = "reserved" =>
       cs[c].holds /\ cs[c].view = rev[cs[c].on] /\ ~dam[cs[c].on]

Chains  == [Id -> Seq(JobRecord)]
Calls   == [Caller -> CallRecord]
Entries == [Id -> EntryRecord]

(* What an action keeps, of the pool, the chains, the calls and the logs.  *)
Good(e, ch, cs, rev, dam) ==
  /\ e \in Entries /\ ch \in Chains /\ cs \in Calls /\ Placed(cs)
  /\ rev \in [Id -> Nat] /\ dam \in [Id -> BOOLEAN]
  /\ JobsOK(ch, cs) /\ ChainOK(ch, e) /\ ReservedOK(e, cs, rev, dam)

IInv == Good(entry, chain, call, revision, damaged)

-----------------------------------------------------------------------------
(* Operations on the chains.                                               *)

Waits == {"loading", "committing", "checking", "queued"}

(* A change of a call that no operation notices.                           *)
Unasked(r, s) == r.pc \notin Waits \/ (s.pc = r.pc /\ s.on = r.on)

(* No operation but for the calls of who notices what becomes of a call.   *)
Steady(cs, ds, who) == \A c \in Caller \ who : Unasked(cs[c], ds[c])

(* The calls of who wait from now on.                                      *)
Asking(cs, ds, job, i) ==
  \A c \in job.who : cs[c].pc \notin Waits /\ Asked(ds[c], job.kind, i)

(* The chain dh asks for the operations of ch, for fewer callers.          *)
Lessened(ch, dh, cs, ds) ==
  \A i \in Id : /\ DOMAIN dh[i] = DOMAIN ch[i]
               /\ \A k \in DOMAIN ch[i] :
                    /\ dh[i][k].kind = ch[i][k].kind
                    /\ dh[i][k].who \subseteq ch[i][k].who
                    /\ \A c \in dh[i][k].who : Unasked(cs[c], ds[c])

(* An operation of a chain has its type.                                   *)
LEMMA JobAt ==
  ASSUME NEW ch \in Chains, NEW i \in Id, NEW k \in DOMAIN ch[i]
  PROVE  /\ ch[i] \in Seq(JobRecord) /\ Len(ch[i]) \in Nat /\ k \in 1 .. Len(ch[i])
         /\ ch[i][k] \in JobRecord
         /\ ch[i][k].kind \in {"load", "commit", "check", "append", "adopting", "appending"}
         /\ ch[i][k].who \subseteq Caller /\ ch[i][k].current \in BOOLEAN
<1>1. ch[i] \in Seq(JobRecord)  BY DEF Chains
<1>2. Len(ch[i]) \in Nat /\ k \in 1 .. Len(ch[i]) /\ ch[i][k] \in JobRecord  BY <1>1
<1> QED
  BY <1>1, <1>2 DEF JobRecord

(* The head of a chain is its first operation.                             *)
LEMMA RunningAt ==
  ASSUME NEW ch \in Chains, NEW i \in Id, ch[i] # <<>>
  PROVE  1 \in DOMAIN ch[i] /\ Head(ch[i]) = ch[i][1]
<1>1. ch[i] \in Seq(JobRecord)  BY DEF Chains
<1> QED
  BY <1>1

(* The same operations, for fewer callers.                                 *)
LEMMA Mapped ==
  ASSUME NEW ch, NEW cs, NEW ds, NEW dh, JobsOK(ch, cs), Lessened(ch, dh, cs, ds)
  PROVE  JobsOK(dh, ds)
<1>1. ASSUME NEW i \in Id, NEW k \in DOMAIN dh[i], NEW c \in dh[i][k].who
      PROVE  Asked(ds[c], dh[i][k].kind, i)
  <2>1. /\ Asked(cs[c], ch[i][k].kind, i) /\ dh[i][k].kind = ch[i][k].kind
        /\ Unasked(cs[c], ds[c])
    BY DEF JobsOK, Lessened
  <2> QED  BY <2>1 DEF Asked, Unasked, Waits
<1>2. ASSUME NEW i \in Id, NEW j \in Id, NEW k \in DOMAIN dh[i], NEW l \in DOMAIN dh[j],
             NEW c \in dh[i][k].who \cap dh[j][l].who
      PROVE  i = j /\ k = l
  BY DEF JobsOK, Lessened
<1>3. \A i \in Id : \A k \in DOMAIN dh[i] : Begun(dh[i][k].kind) => k = 1
  BY DEF JobsOK, Lessened
<1> QED
  BY <1>1, <1>2, <1>3 DEF JobsOK

(* The same operations fill and append no more than before.                *)
LEMMA MappedChain ==
  ASSUME NEW ch, NEW e, ChainOK(ch, e),
         NEW dh, \A i \in Id : DOMAIN dh[i] = DOMAIN ch[i],
         \A i \in Id : \A k \in DOMAIN ch[i] :
           /\ dh[i][k].kind = ch[i][k].kind
           /\ dh[i][k].current => ch[i][k].current
  PROVE  ChainOK(dh, e)
  BY DEF ChainOK, Fills

(* The running operation ends.                                             *)
LEMMA Dequeued ==
  ASSUME NEW ch \in Chains, NEW cs, NEW ds, JobsOK(ch, cs), NEW i \in Id, ch[i] # <<>>,
         Steady(cs, ds, Head(ch[i]).who), NEW e, ChainOK(ch, e),
         NEW dh, dh = [ch EXCEPT ![i] = Tail(ch[i])]
  PROVE  /\ dh \in Chains /\ JobsOK(dh, ds) /\ ChainOK(dh, e)
         /\ Fills(Head(ch[i])) => \A k \in DOMAIN dh[i] : ~Fills(dh[i][k])
         /\ \A k \in DOMAIN dh[i] : ~Begun(dh[i][k].kind)
<1> DEFINE n == Len(ch[i])
           t == Tail(ch[i])
           S(j) == IF j = i THEN 1 ELSE 0
<1>1. ch[i] \in Seq(JobRecord) /\ n \in Nat \ {0} /\ DOMAIN ch[i] = 1 .. n /\ Head(ch[i]) = ch[i][1]
  BY DEF Chains
<1>2. t \in Seq(JobRecord) /\ Len(t) = n - 1 /\ \A k \in 1 .. n - 1 : t[k] = ch[i][k + 1]
  BY <1>1
<1>3. DOMAIN t = 1 .. n - 1
  BY <1>2
<1>4. dh \in Chains /\ dh[i] = t /\ \A j \in Id \ {i} : dh[j] = ch[j]
  BY <1>2 DEF Chains
<1> HIDE DEF t, n
<1>5. ASSUME NEW j \in Id, NEW k \in DOMAIN dh[j]
      PROVE  /\ k \in Nat \ {0} /\ k + S(j) \in DOMAIN ch[j] /\ dh[j][k] = ch[j][k + S(j)]
  <2>1. CASE j = i
    <3>1. k \in 1 .. n - 1  BY <1>3, <1>4, <2>1
    <3>2. k \in Nat \ {0} /\ k + 1 \in 1 .. n  BY <1>1, <3>1
    <3> QED  BY <1>1, <1>2, <1>4, <2>1, <3>1, <3>2
  <2>2. CASE j # i
    <3>1. dh[j] = ch[j]  BY <1>4, <2>2
    <3>2. k \in Nat \ {0}  BY <3>1, JobAt
    <3> QED  BY <2>2, <3>1, <3>2
  <2> QED  BY <2>1, <2>2
<1>6. ASSUME NEW j \in Id, NEW k \in DOMAIN dh[j], NEW c \in dh[j][k].who
      PROVE  c \in Caller /\ c \notin Head(ch[i]).who
  <2>1. k \in Nat \ {0} /\ k + S(j) \in DOMAIN ch[j] /\ dh[j][k] = ch[j][k + S(j)]  BY <1>5
  <2>2. c \in ch[j][k + S(j)].who  BY <2>1
  <2>3. c \in Caller  BY <2>1, <2>2, JobAt
  <2>4. ASSUME c \in ch[i][1].who PROVE FALSE
    <3>1. 1 \in DOMAIN ch[i]  BY <1>1
    <3>2. j = i /\ k + S(j) = 1  BY <2>1, <2>2, <2>4, <3>1 DEF JobsOK
    <3> QED  BY <2>1, <3>2
  <2> QED  BY <1>1, <2>3, <2>4
<1>7. JobsOK(dh, ds)
  <2>1. ASSUME NEW j \in Id, NEW k \in DOMAIN dh[j], NEW c \in dh[j][k].who
        PROVE  Asked(ds[c], dh[j][k].kind, j)
    <3>1. k + S(j) \in DOMAIN ch[j] /\ dh[j][k] = ch[j][k + S(j)]  BY <1>5
    <3>2. Asked(cs[c], dh[j][k].kind, j)  BY <3>1 DEF JobsOK
    <3>3. Unasked(cs[c], ds[c])  BY <1>6 DEF Steady
    <3> QED  BY <3>2, <3>3 DEF Asked, Unasked, Waits
  <2>2. ASSUME NEW j \in Id, NEW m \in Id, NEW k \in DOMAIN dh[j], NEW l \in DOMAIN dh[m],
               NEW c \in dh[j][k].who \cap dh[m][l].who
        PROVE  j = m /\ k = l
    <3>1. /\ k \in Nat \ {0} /\ k + S(j) \in DOMAIN ch[j] /\ dh[j][k] = ch[j][k + S(j)]
          /\ l \in Nat \ {0} /\ l + S(m) \in DOMAIN ch[m] /\ dh[m][l] = ch[m][l + S(m)]
      BY <1>5
    <3>2. j = m /\ k + S(j) = l + S(m)  BY <3>1 DEF JobsOK
    <3> QED  BY <3>1, <3>2
  <2>3. ASSUME NEW j \in Id, NEW k \in DOMAIN dh[j], Begun(dh[j][k].kind) PROVE k = 1
    <3>1. k \in Nat \ {0} /\ k + S(j) \in DOMAIN ch[j] /\ dh[j][k] = ch[j][k + S(j)]  BY <1>5
    <3>2. k + S(j) = 1  BY <2>3, <3>1 DEF JobsOK
    <3> QED  BY <3>1, <3>2
  <2> QED  BY <2>1, <2>2, <2>3 DEF JobsOK
<1>8. ASSUME NEW k \in DOMAIN dh[i] PROVE ~Begun(dh[i][k].kind)
  <2>1. k \in Nat \ {0} /\ k + 1 \in DOMAIN ch[i] /\ dh[i][k] = ch[i][k + 1]  BY <1>5
  <2>2. k + 1 # 1  BY <2>1
  <2> QED  BY <2>1, <2>2 DEF JobsOK
<1>9. /\ ChainOK(dh, e)
      /\ Fills(Head(ch[i])) => \A k \in DOMAIN dh[i] : ~Fills(dh[i][k])
  <2>1. ASSUME NEW j \in Id, NEW k \in DOMAIN dh[j]
        PROVE  /\ Fills(dh[j][k]) => e[j].phase = "loading"
               /\ Begun(dh[j][k].kind) => e[j].phase # "reserved"
    BY <1>5 DEF ChainOK
  <2>2. ASSUME NEW j \in Id, NEW k \in DOMAIN dh[j], NEW l \in DOMAIN dh[j],
               Fills(dh[j][k]), Fills(dh[j][l])
        PROVE  k = l
    <3>1. /\ k \in Nat \ {0} /\ k + S(j) \in DOMAIN ch[j] /\ dh[j][k] = ch[j][k + S(j)]
          /\ l \in Nat \ {0} /\ l + S(j) \in DOMAIN ch[j] /\ dh[j][l] = ch[j][l + S(j)]
      BY <1>5
    <3>3. Fills(ch[j][k + S(j)]) /\ Fills(ch[j][l + S(j)])
      BY <2>2, <3>1
    <3>2. k + S(j) = l + S(j)  BY ONLY <3>1, <3>3, ChainOK(ch, e), j \in Id DEF ChainOK
    <3> QED  BY <3>1, <3>2
  <2>3. ASSUME Fills(Head(ch[i])), NEW k \in DOMAIN dh[i], Fills(dh[i][k]) PROVE FALSE
    <3>1. k \in Nat \ {0} /\ k + 1 \in DOMAIN ch[i] /\ dh[i][k] = ch[i][k + 1]  BY <1>5
    <3>2. 1 \in DOMAIN ch[i]  BY <1>1
    <3>3. k + 1 = 1  BY <1>1, <2>3, <3>1, <3>2 DEF ChainOK
    <3> QED  BY <3>1, <3>3
  <2> QED  BY <2>1, <2>2, <2>3 DEF ChainOK
<1> QED
  BY <1>4, <1>7, <1>8, <1>9

(* After a new operation a chain holds the old ones and the new one.       *)
LEMMA JobIn ==
  ASSUME NEW ch \in Chains, NEW i \in Id, NEW job \in JobRecord,
         NEW dh, dh = [ch EXCEPT ![i] = Append(@, job)]
  PROVE  /\ dh \in Chains
         /\ \A j \in Id : \A k \in DOMAIN dh[j] :
              \/ k \in DOMAIN ch[j] /\ dh[j][k] = ch[j][k]
              \/ j = i /\ k = Len(ch[i]) + 1 /\ k \notin DOMAIN ch[j] /\ dh[j][k] = job
<1> DEFINE n == Len(ch[i])
<1>1. ch[i] \in Seq(JobRecord) /\ n \in Nat /\ DOMAIN ch[i] = 1 .. n
  BY DEF Chains
<1>2. /\ dh[i] = Append(ch[i], job) /\ \A j \in Id \ {i} : dh[j] = ch[j]
      /\ dh \in Chains
  BY <1>1 DEF Chains
<1>3. DOMAIN dh[i] = 1 .. n + 1 /\ dh[i][n + 1] = job /\ \A k \in 1 .. n : dh[i][k] = ch[i][k]
  BY <1>1, <1>2
<1> HIDE DEF n
<1>4. ASSUME NEW j \in Id, NEW k \in DOMAIN dh[j]
      PROVE  \/ k \in DOMAIN ch[j] /\ dh[j][k] = ch[j][k]
             \/ j = i /\ k = n + 1 /\ k \notin DOMAIN ch[j] /\ dh[j][k] = job
  <2>1. CASE j = i
    <3>1. k \in 1 .. n \/ (k = n + 1 /\ k \notin 1 .. n)  BY <1>1, <1>3, <2>1
    <3> QED  BY <1>1, <1>3, <2>1, <3>1
  <2>2. CASE j # i  BY <1>2, <2>2
  <2> QED  BY <2>1, <2>2
<1> QED
  BY <1>2, <1>4 DEF n

(* An operation is asked for, and fills no entry.                          *)
LEMMA Queued ==
  ASSUME NEW ch \in Chains, NEW cs, NEW ds, JobsOK(ch, cs), NEW i \in Id,
         NEW job \in JobRecord, ~Begun(job.kind),
         Asking(cs, ds, job, i), Steady(cs, ds, job.who),
         NEW dh, dh = [ch EXCEPT ![i] = Append(@, job)]
  PROVE  dh \in Chains /\ JobsOK(dh, ds)
<1> DEFINE n == Len(ch[i])
<1>1. dh \in Chains
  <2>1. Append(ch[i], job) \in Seq(JobRecord)
    BY DEF Chains
  <2> QED  BY <2>1 DEF Chains
<1>4. ASSUME NEW j \in Id, NEW k \in DOMAIN dh[j]
      PROVE  \/ k \in DOMAIN ch[j] /\ dh[j][k] = ch[j][k]
             \/ j = i /\ k = n + 1 /\ k \notin DOMAIN ch[j] /\ dh[j][k] = job
  <2>1. \A m \in Id : \A l \in DOMAIN dh[m] :
          \/ l \in DOMAIN ch[m] /\ dh[m][l] = ch[m][l]
          \/ m = i /\ l = Len(ch[i]) + 1 /\ l \notin DOMAIN ch[m] /\ dh[m][l] = job
    BY ONLY JobIn, ch \in Chains, i \in Id, job \in JobRecord, dh = [ch EXCEPT ![i] = Append(@, job)]
  <2> QED  BY <2>1
<1> HIDE DEF n
<1>5. \A c \in job.who : \A j \in Id : \A k \in DOMAIN ch[j] : c \notin ch[j][k].who
  BY DEF Asking, JobsOK, Asked, Waits
<1>6. job.who \subseteq Caller
  BY DEF JobRecord
<1>7. ASSUME NEW j \in Id, NEW k \in DOMAIN dh[j], NEW c \in dh[j][k].who
      PROVE  Asked(ds[c], dh[j][k].kind, j)
  <2>1. CASE k \in DOMAIN ch[j] /\ dh[j][k] = ch[j][k]
    <3>1. Asked(cs[c], dh[j][k].kind, j) /\ c \in Caller /\ c \notin job.who
      BY <1>5, <2>1, JobAt DEF JobsOK
    <3>2. Unasked(cs[c], ds[c])  BY <3>1 DEF Steady
    <3> QED  BY <3>1, <3>2 DEF Asked, Unasked, Waits
  <2>2. CASE j = i /\ dh[j][k] = job  BY <2>2 DEF Asking
  <2> QED  BY <1>4, <2>1, <2>2
<1>8. ASSUME NEW j \in Id, NEW m \in Id, NEW k \in DOMAIN dh[j], NEW l \in DOMAIN dh[m],
             NEW c \in dh[j][k].who \cap dh[m][l].who
      PROVE  j = m /\ k = l
  <2>1. CASE c \in job.who
    <3>1. j = i /\ k = n + 1  BY <1>4, <1>5, <2>1
    <3>2. m = i /\ l = n + 1  BY <1>4, <1>5, <2>1
    <3> QED  BY <3>1, <3>2
  <2>2. CASE c \notin job.who
    <3>1. k \in DOMAIN ch[j] /\ dh[j][k] = ch[j][k]  BY <1>4, <2>2
    <3>2. l \in DOMAIN ch[m] /\ dh[m][l] = ch[m][l]  BY <1>4, <2>2
    <3> QED  BY <3>1, <3>2 DEF JobsOK
  <2> QED  BY <2>1, <2>2
<1>9. \A j \in Id : \A k \in DOMAIN dh[j] : Begun(dh[j][k].kind) => k = 1
  BY <1>4 DEF JobsOK
<1> QED
  BY <1>1, <1>7, <1>8, <1>9 DEF JobsOK

(* An operation that fills nothing leaves the chain in order.              *)
LEMMA QueuedChain ==
  ASSUME NEW ch \in Chains, NEW i \in Id, NEW e, ChainOK(ch, e),
         NEW job \in JobRecord, job.kind # "load", ~Begun(job.kind),
         NEW dh, dh = [ch EXCEPT ![i] = Append(@, job)]
  PROVE  ChainOK(dh, e)
<1>1. ASSUME NEW j \in Id, NEW k \in DOMAIN dh[j]
      PROVE  /\ Fills(dh[j][k]) => k \in DOMAIN ch[j] /\ dh[j][k] = ch[j][k]
             /\ Begun(dh[j][k].kind) => k \in DOMAIN ch[j] /\ dh[j][k] = ch[j][k]
  BY JobIn DEF Fills
<1> QED
  BY <1>1 DEF ChainOK

(* The load that fills the entry of i is asked for.                        *)
LEMMA QueuedLoad ==
  ASSUME NEW ch \in Chains, NEW i \in Id, NEW e, ChainOK(ch, e), e[i].phase = "absent",
         NEW job \in JobRecord, job.kind = "load",
         NEW f, f[i].phase = "loading", \A j \in Id \ {i} : f[j] = e[j],
         NEW dh, dh = [ch EXCEPT ![i] = Append(@, job)]
  PROVE  ChainOK(dh, f)
<1>1. \A k \in DOMAIN ch[i] : ~Fills(ch[i][k])
  BY DEF ChainOK
<1>2. \A k \in DOMAIN dh[i] : Fills(dh[i][k]) => k = Len(ch[i]) + 1
  BY <1>1, JobIn
<1>3. \A j \in Id \ {i} : dh[j] = ch[j]
  BY DEF Chains
<1>4. ASSUME NEW j \in Id, NEW k \in DOMAIN dh[j]
      PROVE  /\ Fills(dh[j][k]) => /\ f[j].phase = "loading"
                                  /\ \A l \in DOMAIN dh[j] : Fills(dh[j][l]) => k = l
             /\ Begun(dh[j][k].kind) => f[j].phase # "reserved"
  <2>1. CASE j = i  BY <1>2, <2>1
  <2>2. CASE j # i  BY <1>3, <2>2 DEF ChainOK
  <2> QED  BY <2>1, <2>2
<1> QED
  BY <1>4 DEF ChainOK

-----------------------------------------------------------------------------
(* Steps from one good state to another, of which actions are made.        *)

(* A call that has an entry to itself afterwards had it before.            *)
Quiet(r, s) == s.pc \in {"committing", "reserved"} => s = r

(* A step that gives nobody an entry keeps the reservations right.         *)
LEMMA StillReserved ==
  ASSUME NEW e, NEW f, NEW cs, NEW ds, NEW rev, NEW dam, NEW rew, NEW dan,
         ReservedOK(e, cs, rev, dam),
         \A c \in Caller : Quiet(cs[c], ds[c]),
         \A c \in Caller : Exclusive(cs[c]) /\ ds[c] = cs[c] => f[cs[c].on].phase = e[cs[c].on].phase,
         \A c \in Caller : cs[c].pc = "reserved" /\ ds[c] = cs[c] =>
           rew[cs[c].on] = rev[cs[c].on] /\ dan[cs[c].on] = dam[cs[c].on]
  PROVE  ReservedOK(f, ds, rew, dan)
<1>1. \A c \in Caller : Exclusive(ds[c]) => ds[c] = cs[c]
  BY DEF Quiet, Exclusive
<1>2. \A c \in Caller : ds[c].pc = "reserved" => ds[c] = cs[c]
  BY DEF Quiet
<1>3. ASSUME NEW c \in Caller, Exclusive(ds[c]) PROVE f[ds[c].on].phase = ds[c].pc
  BY <1>1, <1>3 DEF ReservedOK
<1>4. ASSUME NEW c \in Caller, NEW d \in Caller, Exclusive(ds[c]), Exclusive(ds[d]), ds[c].on = ds[d].on
      PROVE  c = d
  BY <1>1, <1>4 DEF ReservedOK
<1>5. ASSUME NEW c \in Caller, ds[c].pc = "reserved"
      PROVE  ds[c].holds /\ ds[c].view = rew[ds[c].on] /\ ~dan[ds[c].on]
  BY <1>2, <1>5 DEF ReservedOK
<1> QED
  BY <1>3, <1>4, <1>5 DEF ReservedOK

(* The phase of an entry tells whether a call has it to itself.            *)
LEMMA ExclusiveAt ==
  ASSUME NEW e, NEW cs, NEW rev, NEW dam, ReservedOK(e, cs, rev, dam), NEW c \in Caller
  PROVE  /\ Exclusive(cs[c]) => e[cs[c].on].phase \in {"committing", "reserved"}
         /\ cs[c].pc = "reserved" => Exclusive(cs[c]) /\ e[cs[c].on].phase = "reserved"
  BY DEF ReservedOK, Exclusive

(* Calls change that no operation is for, and none reserves.               *)
LEMMA CallsChange ==
  ASSUME NEW e, NEW ch, NEW cs, NEW rev, NEW dam, Good(e, ch, cs, rev, dam),
         NEW ds \in Calls, Placed(ds),
         \A c \in Caller : Unasked(cs[c], ds[c]) /\ Quiet(cs[c], ds[c])
  PROVE  Good(e, ch, ds, rev, dam)
<1>1. JobsOK(ch, ds)
  <2>1. \A i \in Id : \A k \in DOMAIN ch[i] : ch[i][k].who \subseteq Caller
    BY JobAt DEF Good
  <2>2. Lessened(ch, ch, cs, ds)
    BY <2>1 DEF Lessened
  <2> QED  BY <2>2, Mapped DEF Good
<1>2. ReservedOK(e, ds, rev, dam)
  BY StillReserved DEF Good
<1> QED
  BY <1>1, <1>2 DEF Good

(* Entries change, but not in their phase.                                 *)
LEMMA EntriesChange ==
  ASSUME NEW e, NEW ch, NEW cs, NEW rev, NEW dam, Good(e, ch, cs, rev, dam),
         NEW f \in Entries, \A k \in Id : f[k].phase = e[k].phase
  PROVE  Good(f, ch, cs, rev, dam)
<1>1. ChainOK(ch, f)
  BY DEF Good, ChainOK
<1>2. \A c \in Caller : Exclusive(cs[c]) => cs[c].on \in Id
  BY DEF Good, Placed, Sited, Exclusive
<1>3. ReservedOK(f, cs, rev, dam)
  BY <1>2, StillReserved DEF Good, Quiet
<1> QED
  BY <1>1, <1>3 DEF Good

(* The running operation ends, and its callers go on.                      *)
LEMMA Dequeuing ==
  ASSUME NEW e, NEW ch, NEW cs, NEW rev, NEW dam, Good(e, ch, cs, rev, dam),
         NEW i \in Id, ch[i] # <<>>,
         NEW ds \in Calls, Placed(ds),
         \A c \in Caller : Quiet(cs[c], ds[c]), Steady(cs, ds, Head(ch[i]).who),
         NEW dh, dh = [ch EXCEPT ![i] = Tail(ch[i])]
  PROVE  Good(e, dh, ds, rev, dam)
<1>1. ch \in Chains /\ JobsOK(ch, cs) /\ ChainOK(ch, e)
  BY DEF Good
<1>2. dh \in Chains /\ JobsOK(dh, ds) /\ ChainOK(dh, e)
  BY <1>1, Dequeued
<1>3. ReservedOK(e, ds, rev, dam)
  BY StillReserved DEF Good
<1> QED
  BY <1>2, <1>3 DEF Good

(* A call asks for an operation that loads nothing.                        *)
LEMMA Queuing ==
  ASSUME NEW e, NEW ch, NEW cs, NEW rev, NEW dam, Good(e, ch, cs, rev, dam),
         NEW i \in Id, NEW job \in JobRecord, job.kind # "load", ~Begun(job.kind),
         NEW ds \in Calls, Placed(ds),
         \A c \in Caller : Quiet(cs[c], ds[c]),
         Asking(cs, ds, job, i), Steady(cs, ds, job.who),
         NEW dh, dh = [ch EXCEPT ![i] = Append(@, job)]
  PROVE  Good(e, dh, ds, rev, dam)
<1>1. ch \in Chains /\ JobsOK(ch, cs) /\ ChainOK(ch, e)
  BY DEF Good
<1>2. dh \in Chains /\ JobsOK(dh, ds)
  BY <1>1, Queued
<1>3. ChainOK(dh, e)
  BY <1>1, QueuedChain
<1>4. ReservedOK(e, ds, rev, dam)
  BY StillReserved DEF Good
<1> QED
  BY <1>2, <1>3, <1>4 DEF Good

(* Losing takes the entry from its calls, and nothing else.                *)
LEMMA LosingFacts ==
  ASSUME NEW cs \in Calls, NEW gone
  PROVE  /\ Losing(cs, gone) \in Calls
         /\ \A c \in Caller :
              /\ Losing(cs, gone)[c].pc = cs[c].pc /\ Losing(cs, gone)[c].on = cs[c].on
              /\ Losing(cs, gone)[c].view = cs[c].view
              /\ Losing(cs, gone)[c].holds => cs[c].holds /\ cs[c].on \notin gone
              /\ cs[c].on \notin gone => Losing(cs, gone)[c] = cs[c]
<1>1. ASSUME NEW c \in Caller
      PROVE  /\ Losing(cs, gone)[c] \in CallRecord
             /\ Losing(cs, gone)[c].pc = cs[c].pc /\ Losing(cs, gone)[c].on = cs[c].on
             /\ Losing(cs, gone)[c].view = cs[c].view
             /\ Losing(cs, gone)[c].holds => cs[c].holds /\ cs[c].on \notin gone
             /\ cs[c].on \notin gone => Losing(cs, gone)[c] = cs[c]
  <2>1. cs[c] \in CallRecord  BY DEF Calls
  <2>2. Losing(cs, gone)[c] = IF cs[c].on \in gone THEN [cs[c] EXCEPT !.holds = FALSE] ELSE cs[c]
    BY DEF Losing
  <2> QED  BY <2>1, <2>2 DEF CallRecord
<1>2. Losing(cs, gone) \in [Caller -> CallRecord]
  BY <1>1 DEF Losing
<1> QED
  BY <1>1, <1>2 DEF Calls

(* The entries of gone leave, which nobody has reserved.                   *)
LEMMA Leaving ==
  ASSUME NEW e, NEW ch, NEW cs, NEW rev, NEW dam, Good(e, ch, cs, rev, dam),
         NEW gone, \A c \in Caller : cs[c].pc = "reserved" => cs[c].on \notin gone,
         NEW f \in Entries,
         \A k \in Id : f[k] = e[k] \/ (k \in gone /\ f[k].phase = "absent"),
         NEW dh \in Chains, \A i \in Id : DOMAIN dh[i] = DOMAIN ch[i],
         \A i \in Id : \A k \in DOMAIN ch[i] :
           /\ dh[i][k].kind = ch[i][k].kind /\ dh[i][k].who = ch[i][k].who
           /\ Fills(dh[i][k]) => Fills(ch[i][k]) /\ f[i] = e[i]
  PROVE  Good(f, dh, Losing(cs, gone), rev, dam)
<1> DEFINE ds == Losing(cs, gone)
<1>1. ds \in Calls /\ \A c \in Caller :
        /\ ds[c].pc = cs[c].pc /\ ds[c].on = cs[c].on /\ ds[c].view = cs[c].view
        /\ ds[c].holds => cs[c].holds /\ cs[c].on \notin gone
        /\ cs[c].on \notin gone => ds[c] = cs[c]
  BY LosingFacts DEF Good
<1> HIDE DEF ds
<1>2. Placed(ds)
  BY <1>1 DEF Good, Placed, Sited
<1>3. JobsOK(dh, ds)
  <2>1. \A i \in Id : \A k \in DOMAIN ch[i] : ch[i][k].who \subseteq Caller
    BY JobAt DEF Good
  <2>2. \A c \in Caller : Unasked(cs[c], ds[c])
    BY <1>1 DEF Unasked
  <2>3. JobsOK(ch, cs)
    BY DEF Good
  <2>4. Lessened(ch, dh, cs, ds)
    BY <2>1, <2>2 DEF Lessened
  <2> QED  BY <2>3, <2>4, Mapped
<1>4. ChainOK(dh, f)
  <2>1. ASSUME NEW i \in Id, NEW k \in DOMAIN dh[i]
        PROVE  /\ Fills(dh[i][k]) => Fills(ch[i][k]) /\ f[i] = e[i]
               /\ Begun(dh[i][k].kind) => Begun(ch[i][k].kind)
               /\ k \in DOMAIN ch[i]
    OBVIOUS
  <2>2. \A i \in Id : f[i].phase = "reserved" => f[i] = e[i]
    OBVIOUS
  <2> QED  BY <2>1, <2>2 DEF Good, ChainOK
<1>5. ReservedOK(f, ds, rev, dam)
  <2>1. ASSUME NEW c \in Caller, Exclusive(ds[c])
        PROVE  /\ Exclusive(cs[c]) /\ cs[c].on \notin gone /\ cs[c].on \in Id /\ ds[c] = cs[c]
               /\ f[cs[c].on] = e[cs[c].on]
    <3>1. Exclusive(cs[c]) /\ cs[c].on \notin gone /\ ds[c] = cs[c]
      BY <1>1, <2>1 DEF Exclusive
    <3>2. cs[c].on \in Id
      BY <3>1 DEF Good, Placed, Sited, Exclusive
    <3> QED  BY <3>1, <3>2
  <2>2. ASSUME NEW c \in Caller, ds[c].pc = "reserved" PROVE ds[c] = cs[c]
    BY <1>1, <2>2
  <2>3. ReservedOK(e, cs, rev, dam)
    BY DEF Good
  <2>4. \A c \in Caller : Exclusive(ds[c]) => f[ds[c].on].phase = ds[c].pc
    BY <2>1, <2>3 DEF ReservedOK
  <2>5. \A c, d \in Caller : Exclusive(ds[c]) /\ Exclusive(ds[d]) /\ ds[c].on = ds[d].on => c = d
    BY <2>1, <2>3 DEF ReservedOK
  <2>6. \A c \in Caller : ds[c].pc = "reserved" =>
          ds[c].holds /\ ds[c].view = rev[ds[c].on] /\ ~dam[ds[c].on]
    BY <2>2, <2>3 DEF ReservedOK
  <2> QED  BY <2>4, <2>5, <2>6 DEF ReservedOK
<1> QED
  BY <1>1, <1>2, <1>3, <1>4, <1>5 DEF Good, ds

(* An entry is touched, and another may be evicted.                        *)
LEMMA Touching ==
  ASSUME NEW e, NEW ch, NEW cs, NEW rev, NEW dam, Good(e, ch, cs, rev, dam),
         NEW i, Touch(e, i, cs)
  PROVE  Good(entry', ch, call', rev, dam)
<1> DEFINE o   == Append(Without(order, i), i)
           out == Evicted(o, e)
<1>1. \A k \in out : e[k].phase = "ready"
  BY DEF Evicted, Evictable
<1>2. entry' = [k \in Id |-> IF k \in out THEN NoEntry ELSE e[k]] /\ call' = Losing(cs, out)
  BY DEF Touch
<1> HIDE DEF out
<1>3. NoEntry \in EntryRecord /\ NoEntry.phase = "absent"
  BY DEF NoEntry, EntryRecord, Phase
<1>4. entry' \in Entries /\ \A k \in Id : entry'[k] = e[k] \/ (k \in out /\ entry'[k].phase = "absent")
  BY <1>2, <1>3 DEF Good, Entries
<1>5. \A c \in Caller : cs[c].pc = "reserved" => cs[c].on \notin out
  <2>1. \A c \in Caller : cs[c].pc = "reserved" => e[cs[c].on].phase = "reserved"
    BY ExclusiveAt DEF Good
  <2> QED  BY <1>1, <2>1
<1>6. \A k \in Id : \A n \in DOMAIN ch[k] : Fills(ch[k][n]) => entry'[k] = e[k]
  <2>1. \A k \in Id : \A n \in DOMAIN ch[k] : Fills(ch[k][n]) => e[k].phase = "loading"
    BY DEF Good, ChainOK
  <2> QED  BY <1>1, <1>2, <2>1
<1> QED
  BY <1>2, <1>4, <1>5, <1>6, Leaving DEF Good

(* An entry leaves that nobody has reserved.                               *)
LEMMA Removing ==
  ASSUME NEW i \in Id, NEW jobs, NEW cs, NEW rev, NEW dam, NEW dh,
         chain \in Chains, dh = [chain EXCEPT ![i] = jobs],
         Good(entry, dh, cs, rev, dam),
         \A c \in Caller : cs[c].pc = "reserved" => cs[c].on # i,
         Remove(i, jobs, cs)
  PROVE  Good(entry', chain', call', rev, dam)
<1>1. /\ entry' = [entry EXCEPT ![i] = NoEntry] /\ call' = Losing(cs, {i})
      /\ chain' = [chain EXCEPT ![i] = [k \in DOMAIN jobs |->
           IF jobs[k].kind = "load" THEN [jobs[k] EXCEPT !.current = FALSE] ELSE jobs[k]]]
  BY DEF Remove
<1>2. NoEntry \in EntryRecord /\ NoEntry.phase = "absent"
  BY DEF NoEntry, EntryRecord, Phase
<1>3. entry' \in Entries /\ entry'[i].phase = "absent" /\ \A k \in Id \ {i} : entry'[k] = entry[k]
  BY <1>1, <1>2 DEF Good, Entries
<1>4. dh \in Chains /\ dh[i] = jobs /\ \A j \in Id \ {i} : dh[j] = chain[j] /\ chain'[j] = chain[j]
  BY <1>1 DEF Good, Chains
<1>5. jobs \in Seq(JobRecord)
  BY <1>4 DEF Chains
<1>6. chain'[i] = [k \in DOMAIN jobs |->
        IF jobs[k].kind = "load" THEN [jobs[k] EXCEPT !.current = FALSE] ELSE jobs[k]]
  BY <1>1 DEF Chains
<1>7. ASSUME NEW k \in DOMAIN jobs
      PROVE  /\ chain'[i][k] \in JobRecord
             /\ chain'[i][k].kind = jobs[k].kind /\ chain'[i][k].who = jobs[k].who
             /\ ~Fills(chain'[i][k])
  <2>1. jobs[k] \in JobRecord
    BY <1>5
  <2>2. chain'[i][k] = IF jobs[k].kind = "load" THEN [jobs[k] EXCEPT !.current = FALSE] ELSE jobs[k]
    BY <1>6
  <2> QED  BY <2>1, <2>2 DEF JobRecord, Fills
<1>8. DOMAIN chain'[i] = DOMAIN jobs /\ chain'[i] \in Seq(JobRecord)
  <2>1. Len(jobs) \in Nat /\ DOMAIN jobs = 1 .. Len(jobs)
    BY <1>5
  <2> QED  BY <1>6, <1>7, <2>1, SeqDef
<1>9. chain' \in Chains
  BY <1>1, <1>8 DEF Chains
<1>10. \A j \in Id : DOMAIN chain'[j] = DOMAIN dh[j]
  BY <1>4, <1>8
<1>11. \A j \in Id : \A k \in DOMAIN dh[j] :
         /\ chain'[j][k].kind = dh[j][k].kind /\ chain'[j][k].who = dh[j][k].who
         /\ Fills(chain'[j][k]) => Fills(dh[j][k]) /\ entry'[j] = entry[j]
  BY <1>3, <1>4, <1>7
<1>12. \A k \in Id : entry'[k] = entry[k] \/ (k \in {i} /\ entry'[k].phase = "absent")
  BY <1>3
<1>13. \A c \in Caller : cs[c].pc = "reserved" => cs[c].on \notin {i}
  OBVIOUS
<1>14. Good(entry', chain', Losing(cs, {i}), rev, dam)
  BY ONLY <1>3, <1>9, <1>10, <1>11, <1>12, <1>13, Good(entry, dh, cs, rev, dam), Leaving
<1> QED
  BY <1>1, <1>14

(* A caller leaves the operations it waits for.                            *)
LEMMA Forgetting ==
  ASSUME NEW e, NEW ch, NEW cs, NEW rev, NEW dam, Good(e, ch, cs, rev, dam),
         NEW c \in Caller, NEW i \in Id,
         cs[c].on = i, cs[c].pc \in {"loading", "committing", "checking"},
         NEW ds \in Calls, Placed(ds),
         \A d \in Caller : Quiet(cs[d], ds[d]), Steady(cs, ds, {c}),
         NEW dh, dh = [ch EXCEPT ![i] = NotFor(c, @)]
  PROVE  Good(e, dh, ds, rev, dam)
<1>1. ch \in Chains /\ JobsOK(ch, cs) /\ ChainOK(ch, e)
  BY DEF Good
<1>2. ch[i] \in Seq(JobRecord)
  BY <1>1 DEF Chains
<1>3. dh[i] = [k \in DOMAIN ch[i] |-> [ch[i][k] EXCEPT !.who = @ \ {c}]]
  BY <1>1 DEF Chains, NotFor
<1>4. \A j \in Id \ {i} : dh[j] = ch[j]
  BY <1>1 DEF Chains
<1>5. ASSUME NEW k \in DOMAIN ch[i]
      PROVE  /\ dh[i][k] \in JobRecord
             /\ dh[i][k].kind = ch[i][k].kind /\ dh[i][k].who = ch[i][k].who \ {c}
             /\ dh[i][k].current = ch[i][k].current
  <2>1. ch[i][k] \in JobRecord
    BY <1>2
  <2>2. dh[i][k] = [ch[i][k] EXCEPT !.who = @ \ {c}]
    BY <1>3
  <2> QED  BY <2>1, <2>2 DEF JobRecord
<1>6. DOMAIN dh[i] = DOMAIN ch[i] /\ dh[i] \in Seq(JobRecord)
  <2>1. Len(ch[i]) \in Nat /\ DOMAIN ch[i] = 1 .. Len(ch[i])
    BY <1>2
  <2> QED  BY <1>3, <1>5, <2>1, SeqDef
<1>7. dh \in Chains
  BY <1>1, <1>6 DEF Chains
<1>8. \A j \in Id : DOMAIN dh[j] = DOMAIN ch[j]
  BY <1>4, <1>6
<1>9. ASSUME NEW j \in Id, NEW k \in DOMAIN ch[j]
      PROVE  /\ dh[j][k].kind = ch[j][k].kind
             /\ dh[j][k].who \subseteq ch[j][k].who
             /\ dh[j][k].current => ch[j][k].current
             /\ \A d \in dh[j][k].who : Unasked(cs[d], ds[d])
  <2>1. /\ dh[j][k].kind = ch[j][k].kind
        /\ dh[j][k].who \subseteq ch[j][k].who
        /\ dh[j][k].current => ch[j][k].current
    <3>1. CASE j = i  BY <1>5, <3>1
    <3>2. CASE j # i  BY <1>4, <3>2
    <3> QED  BY <3>1, <3>2
  <2>2. c \notin dh[j][k].who
    <3>1. CASE j = i  BY <1>5, <3>1
    <3>2. CASE j # i
      <4>1. c \notin ch[j][k].who  BY <1>1, <3>2 DEF JobsOK, Asked
      <4> QED  BY <1>4, <3>2, <4>1
    <3> QED  BY <3>1, <3>2
  <2>3. ch[j][k].who \subseteq Caller
    BY <1>1, JobAt
  <2> QED  BY <2>1, <2>2, <2>3 DEF Steady
<1>10. JobsOK(dh, ds)
  <2>1. Lessened(ch, dh, cs, ds)
    BY <1>8, <1>9 DEF Lessened
  <2> QED  BY <1>1, <2>1, Mapped
<1>11. ChainOK(dh, e)
  BY ONLY <1>1, <1>8, <1>9, MappedChain
<1>12. ReservedOK(e, ds, rev, dam)
  BY StillReserved DEF Good
<1> QED
  BY <1>7, <1>10, <1>11, <1>12 DEF Good

(* Logs change that nobody has reserved.                                   *)
LEMMA LogsChange ==
  ASSUME NEW e, NEW ch, NEW cs, NEW rev, NEW dam, Good(e, ch, cs, rev, dam),
         NEW rew \in [Id -> Nat], NEW dan \in [Id -> BOOLEAN],
         \A c \in Caller : cs[c].pc = "reserved" =>
           rew[cs[c].on] = rev[cs[c].on] /\ dan[cs[c].on] = dam[cs[c].on]
  PROVE  Good(e, ch, cs, rew, dan)
<1>1. ReservedOK(e, cs, rew, dan)
  BY StillReserved DEF Good, Quiet
<1> QED
  BY <1>1 DEF Good

(* The entry of i becomes ready, which nobody loads or has reserved.       *)
LEMMA Readying ==
  ASSUME NEW e, NEW ch, NEW cs, NEW rev, NEW dam, Good(e, ch, cs, rev, dam),
         NEW i \in Id, \A c \in Caller : Exclusive(cs[c]) => cs[c].on # i,
         \A k \in DOMAIN ch[i] : ~Fills(ch[i][k]),
         NEW f \in Entries, f[i].phase = "ready", \A k \in Id \ {i} : f[k] = e[k]
  PROVE  Good(f, ch, cs, rev, dam)
<1>1. ChainOK(ch, f)
  <2>1. ASSUME NEW j \in Id, NEW k \in DOMAIN ch[j]
        PROVE  /\ Fills(ch[j][k]) => f[j] = e[j]
               /\ f[j].phase = "reserved" => f[j] = e[j]
    OBVIOUS
  <2> QED  BY <2>1 DEF Good, ChainOK
<1>2. \A c \in Caller : Exclusive(cs[c]) => cs[c].on \in Id
  BY DEF Good, Placed, Sited, Exclusive
<1>3. \A c \in Caller : Exclusive(cs[c]) => f[cs[c].on].phase = e[cs[c].on].phase
  BY <1>2
<1>4. ReservedOK(f, cs, rev, dam)
  BY <1>3, StillReserved DEF Good, Quiet
<1> QED
  BY <1>1, <1>4 DEF Good

(* An entry made ready.                                                    *)
LEMMA ReadiedFacts ==
  ASSUME entry \in Entries, NEW i \in Id, NEW source \in Nat
  PROVE  /\ Readied(i, source) \in Entries /\ Readied(i, source)[i].phase = "ready"
         /\ \A k \in Id \ {i} : Readied(i, source)[k] = entry[k]
<1>1. entry[i] \in EntryRecord /\ DOMAIN entry = Id
  BY DEF Entries
<1>2. [[entry[i] EXCEPT !.phase = "ready"] EXCEPT !.source = source] \in EntryRecord
  BY <1>1 DEF EntryRecord, Phase
<1>3. /\ Readied(i, source)[i] = [[entry[i] EXCEPT !.phase = "ready"] EXCEPT !.source = source]
      /\ \A k \in Id \ {i} : Readied(i, source)[k] = entry[k]
      /\ Readied(i, source) = [k \in Id |-> Readied(i, source)[k]]
  BY <1>1 DEF Readied
<1>4. [[entry[i] EXCEPT !.phase = "ready"] EXCEPT !.source = source].phase = "ready"
  BY <1>1 DEF EntryRecord
<1>5. Readied(i, source) \in [Id -> EntryRecord]
  BY <1>2, <1>3 DEF Entries
<1> QED
  BY <1>3, <1>4, <1>5 DEF Entries

-----------------------------------------------------------------------------
(* What becomes of the calls.                                              *)

(* A call has its type.                                                    *)
LEMMA CallAt ==
  ASSUME NEW cs \in Calls, NEW c \in Caller
  PROVE  cs[c] \in CallRecord /\ cs[c].pc \in CallPoint /\ cs[c].on \in Id \cup {NoId}
         /\ cs[c].holds \in BOOLEAN /\ cs[c].view \in Nat
  BY DEF Calls, CallRecord

(* A call that is done asks for nothing.                                   *)
LEMMA DoneFacts ==
  Done \in CallRecord /\ Done.pc = "done" /\ ~Exclusive(Done)
  BY DEF Done, At, CallRecord, CallPoint, Exclusive

Put(cs, c, r) == [cs EXCEPT ![c] = r]

(* One call replaced by another that is about a session.                   *)
LEMMA PutFacts ==
  ASSUME NEW cs \in Calls, Placed(cs), NEW c \in Caller, NEW r \in CallRecord, Sited(r)
  PROVE  /\ Put(cs, c, r) \in Calls /\ Put(cs, c, r)[c] = r /\ Placed(Put(cs, c, r))
         /\ \A d \in Caller \ {c} : Put(cs, c, r)[d] = cs[d]
<1>1. Put(cs, c, r) \in Calls /\ Put(cs, c, r)[c] = r /\ \A d \in Caller \ {c} : Put(cs, c, r)[d] = cs[d]
  BY DEF Calls, Put
<1> QED
  BY <1>1 DEF Placed

(* A call moves on and keeps what it has.                                  *)
LEMMA GoesFacts ==
  ASSUME call \in Calls, Placed(call), NEW c \in Caller, NEW pc \in CallPoint,
         pc = "queued" \/ call[c].on \in Id
  PROVE  /\ Goes(c, pc) \in Calls /\ Placed(Goes(c, pc))
         /\ Goes(c, pc)[c].pc = pc /\ Goes(c, pc)[c].on = call[c].on
         /\ Goes(c, pc)[c].holds = call[c].holds /\ Goes(c, pc)[c].view = call[c].view
         /\ \A d \in Caller \ {c} : Goes(c, pc)[d] = call[d]
<1>1. call[c] \in CallRecord
  BY CallAt
<1>2. /\ [call[c] EXCEPT !.pc = pc] \in CallRecord /\ [call[c] EXCEPT !.pc = pc].pc = pc
      /\ [call[c] EXCEPT !.pc = pc].on = call[c].on
      /\ [call[c] EXCEPT !.pc = pc].holds = call[c].holds
      /\ [call[c] EXCEPT !.pc = pc].view = call[c].view
  BY <1>1 DEF CallRecord
<1>3. Goes(c, pc) = [call EXCEPT ![c] = [call[c] EXCEPT !.pc = pc]]
  BY DEF Goes
<1>4. /\ Goes(c, pc) \in Calls /\ Goes(c, pc)[c] = [call[c] EXCEPT !.pc = pc] /\ Placed(Goes(c, pc))
      /\ \A d \in Caller \ {c} : Goes(c, pc)[d] = call[d]
  <2> DEFINE r == [call[c] EXCEPT !.pc = pc]
  <2>1. r \in CallRecord /\ Sited(r)
    BY <1>2 DEF Sited
  <2>2. Goes(c, pc) = Put(call, c, r)
    BY <1>3 DEF Put
  <2> HIDE DEF r
  <2>3. /\ Goes(c, pc) \in Calls /\ Goes(c, pc)[c] = r /\ Placed(Goes(c, pc))
        /\ \A d \in Caller \ {c} : Goes(c, pc)[d] = call[d]
    BY <2>1, <2>2, PutFacts
  <2> QED  BY <2>3 DEF r
<1> QED
  BY <1>2, <1>4

(* Some calls end.                                                         *)
LEMMA EndsFacts ==
  ASSUME call \in Calls, Placed(call), NEW who
  PROVE  /\ Ends(who) \in Calls /\ Placed(Ends(who))
         /\ \A c \in Caller : c \in who => Ends(who)[c] = Done
         /\ \A c \in Caller : c \notin who => Ends(who)[c] = call[c]
         /\ \A c \in Caller : Quiet(call[c], Ends(who)[c])
         /\ Steady(call, Ends(who), who)
<1>1. \A c \in Caller : Ends(who)[c] = IF c \in who THEN Done ELSE call[c]
  BY DEF Ends
<1>2. Ends(who) \in Calls
  BY DoneFacts DEF Ends, Calls
<1>3. Placed(Ends(who))
  BY <1>1, DoneFacts DEF Placed, Sited
<1>4. \A c \in Caller : Quiet(call[c], Ends(who)[c])
  BY <1>1, DoneFacts DEF Quiet
<1>5. Steady(call, Ends(who), who)
  BY <1>1 DEF Steady, Unasked
<1> QED
  BY <1>1, <1>2, <1>3, <1>4, <1>5

(* The waiters of an entry resume; they waited for no operation.           *)
LEMMA WokenFacts ==
  ASSUME call \in Calls, Placed(call), NEW i \in Id
  PROVE  /\ Woken(i) \in Calls /\ Placed(Woken(i))
         /\ \A c \in Caller :
              /\ Unasked(call[c], Woken(i)[c]) /\ Quiet(call[c], Woken(i)[c])
              /\ call[c].pc # "waiting" => Woken(i)[c] = call[c]
<1>1. ASSUME NEW c \in Caller
      PROVE  /\ Woken(i)[c] \in CallRecord /\ Woken(i)[c].on = call[c].on
             /\ \/ call[c].pc = "waiting" /\ Woken(i)[c].pc = "woken"
                \/ Woken(i)[c] = call[c]
  <2>1. Woken(i)[c] = IF call[c].pc = "waiting" /\ call[c].on = i
                        THEN [call[c] EXCEPT !.pc = "woken"] ELSE call[c]
    BY DEF Woken
  <2>2. call[c] \in CallRecord
    BY CallAt
  <2> QED  BY <2>1, <2>2 DEF CallRecord, CallPoint
<1>2. Woken(i) \in Calls
  BY <1>1 DEF Woken, Calls
<1>3. Placed(Woken(i))
  BY <1>1 DEF Placed, Sited
<1>4. \A c \in Caller : Unasked(call[c], Woken(i)[c]) /\ Quiet(call[c], Woken(i)[c])
  BY <1>1 DEF Unasked, Quiet, Waits
<1>5. \A c \in Caller : call[c].pc # "waiting" => Woken(i)[c] = call[c]
  BY <1>1
<1> QED
  BY <1>2, <1>3, <1>4, <1>5

(* Any reservation is another call's than c, and was it before.            *)
Others(cs, c) ==
  \A d \in Caller : cs[d].pc \in {"committing", "reserved"} => d # c /\ cs[d] = call[d]

(* The call r asks for nothing.                                            *)
Over(r) == r \in CallRecord /\ Sited(r) /\ r.pc \in {"again", "done"}

Replaced(cs, i, c, r) == cs = Put(Woken(i), c, r) \/ cs = Put(call, c, r)

(* A call that has ended, or starts over, asks for nothing.                *)
LEMMA WokenBut ==
  ASSUME call \in Calls, Placed(call), NEW i \in Id, NEW c \in Caller, NEW r, Over(r),
         NEW cs, Replaced(cs, i, c, r)
  PROVE  /\ cs \in Calls /\ Placed(cs)
         /\ \A d \in Caller : Quiet(call[d], cs[d])
         /\ Steady(call, cs, {c}) /\ Others(cs, c)
<1>1. CASE cs = Put(Woken(i), c, r)
  <2>1. Woken(i) \in Calls /\ Placed(Woken(i)) /\ \A d \in Caller :
          Unasked(call[d], Woken(i)[d]) /\ Quiet(call[d], Woken(i)[d])
    BY WokenFacts
  <2>2. cs \in Calls /\ Placed(cs) /\ cs[c] = r /\ \A d \in Caller \ {c} : cs[d] = Woken(i)[d]
    BY <1>1, <2>1, PutFacts DEF Over
  <2> QED  BY <2>1, <2>2 DEF Over, Others, Quiet, Steady
<1>2. CASE cs = Put(call, c, r)
  <2>1. cs \in Calls /\ Placed(cs) /\ cs[c] = r /\ \A d \in Caller \ {c} : cs[d] = call[d]
    BY <1>2, PutFacts DEF Over
  <2> QED  BY <2>1 DEF Over, Others, Quiet, Steady, Unasked
<1> QED
  BY <1>1, <1>2 DEF Replaced

(* What one caller's step leaves steady, its operation does too.           *)
LEMMA SteadyMore ==
  ASSUME NEW cs, NEW ds, NEW c, NEW who, c \in who, Steady(cs, ds, {c})
  PROVE  Steady(cs, ds, who)
  BY DEF Steady

-----------------------------------------------------------------------------
(* The operation that runs.                                                *)

(* What the operation that runs says of its callers and of the entry.      *)
LEMMA RunningFacts ==
  ASSUME IInv, NEW i \in Id, NEW kind, Runs(i, kind)
  PROVE  /\ chain[i] # <<>> /\ Running(i) = Head(chain[i]) /\ Running(i) \in JobRecord
         /\ Running(i).who \subseteq Caller /\ \A c \in Running(i).who : Asked(call[c], kind, i)
         /\ kind = "load" /\ Running(i).current => entry[i].phase = "loading"
         /\ Begun(kind) => entry[i].phase # "reserved"
<1>1. chain \in Chains /\ chain[i] # <<>> /\ Running(i) = Head(chain[i]) /\ Running(i).kind = kind
  BY DEF IInv, Good, Runs, Running
<1>2. 1 \in DOMAIN chain[i] /\ Running(i) = chain[i][1]
  BY <1>1, RunningAt
<1>3. chain[i][1] \in JobRecord /\ chain[i][1].who \subseteq Caller
  BY <1>1, <1>2, JobAt
<1>4. \A c \in Running(i).who : Asked(call[c], kind, i)
  BY <1>1, <1>2 DEF IInv, Good, JobsOK
<1>5. /\ kind = "load" /\ Running(i).current => entry[i].phase = "loading"
      /\ Begun(kind) => entry[i].phase # "reserved"
  BY <1>1, <1>2 DEF IInv, Good, ChainOK, Fills
<1> QED
  BY <1>1, <1>2, <1>3, <1>4, <1>5

(* It ends, and with it the entry of its caller.                           *)
LEMMA Discarding ==
  ASSUME NEW rev, NEW dam, Good(entry, chain, call, rev, dam),
         NEW i \in Id, chain[i] # <<>>, NEW c \in Caller, c \in Head(chain[i]).who,
         \A d \in Caller : call[c].holds /\ call[d].pc = "reserved" => d = c \/ call[d].on # i,
         NEW next, Over(next),
         Discard(i, c, next)
  PROVE  Good(entry', chain', call', rev, dam)
<1> DEFINE dh == [chain EXCEPT ![i] = Rest(i)]
<1>1. chain \in Chains /\ call \in Calls /\ Placed(call)
  BY DEF Good
<1>2. dh = [chain EXCEPT ![i] = Tail(chain[i])]
  BY DEF Rest
<1>3. ASSUME NEW cs, Replaced(cs, i, c, next)
      PROVE  /\ Good(entry, dh, cs, rev, dam)
             /\ Others(cs, c)
  <2>1. /\ cs \in Calls /\ Placed(cs)
        /\ \A d \in Caller : Quiet(call[d], cs[d])
        /\ Steady(call, cs, {c}) /\ Others(cs, c)
    BY <1>1, <1>3, WokenBut
  <2>2. Steady(call, cs, Head(chain[i]).who)
    BY <2>1, SteadyMore
  <2> QED  BY <1>2, <2>1, <2>2, Dequeuing
<1>4. CASE call[c].holds
  <2>1. Remove(i, Rest(i), Put(Woken(i), c, next))
    BY <1>4 DEF Discard, Put
  <2>2. \A d \in Caller : Put(Woken(i), c, next)[d].pc = "reserved" =>
          Put(Woken(i), c, next)[d].on # i
    BY <1>3, <1>4 DEF Replaced, Others
  <2>3. Good(entry, dh, Put(Woken(i), c, next), rev, dam)
    BY <1>3 DEF Replaced
  <2> QED  BY <1>1, <2>1, <2>2, <2>3, Removing
<1>5. CASE ~call[c].holds
  <2>1. entry' = entry /\ call' = Put(call, c, next) /\ chain' = dh
    BY <1>5 DEF Discard, Put, Keep, pool, Dequeue
  <2>2. Good(entry, dh, Put(call, c, next), rev, dam)
    BY <1>3 DEF Replaced
  <2> QED  BY <2>1, <2>2
<1> QED
  BY <1>4, <1>5

(* A lease ends, and with it the call of c.                                *)
LEMMA Unpinning ==
  ASSUME NEW ch, NEW c \in Caller, NEW rev, NEW dam, Good(entry, ch, Ends({c}), rev, dam),
         call[c].on \in Id, Unpin(c)
  PROVE  Good(entry', ch, call', rev, dam)
<1> DEFINE i == call[c].on
           e == [entry EXCEPT ![i].pins = @ - 1]
<1>1. \/ entry' = entry /\ call' = Ends({c})
      \/ Touch(e, i, Ends({c}))
      \/ entry' = e /\ call' = Ends({c})
  BY DEF Unpin, Keep, pool
<1>2. e \in Entries /\ \A k \in Id : e[k].phase = entry[k].phase
  <2>1. entry \in [Id -> EntryRecord]
    BY DEF Good, Entries
  <2>2. e[i] = [entry[i] EXCEPT !.pins = @ - 1] /\ \A k \in Id \ {i} : e[k] = entry[k]
    BY <2>1
  <2>3. [entry[i] EXCEPT !.pins = @ - 1] \in EntryRecord
    BY <2>1 DEF EntryRecord
  <2>4. [entry[i] EXCEPT !.pins = @ - 1].phase = entry[i].phase
    BY <2>1 DEF EntryRecord
  <2>5. e \in [Id -> EntryRecord]
    BY <2>1, <2>3
  <2> QED  BY <2>2, <2>4, <2>5 DEF Entries
<1> HIDE DEF e
<1>3. Good(e, ch, Ends({c}), rev, dam)
  BY <1>2, EntriesChange
<1> QED
  BY <1>1, <1>3, Touching

(* An entry in another phase is nobody's alone.                            *)
LEMMA NoneReserved ==
  ASSUME NEW e, NEW ch, NEW cs, NEW rev, NEW dam, Good(e, ch, cs, rev, dam), NEW i
  PROVE  /\ e[i].phase \notin {"committing", "reserved"} =>
              \A c \in Caller : Exclusive(cs[c]) => cs[c].on # i
         /\ e[i].phase # "reserved" => \A c \in Caller : cs[c].pc = "reserved" => cs[c].on # i
<1>1. ReservedOK(e, cs, rev, dam)
  BY DEF Good
<1>2. \A c \in Caller :
        /\ Exclusive(cs[c]) => e[cs[c].on].phase \in {"committing", "reserved"}
        /\ cs[c].pc = "reserved" => Exclusive(cs[c]) /\ e[cs[c].on].phase = "reserved"
  BY <1>1, ExclusiveAt
<1> QED
  BY <1>2

(* Whoever has the entry of i to itself, is the only one.                  *)
LEMMA OneExclusive ==
  ASSUME IInv, NEW c \in Caller, Exclusive(call[c])
  PROVE  /\ \A d \in Caller : Exclusive(call[d]) => d = c \/ call[d].on # call[c].on
         /\ \A d \in Caller : call[d].pc = "reserved" => d = c \/ call[d].on # call[c].on
         /\ entry[call[c].on].phase = call[c].pc
<1>1. ReservedOK(entry, call, revision, damaged)
  BY DEF IInv, Good
<1>2. \A d \in Caller : call[d].pc = "reserved" => Exclusive(call[d])
  BY <1>1 DEF ReservedOK, Exclusive
<1> QED
  BY <1>1, <1>2 DEF ReservedOK

-----------------------------------------------------------------------------
(* The storage operations.                                                 *)

(* Load keeps the invariant: the filled entry was being loaded.            *)
LEMMA LoadStep == ASSUME IInv, NEW i \in Id, Load(i) PROVE IInv'
<1> DEFINE cs == [c \in Caller |-> IF c \in Running(i).who
                    THEN [call[c] EXCEPT !.pc = "loaded", !.view = revision[i]] ELSE call[c]]
<1>1. /\ Runs(i, "load") /\ chain' = [chain EXCEPT ![i] = Tail(chain[i])]
      /\ revision' = revision /\ damaged' = damaged
      /\ IF Running(i).current THEN Touch(Readied(i, revision[i]), i, cs)
                               ELSE entry' = entry /\ call' = cs
  BY DEF Load, storage, Dequeue, Rest, Keep, pool
<1>2. /\ chain[i] # <<>> /\ Running(i) = Head(chain[i]) /\ Running(i).kind = "load"
      /\ Running(i) \in JobRecord
      /\ \A c \in Running(i).who : call[c].pc = "loading" /\ call[c].on = i
      /\ Running(i).current => entry[i].phase = "loading"
  BY <1>1, RunningFacts DEF Runs, Asked
<1>3. Good(entry, chain, call, revision, damaged) /\ call \in Calls /\ Placed(call)
  BY DEF IInv, Good
<1>4. ASSUME NEW c \in Caller
      PROVE  /\ cs[c] \in CallRecord /\ Sited(cs[c]) /\ Quiet(call[c], cs[c])
             /\ c \notin Running(i).who => cs[c] = call[c]
  <2>1. call[c] \in CallRecord /\ Sited(call[c])
    BY <1>3, CallAt DEF Placed
  <2>2. revision[i] \in Nat
    BY <1>3 DEF Good
  <2>3. CASE c \in Running(i).who
    <3>1. cs[c] = [call[c] EXCEPT !.pc = "loaded", !.view = revision[i]]
      BY <2>3
    <3>2. cs[c] \in CallRecord /\ cs[c].pc = "loaded" /\ cs[c].on = call[c].on
      BY <2>1, <2>2, <3>1 DEF CallRecord, CallPoint
    <3>3. call[c].on = i
      BY <1>2, <2>3
    <3> QED  BY <2>3, <3>2, <3>3 DEF Sited, Quiet
  <2>4. CASE c \notin Running(i).who
    BY <2>1, <2>4 DEF Quiet
  <2> QED  BY <2>3, <2>4
<1>5. cs \in Calls
  BY <1>4 DEF Calls
<1> HIDE DEF cs
<1>6. Placed(cs) /\ Steady(call, cs, Head(chain[i]).who)
  BY <1>2, <1>4 DEF Placed, Steady, Unasked
<1>7. Good(entry, chain', cs, revision, damaged)
  BY <1>1, <1>2, <1>3, <1>4, <1>5, <1>6, Dequeuing
<1>8. CASE ~Running(i).current
  BY <1>1, <1>7, <1>8 DEF IInv
<1>9. CASE Running(i).current
  <2>1. Fills(Head(chain[i]))
    BY <1>2, <1>9 DEF Fills
  <2>2. chain \in Chains /\ JobsOK(chain, call) /\ ChainOK(chain, entry)
    BY <1>3 DEF Good
  <2>3. \A k \in DOMAIN chain'[i] : ~Fills(chain'[i][k])
    BY <1>1, <1>2, <1>6, <2>1, <2>2, Dequeued
  <2>4. \A c \in Caller : Exclusive(cs[c]) => cs[c].on # i
    BY <1>2, <1>7, <1>9, NoneReserved
  <2>5. /\ Readied(i, revision[i]) \in Entries /\ Readied(i, revision[i])[i].phase = "ready"
        /\ \A k \in Id \ {i} : Readied(i, revision[i])[k] = entry[k]
    BY <1>3, ReadiedFacts DEF Good
  <2>6. Good(Readied(i, revision[i]), chain', cs, revision, damaged)
    BY <1>7, <2>3, <2>4, <2>5, Readying
  <2> QED  BY <1>1, <1>9, <2>6, Touching DEF IInv
<1> QED
  BY <1>8, <1>9

(* LoadFails keeps the invariant: an entry that loads is not reserved.     *)
LEMMA LoadFailsStep == ASSUME IInv, NEW i \in Id, LoadFails(i) PROVE IInv'
<1> DEFINE dh == [chain EXCEPT ![i] = Rest(i)]
           cs == Ends(Running(i).who)
<1>1. /\ Runs(i, "load") /\ revision' = revision /\ damaged' = damaged
      /\ IF Running(i).current THEN Remove(i, Rest(i), cs)
                               ELSE entry' = entry /\ call' = cs /\ chain' = dh
  BY DEF LoadFails, storage, Dequeue, Keep, pool
<1>2. /\ chain[i] # <<>> /\ Running(i) = Head(chain[i])
      /\ Running(i).current => entry[i].phase = "loading"
  BY <1>1, RunningFacts
<1>3. Good(entry, chain, call, revision, damaged) /\ call \in Calls /\ Placed(call) /\ chain \in Chains
  BY DEF IInv, Good
<1>4. /\ cs \in Calls /\ Placed(cs)
      /\ \A c \in Caller : Quiet(call[c], cs[c])
      /\ Steady(call, cs, Head(chain[i]).who)
  BY <1>2, <1>3, EndsFacts
<1>5. dh = [chain EXCEPT ![i] = Tail(chain[i])]
  BY DEF Rest
<1> HIDE DEF cs
<1>6. Good(entry, dh, cs, revision, damaged)
  BY <1>2, <1>3, <1>4, <1>5, Dequeuing
<1>7. CASE Running(i).current
  <2>1. \A c \in Caller : cs[c].pc = "reserved" => cs[c].on # i
    BY <1>2, <1>6, <1>7, NoneReserved
  <2>2. Remove(i, Rest(i), cs)
    BY <1>1, <1>7
  <2>3. Good(entry', chain', call', revision, damaged)
    BY <1>3, <1>6, <2>1, <2>2, Removing
  <2> QED  BY <1>1, <2>3 DEF IInv
<1>8. CASE ~Running(i).current
  BY <1>1, <1>6, <1>8 DEF IInv
<1> QED
  BY <1>7, <1>8

(* A call that starts over, or is done.                                    *)
LEMMA AgainFacts ==
  ASSUME call \in Calls, NEW c \in Caller, call[c].on \in Id
  PROVE  Over(Again(c)) /\ Over(Done)
<1>1. call[c] \in CallRecord
  BY CallAt
<1>2. Again(c) \in CallRecord /\ Again(c).pc = "again" /\ Again(c).on = call[c].on
  BY <1>1 DEF Again, CallRecord, CallPoint
<1> QED
  BY <1>2, DoneFacts DEF Over, Sited

(* The caller of a commit, and the others that have reserved.              *)
LEMMA CommitFacts ==
  ASSUME IInv, NEW i \in Id, Runs(i, "commit"), NEW c \in Running(i).who
  PROVE  /\ chain[i] # <<>> /\ Running(i) = Head(chain[i]) /\ c \in Caller
         /\ call[c].pc = "committing" /\ call[c].on = i /\ Over(Again(c)) /\ Over(Done)
         /\ call[c].holds => entry[i].phase = "committing"
         /\ call[c].holds => \A d \in Caller : Exclusive(call[d]) => d = c \/ call[d].on # i
         /\ \A d \in Caller : call[c].holds /\ call[d].pc = "reserved" => d = c \/ call[d].on # i
<1>1. /\ chain[i] # <<>> /\ Running(i) = Head(chain[i]) /\ c \in Caller
      /\ call[c].pc = "committing" /\ call[c].on = i
  BY RunningFacts DEF Asked
<1>2. Over(Again(c)) /\ Over(Done)
  BY <1>1, AgainFacts DEF IInv, Good
<1>3. ASSUME call[c].holds
      PROVE  /\ \A d \in Caller : Exclusive(call[d]) => d = c \/ call[d].on # i
             /\ \A d \in Caller : call[d].pc = "reserved" => d = c \/ call[d].on # i
             /\ entry[i].phase = "committing"
  <2>1. Exclusive(call[c])
    BY <1>1, <1>3 DEF Exclusive
  <2> QED  BY <1>1, <2>1, OneExclusive
<1> QED
  BY <1>1, <1>2, <1>3

(* The log of i changes, which nobody has reserved.                        *)
LEMMA Writing ==
  ASSUME IInv, NEW i \in Id, entry[i].phase # "reserved",
         NEW rew \in [Id -> Nat], NEW dan \in [Id -> BOOLEAN],
         \A j \in Id \ {i} : rew[j] = revision[j] /\ dan[j] = damaged[j]
  PROVE  Good(entry, chain, call, rew, dan)
<1>1. Good(entry, chain, call, revision, damaged)
  BY DEF IInv
<1>2. \A c \in Caller : call[c].pc = "reserved" => call[c].on # i
  BY <1>1, NoneReserved
<1>3. \A c \in Caller : call[c].pc = "reserved" => call[c].on \in Id
  BY <1>1 DEF Good, Placed, Sited
<1>4. \A c \in Caller : call[c].pc = "reserved" =>
        rew[call[c].on] = revision[call[c].on] /\ dan[call[c].on] = damaged[call[c].on]
  BY <1>2, <1>3
<1> QED
  BY <1>1, <1>4, LogsChange

(* A repair may change a log of which nobody has reserved the damage.      *)
LEMMA Repairing ==
  ASSUME IInv, NEW i \in Id,
         \/ UNCHANGED <<revision, damaged>>
         \/ HalfRepaired(i)
         \/ /\ damaged[i] /\ revision' = [revision EXCEPT ![i] = @ + 1]
            /\ damaged' = [damaged EXCEPT ![i] = FALSE]
  PROVE  Good(entry, chain, call, revision', damaged')
<1>1. Good(entry, chain, call, revision, damaged) /\ revision \in [Id -> Nat] /\ damaged \in [Id -> BOOLEAN]
  BY DEF IInv, Good
<1>2. CASE UNCHANGED <<revision, damaged>>
  BY <1>1, <1>2
<1>3. CASE /\ damaged[i] /\ revision' = [revision EXCEPT ![i] = @ + 1]
           /\ \E still \in BOOLEAN : damaged' = [damaged EXCEPT ![i] = still]
  <2>1. revision' \in [Id -> Nat] /\ damaged' \in [Id -> BOOLEAN]
    BY <1>1, <1>3
  <2>2. \A d \in Caller : call[d].pc = "reserved" => call[d].on \in Id /\ call[d].on # i
    BY <1>1, <1>3 DEF Good, ReservedOK, Placed, Sited
  <2>3. \A j \in Id \ {i} : revision'[j] = revision[j] /\ damaged'[j] = damaged[j]
    BY <1>1, <1>3
  <2> QED  BY <1>1, <2>1, <2>2, <2>3, LogsChange
<1> QED
  BY <1>2, <1>3 DEF HalfRepaired

(* CommitFails keeps the invariant: only its caller had the entry.         *)
LEMMA CommitFailsStep == ASSUME IInv, NEW i \in Id, CommitFails(i) PROVE IInv'
<1>1. Runs(i, "commit")
  BY DEF CommitFails
<1>2. PICK c \in Running(i).who :
        /\ UNCHANGED <<revision, damaged>> \/ HalfRepaired(i)
        /\ Discard(i, c, Done)
  BY DEF CommitFails
<1>3. /\ chain[i] # <<>> /\ c \in Head(chain[i]).who /\ c \in Caller /\ Over(Done)
      /\ \A d \in Caller : call[c].holds /\ call[d].pc = "reserved" => d = c \/ call[d].on # i
  BY <1>1, CommitFacts
<1>4. Good(entry, chain, call, revision', damaged')
  BY <1>2, Repairing
<1>5. Good(entry', chain', call', revision', damaged')
  BY <1>2, <1>3, <1>4, Discarding
<1> QED
  BY <1>5 DEF IInv

(* CommitAgain keeps the invariant: a log to repair is reserved by nobody. *)
LEMMA CommitAgainStep == ASSUME IInv, NEW i \in Id, CommitAgain(i) PROVE IInv'
<1>1. Runs(i, "commit")
  BY DEF CommitAgain
<1>2. PICK c \in Running(i).who :
        /\ \/ revision' = revision /\ damaged' = damaged
           \/ /\ damaged[i] /\ revision' = [revision EXCEPT ![i] = @ + 1]
              /\ damaged' = [damaged EXCEPT ![i] = FALSE]
        /\ Discard(i, c, Again(c))
  BY DEF CommitAgain
<1>3. /\ chain[i] # <<>> /\ c \in Head(chain[i]).who /\ c \in Caller /\ Over(Again(c))
      /\ \A d \in Caller : call[c].holds /\ call[d].pc = "reserved" => d = c \/ call[d].on # i
  BY <1>1, CommitFacts
<1>4. Good(entry, chain, call, revision', damaged')
  BY <1>2, Repairing
<1>5. Good(entry', chain', call', revision', damaged')
  BY <1>2, <1>3, <1>4, Discarding
<1> QED
  BY <1>5 DEF IInv

(* The caller of a commit has the source reserved.                         *)
LEMMA ReservesStep ==
  ASSUME IInv, NEW i \in Id, Runs(i, "commit"), NEW c \in Running(i).who,
         Current(i, call[c].view), ~damaged[i], call[c].holds,
         entry' = [entry EXCEPT ![i].phase = "reserved"], call' = Goes(c, "reserved"),
         Dequeue(i), revision' = revision, damaged' = damaged
  PROVE  IInv'
<1>1. /\ chain[i] # <<>> /\ c \in Head(chain[i]).who /\ c \in Caller
      /\ call[c].pc = "committing" /\ call[c].on = i
      /\ entry[i].phase = "committing"
      /\ \A d \in Caller : Exclusive(call[d]) => d = c \/ call[d].on # i
  BY CommitFacts
<1>2. Good(entry, chain, call, revision, damaged)
  BY DEF IInv
<1>3. /\ call \in Calls /\ Placed(call) /\ chain \in Chains /\ JobsOK(chain, call)
      /\ ChainOK(chain, entry) /\ entry \in [Id -> EntryRecord]
  BY <1>2 DEF Good, Entries
<1>4. /\ call' \in Calls /\ Placed(call')
      /\ call'[c].pc = "reserved" /\ call'[c].on = i /\ call'[c].holds /\ call'[c].view = call[c].view
      /\ \A d \in Caller \ {c} : call'[d] = call[d]
  <2>1. "reserved" \in CallPoint
    BY DEF CallPoint
  <2> QED  BY <1>1, <1>3, <2>1, GoesFacts
<1>5. Steady(call, call', Head(chain[i]).who)
  BY <1>1, <1>4 DEF Steady, Unasked
<1>6. chain' = [chain EXCEPT ![i] = Tail(chain[i])]
  BY DEF Dequeue, Rest
<1>7. /\ chain' \in Chains /\ JobsOK(chain', call') /\ ChainOK(chain', entry)
      /\ \A k \in DOMAIN chain'[i] : ~Begun(chain'[i][k].kind)
  BY ONLY <1>1, <1>3, <1>5, <1>6, i \in Id, Dequeued
<1>8. /\ entry' \in Entries /\ entry'[i].phase = "reserved" /\ \A k \in Id \ {i} : entry'[k] = entry[k]
  <2>1. entry'[i] = [entry[i] EXCEPT !.phase = "reserved"] /\ \A k \in Id \ {i} : entry'[k] = entry[k]
    BY <1>3
  <2>2. [entry[i] EXCEPT !.phase = "reserved"] \in EntryRecord
    BY <1>3 DEF EntryRecord, Phase
  <2>3. [entry[i] EXCEPT !.phase = "reserved"].phase = "reserved"
    BY <1>3 DEF EntryRecord
  <2>4. entry' \in [Id -> EntryRecord]
    BY <1>3, <2>2
  <2> QED  BY <2>1, <2>3, <2>4 DEF Entries
<1>9. ChainOK(chain', entry')
  <2>1. ASSUME NEW j \in Id, NEW k \in DOMAIN chain'[j]
        PROVE  /\ Fills(chain'[j][k]) => entry'[j] = entry[j]
               /\ Begun(chain'[j][k].kind) => entry'[j] = entry[j]
    <3>1. CASE j = i
      <4>1. ~Fills(chain'[j][k])  BY <1>1, <1>7, <3>1 DEF ChainOK
      <4> QED  BY <1>7, <3>1, <4>1
    <3>2. CASE j # i  BY <1>8, <3>2
    <3> QED  BY <3>1, <3>2
  <2>2. \A j \in Id : \A k, l \in DOMAIN chain'[j] :
          Fills(chain'[j][k]) /\ Fills(chain'[j][l]) => k = l
    BY <1>7 DEF ChainOK
  <2> QED  BY <1>7, <2>1, <2>2 DEF ChainOK
<1>10. ReservedOK(entry', call', revision', damaged')
  <2>1. ReservedOK(entry, call, revision, damaged)
    BY <1>2 DEF Good
  <2>2. \A d \in Caller : Exclusive(call[d]) => call[d].on \in Id
    BY <1>3 DEF Placed, Sited, Exclusive
  <2>3. \A d \in Caller \ {c} : Exclusive(call'[d]) =>
          Exclusive(call[d]) /\ call[d].on # i /\ call'[d] = call[d] /\ entry'[call[d].on] = entry[call[d].on]
    BY <1>1, <1>4, <1>8, <2>2
  <2>4. ASSUME NEW d \in Caller, Exclusive(call'[d]) PROVE entry'[call'[d].on].phase = call'[d].pc
    <3>1. CASE d = c  BY <1>4, <1>8, <3>1
    <3>2. CASE d # c  BY <2>1, <2>3, <2>4, <3>2 DEF ReservedOK
    <3> QED  BY <3>1, <3>2
  <2>5. ASSUME NEW d \in Caller, NEW b \in Caller, Exclusive(call'[d]), Exclusive(call'[b]),
               call'[d].on = call'[b].on
        PROVE  d = b
    <3>1. CASE d = c \/ b = c  BY <1>4, <2>3, <2>5, <3>1
    <3>2. CASE d # c /\ b # c  BY <2>1, <2>3, <2>5, <3>2 DEF ReservedOK
    <3> QED  BY <3>1, <3>2
  <2>6. ASSUME NEW d \in Caller, call'[d].pc = "reserved"
        PROVE  call'[d].holds /\ call'[d].view = revision'[call'[d].on] /\ ~damaged'[call'[d].on]
    <3>1. CASE d = c  BY <1>4, <3>1 DEF Current
    <3>2. CASE d # c  BY <1>4, <2>1, <2>6, <3>2 DEF ReservedOK
    <3> QED  BY <3>1, <3>2
  <2> QED  BY <2>4, <2>5, <2>6 DEF ReservedOK
<1> QED
  BY <1>2, <1>4, <1>7, <1>8, <1>9, <1>10 DEF IInv, Good

(* Commit keeps the invariant.                                             *)
LEMMA CommitStep == ASSUME IInv, NEW i \in Id, Commit(i) PROVE IInv'
<1>1. /\ Runs(i, "commit") /\ Dequeue(i) /\ chain' = [chain EXCEPT ![i] = Tail(chain[i])]
      /\ revision' = revision /\ damaged' = damaged
  BY DEF Commit, Dequeue, Rest
<1>2. PICK c \in Running(i).who :
        /\ Current(i, call[c].view) /\ ~damaged[i]
        /\ \/ /\ call[c].holds
              /\ entry' = [entry EXCEPT ![i].phase = "reserved"]
              /\ call' = Goes(c, "reserved")
           \/ call[c].holds /\ Touch(Readied(i, call[c].view), i, Put(Woken(i), c, Done))
           \/ entry' = entry /\ \E next \in {Again(c), Done} : call' = Put(call, c, next)
  BY DEF Commit, Keep, pool, Put
<1>3. /\ chain[i] # <<>> /\ c \in Head(chain[i]).who /\ c \in Caller
      /\ Over(Again(c)) /\ Over(Done)
      /\ call[c].holds => entry[i].phase = "committing"
      /\ call[c].holds => \A d \in Caller : Exclusive(call[d]) => d = c \/ call[d].on # i
  BY <1>1, CommitFacts
<1>4. Good(entry, chain, call, revision, damaged) /\ call \in Calls /\ Placed(call)
  BY DEF IInv, Good
<1>5. ASSUME NEW next, Over(next), NEW cs, Replaced(cs, i, c, next)
      PROVE  Good(entry, chain', cs, revision, damaged) /\ Others(cs, c)
  <2>1. /\ cs \in Calls /\ Placed(cs)
        /\ \A d \in Caller : Quiet(call[d], cs[d])
        /\ Steady(call, cs, {c}) /\ Others(cs, c)
    BY <1>3, <1>4, <1>5, WokenBut
  <2>2. Steady(call, cs, Head(chain[i]).who)
    BY <1>3, <2>1, SteadyMore
  <2> QED  BY <1>1, <1>3, <1>4, <2>1, <2>2, Dequeuing
<1>6. CASE /\ call[c].holds /\ entry' = [entry EXCEPT ![i].phase = "reserved"]
           /\ call' = Goes(c, "reserved")
  BY <1>1, <1>2, <1>6, ReservesStep
<1>7. CASE call[c].holds /\ Touch(Readied(i, call[c].view), i, Put(Woken(i), c, Done))
  <2> DEFINE cs == Put(Woken(i), c, Done)
  <2>1. Good(entry, chain', cs, revision, damaged) /\ Others(cs, c)
    BY <1>3, <1>5 DEF Replaced
  <2> HIDE DEF cs
  <2>2. \A d \in Caller : Exclusive(cs[d]) => cs[d].on # i
    BY <1>3, <1>7, <2>1 DEF Others, Exclusive
  <2>3. \A k \in DOMAIN chain'[i] : ~Fills(chain'[i][k])
    BY <1>3, <1>7, <2>1 DEF Good, ChainOK
  <2>4. call[c].view \in Nat /\ entry \in Entries
    BY <1>3, <1>4, CallAt DEF Good
  <2>5. /\ Readied(i, call[c].view) \in Entries /\ Readied(i, call[c].view)[i].phase = "ready"
        /\ \A k \in Id \ {i} : Readied(i, call[c].view)[k] = entry[k]
    BY <2>4, ReadiedFacts
  <2>6. Good(Readied(i, call[c].view), chain', cs, revision, damaged)
    BY <2>1, <2>2, <2>3, <2>5, Readying
  <2>7. Touch(Readied(i, call[c].view), i, cs)
    BY <1>7 DEF cs
  <2>8. Good(entry', chain', call', revision, damaged)
    BY <2>6, <2>7, Touching
  <2> QED  BY <1>1, <2>8 DEF IInv
<1>8. CASE entry' = entry /\ \E next \in {Again(c), Done} : call' = Put(call, c, next)
  <2>1. Good(entry, chain', call', revision, damaged)
    BY <1>3, <1>5, <1>8 DEF Replaced
  <2> QED  BY <1>1, <1>8, <2>1 DEF IInv
<1> QED
  BY <1>2, <1>6, <1>7, <1>8

(* The caller of a check.                                                  *)
LEMMA CheckFacts ==
  ASSUME IInv, NEW i \in Id, Runs(i, "check"), NEW c \in Running(i).who
  PROVE  /\ chain[i] # <<>> /\ c \in Head(chain[i]).who /\ c \in Caller
         /\ call[c].pc = "checking" /\ call[c].on = i /\ Over(Again(c))
         /\ chain' = [chain EXCEPT ![i] = Rest(i)] =>
              Good(entry, chain', Ends({c}), revision, damaged)
<1>1. /\ chain[i] # <<>> /\ c \in Head(chain[i]).who /\ c \in Caller
      /\ call[c].pc = "checking" /\ call[c].on = i
  BY RunningFacts DEF Asked
<1>2. Good(entry, chain, call, revision, damaged) /\ call \in Calls /\ Placed(call)
  BY DEF IInv, Good
<1>3. Over(Again(c))
  BY <1>1, <1>2, AgainFacts
<1>4. /\ Ends({c}) \in Calls /\ Placed(Ends({c}))
      /\ \A d \in Caller : Quiet(call[d], Ends({c})[d])
      /\ Steady(call, Ends({c}), {c})
  BY <1>2, EndsFacts
<1>5. Steady(call, Ends({c}), Head(chain[i]).who)
  BY <1>1, <1>4, SteadyMore
<1>6. ASSUME chain' = [chain EXCEPT ![i] = Rest(i)]
      PROVE  Good(entry, chain', Ends({c}), revision, damaged)
  <2>1. chain' = [chain EXCEPT ![i] = Tail(chain[i])]
    BY <1>6 DEF Rest
  <2> QED  BY <1>1, <1>2, <1>4, <1>5, <2>1, Dequeuing
<1> QED
  BY <1>1, <1>3, <1>6

(* CheckFails keeps the invariant.                                         *)
LEMMA CheckFailsStep == ASSUME IInv, NEW i \in Id, CheckFails(i) PROVE IInv'
<1>1. /\ Runs(i, "check") /\ chain' = [chain EXCEPT ![i] = Rest(i)]
      /\ revision' = revision /\ damaged' = damaged
  BY DEF CheckFails, storage, Dequeue
<1>2. PICK c \in Running(i).who : Unpin(c)
  BY DEF CheckFails
<1>3. c \in Caller /\ call[c].on \in Id /\ Good(entry, chain', Ends({c}), revision, damaged)
  BY <1>1, CheckFacts
<1>4. Good(entry', chain', call', revision, damaged)
  BY <1>2, <1>3, Unpinning
<1> QED
  BY <1>1, <1>4 DEF IInv

(* Check keeps the invariant: it discards ready entries only.              *)
LEMMA CheckStep == ASSUME IInv, NEW i \in Id, Check(i) PROVE IInv'
<1>1. Runs(i, "check") /\ revision' = revision /\ damaged' = damaged
  BY DEF Check, storage
<1>2. PICK c \in Running(i).who :
        \/ Unpin(c) /\ chain' = [chain EXCEPT ![i] = Rest(i)]
        \/ /\ entry' = entry /\ call' = Goes(c, "leased")
           /\ chain' = [chain EXCEPT ![i] = Rest(i)]
        \/ /\ ~(call[c].holds /\ entry[i].phase # "ready")
           /\ Discard(i, c, Again(c))
  BY DEF Check, Keep, pool, Dequeue
<1>3. /\ chain[i] # <<>> /\ c \in Head(chain[i]).who /\ c \in Caller
      /\ call[c].pc = "checking" /\ call[c].on = i /\ Over(Again(c))
  BY <1>1, CheckFacts
<1>4. Good(entry, chain, call, revision, damaged) /\ call \in Calls /\ Placed(call)
  BY DEF IInv, Good
<1>5. CASE Unpin(c) /\ chain' = [chain EXCEPT ![i] = Rest(i)]
  <2>1. Good(entry, chain', Ends({c}), revision, damaged)
    BY <1>1, <1>5, CheckFacts
  <2>2. Good(entry', chain', call', revision, damaged)
    BY <1>3, <1>5, <2>1, Unpinning
  <2> QED  BY <1>1, <2>2 DEF IInv
<1>6. CASE /\ entry' = entry /\ call' = Goes(c, "leased")
           /\ chain' = [chain EXCEPT ![i] = Rest(i)]
  <2>1. "leased" \in CallPoint
    BY DEF CallPoint
  <2>2. /\ call' \in Calls /\ Placed(call') /\ call'[c].pc = "leased"
        /\ \A d \in Caller \ {c} : call'[d] = call[d]
    BY <1>3, <1>4, <1>6, <2>1, GoesFacts
  <2>3. \A d \in Caller : Quiet(call[d], call'[d])
    BY <2>2 DEF Quiet
  <2>4. Steady(call, call', Head(chain[i]).who)
    BY <1>3, <2>2 DEF Steady, Unasked
  <2>5. chain' = [chain EXCEPT ![i] = Tail(chain[i])]
    BY <1>6 DEF Rest
  <2>6. Good(entry, chain', call', revision, damaged)
    BY <1>3, <1>4, <2>2, <2>3, <2>4, <2>5, Dequeuing
  <2> QED  BY <1>1, <1>6, <2>6 DEF IInv
<1>7. CASE /\ ~(call[c].holds /\ entry[i].phase # "ready") /\ Discard(i, c, Again(c))
  <2>1. \A d \in Caller : call[c].holds /\ call[d].pc = "reserved" => d = c \/ call[d].on # i
    BY <1>4, <1>7, NoneReserved
  <2>2. Good(entry', chain', call', revision, damaged)
    BY <1>3, <1>4, <1>7, <2>1, Discarding
  <2> QED  BY <1>1, <2>2 DEF IInv
<1> QED
  BY <1>2, <1>5, <1>6, <1>7

(* Skip keeps the invariant.                                               *)
LEMMA SkipStep == ASSUME IInv, NEW i \in Id, Skip(i) PROVE IInv'
<1>1. /\ chain[i] # <<>> /\ chain' = [chain EXCEPT ![i] = Tail(chain[i])]
      /\ entry' = entry /\ call' = call /\ revision' = revision /\ damaged' = damaged
  BY DEF Skip, Runs, Dequeue, Rest, pool, storage
<1>2. Good(entry, chain, call, revision, damaged) /\ call \in Calls /\ Placed(call)
  BY DEF IInv, Good
<1>3. Steady(call, call, Head(chain[i]).who) /\ \A c \in Caller : Quiet(call[c], call[c])
  BY DEF Steady, Unasked, Quiet
<1>4. Good(entry, chain', call, revision, damaged)
  BY <1>1, <1>2, <1>3, Dequeuing
<1> QED
  BY <1>1, <1>4 DEF IInv

(* An append in progress ends, the log perhaps another: nobody has it      *)
(* reserved.                                                               *)
LEMMA AppendEnds ==
  ASSUME IInv, NEW i \in Id, NEW kind, Begun(kind), Runs(i, kind),
         chain' = [chain EXCEPT ![i] = Tail(chain[i])],
         entry' = entry, call' = Ends(Running(i).who),
         Good(entry, chain, call, revision', damaged')
  PROVE  IInv'
<1>1. chain[i] # <<>> /\ Running(i) = Head(chain[i])
  BY RunningFacts
<1>2. call \in Calls /\ Placed(call)
  BY DEF Good
<1>3. /\ call' \in Calls /\ Placed(call')
      /\ \A c \in Caller : Quiet(call[c], call'[c])
      /\ Steady(call, call', Head(chain[i]).who)
  BY <1>1, <1>2, EndsFacts
<1>4. Good(entry, chain', call', revision', damaged')
  BY <1>1, <1>3, Dequeuing
<1> QED
  BY <1>4 DEF IInv

(* AppendFails keeps the invariant.                                        *)
LEMMA AppendFailsStep == ASSUME IInv, NEW i \in Id, AppendFails(i) PROVE IInv'
<1>1. /\ Runs(i, "appending") /\ chain' = [chain EXCEPT ![i] = Tail(chain[i])]
      /\ entry' = entry /\ call' = Ends(Running(i).who) /\ damaged' = damaged
      /\ revision' \in {revision, [revision EXCEPT ![i] = @ + 1]} /\ Begun("appending")
  BY DEF AppendFails, Dequeue, Rest, Keep, pool, Begun
<1>2. entry[i].phase # "reserved"
  BY <1>1, RunningFacts
<1>3. revision \in [Id -> Nat] /\ damaged \in [Id -> BOOLEAN]
  BY DEF IInv, Good
<1>4. revision' \in [Id -> Nat] /\ \A j \in Id \ {i} : revision'[j] = revision[j]
  BY <1>1, <1>3
<1>5. Good(entry, chain, call, revision', damaged')
  BY <1>1, <1>2, <1>3, <1>4, Writing
<1> QED
  BY <1>1, <1>5, AppendEnds

(* AdoptFails keeps the invariant.                                         *)
LEMMA AdoptFailsStep == ASSUME IInv, NEW i \in Id, AdoptFails(i) PROVE IInv'
<1>1. /\ Runs(i, "adopting") /\ chain' = [chain EXCEPT ![i] = Tail(chain[i])]
      /\ entry' = entry /\ call' = Ends(Running(i).who)
      /\ UNCHANGED <<revision, damaged>> \/ HalfRepaired(i)
      /\ Begun("adopting")
  BY DEF AdoptFails, Dequeue, Rest, Keep, pool, Begun
<1>2. Good(entry, chain, call, revision', damaged')
  BY <1>1, Repairing
<1> QED
  BY <1>1, <1>2, AppendEnds

(* ForeignWrite keeps the invariant: the log is not reserved.              *)
LEMMA ForeignWriteStep == ASSUME IInv, NEW i \in Id, ForeignWrite(i) PROVE IInv'
<1>1. /\ entry[i].phase # "reserved" /\ revision' = [revision EXCEPT ![i] = @ + 1]
      /\ entry' = entry /\ chain' = chain /\ call' = call /\ damaged' = damaged
  BY DEF ForeignWrite, pool
<1>2. revision \in [Id -> Nat] /\ damaged \in [Id -> BOOLEAN]
  BY DEF IInv, Good
<1>3. revision' \in [Id -> Nat] /\ \A j \in Id \ {i} : revision'[j] = revision[j]
  BY <1>1, <1>2
<1>4. Good(entry, chain, call, revision', damaged)
  BY <1>1, <1>2, <1>3, Writing
<1> QED
  BY <1>1, <1>4 DEF IInv

(* EndAppend keeps the invariant: nothing is appended to a reserved log.   *)
LEMMA EndAppendStep == ASSUME IInv, NEW i \in Id, EndAppend(i) PROVE IInv'
<1> DEFINE dh == [chain EXCEPT ![i] = Rest(i)]
           cs == [c \in Caller |-> IF c \in Running(i).who THEN Done ELSE Woken(i)[c]]
<1>1. /\ Runs(i, "appending") /\ revision' = [revision EXCEPT ![i] = @ + 1] /\ damaged' = damaged
      /\ Remove(i, Rest(i), cs)
  BY DEF EndAppend
<1>2. /\ chain[i] # <<>> /\ Running(i) = Head(chain[i]) /\ entry[i].phase # "reserved"
  BY <1>1, RunningFacts DEF Begun
<1>3. /\ call \in Calls /\ Placed(call) /\ chain \in Chains
      /\ revision \in [Id -> Nat] /\ damaged \in [Id -> BOOLEAN]
  BY DEF IInv, Good
<1>4. revision' \in [Id -> Nat] /\ \A j \in Id \ {i} : revision'[j] = revision[j]
  BY <1>1, <1>3
<1>5. Good(entry, chain, call, revision', damaged)
  BY <1>2, <1>3, <1>4, Writing
<1>6. Woken(i) \in Calls /\ Placed(Woken(i)) /\ \A c \in Caller :
        Unasked(call[c], Woken(i)[c]) /\ Quiet(call[c], Woken(i)[c])
  BY <1>3, WokenFacts
<1>7. cs \in Calls
  BY <1>6, DoneFacts DEF Calls
<1>8. Placed(cs) /\ \A c \in Caller : Quiet(call[c], cs[c])
  BY <1>6, DoneFacts DEF Placed, Sited, Quiet
<1>9. Steady(call, cs, Head(chain[i]).who)
  BY <1>2, <1>6 DEF Steady
<1>10. dh = [chain EXCEPT ![i] = Tail(chain[i])]
  BY DEF Rest
<1> HIDE DEF cs
<1>11. Good(entry, dh, cs, revision', damaged)
  BY <1>2, <1>5, <1>7, <1>8, <1>9, <1>10, Dequeuing
<1>12. \A c \in Caller : cs[c].pc = "reserved" => cs[c].on # i
  BY <1>2, <1>11, NoneReserved
<1>13. Good(entry', chain', call', revision', damaged)
  BY <1>1, <1>3, <1>11, <1>12, Removing
<1> QED
  BY <1>1, <1>13 DEF IInv

(* An append is under way.                                                 *)
LEMMA Appends ==
  ASSUME NEW e, NEW ch, NEW cs, NEW rev, NEW dam, Good(e, ch, cs, rev, dam),
         NEW i \in Id, ch[i] # <<>>, Head(ch[i]).kind \in {"append", "adopting"},
         e[i].phase # "reserved", NEW kind, Begun(kind),
         NEW dh, dh = [ch EXCEPT ![i] = <<[Head(ch[i]) EXCEPT !.kind = kind]>> \o Tail(ch[i])]
  PROVE  Good(e, dh, cs, rev, dam)
<1> DEFINE n == Len(ch[i])
           job == [Head(ch[i]) EXCEPT !.kind = kind]
           t == <<job>> \o Tail(ch[i])
<1>1. ch \in Chains /\ JobsOK(ch, cs) /\ ChainOK(ch, e)
  BY DEF Good
<1>2. ch[i] \in Seq(JobRecord) /\ n \in Nat \ {0} /\ DOMAIN ch[i] = 1 .. n
  BY <1>1 DEF Chains
<1>3. Head(ch[i]) = ch[i][1] /\ ch[i][1] \in JobRecord
  BY <1>2
<1>4. /\ job \in JobRecord /\ job.kind = kind /\ job.who = ch[i][1].who
  BY <1>3 DEF JobRecord, Begun
<1> HIDE DEF job
<1>5. /\ Tail(ch[i]) \in Seq(JobRecord) /\ Len(Tail(ch[i])) = n - 1
      /\ \A k \in 1 .. n - 1 : Tail(ch[i])[k] = ch[i][k + 1]
  BY <1>2
<1>6. t \in Seq(JobRecord) /\ Len(t) = n
  BY <1>2, <1>4, <1>5
<1>7. t[1] = job /\ \A k \in 2 .. n : t[k] = ch[i][k]
  BY <1>2, <1>4, <1>5
<1> HIDE DEF n, t
<1>8. DOMAIN t = 1 .. n
  BY <1>2, <1>6
<1>9. dh = [ch EXCEPT ![i] = t]
  BY DEF t, job
<1>10. dh \in Chains /\ dh[i] = t /\ \A j \in Id \ {i} : dh[j] = ch[j]
  BY <1>1, <1>6, <1>9 DEF Chains
<1>11. ASSUME NEW j \in Id, NEW k \in DOMAIN dh[j]
       PROVE  /\ k \in DOMAIN ch[j] /\ dh[j][k].who = ch[j][k].who
              /\ \/ dh[j][k] = ch[j][k]
                 \/ j = i /\ k = 1 /\ ch[j][k].kind \in {"append", "adopting"}
                    /\ Begun(dh[j][k].kind)
  <2>1. CASE j = i
    <3>1. k \in 1 .. n
      BY <1>8, <1>10, <2>1
    <3>2. k = 1 \/ k \in 2 .. n
      BY <1>2, <3>1
    <3> QED  BY <1>2, <1>3, <1>4, <1>7, <1>10, <2>1, <3>1, <3>2
  <2>2. CASE j # i
    BY <1>10, <2>2
  <2> QED  BY <2>1, <2>2
<1>12. JobsOK(dh, cs)
  <2>1. ASSUME NEW j \in Id, NEW k \in DOMAIN dh[j], NEW c \in dh[j][k].who
        PROVE  Asked(cs[c], dh[j][k].kind, j)
    <3>0. k \in DOMAIN ch[j] /\ dh[j][k].who = ch[j][k].who
      BY <1>11
    <3>1. k \in DOMAIN ch[j] /\ c \in ch[j][k].who
      BY <3>0
    <3>2. Asked(cs[c], ch[j][k].kind, j)
      BY <1>1, <3>1 DEF JobsOK
    <3>3. \/ dh[j][k].kind = ch[j][k].kind
          \/ ch[j][k].kind \in {"append", "adopting"} /\ Begun(dh[j][k].kind)
      BY <1>11
    <3> QED  BY <3>2, <3>3 DEF Asked, Begun
  <2>2. ASSUME NEW j \in Id, NEW m \in Id, NEW k \in DOMAIN dh[j], NEW l \in DOMAIN dh[m],
               NEW c \in dh[j][k].who \cap dh[m][l].who
        PROVE  j = m /\ k = l
    <3>0. /\ k \in DOMAIN ch[j] /\ dh[j][k].who = ch[j][k].who
          /\ l \in DOMAIN ch[m] /\ dh[m][l].who = ch[m][l].who
      BY <1>11
    <3>1. k \in DOMAIN ch[j] /\ l \in DOMAIN ch[m] /\ c \in ch[j][k].who \cap ch[m][l].who
      BY <3>0
    <3> QED  BY <1>1, <3>1 DEF JobsOK
  <2>3. \A j \in Id : \A k \in DOMAIN dh[j] : Begun(dh[j][k].kind) => k = 1
    BY <1>1, <1>11 DEF JobsOK
  <2> QED  BY <2>1, <2>2, <2>3 DEF JobsOK
<1>13. ChainOK(dh, e)
  <2>1. ASSUME NEW j \in Id, NEW k \in DOMAIN dh[j]
        PROVE  /\ Fills(dh[j][k]) => dh[j][k] = ch[j][k] /\ k \in DOMAIN ch[j]
               /\ Begun(dh[j][k].kind) => e[j].phase # "reserved"
    <3>1. CASE dh[j][k] = ch[j][k]
      BY <1>1, <1>11, <3>1 DEF ChainOK
    <3>2. CASE j = i /\ Begun(dh[j][k].kind)
      BY <3>2 DEF Fills, Begun
    <3> QED  BY <1>11, <3>1, <3>2
  <2>2. ASSUME NEW j \in Id, NEW k \in DOMAIN dh[j], Fills(dh[j][k])
        PROVE  e[j].phase = "loading" /\ \A l \in DOMAIN dh[j] : Fills(dh[j][l]) => k = l
    <3>1. Fills(ch[j][k]) /\ k \in DOMAIN ch[j]
      BY <2>1, <2>2
    <3>2. ASSUME NEW l \in DOMAIN dh[j], Fills(dh[j][l]) PROVE k = l
      <4>1. Fills(ch[j][l]) /\ l \in DOMAIN ch[j]
        BY <2>1, <3>2
      <4> QED  BY <1>1, <3>1, <4>1 DEF ChainOK
    <3>3. e[j].phase = "loading"
      BY <1>1, <3>1 DEF ChainOK
    <3> QED  BY <3>2, <3>3
  <2> QED  BY <2>1, <2>2 DEF ChainOK
<1> QED
  BY <1>10, <1>12, <1>13 DEF Good

(* BeginAppend keeps the invariant: assertWritable was asked.              *)
LEMMA BeginAppendStep == ASSUME IInv, NEW i \in Id, BeginAppend(i) PROVE IInv'
<1>1. /\ Runs(i, "append") /\ revision' = revision /\ damaged' = damaged
      /\ \/ /\ entry' = entry /\ call' = Ends(Running(i).who)
            /\ chain' = [chain EXCEPT ![i] = Tail(chain[i])]
         \/ /\ Writable(i)
            /\ \E kind \in {"adopting", "appending"} :
                 /\ entry' = entry /\ call' = call
                 /\ chain' = [chain EXCEPT ![i] = Begins(i, kind)]
         \/ Writable(i) /\ Remove(i, Begins(i, "adopting"), call)
  BY DEF BeginAppend, Keep, pool, storage, Dequeue, Rest
<1>2. /\ chain[i] # <<>> /\ Running(i) = Head(chain[i])
      /\ Head(chain[i]).kind \in {"append", "adopting"}
  BY <1>1, RunningFacts DEF Runs
<1>3. Good(entry, chain, call, revision, damaged)
  BY DEF IInv
<1>4. call \in Calls /\ Placed(call) /\ chain \in Chains
  BY <1>3 DEF Good
<1>5. ASSUME Writable(i), NEW kind \in {"adopting", "appending"},
             NEW dh, dh = [chain EXCEPT ![i] = Begins(i, kind)]
      PROVE  Good(entry, dh, call, revision, damaged)
  <2>1. dh = [chain EXCEPT ![i] = <<[Head(chain[i]) EXCEPT !.kind = kind]>> \o Tail(chain[i])]
    BY <1>2, <1>5 DEF Begins, Rest
  <2>2. entry[i].phase # "reserved" /\ Begun(kind)
    BY <1>5 DEF Writable, Begun
  <2> QED  BY <1>2, <1>3, <2>1, <2>2, Appends
<1>6. CASE /\ entry' = entry /\ call' = Ends(Running(i).who)
           /\ chain' = [chain EXCEPT ![i] = Tail(chain[i])]
  <2>1. /\ call' \in Calls /\ Placed(call')
        /\ \A c \in Caller : Quiet(call[c], call'[c])
        /\ Steady(call, call', Head(chain[i]).who)
    BY <1>2, <1>4, <1>6, EndsFacts
  <2>2. Good(entry, chain', call', revision, damaged)
    BY <1>2, <1>3, <1>6, <2>1, Dequeuing
  <2> QED  BY <1>1, <1>6, <2>2 DEF IInv
<1>7. CASE /\ Writable(i)
           /\ \E kind \in {"adopting", "appending"} :
                /\ entry' = entry /\ call' = call
                /\ chain' = [chain EXCEPT ![i] = Begins(i, kind)]
  <2>1. Good(entry, chain', call, revision, damaged)
    BY <1>5, <1>7
  <2> QED  BY <1>1, <1>7, <2>1 DEF IInv
<1>8. CASE Writable(i) /\ Remove(i, Begins(i, "adopting"), call)
  <2> DEFINE dh == [chain EXCEPT ![i] = Begins(i, "adopting")]
  <2>1. Good(entry, dh, call, revision, damaged)
    BY <1>5, <1>8
  <2>2. \A c \in Caller : call[c].pc = "reserved" => call[c].on # i
    BY <1>3, <1>8, NoneReserved DEF Writable
  <2>3. Remove(i, Begins(i, "adopting"), call)
    BY <1>8
  <2>4. Good(entry', chain', call', revision, damaged)
    BY <1>4, <2>1, <2>2, <2>3, Removing
  <2> QED  BY <1>1, <2>4 DEF IInv
<1> QED
  BY <1>1, <1>6, <1>7, <1>8

(* Adopt keeps the invariant: nobody has the log reserved.                 *)
LEMMA AdoptStep == ASSUME IInv, NEW i \in Id, Adopt(i) PROVE IInv'
<1>1. /\ Runs(i, "adopting") /\ entry' = entry /\ call' = call
      /\ chain' = [chain EXCEPT ![i] = Begins(i, "appending")]
      /\ damaged' = [damaged EXCEPT ![i] = FALSE]
      /\ revision' = IF damaged[i] THEN [revision EXCEPT ![i] = @ + 1] ELSE revision
      /\ Begun("adopting") /\ Begun("appending")
  BY DEF Adopt, Keep, pool, Begun
<1>2. /\ chain[i] # <<>> /\ Running(i) = Head(chain[i]) /\ entry[i].phase # "reserved"
      /\ Head(chain[i]).kind \in {"append", "adopting"}
  BY <1>1, RunningFacts DEF Runs
<1>3. revision \in [Id -> Nat] /\ damaged \in [Id -> BOOLEAN]
  BY DEF IInv, Good
<1>4. /\ revision' \in [Id -> Nat] /\ damaged' \in [Id -> BOOLEAN]
      /\ \A j \in Id \ {i} : revision'[j] = revision[j] /\ damaged'[j] = damaged[j]
  BY <1>1, <1>3
<1>5. Good(entry, chain, call, revision', damaged')
  BY <1>2, <1>4, Writing
<1>6. chain' = [chain EXCEPT ![i] = <<[Head(chain[i]) EXCEPT !.kind = "appending"]>> \o Tail(chain[i])]
  BY <1>1, <1>2 DEF Begins, Rest
<1> DEFINE dh == [chain EXCEPT ![i] = <<[Head(chain[i]) EXCEPT !.kind = "appending"]>> \o Tail(chain[i])]
<1>7. Good(entry, dh, call, revision', damaged')
  <2> HIDE DEF dh
  <2>1. dh = [chain EXCEPT ![i] = <<[Head(chain[i]) EXCEPT !.kind = "appending"]>> \o Tail(chain[i])]
    BY DEF dh
  <2>2. Begun("appending")
    BY DEF Begun
  <2> QED  BY ONLY i \in Id, <1>2, <1>5, <2>1, <2>2, Appends
<1>8. entry' = entry /\ call' = call /\ chain' = dh
  BY <1>1, <1>6
<1> QED
  BY <1>7, <1>8 DEF IInv

-----------------------------------------------------------------------------
(* The callers.                                                            *)

(* A new operation has its type.                                           *)
LEMMA JobFacts ==
  ASSUME NEW kind \in {"load", "commit", "check", "append"}, NEW who \in SUBSET Caller
  PROVE  Job(kind, who) \in JobRecord /\ Job(kind, who).kind = kind /\ Job(kind, who).who = who
  BY DEF Job, JobRecord

(* A call ends that waits for no operation.                                *)
LEMMA EndsOne ==
  ASSUME IInv, NEW c \in Caller, call[c].pc \notin Waits
  PROVE  Good(entry, chain, Ends({c}), revision, damaged)
<1>1. Good(entry, chain, call, revision, damaged) /\ call \in Calls /\ Placed(call)
  BY DEF IInv, Good
<1>2. /\ Ends({c}) \in Calls /\ Placed(Ends({c}))
      /\ \A d \in Caller : Quiet(call[d], Ends({c})[d])
      /\ \A d \in Caller : d \notin {c} => Ends({c})[d] = call[d]
  BY <1>1, EndsFacts
<1>3. \A d \in Caller : Unasked(call[d], Ends({c})[d])
  BY <1>2 DEF Unasked
<1> QED
  BY <1>1, <1>2, <1>3, CallsChange

(* Dispose keeps the invariant.                                            *)
LEMMA DisposeStep == ASSUME IInv, NEW c \in Caller, Dispose(c) PROVE IInv'
<1>1. /\ call[c].pc = "leased" /\ Unpin(c)
      /\ chain' = chain /\ revision' = revision /\ damaged' = damaged
  BY DEF Dispose, storage
<1>2. call[c].on \in Id
  BY <1>1 DEF IInv, Good, Placed, Sited
<1>3. Good(entry, chain, Ends({c}), revision, damaged)
  BY <1>1, EndsOne DEF Waits
<1>4. Good(entry', chain, call', revision, damaged)
  BY <1>1, <1>2, <1>3, Unpinning
<1> QED
  BY <1>1, <1>4 DEF IInv

(* AbortWaiting keeps the invariant.                                       *)
LEMMA AbortWaitingStep == ASSUME IInv, NEW c \in Caller, AbortWaiting(c) PROVE IInv'
<1>1. /\ call[c].pc = "waiting" /\ entry' = entry /\ call' = Ends({c})
      /\ chain' = chain /\ revision' = revision /\ damaged' = damaged
  BY DEF AbortWaiting, Keep, pool, storage
<1>2. Good(entry, chain, Ends({c}), revision, damaged)
  BY <1>1, EndsOne DEF Waits
<1> QED
  BY <1>1, <1>2 DEF IInv

(* A caller that waits for an operation gives up.                          *)
LEMMA GivingUp ==
  ASSUME IInv, NEW c \in Caller, call[c].pc \in {"loading", "committing", "checking"},
         NEW cs \in Calls, Placed(cs),
         \A d \in Caller : Quiet(call[d], cs[d]), Steady(call, cs, {c}),
         NEW dh, dh = [chain EXCEPT ![call[c].on] = NotFor(c, @)]
  PROVE  call[c].on \in Id /\ Good(entry, dh, cs, revision, damaged)
<1>1. Good(entry, chain, call, revision, damaged) /\ Placed(call)
  BY DEF IInv, Good
<1>2. call[c].on \in Id
  BY <1>1 DEF Placed, Sited
<1> QED
  BY <1>1, <1>2, Forgetting

(* Its call ends.                                                          *)
LEMMA GivenUp ==
  ASSUME IInv, NEW c \in Caller, call[c].pc \in {"loading", "committing", "checking"},
         NEW dh, dh = [chain EXCEPT ![call[c].on] = NotFor(c, @)]
  PROVE  call[c].on \in Id /\ Good(entry, dh, Ends({c}), revision, damaged)
<1>1. call \in Calls /\ Placed(call)
  BY DEF IInv, Good
<1>2. /\ Ends({c}) \in Calls /\ Placed(Ends({c}))
      /\ \A d \in Caller : Quiet(call[d], Ends({c})[d])
      /\ Steady(call, Ends({c}), {c})
  BY <1>1, EndsFacts
<1> QED
  BY <1>2, GivingUp

(* AbortLoading keeps the invariant.                                       *)
LEMMA AbortLoadingStep == ASSUME IInv, NEW c \in Caller, AbortLoading(c) PROVE IInv'
<1>1. /\ call[c].pc = "loading" /\ chain' = [chain EXCEPT ![call[c].on] = NotFor(c, @)]
      /\ Unpin(c) \/ (entry' = entry /\ call' = Ends({c}))
      /\ revision' = revision /\ damaged' = damaged
  BY DEF AbortLoading, Keep, pool, storage
<1>2. call[c].on \in Id /\ Good(entry, chain', Ends({c}), revision, damaged)
  BY <1>1, GivenUp
<1>3. Good(entry', chain', call', revision, damaged)
  BY <1>1, <1>2, Unpinning
<1> QED
  BY <1>1, <1>3 DEF IInv

(* AbortCheck keeps the invariant.                                         *)
LEMMA AbortCheckStep == ASSUME IInv, NEW c \in Caller, AbortCheck(c) PROVE IInv'
<1>1. /\ call[c].pc = "checking" /\ chain' = [chain EXCEPT ![call[c].on] = NotFor(c, @)]
      /\ Unpin(c) /\ revision' = revision /\ damaged' = damaged
  BY DEF AbortCheck, storage
<1>2. call[c].on \in Id /\ Good(entry, chain', Ends({c}), revision, damaged)
  BY <1>1, GivenUp
<1>3. Good(entry', chain', call', revision, damaged)
  BY <1>1, <1>2, Unpinning
<1> QED
  BY <1>1, <1>3 DEF IInv

(* AbortCommit keeps the invariant: only its caller had the entry.         *)
LEMMA AbortCommitStep == ASSUME IInv, NEW c \in Caller, AbortCommit(c) PROVE IInv'
<1> DEFINE i == call[c].on
           cs == Put(Woken(i), c, Done)
           dh == [chain EXCEPT ![i] = NotFor(c, @)]
<1>1. /\ call[c].pc = "committing"
      /\ \/ call[c].holds /\ Remove(i, NotFor(c, chain[i]), cs)
         \/ entry' = entry /\ call' = Ends({c}) /\ chain' = dh
      /\ revision' = revision /\ damaged' = damaged
  BY DEF AbortCommit, Keep, pool, storage, Put
<1>2. call[c].on \in Id /\ Good(entry, dh, Ends({c}), revision, damaged)
  BY <1>1, GivenUp
<1>3. call \in Calls /\ Placed(call) /\ chain \in Chains
  BY DEF IInv, Good
<1>4. Over(Done) /\ Replaced(cs, i, c, Done)
  BY <1>2, <1>3, AgainFacts DEF Replaced
<1>5. /\ cs \in Calls /\ Placed(cs)
      /\ \A d \in Caller : Quiet(call[d], cs[d])
      /\ Steady(call, cs, {c}) /\ Others(cs, c)
  BY <1>2, <1>3, <1>4, WokenBut
<1> HIDE DEF cs
<1>6. Good(entry, dh, cs, revision, damaged)
  BY <1>1, <1>5, GivingUp
<1>7. CASE call[c].holds /\ Remove(i, NotFor(c, chain[i]), cs)
  <2>1. \A d \in Caller : call[d].pc = "reserved" => d = c \/ call[d].on # i
    <3>1. Exclusive(call[c])
      BY <1>1, <1>7 DEF Exclusive
    <3> QED  BY <3>1, OneExclusive
  <2>2. \A d \in Caller : cs[d].pc = "reserved" => cs[d].on # i
    BY <1>5, <2>1 DEF Others
  <2>3. dh = [chain EXCEPT ![i] = NotFor(c, chain[i])]
    OBVIOUS
  <2> HIDE DEF dh, i
  <2>4. Good(entry', chain', call', revision, damaged)
    BY <1>2, <1>3, <1>6, <1>7, <2>2, <2>3, Removing DEF i
  <2> QED  BY <1>1, <2>4 DEF IInv
<1>8. CASE entry' = entry /\ call' = Ends({c}) /\ chain' = dh
  BY <1>1, <1>2, <1>8 DEF IInv
<1> QED
  BY <1>1, <1>7, <1>8

(* CallAppend keeps the invariant.                                         *)
LEMMA CallAppendStep == ASSUME IInv, NEW c \in Caller, CallAppend(c) PROVE IInv'
<1>1. PICK i \in Id : Queue(i, Job("append", {c}))
  BY DEF CallAppend
<1>2. /\ call[c].pc = "idle" /\ chain' = [chain EXCEPT ![i] = Append(@, Job("append", {c}))]
      /\ entry' = entry /\ call' = Goes(c, "queued") /\ revision' = revision /\ damaged' = damaged
  BY <1>1 DEF CallAppend, Queue, Keep, pool, storage
<1>3. Good(entry, chain, call, revision, damaged) /\ call \in Calls /\ Placed(call)
  BY DEF IInv, Good
<1>4. "queued" \in CallPoint
  BY DEF CallPoint
<1>5. /\ call' \in Calls /\ Placed(call') /\ call'[c].pc = "queued"
      /\ \A d \in Caller \ {c} : call'[d] = call[d]
  BY <1>2, <1>3, <1>4, GoesFacts
<1> DEFINE job == Job("append", {c})
<1>6. job \in JobRecord /\ job.kind = "append" /\ job.who = {c}
  BY JobFacts
<1> HIDE DEF job
<1>7. Asking(call, call', job, i) /\ Steady(call, call', job.who)
  BY <1>2, <1>5, <1>6 DEF Asking, Asked, Steady, Unasked, Waits
<1>8. \A d \in Caller : Quiet(call[d], call'[d])
  BY <1>5 DEF Quiet
<1>9. Good(entry, chain', call', revision, damaged)
  <2>1. chain' = [chain EXCEPT ![i] = Append(@, job)]
    BY <1>2 DEF job
  <2>2. job.kind # "load" /\ ~Begun(job.kind)
    BY <1>6 DEF Begun
  <2> QED  BY <1>3, <1>5, <1>6, <1>7, <1>8, <2>1, <2>2, Queuing
<1> QED
  BY <1>2, <1>9 DEF IInv

(* Borrow keeps the invariant.                                             *)
LEMMA BorrowStep == ASSUME IInv, NEW c \in Caller, Borrow(c) PROVE IInv'
<1> DEFINE i == call[c].on
           cs == Goes(c, "checking")
           job == Job("check", {c})
<1>1. /\ call[c].pc = "loaded"
      /\ \/ Unpin(c) /\ chain' = chain
         \/ /\ Touch(entry, i, cs) \/ (entry' = entry /\ call' = cs)
            /\ chain' = [chain EXCEPT ![i] = Append(@, job)]
      /\ revision' = revision /\ damaged' = damaged
  BY DEF Borrow, Keep, pool, storage, Queue
<1>2. Good(entry, chain, call, revision, damaged) /\ call \in Calls /\ Placed(call)
  BY DEF IInv, Good
<1>3. i \in Id
  BY <1>1, <1>2 DEF Placed, Sited
<1>4. CASE Unpin(c) /\ chain' = chain
  <2>1. Good(entry, chain, Ends({c}), revision, damaged)
    BY <1>1, EndsOne DEF Waits
  <2>2. Good(entry', chain, call', revision, damaged)
    BY <1>3, <1>4, <2>1, Unpinning
  <2> QED  BY <1>1, <1>4, <2>2 DEF IInv
<1>5. CASE /\ Touch(entry, i, cs) \/ (entry' = entry /\ call' = cs)
           /\ chain' = [chain EXCEPT ![i] = Append(@, job)]
  <2>1. "checking" \in CallPoint
    BY DEF CallPoint
  <2>2. /\ cs \in Calls /\ Placed(cs) /\ cs[c].pc = "checking" /\ cs[c].on = i
        /\ \A d \in Caller \ {c} : cs[d] = call[d]
    BY <1>2, <1>3, <2>1, GoesFacts
  <2>3. job \in JobRecord /\ job.kind = "check" /\ job.who = {c}
    BY JobFacts
  <2> HIDE DEF job, cs
  <2>4. Asking(call, cs, job, i) /\ Steady(call, cs, job.who)
    BY <1>1, <2>2, <2>3 DEF Asking, Asked, Steady, Unasked, Waits
  <2>5. \A d \in Caller : Quiet(call[d], cs[d])
    BY <2>2 DEF Quiet
  <2>6. Good(entry, chain', cs, revision, damaged)
    <3>1. job.kind # "load" /\ ~Begun(job.kind)
      BY <2>3 DEF Begun
    <3> QED  BY <1>2, <1>3, <1>5, <2>2, <2>3, <2>4, <2>5, <3>1, Queuing
  <2>7. Good(entry', chain', call', revision, damaged)
    BY <1>5, <2>6, Touching
  <2> QED  BY <1>1, <2>7 DEF IInv
<1> QED
  BY <1>1, <1>4, <1>5

(* Finish keeps the invariant: only its caller had the entry.              *)
LEMMA FinishStep == ASSUME IInv, NEW c \in Caller, Finish(c) PROVE IInv'
<1> DEFINE i == call[c].on
           cs == Put(Woken(i), c, Done)
<1>1. /\ call[c].pc = "reserved"
      /\ \/ call[c].holds /\ Remove(i, chain[i], cs)
         \/ call[c].holds /\ Touch(Readied(i, call[c].view), i, cs) /\ chain' = chain
         \/ entry' = entry /\ call' = Ends({c}) /\ chain' = chain
      /\ revision' = revision /\ damaged' = damaged
  BY DEF Finish, Keep, pool, Put
<1>2. /\ Good(entry, chain, call, revision, damaged) /\ call \in Calls /\ Placed(call)
      /\ chain \in Chains /\ entry \in Entries /\ ChainOK(chain, entry)
  BY DEF IInv, Good
<1>3. i \in Id
  BY <1>1, <1>2 DEF Placed, Sited
<1>4. Over(Done) /\ Replaced(cs, i, c, Done)
  BY <1>2, <1>3, AgainFacts DEF Replaced
<1>5. /\ cs \in Calls /\ Placed(cs)
      /\ \A d \in Caller : Quiet(call[d], cs[d])
      /\ Steady(call, cs, {c}) /\ Others(cs, c)
  BY <1>2, <1>3, <1>4, WokenBut
<1>6. \A d \in Caller : Unasked(call[d], cs[d])
  BY <1>1, <1>5 DEF Steady, Unasked, Waits
<1> HIDE DEF cs
<1>7. Good(entry, chain, cs, revision, damaged)
  BY <1>2, <1>5, <1>6, CallsChange
<1>8. ASSUME call[c].holds
      PROVE  /\ \A d \in Caller : Exclusive(call[d]) => d = c \/ call[d].on # i
             /\ \A d \in Caller : call[d].pc = "reserved" => d = c \/ call[d].on # i
             /\ entry[i].phase = "reserved"
  <2>1. Exclusive(call[c])
    BY <1>1, <1>8 DEF Exclusive
  <2> QED  BY <1>1, <2>1, OneExclusive
<1>9. CASE call[c].holds /\ Remove(i, chain[i], cs)
  <2>1. \A d \in Caller : cs[d].pc = "reserved" => cs[d].on # i
    BY <1>5, <1>8, <1>9 DEF Others
  <2>2. chain = [chain EXCEPT ![i] = chain[i]]
    BY <1>2 DEF Chains
  <2> HIDE DEF i
  <2>3. Good(entry', chain', call', revision, damaged)
    BY <1>2, <1>3, <1>7, <1>9, <2>1, <2>2, Removing
  <2> QED  BY <1>1, <2>3 DEF IInv
<1>10. CASE call[c].holds /\ Touch(Readied(i, call[c].view), i, cs) /\ chain' = chain
  <2>1. \A d \in Caller : Exclusive(cs[d]) => cs[d].on # i
    BY <1>5, <1>8, <1>10 DEF Others, Exclusive
  <2>2. \A k \in DOMAIN chain[i] : ~Fills(chain[i][k])
    BY <1>2, <1>3, <1>8, <1>10 DEF ChainOK
  <2>3. call[c].view \in Nat
    BY <1>2, CallAt
  <2>4. /\ Readied(i, call[c].view) \in Entries /\ Readied(i, call[c].view)[i].phase = "ready"
        /\ \A k \in Id \ {i} : Readied(i, call[c].view)[k] = entry[k]
    BY <1>2, <1>3, <2>3, ReadiedFacts
  <2> HIDE DEF i
  <2>5. Good(Readied(i, call[c].view), chain, cs, revision, damaged)
    BY <1>3, <1>7, <2>1, <2>2, <2>4, Readying
  <2>6. Good(entry', chain, call', revision, damaged)
    BY <1>10, <2>5, Touching
  <2> QED  BY <1>1, <1>10, <2>6 DEF IInv
<1>11. CASE entry' = entry /\ call' = Ends({c}) /\ chain' = chain
  <2>1. Good(entry, chain, Ends({c}), revision, damaged)
    BY <1>1, EndsOne DEF Waits
  <2> QED  BY <1>1, <1>11, <2>1 DEF IInv
<1> QED
  BY <1>1, <1>9, <1>10, <1>11

(* Reserve keeps the invariant: a ready entry is nobody's alone.           *)
LEMMA ReserveStep == ASSUME IInv, NEW c \in Caller, Reserve(c) PROVE IInv'
<1> DEFINE i == call[c].on
           job == Job("commit", {c})
<1>1. /\ call[c].pc \in {"loaded", "woken"}
      /\ \/ /\ \E pc \in {"again", "waiting"} : call' = Goes(c, pc)
            /\ entry' = entry /\ chain' = chain
         \/ /\ call[c].holds /\ entry[i].phase = "ready"
            /\ entry' = [entry EXCEPT ![i].phase = "committing"]
            /\ call' = Goes(c, "committing")
            /\ chain' = [chain EXCEPT ![i] = Append(@, job)]
      /\ revision' = revision /\ damaged' = damaged
  BY DEF Reserve, Keep, pool, storage, Queue
<1>2. /\ Good(entry, chain, call, revision, damaged) /\ call \in Calls /\ Placed(call)
      /\ chain \in Chains /\ entry \in [Id -> EntryRecord]
      /\ JobsOK(chain, call) /\ ChainOK(chain, entry) /\ ReservedOK(entry, call, revision, damaged)
  BY DEF IInv, Good, Entries
<1>3. i \in Id
  BY <1>1, <1>2 DEF Placed, Sited
<1>4. CASE /\ \E pc \in {"again", "waiting"} : call' = Goes(c, pc)
           /\ entry' = entry /\ chain' = chain
  <2>1. PICK pc \in {"again", "waiting"} : call' = Goes(c, pc)
    BY <1>4
  <2>2. pc \in CallPoint
    BY DEF CallPoint
  <2>3. /\ call' \in Calls /\ Placed(call') /\ call'[c].pc = pc
        /\ \A d \in Caller \ {c} : call'[d] = call[d]
    BY <1>2, <1>3, <2>1, <2>2, GoesFacts
  <2>4. \A d \in Caller : Unasked(call[d], call'[d]) /\ Quiet(call[d], call'[d])
    BY <1>1, <2>3 DEF Unasked, Quiet, Waits
  <2>5. Good(entry, chain, call', revision, damaged)
    BY <1>2, <2>3, <2>4, CallsChange
  <2> QED  BY <1>1, <1>4, <2>5 DEF IInv
<1>5. CASE /\ call[c].holds /\ entry[i].phase = "ready"
           /\ entry' = [entry EXCEPT ![i].phase = "committing"]
           /\ call' = Goes(c, "committing")
           /\ chain' = [chain EXCEPT ![i] = Append(@, job)]
  <2>1. "committing" \in CallPoint
    BY DEF CallPoint
  <2>2. /\ call' \in Calls /\ Placed(call') /\ call'[c].pc = "committing" /\ call'[c].on = i
        /\ \A d \in Caller \ {c} : call'[d] = call[d]
    BY <1>2, <1>3, <1>5, <2>1, GoesFacts
  <2>3. job \in JobRecord /\ job.kind = "commit" /\ job.who = {c}
    BY JobFacts
  <2> HIDE DEF job, i
  <2>4. Asking(call, call', job, i) /\ Steady(call, call', job.who)
    BY <1>1, <2>2, <2>3 DEF Asking, Asked, Steady, Unasked, Waits
  <2>5. job.kind # "load" /\ ~Begun(job.kind)
    BY <2>3 DEF Begun
  <2>6. chain' \in Chains /\ JobsOK(chain', call')
    BY <1>2, <1>3, <1>5, <2>3, <2>4, <2>5, Queued
  <2>7. ChainOK(chain', entry)
    BY <1>2, <1>3, <1>5, <2>3, <2>5, QueuedChain
  <2>8. /\ entry' \in Entries /\ entry'[i].phase = "committing" /\ \A k \in Id \ {i} : entry'[k] = entry[k]
    <3>1. entry'[i] = [entry[i] EXCEPT !.phase = "committing"] /\ \A k \in Id \ {i} : entry'[k] = entry[k]
      BY <1>2, <1>3, <1>5
    <3>2. [entry[i] EXCEPT !.phase = "committing"] \in EntryRecord
      BY <1>2, <1>3 DEF EntryRecord, Phase
    <3>3. [entry[i] EXCEPT !.phase = "committing"].phase = "committing"
      BY <1>2, <1>3 DEF EntryRecord
    <3>4. entry' \in [Id -> EntryRecord]
      BY <1>2, <1>3, <1>5, <3>2
    <3> QED  BY <3>1, <3>3, <3>4 DEF Entries
  <2>9. ChainOK(chain', entry')
    <3>1. ASSUME NEW j \in Id, NEW k \in DOMAIN chain'[j]
          PROVE  /\ Fills(chain'[j][k]) => entry'[j] = entry[j]
                 /\ entry'[j].phase = "reserved" => entry'[j] = entry[j]
      <4>1. CASE j = i
        BY <1>5, <2>7, <2>8, <4>1 DEF ChainOK
      <4>2. CASE j # i
        BY <2>8, <4>2
      <4> QED  BY <4>1, <4>2
    <3>2. \A j \in Id : \A k, l \in DOMAIN chain'[j] :
            Fills(chain'[j][k]) /\ Fills(chain'[j][l]) => k = l
      BY <2>7 DEF ChainOK
    <3> QED  BY <2>7, <3>1, <3>2 DEF ChainOK
  <2>10. ReservedOK(entry', call', revision, damaged)
    <3>1. \A d \in Caller : Exclusive(call[d]) => call[d].on # i /\ call[d].on \in Id
      <4>1. \A d \in Caller : Exclusive(call[d]) => call[d].on # i
        BY <1>2, <1>5, NoneReserved
      <4>2. \A d \in Caller : Exclusive(call[d]) => call[d].on \in Id
        BY <1>2 DEF Placed, Sited, Exclusive
      <4> QED  BY <4>1, <4>2
    <3>2. \A d \in Caller \ {c} : Exclusive(call'[d]) =>
            Exclusive(call[d]) /\ call[d].on # i /\ call'[d] = call[d] /\ entry'[call[d].on] = entry[call[d].on]
      BY <2>2, <2>8, <3>1
    <3>3. ASSUME NEW d \in Caller, Exclusive(call'[d]) PROVE entry'[call'[d].on].phase = call'[d].pc
      <4>1. CASE d = c  BY <2>2, <2>8, <4>1
      <4>2. CASE d # c  BY <1>2, <3>2, <3>3, <4>2 DEF ReservedOK
      <4> QED  BY <4>1, <4>2
    <3>4. ASSUME NEW d \in Caller, NEW b \in Caller, Exclusive(call'[d]), Exclusive(call'[b]),
                 call'[d].on = call'[b].on
          PROVE  d = b
      <4>1. CASE d = c \/ b = c  BY <2>2, <3>2, <3>4, <4>1
      <4>2. CASE d # c /\ b # c  BY <1>2, <3>2, <3>4, <4>2 DEF ReservedOK
      <4> QED  BY <4>1, <4>2
    <3>5. ASSUME NEW d \in Caller, call'[d].pc = "reserved"
          PROVE  call'[d].holds /\ call'[d].view = revision[call'[d].on] /\ ~damaged[call'[d].on]
      <4>1. d # c /\ call'[d] = call[d]
        BY <2>2, <3>5
      <4> QED  BY <1>2, <3>5, <4>1 DEF ReservedOK
    <3> QED  BY <3>3, <3>4, <3>5 DEF ReservedOK
  <2> QED  BY <1>1, <1>2, <2>2, <2>6, <2>8, <2>9, <2>10 DEF IInv, Good
<1> QED
  BY <1>1, <1>4, <1>5

(* The call c, which waited for nothing, now waits for i to be loaded.     *)
Waiting(cs, ds, c, i) ==
  /\ cs[c].pc \notin Waits /\ ds[c].pc = "loading" /\ ds[c].on = i
  /\ \A d \in Caller \ {c} : ds[d] = cs[d]

(* One more call shares the load of i.                                     *)
LEMMA Joined ==
  ASSUME NEW e, NEW ch, NEW cs, NEW rev, NEW dam, Good(e, ch, cs, rev, dam),
         NEW i \in Id, NEW c \in Caller,
         NEW ds \in Calls, Placed(ds), Waiting(cs, ds, c, i),
         NEW dh, dh = [ch EXCEPT ![i] = AlsoFor(c, @)]
  PROVE  Good(e, dh, ds, rev, dam)
<1>1. ch \in Chains /\ JobsOK(ch, cs) /\ ChainOK(ch, e)
  BY DEF Good
<1>2. ch[i] \in Seq(JobRecord)
  BY <1>1 DEF Chains
<1>3. /\ dh[i] = AlsoFor(c, ch[i])
      /\ \A j \in Id \ {i} : dh[j] = ch[j]
      /\ DOMAIN dh = Id
  BY <1>1 DEF Chains
<1>4. ASSUME NEW k \in DOMAIN ch[i]
      PROVE  /\ dh[i][k] \in JobRecord
             /\ dh[i][k].kind = ch[i][k].kind /\ dh[i][k].current = ch[i][k].current
             /\ \/ dh[i][k].who = ch[i][k].who
                \/ Fills(ch[i][k]) /\ dh[i][k].who = ch[i][k].who \cup {c}
  <2>1. ch[i][k] \in JobRecord
    BY <1>2
  <2>2. dh[i][k] = IF Fills(ch[i][k]) THEN [ch[i][k] EXCEPT !.who = @ \cup {c}] ELSE ch[i][k]
    BY <1>3 DEF AlsoFor, Fills
  <2> QED  BY <2>1, <2>2 DEF JobRecord, Fills
<1>5. DOMAIN dh[i] = DOMAIN ch[i] /\ dh[i] \in Seq(JobRecord)
  <2>1. Len(ch[i]) \in Nat /\ DOMAIN ch[i] = 1 .. Len(ch[i])
    BY <1>2
  <2>2. dh[i] \in [1 .. Len(ch[i]) -> JobRecord]
    BY <1>3, <1>4, <2>1 DEF AlsoFor
  <2> QED  BY <2>1, <2>2, SeqDef
<1>6. dh \in Chains
  BY <1>1, <1>3, <1>5 DEF Chains
<1>7. ASSUME NEW j \in Id, NEW k \in DOMAIN dh[j]
      PROVE  /\ k \in DOMAIN ch[j]
             /\ dh[j][k].kind = ch[j][k].kind /\ Fills(dh[j][k]) = Fills(ch[j][k])
  <2>1. CASE j = i  BY <1>4, <1>5, <2>1 DEF Fills
  <2>2. CASE j # i  BY <1>3, <2>2
  <2> QED  BY <2>1, <2>2
<1>8. ASSUME NEW j \in Id, NEW k \in DOMAIN dh[j], NEW d \in dh[j][k].who
      PROVE  d \in ch[j][k].who \/ (d = c /\ j = i /\ Fills(ch[i][k]))
  <2>1. CASE j = i  BY <1>4, <1>5, <2>1
  <2>2. CASE j # i  BY <1>3, <2>2
  <2> QED  BY <2>1, <2>2
<1>9. ASSUME NEW j \in Id, NEW k \in DOMAIN ch[j]
      PROVE  c \notin ch[j][k].who /\ ch[j][k].who \subseteq Caller
  <2>1. c \in ch[j][k].who => Asked(cs[c], ch[j][k].kind, j)
    BY <1>1 DEF JobsOK
  <2>2. \A kind : ~Asked(cs[c], kind, j)
    BY DEF Asked, Waits, Waiting
  <2>3. ch[j][k].who \subseteq Caller
    BY <1>1, JobAt
  <2> QED  BY <2>1, <2>2, <2>3
<1>10. JobsOK(dh, ds)
  <2>1. ASSUME NEW j \in Id, NEW k \in DOMAIN dh[j], NEW d \in dh[j][k].who
        PROVE  Asked(ds[d], dh[j][k].kind, j)
    <3>1. CASE d \in ch[j][k].who
      <4>1. k \in DOMAIN ch[j] /\ dh[j][k].kind = ch[j][k].kind
        BY <1>7
      <4>2. Asked(cs[d], ch[j][k].kind, j)
        BY <1>1, <3>1, <4>1 DEF JobsOK
      <4>3. ds[d] = cs[d]
        BY <1>9, <3>1, <4>1 DEF Waiting
      <4> QED  BY <4>1, <4>2, <4>3
    <3>2. CASE d = c /\ j = i /\ Fills(ch[i][k])
      <4>1. dh[j][k].kind = "load"
        BY <1>7, <3>2 DEF Fills
      <4> QED  BY <3>2, <4>1 DEF Asked, Waiting
    <3> QED  BY <1>8, <3>1, <3>2
  <2>2. ASSUME NEW j \in Id, NEW m \in Id, NEW k \in DOMAIN dh[j], NEW l \in DOMAIN dh[m],
               NEW d \in dh[j][k].who \cap dh[m][l].who
        PROVE  j = m /\ k = l
    <3>1. k \in DOMAIN ch[j] /\ l \in DOMAIN ch[m]
      BY <1>7
    <3>2. CASE d = c
      <4>1. j = i /\ Fills(ch[i][k]) /\ m = i /\ Fills(ch[i][l])
        BY <1>8, <1>9, <3>1, <3>2
      <4> QED  BY <1>1, <3>1, <4>1 DEF ChainOK
    <3>3. CASE d # c
      <4>1. d \in ch[j][k].who /\ d \in ch[m][l].who
        BY <1>8, <3>3
      <4> QED  BY <1>1, <3>1, <4>1 DEF JobsOK
    <3> QED  BY <3>2, <3>3
  <2>3. ASSUME NEW j \in Id, NEW k \in DOMAIN dh[j], Begun(dh[j][k].kind) PROVE k = 1
    <3>1. k \in DOMAIN ch[j] /\ Begun(ch[j][k].kind)
      BY <1>7, <2>3
    <3> QED  BY <1>1, <3>1 DEF JobsOK
  <2> QED  BY <2>1, <2>2, <2>3 DEF JobsOK
<1>11. ChainOK(dh, e)
  <2>1. ASSUME NEW j \in Id, NEW k \in DOMAIN dh[j]
        PROVE  /\ Fills(dh[j][k]) => e[j].phase = "loading"
               /\ Begun(dh[j][k].kind) => e[j].phase # "reserved"
    <3>1. k \in DOMAIN ch[j] /\ dh[j][k].kind = ch[j][k].kind
      BY <1>7
    <3>2. Fills(dh[j][k]) => Fills(ch[j][k])
      BY <1>7
    <3> QED  BY <1>1, <3>1, <3>2 DEF ChainOK
  <2>2. ASSUME NEW j \in Id, NEW k \in DOMAIN dh[j], NEW l \in DOMAIN dh[j],
               Fills(dh[j][k]), Fills(dh[j][l])
        PROVE  k = l
    <3>1. k \in DOMAIN ch[j] /\ l \in DOMAIN ch[j]
      BY <1>7
    <3>2. Fills(ch[j][k]) /\ Fills(ch[j][l])
      BY <1>7, <2>2
    <3> QED  BY <1>1, <3>1, <3>2 DEF ChainOK
  <2> QED  BY <2>1, <2>2 DEF ChainOK
<1>12. ReservedOK(e, ds, rev, dam)
  <2>1. \A d \in Caller : Quiet(cs[d], ds[d])
    BY DEF Quiet, Waiting
  <2> QED  BY <2>1, StillReserved DEF Good
<1> QED
  BY <1>6, <1>10, <1>11, <1>12 DEF Good

(* A pin more changes no phase.                                            *)
LEMMA PinFacts ==
  ASSUME entry \in Entries, NEW i \in Id, NEW c
  PROVE  /\ [entry EXCEPT ![i].pins = @ + Pinned(c)] \in Entries
         /\ \A k \in Id : [entry EXCEPT ![i].pins = @ + Pinned(c)][k].phase = entry[k].phase
<1> DEFINE f == [entry EXCEPT ![i].pins = @ + Pinned(c)]
<1>1. entry \in [Id -> EntryRecord] /\ Pinned(c) \in Int
  BY DEF Entries, Pinned
<1>2. f[i] = [entry[i] EXCEPT !.pins = @ + Pinned(c)] /\ \A k \in Id \ {i} : f[k] = entry[k]
  BY <1>1
<1>3. [entry[i] EXCEPT !.pins = @ + Pinned(c)] \in EntryRecord
  BY <1>1 DEF EntryRecord
<1>4. [entry[i] EXCEPT !.pins = @ + Pinned(c)].phase = entry[i].phase
  BY <1>1 DEF EntryRecord
<1>5. f \in [Id -> EntryRecord]
  BY <1>1, <1>3
<1> QED
  BY <1>2, <1>4, <1>5 DEF Entries

GivenRecord(i, pc, view) == [pc |-> pc, on |-> i, holds |-> TRUE, view |-> view]

(* A call is given an entry.                                               *)
LEMMA GivenFacts ==
  ASSUME call \in Calls, Placed(call), NEW c \in Caller, NEW i \in Id,
         NEW pc \in {"loading", "loaded"}, NEW view \in Nat, Given(c, i, pc, view)
  PROVE  /\ call' \in Calls /\ Placed(call') /\ call'[c].pc = pc /\ call'[c].on = i
         /\ \A d \in Caller \ {c} : call'[d] = call[d]
         /\ \A d \in Caller : Quiet(call[d], call'[d])
<1> DEFINE r == GivenRecord(i, pc, view)
<1>1. r \in CallRecord /\ r.pc = pc /\ r.on = i
  BY DEF CallRecord, CallPoint, GivenRecord
<1>2. call' = Put(call, c, r)
  BY DEF Given, Put, GivenRecord
<1>3. Sited(r)
  BY <1>1 DEF Sited
<1> HIDE DEF r
<1>4. /\ call' \in Calls /\ call'[c] = r /\ Placed(call')
      /\ \A d \in Caller \ {c} : call'[d] = call[d]
  BY <1>1, <1>2, <1>3, PutFacts
<1>5. \A d \in Caller : Quiet(call[d], call'[d])
  BY <1>1, <1>4 DEF Quiet
<1> QED
  BY <1>1, <1>4, <1>5

(* entryFor, by a call that does not wait for an operation.                *)
LEMMA EnterStep ==
  ASSUME IInv, NEW c \in Caller, NEW i \in Id, call[c].pc \in {"idle", "again"}, Enter(c, i)
  PROVE  IInv'
<1> DEFINE f == [entry EXCEPT ![i].pins = @ + Pinned(c)]
           job == Job("load", {c})
<1>1. revision' = revision /\ damaged' = damaged
  BY DEF Enter, storage
<1>2. /\ Good(entry, chain, call, revision, damaged) /\ call \in Calls /\ Placed(call)
      /\ chain \in Chains /\ entry \in Entries /\ JobsOK(chain, call) /\ ChainOK(chain, entry)
  BY DEF IInv, Good
<1>3. call[c].pc \notin Waits
  BY DEF Waits
<1>4. f \in Entries /\ \A k \in Id : f[k].phase = entry[k].phase
  BY <1>2, PinFacts
<1> HIDE DEF f
<1>5. \/ entry' = entry /\ call' = Ends({c}) /\ chain' = chain
      \/ /\ entry[i].phase = "absent"
         /\ entry' = [entry EXCEPT ![i] = [NoEntry EXCEPT !.phase = "loading", !.pins = Pinned(c)]]
         /\ chain' = [chain EXCEPT ![i] = Append(@, job)]
         /\ Given(c, i, "loading", 0)
      \/ /\ entry' = f /\ chain' = [chain EXCEPT ![i] = AlsoFor(c, @)]
         /\ Given(c, i, "loading", 0)
      \/ entry' = f /\ chain' = chain /\ Given(c, i, "loaded", entry[i].source)
  BY DEF Enter, Keep, pool, Queue, f
<1>6. CASE entry' = entry /\ call' = Ends({c}) /\ chain' = chain
  <2>1. Good(entry, chain, Ends({c}), revision, damaged)
    BY <1>3, EndsOne
  <2> QED  BY <1>1, <1>6, <2>1 DEF IInv
<1>7. CASE /\ entry[i].phase = "absent"
           /\ entry' = [entry EXCEPT ![i] = [NoEntry EXCEPT !.phase = "loading", !.pins = Pinned(c)]]
           /\ chain' = [chain EXCEPT ![i] = Append(@, job)]
           /\ Given(c, i, "loading", 0)
  <2>1. /\ call' \in Calls /\ Placed(call') /\ call'[c].pc = "loading" /\ call'[c].on = i
        /\ \A d \in Caller \ {c} : call'[d] = call[d]
        /\ \A d \in Caller : Quiet(call[d], call'[d])
    BY <1>2, <1>7, GivenFacts
  <2>2. job \in JobRecord /\ job.kind = "load" /\ job.who = {c}
    BY JobFacts
  <2> HIDE DEF job
  <2>3. Asking(call, call', job, i) /\ Steady(call, call', job.who)
    BY <1>3, <2>1, <2>2 DEF Asking, Asked, Steady, Unasked
  <2>4. ~Begun(job.kind)
    BY <2>2 DEF Begun
  <2>5. chain' \in Chains /\ JobsOK(chain', call')
    BY <1>2, <1>7, <2>2, <2>3, <2>4, Queued
  <2>6. /\ entry' \in Entries /\ entry'[i].phase = "loading" /\ \A k \in Id \ {i} : entry'[k] = entry[k]
    <3> DEFINE g == [NoEntry EXCEPT !.phase = "loading", !.pins = Pinned(c)]
    <3>3. NoEntry \in EntryRecord
      BY DEF NoEntry, EntryRecord, Phase
    <3>4. Pinned(c) \in Int
      BY DEF Pinned
    <3>1. g \in EntryRecord /\ g.phase = "loading"
      BY <3>3, <3>4 DEF EntryRecord, Phase
    <3> HIDE DEF g
    <3>2. entry' = [entry EXCEPT ![i] = g]
      BY <1>7 DEF g
    <3> QED  BY <1>2, <3>1, <3>2 DEF Entries
  <2>7. ChainOK(chain', entry')
    <3>1. chain \in Chains /\ ChainOK(chain, entry) /\ entry[i].phase = "absent"
      BY <1>2, <1>7
    <3>2. chain' = [chain EXCEPT ![i] = Append(@, job)]
      BY <1>7
    <3> QED  BY ONLY <2>2, <2>6, <3>1, <3>2, i \in Id, QueuedLoad
  <2>8. ReservedOK(entry', call', revision, damaged)
    <3>1. ReservedOK(entry, call, revision, damaged)
      BY <1>2 DEF Good
    <3>2. \A d \in Caller : Exclusive(call[d]) => call[d].on # i
      BY <1>2, <1>7, NoneReserved
    <3>3. \A d \in Caller : Exclusive(call[d]) => call[d].on \in Id
      BY <1>2 DEF Placed, Sited, Exclusive
    <3>4. \A d \in Caller : Exclusive(call[d]) => entry'[call[d].on].phase = entry[call[d].on].phase
      BY <2>6, <3>2, <3>3
    <3> QED  BY <2>1, <3>1, <3>4, StillReserved
  <2> QED  BY <1>1, <1>2, <2>1, <2>5, <2>6, <2>7, <2>8 DEF IInv, Good
<1>8. CASE /\ entry' = f /\ chain' = [chain EXCEPT ![i] = AlsoFor(c, @)]
           /\ Given(c, i, "loading", 0)
  <2>1. /\ call' \in Calls /\ Placed(call') /\ call'[c].pc = "loading" /\ call'[c].on = i
        /\ \A d \in Caller \ {c} : call'[d] = call[d]
    BY <1>2, <1>8, GivenFacts
  <2>2. Good(entry, chain', call', revision, damaged)
    <3>1. Waiting(call, call', c, i)
      BY <1>3, <2>1 DEF Waiting
    <3> QED  BY <1>2, <1>8, <2>1, <3>1, Joined
  <2>3. Good(f, chain', call', revision, damaged)
    BY <1>4, <2>2, EntriesChange
  <2> QED  BY <1>1, <1>8, <2>3 DEF IInv
<1>9. CASE entry' = f /\ chain' = chain /\ Given(c, i, "loaded", entry[i].source)
  <2>1. entry[i].source \in Nat
    BY <1>2 DEF Entries, EntryRecord
  <2>2. /\ call' \in Calls /\ Placed(call')
        /\ \A d \in Caller \ {c} : call'[d] = call[d]
        /\ \A d \in Caller : Quiet(call[d], call'[d])
    BY <1>2, <1>9, <2>1, GivenFacts
  <2>3. \A d \in Caller : Unasked(call[d], call'[d])
    BY <1>3, <2>2 DEF Unasked
  <2>4. Good(entry, chain, call', revision, damaged)
    BY <1>2, <2>2, <2>3, CallsChange
  <2>5. Good(f, chain, call', revision, damaged)
    BY <1>4, <2>4, EntriesChange
  <2> QED  BY <1>1, <1>9, <2>5 DEF IInv
<1> QED
  BY <1>5, <1>6, <1>7, <1>8, <1>9

(* Call keeps the invariant.                                               *)
LEMMA CallStep == ASSUME IInv, NEW c \in Caller, Call(c) PROVE IInv'
<1>1. CASE call[c].pc = "idle" /\ \E i \in Id : Enter(c, i)
  BY <1>1, EnterStep
<1>2. CASE call[c].pc = "again" /\ Enter(c, call[c].on)
  <2>1. call[c].on \in Id
    BY <1>2 DEF IInv, Good, Placed, Sited
  <2> QED  BY <1>2, <2>1, EnterStep
<1> QED
  BY <1>1, <1>2 DEF Call

-----------------------------------------------------------------------------
(* So does a step that changes nothing.                                    *)
LEMMA StutterStep == ASSUME IInv, UNCHANGED vars PROVE IInv'
  BY DEF IInv, vars, pool, storage

(* The invariant holds in the beginning.                                   *)
LEMMA InitGood == Init => IInv
<1> SUFFICES ASSUME Init PROVE IInv
  OBVIOUS
<1>1. NoEntry \in EntryRecord /\ NoEntry.phase = "absent"
  BY DEF NoEntry, EntryRecord, Phase
<1>2. entry \in Entries /\ revision \in [Id -> Nat]
  BY <1>1 DEF Init, Entries
<1>3. damaged \in [Id -> BOOLEAN]
  BY DEF Init
<1>4. chain \in Chains /\ \A i \in Id : chain[i] = <<>>
  BY DEF Init, Chains
<1>5. At("idle") \in CallRecord /\ At("idle").pc = "idle"
  BY DEF At, CallRecord, CallPoint
<1>6. call \in Calls /\ \A c \in Caller : call[c].pc = "idle"
  BY <1>5 DEF Init, Calls
<1>7. Placed(call)
  BY <1>6 DEF Placed, Sited
<1>8. JobsOK(chain, call) /\ ChainOK(chain, entry)
  BY <1>4 DEF JobsOK, ChainOK
<1>9. ReservedOK(entry, call, revision, damaged)
  BY <1>6 DEF ReservedOK, Exclusive
<1> QED
  BY <1>2, <1>3, <1>4, <1>6, <1>7, <1>8, <1>9 DEF IInv, Good

(* Every storage operation keeps the invariant.                            *)
LEMMA StorageStep == ASSUME IInv, NEW i \in Id, Storage(i) \/ ForeignWrite(i) PROVE IInv'
  BY LoadStep, LoadFailsStep, CommitStep, CommitAgainStep, CommitFailsStep, CheckStep,
     CheckFailsStep, SkipStep, BeginAppendStep, AdoptStep, AdoptFailsStep, EndAppendStep, AppendFailsStep,
     ForeignWriteStep DEF Storage

(* Every step of a caller keeps the invariant.                             *)
LEMMA CallerStep ==
  ASSUME IInv, NEW c \in Caller,
         \/ Call(c) \/ Reserve(c) \/ Borrow(c) \/ Finish(c) \/ Dispose(c) \/ CallAppend(c)
         \/ AbortLoading(c) \/ AbortWaiting(c) \/ AbortCommit(c) \/ AbortCheck(c)
  PROVE  IInv'
  BY CallStep, ReserveStep, BorrowStep, FinishStep, DisposeStep, CallAppendStep,
     AbortLoadingStep, AbortWaitingStep, AbortCommitStep, AbortCheckStep

(* Every step keeps the invariant.                                         *)
LEMMA NextStep == IInv /\ [Next]_vars => IInv'
<1> SUFFICES ASSUME IInv, [Next]_vars PROVE IInv'
  OBVIOUS
<1>1. CASE \E i \in Id : Storage(i) \/ ForeignWrite(i)
  BY <1>1, StorageStep
<1>2. CASE \E c \in Caller :
       \/ Call(c) \/ Reserve(c) \/ Borrow(c) \/ Finish(c) \/ Dispose(c) \/ CallAppend(c)
       \/ AbortLoading(c) \/ AbortWaiting(c) \/ AbortCommit(c) \/ AbortCheck(c)
  BY <1>2, CallerStep
<1>3. CASE UNCHANGED vars
  BY <1>3, StutterStep
<1> QED
  BY <1>1, <1>2, <1>3 DEF Next

(* The invariant says of a reservation what the property asks.             *)
LEMMA ReservedFromGood == IInv => ReservedIsCurrent
<1> SUFFICES ASSUME IInv, NEW c \in Preparer, call[c].pc = "reserved"
             PROVE  /\ call[c].holds /\ entry[call[c].on].phase = "reserved"
                    /\ call[c].view = revision[call[c].on] /\ ~damaged[call[c].on]
                    /\ \A kind \in {"adopting", "appending"} : ~Runs(call[c].on, kind)
                    /\ \A d \in Preparer : call[d].pc = "reserved" /\ call[d].on = call[c].on => d = c
  BY DEF ReservedIsCurrent
<1>1. Preparer \subseteq Caller /\ c \in Caller
  BY DEF Caller
<1>2. /\ call[c].holds /\ call[c].view = revision[call[c].on] /\ ~damaged[call[c].on]
  BY <1>1 DEF IInv, Good, ReservedOK
<1>3. Exclusive(call[c])
  BY <1>2 DEF Exclusive
<1>4. /\ entry[call[c].on].phase = "reserved"
      /\ \A d \in Caller : call[d].pc = "reserved" => d = c \/ call[d].on # call[c].on
  BY <1>1, <1>3, OneExclusive
<1>5. call[c].on \in Id
  BY <1>1 DEF IInv, Good, Placed, Sited
<1>6. \A kind \in {"adopting", "appending"} : ~Runs(call[c].on, kind)
  BY <1>4, <1>5, RunningFacts DEF Begun
<1> QED
  BY <1>1, <1>2, <1>4, <1>6

(* Whoever has a reservation has it alone, for the log as it is (reserve,  *)
(* commitPrepared, assertWritable): with any number of callers and         *)
(* sessions, any capacity and any writes of other processes.               *)
THEOREM ReservedIsCurrentAlways == Spec => []ReservedIsCurrent
<1> QED
  BY InitGood, NextStep, ReservedFromGood, PTL DEF Spec

-----------------------------------------------------------------------------
(* Leases.                                                                 *)

LeasePoint == {"loading", "loaded", "checking", "leased"}

Lease(r, i)    == r.on = i /\ r.holds /\ r.pc \in LeasePoint
Holders(cs, i) == {c \in Borrower : Lease(cs[c], i)}

(* An entry is pinned by the leases on it.                                 *)
PinnedBy(r, who) ==
  /\ IsFiniteSet(who) /\ r.pins = Cardinality(who)
  /\ r.phase = "absent" => who = {}
Counted(e, cs) == \A i \in Id : PinnedBy(e[i], Holders(cs, i))

(* Beyond its capacity the pool keeps ready entries on lease only.         *)
Roomy(e) ==
  /\ IsFiniteSet(Ready(e))
  /\ Cardinality(Ready(e)) > Capacity => \A i \in Ready(e) : e[i].pins # 0

(* The order has every entry of the pool, once.                            *)
Once(o)       == o \in Seq(Id) /\ \A j, k \in 1 .. Len(o) : o[j] = o[k] => j = k
Has(o, i)     == \E k \in 1 .. Len(o) : o[k] = i
Ordered(e, o) == Once(o) /\ \A i \in Id : Has(o, i) <=> e[i].phase # "absent"

(* Whoever waits for a load that is not the pool's any more has no entry.  *)
Stale(job)    == job.kind = "load" /\ ~job.current
Loose(ch, cs) ==
  \A i \in Id : \A k \in DOMAIN ch[i] : \A c \in ch[i][k].who :
    Stale(ch[i][k]) => ~cs[c].holds

(* Only those who borrow come to have a lease.                             *)
Lent(cs) == \A c \in Caller : cs[c].pc \in {"checking", "leased"} => c \in Borrower

Stock(e, o, cs) == Counted(e, cs) /\ Roomy(e) /\ Ordered(e, o)

Pool == Stock(entry, order, call) /\ Loose(chain, call) /\ Lent(call)

-----------------------------------------------------------------------------
(* The order.                                                              *)

(* Without i, the others keep their order.                                 *)
LEMMA WithoutFacts ==
  ASSUME NEW s, Once(s), NEW i
  PROVE  /\ Once(Without(s, i))
         /\ \A x \in Id : Has(Without(s, i), x) <=> Has(s, x) /\ x # i
<1> DEFINE n == Len(s)
<1>1. s \in Seq(Id) /\ n \in Nat /\ DOMAIN s = 1 .. n
  BY DEF Once
<1>2. CASE ~\E k \in DOMAIN s : s[k] = i
  <2>1. Without(s, i) = s
    BY <1>2 DEF Without
  <2> QED  BY <1>1, <1>2, <2>1 DEF Has
<1>3. CASE \E k \in DOMAIN s : s[k] = i
  <2> DEFINE m == CHOOSE k \in DOMAIN s : s[k] = i
             a == SubSeq(s, 1, m - 1)
             b == SubSeq(s, m + 1, n)
             t == a \o b
             F(k) == IF k < m THEN k ELSE k + 1
  <2>1. m \in 1 .. n /\ s[m] = i
    BY <1>1, <1>3
  <2>2. Without(s, i) = t
    BY <1>3 DEF Without
  <2> HIDE DEF m
  <2>3. a \in Seq(Id) /\ Len(a) = m - 1 /\ \A k \in 1 .. m - 1 : a[k] = s[k]
    BY <1>1, <2>1, SubSeqProperties
  <2>4. b \in Seq(Id) /\ Len(b) = n - m /\ \A k \in 1 .. n - m : b[k] = s[k + m]
    <3>1. m + 1 \in Int /\ n \in Int /\ \A k \in m + 1 .. n : s[k] \in Id
      BY <1>1, <2>1
    <3>2. /\ b \in Seq(Id) /\ Len(b) = IF m + 1 <= n THEN n - (m + 1) + 1 ELSE 0
          /\ \A k \in 1 .. n - (m + 1) + 1 : b[k] = s[(m + 1) + k - 1]
      BY <3>1, SubSeqProperties
    <3>3. Len(b) = n - m /\ n - (m + 1) + 1 = n - m
      <4>1. m \in Int /\ n \in Int /\ m <= n
        BY <1>1, <2>1
      <4> HIDE DEF b, n
      <4>2. CASE m + 1 <= n
        BY <3>2, <4>1, <4>2
      <4>3. CASE ~(m + 1 <= n)
        BY <3>2, <4>1, <4>3
      <4> QED  BY <4>2, <4>3
    <3>4. \A k \in 1 .. n - m : (m + 1) + k - 1 = k + m
      BY <1>1, <2>1
    <3> QED  BY <3>2, <3>3, <3>4
  <2> HIDE DEF a, b, n
  <2>5. t \in Seq(Id) /\ Len(t) = n - 1
    <3>1. t \in Seq(Id) /\ Len(t) = Len(a) + Len(b)
      BY <2>3, <2>4, ConcatProperties
    <3> HIDE DEF t
    <3>2. m \in Int /\ n \in Int
      BY <1>1, <2>1
    <3> QED  BY <2>3, <2>4, <3>1, <3>2
  <2>6. \A k \in 1 .. n - 1 : t[k] = s[F(k)] /\ F(k) \in 1 .. n /\ F(k) # m
    BY <1>1, <2>1, <2>3, <2>4
  <2> HIDE DEF t
  <2>7. Once(t)
    <3>1. \A j, k \in 1 .. n - 1 : F(j) = F(k) => j = k
      BY <1>1, <2>1
    <3> QED  BY <2>5, <2>6, <3>1 DEF Once, n
  <2>8. ASSUME NEW x \in Id, Has(t, x) PROVE Has(s, x) /\ x # i
    <3>1. PICK k \in 1 .. n - 1 : t[k] = x
      BY <2>5, <2>8 DEF Has
    <3>2. F(k) \in 1 .. n /\ s[F(k)] = x /\ F(k) # m
      BY <2>6, <3>1
    <3> QED  BY <2>1, <3>2 DEF Has, Once, n
  <2>9. ASSUME NEW x \in Id, Has(s, x), x # i PROVE Has(t, x)
    <3>1. PICK k \in 1 .. n : s[k] = x
      BY <2>9 DEF Has, n
    <3>2. k # m
      BY <2>1, <2>9, <3>1
    <3>3. \E l \in 1 .. n - 1 : F(l) = k
      <4>1. CASE k < m
        BY <1>1, <2>1, <3>1, <4>1
      <4>2. CASE k > m
        <5>1. k - 1 \in 1 .. n - 1 /\ F(k - 1) = k
          BY <1>1, <2>1, <3>1, <4>2
        <5> QED  BY <5>1
      <4> QED  BY <1>1, <2>1, <3>1, <3>2, <4>1, <4>2
    <3> QED  BY <2>5, <2>6, <3>1, <3>3 DEF Has
  <2> QED  BY <2>2, <2>7, <2>8, <2>9
<1> QED
  BY <1>2, <1>3

(* An entry that is touched is the last in the order.                      *)
LEMMA AppendFacts ==
  ASSUME NEW s, Once(s), NEW i \in Id, ~Has(s, i)
  PROVE  /\ Once(Append(s, i))
         /\ \A x \in Id : Has(Append(s, i), x) <=> Has(s, x) \/ x = i
<1> DEFINE n == Len(s)
           t == Append(s, i)
<1>1. s \in Seq(Id) /\ n \in Nat
  BY DEF Once
<1>2. t \in Seq(Id) /\ Len(t) = n + 1 /\ t[n + 1] = i /\ \A k \in 1 .. n : t[k] = s[k]
  BY <1>1
<1> HIDE DEF t, n
<1>3. \A k \in 1 .. n : s[k] # i
  BY DEF Has, n
<1>4. \A k \in 1 .. n + 1 : k \in 1 .. n \/ k = n + 1
  BY <1>1
<1>5. \A k \in 1 .. n : k \in 1 .. n + 1
  BY <1>1
<1>6. n + 1 \in 1 .. n + 1
  BY <1>1
<1>7. Once(t)
  <2>1. ASSUME NEW j \in 1 .. n + 1, NEW k \in 1 .. n + 1, t[j] = t[k] PROVE j = k
    <3>1. CASE j \in 1 .. n /\ k \in 1 .. n
      BY <1>2, <2>1, <3>1 DEF Once, n
    <3> QED  BY <1>2, <1>3, <1>4, <2>1, <3>1
  <2> QED  BY <1>2, <2>1 DEF Once
<1>8. \A x \in Id : Has(t, x) <=> Has(s, x) \/ x = i
  <2>1. \A x : Has(s, x) <=> \E k \in 1 .. n : s[k] = x
    BY DEF Has, n
  <2>2. \A x : Has(t, x) <=> \E k \in 1 .. n + 1 : t[k] = x
    BY <1>2 DEF Has
  <2> QED  BY <1>2, <1>4, <1>5, <1>6, <2>1, <2>2
<1> QED
  BY <1>7, <1>8 DEF t

(* Some index is the least of those that satisfy a condition.              *)
LEMMA Least ==
  ASSUME NEW T, T \subseteq Nat, T # {}
  PROVE  \E m \in T : \A k \in T : m <= k
<1> DEFINE Below == {ss \in Nat \X Nat : ss[1] < ss[2]}
<1>1. IsWellFoundedOn(Below, Nat)
  BY NatLessThanWellFounded DEF OpToRel
<1>2. \A k, m \in Nat : k < m => <<k, m>> \in Below
  OBVIOUS
<1> HIDE DEF Below
<1>3. PICK m \in T : \A k \in T : <<k, m>> \notin Below
  BY <1>1, WFMin
<1>4. \A k \in T : k \in Nat /\ m \in Nat /\ ~(k < m)
  BY <1>2, <1>3
<1> QED
  BY <1>4

(* Beyond the capacity one entry is evicted, unless all are on lease.      *)
LEMMA EvictedFacts ==
  ASSUME NEW o, NEW e, Ordered(e, o)
  PROVE  \/ /\ Evicted(o, e) = {}
            /\ Cardinality(Ready(e)) > Capacity => \A i \in Ready(e) : e[i].pins # 0
         \/ \E x \in Ready(e) : /\ Evicted(o, e) = {x} /\ e[x].pins = 0
                                /\ Cardinality(Ready(e)) > Capacity
<1> DEFINE n == Len(o)
           T == {k \in 1 .. n : Evictable(e, o[k])}
<1>1. o \in Seq(Id) /\ n \in Nat /\ DOMAIN o = 1 .. n
  BY DEF Ordered, Once
<1>2. Evicted(o, e) = {o[k] : k \in {k \in 1 .. n :
         /\ Cardinality(Ready(e)) > Capacity
         /\ Evictable(e, o[k])
         /\ \A j \in 1 .. n : Evictable(e, o[j]) => k <= j}}
  BY <1>1 DEF Evicted
<1> HIDE DEF n
<1>3. CASE ~(Cardinality(Ready(e)) > Capacity)
  BY <1>2, <1>3
<1>4. CASE Cardinality(Ready(e)) > Capacity /\ T = {}
  <2>1. Evicted(o, e) = {}
    BY <1>2, <1>4
  <2>2. ASSUME NEW i \in Ready(e), e[i].pins = 0 PROVE FALSE
    <3>1. i \in Id /\ e[i].phase = "ready"
      BY DEF Ready
    <3>2. Has(o, i)
      BY <3>1 DEF Ordered
    <3>3. PICK k \in 1 .. n : o[k] = i
      BY <3>2 DEF Has, n
    <3> QED  BY <1>4, <2>2, <3>1, <3>3 DEF Evictable
  <2> QED  BY <2>1, <2>2
<1>5. CASE Cardinality(Ready(e)) > Capacity /\ T # {}
  <2>1. T \subseteq Nat
    BY <1>1
  <2>2. PICK m \in T : \A k \in T : m <= k
    BY <1>5, <2>1, Least
  <2>3. m \in 1 .. n /\ Evictable(e, o[m]) /\ \A j \in 1 .. n : Evictable(e, o[j]) => m <= j
    BY <2>2
  <2>4. ASSUME NEW k \in 1 .. n, Evictable(e, o[k]), \A j \in 1 .. n : Evictable(e, o[j]) => k <= j
        PROVE  k = m
    <3>1. k <= m /\ m <= k /\ k \in Nat /\ m \in Nat
      BY <1>1, <2>3, <2>4
    <3> QED  BY <3>1
  <2>5. Evicted(o, e) = {o[m]}
    BY <1>2, <1>5, <2>3, <2>4
  <2>6. o[m] \in Ready(e) /\ e[o[m]].pins = 0
    BY <1>1, <2>3 DEF Evictable, Ready
  <2> QED  BY <1>5, <2>5, <2>6
<1> QED
  BY <1>3, <1>4, <1>5

-----------------------------------------------------------------------------
(* Leases and pins.                                                        *)

(* The leases on i of the calls cs go on in ds.                            *)
Level(cs, ds, i) == \A c \in Borrower : Lease(ds[c], i) <=> Lease(cs[c], i)

(* Then they are the same ones.                                            *)
LEMMA LevelHolders ==
  ASSUME NEW cs, NEW ds, NEW i, Level(cs, ds, i)
  PROVE  Holders(ds, i) = Holders(cs, i)
  BY DEF Level, Holders

(* An entry that leaves takes the leases on it.                            *)
LEMMA LosingHolders ==
  ASSUME NEW cs \in Calls, NEW gone, NEW i
  PROVE  /\ i \in gone => Holders(Losing(cs, gone), i) = {}
         /\ i \notin gone => Level(cs, Losing(cs, gone), i)
<1>1. Borrower \subseteq Caller
  BY DEF Caller
<1>2. \A c \in Caller :
        /\ Losing(cs, gone)[c].pc = cs[c].pc /\ Losing(cs, gone)[c].on = cs[c].on
        /\ Losing(cs, gone)[c].holds => cs[c].holds /\ cs[c].on \notin gone
        /\ cs[c].on \notin gone => Losing(cs, gone)[c] = cs[c]
  BY LosingFacts
<1>3. \A c \in Borrower : Lease(Losing(cs, gone)[c], i) <=> Lease(cs[c], i) /\ i \notin gone
  BY <1>1, <1>2 DEF Lease
<1> QED
  BY <1>3 DEF Holders, Level

-----------------------------------------------------------------------------
(* What the pool's own steps keep.                                         *)

(* An entry that is touched is the youngest, and the order has it still.   *)
LEMMA TouchedOrder ==
  ASSUME NEW e, NEW i \in Id, Ordered(entry, order), entry[i].phase # "absent",
         e[i].phase # "absent", \A k \in Id \ {i} : e[k] = entry[k]
  PROVE  Ordered(e, Append(Without(order, i), i))
<1> DEFINE w == Without(order, i)
<1>1. Once(order) /\ \A k \in Id : Has(order, k) <=> entry[k].phase # "absent"
  BY DEF Ordered
<1>2. Once(w) /\ \A k \in Id : Has(w, k) <=> Has(order, k) /\ k # i
  BY <1>1, WithoutFacts
<1> HIDE DEF w
<1>3. Once(Append(w, i)) /\ \A k \in Id : Has(Append(w, i), k) <=> Has(w, k) \/ k = i
  BY <1>2, AppendFacts
<1>4. \A k \in Id : Has(Append(w, i), k) <=> e[k].phase # "absent"
  BY <1>1, <1>2, <1>3
<1> QED
  BY <1>3, <1>4 DEF Ordered, w

(* More than the capacity is ready only as long as all of it is on lease.  *)
LEMMA TouchedRoom ==
  ASSUME NEW e, NEW i \in Id, Roomy(entry), \A k \in Id \ {i} : e[k] = entry[k]
  PROVE  /\ IsFiniteSet(Ready(e)) /\ Cardinality(Ready(e)) \in Nat
         /\ \A x \in Ready(e) :
              /\ IsFiniteSet(Ready(e) \ {x})
              /\ e[x].pins = 0 /\ Cardinality(Ready(e) \ {x}) > Capacity =>
                   \A k \in Ready(e) \ {x} : e[k].pins # 0
<1> DEFINE R == Ready(entry)
           n == Cardinality(R)
<1>1. Ready(e) \subseteq R \cup {i} /\ \A k \in Ready(e) : k # i => k \in R /\ e[k] = entry[k]
  BY DEF Ready
<1>2. IsFiniteSet(R) /\ n \in Nat
  BY FS_CardinalityType DEF Roomy
<1>3. IsFiniteSet(R \cup {i}) /\ Cardinality(R \cup {i}) <= n + 1
  <2>1. IsFiniteSet(R \cup {i}) /\ Cardinality(R \cup {i}) = IF i \in R THEN n ELSE n + 1
    BY <1>2, FS_AddElement
  <2> QED  BY <1>2, <2>1
<1>4. IsFiniteSet(Ready(e)) /\ Cardinality(Ready(e)) <= Cardinality(R \cup {i})
  BY <1>1, <1>3, FS_Subset
<1>5. Cardinality(Ready(e)) \in Nat /\ Cardinality(R \cup {i}) \in Nat
  BY <1>3, <1>4, FS_CardinalityType
<1>6. ASSUME NEW x \in Ready(e)
      PROVE  /\ IsFiniteSet(Ready(e) \ {x})
             /\ e[x].pins = 0 /\ Cardinality(Ready(e) \ {x}) > Capacity =>
                  \A k \in Ready(e) \ {x} : e[k].pins # 0
  <2>1. IsFiniteSet(Ready(e) \ {x}) /\ Cardinality(Ready(e) \ {x}) = Cardinality(Ready(e)) - 1
    BY <1>4, FS_RemoveElement
  <2>2. ASSUME e[x].pins = 0, Cardinality(Ready(e) \ {x}) > Capacity, NEW k \in Ready(e) \ {x}
        PROVE  e[k].pins # 0
    <3>1. n > Capacity
      <4> HIDE DEF n
      <4>1. Capacity \in Nat
        BY BoundsAssumption
      <4> QED  BY <1>2, <1>3, <1>4, <1>5, <2>1, <2>2, <4>1
    <3>2. \A j \in R : entry[j].pins # 0
      BY <3>1 DEF Roomy
    <3>3. x = i
      BY <1>1, <2>2, <3>2
    <3> QED  BY <1>1, <3>2, <3>3
  <2> QED  BY <2>1, <2>2
<1> QED
  BY <1>4, <1>5, <1>6

(* Nobody loses a lease to the step from the entries e to f.               *)
Spared(e, f, cs) ==
  \A k \in Id : e[k].phase # "absent" /\ f[k].phase = "absent" => Holders(cs, k) = {}

(* An entry leaves the pool that is on no lease.                           *)
LEMMA CountedAfter ==
  ASSUME NEW e, NEW f, NEW cs \in Calls, NEW gone, Counted(e, cs),
         \A k \in Id : f[k] = IF k \in gone THEN NoEntry ELSE e[k]
  PROVE  Counted(f, Losing(cs, gone))
<1> DEFINE ds == Losing(cs, gone)
<1>1. ASSUME NEW k \in Id, k \in gone
      PROVE  f[k] = NoEntry /\ Holders(ds, k) = {}
  BY <1>1, LosingHolders
<1>2. ASSUME NEW k \in Id, k \notin gone
      PROVE  f[k] = e[k] /\ Holders(ds, k) = Holders(cs, k)
  BY <1>2, LosingHolders, LevelHolders
<1> HIDE DEF ds
<1>3. NoEntry.pins = 0
  BY DEF NoEntry
<1>4. ASSUME NEW k \in Id
      PROVE  PinnedBy(f[k], Holders(ds, k))
  <2>1. CASE k \in gone
    BY <1>1, <1>3, <2>1, FS_EmptySet DEF PinnedBy
  <2>2. CASE k \notin gone
    BY <1>2, <2>2 DEF Counted
  <2> QED  BY <2>1, <2>2
<1> QED
  BY <1>4 DEF Counted, ds

(* A touch keeps the pool within its capacity but for leases, and evicts   *)
(* no entry on lease.                                                      *)
LEMMA Touched ==
  ASSUME NEW e, NEW i \in Id, NEW cs \in Calls,
         Roomy(entry), Ordered(entry, order), entry[i].phase # "absent",
         e[i].phase = "ready", \A k \in Id \ {i} : e[k] = entry[k],
         Counted(e, cs), Touch(e, i, cs)
  PROVE  Stock(entry', order', call') /\ Spared(e, entry', cs)
<1> DEFINE o   == Append(Without(order, i), i)
           out == Evicted(o, e)
<1>1. /\ entry' = [k \in Id |-> IF k \in out THEN NoEntry ELSE e[k]]
      /\ order' = IF out = {} THEN o ELSE Without(o, CHOOSE k \in out : TRUE)
      /\ call' = Losing(cs, out)
  BY DEF Touch
<1>2. Ordered(e, o)
  BY TouchedOrder
<1> HIDE DEF o
<1>3. \/ /\ out = {}
         /\ Cardinality(Ready(e)) > Capacity => \A k \in Ready(e) : e[k].pins # 0
      \/ \E x \in Ready(e) : /\ out = {x} /\ e[x].pins = 0
                             /\ Cardinality(Ready(e)) > Capacity
  BY <1>2, EvictedFacts
<1> HIDE DEF out
<1>4. \A k \in Id : entry'[k] = IF k \in out THEN NoEntry ELSE e[k]
  BY <1>1
<1>5. Counted(entry', call')
  BY <1>1, <1>4, CountedAfter
<1>6. /\ IsFiniteSet(Ready(e))
      /\ \A x \in Ready(e) :
           /\ IsFiniteSet(Ready(e) \ {x})
           /\ e[x].pins = 0 /\ Cardinality(Ready(e) \ {x}) > Capacity =>
                \A k \in Ready(e) \ {x} : e[k].pins # 0
  BY TouchedRoom
<1>7. NoEntry.phase = "absent"
  BY DEF NoEntry
<1>8. CASE /\ out = {}
           /\ Cardinality(Ready(e)) > Capacity => \A k \in Ready(e) : e[k].pins # 0
  <2>1. order' = o /\ \A k \in Id : entry'[k] = e[k]
    BY <1>1, <1>4, <1>8
  <2>2. Ready(entry') = Ready(e) /\ \A k \in Ready(e) : entry'[k] = e[k]
    BY <2>1 DEF Ready
  <2>3. Roomy(entry')
    BY <1>6, <1>8, <2>2 DEF Roomy
  <2>4. Ordered(entry', order')
    BY <1>2, <2>1 DEF Ordered
  <2>5. Spared(e, entry', cs)
    BY <2>1 DEF Spared
  <2> QED  BY <1>5, <2>3, <2>4, <2>5 DEF Stock
<1>9. CASE \E x \in Ready(e) : /\ out = {x} /\ e[x].pins = 0
                               /\ Cardinality(Ready(e)) > Capacity
  <2>1. PICK x \in Ready(e) : out = {x} /\ e[x].pins = 0
    BY <1>9
  <2>2. x \in Id /\ entry'[x] = NoEntry /\ \A k \in Id \ {x} : entry'[k] = e[k]
    BY <1>4, <2>1 DEF Ready
  <2>3. Ready(entry') = Ready(e) \ {x} /\ \A k \in Ready(e) \ {x} : entry'[k] = e[k]
    BY <1>7, <2>2 DEF Ready
  <2>4. Roomy(entry')
    BY <1>6, <2>1, <2>3 DEF Roomy
  <2>5. order' = Without(o, x)
    BY <1>1, <2>1
  <2>6. Once(order') /\ \A k \in Id : Has(order', k) <=> Has(o, k) /\ k # x
    BY <1>2, <2>5, WithoutFacts DEF Ordered
  <2>7. Ordered(entry', order')
    BY <1>2, <1>7, <2>2, <2>6 DEF Ordered
  <2>8. Holders(cs, x) = {}
    <3>1. IsFiniteSet(Holders(cs, x)) /\ Cardinality(Holders(cs, x)) = 0
      <4>1. PinnedBy(e[x], Holders(cs, x))
        BY <2>2 DEF Counted
      <4> QED  BY <2>1, <4>1 DEF PinnedBy
    <3> QED  BY <3>1, FS_EmptySet
  <2>9. Spared(e, entry', cs)
    BY <2>2, <2>8 DEF Spared
  <2> QED  BY <1>5, <2>4, <2>7, <2>9 DEF Stock
<1> QED
  BY <1>3, <1>8, <1>9

(* An entry that is removed leaves the others as they are.                 *)
LEMMA Removed ==
  ASSUME NEW i \in Id, NEW jobs, NEW cs \in Calls, entry \in Entries, Stock(entry, order, call),
         \A j \in Id \ {i} : Level(call, cs, j), Remove(i, jobs, cs)
  PROVE  Stock(entry', order', call') /\ \A k \in Id \ {i} : entry'[k] = entry[k]
<1>1. /\ entry' = [entry EXCEPT ![i] = NoEntry] /\ order' = Without(order, i)
      /\ call' = Losing(cs, {i})
  BY DEF Remove
<1>2. entry'[i] = NoEntry /\ \A k \in Id \ {i} : entry'[k] = entry[k]
  BY <1>1 DEF Entries
<1>3. Holders(call', i) = {}
  BY <1>1, LosingHolders
<1>4. ASSUME NEW k \in Id \ {i} PROVE Holders(call', k) = Holders(call, k)
  <2>1. Holders(call', k) = Holders(cs, k)
    BY <1>1, LosingHolders, LevelHolders
  <2> QED  BY <2>1, LevelHolders
<1>5. NoEntry.phase = "absent" /\ NoEntry.pins = 0
  BY DEF NoEntry
<1>6. Counted(entry', call')
  <2>1. ASSUME NEW k \in Id
        PROVE  PinnedBy(entry'[k], Holders(call', k))
    <3>1. CASE k = i
      BY <1>2, <1>3, <1>5, <3>1, FS_EmptySet DEF PinnedBy
    <3>2. CASE k # i
      BY <1>2, <1>4, <3>2 DEF Stock, Counted
    <3> QED  BY <3>1, <3>2
  <2> QED  BY <2>1 DEF Counted
<1>7. Roomy(entry')
  <2>1. Ready(entry') = Ready(entry) \ {i} /\ \A k \in Ready(entry') : entry'[k] = entry[k]
    BY <1>2, <1>5 DEF Ready
  <2>2. IsFiniteSet(Ready(entry)) /\ Cardinality(Ready(entry)) > Capacity =>
          \A k \in Ready(entry) : entry[k].pins # 0
    BY DEF Stock, Roomy
  <2>3. IsFiniteSet(Ready(entry)) /\ IsFiniteSet(Ready(entry'))
        /\ Cardinality(Ready(entry')) <= Cardinality(Ready(entry))
    BY <2>1, FS_Subset DEF Stock, Roomy
  <2>4. Cardinality(Ready(entry')) > Capacity => Cardinality(Ready(entry)) > Capacity
    <3>1. /\ Cardinality(Ready(entry)) \in Nat /\ Cardinality(Ready(entry')) \in Nat
          /\ Capacity \in Nat
      BY <2>3, FS_CardinalityType, BoundsAssumption
    <3> QED  BY <2>3, <3>1
  <2> QED  BY <2>1, <2>2, <2>3, <2>4 DEF Roomy
<1>8. Ordered(entry', order')
  <2>1. Once(order') /\ \A k \in Id : Has(order', k) <=> Has(order, k) /\ k # i
    BY <1>1, WithoutFacts DEF Stock, Ordered
  <2> QED  BY <1>2, <1>5, <2>1 DEF Stock, Ordered
<1> QED
  BY <1>2, <1>6, <1>7, <1>8 DEF Stock

-----------------------------------------------------------------------------
(* Loads that are not the pool's any more.                                 *)

(* No call comes to have an entry.                                         *)
Poorer(cs, ds) == \A c \in Caller : ds[c].holds => cs[c].holds

(* The chains dh have only stale loads of ch.                              *)
NoStaler(ch, dh) ==
  \A i \in Id : \A k \in DOMAIN dh[i] : Stale(dh[i][k]) =>
    \E l \in DOMAIN ch[i] : Stale(ch[i][l]) /\ dh[i][k].who \subseteq ch[i][l].who

(* Their callers have no entry then.                                       *)
LEMMA LooseAfter ==
  ASSUME NEW ch, NEW dh \in Chains, NEW cs, NEW ds,
         Loose(ch, cs), NoStaler(ch, dh), Poorer(cs, ds)
  PROVE  Loose(dh, ds)
<1>1. ASSUME NEW i \in Id, NEW k \in DOMAIN dh[i], NEW c \in dh[i][k].who, Stale(dh[i][k])
      PROVE  ~ds[c].holds
  <2>1. c \in Caller
    BY JobAt
  <2>2. PICK l \in DOMAIN ch[i] : Stale(ch[i][l]) /\ c \in ch[i][l].who
    BY <1>1 DEF NoStaler
  <2>3. ~cs[c].holds
    BY <2>2 DEF Loose
  <2> QED  BY <2>1, <2>3 DEF Poorer
<1> QED
  BY <1>1 DEF Loose

(* The running operation ends.                                             *)
LEMMA TailStale ==
  ASSUME NEW ch \in Chains, NEW i \in Id, ch[i] # <<>>,
         NEW dh, dh = [ch EXCEPT ![i] = Tail(ch[i])]
  PROVE  NoStaler(ch, dh)
<1> DEFINE n == Len(ch[i])
           t == Tail(ch[i])
<1>1. ch[i] \in Seq(JobRecord) /\ n \in Nat \ {0} /\ DOMAIN ch[i] = 1 .. n
  BY DEF Chains
<1>2. t \in Seq(JobRecord) /\ Len(t) = n - 1 /\ \A k \in 1 .. n - 1 : t[k] = ch[i][k + 1]
  BY <1>1
<1>3. DOMAIN t = 1 .. n - 1
  BY <1>2
<1>4. dh[i] = t /\ \A j \in Id \ {i} : dh[j] = ch[j]
  BY DEF Chains
<1> HIDE DEF t, n
<1>5. ASSUME NEW j \in Id, NEW k \in DOMAIN dh[j]
      PROVE  \E l \in DOMAIN ch[j] : dh[j][k] = ch[j][l]
  <2>1. CASE j = i
    <3>1. k \in 1 .. n - 1
      BY <1>3, <1>4, <2>1
    <3>2. k + 1 \in 1 .. n
      BY <1>1, <3>1
    <3> QED  BY <1>1, <1>2, <1>4, <2>1, <3>1, <3>2
  <2>2. CASE j # i
    BY <1>4, <2>2
  <2> QED  BY <2>1, <2>2
<1> QED
  BY <1>5 DEF NoStaler

(* An operation is asked for that is no load.                              *)
LEMMA QueueStale ==
  ASSUME NEW ch \in Chains, NEW i \in Id, NEW job \in JobRecord, ~Stale(job),
         NEW dh, dh = [ch EXCEPT ![i] = Append(@, job)]
  PROVE  NoStaler(ch, dh)
<1>1. \A j \in Id : \A k \in DOMAIN dh[j] :
         \/ k \in DOMAIN ch[j] /\ dh[j][k] = ch[j][k]
         \/ dh[j][k] = job
  BY JobIn
<1> QED
  BY <1>1 DEF NoStaler

(* A caller gives up.                                                      *)
LEMMA NotForStale ==
  ASSUME NEW ch \in Chains, NEW i \in Id, NEW c,
         NEW dh, dh = [ch EXCEPT ![i] = NotFor(c, @)]
  PROVE  NoStaler(ch, dh)
<1>1. ch[i] \in Seq(JobRecord)
  BY DEF Chains
<1>2. dh[i] = [k \in DOMAIN ch[i] |-> [ch[i][k] EXCEPT !.who = @ \ {c}]]
  BY DEF Chains, NotFor
<1>3. \A j \in Id \ {i} : dh[j] = ch[j]
  BY DEF Chains
<1>4. ASSUME NEW k \in DOMAIN dh[i]
      PROVE  /\ k \in DOMAIN ch[i]
             /\ Stale(dh[i][k]) => Stale(ch[i][k])
             /\ dh[i][k].who \subseteq ch[i][k].who
  <2>1. k \in DOMAIN ch[i] /\ dh[i][k] = [ch[i][k] EXCEPT !.who = @ \ {c}]
    BY <1>2
  <2>2. ch[i][k] \in JobRecord
    BY <1>1, <2>1
  <2> QED  BY <2>1, <2>2 DEF JobRecord, Stale
<1>5. ASSUME NEW j \in Id, NEW k \in DOMAIN dh[j], Stale(dh[j][k])
      PROVE  \E l \in DOMAIN ch[j] : Stale(ch[j][l]) /\ dh[j][k].who \subseteq ch[j][l].who
  <2>1. CASE j = i
    BY <1>4, <1>5, <2>1
  <2>2. CASE j # i
    BY <1>3, <1>5, <2>2
  <2> QED  BY <2>1, <2>2
<1> QED
  BY <1>5 DEF NoStaler

(* An append is under way.                                                 *)
LEMMA BeganStale ==
  ASSUME NEW ch \in Chains, NEW i \in Id, ch[i] # <<>>,
         NEW kind, Begun(kind),
         NEW dh, dh = [ch EXCEPT ![i] = <<[Head(ch[i]) EXCEPT !.kind = kind]>> \o Tail(ch[i])]
  PROVE  NoStaler(ch, dh)
<1> DEFINE n == Len(ch[i])
           job == [Head(ch[i]) EXCEPT !.kind = kind]
           t == <<job>> \o Tail(ch[i])
<1>1. ch[i] \in Seq(JobRecord) /\ n \in Nat \ {0} /\ DOMAIN ch[i] = 1 .. n
  BY DEF Chains
<1>2. Head(ch[i]) \in JobRecord
  BY <1>1
<1>3. job \in JobRecord /\ ~Stale(job)
  BY <1>2 DEF JobRecord, Stale, Begun
<1> HIDE DEF job
<1>4. /\ Tail(ch[i]) \in Seq(JobRecord) /\ Len(Tail(ch[i])) = n - 1
      /\ \A k \in 1 .. n - 1 : Tail(ch[i])[k] = ch[i][k + 1]
  BY <1>1
<1>5. t \in Seq(JobRecord) /\ Len(t) = n
  BY <1>1, <1>3, <1>4
<1>6. t[1] = job /\ \A k \in 2 .. n : t[k] = ch[i][k]
  BY <1>1, <1>3, <1>4
<1> HIDE DEF n, t
<1>7. DOMAIN t = 1 .. n
  BY <1>1, <1>5
<1>8. dh = [ch EXCEPT ![i] = t]
  BY DEF t, job
<1>9. dh[i] = t /\ \A j \in Id \ {i} : dh[j] = ch[j]
  BY <1>8 DEF Chains
<1>10. ASSUME NEW j \in Id, NEW k \in DOMAIN dh[j]
       PROVE  ~Stale(dh[j][k]) \/ (k \in DOMAIN ch[j] /\ dh[j][k] = ch[j][k])
  <2>1. CASE j = i
    <3>1. k = 1 \/ k \in 2 .. n
      BY <1>1, <1>7, <1>9, <2>1
    <3> QED  BY <1>1, <1>3, <1>6, <1>7, <1>9, <2>1, <3>1
  <2>2. CASE j # i
    BY <1>9, <2>2
  <2> QED  BY <2>1, <2>2
<1> QED
  BY <1>10 DEF NoStaler

(* A load that becomes stale, has lost its callers their entry.            *)
LEMMA RemoveLoose ==
  ASSUME NEW i \in Id, NEW jobs, NEW cs \in Calls, chain \in Chains, chain' \in Chains,
         Loose(chain, call), Poorer(call, cs), JobsOK(chain', call'), Remove(i, jobs, cs)
  PROVE  Loose(chain', call')
<1>1. /\ call' = Losing(cs, {i})
      /\ \A j \in Id \ {i} : chain'[j] = chain[j]
  BY DEF Remove, Chains
<1>2. \A c \in Caller :
        /\ call'[c].on = cs[c].on
        /\ call'[c].holds => cs[c].holds /\ cs[c].on # i
  BY <1>1, LosingFacts
<1>3. ASSUME NEW j \in Id, NEW k \in DOMAIN chain'[j], NEW c \in chain'[j][k].who, Stale(chain'[j][k])
      PROVE  ~call'[c].holds
  <2>1. c \in Caller
    BY JobAt
  <2>2. CASE j = i
    <3>1. Asked(call'[c], "load", i)
      BY <1>3, <2>2 DEF JobsOK, Stale
    <3>2. call'[c].on = i
      BY <3>1 DEF Asked
    <3> QED  BY <1>2, <2>1, <3>2
  <2>3. CASE j # i
    <3>1. ~call[c].holds
      BY <1>1, <1>3, <2>3 DEF Loose
    <3> QED  BY <1>2, <2>1, <3>1 DEF Poorer
  <2> QED  BY <2>2, <2>3
<1> QED
  BY <1>3 DEF Loose

-----------------------------------------------------------------------------
(* What becomes of the leases of the calls.                                *)

(* No call comes to have an entry, and no one but a borrower a lease.      *)
Onward(cs) == cs \in Calls /\ Poorer(call, cs) /\ Lent(cs)

(* Calls that lose their entry go on.                                      *)
LEMMA LosingOnward ==
  ASSUME NEW cs, Onward(cs), NEW gone
  PROVE  Onward(Losing(cs, gone))
<1>1. cs \in Calls
  BY DEF Onward
<1>2. /\ Losing(cs, gone) \in Calls
      /\ \A c \in Caller : /\ Losing(cs, gone)[c].pc = cs[c].pc
                           /\ Losing(cs, gone)[c].holds => cs[c].holds
  BY <1>1, LosingFacts
<1>3. Poorer(call, cs) /\ Lent(cs)
  BY DEF Onward
<1>4. Poorer(call, Losing(cs, gone))
  BY <1>2, <1>3 DEF Poorer
<1>5. Lent(Losing(cs, gone))
  BY <1>2, <1>3 DEF Lent
<1> QED
  BY <1>2, <1>4, <1>5 DEF Onward

(* Nothing becomes of a call that is as before.                            *)
LEMMA SameOnward ==
  ASSUME call \in Calls, Lent(call)
  PROVE  Onward(call) /\ \A j : Level(call, call, j)
  BY DEF Onward, Poorer, Level

(* Calls that end, end their leases.                                       *)
LEMMA EndsLevel ==
  ASSUME call \in Calls, Placed(call), Lent(call), NEW who
  PROVE  /\ Onward(Ends(who))
         /\ \A j : (\A c \in who : ~Lease(call[c], j)) => Level(call, Ends(who), j)
<1>1. /\ Ends(who) \in Calls
      /\ \A c \in Caller : c \in who => Ends(who)[c] = Done
      /\ \A c \in Caller : c \notin who => Ends(who)[c] = call[c]
  BY EndsFacts
<1>2. Done.pc = "done" /\ ~Done.holds
  BY DEF Done, At
<1>3. Borrower \subseteq Caller
  BY DEF Caller
<1>4. \A c \in Caller : /\ Ends(who)[c].holds => call[c].holds
                        /\ Ends(who)[c].pc \in {"checking", "leased"} => Ends(who)[c] = call[c]
  BY <1>1, <1>2
<1>5. Onward(Ends(who))
  <2>1. Poorer(call, Ends(who))
    <3>1. ASSUME NEW c \in Caller, Ends(who)[c].holds PROVE call[c].holds
      BY <1>4, <3>1
    <3> QED  BY <3>1 DEF Poorer
  <2>2. Lent(Ends(who))
    <3>1. ASSUME NEW c \in Caller, Ends(who)[c].pc \in {"checking", "leased"} PROVE c \in Borrower
      <4>1. Ends(who)[c] = call[c]
        BY <1>4, <3>1
      <4> QED BY <3>1, <4>1 DEF Lent
    <3> QED  BY <3>1 DEF Lent
  <2> QED  BY <1>1, <2>1, <2>2 DEF Onward
<1>6. ASSUME NEW j, \A c \in who : ~Lease(call[c], j), NEW c \in Borrower
      PROVE  Lease(Ends(who)[c], j) <=> Lease(call[c], j)
  <2>1. CASE c \in who
    BY <1>1, <1>2, <1>3, <1>6, <2>1 DEF Lease
  <2>2. CASE c \notin who
    BY <1>1, <1>3, <2>2
  <2> QED  BY <2>1, <2>2
<1> QED
  BY <1>5, <1>6 DEF Level

(* A call that moves on has its lease as before.                           *)
LEMMA GoesLevel ==
  ASSUME call \in Calls, Placed(call), Lent(call), NEW c \in Caller, NEW pc \in CallPoint,
         pc = "queued" \/ call[c].on \in Id,
         pc \in {"checking", "leased"} => c \in Borrower,
         c \in Borrower => (pc \in LeasePoint <=> call[c].pc \in LeasePoint)
  PROVE  Onward(Goes(c, pc)) /\ \A j : Level(call, Goes(c, pc), j)
<1>1. /\ Goes(c, pc) \in Calls
      /\ Goes(c, pc)[c].pc = pc /\ Goes(c, pc)[c].on = call[c].on
      /\ Goes(c, pc)[c].holds = call[c].holds
      /\ \A d \in Caller \ {c} : Goes(c, pc)[d] = call[d]
  BY GoesFacts
<1>2. Onward(Goes(c, pc))
  BY <1>1 DEF Onward, Poorer, Lent
<1>3. Borrower \subseteq Caller
  BY DEF Caller
<1>4. ASSUME NEW j, NEW d \in Borrower
      PROVE  Lease(Goes(c, pc)[d], j) <=> Lease(call[d], j)
  <2>1. CASE d = c
    BY <1>1, <2>1 DEF Lease
  <2>2. CASE d # c
    BY <1>1, <1>3, <2>2
  <2> QED  BY <2>1, <2>2
<1> QED
  BY <1>2, <1>4 DEF Level

(* Waiters have no lease, before or after they resume.                     *)
LEMMA WokenLevel ==
  ASSUME call \in Calls, Placed(call), NEW i \in Id
  PROVE  /\ \A c \in Caller : /\ Woken(i)[c].holds = call[c].holds
                              /\ Woken(i)[c].pc \in LeasePoint => Woken(i)[c] = call[c]
         /\ \A j : Level(call, Woken(i), j)
<1>1. ASSUME NEW c \in Caller
      PROVE  /\ Woken(i)[c].holds = call[c].holds
             /\ \/ call[c].pc = "waiting" /\ Woken(i)[c].pc = "woken"
                \/ Woken(i)[c] = call[c]
  <2>1. Woken(i)[c] = IF call[c].pc = "waiting" /\ call[c].on = i
                        THEN [call[c] EXCEPT !.pc = "woken"] ELSE call[c]
    BY DEF Woken
  <2>2. call[c] \in CallRecord
    BY CallAt
  <2> QED  BY <2>1, <2>2 DEF CallRecord, CallPoint
<1>2. \A c \in Caller : Woken(i)[c].pc \in LeasePoint => Woken(i)[c] = call[c]
  BY <1>1 DEF LeasePoint
<1>3. \A c \in Caller : call[c].pc \in LeasePoint => Woken(i)[c] = call[c]
  BY <1>1 DEF LeasePoint
<1>4. Borrower \subseteq Caller
  BY DEF Caller
<1>5. \A j : Level(call, Woken(i), j)
  BY <1>2, <1>3, <1>4 DEF Level, Lease
<1> QED
  BY <1>1, <1>2, <1>5

(* A call that has ended, or starts over, has no lease.                    *)
LEMMA ReplacedLevel ==
  ASSUME call \in Calls, Placed(call), Lent(call), NEW i \in Id, NEW c \in Caller,
         NEW r, Over(r), r.holds => call[c].holds,
         NEW cs, Replaced(cs, i, c, r)
  PROVE  Onward(cs) /\ \A j : ~Lease(call[c], j) => Level(call, cs, j)
<1>1. Woken(i) \in Calls /\ Placed(Woken(i))
  BY WokenFacts
<1>2. /\ \A d \in Caller : /\ Woken(i)[d].holds = call[d].holds
                           /\ Woken(i)[d].pc \in LeasePoint => Woken(i)[d] = call[d]
      /\ \A j : Level(call, Woken(i), j)
  BY WokenLevel
<1>3. \E ds \in {call, Woken(i)} : cs \in Calls /\ cs[c] = r /\ \A d \in Caller \ {c} : cs[d] = ds[d]
  BY <1>1, PutFacts DEF Replaced, Over
<1>4. PICK ds \in {call, Woken(i)} : cs \in Calls /\ cs[c] = r /\ \A d \in Caller \ {c} : cs[d] = ds[d]
  BY <1>3
<1>5. /\ \A d \in Caller : /\ ds[d].holds = call[d].holds
                           /\ ds[d].pc \in LeasePoint => ds[d] = call[d]
      /\ \A j : Level(call, ds, j)
  BY <1>2, <1>4 DEF Level
<1>6. Onward(cs)
  <2>1. ASSUME NEW d \in Caller
        PROVE  /\ cs[d].holds => call[d].holds
               /\ cs[d].pc \in {"checking", "leased"} => d \in Borrower
    <3>1. CASE d = c
      BY <1>4, <3>1 DEF Over
    <3>2. CASE d # c
      BY <1>4, <1>5, <3>2 DEF Lent, LeasePoint
    <3> QED  BY <3>1, <3>2
  <2>2. Poorer(call, cs)
    BY <2>1 DEF Poorer
  <2>3. Lent(cs)
    BY <2>1 DEF Lent
  <2> QED  BY <1>4, <2>2, <2>3 DEF Onward
<1>7. Borrower \subseteq Caller
  BY DEF Caller
<1>8. ASSUME NEW j, ~Lease(call[c], j), NEW d \in Borrower
      PROVE  Lease(cs[d], j) <=> Lease(call[d], j)
  <2>1. CASE d = c
    BY <1>4, <1>8, <2>1 DEF Lease, Over, LeasePoint
  <2>2. CASE d # c
    BY <1>4, <1>5, <1>7, <2>2 DEF Level
  <2> QED  BY <2>1, <2>2
<1> QED
  BY <1>6, <1>8 DEF Level

-----------------------------------------------------------------------------
(* What a step does to the pool.                                           *)

(* No lease that goes on loses its entry to another's operation.           *)
Spares ==
  \A i \in Id, c \in Borrower :
    Lease(call[c], i) /\ call'[c].pc # "done" /\ entry[i].phase = "ready" /\ entry'[i].phase = "absent"
      => chain'[i] # chain[i]

(* The pool is in order, and no call was given an entry.                   *)
Settled == Stock(entry', order', call') /\ Onward(call') /\ Spares

(* The pool stays as it is.                                                *)
LEMMA KeptStock ==
  ASSUME Stock(entry, order, call), entry' = entry, order' = order,
         Onward(call'), \A j \in Id : Level(call, call', j)
  PROVE  Settled
<1>1. Counted(entry', call')
  <2>1. \A j \in Id : Holders(call', j) = Holders(call, j)
    BY LevelHolders
  <2> QED  BY <2>1 DEF Stock, Counted
<1>2. Spares
  BY DEF Spares
<1> QED
  BY <1>1, <1>2 DEF Settled, Stock

(* An entry is touched.                                                    *)
LEMMA TouchedStock ==
  ASSUME Stock(entry, order, call), NEW e, NEW i \in Id, NEW cs, Onward(cs),
         entry[i].phase # "absent", e[i].phase = "ready", \A k \in Id \ {i} : e[k] = entry[k],
         Counted(e, cs),
         \A j \in Id, c \in Borrower : Lease(call[c], j) => Lease(cs[c], j) \/ cs[c].pc = "done",
         Touch(e, i, cs)
  PROVE  Settled
<1>1. cs \in Calls
  BY DEF Onward
<1>2. Stock(entry', order', call') /\ Spared(e, entry', cs)
  BY <1>1, Touched DEF Stock
<1>3. call' = Losing(cs, Evicted(Append(Without(order, i), i), e))
  BY DEF Touch
<1>4. Onward(call')
  BY <1>3, LosingOnward
<1>5. \A c \in Caller : call'[c].pc = cs[c].pc
  BY <1>1, <1>3, LosingFacts
<1>6. Spares
  <2>1. SUFFICES ASSUME NEW j \in Id, NEW c \in Borrower, Lease(call[c], j), call'[c].pc # "done",
                        entry[j].phase = "ready", entry'[j].phase = "absent"
                 PROVE  FALSE
    BY DEF Spares
  <2>2. cs[c].pc # "done"
    BY <1>5, <2>1 DEF Caller
  <2>3. c \in Holders(cs, j)
    BY <2>1, <2>2 DEF Holders
  <2>4. e[j].phase # "absent"
    BY <2>1
  <2> QED  BY <1>2, <2>1, <2>3, <2>4 DEF Spared
<1> QED
  BY <1>2, <1>4, <1>6 DEF Settled

(* An entry leaves by an operation on its log.                             *)
LEMMA RemovedStock ==
  ASSUME Stock(entry, order, call), entry \in Entries, NEW i \in Id, NEW jobs, NEW cs, Onward(cs),
         \A j \in Id \ {i} : Level(call, cs, j),
         entry[i].phase # "ready" \/ chain'[i] # chain[i],
         Remove(i, jobs, cs)
  PROVE  Settled
<1>1. cs \in Calls
  BY DEF Onward
<1>2. Stock(entry', order', call') /\ \A k \in Id \ {i} : entry'[k] = entry[k]
  BY <1>1, Removed
<1>3. call' = Losing(cs, {i})
  BY DEF Remove
<1>4. Onward(call')
  BY <1>3, LosingOnward
<1>5. Spares
  BY <1>2 DEF Spares
<1> QED
  BY <1>2, <1>4, <1>5 DEF Settled

(* A lease less.                                                           *)
LEMMA HoldersLess ==
  ASSUME call \in Calls, Placed(call), NEW c \in Borrower, NEW i, Lease(call[c], i)
  PROVE  /\ Holders(Ends({c}), i) = Holders(call, i) \ {c} /\ c \in Holders(call, i)
         /\ \A j : j # i => Level(call, Ends({c}), j)
<1>1. Borrower \subseteq Caller
  BY DEF Caller
<1>2. /\ Ends({c})[c] = Done
      /\ \A d \in Caller : d # c => Ends({c})[d] = call[d]
  BY <1>1, EndsFacts
<1>3. \A j : ~Lease(Done, j)
  BY DEF Done, At, Lease
<1>4. \A d \in Borrower : \A j : Lease(Ends({c})[d], j) <=> Lease(call[d], j) /\ d # c
  BY <1>1, <1>2, <1>3
<1>5. \A j : j # i => ~Lease(call[c], j)
  BY DEF Lease
<1> QED
  BY <1>4, <1>5 DEF Holders, Level

(* The lease of c ends.                                                    *)
LEMMA UnpinnedStock ==
  ASSUME Stock(entry, order, call), entry \in Entries, call \in Calls, Placed(call), Lent(call),
         NEW c \in Borrower, call[c].pc \in LeasePoint, call[c].on \in Id, Unpin(c)
  PROVE  Settled
<1> DEFINE i == call[c].on
           e == [entry EXCEPT ![i].pins = @ - 1]
           cs == Ends({c})
<1>1. \/ ~call[c].holds /\ entry' = entry /\ order' = order /\ call' = cs
      \/ call[c].holds /\ e[i].phase = "ready" /\ Touch(e, i, cs)
      \/ call[c].holds /\ e[i].phase # "ready" /\ entry' = e /\ call' = cs /\ order' = order
  BY DEF Unpin, Keep, pool
<1>2. Onward(cs)
  BY EndsLevel
<1>3. CASE ~call[c].holds /\ entry' = entry /\ order' = order /\ call' = cs
  <2>1. \A j : ~Lease(call[c], j)
    BY <1>3 DEF Lease
  <2>2. \A j : Level(call, cs, j)
    BY <2>1, EndsLevel
  <2> QED  BY <1>2, <1>3, <2>2, KeptStock
<1>4. ASSUME call[c].holds
      PROVE  /\ Counted(e, cs) /\ entry[i].phase # "absent" /\ e[i].phase = entry[i].phase
             /\ \A k \in Id \ {i} : e[k] = entry[k]
             /\ \A j \in Id, d \in Borrower : Lease(call[d], j) => Lease(cs[d], j) \/ cs[d].pc = "done"
  <2>1. Lease(call[c], i)
    BY <1>4 DEF Lease
  <2>2. /\ Holders(cs, i) = Holders(call, i) \ {c} /\ c \in Holders(call, i)
        /\ \A j : j # i => Level(call, cs, j)
    BY <2>1, HoldersLess
  <2>3. PinnedBy(entry[i], Holders(call, i))
    BY DEF Stock, Counted
  <2>4. entry[i] \in EntryRecord
    BY DEF Entries
  <2>5. /\ e[i].pins = entry[i].pins - 1 /\ e[i].phase = entry[i].phase
        /\ \A k \in Id \ {i} : e[k] = entry[k]
    BY <2>4 DEF Entries, EntryRecord
  <2> HIDE DEF e, cs
  <2>6. PinnedBy(e[i], Holders(cs, i)) /\ entry[i].phase # "absent"
    <3>1. IsFiniteSet(Holders(call, i))
      BY <2>3 DEF PinnedBy
    <3>2. /\ IsFiniteSet(Holders(call, i) \ {c})
          /\ Cardinality(Holders(call, i) \ {c}) = Cardinality(Holders(call, i)) - 1
      BY <2>2, <3>1, FS_RemoveElement
    <3> QED  BY <2>2, <2>3, <2>5, <3>2 DEF PinnedBy
  <2>7. Counted(e, cs)
    <3>1. ASSUME NEW k \in Id, k # i PROVE PinnedBy(e[k], Holders(cs, k))
      <4>1. Holders(cs, k) = Holders(call, k)
        BY <2>2, <3>1, LevelHolders
      <4> QED  BY <2>5, <3>1, <4>1 DEF Stock, Counted
    <3> QED  BY <2>6, <3>1 DEF Counted
  <2>8. ASSUME NEW j \in Id, NEW d \in Borrower, Lease(call[d], j)
        PROVE  Lease(cs[d], j) \/ cs[d].pc = "done"
    <3>1. CASE d = c
      <4>1. cs[c] = Done
        BY EndsFacts DEF cs, Caller
      <4> QED  BY <3>1, <4>1, DoneFacts
    <3>2. CASE d # c
      <4>1. cs[d] = call[d]
        BY <3>2, EndsFacts DEF cs, Caller
      <4> QED  BY <2>8, <4>1
    <3> QED  BY <3>1, <3>2
  <2> QED  BY <2>5, <2>6, <2>7, <2>8
<1> HIDE DEF e, cs
<1>5. CASE call[c].holds /\ e[i].phase = "ready" /\ Touch(e, i, cs)
  <2> HIDE DEF i
  <2> QED  BY <1>2, <1>4, <1>5, TouchedStock DEF i
<1>6. CASE call[c].holds /\ e[i].phase # "ready" /\ entry' = e /\ call' = cs /\ order' = order
  <2>1. Counted(entry', call')
    BY <1>4, <1>6
  <2>2. \A k \in Id : entry'[k].phase = entry[k].phase
    BY <1>4, <1>6
  <2>3. Ready(entry') = Ready(entry) /\ \A k \in Ready(entry) : entry'[k] = entry[k]
    BY <1>4, <1>6, <2>2 DEF Ready
  <2>4. Roomy(entry')
    BY <2>3 DEF Stock, Roomy
  <2>5. Ordered(entry', order')
    BY <1>6, <2>2 DEF Stock, Ordered
  <2>6. Spares
    BY <2>2 DEF Spares
  <2> QED  BY <1>2, <1>6, <2>1, <2>4, <2>5, <2>6 DEF Stock, Settled
<1> QED
  BY <1>1, <1>3, <1>5, <1>6

(* A lease more, if the call is a borrower's.                              *)
LEMMA HoldersMore ==
  ASSUME call \in Calls, Lent(call), NEW c \in Caller, call[c].pc \in {"idle", "again"}, NEW i \in Id,
         NEW pc \in {"loading", "loaded"}, NEW view, Given(c, i, pc, view)
  PROVE  /\ c \notin Holders(call, i)
         /\ Holders(call', i) = IF c \in Borrower THEN Holders(call, i) \cup {c} ELSE Holders(call, i)
         /\ \A j : j # i => Level(call, call', j)
         /\ Lent(call')
<1> DEFINE r == GivenRecord(i, pc, view)
<1>1. r.pc = pc /\ r.on = i /\ r.holds
  BY DEF GivenRecord
<1>2. call' = [call EXCEPT ![c] = r]
  BY DEF Given, GivenRecord
<1> HIDE DEF r
<1>3. call'[c] = r /\ \A d \in Caller \ {c} : call'[d] = call[d]
  BY <1>2 DEF Calls
<1>4. Borrower \subseteq Caller
  BY DEF Caller
<1>5. \A j : ~Lease(call[c], j)
  BY DEF Lease, LeasePoint
<1>6. \A j : Lease(r, j) <=> j = i
  BY <1>1 DEF Lease, LeasePoint
<1>7. \A d \in Borrower : \A j : Lease(call'[d], j) <=> Lease(call[d], j) \/ (d = c /\ j = i)
  BY <1>3, <1>4, <1>5, <1>6
<1>8. Lent(call')
  BY <1>1, <1>3 DEF Lent
<1> QED
  BY <1>5, <1>7, <1>8 DEF Holders, Level

(* The pins count it.                                                      *)
LEMMA PinnedMore ==
  ASSUME NEW q, NEW r, NEW who, PinnedBy(q, who), NEW c, c \notin who,
         r.pins = q.pins + Pinned(c), r.phase # "absent"
  PROVE  /\ PinnedBy(r, IF c \in Borrower THEN who \cup {c} ELSE who)
         /\ q.pins # 0 => r.pins # 0
<1>1. IsFiniteSet(who) /\ q.pins = Cardinality(who) /\ Cardinality(who) \in Nat
  BY FS_CardinalityType DEF PinnedBy
<1>2. IsFiniteSet(who \cup {c}) /\ Cardinality(who \cup {c}) = Cardinality(who) + 1
  BY <1>1, FS_AddElement
<1>3. CASE c \in Borrower
  BY <1>1, <1>2, <1>3 DEF PinnedBy, Pinned
<1>4. CASE c \notin Borrower
  BY <1>1, <1>4 DEF PinnedBy, Pinned
<1> QED
  BY <1>3, <1>4

(* Some entry is there still, and pinned by one call more.                 *)
LEMMA GivenStock ==
  ASSUME Stock(entry, order, call), entry \in Entries, call \in Calls, Lent(call),
         NEW c \in Caller, call[c].pc \in {"idle", "again"}, NEW i \in Id,
         NEW pc \in {"loading", "loaded"}, NEW view, Given(c, i, pc, view),
         NEW r, r.pins = entry[i].pins + Pinned(c), r.phase # "absent",
         entry[i].phase = "ready" <=> r.phase = "ready",
         entry' = [entry EXCEPT ![i] = r]
  PROVE  Counted(entry', call') /\ Roomy(entry') /\ Lent(call') /\ Spares
<1>1. /\ c \notin Holders(call, i)
      /\ Holders(call', i) = IF c \in Borrower THEN Holders(call, i) \cup {c} ELSE Holders(call, i)
      /\ \A j : j # i => Level(call, call', j)
      /\ Lent(call')
  BY HoldersMore
<1>2. entry'[i] = r /\ \A k \in Id \ {i} : entry'[k] = entry[k]
  BY DEF Entries
<1>3. PinnedBy(entry[i], Holders(call, i))
  BY DEF Stock, Counted
<1>4. PinnedBy(r, Holders(call', i)) /\ (entry[i].pins # 0 => r.pins # 0)
  BY <1>1, <1>3, PinnedMore
<1>5. Counted(entry', call')
  <2>1. ASSUME NEW k \in Id, k # i PROVE PinnedBy(entry'[k], Holders(call', k))
    <3>1. Holders(call', k) = Holders(call, k)
      BY <1>1, <2>1, LevelHolders
    <3> QED  BY <1>2, <2>1, <3>1 DEF Stock, Counted
  <2> QED  BY <1>2, <1>4, <2>1 DEF Counted
<1>6. Roomy(entry')
  <2>1. Ready(entry') = Ready(entry)
    BY <1>2 DEF Ready
  <2>2. \A k \in Ready(entry) : entry[k].pins # 0 => entry'[k].pins # 0
    BY <1>2, <1>4 DEF Ready
  <2> QED  BY <2>1, <2>2 DEF Stock, Roomy
<1>7. Spares
  BY <1>2 DEF Spares
<1> QED
  BY <1>1, <1>5, <1>6, <1>7

(* entryFor: its caller has the entry, and if it borrows, a lease.         *)
LEMMA EnteredStock ==
  ASSUME Stock(entry, order, call), entry \in Entries, call \in Calls, Placed(call), Lent(call),
         NEW c \in Caller, call[c].pc \in {"idle", "again"}, NEW i \in Id, Enter(c, i)
  PROVE  Stock(entry', order', call') /\ Lent(call') /\ Spares
<1>1. \/ entry' = entry /\ order' = order /\ call' = Ends({c})
      \/ /\ entry[i].phase = "absent"
         /\ entry' = [entry EXCEPT ![i] = [NoEntry EXCEPT !.phase = "loading", !.pins = Pinned(c)]]
         /\ order' = Append(order, i) /\ Given(c, i, "loading", 0)
      \/ /\ entry[i].phase # "absent"
         /\ entry' = [entry EXCEPT ![i].pins = @ + Pinned(c)] /\ order' = order
         /\ \E pc \in {"loading", "loaded"}, view \in {0, entry[i].source} : Given(c, i, pc, view)
  BY DEF Enter, Keep, pool
<1>2. CASE entry' = entry /\ order' = order /\ call' = Ends({c})
  <2>1. \A j : ~Lease(call[c], j)
    BY DEF Lease, LeasePoint
  <2>2. Onward(call') /\ \A j : Level(call, call', j)
    BY <1>2, <2>1, EndsLevel
  <2> QED  BY <1>2, <2>2, KeptStock DEF Settled, Onward
<1>3. CASE /\ entry[i].phase = "absent"
           /\ entry' = [entry EXCEPT ![i] = [NoEntry EXCEPT !.phase = "loading", !.pins = Pinned(c)]]
           /\ order' = Append(order, i) /\ Given(c, i, "loading", 0)
  <2> DEFINE r == [NoEntry EXCEPT !.phase = "loading", !.pins = Pinned(c)]
  <2>1. r.phase = "loading" /\ r.pins = Pinned(c)
    BY DEF NoEntry
  <2>2. entry' = [entry EXCEPT ![i] = r]
    BY <1>3
  <2> HIDE DEF r
  <2>3. entry[i].pins = 0
    <3>1. PinnedBy(entry[i], {})
      BY <1>3 DEF Stock, Counted, PinnedBy
    <3> QED  BY <3>1, FS_EmptySet DEF PinnedBy
  <2>4. r.pins = entry[i].pins + Pinned(c)
    BY <2>1, <2>3 DEF Pinned
  <2>5. Counted(entry', call') /\ Roomy(entry') /\ Lent(call') /\ Spares
    BY <1>3, <2>1, <2>2, <2>4, GivenStock
  <2>6. ~Has(order, i) /\ Once(order)
    BY <1>3 DEF Stock, Ordered
  <2>7. Once(order') /\ \A k \in Id : Has(order', k) <=> Has(order, k) \/ k = i
    BY <1>3, <2>6, AppendFacts
  <2>8. entry'[i] = r /\ \A k \in Id \ {i} : entry'[k] = entry[k]
    BY <2>2 DEF Entries
  <2>9. Ordered(entry', order')
    BY <2>1, <2>7, <2>8 DEF Stock, Ordered
  <2> QED  BY <2>5, <2>9 DEF Stock
<1>4. CASE /\ entry[i].phase # "absent"
           /\ entry' = [entry EXCEPT ![i].pins = @ + Pinned(c)] /\ order' = order
           /\ \E pc \in {"loading", "loaded"}, view \in {0, entry[i].source} : Given(c, i, pc, view)
  <2> DEFINE r == [entry[i] EXCEPT !.pins = @ + Pinned(c)]
  <2>1. entry[i] \in EntryRecord
    BY DEF Entries
  <2>2. r.phase = entry[i].phase /\ r.pins = entry[i].pins + Pinned(c)
    BY <2>1 DEF EntryRecord
  <2>3. entry' = [entry EXCEPT ![i] = r]
    BY <1>4
  <2> HIDE DEF r
  <2>4. PICK pc \in {"loading", "loaded"}, view \in {0, entry[i].source} : Given(c, i, pc, view)
    BY <1>4
  <2>5. Counted(entry', call') /\ Roomy(entry') /\ Lent(call') /\ Spares
    <3>1. r.phase # "absent" /\ (entry[i].phase = "ready" <=> r.phase = "ready")
      BY <1>4, <2>2
    <3>2. r.pins = entry[i].pins + Pinned(c)
      BY <2>2
    <3> QED  BY <2>3, <2>4, <3>1, <3>2, GivenStock
  <2>6. \A k \in Id : entry'[k].phase = entry[k].phase
    BY <2>2, <2>3 DEF Entries
  <2>7. Ordered(entry', order')
    BY <1>4, <2>6 DEF Stock, Ordered
  <2> QED  BY <2>5, <2>7 DEF Stock
<1> QED
  BY <1>1, <1>2, <1>3, <1>4

(* An entry becomes ready, which keeps its pins.                           *)
LEMMA ReadiedStock ==
  ASSUME Stock(entry, order, call), entry \in Entries, NEW i \in Id, entry[i].phase # "absent",
         NEW source \in Nat, NEW cs, Onward(cs), \A j : Level(call, cs, j),
         Touch(Readied(i, source), i, cs)
  PROVE  Settled
<1> DEFINE e == Readied(i, source)
<1>1. e[i].phase = "ready" /\ \A k \in Id \ {i} : e[k] = entry[k]
  BY ReadiedFacts
<1>2. e[i].pins = entry[i].pins
  <2>1. entry[i] \in EntryRecord /\ DOMAIN entry = Id
    BY DEF Entries
  <2>2. e[i] = [[entry[i] EXCEPT !.phase = "ready"] EXCEPT !.source = source]
    BY <2>1 DEF Readied
  <2> HIDE DEF e
  <2> QED  BY <2>1, <2>2 DEF EntryRecord
<1> HIDE DEF e
<1>3. Counted(e, cs)
  <2>1. ASSUME NEW k \in Id PROVE PinnedBy(e[k], Holders(cs, k))
    <3>1. PinnedBy(entry[k], Holders(call, k)) /\ Holders(cs, k) = Holders(call, k)
      BY LevelHolders DEF Stock, Counted
    <3>2. CASE k = i
      BY <1>1, <1>2, <3>1, <3>2 DEF PinnedBy
    <3>3. CASE k # i
      BY <1>1, <3>1, <3>3
    <3> QED  BY <3>2, <3>3
  <2> QED  BY <2>1 DEF Counted
<1>4. \A j \in Id, c \in Borrower : Lease(call[c], j) => Lease(cs[c], j)
  BY DEF Level
<1>5. Touch(e, i, cs)
  BY DEF e
<1> QED
  BY <1>1, <1>3, <1>4, <1>5, TouchedStock

(* An entry is reserved, which keeps its pins.                             *)
LEMMA PhasedStock ==
  ASSUME Stock(entry, order, call), entry \in Entries, NEW i \in Id, entry[i].phase # "absent",
         NEW phase, phase \notin {"absent", "ready"},
         entry' = [entry EXCEPT ![i].phase = phase], order' = order,
         Onward(call'), \A j : Level(call, call', j)
  PROVE  Settled
<1>1. entry[i] \in EntryRecord
  BY DEF Entries
<1>2. /\ entry'[i].phase = phase /\ entry'[i].pins = entry[i].pins
      /\ \A k \in Id \ {i} : entry'[k] = entry[k]
  BY <1>1 DEF Entries, EntryRecord
<1>3. Counted(entry', call')
  <2>1. ASSUME NEW k \in Id PROVE PinnedBy(entry'[k], Holders(call', k))
    <3>1. PinnedBy(entry[k], Holders(call, k)) /\ Holders(call', k) = Holders(call, k)
      BY LevelHolders DEF Stock, Counted
    <3>2. CASE k = i
      BY <1>2, <3>1, <3>2 DEF PinnedBy
    <3>3. CASE k # i
      BY <1>2, <3>1, <3>3
    <3> QED  BY <3>2, <3>3
  <2> QED  BY <2>1 DEF Counted
<1>4. Roomy(entry')
  <2>1. Ready(entry') \subseteq Ready(entry) /\ \A k \in Ready(entry') : entry'[k] = entry[k]
    BY <1>2 DEF Ready
  <2>2. IsFiniteSet(Ready(entry))
    BY DEF Stock, Roomy
  <2>3. IsFiniteSet(Ready(entry')) /\ Cardinality(Ready(entry')) <= Cardinality(Ready(entry))
    BY <2>1, <2>2, FS_Subset
  <2>4. /\ Cardinality(Ready(entry)) \in Nat /\ Cardinality(Ready(entry')) \in Nat
        /\ Capacity \in Nat
    BY <2>2, <2>3, FS_CardinalityType, BoundsAssumption
  <2>5. Cardinality(Ready(entry')) > Capacity => Cardinality(Ready(entry)) > Capacity
    BY <2>3, <2>4
  <2>6. Cardinality(Ready(entry)) > Capacity => \A k \in Ready(entry) : entry[k].pins # 0
    BY DEF Stock, Roomy
  <2> QED  BY <2>1, <2>3, <2>5, <2>6 DEF Roomy
<1>5. Ordered(entry', order')
  BY <1>2 DEF Stock, Ordered
<1>6. Spares
  BY <1>2 DEF Spares
<1> QED
  BY <1>3, <1>4, <1>5, <1>6 DEF Stock, Settled

-----------------------------------------------------------------------------
(* The operations keep the pool in order.                                  *)

(* What the two invariants say.                                            *)
LEMMA PoolFacts ==
  ASSUME IInv, Pool
  PROVE  /\ entry \in Entries /\ chain \in Chains /\ call \in Calls /\ Placed(call)
         /\ Stock(entry, order, call) /\ Loose(chain, call) /\ Lent(call)
  BY DEF IInv, Good, Pool

(* A step that brings no stale load keeps the pool in order.               *)
LEMMA SettledPool ==
  ASSUME Pool, IInv', Settled, NoStaler(chain, chain')
  PROVE  Pool' /\ Spares
<1>1. chain' \in Chains
  BY DEF IInv, Good
<1>2. Stock(entry', order', call') /\ Onward(call') /\ Spares
  BY DEF Settled
<1>3. Poorer(call, call') /\ Lent(call')
  BY <1>2 DEF Onward
<1>4. Loose(chain', call')
  BY <1>1, <1>3, LooseAfter DEF Pool
<1> QED
  BY <1>2, <1>3, <1>4 DEF Pool

(* So does one that removes an entry.                                      *)
LEMMA RemovedPool ==
  ASSUME IInv, IInv', Pool, NEW i \in Id, NEW jobs, NEW cs, Onward(cs),
         \A j \in Id \ {i} : Level(call, cs, j),
         entry[i].phase # "ready" \/ chain'[i] # chain[i],
         Remove(i, jobs, cs)
  PROVE  Pool' /\ Spares
<1>1. /\ entry \in Entries /\ chain \in Chains
      /\ Stock(entry, order, call) /\ Loose(chain, call)
  BY PoolFacts
<1>2. chain' \in Chains /\ JobsOK(chain', call')
  BY DEF IInv, Good
<1>3. Settled
  BY <1>1, RemovedStock
<1>4. cs \in Calls /\ Poorer(call, cs)
  BY DEF Onward
<1>5. Loose(chain', call')
  BY <1>1, <1>2, <1>4, RemoveLoose
<1> QED
  BY <1>3, <1>5 DEF Settled, Onward, Pool

(* A chain of which the first operation ended is another one.              *)
LEMMA Shorter ==
  ASSUME chain \in Chains, NEW i \in Id, chain[i] # <<>>, NEW cs, Remove(i, Rest(i), cs)
  PROVE  chain'[i] # chain[i]
<1> DEFINE n == Len(chain[i])
<1>1. chain[i] \in Seq(JobRecord) /\ n \in Nat \ {0} /\ DOMAIN chain[i] = 1 .. n
  BY DEF Chains
<1>2. Tail(chain[i]) \in Seq(JobRecord) /\ Len(Tail(chain[i])) = n - 1
  BY <1>1
<1>3. DOMAIN Tail(chain[i]) = 1 .. n - 1
  BY <1>2
<1>4. chain'[i] = [k \in DOMAIN Tail(chain[i]) |->
        IF Tail(chain[i])[k].kind = "load" THEN [Tail(chain[i])[k] EXCEPT !.current = FALSE]
                                           ELSE Tail(chain[i])[k]]
  BY DEF Remove, Rest, Chains
<1>5. DOMAIN chain'[i] = 1 .. n - 1
  BY <1>3, <1>4
<1>6. n \in 1 .. n /\ n \notin 1 .. n - 1
  BY <1>1
<1> QED
  BY <1>1, <1>5, <1>6

(* The running operation discards the entry of its caller.                 *)
LEMMA DiscardedPool ==
  ASSUME IInv, IInv', Pool, NEW i \in Id, chain[i] # <<>>, NEW c \in Caller, call[c].on = i,
         NEW next, Over(next), next.holds => call[c].holds, Discard(i, c, next)
  PROVE  Pool' /\ Spares
<1>1. /\ entry \in Entries /\ chain \in Chains /\ call \in Calls /\ Placed(call)
      /\ Stock(entry, order, call) /\ Lent(call)
  BY PoolFacts
<1>2. ASSUME NEW cs, Replaced(cs, i, c, next)
      PROVE  Onward(cs) /\ \A j : ~Lease(call[c], j) => Level(call, cs, j)
  BY <1>1, <1>2, ReplacedLevel
<1>3. CASE call[c].holds
  <2> DEFINE cs == Put(Woken(i), c, next)
  <2>1. Remove(i, Rest(i), cs)
    BY <1>3 DEF Discard, Put
  <2>2. Onward(cs) /\ \A j : ~Lease(call[c], j) => Level(call, cs, j)
    BY <1>2 DEF Replaced
  <2> HIDE DEF cs
  <2>3. \A j \in Id \ {i} : Level(call, cs, j)
    BY <2>2 DEF Lease
  <2>4. chain'[i] # chain[i]
    BY <1>1, <2>1, Shorter
  <2> QED  BY <2>1, <2>2, <2>3, <2>4, RemovedPool
<1>4. CASE ~call[c].holds
  <2> DEFINE cs == Put(call, c, next)
  <2>1. entry' = entry /\ order' = order /\ call' = cs /\ chain' = [chain EXCEPT ![i] = Tail(chain[i])]
    BY <1>4 DEF Discard, Put, Keep, pool, Dequeue, Rest
  <2>2. Onward(cs) /\ \A j : ~Lease(call[c], j) => Level(call, cs, j)
    BY <1>2 DEF Replaced
  <2> HIDE DEF cs
  <2>3. \A j : Level(call, cs, j)
    BY <1>4, <2>2 DEF Lease
  <2>4. Settled
    BY <1>1, <2>1, <2>2, <2>3, KeptStock
  <2>5. NoStaler(chain, chain')
    BY <1>1, <2>1, TailStale
  <2> QED  BY <2>4, <2>5, SettledPool
<1> QED
  BY <1>3, <1>4

-----------------------------------------------------------------------------
(* The storage operations, in the same order.                              *)

(* Load: the entry of a load that is the pool's becomes ready.             *)
LEMMA LoadPool == ASSUME IInv, Pool, NEW i \in Id, Load(i) PROVE Pool' /\ Spares
<1> DEFINE cs == [c \in Caller |-> IF c \in Running(i).who
                    THEN [call[c] EXCEPT !.pc = "loaded", !.view = revision[i]] ELSE call[c]]
<1>1. /\ Runs(i, "load") /\ chain' = [chain EXCEPT ![i] = Tail(chain[i])]
      /\ IF Running(i).current THEN Touch(Readied(i, revision[i]), i, cs)
                               ELSE entry' = entry /\ order' = order /\ call' = cs
  BY DEF Load, Dequeue, Rest, Keep, pool
<1>2. /\ chain[i] # <<>> /\ Running(i).kind = "load"
      /\ \A c \in Running(i).who : call[c].pc = "loading"
      /\ Running(i).current => entry[i].phase = "loading"
  BY <1>1, RunningFacts DEF Asked, Runs
<1>3. /\ entry \in Entries /\ chain \in Chains /\ call \in Calls /\ Placed(call)
      /\ Stock(entry, order, call) /\ Lent(call)
  BY PoolFacts
<1>4. revision[i] \in Nat
  BY DEF IInv, Good
<1>5. ASSUME NEW c \in Caller
      PROVE  /\ cs[c] \in CallRecord /\ cs[c].on = call[c].on /\ cs[c].holds = call[c].holds
             /\ \/ call[c].pc = "loading" /\ cs[c].pc = "loaded"
                \/ cs[c].pc = call[c].pc
  <2>1. call[c] \in CallRecord
    BY <1>3, CallAt
  <2>2. cs[c] = IF c \in Running(i).who
                  THEN [call[c] EXCEPT !.pc = "loaded", !.view = revision[i]] ELSE call[c]
    OBVIOUS
  <2>3. CASE c \in Running(i).who
    BY <1>2, <1>4, <2>1, <2>2, <2>3 DEF CallRecord, CallPoint
  <2>4. CASE c \notin Running(i).who
    BY <2>1, <2>2, <2>4
  <2> QED  BY <2>3, <2>4
<1>6. cs \in Calls
  BY <1>5 DEF Calls
<1> HIDE DEF cs
<1>7. Onward(cs)
  <2>1. Poorer(call, cs)
    BY <1>5 DEF Poorer
  <2>2. Lent(cs)
    BY <1>3, <1>5 DEF Lent
  <2> QED  BY <1>6, <2>1, <2>2 DEF Onward
<1>8. \A j : Level(call, cs, j)
  BY <1>5 DEF Level, Lease, LeasePoint, Caller
<1>9. Settled
  <2>1. CASE Running(i).current
    <3>1. entry[i].phase # "absent" /\ Touch(Readied(i, revision[i]), i, cs)
      BY <1>1, <1>2, <2>1
    <3> QED  BY <1>3, <1>4, <1>7, <1>8, <3>1, ReadiedStock
  <2>2. CASE ~Running(i).current
    <3>1. entry' = entry /\ order' = order /\ call' = cs
      BY <1>1, <2>2
    <3> QED  BY <1>3, <1>7, <1>8, <3>1, KeptStock
  <2> QED  BY <2>1, <2>2
<1>10. NoStaler(chain, chain')
  BY <1>1, <1>2, <1>3, TailStale
<1>11. IInv'
  BY LoadStep
<1> QED
  BY <1>9, <1>10, <1>11, SettledPool

(* LoadFails: whoever waits for a load not the pool's has no lease.        *)
LEMMA LoadFailsPool == ASSUME IInv, Pool, NEW i \in Id, LoadFails(i) PROVE Pool' /\ Spares
<1> DEFINE cs == Ends(Running(i).who)
<1>1. /\ Runs(i, "load")
      /\ \/ Running(i).current /\ Remove(i, Rest(i), cs)
         \/ /\ ~Running(i).current /\ entry' = entry /\ order' = order /\ call' = cs
            /\ chain' = [chain EXCEPT ![i] = Tail(chain[i])]
  BY DEF LoadFails, Dequeue, Rest, Keep, pool
<1>2. /\ chain[i] # <<>> /\ Running(i) = Head(chain[i]) /\ Running(i).kind = "load"
      /\ \A c \in Running(i).who : call[c].on = i
      /\ Running(i).current => entry[i].phase = "loading"
  BY <1>1, RunningFacts DEF Asked, Runs
<1>3. /\ entry \in Entries /\ chain \in Chains /\ call \in Calls /\ Placed(call)
      /\ Stock(entry, order, call) /\ Loose(chain, call) /\ Lent(call)
  BY PoolFacts
<1>4. Onward(cs) /\ \A j : (\A c \in Running(i).who : ~Lease(call[c], j)) => Level(call, cs, j)
  BY <1>3, EndsLevel
<1> HIDE DEF cs
<1>5. IInv'
  BY LoadFailsStep
<1>6. CASE Running(i).current /\ Remove(i, Rest(i), cs)
  <2>1. \A j \in Id \ {i} : Level(call, cs, j)
    BY <1>2, <1>4 DEF Lease
  <2>2. entry[i].phase # "ready"
    BY <1>2, <1>6
  <2> QED  BY <1>4, <1>5, <1>6, <2>1, <2>2, RemovedPool
<1>7. CASE /\ ~Running(i).current /\ entry' = entry /\ order' = order /\ call' = cs
           /\ chain' = [chain EXCEPT ![i] = Tail(chain[i])]
  <2>1. 1 \in DOMAIN chain[i] /\ Running(i) = chain[i][1]
    BY <1>2, <1>3, RunningAt
  <2>2. \A c \in Running(i).who : ~call[c].holds
    BY <1>2, <1>3, <1>7, <2>1 DEF Loose, Stale
  <2>3. \A j : Level(call, cs, j)
    BY <1>4, <2>2 DEF Lease
  <2>4. Settled
    BY <1>3, <1>4, <1>7, <2>3, KeptStock
  <2>5. NoStaler(chain, chain')
    BY <1>2, <1>3, <1>7, TailStale
  <2> QED  BY <1>5, <2>4, <2>5, SettledPool
<1> QED
  BY <1>1, <1>6, <1>7

(* The call c starts over or is done, and has no entry it had not.         *)
LEMMA NextHolds ==
  ASSUME call \in Calls, NEW c \in Caller
  PROVE  /\ Again(c).holds => call[c].holds
         /\ Done.holds => call[c].holds
<1>1. call[c] \in CallRecord
  BY CallAt
<1> QED
  BY <1>1 DEF Again, CallRecord, Done, At

(* Commit: whoever reserves has no lease.                                  *)
LEMMA CommitPool == ASSUME IInv, Pool, NEW i \in Id, Commit(i) PROVE Pool' /\ Spares
<1>1. Runs(i, "commit") /\ chain' = [chain EXCEPT ![i] = Tail(chain[i])]
  BY DEF Commit, Dequeue, Rest
<1>2. PICK c \in Running(i).who :
        \/ /\ call[c].holds
           /\ entry' = [entry EXCEPT ![i].phase = "reserved"]
           /\ call' = Goes(c, "reserved") /\ order' = order
        \/ call[c].holds /\ Touch(Readied(i, call[c].view), i, Put(Woken(i), c, Done))
        \/ /\ entry' = entry /\ order' = order
           /\ \E next \in {Again(c), Done} : call' = Put(call, c, next)
  BY DEF Commit, Keep, pool, Put
<1>3. /\ chain[i] # <<>> /\ c \in Caller /\ call[c].pc = "committing" /\ call[c].on = i
      /\ Over(Again(c)) /\ Over(Done)
      /\ call[c].holds => entry[i].phase = "committing"
  BY <1>1, CommitFacts
<1>4. /\ entry \in Entries /\ chain \in Chains /\ call \in Calls /\ Placed(call)
      /\ Stock(entry, order, call) /\ Lent(call)
  BY PoolFacts
<1>5. /\ Again(c).holds => call[c].holds
      /\ Done.holds => call[c].holds
  BY <1>3, <1>4, NextHolds
<1>6. \A j : ~Lease(call[c], j)
  BY <1>3 DEF Lease, LeasePoint
<1>7. ASSUME NEW next, Over(next), next.holds => call[c].holds, NEW cs, Replaced(cs, i, c, next)
      PROVE  Onward(cs) /\ \A j : Level(call, cs, j)
  BY <1>3, <1>4, <1>6, <1>7, ReplacedLevel
<1>8. Settled
  <2>1. CASE /\ call[c].holds
             /\ entry' = [entry EXCEPT ![i].phase = "reserved"]
             /\ call' = Goes(c, "reserved") /\ order' = order
    <3>1. "reserved" \in CallPoint /\ "reserved" \notin LeasePoint /\ call[c].pc \notin LeasePoint
      BY <1>3 DEF CallPoint, LeasePoint
    <3>2. Onward(Goes(c, "reserved")) /\ \A j : Level(call, Goes(c, "reserved"), j)
      BY <1>3, <1>4, <3>1, GoesLevel
    <3>3. entry[i].phase # "absent" /\ "reserved" \notin {"absent", "ready"}
      BY <1>3, <2>1
    <3> QED  BY <1>4, <2>1, <3>2, <3>3, PhasedStock
  <2>2. CASE call[c].holds /\ Touch(Readied(i, call[c].view), i, Put(Woken(i), c, Done))
    <3> DEFINE cs == Put(Woken(i), c, Done)
    <3>1. Onward(cs) /\ \A j : Level(call, cs, j)
      BY <1>3, <1>5, <1>7 DEF Replaced
    <3>2. call[c].view \in Nat /\ entry[i].phase # "absent"
      BY <1>3, <1>4, <2>2, CallAt
    <3>3. Touch(Readied(i, call[c].view), i, cs)
      BY <2>2
    <3> HIDE DEF cs
    <3> QED  BY <1>4, <3>1, <3>2, <3>3, ReadiedStock
  <2>3. CASE /\ entry' = entry /\ order' = order
             /\ \E next \in {Again(c), Done} : call' = Put(call, c, next)
    <3>1. PICK next \in {Again(c), Done} : call' = Put(call, c, next)
      BY <2>3
    <3>2. Over(next) /\ (next.holds => call[c].holds)
      BY <1>3, <1>5
    <3>3. Onward(call') /\ \A j : Level(call, call', j)
      BY <1>7, <3>1, <3>2 DEF Replaced
    <3> QED  BY <1>4, <2>3, <3>3, KeptStock
  <2> QED  BY <1>2, <2>1, <2>2, <2>3
<1>9. NoStaler(chain, chain')
  BY <1>1, <1>3, <1>4, TailStale
<1>10. IInv'
  BY CommitStep
<1> QED
  BY <1>8, <1>9, <1>10, SettledPool

(* CommitAgain.                                                            *)
LEMMA CommitAgainPool == ASSUME IInv, Pool, NEW i \in Id, CommitAgain(i) PROVE Pool' /\ Spares
<1>1. Runs(i, "commit")
  BY DEF CommitAgain
<1>2. PICK c \in Running(i).who : Discard(i, c, Again(c))
  BY DEF CommitAgain
<1>3. chain[i] # <<>> /\ c \in Caller /\ call[c].on = i /\ Over(Again(c))
  BY <1>1, CommitFacts
<1>4. Again(c).holds => call[c].holds
  BY <1>3, NextHolds DEF IInv, Good
<1>5. IInv'
  BY CommitAgainStep
<1> QED
  BY <1>2, <1>3, <1>4, <1>5, DiscardedPool

(* CommitFails.                                                            *)
LEMMA CommitFailsPool == ASSUME IInv, Pool, NEW i \in Id, CommitFails(i) PROVE Pool' /\ Spares
<1>1. Runs(i, "commit")
  BY DEF CommitFails
<1>2. PICK c \in Running(i).who : Discard(i, c, Done)
  BY DEF CommitFails
<1>3. chain[i] # <<>> /\ c \in Caller /\ call[c].on = i /\ Over(Done)
  BY <1>1, CommitFacts
<1>4. Done.holds => call[c].holds
  BY <1>3, NextHolds DEF IInv, Good
<1>5. IInv'
  BY CommitFailsStep
<1> QED
  BY <1>2, <1>3, <1>4, <1>5, DiscardedPool

(* Check: a lease goes on, or ends, or loses its stale entry.              *)
LEMMA CheckPool == ASSUME IInv, Pool, NEW i \in Id, Check(i) PROVE Pool' /\ Spares
<1>1. Runs(i, "check")
  BY DEF Check
<1>2. PICK c \in Running(i).who :
        \/ Unpin(c) /\ chain' = [chain EXCEPT ![i] = Tail(chain[i])]
        \/ /\ entry' = entry /\ order' = order /\ call' = Goes(c, "leased")
           /\ chain' = [chain EXCEPT ![i] = Tail(chain[i])]
        \/ Discard(i, c, Again(c))
  BY DEF Check, Keep, pool, Dequeue, Rest
<1>3. /\ chain[i] # <<>> /\ c \in Caller
      /\ call[c].pc = "checking" /\ call[c].on = i /\ Over(Again(c))
  BY <1>1, CheckFacts
<1>4. /\ entry \in Entries /\ chain \in Chains /\ call \in Calls /\ Placed(call)
      /\ Stock(entry, order, call) /\ Lent(call)
  BY PoolFacts
<1>5. c \in Borrower /\ call[c].pc \in LeasePoint /\ "leased" \in CallPoint /\ "leased" \in LeasePoint
  BY <1>3, <1>4 DEF Lent, LeasePoint, CallPoint
<1>6. IInv'
  BY CheckStep
<1>7. CASE Discard(i, c, Again(c))
  <2>1. Again(c).holds => call[c].holds
    BY <1>3, <1>4, NextHolds
  <2> QED  BY <1>3, <1>6, <1>7, <2>1, DiscardedPool
<1>8. CASE Unpin(c) /\ chain' = [chain EXCEPT ![i] = Tail(chain[i])]
  <2>1. Settled
    BY <1>3, <1>4, <1>5, <1>8, UnpinnedStock
  <2>2. NoStaler(chain, chain')
    BY <1>3, <1>4, <1>8, TailStale
  <2> QED  BY <1>6, <2>1, <2>2, SettledPool
<1>9. CASE /\ entry' = entry /\ order' = order /\ call' = Goes(c, "leased")
           /\ chain' = [chain EXCEPT ![i] = Tail(chain[i])]
  <2>1. Onward(call') /\ \A j : Level(call, call', j)
    BY <1>3, <1>4, <1>5, <1>9, GoesLevel
  <2>2. Settled
    BY <1>4, <1>9, <2>1, KeptStock
  <2>3. NoStaler(chain, chain')
    BY <1>3, <1>4, <1>9, TailStale
  <2> QED  BY <1>6, <2>2, <2>3, SettledPool
<1> QED
  BY <1>2, <1>7, <1>8, <1>9

(* CheckFails: the lease ends.                                             *)
LEMMA CheckFailsPool == ASSUME IInv, Pool, NEW i \in Id, CheckFails(i) PROVE Pool' /\ Spares
<1>1. Runs(i, "check") /\ chain' = [chain EXCEPT ![i] = Tail(chain[i])]
  BY DEF CheckFails, Dequeue, Rest
<1>2. PICK c \in Running(i).who : Unpin(c)
  BY DEF CheckFails
<1>3. chain[i] # <<>> /\ c \in Caller /\ call[c].pc = "checking" /\ call[c].on = i
  BY <1>1, CheckFacts
<1>4. /\ entry \in Entries /\ chain \in Chains /\ call \in Calls /\ Placed(call)
      /\ Stock(entry, order, call) /\ Lent(call)
  BY PoolFacts
<1>5. c \in Borrower /\ call[c].pc \in LeasePoint
  BY <1>3, <1>4 DEF Lent, LeasePoint
<1>6. Settled
  BY <1>2, <1>3, <1>4, <1>5, UnpinnedStock
<1>7. NoStaler(chain, chain')
  BY <1>1, <1>3, <1>4, TailStale
<1>8. IInv'
  BY CheckFailsStep
<1> QED
  BY <1>6, <1>7, <1>8, SettledPool

(* The running operation ends, and its callers who had no lease.           *)
LEMMA EndedPool ==
  ASSUME IInv, IInv', Pool, NEW i \in Id, chain[i] # <<>>,
         NEW who, \A c \in who : call[c].pc \notin LeasePoint, call' = Ends(who),
         entry' = entry, order' = order, chain' = [chain EXCEPT ![i] = Tail(chain[i])]
  PROVE  Pool' /\ Spares
<1>1. /\ chain \in Chains /\ call \in Calls /\ Placed(call)
      /\ Stock(entry, order, call) /\ Lent(call)
  BY PoolFacts
<1>2. Onward(call') /\ \A j : Level(call, call', j)
  <2>1. \A c \in who : \A j : ~Lease(call[c], j)
    BY DEF Lease
  <2> QED  BY <1>1, <2>1, EndsLevel
<1>3. Settled
  BY <1>1, <1>2, KeptStock
<1>4. NoStaler(chain, chain')
  BY <1>1, TailStale
<1> QED
  BY <1>3, <1>4, SettledPool

(* Skip.                                                                   *)
LEMMA SkipPool == ASSUME IInv, Pool, NEW i \in Id, Skip(i) PROVE Pool' /\ Spares
<1>1. /\ chain[i] # <<>> /\ chain' = [chain EXCEPT ![i] = Tail(chain[i])]
      /\ entry' = entry /\ order' = order /\ call' = call
  BY DEF Skip, Runs, Dequeue, Rest, pool
<1>2. chain \in Chains /\ call \in Calls /\ Stock(entry, order, call) /\ Lent(call)
  BY PoolFacts
<1>3. Settled
  BY <1>1, <1>2, SameOnward, KeptStock
<1>4. NoStaler(chain, chain')
  BY <1>1, <1>2, TailStale
<1>5. IInv'
  BY SkipStep
<1> QED
  BY <1>3, <1>4, <1>5, SettledPool

(* An append that begins is another operation than one asked for.          *)
LEMMA Began ==
  ASSUME chain \in Chains, NEW i \in Id, Runs(i, "append"), NEW cs,
         Remove(i, Begins(i, "adopting"), cs)
  PROVE  chain'[i] # chain[i]
<1> DEFINE job == [Running(i) EXCEPT !.kind = "adopting"]
           t == Begins(i, "adopting")
<1>1. chain[i] \in Seq(JobRecord) /\ chain[i] # <<>> /\ Running(i).kind = "append"
  BY DEF Chains, Runs
<1>2. Running(i) = chain[i][1] /\ Running(i) \in JobRecord
  BY <1>1 DEF Running
<1>3. job \in JobRecord /\ job.kind = "adopting"
  BY <1>2 DEF JobRecord
<1> HIDE DEF job
<1>4. t = <<job>> \o Tail(chain[i])
  BY DEF Begins, Rest, job
<1>5. Tail(chain[i]) \in Seq(JobRecord)
  BY <1>1
<1>6. 1 \in DOMAIN t /\ t[1] = job
  BY <1>3, <1>4, <1>5
<1>7. chain'[i] = [k \in DOMAIN t |->
        IF t[k].kind = "load" THEN [t[k] EXCEPT !.current = FALSE] ELSE t[k]]
  BY DEF Remove, Chains
<1> HIDE DEF t
<1>8. chain'[i][1] = job
  BY <1>3, <1>6, <1>7
<1> QED
  BY <1>1, <1>2, <1>3, <1>8

(* An append goes on, beside the pool.                                     *)
LEMMA BegunPool ==
  ASSUME IInv, IInv', Pool, NEW i \in Id, chain[i] # <<>>, Running(i) = Head(chain[i]),
         entry' = entry, order' = order, call' = call,
         NEW kind, Begun(kind), chain' = [chain EXCEPT ![i] = Begins(i, kind)]
  PROVE  Pool' /\ Spares
<1>1. /\ chain \in Chains /\ call \in Calls /\ Stock(entry, order, call) /\ Lent(call)
  BY PoolFacts
<1>2. Settled
  BY <1>1, SameOnward, KeptStock
<1>3. chain' = [chain EXCEPT ![i] = <<[Head(chain[i]) EXCEPT !.kind = kind]>> \o Tail(chain[i])]
  BY DEF Begins, Rest
<1>4. NoStaler(chain, chain')
  BY <1>1, <1>3, BeganStale
<1> QED
  BY <1>2, <1>4, SettledPool

(* BeginAppend: adoption takes the entry by an operation on its log.       *)
LEMMA BeginAppendPool == ASSUME IInv, Pool, NEW i \in Id, BeginAppend(i) PROVE Pool' /\ Spares
<1>1. /\ Runs(i, "append")
      /\ \/ /\ entry' = entry /\ order' = order /\ call' = Ends(Running(i).who)
            /\ chain' = [chain EXCEPT ![i] = Tail(chain[i])]
         \/ /\ entry' = entry /\ order' = order /\ call' = call
            /\ \E kind : Begun(kind) /\ chain' = [chain EXCEPT ![i] = Begins(i, kind)]
         \/ Remove(i, Begins(i, "adopting"), call)
  BY DEF BeginAppend, Keep, pool, Dequeue, Rest, Begun
<1>2. chain[i] # <<>> /\ Running(i) = Head(chain[i])
      /\ \A c \in Running(i).who : call[c].pc \notin LeasePoint
  BY <1>1, RunningFacts DEF Asked, LeasePoint
<1>3. /\ entry \in Entries /\ chain \in Chains /\ call \in Calls /\ Placed(call)
      /\ Stock(entry, order, call) /\ Lent(call)
  BY PoolFacts
<1>4. Onward(call) /\ \A j : Level(call, call, j)
  BY <1>3, SameOnward
<1>5. IInv'
  BY BeginAppendStep
<1>6. CASE /\ entry' = entry /\ order' = order /\ call' = Ends(Running(i).who)
           /\ chain' = [chain EXCEPT ![i] = Tail(chain[i])]
  BY <1>2, <1>5, <1>6, EndedPool
<1>7. CASE /\ entry' = entry /\ order' = order /\ call' = call
           /\ \E kind : Begun(kind) /\ chain' = [chain EXCEPT ![i] = Begins(i, kind)]
  BY <1>2, <1>5, <1>7, BegunPool
<1>8. CASE Remove(i, Begins(i, "adopting"), call)
  <2>1. chain'[i] # chain[i]
    BY <1>1, <1>3, <1>8, Began
  <2> QED  BY <1>4, <1>5, <1>8, <2>1, RemovedPool
<1> QED
  BY <1>1, <1>6, <1>7, <1>8

(* Adopt.                                                                  *)
LEMMA AdoptPool == ASSUME IInv, Pool, NEW i \in Id, Adopt(i) PROVE Pool' /\ Spares
<1>1. /\ Runs(i, "adopting") /\ entry' = entry /\ order' = order /\ call' = call
      /\ chain' = [chain EXCEPT ![i] = Begins(i, "appending")] /\ Begun("appending")
  BY DEF Adopt, Keep, pool, Begun
<1>2. chain[i] # <<>> /\ Running(i) = Head(chain[i]) /\ IInv'
  BY <1>1, RunningFacts, AdoptStep
<1> QED
  BY <1>1, <1>2, BegunPool

(* AdoptFails.                                                             *)
LEMMA AdoptFailsPool == ASSUME IInv, Pool, NEW i \in Id, AdoptFails(i) PROVE Pool' /\ Spares
<1>1. /\ Runs(i, "adopting") /\ chain' = [chain EXCEPT ![i] = Tail(chain[i])]
      /\ entry' = entry /\ order' = order /\ call' = Ends(Running(i).who)
  BY DEF AdoptFails, Dequeue, Rest, Keep, pool
<1>2. chain[i] # <<>> /\ \A c \in Running(i).who : call[c].pc \notin LeasePoint
  BY <1>1, RunningFacts DEF Asked, LeasePoint
<1>3. IInv'
  BY AdoptFailsStep
<1> QED
  BY <1>1, <1>2, <1>3, EndedPool

(* EndAppend: so does the append itself.                                   *)
LEMMA EndAppendPool == ASSUME IInv, Pool, NEW i \in Id, EndAppend(i) PROVE Pool' /\ Spares
<1> DEFINE cs == [c \in Caller |-> IF c \in Running(i).who THEN Done ELSE Woken(i)[c]]
<1>1. Runs(i, "appending") /\ Remove(i, Rest(i), cs)
  BY DEF EndAppend
<1>2. chain[i] # <<>> /\ \A c \in Running(i).who : call[c].pc = "queued"
  BY <1>1, RunningFacts DEF Asked
<1>3. /\ entry \in Entries /\ chain \in Chains /\ call \in Calls /\ Placed(call)
      /\ Stock(entry, order, call) /\ Lent(call)
  BY PoolFacts
<1>4. Woken(i) \in Calls
  BY <1>3, WokenFacts
<1>5. \A c \in Caller : /\ Woken(i)[c].holds = call[c].holds
                        /\ Woken(i)[c].pc \in LeasePoint => Woken(i)[c] = call[c]
      /\ \A j : Level(call, Woken(i), j)
  BY <1>3, WokenLevel
<1>6. /\ Done \in CallRecord /\ Done.pc = "done" /\ Done.pc \notin LeasePoint /\ ~Done.holds
  BY DoneFacts DEF LeasePoint, Done, At
<1>7. \A c \in Caller : cs[c] = IF c \in Running(i).who THEN Done ELSE Woken(i)[c]
  OBVIOUS
<1>8. cs \in Calls
  BY <1>4, <1>6 DEF Calls
<1> HIDE DEF cs
<1>9. Borrower \subseteq Caller
  BY DEF Caller
<1>10. Onward(cs)
  <2>1. Poorer(call, cs)
    BY <1>5, <1>6, <1>7 DEF Poorer
  <2>2. Lent(cs)
    BY <1>3, <1>5, <1>6, <1>7 DEF Lent, LeasePoint
  <2> QED  BY <1>8, <2>1, <2>2 DEF Onward
<1>11. \A j : Level(call, cs, j)
  <2>1. ASSUME NEW j, NEW c \in Borrower PROVE Lease(cs[c], j) <=> Lease(call[c], j)
    <3>1. CASE c \in Running(i).who
      BY <1>2, <1>6, <1>7, <1>9, <3>1 DEF Lease, LeasePoint
    <3>2. CASE c \notin Running(i).who
      BY <1>5, <1>7, <1>9, <3>2 DEF Level
    <3> QED  BY <3>1, <3>2
  <2> QED  BY <2>1 DEF Level
<1>12. chain'[i] # chain[i]
  BY <1>1, <1>2, <1>3, Shorter
<1>13. IInv'
  BY EndAppendStep
<1> QED
  BY <1>1, <1>10, <1>11, <1>12, <1>13, RemovedPool

(* AppendFails.                                                            *)
LEMMA AppendFailsPool == ASSUME IInv, Pool, NEW i \in Id, AppendFails(i) PROVE Pool' /\ Spares
<1>1. /\ Runs(i, "appending") /\ chain' = [chain EXCEPT ![i] = Tail(chain[i])]
      /\ entry' = entry /\ order' = order /\ call' = Ends(Running(i).who)
  BY DEF AppendFails, Dequeue, Rest, Keep, pool
<1>2. chain[i] # <<>> /\ \A c \in Running(i).who : call[c].pc \notin LeasePoint
  BY <1>1, RunningFacts DEF Asked, LeasePoint
<1>3. IInv'
  BY AppendFailsStep
<1> QED
  BY <1>1, <1>2, <1>3, EndedPool

(* A step that leaves the pool, its callers and the chains alone.          *)
LEMMA SamePool ==
  ASSUME Pool, entry' = entry, order' = order, chain' = chain, call' = call
  PROVE  Pool' /\ Spares
  BY DEF Pool, Spares

(* ForeignWrite.                                                           *)
LEMMA ForeignWritePool == ASSUME IInv, Pool, NEW i \in Id, ForeignWrite(i) PROVE Pool' /\ Spares
<1>1. entry' = entry /\ order' = order /\ chain' = chain /\ call' = call
  BY DEF ForeignWrite, pool
<1> QED
  BY <1>1, SamePool

-----------------------------------------------------------------------------
(* The callers, in the same order.                                         *)

(* A lease ends, and no load becomes stale.                                *)
LEMMA UnpinnedPool ==
  ASSUME IInv, IInv', Pool, NEW c \in Borrower, call[c].pc \in LeasePoint, Unpin(c),
         NoStaler(chain, chain')
  PROVE  Pool' /\ Spares
<1>1. /\ entry \in Entries /\ call \in Calls /\ Placed(call)
      /\ Stock(entry, order, call) /\ Lent(call)
  BY PoolFacts
<1>2. call[c].on \in Id
  BY <1>1 DEF Placed, Sited, LeasePoint, Caller
<1>3. Settled
  BY <1>1, <1>2, UnpinnedStock
<1> QED
  BY <1>3, SettledPool

(* The pool stays, and so do the leases of the calls.                      *)
LEMMA KeptPool ==
  ASSUME IInv, IInv', Pool, entry' = entry, order' = order,
         Onward(call'), \A j : Level(call, call', j), NoStaler(chain, chain')
  PROVE  Pool' /\ Spares
<1>1. Stock(entry, order, call)
  BY PoolFacts
<1>2. Settled
  BY <1>1, KeptStock
<1> QED
  BY <1>2, SettledPool

(* The same chains have no more stale loads.                               *)
LEMMA SameStale == NoStaler(chain, chain)
  BY DEF NoStaler

(* Dispose.                                                                *)
LEMMA DisposePool == ASSUME IInv, Pool, NEW c \in Caller, Dispose(c) PROVE Pool' /\ Spares
<1>1. call[c].pc = "leased" /\ Unpin(c) /\ chain' = chain
  BY DEF Dispose
<1>2. c \in Borrower /\ call[c].pc \in LeasePoint
  BY <1>1, PoolFacts DEF Lent, LeasePoint
<1>3. NoStaler(chain, chain') /\ IInv'
  BY <1>1, SameStale, DisposeStep
<1> QED
  BY <1>1, <1>2, <1>3, UnpinnedPool

(* AbortWaiting.                                                           *)
LEMMA AbortWaitingPool == ASSUME IInv, Pool, NEW c \in Caller, AbortWaiting(c) PROVE Pool' /\ Spares
<1>1. /\ call[c].pc = "waiting" /\ entry' = entry /\ order' = order /\ call' = Ends({c})
      /\ chain' = chain
  BY DEF AbortWaiting, Keep, pool
<1>2. \A d \in {c} : \A j : ~Lease(call[d], j)
  BY <1>1 DEF Lease, LeasePoint
<1>3. Onward(call') /\ \A j : Level(call, call', j)
  BY <1>1, <1>2, PoolFacts, EndsLevel
<1>4. NoStaler(chain, chain') /\ IInv'
  BY <1>1, SameStale, AbortWaitingStep
<1> QED
  BY <1>1, <1>3, <1>4, KeptPool

(* AbortLoading.                                                           *)
LEMMA AbortLoadingPool == ASSUME IInv, Pool, NEW c \in Caller, AbortLoading(c) PROVE Pool' /\ Spares
<1>1. /\ call[c].pc = "loading" /\ chain' = [chain EXCEPT ![call[c].on] = NotFor(c, @)]
      /\ \/ c \in Borrower /\ Unpin(c)
         \/ c \notin Borrower /\ entry' = entry /\ order' = order /\ call' = Ends({c})
  BY DEF AbortLoading, Keep, pool
<1>2. chain \in Chains /\ call \in Calls /\ Placed(call) /\ Lent(call)
  BY PoolFacts
<1>3. call[c].on \in Id
  BY <1>1, <1>2 DEF Placed, Sited
<1>4. NoStaler(chain, chain') /\ IInv'
  BY <1>1, <1>2, <1>3, NotForStale, AbortLoadingStep
<1>5. CASE c \in Borrower /\ Unpin(c)
  BY <1>1, <1>4, <1>5, UnpinnedPool DEF LeasePoint
<1>6. CASE c \notin Borrower /\ entry' = entry /\ order' = order /\ call' = Ends({c})
  <2>1. Onward(call')
    BY <1>2, <1>6, EndsLevel
  <2>2. \A j : Level(call, call', j)
    <3>1. \A d \in Borrower : call'[d] = call[d]
      BY <1>2, <1>6, EndsFacts DEF Caller
    <3> QED  BY <3>1 DEF Level
  <2> QED  BY <1>4, <1>6, <2>1, <2>2, KeptPool
<1> QED
  BY <1>1, <1>5, <1>6

(* AbortCheck.                                                             *)
LEMMA AbortCheckPool == ASSUME IInv, Pool, NEW c \in Caller, AbortCheck(c) PROVE Pool' /\ Spares
<1>1. /\ call[c].pc = "checking" /\ chain' = [chain EXCEPT ![call[c].on] = NotFor(c, @)]
      /\ Unpin(c)
  BY DEF AbortCheck
<1>2. chain \in Chains /\ Placed(call) /\ Lent(call)
  BY PoolFacts
<1>3. call[c].on \in Id /\ c \in Borrower /\ call[c].pc \in LeasePoint
  BY <1>1, <1>2 DEF Placed, Sited, Lent, LeasePoint
<1>4. NoStaler(chain, chain') /\ IInv'
  BY <1>1, <1>2, <1>3, NotForStale, AbortCheckStep
<1> QED
  BY <1>1, <1>3, <1>4, UnpinnedPool

(* AbortCommit: the entry it gives up was not ready.                       *)
LEMMA AbortCommitPool == ASSUME IInv, Pool, NEW c \in Caller, AbortCommit(c) PROVE Pool' /\ Spares
<1> DEFINE i == call[c].on
           cs == Put(Woken(i), c, Done)
<1>1. /\ call[c].pc = "committing"
      /\ \/ call[c].holds /\ Remove(i, NotFor(c, chain[i]), cs)
         \/ /\ entry' = entry /\ order' = order /\ call' = Ends({c})
            /\ chain' = [chain EXCEPT ![i] = NotFor(c, @)]
  BY DEF AbortCommit, Keep, pool, Put
<1>2. chain \in Chains /\ call \in Calls /\ Placed(call) /\ Lent(call)
  BY PoolFacts
<1>3. i \in Id
  BY <1>1, <1>2 DEF Placed, Sited
<1> HIDE DEF i
<1>4. \A j : ~Lease(call[c], j)
  BY <1>1 DEF Lease, LeasePoint
<1>5. IInv'
  BY AbortCommitStep
<1>6. CASE call[c].holds /\ Remove(i, NotFor(c, chain[i]), cs)
  <2>1. entry[i].phase = "committing"
    <3>1. Exclusive(call[c])
      BY <1>1, <1>6 DEF Exclusive
    <3> QED  BY <1>1, <3>1, OneExclusive DEF i
  <2>2. Over(Done) /\ (Done.holds => call[c].holds)
    BY <1>2, <1>3, <1>6, AgainFacts DEF i
  <2>3. Onward(cs) /\ \A j : Level(call, cs, j)
    BY <1>2, <1>3, <1>4, <2>2, ReplacedLevel DEF Replaced
  <2> HIDE DEF cs
  <2>4. entry[i].phase # "ready"
    BY <2>1
  <2> QED  BY <1>3, <1>5, <1>6, <2>3, <2>4, RemovedPool
<1>7. CASE /\ entry' = entry /\ order' = order /\ call' = Ends({c})
           /\ chain' = [chain EXCEPT ![i] = NotFor(c, @)]
  <2>1. Onward(call') /\ \A j : Level(call, call', j)
    BY <1>2, <1>4, <1>7, EndsLevel
  <2>2. NoStaler(chain, chain')
    BY <1>2, <1>3, <1>7, NotForStale
  <2> QED  BY <1>5, <1>7, <2>1, <2>2, KeptPool
<1> QED
  BY <1>1, <1>6, <1>7

(* CallAppend.                                                             *)
LEMMA CallAppendPool == ASSUME IInv, Pool, NEW c \in Caller, CallAppend(c) PROVE Pool' /\ Spares
<1>1. PICK i \in Id : Queue(i, Job("append", {c}))
  BY DEF CallAppend
<1> DEFINE job == Job("append", {c})
<1>2. /\ c \in Writer /\ chain' = [chain EXCEPT ![i] = Append(@, job)]
      /\ entry' = entry /\ order' = order /\ call' = Goes(c, "queued")
  BY <1>1 DEF CallAppend, Queue, Keep, pool
<1>3. job \in JobRecord /\ ~Stale(job)
  BY JobFacts DEF Stale
<1> HIDE DEF job
<1>4. chain \in Chains /\ call \in Calls /\ Placed(call) /\ Lent(call)
  BY PoolFacts
<1>5. NoStaler(chain, chain')
  BY <1>2, <1>3, <1>4, QueueStale
<1>6. "queued" \in CallPoint /\ c \notin Borrower
  BY <1>2, CallersAssumption DEF CallPoint
<1>7. Onward(call') /\ \A j : Level(call, call', j)
  BY <1>2, <1>4, <1>6, GoesLevel
<1>8. IInv'
  BY CallAppendStep
<1> QED
  BY <1>2, <1>5, <1>7, <1>8, KeptPool

(* Borrow: the entry on lease is touched, or the lease ends.               *)
LEMMA BorrowPool == ASSUME IInv, Pool, NEW c \in Caller, Borrow(c) PROVE Pool' /\ Spares
<1> DEFINE i == call[c].on
           cs == Goes(c, "checking")
           job == Job("check", {c})
<1>1. /\ c \in Borrower /\ call[c].pc = "loaded"
      /\ \/ Unpin(c) /\ chain' = chain
         \/ /\ \/ entry[i].phase = "ready" /\ Touch(entry, i, cs)
               \/ entry' = entry /\ order' = order /\ call' = cs
            /\ chain' = [chain EXCEPT ![i] = Append(@, job)]
  BY DEF Borrow, Keep, pool, Queue
<1>2. /\ chain \in Chains /\ call \in Calls /\ Placed(call)
      /\ Stock(entry, order, call) /\ Lent(call)
  BY PoolFacts
<1>3. i \in Id /\ call[c].pc \in LeasePoint
  BY <1>1, <1>2 DEF Placed, Sited, LeasePoint
<1>4. IInv'
  BY BorrowStep
<1>5. CASE Unpin(c) /\ chain' = chain
  BY <1>1, <1>3, <1>4, <1>5, SameStale, UnpinnedPool
<1>6. CASE /\ \/ entry[i].phase = "ready" /\ Touch(entry, i, cs)
              \/ entry' = entry /\ order' = order /\ call' = cs
           /\ chain' = [chain EXCEPT ![i] = Append(@, job)]
  <2>1. job \in JobRecord /\ ~Stale(job)
    BY JobFacts DEF Stale
  <2> HIDE DEF job
  <2>2. NoStaler(chain, chain')
    BY <1>2, <1>3, <1>6, <2>1, QueueStale
  <2>3. "checking" \in CallPoint /\ "checking" \in LeasePoint
    BY DEF CallPoint, LeasePoint
  <2>4. Onward(cs) /\ \A j : Level(call, cs, j)
    BY <1>1, <1>2, <1>3, <2>3, GoesLevel
  <2> HIDE DEF cs
  <2>5. CASE entry[i].phase = "ready" /\ Touch(entry, i, cs)
    <3>1. Counted(entry, cs)
      <4>1. \A j \in Id : Holders(cs, j) = Holders(call, j)
        BY <2>4, LevelHolders
      <4> QED  BY <1>2, <4>1 DEF Stock, Counted
    <3>2. \A j \in Id, d \in Borrower : Lease(call[d], j) => Lease(cs[d], j) \/ cs[d].pc = "done"
      BY <2>4 DEF Level
    <3> HIDE DEF i
    <3>3. entry[i].phase # "absent" /\ entry[i].phase = "ready" /\ Touch(entry, i, cs)
      BY <2>5
    <3>4. Settled
      BY <1>2, <1>3, <2>4, <3>1, <3>2, <3>3, TouchedStock
    <3> QED  BY <1>4, <2>2, <3>4, SettledPool
  <2>6. CASE entry' = entry /\ order' = order /\ call' = cs
    BY <1>4, <2>2, <2>4, <2>6, KeptPool
  <2> QED  BY <1>6, <2>5, <2>6
<1> QED
  BY <1>1, <1>5, <1>6

(* Finish: the reserved entry leaves, or is ready again.                   *)
LEMMA FinishPool == ASSUME IInv, Pool, NEW c \in Caller, Finish(c) PROVE Pool' /\ Spares
<1> DEFINE i == call[c].on
           cs == Put(Woken(i), c, Done)
<1>1. /\ call[c].pc = "reserved"
      /\ \/ call[c].holds /\ Remove(i, chain[i], cs)
         \/ call[c].holds /\ Touch(Readied(i, call[c].view), i, cs) /\ chain' = chain
         \/ entry' = entry /\ order' = order /\ call' = Ends({c}) /\ chain' = chain
  BY DEF Finish, Keep, pool, Put
<1>2. /\ entry \in Entries /\ call \in Calls /\ Placed(call)
      /\ Stock(entry, order, call) /\ Lent(call)
  BY PoolFacts
<1>3. i \in Id /\ call[c].view \in Nat
  BY <1>1, <1>2, CallAt DEF Placed, Sited
<1> HIDE DEF i
<1>4. \A j : ~Lease(call[c], j)
  BY <1>1 DEF Lease, LeasePoint
<1>5. ASSUME call[c].holds PROVE entry[i].phase = "reserved"
  <2>1. Exclusive(call[c])
    BY <1>1, <1>5 DEF Exclusive
  <2> QED  BY <1>1, <2>1, OneExclusive DEF i
<1>6. ASSUME call[c].holds PROVE Onward(cs) /\ \A j : Level(call, cs, j)
  <2>1. Over(Done) /\ (Done.holds => call[c].holds)
    BY <1>2, <1>3, <1>6, AgainFacts DEF i
  <2> QED  BY <1>2, <1>3, <1>4, <2>1, ReplacedLevel DEF Replaced
<1> HIDE DEF cs
<1>7. IInv'
  BY FinishStep
<1>8. CASE call[c].holds /\ Remove(i, chain[i], cs)
  <2>1. entry[i].phase # "ready"
    BY <1>5, <1>8
  <2> QED  BY <1>3, <1>6, <1>7, <1>8, <2>1, RemovedPool
<1>9. CASE call[c].holds /\ Touch(Readied(i, call[c].view), i, cs) /\ chain' = chain
  <2>1. entry[i].phase # "absent"
    BY <1>5, <1>9
  <2>2. Settled
    BY <1>2, <1>3, <1>6, <1>9, <2>1, ReadiedStock
  <2> QED  BY <1>7, <1>9, <2>2, SameStale, SettledPool
<1>10. CASE entry' = entry /\ order' = order /\ call' = Ends({c}) /\ chain' = chain
  <2>1. Onward(call') /\ \A j : Level(call, call', j)
    BY <1>2, <1>4, <1>10, EndsLevel
  <2> QED  BY <1>7, <1>10, <2>1, SameStale, KeptPool
<1> QED
  BY <1>1, <1>8, <1>9, <1>10

(* Reserve: the entry is ready no more.                                    *)
LEMMA ReservePool == ASSUME IInv, Pool, NEW c \in Caller, Reserve(c) PROVE Pool' /\ Spares
<1> DEFINE i == call[c].on
           job == Job("commit", {c})
<1>1. /\ c \in Preparer /\ call[c].pc \in {"loaded", "woken"}
      /\ \/ /\ \E pc \in {"again", "waiting"} : call' = Goes(c, pc)
            /\ entry' = entry /\ order' = order /\ chain' = chain
         \/ /\ entry[i].phase = "ready"
            /\ entry' = [entry EXCEPT ![i].phase = "committing"] /\ order' = order
            /\ call' = Goes(c, "committing")
            /\ chain' = [chain EXCEPT ![i] = Append(@, job)]
  BY DEF Reserve, Keep, pool, Queue
<1>2. /\ entry \in Entries /\ chain \in Chains /\ call \in Calls /\ Placed(call)
      /\ Stock(entry, order, call) /\ Lent(call)
  BY PoolFacts
<1>3. i \in Id /\ c \notin Borrower
  BY <1>1, <1>2, CallersAssumption DEF Placed, Sited
<1>4. ASSUME NEW pc \in {"again", "waiting", "committing"}
      PROVE  Onward(Goes(c, pc)) /\ \A j : Level(call, Goes(c, pc), j)
  <2>1. pc \in CallPoint /\ pc \notin {"checking", "leased"}
    BY DEF CallPoint
  <2> QED  BY <1>2, <1>3, <2>1, GoesLevel
<1>5. IInv'
  BY ReserveStep
<1>6. CASE /\ \E pc \in {"again", "waiting"} : call' = Goes(c, pc)
           /\ entry' = entry /\ order' = order /\ chain' = chain
  <2>1. Onward(call') /\ \A j : Level(call, call', j)
    BY <1>4, <1>6
  <2> QED  BY <1>5, <1>6, <2>1, SameStale, KeptPool
<1>7. CASE /\ entry[i].phase = "ready"
           /\ entry' = [entry EXCEPT ![i].phase = "committing"] /\ order' = order
           /\ call' = Goes(c, "committing")
           /\ chain' = [chain EXCEPT ![i] = Append(@, job)]
  <2>1. Onward(call') /\ \A j : Level(call, call', j)
    BY <1>4, <1>7
  <2>2. job \in JobRecord /\ ~Stale(job)
    BY JobFacts DEF Stale
  <2> HIDE DEF job, i
  <2>3. Settled
    <3>1. entry[i].phase # "absent" /\ "committing" \notin {"absent", "ready"}
      BY <1>7
    <3> QED  BY <1>2, <1>3, <1>7, <2>1, <3>1, PhasedStock
  <2>4. NoStaler(chain, chain')
    BY <1>2, <1>3, <1>7, <2>2, QueueStale
  <2> QED  BY <1>5, <2>3, <2>4, SettledPool
<1> QED
  BY <1>1, <1>6, <1>7

(* A load that is shared is the pool's.                                    *)
LEMMA AlsoForStale ==
  ASSUME NEW ch \in Chains, NEW i \in Id, NEW c,
         NEW dh, dh = [ch EXCEPT ![i] = AlsoFor(c, @)]
  PROVE  NoStaler(ch, dh)
<1>1. ch[i] \in Seq(JobRecord)
  BY DEF Chains
<1>2. dh[i] = [k \in DOMAIN ch[i] |-> IF ch[i][k].kind = "load" /\ ch[i][k].current
                 THEN [ch[i][k] EXCEPT !.who = @ \cup {c}] ELSE ch[i][k]]
  BY DEF Chains, AlsoFor
<1>3. \A j \in Id \ {i} : dh[j] = ch[j]
  BY DEF Chains
<1>4. ASSUME NEW k \in DOMAIN dh[i], Stale(dh[i][k])
      PROVE  k \in DOMAIN ch[i] /\ dh[i][k] = ch[i][k]
  <2>1. k \in DOMAIN ch[i] /\ ch[i][k] \in JobRecord
    BY <1>1, <1>2
  <2>2. CASE ch[i][k].kind = "load" /\ ch[i][k].current
    <3>1. dh[i][k] = [ch[i][k] EXCEPT !.who = @ \cup {c}]
      BY <1>2, <2>1, <2>2
    <3>2. [ch[i][k] EXCEPT !.who = @ \cup {c}].current
      BY <2>1, <2>2 DEF JobRecord
    <3> QED  BY <1>4, <3>1, <3>2 DEF Stale
  <2>3. CASE ~(ch[i][k].kind = "load" /\ ch[i][k].current)
    BY <1>2, <2>1, <2>3
  <2> QED  BY <2>1, <2>2, <2>3
<1>5. ASSUME NEW j \in Id, NEW k \in DOMAIN dh[j], Stale(dh[j][k])
      PROVE  k \in DOMAIN ch[j] /\ dh[j][k] = ch[j][k]
  <2>1. CASE j = i
    BY <1>4, <1>5, <2>1
  <2>2. CASE j # i
    BY <1>3, <1>5, <2>2
  <2> QED  BY <2>1, <2>2
<1> QED
  BY <1>5 DEF NoStaler

(* A call that waits for no operation is given an entry, or ends.          *)
LEMMA GivenLoose ==
  ASSUME NEW ch, NEW dh \in Chains, NEW cs, NEW ds, JobsOK(ch, cs), Loose(ch, cs), NoStaler(ch, dh),
         NEW c, cs[c].pc \notin Waits, \A d \in Caller \ {c} : ds[d] = cs[d]
  PROVE  Loose(dh, ds)
<1>1. ASSUME NEW i \in Id, NEW k \in DOMAIN dh[i], NEW d \in dh[i][k].who, Stale(dh[i][k])
      PROVE  ~ds[d].holds
  <2>1. d \in Caller
    BY JobAt
  <2>2. PICK l \in DOMAIN ch[i] : Stale(ch[i][l]) /\ d \in ch[i][l].who
    BY <1>1 DEF NoStaler
  <2>3. ~cs[d].holds /\ Asked(cs[d], ch[i][l].kind, i)
    BY <2>2 DEF Loose, JobsOK
  <2>4. d # c
    BY <2>3 DEF Asked, Waits
  <2> QED  BY <2>1, <2>3, <2>4
<1> QED
  BY <1>1 DEF Loose

(* entryFor, by a call that does not wait for an operation.                *)
LEMMA EnterPool ==
  ASSUME IInv, Pool, NEW c \in Caller, NEW i \in Id, call[c].pc \in {"idle", "again"}, Enter(c, i)
  PROVE  Pool' /\ Spares
<1>1. /\ entry \in Entries /\ chain \in Chains /\ call \in Calls /\ Placed(call)
      /\ Stock(entry, order, call) /\ Loose(chain, call) /\ Lent(call) /\ JobsOK(chain, call)
  BY PoolFacts DEF IInv, Good
<1>2. Stock(entry', order', call') /\ Lent(call') /\ Spares
  BY <1>1, EnteredStock
<1> DEFINE job == Job("load", {c})
<1>3. /\ \/ chain' = chain
         \/ chain' = [chain EXCEPT ![i] = Append(@, job)]
         \/ chain' = [chain EXCEPT ![i] = AlsoFor(c, @)]
      /\ \/ call' = Ends({c})
         \/ \E pc \in {"loading", "loaded"} : \E view : Given(c, i, pc, view)
  BY DEF Enter, Keep, Queue
<1>4. job \in JobRecord /\ ~Stale(job)
  <2>1. job \in JobRecord
    BY JobFacts
  <2> QED  BY <2>1 DEF Stale, Job
<1> HIDE DEF job
<1>5. NoStaler(chain, chain')
  BY <1>1, <1>3, <1>4, SameStale, QueueStale, AlsoForStale
<1>6. \A d \in Caller \ {c} : call'[d] = call[d]
  <2>1. CASE call' = Ends({c})
    BY <1>1, <2>1, EndsFacts
  <2>2. CASE \E pc \in {"loading", "loaded"} : \E view : Given(c, i, pc, view)
    BY <1>1, <2>2 DEF Given, Calls
  <2> QED  BY <1>3, <2>1, <2>2
<1>7. chain' \in Chains
  <2>1. IInv'
    BY EnterStep
  <2> QED  BY <2>1 DEF IInv, Good
<1>8. Loose(chain', call')
  <2>1. call[c].pc \notin Waits
    BY DEF Waits
  <2> QED  BY <1>1, <1>5, <1>6, <1>7, <2>1, GivenLoose
<1> QED
  BY <1>2, <1>8 DEF Pool

(* Call.                                                                   *)
LEMMA CallPool == ASSUME IInv, Pool, NEW c \in Caller, Call(c) PROVE Pool' /\ Spares
<1>1. CASE call[c].pc = "idle" /\ \E i \in Id : Enter(c, i)
  BY <1>1, EnterPool
<1>2. CASE call[c].pc = "again" /\ Enter(c, call[c].on)
  <2>1. call[c].on \in Id
    BY <1>2 DEF IInv, Good, Placed, Sited
  <2> QED  BY <1>2, <2>1, EnterPool
<1> QED
  BY <1>1, <1>2 DEF Call

-----------------------------------------------------------------------------
(* The pool is in order in the beginning.                                  *)
LEMMA InitPool == Init => Pool
<1> SUFFICES ASSUME Init PROVE Pool
  OBVIOUS
<1>1. /\ \A i \in Id : entry[i] = NoEntry /\ chain[i] = <<>>
      /\ order = <<>> /\ \A c \in Caller : call[c] = At("idle")
  BY DEF Init
<1>2. NoEntry.phase = "absent" /\ NoEntry.pins = 0
  BY DEF NoEntry
<1>3. \A i, c : c \in Borrower => ~Lease(call[c], i)
  BY <1>1 DEF At, Lease, Caller
<1>4. Counted(entry, call)
  <2>1. \A i \in Id : Holders(call, i) = {}
    BY <1>3 DEF Holders
  <2> QED  BY <1>1, <1>2, <2>1, FS_EmptySet DEF Counted, PinnedBy
<1>5. Roomy(entry)
  <2>1. Ready(entry) = {}
    BY <1>1, <1>2 DEF Ready
  <2>2. IsFiniteSet({}) /\ Cardinality({}) = 0
    BY FS_EmptySet
  <2> QED  BY <2>1, <2>2 DEF Roomy
<1>6. Ordered(entry, order)
  <2>1. order \in Seq(Id) /\ Len(order) = 0
    BY <1>1
  <2> QED  BY <1>1, <1>2, <2>1 DEF Ordered, Once, Has
<1>7. Loose(chain, call)
  BY <1>1 DEF Loose
<1>8. Lent(call)
  BY <1>1 DEF Lent, At
<1> QED
  BY <1>4, <1>5, <1>6, <1>7, <1>8 DEF Pool, Stock

(* The step of every operation keeps it so.                                *)
LEMMA NextPool == ASSUME IInv, Pool, Next PROVE Pool' /\ Spares
<1>1. ASSUME NEW i \in Id, Storage(i) \/ ForeignWrite(i) PROVE Pool' /\ Spares
  BY <1>1, LoadPool, LoadFailsPool, CommitPool, CommitAgainPool, CommitFailsPool, CheckPool,
     CheckFailsPool, SkipPool, BeginAppendPool, AdoptPool, AdoptFailsPool, EndAppendPool, AppendFailsPool,
     ForeignWritePool DEF Storage
<1>2. ASSUME NEW c \in Caller,
             \/ Call(c) \/ Reserve(c) \/ Borrow(c) \/ Finish(c) \/ Dispose(c) \/ CallAppend(c)
             \/ AbortLoading(c) \/ AbortWaiting(c) \/ AbortCommit(c) \/ AbortCheck(c)
      PROVE  Pool' /\ Spares
  BY <1>2, CallPool, ReservePool, BorrowPool, FinishPool, DisposePool, CallAppendPool,
     AbortLoadingPool, AbortWaitingPool, AbortCommitPool, AbortCheckPool
<1> QED
  BY <1>1, <1>2 DEF Next

(* So does any step.                                                       *)
LEMMA PoolStep == IInv /\ Pool /\ [Next]_vars => Pool' /\ Spares
<1> SUFFICES ASSUME IInv, Pool, [Next]_vars PROVE Pool' /\ Spares
  OBVIOUS
<1>1. CASE Next
  BY <1>1, NextPool
<1>2. CASE UNCHANGED vars
  <2>1. entry' = entry /\ order' = order /\ chain' = chain /\ call' = call
    BY <1>2 DEF vars, pool, storage
  <2> QED  BY <2>1, SamePool
<1> QED
  BY <1>1, <1>2

(* Pins and leases agree, then, and only leases exceed the capacity.       *)
LEMMA CountedFromPool == Pool => LeasesAreCounted
<1> SUFFICES ASSUME Pool PROVE LeasesAreCounted
  OBVIOUS
<1>1. Counted(entry, call) /\ Roomy(entry)
  BY DEF Pool, Stock
<1>2. \A i \in Id : \A c \in Borrower : Leases(c, i) <=> Lease(call[c], i)
  BY DEF Leases, Lease, LeasePoint
<1>3. ASSUME NEW i \in Id
      PROVE  /\ {c \in Borrower : Leases(c, i)} = Holders(call, i)
             /\ entry[i].pins = Cardinality(Holders(call, i))
  BY <1>1, <1>2 DEF Holders, Counted, PinnedBy
<1>4. ASSUME Cardinality(Ready(entry)) > Capacity, NEW i \in Ready(entry)
      PROVE  \E c \in Borrower : Leases(c, i)
  <2>1. i \in Id /\ entry[i].pins # 0
    BY <1>1, <1>4 DEF Ready, Roomy
  <2>2. Holders(call, i) # {}
    BY <1>3, <2>1, FS_EmptySet
  <2>3. PICK c \in Borrower : Lease(call[c], i)
    BY <2>2 DEF Holders
  <2> QED  BY <1>2, <2>1, <2>3
<1> QED
  BY <1>3, <1>4 DEF LeasesAreCounted

(* An entry is pinned exactly by the leases on it, and the pool exceeds    *)
(* its capacity only by entries on lease (touch, borrow): for any number   *)
(* of callers and sessions, and any capacity.                              *)
THEOREM LeasesAreCountedAlways == Spec => []LeasesAreCounted
<1>1. Init => IInv /\ Pool
  BY InitGood, InitPool
<1>2. IInv /\ Pool /\ [Next]_vars => IInv' /\ Pool'
  BY NextStep, PoolStep
<1> QED
  BY <1>1, <1>2, CountedFromPool, PTL DEF Spec

(* No step takes an entry on lease out of the pool but one on the log of   *)
(* its session (touch, borrow).                                            *)
THEOREM LeaseKeepsEntryAlways == Spec => LeaseKeepsEntry
<1>1. Init => IInv /\ Pool
  BY InitGood, InitPool
<1>2. IInv /\ Pool /\ [Next]_vars => IInv' /\ Pool'
  BY NextStep, PoolStep
<1>3. IInv /\ Pool /\ [Next]_vars =>
        [\A i \in Id, c \in Borrower :
           Leases(c, i) /\ call'[c].pc # "done" /\ entry[i].phase = "ready" /\ entry'[i].phase = "absent"
             => chain'[i] # chain[i]]_vars
  <2>1. \A i \in Id : \A c \in Borrower : Leases(c, i) <=> Lease(call[c], i)
    BY DEF Leases, Lease, LeasePoint
  <2> QED  BY <2>1, PoolStep DEF Spares
<1> QED
  BY <1>1, <1>2, <1>3, PTL DEF Spec, LeaseKeepsEntry

-----------------------------------------------------------------------------
(* What the coordinator knows of a log, and of published sessions.         *)
Flags == tracked \in [Id -> BOOLEAN] /\ live \in [Id -> BOOLEAN]

(* An operation on a log may make it known; nothing else does.             *)
LEMMA FlagsStorage ==
  ASSUME NEW i \in Id, Storage(i) \/ ForeignWrite(i)
  PROVE  /\ tracked' = tracked \/ tracked' = [tracked EXCEPT ![i] = TRUE]
         /\ live' = live
<1>1. Load(i) \/ LoadFails(i) => tracked' = tracked /\ live' = live
  BY DEF Load, LoadFails, storage
<1>2. Commit(i) \/ CommitAgain(i) \/ CommitFails(i) =>
        live' = live /\ (tracked' = tracked \/ tracked' = [tracked EXCEPT ![i] = TRUE])
  BY DEF Commit, CommitAgain, CommitFails
<1>3. Check(i) \/ CheckFails(i) \/ Skip(i) => tracked' = tracked /\ live' = live
  BY DEF Check, CheckFails, Skip, storage
<1>4. BeginAppend(i) \/ Adopt(i) \/ AdoptFails(i) =>
        live' = live /\ (tracked' = tracked \/ tracked' = [tracked EXCEPT ![i] = TRUE])
  BY DEF BeginAppend, Adopt, AdoptFails, storage
<1>5. EndAppend(i) \/ AppendFails(i) \/ ForeignWrite(i) => tracked' = tracked /\ live' = live
  BY DEF EndAppend, AppendFails, ForeignWrite
<1> QED
  BY <1>1, <1>2, <1>3, <1>4, <1>5 DEF Storage

(* The owner of a reservation may publish its session; nobody else does.   *)
LEMMA FlagsCaller ==
  ASSUME NEW c \in Caller,
         \/ Call(c) \/ Reserve(c) \/ Borrow(c) \/ Finish(c) \/ Dispose(c) \/ CallAppend(c)
         \/ AbortLoading(c) \/ AbortWaiting(c) \/ AbortCommit(c) \/ AbortCheck(c)
  PROVE  /\ tracked' = tracked
         /\ live' = live \/ \E published \in BOOLEAN : live' = [live EXCEPT ![call[c].on] = published]
<1>1. Call(c) => tracked' = tracked /\ live' = live
  BY DEF Call, Enter, storage
<1>2. Reserve(c) \/ Borrow(c) => tracked' = tracked /\ live' = live
  BY DEF Reserve, Borrow, storage
<1>3. Finish(c) =>
        /\ tracked' = tracked
        /\ live' = live \/ \E published \in BOOLEAN : live' = [live EXCEPT ![call[c].on] = published]
  BY DEF Finish
<1>4. Dispose(c) \/ CallAppend(c) => tracked' = tracked /\ live' = live
  BY DEF Dispose, CallAppend, storage
<1>5. AbortLoading(c) \/ AbortWaiting(c) \/ AbortCommit(c) \/ AbortCheck(c) =>
        tracked' = tracked /\ live' = live
  BY DEF AbortLoading, AbortWaiting, AbortCommit, AbortCheck, storage
<1> QED
  BY <1>1, <1>2, <1>3, <1>4, <1>5

(* So they keep their type.                                                *)
LEMMA FlagsStep == Flags /\ [Next]_vars => Flags'
<1> SUFFICES ASSUME Flags, [Next]_vars PROVE Flags'
  OBVIOUS
<1>1. ASSUME NEW i \in Id, Storage(i) \/ ForeignWrite(i) PROVE Flags'
  BY <1>1, FlagsStorage DEF Flags
<1>2. ASSUME NEW c \in Caller,
             \/ Call(c) \/ Reserve(c) \/ Borrow(c) \/ Finish(c) \/ Dispose(c) \/ CallAppend(c)
             \/ AbortLoading(c) \/ AbortWaiting(c) \/ AbortCommit(c) \/ AbortCheck(c)
      PROVE  Flags'
  BY <1>2, FlagsCaller DEF Flags
<1>3. CASE UNCHANGED vars
  BY <1>3 DEF Flags, vars, storage
<1> QED
  BY <1>1, <1>2, <1>3 DEF Next

(* The invariants say of the variables what their types ask.               *)
LEMMA TypesFromPool == IInv /\ Pool /\ Flags => TypeOK
<1> SUFFICES ASSUME IInv, Pool, Flags PROVE TypeOK
  OBVIOUS
<1>1. /\ entry \in Entries /\ call \in Calls
      /\ revision \in [Id -> Nat] /\ damaged \in [Id -> BOOLEAN]
  BY DEF IInv, Good
<1>2. Counted(entry, call) /\ Ordered(entry, order)
  BY DEF Pool, Stock
<1>3. entry \in [Id -> [phase : Phase, source : Nat, pins : Nat]]
  <2>1. ASSUME NEW i \in Id PROVE entry[i] \in [phase : Phase, source : Nat, pins : Nat]
    <3>1. entry[i] \in EntryRecord
      BY <1>1 DEF Entries
    <3>2. entry[i].pins \in Nat
      BY <1>2, FS_CardinalityType DEF Counted, PinnedBy
    <3> QED  BY <3>1, <3>2 DEF EntryRecord
  <2> QED  BY <1>1, <2>1 DEF Entries
<1>4. order \in Seq(Id) /\ DOMAIN order = 1 .. Len(order)
  BY <1>2 DEF Ordered, Once
<1>5. \A i \in Id : (entry[i].phase # "absent") = (\E k \in DOMAIN order : order[k] = i)
  BY <1>2, <1>4 DEF Ordered, Has
<1>6. \A j, k \in DOMAIN order : order[j] = order[k] => j = k
  BY <1>2, <1>4 DEF Ordered, Once
<1>7. call \in [Caller -> [pc : CallPoint, on : Id \cup {NoId}, holds : BOOLEAN, view : Nat]]
  BY <1>1 DEF Calls, CallRecord
<1> QED
  BY <1>1, <1>3, <1>5, <1>6, <1>7 DEF TypeOK, Flags, CallPoint

(* Every variable of Preparations has its type: no pin is given back       *)
(* twice, and the order has every entry of the pool, once.                 *)
THEOREM TypeOKAlways == Spec => []TypeOK
<1>1. Init => IInv /\ Pool /\ Flags
  <2>1. Init => Flags
    BY DEF Init, Flags
  <2> QED  BY <2>1, InitGood, InitPool
<1>2. IInv /\ Pool /\ Flags /\ [Next]_vars => IInv' /\ Pool' /\ Flags'
  BY NextStep, PoolStep, FlagsStep
<1> QED
  BY <1>1, <1>2, TypesFromPool, PTL DEF Spec
=============================================================================

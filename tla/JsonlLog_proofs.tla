-------------------------- MODULE JsonlLog_proofs --------------------------
(***************************************************************************)
(* What JsonlLog promises for every number of events, faults and crashes:  *)
(* a session's file can always be read, what is read of it is a well       *)
(* nested history, and while no append handle fails to close the records   *)
(* that were acknowledged survive and the coordinator's cursor agrees with *)
(* the file.  The inductive invariant IInv says of the disk that all a     *)
(* power loss may leave is readable (DiskInv), of the session that the     *)
(* file holds the beginning of its log (SessionInv), and of an operation   *)
(* in progress what the file was before it wrote (StepInv, Stem); the      *)
(* Sound parts are what a failed close breaks.  Before it come lemmas on   *)
(* prefixes, on Valid, on histories and on files.                          *)
(***************************************************************************)
EXTENDS JsonlLog, Integers, SequenceTheorems, WellFoundedInduction, TLAPS

(* A stored record; and sequences of them that are a session's history.    *)
Rec == [seq : Nat, kind : Kind]

Nested(s) == \A i \in 1 .. Len(s) : s[i].kind \in Follows(SubSeq(s, 1, i - 1))
Hist(s)   == s \in Seq(Rec) /\ Contiguous(s) /\ Nested(s)

-----------------------------------------------------------------------------
(* Prefixes.                                                               *)

(* The first k elements of a sequence.                                     *)
LEMMA Prefixed ==
  ASSUME NEW S, NEW s \in Seq(S), NEW k \in 0 .. Len(s)
  PROVE  /\ SubSeq(s, 1, k) \in Seq(S) /\ Len(SubSeq(s, 1, k)) = k
         /\ \A i \in 1 .. k : SubSeq(s, 1, k)[i] = s[i]
  OBVIOUS

(* And a piece of it.                                                      *)
LEMMA Piece ==
  ASSUME NEW S, NEW s \in Seq(S), NEW c \in 0 .. Len(s), NEW k \in c .. Len(s)
  PROVE  /\ SubSeq(s, c + 1, k) \in Seq(S) /\ Len(SubSeq(s, c + 1, k)) = k - c
         /\ \A i \in 1 .. k - c : SubSeq(s, c + 1, k)[i] = s[c + i]
  OBVIOUS

(* Two sequences joined.                                                   *)
LEMMA Joined ==
  ASSUME NEW S, NEW s \in Seq(S), NEW t \in Seq(S)
  PROVE  /\ s \o t \in Seq(S) /\ Len(s \o t) = Len(s) + Len(t)
         /\ \A i \in 1 .. Len(s) : (s \o t)[i] = s[i]
         /\ \A i \in 1 .. Len(t) : (s \o t)[Len(s) + i] = t[i]
  OBVIOUS

(* Sequences with the same elements are the same.                          *)
LEMMA Same ==
  ASSUME NEW S, NEW s \in Seq(S), NEW t \in Seq(S), Len(s) = Len(t),
         \A i \in 1 .. Len(s) : s[i] = t[i]
  PROVE  s = t
  BY SeqEqual

(* What a prefix is.                                                       *)
LEMMA PrefixAt ==
  ASSUME NEW S, NEW s \in Seq(S), NEW t \in Seq(S)
  PROVE  /\ IsPrefix(s, t) <=> Len(s) <= Len(t) /\ \A i \in 1 .. Len(s) : s[i] = t[i]
         /\ IsPrefix(s, t) <=> Len(s) <= Len(t) /\ s = SubSeq(t, 1, Len(s))
<1>1. SubSeq(s, 1, Len(s)) = s
  BY SubSeqFull
<1>2. Len(s) \in Nat /\ Len(t) \in Nat
  OBVIOUS
<1>3. ASSUME Len(s) <= Len(t)
      PROVE  s = SubSeq(t, 1, Len(s)) <=> \A i \in 1 .. Len(s) : s[i] = t[i]
  <2>1. /\ SubSeq(t, 1, Len(s)) \in Seq(S) /\ Len(SubSeq(t, 1, Len(s))) = Len(s)
        /\ \A i \in 1 .. Len(s) : SubSeq(t, 1, Len(s))[i] = t[i]
    BY <1>2, <1>3, Prefixed
  <2> QED  BY <2>1, Same
<1> QED
  BY <1>1, <1>3 DEF IsPrefix

(* A set of naturals has a least element.                                  *)
LEMMA Least ==
  ASSUME NEW T, T \subseteq Nat, T # {}
  PROVE  \E n \in T : \A k \in T : n <= k
<1> DEFINE Below == {ss \in Nat \X Nat : ss[1] < ss[2]}
<1>1. IsWellFoundedOn(Below, Nat)
  BY NatLessThanWellFounded DEF OpToRel
<1>2. \A k, n \in Nat : k < n => <<k, n>> \in Below
  OBVIOUS
<1> HIDE DEF Below
<1>3. PICK n \in T : \A k \in T : <<k, n>> \notin Below
  BY <1>1, WFMin
<1>4. ASSUME NEW k \in T PROVE n <= k
  <2>1. k \in Nat /\ n \in Nat /\ <<k, n>> \notin Below
    BY <1>3
  <2>2. ~(k < n)
    BY <1>2, <2>1
  <2> QED  BY <2>1, <2>2
<1> QED
  BY <1>4

-----------------------------------------------------------------------------
(* The valid prefix of a file's records.                                   *)

(* Up to k the records continue one another, and the next one does not.    *)
BreaksAt(s, k) ==
  /\ k \in 0 .. Len(s)
  /\ \A i \in 1 .. k : s[i].seq = i - 1
  /\ k < Len(s) => s[k + 1].seq # k

(* Records break off somewhere.                                            *)
LEMMA Breaks ==
  ASSUME NEW s \in Seq(Rec)
  PROVE  \E k \in 0 .. Len(s) : BreaksAt(s, k)
<1> DEFINE Gaps == {k \in 0 .. Len(s) - 1 : s[k + 1].seq # k}
<1>1. Len(s) \in Nat
  OBVIOUS
<1>2. CASE Gaps = {}
  <2>1. \A i \in 1 .. Len(s) : s[i].seq = i - 1
    <3>1. ASSUME NEW i \in 1 .. Len(s) PROVE s[i].seq = i - 1
      <4>1. i - 1 \in 0 .. Len(s) - 1 /\ (i - 1) + 1 = i
        BY <1>1
      <4> QED  BY <1>2, <4>1
    <3> QED  BY <3>1
  <2> QED  BY <1>1, <2>1 DEF BreaksAt
<1>3. CASE Gaps # {}
  <2>1. PICK k \in Gaps : \A j \in Gaps : k <= j
    <3>1. Gaps \subseteq Nat
      BY <1>1
    <3> QED  BY ONLY <1>3, <3>1, Least
  <2>2. k \in 0 .. Len(s) - 1 /\ s[k + 1].seq # k
    OBVIOUS
  <2>3. ASSUME NEW i \in 1 .. k PROVE s[i].seq = i - 1
    <3>1. i - 1 \in 0 .. Len(s) - 1 /\ (i - 1) + 1 = i /\ ~(k <= i - 1)
      BY <1>1, <2>2
    <3>2. i - 1 \notin Gaps
      BY <2>1, <3>1
    <3> QED  BY <3>1, <3>2
  <2> QED  BY <1>1, <2>2, <2>3 DEF BreaksAt
<1> QED
  BY <1>2, <1>3

(* They break off at one place, and Valid is what comes before.            *)
LEMMA ValidIs ==
  ASSUME NEW s \in Seq(Rec), NEW k, BreaksAt(s, k)
  PROVE  Valid(s) = SubSeq(s, 1, k)
<1> DEFINE Ok(p) == Contiguous(p) /\ (Len(p) < Len(s) => s[Len(p) + 1].seq # Len(p))
           Ps    == {SubSeq(s, 1, n) : n \in 0 .. Len(s)}
<1>1. k \in 0 .. Len(s) /\ Len(s) \in Nat
  BY DEF BreaksAt
<1>2. SubSeq(s, 1, k) \in Ps /\ Ok(SubSeq(s, 1, k))
  <2>1. Len(SubSeq(s, 1, k)) = k /\ \A i \in 1 .. k : SubSeq(s, 1, k)[i] = s[i]
    BY <1>1, Prefixed
  <2> QED  BY <1>1, <2>1 DEF BreaksAt, Contiguous
<1>3. ASSUME NEW p \in Ps, Ok(p) PROVE p = SubSeq(s, 1, k)
  <2>1. PICK n \in 0 .. Len(s) : p = SubSeq(s, 1, n)
    OBVIOUS
  <2>2. Len(p) = n /\ \A i \in 1 .. n : p[i] = s[i]
    BY <2>1, Prefixed
  <2>3. (n < Len(s) => s[n + 1].seq # n) /\ \A i \in 1 .. n : s[i].seq = i - 1
    BY <1>3, <2>2 DEF Contiguous
  <2>4. ~(n < k)
    <3>1. n < k => n + 1 \in 1 .. k /\ n < Len(s) /\ (n + 1) - 1 = n
      BY <1>1
    <3> QED  BY <2>3, <3>1 DEF BreaksAt
  <2>5. ~(k < n)
    <3>1. k < n => k + 1 \in 1 .. n /\ k < Len(s) /\ (k + 1) - 1 = k
      BY <1>1
    <3> QED  BY <2>3, <3>1 DEF BreaksAt
  <2>6. n = k
    BY <1>1, <2>4, <2>5
  <2> QED  BY <2>1, <2>6
<1>4. Valid(s) = CHOOSE p \in Ps : Ok(p)
  BY DEF Valid
<1> HIDE DEF Ps, Ok
<1> QED
  BY <1>2, <1>3, <1>4

(* The valid prefix is a contiguous prefix, and what continues from 0 is   *)
(* all valid.                                                              *)
LEMMA ValidFacts ==
  ASSUME NEW s \in Seq(Rec)
  PROVE  /\ Valid(s) \in Seq(Rec) /\ Contiguous(Valid(s))
         /\ \E k \in 0 .. Len(s) : Valid(s) = SubSeq(s, 1, k) /\ Len(Valid(s)) = k
         /\ Contiguous(s) => Valid(s) = s
         /\ ~Contiguous(s) => Len(Valid(s)) < Len(s)
<1>1. PICK k \in 0 .. Len(s) : BreaksAt(s, k)
  BY Breaks
<1>2. Valid(s) = SubSeq(s, 1, k)
  BY <1>1, ValidIs
<1>3. /\ Valid(s) \in Seq(Rec) /\ Len(Valid(s)) = k /\ Len(s) \in Nat
      /\ \A i \in 1 .. k : Valid(s)[i] = s[i]
  BY <1>2, Prefixed
<1>4. Contiguous(Valid(s))
  BY <1>1, <1>3 DEF BreaksAt, Contiguous
<1>5. ASSUME Contiguous(s) PROVE k = Len(s)
  <2>1. k < Len(s) => k + 1 \in 1 .. Len(s) /\ (k + 1) - 1 = k
    BY <1>3
  <2> QED  BY <1>1, <1>3, <1>5, <2>1 DEF BreaksAt, Contiguous
<1>6. Contiguous(s) => Valid(s) = s
  BY <1>2, <1>5, SubSeqFull
<1>7. ~Contiguous(s) => k < Len(s)
  BY <1>1, <1>3 DEF BreaksAt, Contiguous
<1> QED
  BY <1>2, <1>3, <1>4, <1>6, <1>7

(* What follows a gap, or does not continue, adds nothing.                 *)
LEMMA ValidJoined ==
  ASSUME NEW s \in Seq(Rec), NEW t \in Seq(Rec)
  PROVE  /\ ~Contiguous(s) => Valid(s \o t) = Valid(s)
         /\ Contiguous(s) /\ (t = <<>> \/ t[1].seq # Len(s)) => Valid(s \o t) = s
<1>1. PICK k \in 0 .. Len(s) : BreaksAt(s, k)
  BY Breaks
<1>2. /\ s \o t \in Seq(Rec) /\ Len(s \o t) = Len(s) + Len(t) /\ Len(s) \in Nat /\ Len(t) \in Nat
      /\ \A i \in 1 .. Len(s) : (s \o t)[i] = s[i]
      /\ \A i \in 1 .. Len(t) : (s \o t)[Len(s) + i] = t[i]
  BY Joined
<1>3. ASSUME k < Len(s) PROVE BreaksAt(s \o t, k)
  <2>1. k \in 0 .. Len(s) + Len(t) /\ k + 1 \in 1 .. Len(s) /\ \A i \in 1 .. k : i \in 1 .. Len(s)
    BY <1>2, <1>3
  <2> QED  BY <1>1, <1>2, <2>1 DEF BreaksAt
<1>4. ASSUME k = Len(s), t = <<>> \/ t[1].seq # Len(s) PROVE BreaksAt(s \o t, k)
  <2>1. k \in 0 .. Len(s) + Len(t)
    BY <1>2
  <2>2. k < Len(s) + Len(t) => 1 \in 1 .. Len(t) /\ (s \o t)[k + 1] = t[1] /\ t # <<>>
    BY <1>2, <1>4
  <2> QED  BY <1>1, <1>2, <1>4, <2>1, <2>2 DEF BreaksAt
<1>5. k = Len(s) <=> Contiguous(s)
  <2>1. k = Len(s) => Contiguous(s)
    BY <1>1 DEF BreaksAt, Contiguous
  <2>2. k < Len(s) => ~Contiguous(s)
    <3>1. k < Len(s) => k + 1 \in 1 .. Len(s) /\ (k + 1) - 1 = k
      BY <1>2
    <3> QED  BY <1>1, <3>1 DEF BreaksAt, Contiguous
  <2> QED  BY <1>2, <2>1, <2>2
<1>6. SubSeq(s \o t, 1, k) = SubSeq(s, 1, k)
  <2>1. k \in 0 .. Len(s) + Len(t) /\ \A i \in 1 .. k : i \in 1 .. Len(s)
    BY <1>2
  <2>2. /\ SubSeq(s, 1, k) \in Seq(Rec) /\ Len(SubSeq(s, 1, k)) = k
        /\ \A i \in 1 .. k : SubSeq(s, 1, k)[i] = s[i]
    BY Prefixed
  <2>3. /\ SubSeq(s \o t, 1, k) \in Seq(Rec) /\ Len(SubSeq(s \o t, 1, k)) = k
        /\ \A i \in 1 .. k : SubSeq(s \o t, 1, k)[i] = (s \o t)[i]
    BY <1>2, <2>1, Prefixed
  <2> QED  BY <1>2, <2>1, <2>2, <2>3, Same
<1>7. Valid(s) = SubSeq(s, 1, k)
  BY <1>1, ValidIs
<1>8. BreaksAt(s \o t, k) => Valid(s \o t) = SubSeq(s \o t, 1, k)
  BY <1>2, ValidIs
<1>9. k = Len(s) => SubSeq(s, 1, k) = s
  BY SubSeqFull
<1> QED
  BY <1>1, <1>2, <1>3, <1>4, <1>5, <1>6, <1>7, <1>8, <1>9

-----------------------------------------------------------------------------
(* Histories.                                                              *)

(* A prefix of a history is one.                                           *)
LEMMA HistPrefix ==
  ASSUME NEW s, Hist(s), NEW k \in 0 .. Len(s)
  PROVE  Hist(SubSeq(s, 1, k))
<1> DEFINE p == SubSeq(s, 1, k)
<1>1. s \in Seq(Rec) /\ Len(s) \in Nat /\ k \in Nat
  BY DEF Hist
<1>2. p \in Seq(Rec) /\ Len(p) = k /\ \A i \in 1 .. k : i \in 1 .. Len(s) /\ p[i] = s[i]
  BY <1>1, Prefixed
<1>3. Contiguous(p)
  BY <1>2 DEF Hist, Contiguous
<1>4. ASSUME NEW i \in 1 .. k PROVE p[i].kind \in Follows(SubSeq(p, 1, i - 1))
  <2>1. i - 1 \in 0 .. k /\ i - 1 \in 0 .. Len(s) /\ i \in 1 .. Len(s)
        /\ \A j \in 1 .. i - 1 : j \in 1 .. k
    BY <1>1
  <2>2. /\ SubSeq(p, 1, i - 1) \in Seq(Rec) /\ Len(SubSeq(p, 1, i - 1)) = i - 1
        /\ \A j \in 1 .. i - 1 : SubSeq(p, 1, i - 1)[j] = p[j]
    BY <1>2, <2>1, Prefixed
  <2>3. /\ SubSeq(s, 1, i - 1) \in Seq(Rec) /\ Len(SubSeq(s, 1, i - 1)) = i - 1
        /\ \A j \in 1 .. i - 1 : SubSeq(s, 1, i - 1)[j] = s[j]
    BY <1>1, <2>1, Prefixed
  <2>4. SubSeq(p, 1, i - 1) = SubSeq(s, 1, i - 1)
    BY <1>2, <2>1, <2>2, <2>3, Same
  <2> QED  BY <1>2, <2>1, <2>4 DEF Hist, Nested
<1> QED
  BY <1>2, <1>3, <1>4 DEF Hist, Nested

(* A history that continues with an event that may follow is one.          *)
LEMMA HistAppend ==
  ASSUME NEW s, Hist(s), NEW kind \in Follows(s) \cap Kind
  PROVE  Hist(Append(s, Event(s, kind)))
<1> DEFINE e == Event(s, kind)
           t == Append(s, e)
           n == Len(s)
<1>1. s \in Seq(Rec) /\ n \in Nat
  BY DEF Hist
<1>2. e \in Rec /\ e.seq = n /\ e.kind = kind
  BY <1>1 DEF Event, Rec
<1> HIDE DEF e, n
<1>3. t \in Seq(Rec) /\ Len(t) = n + 1 /\ t[n + 1] = e /\ \A i \in 1 .. n : t[i] = s[i]
  BY <1>1, <1>2, AppendProperties DEF n
<1> HIDE DEF t
<1>4. Contiguous(t)
  <2>1. \A i \in 1 .. n + 1 : i \in 1 .. n \/ i = n + 1
    BY <1>1
  <2>2. (n + 1) - 1 = n
    BY <1>1
  <2> QED  BY <1>2, <1>3, <2>1, <2>2 DEF Hist, Contiguous, n
<1>5. ASSUME NEW i \in 1 .. n + 1 PROVE SubSeq(t, 1, i - 1) = SubSeq(s, 1, i - 1)
  <2>1. i - 1 \in 0 .. n /\ i - 1 \in 0 .. n + 1 /\ \A j \in 1 .. i - 1 : j \in 1 .. n
    BY <1>1
  <2>2. /\ SubSeq(s, 1, i - 1) \in Seq(Rec) /\ Len(SubSeq(s, 1, i - 1)) = i - 1
        /\ \A j \in 1 .. i - 1 : SubSeq(s, 1, i - 1)[j] = s[j]
    BY <1>1, <2>1, Prefixed DEF n
  <2>3. /\ SubSeq(t, 1, i - 1) \in Seq(Rec) /\ Len(SubSeq(t, 1, i - 1)) = i - 1
        /\ \A j \in 1 .. i - 1 : SubSeq(t, 1, i - 1)[j] = t[j]
    BY <1>3, <2>1, Prefixed
  <2> QED  BY <1>3, <2>1, <2>2, <2>3, Same
<1>6. ASSUME NEW i \in 1 .. n + 1 PROVE t[i].kind \in Follows(SubSeq(t, 1, i - 1))
  <2>1. CASE i \in 1 .. n
    BY <1>3, <1>5, <2>1 DEF Hist, Nested, n
  <2>2. CASE i = n + 1
    <3>1. i - 1 = n /\ SubSeq(s, 1, n) = s
      BY <1>1, <2>2, SubSeqFull DEF n
    <3> QED  BY <1>2, <1>3, <1>5, <2>2, <3>1
  <2> QED  BY <1>1, <2>1, <2>2
<1> QED
  BY <1>3, <1>4, <1>6 DEF Hist, Nested, t, e

(* What may follow is an event, and which depends on the last one.         *)
LEMMA FollowsFacts ==
  ASSUME NEW s \in Seq(Rec)
  PROVE  /\ LastKind(s) \in Kind
         /\ Follows(s) \subseteq Kind
         /\ LastKind(s) = "turn/end" => "turn/start" \in Follows(s)
         /\ LastKind(s) \in {"turn/start", "step/end"} => "turn/end" \in Follows(s)
         /\ LastKind(s) \in {"step/start", "tool/result"} => "step/end" \in Follows(s)
         /\ LastKind(s) \in {"assistant/message", "tool/call"} => "tool/result" \in Follows(s)
<1>1. LastKind(s) \in Kind
  <2>1. s # <<>> => s[Len(s)] \in Rec
    OBVIOUS
  <2> QED  BY <2>1 DEF LastKind, Last, Rec, Kind
<1> QED
  BY <1>1 DEF Follows, Kind

(* The last event of a history that continued.                             *)
LEMMA LastOfAppend ==
  ASSUME NEW s \in Seq(Rec), NEW kind \in Kind
  PROVE  LastKind(Append(s, Event(s, kind))) = kind
<1>1. Event(s, kind) \in Rec /\ Event(s, kind).kind = kind
  BY DEF Event, Rec
<1> HIDE DEF Event
<1>2. /\ Append(s, Event(s, kind)) # <<>> /\ Len(Append(s, Event(s, kind))) = Len(s) + 1
      /\ Append(s, Event(s, kind))[Len(s) + 1] = Event(s, kind)
  BY <1>1, AppendProperties
<1> QED
  BY <1>1, <1>2 DEF LastKind, Last

(* The events that a sequence of kinds is numbered to.                     *)
LEMMA NumberedFacts ==
  ASSUME NEW s \in Seq(Rec), NEW kinds \in Seq(Kind)
  PROVE  /\ Numbered(s, kinds) \in Seq(Rec) /\ Len(Numbered(s, kinds)) = Len(kinds)
         /\ \A k \in 1 .. Len(kinds) : Numbered(s, kinds)[k] = [seq |-> Len(s) + k - 1, kind |-> kinds[k]]
<1> DEFINE n == Len(kinds)
           b == Numbered(s, kinds)
<1>1. n \in Nat /\ Len(s) \in Nat /\ DOMAIN kinds = 1 .. n /\ \A k \in 1 .. n : kinds[k] \in Kind
  OBVIOUS
<1>2. b = [k \in 1 .. n |-> [seq |-> Len(s) + k - 1, kind |-> kinds[k]]]
  BY <1>1 DEF Numbered
<1>3. \A k \in 1 .. n : [seq |-> Len(s) + k - 1, kind |-> kinds[k]] \in Rec
  BY <1>1 DEF Rec
<1> HIDE DEF b, n
<1>4. b \in [1 .. n -> Rec]
  BY <1>2, <1>3
<1>5. b \in Seq(Rec) /\ Len(b) = n
  BY <1>1, <1>4, SeqDef
<1> QED
  BY <1>2, <1>5 DEF b, n

(* Continuing by several kinds is continuing by the first, then the rest.  *)
LEMMA NumberedNext ==
  ASSUME NEW s \in Seq(Rec), NEW j \in Kind, NEW rest \in Seq(Kind)
  PROVE  s \o Numbered(s, <<j>> \o rest) =
           Append(s, Event(s, j)) \o Numbered(Append(s, Event(s, j)), rest)
<1> DEFINE e == Event(s, j)
           t == Append(s, e)
           n == Len(s)
           m == Len(rest)
           jr == <<j>> \o rest
<1>1. n \in Nat /\ m \in Nat /\ e \in Rec /\ e = [seq |-> n, kind |-> j]
  BY DEF Event, Rec
<1>2. jr \in Seq(Kind) /\ Len(jr) = m + 1 /\ jr[1] = j /\ \A k \in 1 .. m : jr[k + 1] = rest[k]
  OBVIOUS
<1> HIDE DEF e, jr
<1>3. t \in Seq(Rec) /\ Len(t) = n + 1 /\ t[n + 1] = e /\ \A i \in 1 .. n : t[i] = s[i]
  BY <1>1, AppendProperties
<1> HIDE DEF t, n, m
<1>4. /\ Numbered(s, jr) \in Seq(Rec) /\ Len(Numbered(s, jr)) = m + 1
      /\ \A k \in 1 .. m + 1 : Numbered(s, jr)[k] = [seq |-> n + k - 1, kind |-> jr[k]]
  BY <1>2, NumberedFacts DEF n
<1>5. /\ Numbered(t, rest) \in Seq(Rec) /\ Len(Numbered(t, rest)) = m
      /\ \A k \in 1 .. m : Numbered(t, rest)[k] = [seq |-> (n + 1) + k - 1, kind |-> rest[k]]
  <2>1. /\ Numbered(t, rest) \in Seq(Rec) /\ Len(Numbered(t, rest)) = Len(rest)
        /\ \A k \in 1 .. Len(rest) : Numbered(t, rest)[k] = [seq |-> Len(t) + k - 1, kind |-> rest[k]]
    <3>1. t \in Seq(Rec)
      BY <1>3
    <3> QED  BY ONLY <3>1, rest \in Seq(Kind), NumberedFacts
  <2> QED  BY <1>3, <2>1 DEF m
<1> DEFINE x == s \o Numbered(s, jr)
           y == t \o Numbered(t, rest)
<1> HIDE DEF x, y
<1>6. /\ x \in Seq(Rec) /\ Len(x) = n + (m + 1) /\ \A i \in 1 .. n : x[i] = s[i]
      /\ \A i \in 1 .. m + 1 : x[n + i] = Numbered(s, jr)[i]
  <2>1. s \in Seq(Rec) /\ Numbered(s, jr) \in Seq(Rec)
    BY <1>4
  <2>2. /\ x \in Seq(Rec) /\ Len(x) = Len(s) + Len(Numbered(s, jr))
        /\ \A i \in 1 .. Len(s) : x[i] = s[i]
        /\ \A i \in 1 .. Len(Numbered(s, jr)) : x[Len(s) + i] = Numbered(s, jr)[i]
    BY ONLY <2>1, Joined DEF x
  <2> QED  BY <1>4, <2>2 DEF n
<1>7. /\ y \in Seq(Rec) /\ Len(y) = (n + 1) + m /\ \A i \in 1 .. n + 1 : y[i] = t[i]
      /\ \A i \in 1 .. m : y[(n + 1) + i] = Numbered(t, rest)[i]
  <2>1. /\ y \in Seq(Rec) /\ Len(y) = Len(t) + Len(Numbered(t, rest))
        /\ \A i \in 1 .. Len(t) : y[i] = t[i]
        /\ \A i \in 1 .. Len(Numbered(t, rest)) : y[Len(t) + i] = Numbered(t, rest)[i]
    <3>1. t \in Seq(Rec) /\ Numbered(t, rest) \in Seq(Rec)
      BY <1>3, <1>5
    <3> QED  BY ONLY <3>1, Joined DEF y
  <2> QED  BY <1>3, <1>5, <2>1
<1>8. ASSUME NEW i \in 1 .. Len(x) PROVE x[i] = y[i]
  <2>1. CASE i \in 1 .. n
    <3>1. i \in 1 .. n + 1
      BY <1>1, <2>1
    <3> QED  BY <1>3, <1>6, <1>7, <2>1, <3>1
  <2>2. CASE i = n + 1
    <3>1. 1 \in 1 .. m + 1 /\ i \in 1 .. n + 1 /\ n + 1 - 1 = n
      BY <1>1, <2>2
    <3>2. x[i] = [seq |-> n, kind |-> j]
      BY <1>2, <1>4, <1>6, <2>2, <3>1
    <3> QED  BY <1>1, <1>3, <1>7, <2>2, <3>1, <3>2
  <2>3. CASE i > n + 1
    <3> DEFINE k == i - (n + 1)
    <3>1. i \in 1 .. n + (m + 1) /\ k \in 1 .. m /\ k + 1 \in 1 .. m + 1
          /\ n + (k + 1) = i /\ (n + 1) + k = i /\ n + (k + 1) - 1 = (n + 1) + k - 1
      <4>1. i \in 1 .. n + (m + 1)
        BY <1>6
      <4> QED  BY ONLY <1>1, <2>3, <4>1
    <3> HIDE DEF k
    <3>2. x[i] = [seq |-> n + (k + 1) - 1, kind |-> jr[k + 1]]
      BY <1>4, <1>6, <3>1
    <3>3. y[i] = [seq |-> (n + 1) + k - 1, kind |-> rest[k]]
      BY <1>5, <1>7, <3>1
    <3> QED  BY <1>2, <3>1, <3>2, <3>3
  <2> QED  BY <1>1, <1>6, <2>1, <2>2, <2>3
<1>9. Len(x) = Len(y)
  BY <1>1, <1>6, <1>7
<1> QED
  BY <1>6, <1>7, <1>8, <1>9, Same DEF x, y, t, e, jr

(* Nothing more.                                                           *)
LEMMA NumberedNone ==
  ASSUME NEW s \in Seq(Rec)
  PROVE  s \o Numbered(s, <<>>) = s
<1>1. <<>> \in Seq(Kind) /\ Len(<<>>) = 0
  OBVIOUS
<1>2. Numbered(s, <<>>) \in Seq(Rec) /\ Len(Numbered(s, <<>>)) = 0
  BY <1>1, NumberedFacts
<1> QED
  BY <1>2

(* The history that goes on with an event that may follow, and then rest.  *)
LEMMA HistNext ==
  ASSUME NEW s, Hist(s), NEW j \in Follows(s) \cap Kind, NEW rest \in Seq(Kind),
         \A t : Hist(t) /\ LastKind(t) = j => Hist(t \o Numbered(t, rest))
  PROVE  Hist(s \o Numbered(s, <<j>> \o rest))
<1>1. s \in Seq(Rec)
  BY DEF Hist
<1>2. Hist(Append(s, Event(s, j))) /\ LastKind(Append(s, Event(s, j))) = j
  BY <1>1, HistAppend, LastOfAppend
<1> QED
  BY <1>1, <1>2, NumberedNext

(* The closers end an interrupted turn: what a repair leaves is a history. *)
LEMMA Closed ==
  ASSUME NEW s, Hist(s)
  PROVE  Closers(s) \in Seq(Rec) /\ Hist(s \o Closers(s))
<1>1. s \in Seq(Rec) /\ LastKind(s) \in Kind
  BY FollowsFacts DEF Hist
<1>2. <<>> \in Seq(Kind) /\ <<"turn/end">> \in Seq(Kind) /\ <<"step/end", "turn/end">> \in Seq(Kind)
      /\ <<"tool/result", "step/end", "turn/end">> \in Seq(Kind)
  BY DEF Kind
<1>3. /\ <<"turn/end">> = <<"turn/end">> \o <<>>
      /\ <<"step/end", "turn/end">> = <<"step/end">> \o <<"turn/end">>
      /\ <<"tool/result", "step/end", "turn/end">> = <<"tool/result">> \o <<"step/end", "turn/end">>
  OBVIOUS
<1>4. \A t : Hist(t) => Hist(t \o Numbered(t, <<>>))
  BY NumberedNone DEF Hist
<1>5. \A t : Hist(t) /\ LastKind(t) \in {"turn/start", "step/end"} => Hist(t \o Numbered(t, <<"turn/end">>))
  <2> SUFFICES ASSUME NEW t, Hist(t), LastKind(t) \in {"turn/start", "step/end"}
               PROVE  Hist(t \o Numbered(t, <<"turn/end">> \o <<>>))
    BY <1>3
  <2>1. "turn/end" \in Follows(t) \cap Kind
    BY FollowsFacts DEF Hist, Kind
  <2> QED  BY <1>2, <1>4, <2>1, HistNext
<1>6. \A t : Hist(t) /\ LastKind(t) \in {"step/start", "tool/result"} =>
               Hist(t \o Numbered(t, <<"step/end", "turn/end">>))
  <2> SUFFICES ASSUME NEW t, Hist(t), LastKind(t) \in {"step/start", "tool/result"}
               PROVE  Hist(t \o Numbered(t, <<"step/end">> \o <<"turn/end">>))
    BY <1>3
  <2>1. "step/end" \in Follows(t) \cap Kind
    BY FollowsFacts DEF Hist, Kind
  <2> QED  BY <1>2, <1>5, <2>1, HistNext
<1>7. \A t : Hist(t) /\ LastKind(t) \in {"assistant/message", "tool/call"} =>
               Hist(t \o Numbered(t, <<"tool/result", "step/end", "turn/end">>))
  <2> SUFFICES ASSUME NEW t, Hist(t), LastKind(t) \in {"assistant/message", "tool/call"}
               PROVE  Hist(t \o Numbered(t, <<"tool/result">> \o <<"step/end", "turn/end">>))
    BY <1>3
  <2>1. "tool/result" \in Follows(t) \cap Kind
    BY FollowsFacts DEF Hist, Kind
  <2> QED  BY <1>2, <1>6, <2>1, HistNext
<1>8. \/ LastKind(s) = "turn/end" /\ Closers(s) = Numbered(s, <<>>)
      \/ LastKind(s) \in {"turn/start", "step/end"} /\ Closers(s) = Numbered(s, <<"turn/end">>)
      \/ LastKind(s) \in {"step/start", "tool/result"}
         /\ Closers(s) = Numbered(s, <<"step/end", "turn/end">>)
      \/ LastKind(s) \in {"assistant/message", "tool/call"}
         /\ Closers(s) = Numbered(s, <<"tool/result", "step/end", "turn/end">>)
  BY <1>1 DEF Closers, Kind
<1>9. Closers(s) \in Seq(Rec)
  BY <1>1, <1>2, <1>8, NumberedFacts
<1> QED
  BY <1>4, <1>5, <1>6, <1>7, <1>8, <1>9

-----------------------------------------------------------------------------
(* Prefixes of what is valid, of a history and of a file.                  *)

(* A prefix of a prefix.                                                   *)
LEMMA PrefixOfPrefix ==
  ASSUME NEW S, NEW s \in Seq(S), NEW k \in 0 .. Len(s), NEW j \in 0 .. k
  PROVE  SubSeq(SubSeq(s, 1, k), 1, j) = SubSeq(s, 1, j)
<1>1. /\ SubSeq(s, 1, k) \in Seq(S) /\ Len(SubSeq(s, 1, k)) = k
      /\ \A i \in 1 .. k : SubSeq(s, 1, k)[i] = s[i]
  BY Prefixed
<1>2. j \in 0 .. Len(s) /\ \A i \in 1 .. j : i \in 1 .. k
  OBVIOUS
<1>3. /\ SubSeq(s, 1, j) \in Seq(S) /\ Len(SubSeq(s, 1, j)) = j
      /\ \A i \in 1 .. j : SubSeq(s, 1, j)[i] = s[i]
  BY <1>2, Prefixed
<1> DEFINE p == SubSeq(s, 1, k)
<1> HIDE DEF p
<1>4. /\ SubSeq(p, 1, j) \in Seq(S) /\ Len(SubSeq(p, 1, j)) = j
      /\ \A i \in 1 .. j : SubSeq(p, 1, j)[i] = p[i]
  BY <1>1, Prefixed DEF p
<1>5. SubSeq(p, 1, j) = SubSeq(s, 1, j)
  BY <1>1, <1>2, <1>3, <1>4, Same DEF p
<1> QED
  BY <1>5 DEF p

(* What is valid of a prefix is a prefix of what is valid.                 *)
LEMMA ValidOfPrefix ==
  ASSUME NEW s \in Seq(Rec), NEW n \in 0 .. Len(s)
  PROVE  \E j \in 0 .. Len(Valid(s)) : Valid(SubSeq(s, 1, n)) = SubSeq(Valid(s), 1, j)
<1> DEFINE p == SubSeq(s, 1, n)
<1>1. p \in Seq(Rec) /\ Len(p) = n /\ n \in Nat /\ Len(s) \in Nat /\ \A i \in 1 .. n : p[i] = s[i]
  BY Prefixed
<1>2. PICK k \in 0 .. Len(s) : BreaksAt(s, k)
  BY Breaks
<1>3. Valid(s) = SubSeq(s, 1, k) /\ Len(Valid(s)) = k
  BY <1>2, ValidIs, Prefixed
<1> DEFINE j == IF k <= n THEN k ELSE n
<1>4. j \in 0 .. n /\ j \in 0 .. k /\ (j < n => j = k /\ k < Len(s) /\ k + 1 \in 1 .. n)
  BY <1>1
<1>5. BreaksAt(p, j)
  <2>1. \A i \in 1 .. j : i \in 1 .. n /\ i \in 1 .. k
    BY <1>1, <1>4
  <2> QED  BY <1>1, <1>2, <1>4, <2>1 DEF BreaksAt
<1> HIDE DEF p, j
<1>6. Valid(p) = SubSeq(p, 1, j)
  BY <1>1, <1>5, ValidIs
<1>7. SubSeq(p, 1, j) = SubSeq(s, 1, j)
  BY <1>4, PrefixOfPrefix DEF p
<1>8. SubSeq(SubSeq(s, 1, k), 1, j) = SubSeq(s, 1, j)
  BY <1>4, PrefixOfPrefix
<1> QED
  BY <1>3, <1>4, <1>6, <1>7, <1>8 DEF p

(* The records of f, cut short within b, when the whole of b was valid.    *)
LEMMA CutShort ==
  ASSUME NEW s \in Seq(Rec), NEW b \in Seq(Rec), NEW k \in 0 .. Len(b)
  PROVE  /\ s \o SubSeq(b, 1, k) = SubSeq(s \o b, 1, Len(s) + k)
         /\ s \o SubSeq(b, 1, k) \in Seq(Rec)
         /\ Hist(Valid(s \o b)) => Hist(Valid(s \o SubSeq(b, 1, k)))
         /\ Contiguous(s \o b) => Contiguous(s \o SubSeq(b, 1, k))
         /\ IsPrefix(s, s \o SubSeq(b, 1, k))
<1> DEFINE p == SubSeq(b, 1, k)
           w == s \o b
           n == Len(s)
           u == s \o p
<1>1. p \in Seq(Rec) /\ Len(p) = k /\ \A i \in 1 .. k : p[i] = b[i]
  BY Prefixed
<1>2. /\ w \in Seq(Rec) /\ Len(w) = n + Len(b) /\ n \in Nat /\ Len(b) \in Nat
      /\ \A i \in 1 .. n : w[i] = s[i]
      /\ \A i \in 1 .. Len(b) : w[n + i] = b[i]
  BY Joined
<1> HIDE DEF p, w, n
<1>3. /\ u \in Seq(Rec) /\ Len(u) = n + k
      /\ \A i \in 1 .. n : u[i] = s[i]
      /\ \A i \in 1 .. k : u[n + i] = p[i]
  <2>1. /\ u \in Seq(Rec) /\ Len(u) = Len(s) + Len(p)
        /\ \A i \in 1 .. Len(s) : u[i] = s[i]
        /\ \A i \in 1 .. Len(p) : u[Len(s) + i] = p[i]
    <3>1. p \in Seq(Rec) /\ s \in Seq(Rec)
      BY <1>1
    <3> QED  BY ONLY <3>1, Joined
  <2> QED  BY <1>1, <2>1 DEF n
<1> HIDE DEF u
<1>4. n + k \in 0 .. Len(w)
  BY <1>2
<1>5. /\ SubSeq(w, 1, n + k) \in Seq(Rec) /\ Len(SubSeq(w, 1, n + k)) = n + k
      /\ \A i \in 1 .. n + k : SubSeq(w, 1, n + k)[i] = w[i]
  BY <1>2, <1>4, Prefixed
<1>6. ASSUME NEW i \in 1 .. n + k PROVE u[i] = w[i]
  <2>1. CASE i <= n
    BY <1>2, <1>3, <2>1
  <2>2. CASE i > n
    <3>1. i - n \in 1 .. k /\ i - n \in 1 .. Len(b) /\ n + (i - n) = i
      BY <1>2, <2>2
    <3>2. u[n + (i - n)] = p[i - n] /\ w[n + (i - n)] = b[i - n] /\ p[i - n] = b[i - n]
      BY <1>1, <1>2, <1>3, <3>1
    <3> QED  BY <3>1, <3>2
  <2> QED  BY <1>2, <2>1, <2>2
<1>7. u = SubSeq(w, 1, n + k)
  BY <1>3, <1>5, <1>6, Same
<1>8. Hist(Valid(w)) => Hist(Valid(u))
  <2>1. PICK j \in 0 .. Len(Valid(w)) : Valid(SubSeq(w, 1, n + k)) = SubSeq(Valid(w), 1, j)
    BY <1>2, <1>4, ValidOfPrefix
  <2> QED  BY <1>7, <2>1, HistPrefix
<1>9. Contiguous(w) => Contiguous(u)
  <2>1. \A i \in 1 .. n + k : i \in 1 .. Len(w)
    BY <1>2
  <2> QED  BY <1>3, <1>6, <2>1 DEF Contiguous
<1>10. IsPrefix(s, u)
  BY <1>2, <1>3, PrefixAt DEF n
<1> QED
  BY <1>3, <1>7, <1>8, <1>9, <1>10 DEF u, p, w, n

(* Prefixes of prefixes, and of what they are part of.                     *)
LEMMA PrefixTransitive ==
  ASSUME NEW s \in Seq(Rec), NEW t \in Seq(Rec), NEW u \in Seq(Rec),
         IsPrefix(s, t), IsPrefix(t, u)
  PROVE  IsPrefix(s, u)
<1>1. Len(s) <= Len(t) /\ \A i \in 1 .. Len(s) : s[i] = t[i]
  BY PrefixAt
<1>2. Len(t) <= Len(u) /\ \A i \in 1 .. Len(t) : t[i] = u[i]
  BY PrefixAt
<1>3. Len(s) \in Nat /\ Len(t) \in Nat /\ Len(u) \in Nat
  OBVIOUS
<1>4. Len(s) <= Len(u) /\ \A i \in 1 .. Len(s) : i \in 1 .. Len(t)
  BY <1>1, <1>2, <1>3
<1> QED
  BY <1>1, <1>2, <1>4, PrefixAt

(* The m elements of s that follow its first c.                            *)
Segment(s, c, m) == SubSeq(s, c + 1, c + m)

(* p is the first k elements of s.                                         *)
IsHead(p, s, k) == p = SubSeq(s, 1, k)

(* A segment is a sequence of its length.                                  *)
LEMMA SegmentFacts ==
  ASSUME NEW s \in Seq(Rec), NEW c \in Nat, NEW m \in Nat, c + m <= Len(s)
  PROVE  Segment(s, c, m) \in Seq(Rec) /\ Len(Segment(s, c, m)) = m
<1>1. c \in 0 .. Len(s) /\ c + m \in c .. Len(s) /\ (c + m) - c = m
  OBVIOUS
<1> QED
  BY <1>1, Piece DEF Segment

(* A batch of the log, written behind a prefix of the log: it continues    *)
(* there, or it begins elsewhere and nothing of it is valid.               *)
LEMMA Graft ==
  ASSUME NEW s, Hist(s), NEW p \in Seq(Rec), IsPrefix(p, s), NEW c \in Nat, NEW m \in Nat,
         c + m <= Len(s), NEW b \in Seq(Rec), b = Segment(s, c, m)
  PROVE  /\ b \in Seq(Rec) /\ Len(b) = m
         /\ Hist(Valid(p \o b))
         /\ Contiguous(p \o b) => IsPrefix(p \o b, s)
         /\ Len(p) = c => IsHead(p \o b, s, c + m) /\ Contiguous(p \o b)
<1> DEFINE n == Len(p)
           w == p \o b
<1>1. s \in Seq(Rec) /\ Len(s) \in Nat /\ n \in Nat /\ n <= Len(s)
      /\ p = SubSeq(s, 1, n) /\ \A i \in 1 .. n : p[i] = s[i]
  BY PrefixAt DEF Hist
<1>2. c \in 0 .. Len(s) /\ c + m \in c .. Len(s) /\ (c + m) - c = m
  BY <1>1
<1>3. b \in Seq(Rec) /\ Len(b) = m /\ \A i \in 1 .. m : b[i] = s[c + i]
  BY <1>1, <1>2, Piece DEF Segment
<1> HIDE DEF n, w
<1>4. /\ w \in Seq(Rec) /\ Len(w) = n + m
      /\ \A i \in 1 .. n : w[i] = p[i]
      /\ \A i \in 1 .. m : w[n + i] = b[i]
  <2>1. b \in Seq(Rec) /\ p \in Seq(Rec)
    OBVIOUS
  <2>2. /\ w \in Seq(Rec) /\ Len(w) = Len(p) + Len(b)
        /\ \A i \in 1 .. Len(p) : w[i] = p[i]
        /\ \A i \in 1 .. Len(b) : w[Len(p) + i] = b[i]
    BY ONLY <2>1, Joined DEF w
  <2> QED  BY <1>3, <2>2 DEF n
<1>5. Hist(p) /\ Contiguous(p)
  <2>1. n \in 0 .. Len(s)
    BY <1>1
  <2>2. Hist(SubSeq(s, 1, n))
    BY <2>1, HistPrefix
  <2> QED  BY <1>1, <2>2 DEF Hist
<1>6. CASE n = c
  <2>1. c + m \in 0 .. Len(s)
    BY <1>1
  <2>2. /\ SubSeq(s, 1, c + m) \in Seq(Rec) /\ Len(SubSeq(s, 1, c + m)) = c + m
        /\ \A i \in 1 .. c + m : SubSeq(s, 1, c + m)[i] = s[i]
    BY <1>1, <2>1, Prefixed
  <2>3. ASSUME NEW i \in 1 .. c + m PROVE w[i] = s[i]
    <3>1. CASE i <= c
      BY <1>1, <1>4, <1>6, <3>1
    <3>2. CASE i > c
      <4>1. i - c \in 1 .. m /\ c + (i - c) = i
        BY <3>2
      <4>2. w[c + (i - c)] = b[i - c] /\ b[i - c] = s[c + (i - c)]
        BY <1>3, <1>4, <1>6, <4>1
      <4> QED  BY <4>1, <4>2
    <3> QED  BY <3>1, <3>2
  <2>4. w = SubSeq(s, 1, c + m)
    BY <1>4, <1>6, <2>2, <2>3, Same
  <2>5. Hist(w) /\ Contiguous(w)
    BY <2>1, <2>4, HistPrefix DEF Hist
  <2>6. Valid(w) = w
    BY <1>4, <2>5, ValidFacts
  <2>7. IsPrefix(w, s)
    BY <1>1, <1>4, <1>6, <2>3, PrefixAt
  <2>8. IsHead(w, s, c + m)
    BY <2>4 DEF IsHead
  <2> QED  BY <1>3, <2>5, <2>6, <2>7, <2>8 DEF w, n
<1>7. CASE n # c
  <2>1. b = <<>> \/ b[1].seq # Len(p)
    <3>1. m > 0 => 1 \in 1 .. m /\ c + 1 \in 1 .. Len(s) /\ (c + 1) - 1 = c
      BY <1>1
    <3>2. m > 0 => b[1].seq = c
      BY <1>3, <3>1 DEF Hist, Contiguous
    <3>3. m = 0 => b = <<>>
      BY <1>3
    <3> QED  BY <1>7, <3>2, <3>3 DEF n
  <2>2. Valid(w) = p
    BY <1>3, <1>5, <2>1, ValidJoined DEF w
  <2>3. Contiguous(w) => w = p
    BY <1>4, <2>2, ValidFacts
  <2> QED  BY <1>3, <1>5, <1>7, <2>2, <2>3 DEF w, n
<1> QED
  BY <1>6, <1>7

-----------------------------------------------------------------------------
(* Files.                                                                  *)

File == [exists : BOOLEAN, lines : Seq(Rec), tail : Seq(Rec), torn : BOOLEAN]

All(f) == f.lines \o f.tail

(* What can be read of a file is a history, only a torn file has a tail,   *)
(* and a file that does not exist is empty.                                *)
Readable(d) ==
  /\ Hist(Stored(d))
  /\ ~d.torn => d.tail = <<>>
  /\ ~d.exists => d = Absent

(* A file that needs no truncation.                                        *)
Intact(f) == f = Whole(f.lines) /\ Contiguous(f.lines)

(* The records of a file are as typed.                                     *)
LEMMA FileFacts ==
  ASSUME NEW f \in File
  PROVE  /\ f.exists \in BOOLEAN /\ f.lines \in Seq(Rec) /\ f.tail \in Seq(Rec) /\ f.torn \in BOOLEAN
         /\ All(f) \in Seq(Rec) /\ Len(All(f)) = Len(f.lines) + Len(f.tail)
         /\ f = [exists |-> f.exists, lines |-> f.lines, tail |-> f.tail, torn |-> f.torn]
         /\ f.tail = <<>> => All(f) = f.lines
         /\ Stored(f) = Valid(All(f)) /\ FileType(f)
         /\ Len(f.lines) \in Nat /\ Len(f.tail) \in Nat /\ Len(All(f)) \in Nat
<1>1. /\ f.exists \in BOOLEAN /\ f.lines \in Seq(Rec) /\ f.tail \in Seq(Rec) /\ f.torn \in BOOLEAN
      /\ f = [exists |-> f.exists, lines |-> f.lines, tail |-> f.tail, torn |-> f.torn]
  BY DEF File
<1>2. FileType(f)
  BY <1>1 DEF FileType, Rec
<1>3. f.tail = <<>> => f.lines \o f.tail = f.lines
  BY <1>1
<1>4. f.lines \o f.tail \in Seq(Rec) /\ Len(f.lines \o f.tail) = Len(f.lines) + Len(f.tail)
  BY <1>1
<1>5. Len(f.lines) \in Nat /\ Len(f.tail) \in Nat /\ Len(f.lines \o f.tail) \in Nat
  BY <1>1
<1> QED
  BY <1>1, <1>2, <1>3, <1>4, <1>5 DEF All, Stored

(* A file of complete records.                                             *)
LEMMA WholeFacts ==
  ASSUME NEW s \in Seq(Rec)
  PROVE  /\ Whole(s) \in File /\ Whole(s).exists /\ Whole(s).lines = s /\ Whole(s).tail = <<>>
         /\ All(Whole(s)) = s
         /\ Torn(Whole(s)) <=> ~Contiguous(s)
         /\ Hist(Valid(s)) => Readable(Whole(s))
         /\ Hist(s) => Readable(Whole(s)) /\ Intact(Whole(s))
<1>1. /\ Whole(s) \in File /\ Whole(s).exists = TRUE /\ Whole(s).lines = s /\ Whole(s).tail = <<>>
      /\ Whole(s).torn = FALSE
  BY DEF Whole, Content, File
<1>2. All(Whole(s)) = s /\ Stored(Whole(s)) = Valid(s)
  BY <1>1, FileFacts
<1>3. Hist(s) => Valid(s) = s /\ Contiguous(s)
  BY ValidFacts DEF Hist
<1> QED
  BY <1>1, <1>2, <1>3 DEF Torn, Readable, Intact

(* No file.                                                                *)
LEMMA AbsentFacts == Absent \in File /\ ~Absent.exists /\ Readable(Absent) /\ Contiguous(All(Absent))
                     /\ Stored(Absent) = <<>> /\ Hist(<<>>) /\ ~Torn(Absent) /\ Absent.lines = <<>>
<1>1. Absent \in File /\ Absent.exists = FALSE /\ Absent.tail = <<>> /\ Absent.lines = <<>>
      /\ Absent.torn = FALSE
  BY DEF Absent, File
<1>2. <<>> \in Seq(Rec) /\ Len(<<>>) = 0
  OBVIOUS
<1>3. Hist(<<>>) /\ Contiguous(<<>>)
  BY <1>2 DEF Hist, Contiguous, Nested
<1>4. All(Absent) = <<>> /\ Stored(Absent) = <<>>
  <2>1. Valid(<<>>) = <<>>
    BY <1>2, <1>3, ValidFacts
  <2>2. All(Absent) = <<>> /\ Stored(Absent) = Valid(All(Absent))
    BY <1>1, FileFacts
  <2> QED  BY <2>1, <2>2
<1> QED
  BY <1>1, <1>3, <1>4 DEF Readable, Torn

(* A readable file that is not torn is nothing but its history.            *)
LEMMA NotTorn ==
  ASSUME NEW f \in File, Readable(f), ~Torn(f)
  PROVE  /\ Stored(f) = f.lines /\ All(f) = f.lines /\ Hist(f.lines)
         /\ f.exists => Intact(f)
         /\ ~Refused(f)
<1>1. f.torn = FALSE /\ Contiguous(f.lines) /\ f.tail = <<>>
  BY FileFacts DEF Torn, Readable
<1>2. All(f) = f.lines /\ Stored(f) = f.lines /\ f.lines \in Seq(Rec)
  BY <1>1, FileFacts, ValidFacts
<1>3. Hist(f.lines)
  BY <1>2 DEF Readable
<1>4. f.exists => f = Whole(f.lines)
  BY <1>1, FileFacts DEF Whole, Content
<1>5. ~Refused(f)
  <2>1. Len(f.lines) \in Nat /\ ~\E i \in Len(f.lines) + 1 .. Len(f.lines) : TRUE
    BY <1>2
  <2> QED  BY <1>1, <1>2, <2>1 DEF Refused, All
<1> QED
  BY <1>1, <1>2, <1>3, <1>4, <1>5 DEF Intact

(* Where all records continue one another, all are stored and none is      *)
(* refused.                                                                *)
LEMMA SoundFacts ==
  ASSUME NEW f \in File, Contiguous(All(f))
  PROVE  /\ Contiguous(f.lines) /\ Stored(f) = All(f) /\ ~Refused(f)
         /\ IsPrefix(f.lines, All(f)) /\ Valid(f.lines) = f.lines
<1>1. /\ f.lines \in Seq(Rec) /\ f.tail \in Seq(Rec) /\ Stored(f) = Valid(All(f)) /\ All(f) \in Seq(Rec)
      /\ Len(f.lines) \in Nat /\ Len(f.tail) \in Nat /\ Len(All(f)) = Len(f.lines) + Len(f.tail)
  BY FileFacts
<1>2. Stored(f) = All(f)
  BY <1>1, ValidFacts
<1>3. /\ \A i \in 1 .. Len(f.lines) : All(f)[i] = f.lines[i] /\ i \in 1 .. Len(All(f))
      /\ Len(f.lines) <= Len(All(f))
  <2>1. \A i \in 1 .. Len(f.lines) : All(f)[i] = f.lines[i]
    BY <1>1, Joined DEF All
  <2> DEFINE n == Len(f.lines)
             m == Len(f.tail)
             k == Len(All(f))
  <2>2. n \in Nat /\ m \in Nat /\ k = n + m
    BY <1>1
  <2> HIDE DEF n, m, k
  <2>3. n <= k /\ \A i \in 1 .. n : i \in 1 .. k
    BY <2>2
  <2> QED  BY <2>1, <2>3 DEF n, k
<1>4. Contiguous(f.lines)
  BY <1>3 DEF Contiguous
<1>5. IsPrefix(f.lines, All(f))
  BY <1>1, <1>3, PrefixAt
<1>6. ~Refused(f)
  <2> DEFINE n == Len(All(f))
  <2>0. n \in Nat
    BY FileFacts
  <2> HIDE DEF n
  <2>1. ~\E i \in n + 1 .. n : TRUE
    BY <2>0
  <2> QED  BY <1>2, <1>4, <2>1 DEF Refused, All, n
<1> QED
  BY <1>1, <1>2, <1>4, <1>5, <1>6, ValidFacts

(* What the truncation keeps and what it recovers are what is stored.      *)
LEMMA RecoveredJoins ==
  ASSUME NEW f \in File
  PROVE  /\ Recovered(f) \in Seq(Rec) /\ Valid(f.lines) \in Seq(Rec)
         /\ Valid(f.lines) \o Recovered(f) = Stored(f)
<1> DEFINE w == All(f)
           v == Valid(f.lines)
           s == Stored(f)
<1>1. f.lines \in Seq(Rec) /\ f.tail \in Seq(Rec) /\ s = Valid(w) /\ w \in Seq(Rec)
      /\ Len(w) = Len(f.lines) + Len(f.tail) /\ Len(f.lines) \in Nat /\ Len(f.tail) \in Nat
  BY FileFacts
<1>2. s \in Seq(Rec) /\ v \in Seq(Rec)
  BY <1>1, ValidFacts
<1>3. PICK j \in 0 .. Len(s) : v = SubSeq(s, 1, j)
  <2> DEFINE n == Len(f.lines)
             m == Len(f.tail)
             k == Len(w)
  <2>0. n \in Nat /\ m \in Nat /\ k = n + m
    BY <1>1
  <2> HIDE DEF n, m, k
  <2>1. n \in 0 .. k
    BY <2>0
  <2> USE DEF n, k
  <2>2. f.lines = SubSeq(w, 1, Len(f.lines))
    <3>1. /\ SubSeq(w, 1, Len(f.lines)) \in Seq(Rec) /\ Len(SubSeq(w, 1, Len(f.lines))) = Len(f.lines)
          /\ \A i \in 1 .. Len(f.lines) : SubSeq(w, 1, Len(f.lines))[i] = w[i]
      BY <1>1, <2>1, Prefixed
    <3>2. \A i \in 1 .. Len(f.lines) : w[i] = f.lines[i]
      BY <1>1, Joined DEF All
    <3> QED  BY <1>1, <3>1, <3>2, Same
  <2>3. \E j \in 0 .. Len(Valid(w)) : Valid(SubSeq(w, 1, Len(f.lines))) = SubSeq(Valid(w), 1, j)
    BY <1>1, <2>1, ValidOfPrefix
  <2> QED  BY <1>1, <2>2, <2>3
<1> HIDE DEF w, v, s
<1>4. Len(v) = j /\ \A i \in 1 .. j : v[i] = s[i]
  BY <1>2, <1>3, Prefixed
<1> DEFINE r == SubSeq(s, j + 1, Len(s))
           u == v \o r
<1>5. Len(s) \in Nat /\ Len(s) \in j .. Len(s)
  BY <1>2
<1>6. r \in Seq(Rec) /\ Len(r) = Len(s) - j /\ \A i \in 1 .. Len(s) - j : r[i] = s[j + i]
  BY <1>2, <1>5, Piece
<1> HIDE DEF r
<1>7. /\ u \in Seq(Rec) /\ Len(u) = Len(s)
      /\ \A i \in 1 .. j : u[i] = v[i]
      /\ \A i \in 1 .. Len(s) - j : u[j + i] = r[i]
  BY <1>2, <1>4, <1>5, <1>6, Joined
<1> HIDE DEF u
<1>8. ASSUME NEW i \in 1 .. Len(s) PROVE u[i] = s[i]
  <2>1. CASE i <= j
    BY <1>4, <1>7, <2>1
  <2>2. CASE i > j
    <3>1. i - j \in 1 .. Len(s) - j /\ j + (i - j) = i
      BY <1>5, <2>2
    <3>2. u[j + (i - j)] = r[i - j] /\ r[i - j] = s[j + (i - j)]
      BY <1>6, <1>7, <3>1
    <3> QED  BY <3>1, <3>2
  <2> QED  BY <1>5, <2>1, <2>2
<1>9. u = s
  BY <1>2, <1>7, <1>8, Same
<1> QED
  BY <1>2, <1>4, <1>6, <1>9 DEF u, r, v, s, Recovered

(* A write onto an intact file that is cut short leaves a part of its      *)
(* records, all that was there before it among them.                       *)
LEMMA CutFacts ==
  ASSUME NEW f \in File, Intact(f), NEW b \in Seq(Rec), NEW g \in Cut(f, b)
  PROVE  /\ g \in File /\ g.exists /\ (~g.torn => g.tail = <<>>)
         /\ \E k \in 0 .. Len(b) : All(g) = f.lines \o SubSeq(b, 1, k)
         /\ IsPrefix(f.lines, g.lines)
<1> DEFINE s == f.lines
<1>1. s \in Seq(Rec) /\ f.exists = TRUE /\ f.tail = <<>> /\ f.torn = FALSE
      /\ f = [exists |-> TRUE, lines |-> s, tail |-> <<>>, torn |-> FALSE]
  BY FileFacts DEF Intact, Whole, Content
<1>2. Len(b) \in Nat /\ \A k \in 0 .. Len(b) : /\ SubSeq(b, 1, k) \in Seq(Rec)
                                              /\ s \o SubSeq(b, 1, k) \in Seq(Rec)
                                              /\ IsPrefix(s, s \o SubSeq(b, 1, k))
  BY <1>1, Prefixed, CutShort
<1>3. IsPrefix(s, s)
  BY <1>1, PrefixAt
<1> HIDE DEF s
<1>4. CASE compression = "zstd"
  <2>1. Cut(f, b) = {Content(f.lines, SubSeq(b, 1, k), TRUE) : k \in 0 .. Len(b)}
    BY <1>4 DEF Cut
  <2>2. PICK k \in 0 .. Len(b) : g = Content(s, SubSeq(b, 1, k), TRUE)
    BY <2>1 DEF s
  <2>3. g \in File /\ g.exists = TRUE /\ g.torn = TRUE /\ g.lines = s /\ g.tail = SubSeq(b, 1, k)
    BY <1>1, <1>2, <2>2 DEF Content, File
  <2> QED  BY <1>3, <2>3 DEF All, s
<1>5. CASE compression # "zstd"
  <2>1. Cut(f, b) = {Content(f.lines \o SubSeq(b, 1, k), <<>>, t) : k \in 0 .. Len(b) - 1, t \in BOOLEAN}
    BY <1>5 DEF Cut
  <2>2. PICK k \in 0 .. Len(b) - 1, t \in BOOLEAN : g = Content(s \o SubSeq(b, 1, k), <<>>, t)
    BY <2>1 DEF s
  <2>3. k \in 0 .. Len(b)
    BY <1>2
  <2>4. g \in File /\ g.exists = TRUE /\ g.lines = s \o SubSeq(b, 1, k) /\ g.tail = <<>>
    BY <1>2, <2>2, <2>3 DEF Content, File
  <2>5. All(g) = s \o SubSeq(b, 1, k) /\ IsPrefix(s, g.lines)
    BY <1>2, <2>3, <2>4, FileFacts
  <2> QED  BY <2>3, <2>4, <2>5 DEF s
<1> QED
  BY <1>4, <1>5

(* Such a file can be read if the whole write could be, and it is sound if *)
(* the whole write continued the file.                                     *)
LEMMA CutReadable ==
  ASSUME NEW f \in File, Intact(f), NEW b \in Seq(Rec), NEW g \in Cut(f, b)
  PROVE  /\ Hist(Valid(f.lines \o b)) => Readable(g)
         /\ Contiguous(f.lines \o b) => Contiguous(All(g))
<1>1. /\ g \in File /\ g.exists /\ (~g.torn => g.tail = <<>>)
      /\ \E k \in 0 .. Len(b) : All(g) = f.lines \o SubSeq(b, 1, k)
  BY CutFacts
<1>2. f.lines \in Seq(Rec)
  BY FileFacts
<1>3. PICK k \in 0 .. Len(b) : All(g) = f.lines \o SubSeq(b, 1, k)
  BY <1>1
<1>4. Hist(Valid(f.lines \o b)) => Hist(Valid(All(g)))
  BY <1>2, <1>3, CutShort
<1>5. Contiguous(f.lines \o b) => Contiguous(All(g))
  BY <1>2, <1>3, CutShort
<1>6. Stored(g) = Valid(All(g))
  BY <1>1, FileFacts
<1> QED
  BY <1>1, <1>4, <1>5, <1>6 DEF Readable

-----------------------------------------------------------------------------
(* The inductive invariant.                                                *)

(* Every variable has its type.                                            *)
Typed ==
  /\ compression \in {"zstd", "none"}
  /\ file \in File /\ durable \subseteq File /\ before \in File /\ promised \in File
  /\ life \in {"cold", "live"} /\ materialized \in BOOLEAN /\ cursor \in Nat
  /\ step \in {"idle", "publish", "syncDir", "write", "sync", "close",
               "rollback", "syncBack", "truncate", "syncTail"}
  /\ purpose \in {"append", "repair"} /\ batch \in Seq(Rec)
  /\ closeFaults \in Nat

(* Whatever a power loss may leave can be read.                            *)
DiskInv == file \in durable /\ \A d \in durable : Readable(d)

(* The session's log is a history, and a live session's file holds the     *)
(* beginning of it; an append in progress writes its next events.          *)
SessionInv ==
  /\ Hist(log) /\ cursor <= Len(log)
  /\ life = "cold" => log = <<>> /\ cursor = 0 /\ ~materialized
  /\ ~materialized => cursor = 0
  /\ materialized => file.exists
  /\ life = "live" /\ ~Torn(file) => IsPrefix(file.lines, log)
  /\ life = "live" /\ step # "idle" =>
       /\ cursor + Len(batch) <= Len(log)
       /\ batch = Segment(log, cursor, Len(batch))
       /\ step \in {"sync", "close", "rollback"} => IsPrefix(before.lines, log)

(* Where an operation stands: whose it is, what the file was before it     *)
(* wrote, and that its records can be read behind those of the file.       *)
StepInv ==
  /\ step # "idle" => purpose = IF life = "live" THEN "append" ELSE "repair"
  /\ step \in {"publish", "syncDir"} => life = "live" /\ ~materialized
  /\ step \in {"write", "sync", "close", "rollback"} => (materialized <=> life = "live")
  /\ step \in {"truncate", "syncTail"} => life = "cold"
  /\ step = "syncDir" => file = Whole(batch)
  /\ step = "write" => /\ Intact(file) /\ Hist(Valid(file.lines \o batch))
                       /\ life = "cold" => Contiguous(file.lines \o batch)
  /\ step \in {"sync", "close", "rollback"} => Intact(before) /\ before.exists
  /\ step \in {"sync", "rollback"} => before \in durable
  /\ step \in {"sync", "close"} => file = Whole(before.lines \o batch)
  /\ step = "truncate" => file.exists /\ Hist(Valid(file.lines) \o batch)
  /\ step = "syncTail" => Intact(file) /\ Hist(file.lines \o batch)

(* The file as it was before the write in progress, if there is one.       *)
Stem == IF step \in {"sync", "close", "rollback"} THEN before ELSE file

(* Unless an append handle failed to close: all records on the disk        *)
(* continue one another and begin with those of the last operation that    *)
(* succeeded, and the file of a live session holds exactly the events      *)
(* below the cursor, but for a write in progress.                          *)
SoundDisk ==
  closeFaults = 0 =>
    /\ \A d \in durable : Contiguous(All(d))
    /\ promised.exists => \A d \in durable : d.exists /\ IsPrefix(promised.lines, d.lines)

SoundSession ==
  closeFaults = 0 /\ life = "live" =>
    /\ step # "rollback" => ~Torn(file)
    /\ materialized => Stem = Whole(SubSeq(log, 1, cursor))

SoundClose == closeFaults = 0 /\ step = "close" => durable = {file}

IInv == Typed /\ DiskInv /\ SessionInv /\ StepInv /\ SoundDisk /\ SoundSession /\ SoundClose

(* It holds at the start.                                                  *)
LEMMA InitIInv == Init => IInv
<1> SUFFICES ASSUME Init PROVE IInv
  OBVIOUS
<1> USE DEF Init
<1>1. Typed
  <2>1. <<>> \in Seq(Rec)
    OBVIOUS
  <2> QED  BY <2>1, AbsentFacts, BoundsAssumption DEF Typed
<1>2. DiskInv
  BY AbsentFacts DEF DiskInv
<1>3. SessionInv
  BY AbsentFacts DEF SessionInv
<1>4. StepInv
  BY DEF StepInv
<1>5. SoundDisk
  BY AbsentFacts DEF SoundDisk
<1>6. SoundSession /\ SoundClose
  BY DEF SoundSession, SoundClose
<1> QED
  BY <1>1, <1>2, <1>3, <1>4, <1>5, <1>6 DEF IInv

-----------------------------------------------------------------------------
(* Every step preserves it: the session.                                   *)

(* An operation that ends rejected, the file as it is, keeps it: where the *)
(* file is what it was before the operation, or a handle failed to close.  *)
LEMMA RejectedStep ==
  ASSUME IInv, Rejected, UNCHANGED disk, UNCHANGED compression, closeFaults' \in Nat,
         \/ closeFaults' # 0
         \/ closeFaults' = closeFaults /\ step \notin {"sync", "close", "rollback"}
  PROVE  IInv'
<1> USE DEF IInv, Rejected, Finished, memory, disk
<1>1. Typed'
  BY AbsentFacts DEF Typed
<1>2. DiskInv'
  BY DEF DiskInv
<1>3. SessionInv'
  BY DEF SessionInv
<1>4. StepInv'
  BY DEF StepInv
<1>5. SoundDisk'
  BY DEF SoundDisk
<1>6. SoundSession'
  BY DEF SoundSession, Stem
<1>7. SoundClose'
  BY DEF SoundClose
<1> QED
  BY <1>1, <1>2, <1>3, <1>4, <1>5, <1>6, <1>7

(* A new session finds no file.                                            *)
LEMMA CreateStep == IInv /\ Create => IInv'
<1> SUFFICES ASSUME IInv, Create PROVE IInv'
  OBVIOUS
<1> USE DEF IInv, Create, op, disk, bounds
<1>1. file = Absent
  BY DEF DiskInv, Readable
<1>2. Typed'
  BY DEF Typed
<1>3. DiskInv'
  BY DEF DiskInv
<1>4. SessionInv'
  <2>1. IsPrefix(<<>>, <<>>)
    <3>1. <<>> \in Seq(Rec) /\ Len(<<>>) = 0
      OBVIOUS
    <3> QED  BY <3>1 DEF IsPrefix
  <2>2. Len(<<>>) = 0
    OBVIOUS
  <2> QED  BY <1>1, <2>1, <2>2, AbsentFacts DEF SessionInv
<1>5. StepInv'
  BY DEF StepInv
<1>6. SoundDisk' /\ SoundClose'
  BY DEF SoundDisk, SoundClose
<1>7. SoundSession'
  BY <1>1, AbsentFacts DEF SoundSession
<1> QED
  BY <1>2, <1>3, <1>4, <1>5, <1>6, <1>7

(* A log that grows keeps its prefixes and its pieces.                     *)
LEMMA Grown ==
  ASSUME NEW s \in Seq(Rec), NEW e \in Rec
  PROVE  /\ Len(Append(s, e)) = Len(s) + 1
         /\ \A p \in Seq(Rec) : IsPrefix(p, s) => IsPrefix(p, Append(s, e))
         /\ \A c \in 0 .. Len(s) : \A k \in c .. Len(s) :
              SubSeq(Append(s, e), c + 1, k) = SubSeq(s, c + 1, k)
<1> DEFINE t == Append(s, e)
           n == Len(s)
<1>1. t \in Seq(Rec) /\ Len(t) = n + 1 /\ n \in Nat /\ \A i \in 1 .. n : t[i] = s[i]
  BY AppendProperties
<1> HIDE DEF t, n
<1>2. IsPrefix(s, t)
  <2>1. n <= n + 1
    BY <1>1
  <2> QED  BY <1>1, <2>1, PrefixAt DEF n
<1>3. \A p \in Seq(Rec) : IsPrefix(p, s) => IsPrefix(p, t)
  BY <1>1, <1>2, PrefixTransitive
<1>4. ASSUME NEW c \in 0 .. n, NEW k \in c .. n PROVE SubSeq(t, c + 1, k) = SubSeq(s, c + 1, k)
  <2>1. c \in 0 .. n + 1 /\ k \in c .. n + 1 /\ \A i \in 1 .. k - c : c + i \in 1 .. n
    BY <1>1
  <2>2. /\ SubSeq(s, c + 1, k) \in Seq(Rec) /\ Len(SubSeq(s, c + 1, k)) = k - c
        /\ \A i \in 1 .. k - c : SubSeq(s, c + 1, k)[i] = s[c + i]
    BY Piece DEF n
  <2>3. /\ SubSeq(t, c + 1, k) \in Seq(Rec) /\ Len(SubSeq(t, c + 1, k)) = k - c
        /\ \A i \in 1 .. k - c : SubSeq(t, c + 1, k)[i] = t[c + i]
    BY <1>1, <2>1, Piece
  <2> QED  BY <1>1, <2>1, <2>2, <2>3, Same
<1> QED
  BY <1>1, <1>3, <1>4 DEF t, n

(* The session goes on, a write in progress or not.                        *)
LEMMA EmitStep == IInv /\ Emit => IInv'
<1> SUFFICES ASSUME IInv, Emit PROVE IInv'
  OBVIOUS
<1>1. PICK kind \in Follows(log) : log' = Append(log, Event(log, kind))
  BY DEF Emit
<1>2. /\ life = "live"
      /\ UNCHANGED <<compression, file, durable, life, cursor, materialized, step, purpose, batch,
                     before, promised, closeFaults>>
  BY DEF Emit, disk, op, bounds
<1>3. log \in Seq(Rec) /\ Hist(log) /\ Len(log) \in Nat /\ cursor <= Len(log) /\ cursor \in Nat
      /\ batch \in Seq(Rec) /\ Len(batch) \in Nat /\ file \in File /\ before \in File
  BY DEF IInv, SessionInv, Typed, Hist
<1>4. kind \in Kind
  BY <1>3, FollowsFacts
<1>5. Hist(log') /\ Event(log, kind) \in Rec
  BY <1>1, <1>3, <1>4, HistAppend DEF Event, Rec
<1>6. /\ Len(log') = Len(log) + 1
      /\ \A p \in Seq(Rec) : IsPrefix(p, log) => IsPrefix(p, log')
      /\ \A c \in 0 .. Len(log) : \A k \in c .. Len(log) : SubSeq(log', c + 1, k) = SubSeq(log, c + 1, k)
  BY <1>1, <1>3, <1>5, Grown
<1>7. Typed'
  BY <1>2 DEF IInv, Typed
<1>8. DiskInv' /\ SoundDisk' /\ SoundClose' /\ StepInv'
  BY <1>2 DEF IInv, DiskInv, SoundDisk, SoundClose, StepInv
<1>9. SessionInv'
  <2>1. cursor' <= Len(log')
    BY <1>2, <1>3, <1>6
  <2>2. life = "live" /\ ~Torn(file) => IsPrefix(file.lines, log')
    BY <1>3, <1>6, FileFacts DEF IInv, SessionInv
  <2>3. ASSUME step # "idle"
        PROVE  /\ cursor + Len(batch) <= Len(log')
               /\ batch = Segment(log', cursor, Len(batch))
    <3>1. cursor + Len(batch) <= Len(log) /\ batch = Segment(log, cursor, Len(batch))
      BY <1>2, <2>3 DEF IInv, SessionInv
    <3>2. cursor \in 0 .. Len(log) /\ cursor + Len(batch) \in cursor .. Len(log)
          /\ cursor + Len(batch) <= Len(log')
      BY <1>3, <1>6, <3>1
    <3> QED  BY <1>6, <3>1, <3>2 DEF Segment
  <2>4. step \in {"sync", "close", "rollback"} => IsPrefix(before.lines, log')
    BY <1>2, <1>3, <1>6, FileFacts DEF IInv, SessionInv
  <2> QED  BY <1>2, <1>5, <2>1, <2>2, <2>3, <2>4 DEF IInv, SessionInv
<1>10. SoundSession'
  <2>1. 0 \in 0 .. Len(log) /\ cursor \in 0 .. Len(log) /\ 0 + 1 = 1
    BY <1>3
  <2>2. SubSeq(log', 1, cursor) = SubSeq(log, 1, cursor)
    BY <1>6, <2>1
  <2> QED  BY <1>2, <2>2 DEF IInv, SoundSession, Stem
<1> QED
  BY <1>7, <1>8, <1>9, <1>10 DEF IInv

(* An append takes the events above the cursor, and they can be read       *)
(* wherever it writes them.                                                *)
LEMMA StartAppendStep == IInv /\ StartAppend => IInv'
<1> SUFFICES ASSUME IInv, StartAppend PROVE IInv'
  OBVIOUS
<1>1. /\ life = "live" /\ step = "idle" /\ cursor < Len(log) /\ ~Torn(file)
      /\ step' = (IF materialized THEN "write" ELSE "publish") /\ purpose' = "append"
      /\ batch' = SubSeq(log, cursor + 1, Len(log))
      /\ UNCHANGED <<compression, file, durable, life, log, cursor, materialized, before, promised, closeFaults>>
  BY DEF StartAppend, disk, memory, bounds
<1>2. /\ log \in Seq(Rec) /\ Hist(log) /\ Len(log) \in Nat /\ cursor \in Nat
      /\ file \in File /\ Readable(file) /\ IsPrefix(file.lines, log) /\ file.lines \in Seq(Rec)
  <2>1. Hist(log) /\ cursor \in Nat /\ file \in File /\ Readable(file)
    BY DEF IInv, SessionInv, DiskInv, Typed
  <2>2. log \in Seq(Rec) /\ Len(log) \in Nat
    BY <2>1 DEF Hist
  <2>3. IsPrefix(file.lines, log)
    BY <1>1 DEF IInv, SessionInv
  <2> QED  BY <2>1, <2>2, <2>3, FileFacts
<1> DEFINE m == Len(log) - cursor
<1>3. m \in Nat /\ cursor + m = Len(log) /\ cursor + m <= Len(log)
  BY <1>1, <1>2
<1> HIDE DEF m
<1>4. /\ batch' \in Seq(Rec) /\ Len(batch') = m /\ batch' = Segment(log, cursor, m)
      /\ Hist(Valid(file.lines \o batch'))
  <2>1. batch' = Segment(log, cursor, m)
    BY <1>1, <1>3 DEF Segment
  <2>2. batch' \in Seq(Rec) /\ Len(batch') = m
    BY <1>2, <1>3, <2>1, SegmentFacts
  <2> QED  BY <1>2, <1>3, <2>1, <2>2, Graft
<1>5. materialized => Intact(file)
  BY <1>1, <1>2, NotTorn DEF IInv, SessionInv
<1>6. Typed'
  BY <1>1, <1>4 DEF IInv, Typed
<1>7. DiskInv' /\ SoundDisk'
  BY <1>1 DEF IInv, DiskInv, SoundDisk
<1>8. SessionInv'
  BY <1>1, <1>3, <1>4 DEF IInv, SessionInv
<1>9. StepInv'
  BY <1>1, <1>4, <1>5 DEF IInv, StepInv
<1>10. SoundSession' /\ SoundClose'
  BY <1>1 DEF IInv, SoundSession, SoundClose, Stem
<1> QED
  BY <1>6, <1>7, <1>8, <1>9, <1>10 DEF IInv

(* An empty session's first write.                                         *)
LEMMA EnsureMaterializedStep == IInv /\ EnsureMaterialized => IInv'
<1> SUFFICES ASSUME IInv, EnsureMaterialized PROVE IInv'
  OBVIOUS
<1>1. /\ life = "live" /\ step = "idle" /\ log = <<>> /\ ~materialized
      /\ step' = "publish" /\ purpose' = "append" /\ batch' = <<>>
      /\ UNCHANGED <<compression, file, durable, life, log, cursor, materialized, before, promised, closeFaults>>
  BY DEF EnsureMaterialized, disk, memory, bounds
<1>2. cursor = 0 /\ Len(log) = 0 /\ <<>> \in Seq(Rec) /\ Len(<<>>) = 0 /\ <<>> = Segment(<<>>, 0, 0)
  BY <1>1 DEF IInv, SessionInv, Segment
<1>3. Typed'
  BY <1>1, <1>2 DEF IInv, Typed
<1>4. DiskInv' /\ SoundDisk'
  BY <1>1 DEF IInv, DiskInv, SoundDisk
<1>5. SessionInv'
  BY <1>1, <1>2 DEF IInv, SessionInv
<1>6. StepInv'
  BY <1>1 DEF IInv, StepInv
<1>7. SoundSession' /\ SoundClose'
  BY <1>1 DEF IInv, SoundSession, SoundClose, Stem
<1> QED
  BY <1>3, <1>4, <1>5, <1>6, <1>7 DEF IInv

(* The session is disposed.                                                *)
LEMMA RetireStep == IInv /\ Retire => IInv'
<1> SUFFICES ASSUME IInv, Retire PROVE IInv'
  OBVIOUS
<1> USE DEF IInv, Retire, op, disk, bounds
<1>1. Typed' /\ DiskInv'
  BY DEF Typed, DiskInv
<1>2. SessionInv'
  <2>1. Len(<<>>) = 0
    OBVIOUS
  <2> QED  BY <2>1, AbsentFacts DEF SessionInv
<1>3. StepInv' /\ SoundDisk' /\ SoundSession' /\ SoundClose'
  BY DEF StepInv, SoundDisk, SoundSession, SoundClose
<1> QED
  BY <1>1, <1>2, <1>3

(* The reloaded backend finds what the live session continues.             *)
LEMMA AdoptLivePrefixStep == IInv /\ AdoptLivePrefix => IInv'
<1> SUFFICES ASSUME IInv, AdoptLivePrefix PROVE IInv'
  OBVIOUS
<1>1. /\ life = "live" /\ step = "idle" /\ ~Torn(file) /\ IsPrefix(Stored(file), log)
      /\ cursor' = Len(Stored(file)) /\ materialized' = file.exists
      /\ UNCHANGED <<compression, file, durable, life, log, step, purpose, batch, before, promised, closeFaults>>
  BY DEF AdoptLivePrefix, Adoptable, disk, op, bounds
<1>2. file \in File /\ Readable(file) /\ Hist(log) /\ log \in Seq(Rec)
  BY DEF IInv, DiskInv, SessionInv, Typed, Hist
<1>3. /\ Stored(file) = file.lines /\ file.lines \in Seq(Rec) /\ Len(file.lines) \in Nat
      /\ file.exists => file = Whole(file.lines)
  BY <1>1, <1>2, NotTorn, FileFacts DEF Intact
<1>4. Len(file.lines) <= Len(log) /\ file.lines = SubSeq(log, 1, Len(file.lines))
  BY <1>1, <1>2, <1>3, PrefixAt
<1>5. ~file.exists => Len(file.lines) = 0
  <2>1. Len(<<>>) = 0
    OBVIOUS
  <2> QED  BY <1>2, <2>1, AbsentFacts DEF Readable
<1>6. Typed'
  BY <1>1, <1>2, <1>3, FileFacts DEF IInv, Typed
<1>7. DiskInv' /\ StepInv' /\ SoundDisk' /\ SoundClose'
  BY <1>1 DEF IInv, DiskInv, StepInv, SoundDisk, SoundClose
<1>8. SessionInv'
  BY <1>1, <1>2, <1>3, <1>4, <1>5 DEF IInv, SessionInv
<1>9. SoundSession'
  BY <1>1, <1>3, <1>4 DEF IInv, SoundSession, Stem
<1> QED
  BY <1>6, <1>7, <1>8, <1>9 DEF IInv

(* A stored session that needs no repair is attached to.                   *)
LEMMA AttachStep == IInv /\ Attach => IInv'
<1> SUFFICES ASSUME IInv, Attach PROVE IInv'
  OBVIOUS
<1>1. /\ life = "cold" /\ step = "idle" /\ ~Torn(file) /\ file.exists
      /\ life' = "live" /\ log' = Stored(file) /\ cursor' = Len(log') /\ materialized' = TRUE
      /\ UNCHANGED <<compression, file, durable, step, purpose, batch, before, promised, closeFaults>>
  BY DEF Attach, disk, op, bounds
<1>2. file \in File /\ Readable(file)
  BY DEF IInv, DiskInv, Typed
<1>3. /\ log' = file.lines /\ Hist(log') /\ log' \in Seq(Rec) /\ Len(log') \in Nat
      /\ file = Whole(log')
  BY <1>1, <1>2, NotTorn, FileFacts DEF Intact
<1>4. IsPrefix(log', log') /\ log' = SubSeq(log', 1, Len(log'))
  BY <1>3, PrefixAt
<1>5. Typed'
  BY <1>1, <1>3 DEF IInv, Typed
<1>6. DiskInv' /\ StepInv' /\ SoundDisk' /\ SoundClose'
  BY <1>1 DEF IInv, DiskInv, StepInv, SoundDisk, SoundClose
<1>7. SessionInv'
  BY <1>1, <1>3, <1>4 DEF IInv, SessionInv
<1>8. SoundSession'
  BY <1>1, <1>3, <1>4 DEF IInv, SoundSession, Stem
<1> QED
  BY <1>5, <1>6, <1>7, <1>8 DEF IInv

-----------------------------------------------------------------------------
(* Every step preserves it: the first write.                               *)

(* The first events of the log are published, or nothing is.               *)
LEMMA PublishStep == IInv /\ Publish => IInv'
<1> SUFFICES ASSUME IInv, Publish PROVE IInv'
  OBVIOUS
<1>1. step = "publish" /\ UNCHANGED compression /\ closeFaults \in Nat
  BY DEF Publish, IInv, Typed
<1>2. CASE Rejected /\ UNCHANGED disk /\ closeFaults' = closeFaults
  BY <1>1, <1>2, RejectedStep
<1>3. CASE ~file.exists /\ Change(Whole(batch)) /\ Continue("syncDir") /\ UNCHANGED <<memory, promised, bounds>>
  <2>1. /\ ~file.exists /\ file' = Whole(batch) /\ durable' = durable \cup {file'} /\ step' = "syncDir"
        /\ UNCHANGED <<purpose, batch, before, life, log, cursor, materialized, promised, closeFaults>>
    BY <1>3 DEF Change, Continue, memory, bounds
  <2>2. /\ life = "live" /\ ~materialized /\ cursor = 0 /\ Hist(log) /\ log \in Seq(Rec)
        /\ batch \in Seq(Rec) /\ purpose = "append"
        /\ cursor + Len(batch) <= Len(log) /\ batch = Segment(log, cursor, Len(batch))
    BY <1>1 DEF IInv, StepInv, SessionInv, Typed, Hist
  <2>3. Len(batch) \in 0 .. Len(log) /\ batch = SubSeq(log, 1, Len(batch)) /\ IsPrefix(batch, log)
    <3>1. Len(batch) \in Nat /\ Len(log) \in Nat /\ 0 + 1 = 1
      BY <2>2
    <3>2. Len(batch) <= Len(log) /\ batch = SubSeq(log, 1, Len(batch))
      BY <2>2, <3>1 DEF Segment
    <3> QED  BY <2>2, <3>1, <3>2, PrefixAt
  <2>4. Hist(batch)
    BY <2>2, <2>3, HistPrefix
  <2>5. /\ file' \in File /\ file'.exists /\ file'.lines = batch /\ All(file') = batch
        /\ ~Torn(file') /\ Readable(file') /\ Contiguous(batch)
    BY <2>1, <2>2, <2>4, WholeFacts DEF Hist
  <2>6. Typed'
    BY <1>1, <2>1, <2>5 DEF IInv, Typed
  <2>7. DiskInv'
    BY <2>1, <2>5 DEF IInv, DiskInv
  <2>8. SessionInv'
    BY <1>1, <2>1, <2>2, <2>3, <2>5 DEF IInv, SessionInv
  <2>9. StepInv'
    BY <2>1, <2>2 DEF IInv, StepInv
  <2>10. SoundDisk'
    BY <2>1, <2>5 DEF IInv, SoundDisk, DiskInv
  <2>11. SoundSession' /\ SoundClose'
    BY <2>1, <2>2, <2>5 DEF SoundSession, SoundClose
  <2> QED  BY <2>6, <2>7, <2>8, <2>9, <2>10, <2>11 DEF IInv
<1> QED
  BY <1>2, <1>3 DEF Publish, Fault, bounds

(* The published file's directory entry is synced.                         *)
LEMMA SyncDirStep == IInv /\ SyncDir => IInv'
<1> SUFFICES ASSUME IInv, SyncDir PROVE IInv'
  OBVIOUS
<1>1. step = "syncDir" /\ UNCHANGED compression /\ closeFaults \in Nat
  BY DEF SyncDir, IInv, Typed
<1>2. CASE Rejected /\ UNCHANGED disk /\ closeFaults' = closeFaults
  BY <1>1, <1>2, RejectedStep
<1>3. CASE Synced /\ Succeeded /\ UNCHANGED bounds
  <2>1. /\ life = "live" /\ ~materialized /\ cursor = 0 /\ Hist(log) /\ log \in Seq(Rec)
        /\ batch \in Seq(Rec) /\ purpose = "append" /\ file = Whole(batch) /\ Len(batch) \in Nat
        /\ cursor + Len(batch) <= Len(log) /\ batch = Segment(log, cursor, Len(batch))
        /\ Len(log) \in Nat
    BY <1>1 DEF IInv, StepInv, SessionInv, Typed, Hist
  <2>2. /\ durable' = {file} /\ file' = file /\ step' = "idle" /\ batch' = <<>> /\ before' = Absent
        /\ promised' = file /\ cursor' = cursor + Len(batch) /\ materialized' = TRUE
        /\ UNCHANGED <<purpose, life, log, closeFaults>>
    BY <1>3, <2>1 DEF Synced, Succeeded, Finished, bounds
  <2>3. Len(batch) <= Len(log) /\ batch = SubSeq(log, 1, Len(batch)) /\ cursor' = Len(batch)
    <3>1. 0 + 1 = 1 /\ 0 + Len(batch) = Len(batch)
      BY <2>1
    <3> QED  BY <2>1, <2>2, <3>1 DEF Segment
  <2>4. IsPrefix(batch, log) /\ IsPrefix(batch, batch)
    BY <2>1, <2>3, PrefixAt
  <2>5. Hist(batch)
    <3>1. Len(batch) \in 0 .. Len(log)
      BY <2>1, <2>3
    <3> QED  BY <2>1, <2>3, <3>1, HistPrefix
  <2>6. /\ file \in File /\ file.exists /\ file.lines = batch /\ All(file) = batch
        /\ ~Torn(file) /\ Readable(file) /\ Contiguous(batch)
    BY <2>1, <2>5, WholeFacts DEF Hist
  <2>7. Typed'
    BY <1>1, <2>1, <2>2, <2>3, <2>6, AbsentFacts DEF IInv, Typed
  <2>8. DiskInv'
    BY <2>2, <2>6 DEF DiskInv
  <2>9. SessionInv'
    BY <2>1, <2>2, <2>3, <2>4, <2>6 DEF SessionInv
  <2>10. StepInv'
    BY <2>2 DEF StepInv
  <2>11. SoundDisk'
    BY <2>2, <2>4, <2>6 DEF SoundDisk
  <2>12. SoundSession' /\ SoundClose'
    BY <2>1, <2>2, <2>3, <2>6 DEF SoundSession, SoundClose, Stem
  <2> QED  BY <2>7, <2>8, <2>9, <2>10, <2>11, <2>12 DEF IInv
<1> QED
  BY <1>2, <1>3 DEF SyncDir, Fault

-----------------------------------------------------------------------------
(* Every step preserves it: a later write.                                 *)

(* The beginning of a segment is one.                                      *)
LEMMA SegmentHead ==
  ASSUME NEW s \in Seq(Rec), NEW c \in Nat, NEW m \in Nat, c + m <= Len(s), NEW k \in 0 .. m
  PROVE  SubSeq(Segment(s, c, m), 1, k) = Segment(s, c, k)
<1> DEFINE b == SubSeq(s, c + 1, c + m)
<1>1. c \in 0 .. Len(s) /\ c + m \in c .. Len(s) /\ (c + m) - c = m
      /\ c + k \in c .. Len(s) /\ (c + k) - c = k /\ \A i \in 1 .. k : i \in 1 .. m
  OBVIOUS
<1>2. b \in Seq(Rec) /\ Len(b) = m /\ \A i \in 1 .. m : b[i] = s[c + i]
  BY <1>1, Piece
<1> HIDE DEF b
<1>3. /\ SubSeq(b, 1, k) \in Seq(Rec) /\ Len(SubSeq(b, 1, k)) = k
      /\ \A i \in 1 .. k : SubSeq(b, 1, k)[i] = b[i]
  BY <1>2, Prefixed
<1> DEFINE h == SubSeq(s, c + 1, c + k)
<1>4. h \in Seq(Rec) /\ Len(h) = k /\ \A i \in 1 .. k : h[i] = s[c + i]
  BY <1>1, Piece
<1> HIDE DEF h
<1>5. SubSeq(b, 1, k) = h
  <2> DEFINE a == SubSeq(b, 1, k)
  <2>1. a \in Seq(Rec) /\ h \in Seq(Rec) /\ Len(a) = k /\ Len(h) = k
    BY <1>3, <1>4
  <2>2. \A i \in 1 .. k : a[i] = h[i]
    BY <1>1, <1>2, <1>3, <1>4
  <2> HIDE DEF a
  <2>3. a = h
    BY <2>1, <2>2, Same
  <2> QED  BY <2>3 DEF a
<1> QED
  BY <1>5 DEF Segment, b, h

(* A batch of the log that is cut short leaves a prefix of the log, or a   *)
(* torn file.                                                              *)
LEMMA CutOfLog ==
  ASSUME NEW s, Hist(s), NEW f \in File, Intact(f), IsPrefix(f.lines, s),
         NEW c \in Nat, NEW m \in Nat, c + m <= Len(s), NEW b \in Seq(Rec), b = Segment(s, c, m),
         NEW g \in Cut(f, b), ~Torn(g)
  PROVE  IsPrefix(g.lines, s)
<1>1. s \in Seq(Rec) /\ Len(s) \in Nat /\ f.lines \in Seq(Rec) /\ Len(b) = m
  <2>1. s \in Seq(Rec)
    BY DEF Hist
  <2>2. Len(b) = m
    BY <2>1, SegmentFacts
  <2>3. f.lines \in Seq(Rec)
    BY FileFacts
  <2>4. Len(s) \in Nat
    BY <2>1
  <2> QED  BY <2>1, <2>2, <2>3, <2>4
<1>2. g \in File /\ (~g.torn => g.tail = <<>>)
  BY CutFacts
<1>3. PICK k \in 0 .. Len(b) : All(g) = f.lines \o SubSeq(b, 1, k)
  BY CutFacts
<1>4. All(g) = g.lines /\ Contiguous(g.lines)
  BY <1>2, FileFacts DEF Torn
<1> DEFINE h == SubSeq(b, 1, k)
<1>5. k \in 0 .. m /\ k \in Nat /\ c + k <= Len(s) /\ h \in Seq(Rec)
  BY <1>1, Prefixed
<1>6. h = Segment(s, c, k)
  BY <1>1, <1>5, SegmentHead
<1>7. Contiguous(f.lines \o h) => IsPrefix(f.lines \o h, s)
  <2> HIDE DEF h
  <2> QED  BY <1>1, <1>5, <1>6, Graft
<1> QED
  BY <1>3, <1>4, <1>7

(* What a write leaves, whole or cut short.                                *)
LEMMA Written ==
  ASSUME IInv, step = "write", NEW g \in Cut(file, batch) \cup {Whole(file.lines \o batch)}
  PROVE  /\ g \in File /\ g.exists /\ Readable(g) /\ IsPrefix(file.lines, g.lines)
         /\ closeFaults = 0 => Contiguous(file.lines \o batch) /\ Contiguous(All(g))
         /\ life = "live" /\ ~Torn(g) => IsPrefix(g.lines, log)
<1> DEFINE p == file.lines
           w == p \o batch
           m == Len(batch)
<1>1. /\ file \in File /\ Intact(file) /\ Hist(Valid(w)) /\ batch \in Seq(Rec)
      /\ life = "cold" => Contiguous(w)
      /\ life \in {"cold", "live"}
  BY DEF IInv, Typed, StepInv
<1>2. p \in Seq(Rec) /\ ~Torn(file) /\ m \in Nat
  <2>1. file.lines \in Seq(Rec)
    BY <1>1, FileFacts
  <2> QED  BY <1>1, <2>1, WholeFacts DEF Intact
<1>3. w \in Seq(Rec)
  BY <1>1, <1>2
<1>4. ASSUME life = "live"
      PROVE  /\ Hist(log) /\ cursor \in Nat /\ cursor + m <= Len(log) /\ batch = Segment(log, cursor, m)
             /\ IsPrefix(p, log) /\ materialized /\ cursor <= Len(log)
  BY <1>2, <1>4 DEF IInv, Typed, SessionInv, StepInv
<1> HIDE DEF p, m
<1>5. ASSUME life = "live"
      PROVE  /\ Contiguous(w) => IsPrefix(w, log)
             /\ Len(p) = cursor => Contiguous(w)
  BY <1>1, <1>2, <1>4, <1>5, Graft
<1>6. ASSUME closeFaults = 0 PROVE Contiguous(w)
  <2>1. CASE life = "live"
    <3>1. file = Whole(SubSeq(log, 1, cursor))
      BY <1>4, <1>6, <2>1 DEF IInv, SoundSession, Stem
    <3>2. log \in Seq(Rec) /\ cursor \in 0 .. Len(log)
      BY <1>4, <2>1 DEF Hist
    <3>3. p = SubSeq(log, 1, cursor) /\ Len(p) = cursor
      <4> DEFINE q == SubSeq(log, 1, cursor)
      <4>1. q \in Seq(Rec) /\ Len(q) = cursor
        BY <3>2, Prefixed
      <4> HIDE DEF q
      <4>2. p = q
        BY <3>1, <4>1, WholeFacts DEF p, q
      <4> QED  BY <4>1, <4>2 DEF q
    <3> QED  BY <1>5, <2>1, <3>3
  <2> QED  BY <1>1, <2>1
<1> HIDE DEF w
<1>7. CASE g = Whole(w)
  <2>1. g \in File /\ g.exists /\ g.lines = w /\ All(g) = w /\ Readable(g) /\ (Torn(g) <=> ~Contiguous(w))
    BY <1>1, <1>3, <1>7, WholeFacts
  <2>2. IsPrefix(p, w)
    <3>1. 0 \in 0 .. Len(batch) /\ Len(p) <= Len(w) /\ \A i \in 1 .. Len(p) : w[i] = p[i]
      BY <1>1, <1>2, Joined DEF w
    <3> QED  BY <1>2, <1>3, <3>1, PrefixAt
  <2> QED  BY <1>5, <1>6, <2>1, <2>2 DEF p, w
<1>8. CASE g \in Cut(file, batch)
  <2>1. g \in File /\ g.exists /\ IsPrefix(p, g.lines)
    BY <1>1, <1>8, CutFacts DEF p
  <2>2. Readable(g) /\ (Contiguous(w) => Contiguous(All(g)))
    BY <1>1, <1>8, CutReadable DEF p, w
  <2>3. life = "live" /\ ~Torn(g) => IsPrefix(g.lines, log)
    BY <1>1, <1>2, <1>4, <1>8, CutOfLog DEF p
  <2> QED  BY <1>6, <2>1, <2>2, <2>3 DEF p, w
<1> QED
  BY <1>7, <1>8 DEF w, p

(* Records join the disk: whatever was promised is there as well.          *)
LEMMA PromisedHeld ==
  ASSUME IInv, NEW g \in File, IsPrefix(file.lines, g.lines), closeFaults = 0, promised.exists
  PROVE  IsPrefix(promised.lines, g.lines)
<1>1. IsPrefix(promised.lines, file.lines) /\ file \in File /\ promised \in File
  BY DEF IInv, SoundDisk, DiskInv, Typed
<1>2. promised.lines \in Seq(Rec) /\ file.lines \in Seq(Rec) /\ g.lines \in Seq(Rec)
  BY <1>1, FileFacts
<1> QED
  BY <1>1, <1>2, PrefixTransitive

(* The records are written, or a part of them, or none.                    *)
LEMMA WriteStep == IInv /\ Write => IInv'
<1> SUFFICES ASSUME IInv, Write PROVE IInv'
  OBVIOUS
<1> DEFINE New == Cut(file, batch) \cup {Whole(file.lines \o batch)}
<1>1. /\ step = "write" /\ before' = file
      /\ UNCHANGED <<compression, life, log, cursor, materialized, purpose, batch, promised, closeFaults>>
      /\ durable' = durable \cup Cut(file, batch) \cup {file'}
      /\ \/ file' = Whole(file.lines \o batch) /\ step' = "sync"
         \/ file' \in Cut(file, batch) \cup {file} /\ step' = "rollback"
  BY DEF Write, memory, bounds, Fault
<1>2. /\ file \in File /\ Intact(file) /\ Readable(file) /\ file \in durable /\ batch \in Seq(Rec)
      /\ (materialized <=> life = "live")
  BY <1>1 DEF IInv, Typed, StepInv, DiskInv
<1>3. ~Torn(file) /\ file.exists /\ file.lines \in Seq(Rec)
  <2>1. file.lines \in Seq(Rec)
    BY <1>2, FileFacts
  <2> QED  BY <1>2, <2>1, WholeFacts DEF Intact
<1>4. /\ file' \in New \cup {file}
      /\ step' = "sync" => file' = Whole(file.lines \o batch)
      /\ step' \in {"sync", "rollback"}
      /\ durable' \subseteq durable \cup New
      /\ file' \in durable' /\ file \in durable'
  BY <1>1, <1>2
<1>5. \A g \in New : /\ g \in File /\ g.exists /\ Readable(g) /\ IsPrefix(file.lines, g.lines)
                     /\ closeFaults = 0 => Contiguous(file.lines \o batch) /\ Contiguous(All(g))
                     /\ life = "live" /\ ~Torn(g) => IsPrefix(g.lines, log)
  BY <1>1, Written
<1>6. Whole(file.lines \o batch) \in New
  OBVIOUS
<1>7. Torn(Whole(file.lines \o batch)) <=> ~Contiguous(file.lines \o batch)
  <2>1. file.lines \o batch \in Seq(Rec)
    BY <1>2, <1>3
  <2> QED  BY <2>1, WholeFacts
<1> HIDE DEF New
<1>8. Typed'
  BY <1>1, <1>2, <1>4, <1>5 DEF IInv, Typed
<1>9. DiskInv'
  BY <1>4, <1>5 DEF IInv, DiskInv
<1>10. SessionInv'
  BY <1>1, <1>3, <1>4, <1>5 DEF IInv, SessionInv
<1>11. StepInv'
  BY <1>1, <1>2, <1>3, <1>4 DEF IInv, StepInv
<1>12. SoundDisk'
  BY <1>1, <1>4, <1>5, PromisedHeld DEF IInv, SoundDisk
<1>13. SoundSession' /\ SoundClose'
  BY <1>1, <1>4, <1>5, <1>6, <1>7 DEF IInv, SoundSession, SoundClose, Stem
<1> QED
  BY <1>8, <1>9, <1>10, <1>11, <1>12, <1>13 DEF IInv

(* The records are synced, or the append is given up.                      *)
LEMMA SyncStep == IInv /\ Sync => IInv'
<1> SUFFICES ASSUME IInv, Sync PROVE IInv'
  OBVIOUS
<1>1. /\ step = "sync" /\ file' = file
      /\ UNCHANGED <<compression, life, log, cursor, materialized, purpose, batch, before, promised, closeFaults>>
      /\ \/ durable' = {file} /\ step' = "close"
         \/ durable' = durable /\ step' = "rollback"
  BY DEF Sync, Synced, Continue, memory, bounds, Fault, disk
<1>2. Typed'
  BY <1>1 DEF IInv, Typed
<1>3. DiskInv'
  BY <1>1 DEF IInv, DiskInv
<1>4. SessionInv'
  BY <1>1 DEF IInv, SessionInv
<1>5. StepInv'
  BY <1>1 DEF IInv, StepInv
<1>6. SoundDisk'
  BY <1>1 DEF IInv, SoundDisk, DiskInv
<1>7. SoundSession' /\ SoundClose'
  BY <1>1 DEF IInv, SoundSession, SoundClose, Stem
<1> QED
  BY <1>2, <1>3, <1>4, <1>5, <1>6, <1>7 DEF IInv

(* The handle is closed, and the operation has succeeded; or it is not,    *)
(* and the operation fails although its records are durable.               *)
LEMMA CloseHandleStep == IInv /\ CloseHandle => IInv'
<1> SUFFICES ASSUME IInv, CloseHandle PROVE IInv'
  OBVIOUS
<1>1. step = "close" /\ UNCHANGED <<compression, file, durable>> /\ closeFaults \in Nat
  BY DEF CloseHandle, disk, IInv, Typed
<1>2. CASE Rejected /\ CloseFault
  <2>1. closeFaults' # 0 /\ closeFaults' \in Nat
    BY <1>1, <1>2 DEF CloseFault
  <2>2. UNCHANGED disk /\ UNCHANGED compression
    BY <1>1 DEF disk
  <2> QED  BY <1>2, <2>1, <2>2, RejectedStep
<1>3. CASE Succeeded /\ UNCHANGED bounds
  <2>1. /\ step' = "idle" /\ batch' = <<>> /\ before' = Absent /\ promised' = file
        /\ UNCHANGED <<purpose, life, log, closeFaults>>
        /\ purpose = "append" => cursor' = cursor + Len(batch) /\ materialized' = TRUE
        /\ purpose # "append" => cursor' = cursor /\ materialized' = materialized
    BY <1>3 DEF Succeeded, Finished, bounds, memory
  <2>2. /\ file \in File /\ Readable(file) /\ file \in durable /\ batch \in Seq(Rec) /\ Len(batch) \in Nat
        /\ before \in File /\ file = Whole(before.lines \o batch) /\ Hist(log) /\ log \in Seq(Rec)
        /\ cursor \in Nat /\ cursor <= Len(log) /\ Len(log) \in Nat
        /\ (materialized <=> life = "live") /\ life \in {"cold", "live"}
        /\ purpose = IF life = "live" THEN "append" ELSE "repair"
    BY <1>1 DEF IInv, Typed, StepInv, DiskInv, SessionInv, Hist
  <2>3. before.lines \in Seq(Rec) /\ file.exists /\ file.lines = before.lines \o batch /\ file.lines \in Seq(Rec)
    <3>1. before.lines \in Seq(Rec)
      BY <2>2, FileFacts
    <3>2. before.lines \o batch \in Seq(Rec)
      BY <2>2, <3>1
    <3> QED  BY <2>2, <3>1, <3>2, WholeFacts
  <2>4. ASSUME life = "live"
        PROVE  /\ cursor + Len(batch) <= Len(log) /\ batch = Segment(log, cursor, Len(batch))
               /\ IsPrefix(before.lines, log)
    BY <1>1, <2>4 DEF IInv, SessionInv
  <2>5. ASSUME life = "live", closeFaults = 0
        PROVE  file = Whole(SubSeq(log, 1, cursor + Len(batch)))
    <3>1. before = Whole(SubSeq(log, 1, cursor))
      BY <1>1, <2>2, <2>5 DEF IInv, SoundSession, Stem
    <3>2. before.lines = SubSeq(log, 1, cursor) /\ Len(before.lines) = cursor
      <4>1. cursor \in 0 .. Len(log)
        BY <2>2
      <4> DEFINE q == SubSeq(log, 1, cursor)
      <4>2. q \in Seq(Rec) /\ Len(q) = cursor
        BY <2>2, <4>1, Prefixed
      <4> HIDE DEF q
      <4>3. before.lines = q
        BY <3>1, <4>2, WholeFacts DEF q
      <4> QED  BY <4>2, <4>3 DEF q
    <3>3. before.lines \o batch = SubSeq(log, 1, cursor + Len(batch))
      <4> DEFINE m == Len(batch)
                 p == before.lines
      <4>1. m \in Nat /\ cursor + m <= Len(log) /\ batch = Segment(log, cursor, m)
        BY <2>2, <2>4, <2>5
      <4>2. p \in Seq(Rec) /\ IsPrefix(p, log)
        BY <2>3, <2>4, <2>5
      <4> HIDE DEF m, p
      <4>3. Len(p) = cursor => IsHead(p \o batch, log, cursor + m)
        BY <2>2, <4>1, <4>2, Graft
      <4> QED  BY <3>2, <4>3 DEF m, p, IsHead
    <3> QED  BY <2>2, <3>3
  <2>6. Typed'
    <3>1. <<>> \in Seq(Rec) /\ cursor' \in Nat
      BY <2>1, <2>2
    <3> QED  BY <1>1, <2>1, <2>2, <3>1, AbsentFacts DEF IInv, Typed
  <2>7. DiskInv'
    BY <1>1 DEF IInv, DiskInv
  <2>8. SessionInv'
    <3>1. cursor' <= Len(log)
      BY <2>1, <2>2, <2>4
    <3> QED  BY <1>1, <2>1, <2>2, <2>3, <3>1 DEF IInv, SessionInv
  <2>9. StepInv'
    BY <2>1 DEF StepInv
  <2>10. SoundDisk'
    <3>1. IsPrefix(file.lines, file.lines)
      <4> DEFINE q == file.lines
      <4>1. q \in Seq(Rec)
        BY <2>3
      <4> HIDE DEF q
      <4>2. IsPrefix(q, q)
        BY <4>1, PrefixAt
      <4> QED  BY <4>2 DEF q
    <3> QED  BY <1>1, <2>1, <2>3, <3>1 DEF IInv, SoundDisk, SoundClose
  <2>11. SoundSession' /\ SoundClose'
    BY <1>1, <2>1, <2>2, <2>5 DEF IInv, SoundSession, SoundClose, Stem
  <2> QED  BY <2>6, <2>7, <2>8, <2>9, <2>10, <2>11 DEF IInv
<1> QED
  BY <1>2, <1>3 DEF CloseHandle

(* The file is cut back to what it was, or it is not.                      *)
LEMMA RollbackStep == IInv /\ Rollback => IInv'
<1> SUFFICES ASSUME IInv, Rollback PROVE IInv'
  OBVIOUS
<1>1. step = "rollback" /\ UNCHANGED compression /\ closeFaults \in Nat
  BY DEF Rollback, IInv, Typed
<1>2. CASE Rejected /\ UNCHANGED disk /\ CloseFault
  <2>1. closeFaults' # 0 /\ closeFaults' \in Nat
    BY <1>1, <1>2 DEF CloseFault
  <2> QED  BY <1>1, <1>2, <2>1, RejectedStep
<1>3. CASE CutBack /\ Continue("syncBack") /\ UNCHANGED <<memory, promised, bounds>>
  <2>1. /\ file' = before /\ durable' = durable \cup {before} /\ step' = "syncBack"
        /\ UNCHANGED <<purpose, batch, before, life, log, cursor, materialized, promised, closeFaults>>
    BY <1>3 DEF CutBack, Change, Continue, memory, bounds
  <2>2. before \in durable /\ durable' = durable /\ before \in File /\ Intact(before) /\ before.exists
        /\ Readable(before)
    BY <1>1, <2>1 DEF IInv, StepInv, Typed, DiskInv
  <2>3. ~Torn(before)
    <3>1. before.lines \in Seq(Rec)
      BY <2>2, FileFacts
    <3> QED  BY <2>2, <3>1, WholeFacts DEF Intact
  <2>4. Typed'
    BY <1>1, <2>1, <2>2 DEF IInv, Typed
  <2>5. DiskInv'
    BY <2>1, <2>2 DEF IInv, DiskInv
  <2>6. SessionInv'
    BY <1>1, <2>1, <2>2 DEF IInv, SessionInv
  <2>7. StepInv'
    BY <1>1, <2>1 DEF IInv, StepInv
  <2>8. SoundDisk'
    BY <2>1, <2>2 DEF IInv, SoundDisk
  <2>9. SoundSession' /\ SoundClose'
    BY <1>1, <2>1, <2>3 DEF IInv, SoundSession, SoundClose, Stem
  <2> QED  BY <2>4, <2>5, <2>6, <2>7, <2>8, <2>9 DEF IInv
<1> QED
  BY <1>2, <1>3 DEF Rollback

(* The file that was cut back is synced, or it is not.                     *)
LEMMA SyncBackStep == IInv /\ SyncBack => IInv'
<1> SUFFICES ASSUME IInv, SyncBack PROVE IInv'
  OBVIOUS
<1>1. step = "syncBack" /\ UNCHANGED compression /\ Rejected /\ closeFaults' = closeFaults /\ closeFaults \in Nat
      /\ (UNCHANGED disk \/ Synced)
  BY DEF SyncBack, IInv, Typed, bounds, Fault
<1>2. CASE UNCHANGED disk
  BY <1>1, <1>2, RejectedStep
<1>3. CASE Synced
  <2> USE <1>1, <1>3 DEF IInv, Rejected, Finished, Synced, memory
  <2>1. Typed'
    <3>1. <<>> \in Seq(Rec)
      OBVIOUS
    <3> QED  BY <3>1, AbsentFacts DEF Typed
  <2>2. DiskInv' /\ SessionInv' /\ StepInv'
    BY DEF DiskInv, SessionInv, StepInv
  <2>3. SoundDisk' /\ SoundSession' /\ SoundClose'
    BY DEF SoundDisk, SoundSession, SoundClose, Stem, DiskInv
  <2> QED  BY <2>1, <2>2, <2>3
<1> QED
  BY <1>1, <1>2, <1>3

-----------------------------------------------------------------------------
(* Every step preserves it: the repair of a stored session.                *)

(* The beginning of a history is one.                                      *)
LEMMA HistHead ==
  ASSUME NEW s \in Seq(Rec), NEW t \in Seq(Rec), Hist(s \o t)
  PROVE  Hist(s) /\ Contiguous(s) /\ Valid(s) = s
<1> DEFINE w == s \o t
           n == Len(s)
<1>1. /\ w \in Seq(Rec) /\ n \in Nat /\ n \in 0 .. Len(w) /\ \A i \in 1 .. n : w[i] = s[i]
  BY Joined
<1> HIDE DEF w
<1>2. SubSeq(w, 1, n) = s
  <2>1. /\ SubSeq(w, 1, n) \in Seq(Rec) /\ Len(SubSeq(w, 1, n)) = n
        /\ \A i \in 1 .. n : SubSeq(w, 1, n)[i] = w[i]
    BY <1>1, Prefixed
  <2> QED  BY <1>1, <2>1, Same
<1>3. Hist(w)
  BY DEF w
<1>4. Hist(s)
  BY <1>1, <1>2, <1>3, HistPrefix
<1> QED
  BY <1>4, ValidFacts DEF Hist

(* A history is all valid.                                                 *)
LEMMA HistValid == \A s : Hist(s) => Valid(s) = s /\ Contiguous(s) /\ s \in Seq(Rec)
  BY ValidFacts DEF Hist

(* A repair writes what it recovers and what ends the interrupted turn: a  *)
(* history, behind the records that the truncation keeps.                  *)
LEMMA RepairStep == IInv /\ Repair => IInv'
<1> SUFFICES ASSUME IInv, Repair PROVE IInv'
  OBVIOUS
<1> DEFINE v == Valid(file.lines)
           r == Recovered(file)
           c == Closers(Stored(file))
<1>1. /\ life = "cold" /\ step = "idle" /\ file.exists
      /\ step' = (IF Torn(file) THEN "truncate" ELSE "write") /\ purpose' = "repair"
      /\ batch' = r \o c
      /\ UNCHANGED <<compression, file, durable, life, log, cursor, materialized, before, promised, closeFaults>>
  BY DEF Repair, disk, memory, bounds
<1>2. file \in File /\ Readable(file) /\ ~materialized
  BY <1>1 DEF IInv, Typed, DiskInv, SessionInv
<1>3. r \in Seq(Rec) /\ v \in Seq(Rec) /\ v \o r = Stored(file)
  BY <1>2, RecoveredJoins
<1>4. c \in Seq(Rec) /\ Hist(Stored(file) \o c)
  BY <1>2, Closed DEF Readable
<1>5. ~Torn(file) => Intact(file) /\ v = file.lines
  BY <1>1, <1>2, NotTorn, HistValid
<1> HIDE DEF v, r, c
<1>6. batch' \in Seq(Rec) /\ Hist(v \o batch')
  <2>1. r \o c \in Seq(Rec)
    BY <1>3, <1>4
  <2>2. v \o (r \o c) = (v \o r) \o c
    <3>1. v \in Seq(Rec) /\ r \in Seq(Rec) /\ c \in Seq(Rec)
      BY <1>3, <1>4
    <3> QED  BY ONLY <3>1, ConcatAssociative
  <2> QED  BY <1>1, <1>3, <1>4, <2>1, <2>2
<1>7. Valid(v \o batch') = v \o batch' /\ Contiguous(v \o batch')
  BY <1>6, HistValid
<1>8. Typed'
  BY <1>1, <1>6 DEF IInv, Typed
<1>9. DiskInv' /\ SoundDisk' /\ SessionInv'
  BY <1>1 DEF IInv, DiskInv, SoundDisk, SessionInv
<1>10. StepInv'
  BY <1>1, <1>2, <1>5, <1>6, <1>7 DEF StepInv, v
<1>11. SoundSession' /\ SoundClose'
  BY <1>1 DEF SoundSession, SoundClose
<1> QED
  BY <1>8, <1>9, <1>10, <1>11 DEF IInv

(* The torn end is cut off.                                                *)
LEMMA TruncateStep == IInv /\ Truncate => IInv'
<1> SUFFICES ASSUME IInv, Truncate PROVE IInv'
  OBVIOUS
<1>1. step = "truncate" /\ UNCHANGED compression /\ closeFaults \in Nat
  BY DEF Truncate, IInv, Typed
<1>2. CASE Rejected /\ UNCHANGED disk /\ Fault
  <2>1. closeFaults' = closeFaults
    BY <1>2 DEF Fault
  <2> QED  BY <1>1, <1>2, <2>1, RejectedStep
<1>3. CASE Change(Truncated(file)) /\ Continue("syncTail") /\ UNCHANGED <<memory, promised, bounds>>
  <2> DEFINE v == Valid(file.lines)
  <2>1. /\ file' = Whole(v) /\ durable' = durable \cup {Whole(v)} /\ step' = "syncTail"
        /\ UNCHANGED <<purpose, batch, before, life, log, cursor, materialized, promised, closeFaults>>
    BY <1>3 DEF Change, Truncated, Continue, memory, bounds
  <2>2. /\ file \in File /\ file \in durable /\ Hist(v \o batch) /\ batch \in Seq(Rec)
        /\ life = "cold" /\ ~materialized
    BY <1>1 DEF IInv, Typed, DiskInv, StepInv, SessionInv
  <2>3. v \in Seq(Rec)
    BY <2>2, RecoveredJoins
  <2>4. ASSUME Contiguous(All(file)) PROVE v = file.lines
    BY <2>2, <2>4, SoundFacts
  <2> HIDE DEF v
  <2>5. Hist(v) /\ Contiguous(v)
    BY <2>2, <2>3, HistHead
  <2>6. /\ Whole(v) \in File /\ Whole(v).exists /\ Whole(v).lines = v /\ All(Whole(v)) = v
        /\ Readable(Whole(v)) /\ Intact(Whole(v))
    BY <2>3, <2>5, WholeFacts
  <2>7. Typed'
    BY <1>1, <2>1, <2>2, <2>6 DEF IInv, Typed
  <2>8. DiskInv'
    BY <2>1, <2>6 DEF IInv, DiskInv
  <2>9. SessionInv'
    BY <2>1, <2>2 DEF IInv, SessionInv
  <2>10. StepInv'
    BY <1>1, <2>1, <2>2, <2>6 DEF IInv, StepInv
  <2>11. SoundDisk'
    BY <2>1, <2>2, <2>4, <2>5, <2>6 DEF IInv, SoundDisk
  <2>12. SoundSession' /\ SoundClose'
    BY <2>1, <2>2 DEF SoundSession, SoundClose
  <2> QED  BY <2>7, <2>8, <2>9, <2>10, <2>11, <2>12 DEF IInv
<1> QED
  BY <1>2, <1>3 DEF Truncate

(* The file that was cut is synced, and the closers follow, if any.        *)
LEMMA SyncTailStep == IInv /\ SyncTail => IInv'
<1> SUFFICES ASSUME IInv, SyncTail PROVE IInv'
  OBVIOUS
<1>1. step = "syncTail" /\ UNCHANGED compression /\ closeFaults \in Nat
  BY DEF SyncTail, IInv, Typed
<1>2. CASE Rejected /\ UNCHANGED disk /\ Fault
  <2>1. closeFaults' = closeFaults
    BY <1>2 DEF Fault
  <2> QED  BY <1>1, <1>2, <2>1, RejectedStep
<1>3. CASE ~(Rejected /\ UNCHANGED disk /\ Fault)
  <2>1. /\ life = "cold" /\ ~materialized /\ purpose = "repair" /\ Intact(file) /\ Hist(file.lines \o batch)
        /\ file \in File /\ Readable(file) /\ batch \in Seq(Rec) /\ file \in durable
    BY <1>1 DEF IInv, Typed, StepInv, SessionInv, DiskInv
  <2>2. /\ file' = file /\ durable' = {file}
        /\ UNCHANGED <<purpose, life, log, cursor, materialized, closeFaults>>
        /\ \/ step' = "idle" /\ batch' = <<>> /\ before' = Absent /\ promised' = file
           \/ step' = "write" /\ UNCHANGED <<batch, before, promised>>
    BY <1>3, <2>1 DEF SyncTail, Synced, Succeeded, Finished, Continue, memory, bounds
  <2>3. /\ file.lines \in Seq(Rec) /\ file.exists /\ Contiguous(All(file))
        /\ Valid(file.lines \o batch) = file.lines \o batch /\ Contiguous(file.lines \o batch)
    <3>1. file.lines \in Seq(Rec)
      BY <2>1, FileFacts
    <3>2. file.exists /\ All(file) = file.lines
      BY <2>1, <3>1, WholeFacts DEF Intact
    <3> QED  BY <2>1, <3>1, <3>2, HistValid DEF Intact
  <2>4. IsPrefix(file.lines, file.lines)
    <3> DEFINE q == file.lines
    <3>1. q \in Seq(Rec)
      BY <2>3
    <3> HIDE DEF q
    <3>2. IsPrefix(q, q)
      BY <3>1, PrefixAt
    <3> QED  BY <3>2 DEF q
  <2>5. Typed'
    <3>1. <<>> \in Seq(Rec)
      OBVIOUS
    <3> QED  BY <1>1, <2>1, <2>2, <3>1, AbsentFacts DEF IInv, Typed
  <2>6. DiskInv'
    BY <2>1, <2>2 DEF DiskInv
  <2>7. SessionInv'
    BY <2>1, <2>2 DEF IInv, SessionInv
  <2>8. StepInv'
    BY <2>1, <2>2, <2>3 DEF StepInv
  <2>9. SoundDisk'
    BY <2>1, <2>2, <2>3, <2>4 DEF IInv, SoundDisk
  <2>10. SoundSession' /\ SoundClose'
    BY <2>1, <2>2 DEF SoundSession, SoundClose
  <2> QED  BY <2>5, <2>6, <2>7, <2>8, <2>9, <2>10 DEF IInv
<1> QED
  BY <1>2, <1>3

-----------------------------------------------------------------------------
(* Every step preserves it: crashes.                                       *)

(* What holds when no session is in memory and nothing is in progress.     *)
LEMMA DownStep ==
  ASSUME IInv, Down, DiskInv', durable' \subseteq File, SoundDisk'
  PROVE  IInv'
<1>1. /\ life' = "cold" /\ log' = <<>> /\ cursor' = 0 /\ materialized' = FALSE
      /\ step' = "idle" /\ batch' = <<>> /\ before' = Absent
      /\ UNCHANGED <<compression, purpose, promised, closeFaults>>
  BY DEF Down
<1>2. <<>> \in Seq(Rec) /\ Len(<<>>) = 0 /\ file' \in File
  BY DEF DiskInv
<1>3. Typed'
  BY <1>1, <1>2, AbsentFacts DEF IInv, Typed
<1>4. SessionInv'
  BY <1>1, <1>2, AbsentFacts DEF SessionInv
<1>5. StepInv' /\ SoundSession' /\ SoundClose'
  BY <1>1 DEF StepInv, SoundSession, SoundClose
<1> QED
  BY <1>3, <1>4, <1>5 DEF IInv

(* The process dies, perhaps within a write.                               *)
LEMMA ProcessCrashStep == IInv /\ ProcessCrash => IInv'
<1> SUFFICES ASSUME IInv, ProcessCrash PROVE IInv'
  OBVIOUS
<1> DEFINE cut == IF step = "write" THEN Cut(file, batch) ELSE {}
<1>1. Down /\ file' \in {file} \cup cut /\ durable' = durable \cup cut
  BY DEF ProcessCrash
<1>2. \A g \in cut : /\ g \in File /\ g.exists /\ Readable(g) /\ IsPrefix(file.lines, g.lines)
                     /\ closeFaults = 0 => Contiguous(All(g))
  BY Written
<1> HIDE DEF cut
<1>3. DiskInv'
  BY <1>1, <1>2 DEF IInv, DiskInv
<1>4. durable' \subseteq File
  BY <1>1, <1>2 DEF IInv, Typed
<1>5. SoundDisk'
  <2>1. UNCHANGED <<promised, closeFaults>>
    BY <1>1 DEF Down
  <2> QED  BY <1>1, <1>2, <2>1, PromisedHeld DEF IInv, SoundDisk
<1> QED
  BY <1>1, <1>3, <1>4, <1>5, DownStep

(* The power is lost: the disk is one of those it may have left.           *)
LEMMA PowerLossStep == IInv /\ PowerLoss => IInv'
<1> SUFFICES ASSUME IInv, PowerLoss PROVE IInv'
  OBVIOUS
<1>1. Down /\ file' \in durable /\ durable' = {file'} /\ UNCHANGED <<promised, closeFaults>>
  BY DEF PowerLoss, Down
<1>2. DiskInv' /\ SoundDisk' /\ durable' \subseteq File
  BY <1>1 DEF IInv, DiskInv, SoundDisk, Typed
<1> QED
  BY <1>1, <1>2, DownStep

-----------------------------------------------------------------------------
(* The theorems.                                                           *)

(* Nothing happens.                                                        *)
LEMMA StutterStep == IInv /\ UNCHANGED vars => IInv'
<1> SUFFICES ASSUME IInv, UNCHANGED vars PROVE IInv'
  OBVIOUS
<1> USE DEF IInv, vars, memory, op, disk, bounds
<1>1. Typed' /\ DiskInv' /\ SessionInv'
  BY DEF Typed, DiskInv, SessionInv
<1>2. StepInv'
  BY DEF StepInv
<1>3. SoundDisk' /\ SoundSession' /\ SoundClose'
  BY DEF SoundDisk, SoundSession, SoundClose, Stem
<1> QED
  BY <1>1, <1>2, <1>3

(* The invariant holds always.                                             *)
THEOREM IInvAlways == Spec => []IInv
<1>1. Init => IInv
  BY InitIInv
<1>2. IInv /\ [Next]_vars => IInv'
  BY CreateStep, EmitStep, StartAppendStep, EnsureMaterializedStep, RetireStep, AdoptLivePrefixStep,
     PublishStep, SyncDirStep, WriteStep, SyncStep, CloseHandleStep, RollbackStep, SyncBackStep,
     RepairStep, TruncateStep, SyncTailStep, AttachStep, ProcessCrashStep, PowerLossStep,
     StutterStep DEF Next
<1> QED
  BY <1>1, <1>2, PTL DEF Spec

(* Every variable has its type, for every number of events and of faults.  *)
THEOREM TypeOKAlways == Spec => []TypeOK
<1>1. IInv => TypeOK
  <2> SUFFICES ASSUME IInv PROVE TypeOK
    OBVIOUS
  <2>1. FileType(file) /\ FileType(before) /\ FileType(promised) /\ \A d \in durable : FileType(d)
    BY FileFacts DEF IInv, Typed
  <2>2. log \in Seq([seq : Nat, kind : Kind]) /\ batch \in Seq([seq : Nat, kind : Kind])
    BY DEF IInv, Typed, SessionInv, Hist, Rec
  <2>3. cursor \in 0 .. Len(log)
    <3>1. cursor \in Nat /\ cursor <= Len(log) /\ Len(log) \in Nat
      BY DEF IInv, Typed, SessionInv, Hist
    <3> QED  BY <3>1
  <2> QED  BY <2>1, <2>2, <2>3 DEF IInv, Typed, DiskInv, TypeOK
<1> QED
  BY <1>1, IInvAlways, PTL

(* Whatever a power loss may leave of the file, at any moment, what a read *)
(* keeps of it is a session's history: numbered without a gap and well     *)
(* nested.  Failed closes included (readPrefix, readZstdPrefix).           *)
THEOREM StoredIsHistory ==
  Spec => [](\A d \in durable : Contiguous(Stored(d)) /\ Nested(Stored(d)))
<1>1. IInv => \A d \in durable : Contiguous(Stored(d)) /\ Nested(Stored(d))
  BY DEF IInv, DiskInv, Readable, Hist
<1> QED
  BY <1>1, IInvAlways, PTL

(* A session's history is well nested whatever crashes, failed writes and  *)
(* failed closes it went through, those inside a repair included           *)
(* (interruptedTurnClosers, commitRepair).                                 *)
THEOREM HistoryIsNestedAlways == Spec => []HistoryIsNested
<1>1. IInv => HistoryIsNested
  BY DEF IInv, SessionInv, Hist, Nested, HistoryIsNested
<1> QED
  BY <1>1, IInvAlways, PTL

(* Unless an append handle failed to close, whatever a power loss may      *)
(* leave is readable and begins with every record of the last operation    *)
(* that succeeded (appendLines, materialize, commitRepair).  With such a   *)
(* failure it does not hold.                                               *)
THEOREM AcknowledgedSurvivesAlways == Spec => [](closeFaults = 0 => AcknowledgedSurvives)
<1>1. IInv => (closeFaults = 0 => AcknowledgedSurvives)
  <2> SUFFICES ASSUME IInv, closeFaults = 0, promised.exists, NEW d \in durable
               PROVE  d.exists /\ ~Refused(d) /\ IsPrefix(promised.lines, Stored(d))
    BY DEF AcknowledgedSurvives
  <2>1. d \in File /\ promised \in File /\ Contiguous(All(d)) /\ d.exists /\ IsPrefix(promised.lines, d.lines)
    BY DEF IInv, Typed, SoundDisk
  <2>2. ~Refused(d) /\ Stored(d) = All(d) /\ IsPrefix(d.lines, All(d))
    BY <2>1, SoundFacts
  <2>3. promised.lines \in Seq(Rec) /\ d.lines \in Seq(Rec) /\ All(d) \in Seq(Rec)
    BY <2>1, FileFacts
  <2>4. IsPrefix(promised.lines, All(d))
    BY <2>1, <2>2, <2>3, PrefixTransitive
  <2> QED  BY <2>1, <2>2, <2>4
<1> QED
  BY <1>1, IInvAlways, PTL

(* Unless an append handle failed to close, between operations the file of *)
(* a live session holds exactly the events below the cursor, and a         *)
(* reloaded backend finds a file that this session continues (appendCore,  *)
(* rollbackAppend, seedCoversPrefix).                                      *)
THEOREM CursorAgreesAlways == Spec => [](closeFaults = 0 => CursorAgrees)
<1>1. IInv => (closeFaults = 0 => CursorAgrees)
  <2> SUFFICES ASSUME IInv, closeFaults = 0, life = "live", step = "idle"
               PROVE  Adoptable /\ (materialized => ~Torn(file) /\ file.lines = SubSeq(log, 1, cursor))
    BY DEF CursorAgrees
  <2>1. file \in File /\ Readable(file) /\ ~Torn(file)
    BY DEF IInv, Typed, DiskInv, SoundSession
  <2>2. IsPrefix(file.lines, log)
    BY <2>1 DEF IInv, SessionInv
  <2>3. Stored(file) = file.lines /\ ~Refused(file)
    BY <2>1, NotTorn
  <2>4. ASSUME materialized PROVE file.lines = SubSeq(log, 1, cursor)
    <3>1. file = Whole(SubSeq(log, 1, cursor))
      BY <2>4 DEF IInv, SoundSession, Stem
    <3>2. log \in Seq(Rec) /\ cursor \in 0 .. Len(log)
      <4>1. log \in Seq(Rec) /\ cursor \in Nat /\ cursor <= Len(log) /\ Len(log) \in Nat
        BY DEF IInv, Typed, SessionInv, Hist
      <4> QED  BY <4>1
    <3> DEFINE q == SubSeq(log, 1, cursor)
    <3>3. q \in Seq(Rec)
      BY <3>2, Prefixed
    <3> HIDE DEF q
    <3>4. file.lines = q
      BY <3>1, <3>3, WholeFacts DEF q
    <3> QED  BY <3>4 DEF q
  <2> QED  BY <2>1, <2>2, <2>3, <2>4 DEF Adoptable
<1> QED
  BY <1>1, IInvAlways, PTL

(* What an append that ends has done to the file, and so to the store:     *)
(* all of its batch is stored, safe from a power loss and behind what was  *)
(* there, and the cursor is moved past it; or the cursor stays and the     *)
(* file, if the session had one, holds what it held before.                *)
AppendIsWhole ==
  [][life = "live" /\ step # "idle" /\ life' = "live" /\ step' = "idle" /\ closeFaults' = 0
       => \/ /\ materialized' /\ cursor' = cursor + Len(batch)
             /\ file' = Whole(SubSeq(log, 1, cursor')) /\ durable' = {file'}
          \/ /\ UNCHANGED <<materialized, cursor>>
             /\ materialized => file' = Whole(SubSeq(log, 1, cursor))]_vars

(* Unless an append handle failed to close, an append is all or nothing,   *)
(* which is what WriteBehind takes for granted of appendBatch: a rejected  *)
(* batch leaves none of its records behind for the retry to follow         *)
(* (appendLines, rollbackAppend, appendCore).                              *)
THEOREM AppendIsWholeAlways == Spec => AppendIsWhole
<1>1. ASSUME IInv, IInv', Next,
             life = "live", step # "idle", life' = "live", step' = "idle", closeFaults' = 0
      PROVE  \/ /\ materialized' /\ cursor' = cursor + Len(batch)
                /\ file' = Whole(SubSeq(log, 1, cursor')) /\ durable' = {file'}
             \/ /\ UNCHANGED <<materialized, cursor>>
                /\ materialized => file' = Whole(SubSeq(log, 1, cursor))
  <2>1. /\ purpose = "append" /\ materialized \in BOOLEAN /\ materialized' \in BOOLEAN
        /\ step \notin {"truncate", "syncTail"}
    BY <1>1 DEF IInv, Typed, StepInv
  <2>2. materialized' => file' = Whole(SubSeq(log', 1, cursor'))
    BY <1>1 DEF IInv, SoundSession, Stem
  <2>3. CASE SyncDir \/ CloseHandle
    <3>1. CASE Succeeded
      <4>1. /\ materialized' /\ cursor' = cursor + Len(batch) /\ log' = log
        BY <2>1, <3>1 DEF Succeeded
      <4>2. CASE SyncDir
        <5>1. Synced \/ Rejected
          BY <4>2 DEF SyncDir
        <5>2. CASE Rejected
          BY <2>2, <5>2, <1>1, <4>2 DEF Rejected, memory
        <5>3. CASE Synced
          BY <2>2, <4>1, <5>3 DEF Synced
        <5> QED  BY <5>1, <5>2, <5>3
      <4>3. CASE CloseHandle
        <5>1. step = "close" /\ UNCHANGED <<file, durable>>
          BY <4>3 DEF CloseHandle, disk
        <5>2. (Rejected /\ closeFaults' = closeFaults + 1) \/ closeFaults' = closeFaults
          BY <1>1, <4>3 DEF CloseHandle, bounds, CloseFault
        <5>3. closeFaults \in Nat
          BY <1>1 DEF IInv, Typed
        <5>4. closeFaults = 0
          BY <1>1, <5>2, <5>3
        <5>5. durable = {file}
          BY <1>1, <5>1, <5>4 DEF IInv, SoundClose
        <5> QED  BY <2>2, <4>1, <5>1, <5>5
      <4> QED  BY <2>3, <4>2, <4>3
    <3>2. CASE Rejected
      BY <2>2, <3>2 DEF Rejected, memory
    <3> QED  BY <2>3, <3>1, <3>2 DEF SyncDir, CloseHandle
  <2>4. CASE Publish \/ Rollback \/ SyncBack
    <3>1. Rejected
      BY <1>1, <2>4 DEF Publish, Rollback, SyncBack, Continue
    <3> QED  BY <2>2, <3>1 DEF Rejected, memory
  <2>5. SyncDir \/ CloseHandle \/ Publish \/ Rollback \/ SyncBack
    <3>1. ~(Create \/ StartAppend \/ EnsureMaterialized \/ Retire \/ AdoptLivePrefix \/ Repair \/ Attach)
      BY <1>1 DEF Create, StartAppend, EnsureMaterialized, Retire, AdoptLivePrefix, Repair, Attach
    <3>2. ~(Emit \/ Write \/ Sync)
      BY <1>1 DEF Emit, op, Write, Sync, Continue
    <3>3. ~(Truncate \/ SyncTail \/ ProcessCrash \/ PowerLoss)
      BY <1>1, <2>1 DEF Truncate, SyncTail, ProcessCrash, PowerLoss, Down
    <3> QED  BY <1>1, <3>1, <3>2, <3>3 DEF Next
  <2> QED  BY <2>3, <2>4, <2>5
<1>2. IInv /\ IInv' /\ [Next]_vars =>
        [life = "live" /\ step # "idle" /\ life' = "live" /\ step' = "idle" /\ closeFaults' = 0
           => \/ /\ materialized' /\ cursor' = cursor + Len(batch)
                 /\ file' = Whole(SubSeq(log, 1, cursor')) /\ durable' = {file'}
              \/ /\ UNCHANGED <<materialized, cursor>>
                 /\ materialized => file' = Whole(SubSeq(log, 1, cursor))]_vars
  BY <1>1 DEF vars, op
<1> QED
  BY <1>2, IInvAlways, PTL DEF Spec, AppendIsWhole
=============================================================================

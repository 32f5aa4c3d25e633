---------------------------- MODULE RecordsProofs ----------------------------
(***************************************************************************)
(* Lemmas about the pure operators of Records: maxima of bounded sets, the *)
(* winner of a set of index entries, and how staging treats a prefix.      *)
(***************************************************************************)
EXTENDS Records, WellFoundedInduction, TLAPS

\* The naturals are well ordered.
LEMMA LeastNatural ==
  ASSUME NEW S \in SUBSET Nat, S # {}
  PROVE  \E x \in S : \A y \in S : x <= y
<1> DEFINE R == OpToRel(<, Nat)
<1>1. IsWellFoundedOn(R, Nat)
  BY NatLessThanWellFounded, Zenon
<1>2. \A x, y \in Nat : <<y, x>> \in R <=> y < x
  BY DEF OpToRel
<1> HIDE DEF R
<1>3. \E x \in S : \A y \in S : ~(<<y, x>> \in R)
  BY <1>1, WFMin, Zenon
<1>4. PICK x \in S : \A y \in S : ~(<<y, x>> \in R)
  BY <1>3
<1>5. \A y \in S : ~(y < x)
  BY <1>2, <1>4, Zenon
<1> QED
  BY <1>5

\* A non-empty set of naturals with an upper bound has a maximum, and Max
\* finds it.
LEMMA MaxOfBounded ==
  ASSUME NEW S \in SUBSET Nat, S # {}, NEW b \in Nat, \A x \in S : x <= b
  PROVE  Max(S) \in S /\ \A x \in S : x <= Max(S)
<1> DEFINE U == {u \in Nat : \A x \in S : x <= u}
<1>1. U \in SUBSET Nat /\ U # {}
  OBVIOUS
<1>2. PICK u \in U : \A v \in U : u <= v
  BY <1>1, LeastNatural, Zenon
<1>3. u \in S
  <2>1. SUFFICES ASSUME u \notin S PROVE FALSE
    OBVIOUS
  <2>2. PICK s \in S : TRUE
    BY Zenon
  <2>3. u > 0 /\ u - 1 \in Nat
    BY <2>1, <2>2
  <2>4. \A x \in S : x <= u - 1
    BY <2>1, <2>3
  <2> QED
    BY <2>3, <2>4, <1>2
<1>4. \E x \in S : \A y \in S : x >= y
  BY <1>3
<1> QED
  BY <1>4, Zenon DEF Max

\* A non-empty set of naturals has a minimum, and Min finds it.
LEMMA MinOfNaturals ==
  ASSUME NEW S \in SUBSET Nat, S # {}
  PROVE  Min(S) \in S /\ \A x \in S : Min(S) <= x
<1>1. \E x \in S : \A y \in S : x <= y
  BY LeastNatural
<1> QED
  BY <1>1, Zenon DEF Min

\* Among entries whose numbers are bounded there is one that beats the others.
LEMMA NewestExists ==
  ASSUME NEW ents \in SUBSET Entry, ents # {}, NEW b \in Nat,
         \A e \in ents : e.seq <= b
  PROVE  Newest(ents) \in ents /\ \A f \in ents : Beats(Newest(ents), f)
<1> DEFINE top == Max({e.seq : e \in ents})
<1>1. top \in {e.seq : e \in ents} /\ \A e \in ents : e.seq <= top
  <2>1. {e.seq : e \in ents} \in SUBSET Nat /\ {e.seq : e \in ents} # {}
    BY DEF Entry
  <2>2. \A x \in {e.seq : e \in ents} : x <= b
    OBVIOUS
  <2> HIDE DEF top
  <2>3. Max({e.seq : e \in ents}) \in {e.seq : e \in ents}
        /\ \A x \in {e.seq : e \in ents} : x <= Max({e.seq : e \in ents})
    BY <2>1, <2>2, MaxOfBounded, Zenon
  <2> QED
    BY <2>3, Zenon DEF top
<1> HIDE DEF top
<1> DEFINE A == {e \in ents : e.seq = top}
<1> DEFINE F == {e.file : e \in A}
<1>2. F \in SUBSET Nat /\ F # {}
  BY <1>1 DEF Entry
<1>3. PICK f \in F : \A g \in F : f <= g
  BY <1>2, LeastNatural, Zenon
<1> DEFINE B == {e \in A : e.file = f}
<1> DEFINE P == {e.pos : e \in B}
<1>4. P \in SUBSET Nat /\ P # {}
  BY <1>3 DEF Entry
<1>5. PICK p \in P : \A q \in P : p <= q
  BY <1>4, LeastNatural, Zenon
<1>6. PICK e \in B : e.pos = p
  BY <1>5
<1>7. \A g \in ents : Beats(e, g)
  <2>1. TAKE g \in ents
  <2>2. e.seq = top /\ g.seq <= top /\ e.file = f
    BY <1>1, <1>6
  <2>3. CASE g.seq # top
    BY <2>2, <2>3, <1>1 DEF Beats, Entry
  <2>4. CASE g.seq = top /\ g.file # f
    <3>1. g.file \in F
      BY <2>4
    <3> QED
      BY <3>1, <2>2, <2>4, <1>2, <1>3 DEF Beats, Entry
  <2>5. CASE g.seq = top /\ g.file = f
    <3>1. g.pos \in P
      BY <2>5
    <3> QED
      BY <3>1, <2>2, <2>5, <1>5, <1>6 DEF Beats
  <2> QED
    BY <2>3, <2>4, <2>5
<1> QED
  BY <1>6, <1>7 DEF Newest

\* Applying entries to an index slot leaves the old entry or one of them,
\* and none of them is newer than what it leaves.
LEMMA ApplyEntriesResult ==
  ASSUME NEW old \in Entry, NEW ents \in SUBSET Entry, NEW b \in Nat,
         \A e \in ents : e.seq <= b
  PROVE  /\ ApplyEntries(old, ents) \in {old} \cup ents
         /\ ApplyEntries(old, ents).seq >= old.seq
         /\ \A e \in ents : e.seq <= ApplyEntries(old, ents).seq
<1> DEFINE newer == {e \in ents : e.seq > old.seq}
<1>1. CASE newer = {}
  BY <1>1 DEF ApplyEntries, Entry
<1>2. CASE newer # {}
  <2>1. Newest(newer) \in newer /\ \A f \in newer : Beats(Newest(newer), f)
    <3>1. newer \in SUBSET Entry /\ \A e \in newer : e.seq <= b
      OBVIOUS
    <3> HIDE DEF newer
    <3> QED
      BY <1>2, <3>1, NewestExists
  <2>2. ApplyEntries(old, ents) = Newest(newer)
    BY <1>2 DEF ApplyEntries
  <2>3. \A f \in newer : f.seq <= Newest(newer).seq
    BY <2>1 DEF Beats, Entry
  <2>4. Newest(newer) \in ents /\ Newest(newer).seq > old.seq
    BY <2>1, Zenon
  <2>5. \A e \in ents : e.seq \in Nat /\ old.seq \in Nat
    BY DEF Entry
  <2>6. \A e \in ents : e.seq <= Newest(newer).seq
    <3> TAKE e \in ents
    <3>1. CASE e \in newer
      BY <2>3, <3>1, Zenon
    <3>2. CASE ~(e.seq > old.seq)
      <4> HIDE DEF newer
      <4> QED
        BY <2>4, <2>5, <3>2
    <3> QED
      BY <3>1, <3>2, Zenon
  <2> HIDE DEF newer
  <2> QED
    BY <2>2, <2>4, <2>5, <2>6
<1> QED
  BY <1>1, <1>2

\* The commit offset lies inside the file, and every record that reaches the
\* index lies before it.
LEMMA CommitCoversApplied ==
  ASSUME NEW recs \in Seq(Record)
  PROVE  /\ CommitLen(recs) \in 0..Len(recs)
         /\ \A i \in Applied(recs) : i <= CommitLen(recs)
<1> DEFINE S == {0} \cup {i \in DOMAIN recs : recs[i].part # "member"}
<1>1. S \in SUBSET Nat /\ S # {} /\ \A x \in S : x <= Len(recs)
  OBVIOUS
<1>2. Len(recs) \in Nat
  OBVIOUS
<1>3. Max(S) \in S /\ \A x \in S : x <= Max(S)
  <2> HIDE DEF S
  <2> QED
    BY <1>1, <1>2, MaxOfBounded, Zenon
<1>4. CommitLen(recs) = Max(S)
  BY DEF CommitLen
<1>5. \A i \in Applied(recs) : i <= Max(S)
  <2>1. TAKE i \in Applied(recs)
  <2>2. CASE recs[i].part # "member"
    BY <2>2, <1>3 DEF Applied
  <2>3. CASE recs[i].part = "member"
    <3>1. PICK j \in DOMAIN recs : j > i /\ recs[j].part = "last"
      BY <2>3 DEF Applied
    <3>2. j \in S
      BY <3>1
    <3>3. j <= Max(S) /\ Max(S) \in Nat /\ j \in Nat /\ i \in Nat
      BY <3>2, <1>3, <1>1 DEF Applied
    <3> HIDE DEF S
    <3> QED
      BY <3>1, <3>3
  <2> QED
    BY <2>2, <2>3
<1> QED
  BY <1>3, <1>4, <1>5
\* A position of a sequence of records holds a record.
LEMMA RecordAtPosition ==
  ASSUME NEW recs \in Seq(Record), NEW i \in DOMAIN recs
  PROVE  /\ recs[i] \in Record /\ i \in 1..Len(recs) /\ i \in Nat
         /\ recs[i].key \in Keys /\ recs[i].seq \in Nat /\ recs[i].seq > 0
         /\ recs[i].tomb \in BOOLEAN
<1>1. recs[i] \in Record /\ i \in 1..Len(recs) /\ i \in Nat
  OBVIOUS
<1> QED
  BY <1>1 DEF Record
==============================================================================

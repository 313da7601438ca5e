--------------------------- MODULE MgmtTasksProofs ---------------------------
(***************************************************************************)
(* What the three management tasks promise whatever the number of timers,   *)
(* commands and messages, and however they and a close interleave: no        *)
(* command is lost or freed twice, no timer is forgotten, and a cancelled    *)
(* timer runs only where no cancel could have reached it.                    *)
(***************************************************************************)
EXTENDS MgmtTasks, SequenceTheorems, FiniteSetTheorems, TLAPS

----------------------------------------------------------------------------
(* What the operations on a queue do to the set of its elements. *)

\* The first of a set of places.
LEMMA SmallestOfNat ==
  ASSUME NEW I, I \subseteq Nat, I # {}
  PROVE  \E x \in I : \A y \in I : x <= y
<1> DEFINE R == OpToRel(<, Nat)
<1>1. IsWellFoundedOn(R, Nat)
  BY NatLessThanWellFounded
<1> HIDE DEF R
<1>2. PICK x \in I : \A y \in I : ~(<<y, x>> \in R)
  BY <1>1, WFMin
<1>3. ASSUME NEW y \in I PROVE x <= y
  <2>1. ~(y < x)
    BY <1>2, <1>3 DEF R, OpToRel
  <2> QED BY <2>1
<1> QED BY <1>3

\* What a queue holds after an element is appended.
LEMMA RangeAppend ==
  ASSUME NEW S, NEW q \in Seq(S), NEW e \in S
  PROVE  /\ Append(q, e) \in Seq(S)
         /\ Range(Append(q, e)) = Range(q) \cup {e}
<1> DEFINE r == Append(q, e)
<1>1. /\ r \in Seq(S) /\ Len(r) = Len(q) + 1
      /\ \A i \in 1..Len(q) : r[i] = q[i]
      /\ r[Len(q) + 1] = e
  BY AppendProperties
<1>2. Len(q) \in Nat /\ DOMAIN q = 1..Len(q) /\ DOMAIN r = 1..Len(r)
  BY <1>1, LenProperties
<1> HIDE DEF r
<1>3. \A i \in DOMAIN r : i \in DOMAIN q \/ i = Len(q) + 1
  BY <1>1, <1>2
<1>4. \A i \in DOMAIN q : i \in DOMAIN r
  BY <1>1, <1>2
<1>5. Len(q) + 1 \in DOMAIN r
  BY <1>1, <1>2
<1>6. Range(r) = Range(q) \cup {e}
  BY <1>1, <1>2, <1>3, <1>4, <1>5 DEF Range
<1> QED BY <1>1, <1>6 DEF r

\* What it holds once the head is taken.
LEMMA RangeTail ==
  ASSUME NEW S, NEW q \in Seq(S), q # <<>>
  PROVE  /\ Head(q) \in S /\ Head(q) \in Range(q) /\ Tail(q) \in Seq(S)
         /\ Range(q) = {Head(q)} \cup Range(Tail(q))
<1> DEFINE r == Tail(q)
<1>1. /\ Head(q) \in S /\ r \in Seq(S) /\ Len(r) = Len(q) - 1
      /\ \A i \in 1..Len(r) : r[i] = q[i + 1]
  BY HeadTailProperties
<1>2. Len(q) \in Nat /\ Len(q) # 0 /\ DOMAIN q = 1..Len(q) /\ DOMAIN r = 1..Len(r)
  BY <1>1, LenProperties, EmptySeq
<1>3. Head(q) = q[1] /\ 1 \in DOMAIN q
  BY <1>2
<1> HIDE DEF r
<1>4. \A i \in DOMAIN r : i + 1 \in DOMAIN q /\ r[i] = q[i + 1]
  BY <1>1, <1>2
<1>5. \A i \in DOMAIN q : i = 1 \/ (i - 1 \in DOMAIN r /\ r[i - 1] = q[i])
  <2> TAKE i \in DOMAIN q
  <2>1. CASE i = 1
    BY <2>1
  <2>2. CASE i # 1
    <3>1. i - 1 \in DOMAIN r /\ (i - 1) + 1 = i
      BY <1>1, <1>2, <2>2
    <3> QED BY <1>4, <3>1
  <2> QED BY <2>1, <2>2
<1>6. \A x \in Range(r) : x \in Range(q)
  BY <1>4 DEF Range
<1>7. \A x \in Range(q) : x = Head(q) \/ x \in Range(r)
  BY <1>3, <1>5 DEF Range
<1>8. Head(q) \in Range(q)
  BY <1>3 DEF Range
<1> QED BY <1>1, <1>6, <1>7, <1>8 DEF r

\* An empty queue holds nothing, and only an empty one does.
LEMMA RangeEmpty ==
  ASSUME NEW S, NEW q \in Seq(S)
  PROVE  /\ Range(q) \subseteq S
         /\ Range(q) = {} <=> q = <<>>
<1>1. DOMAIN q = 1..Len(q) /\ Len(q) \in Nat
  BY LenProperties
<1>2. Range(q) \subseteq S
  BY <1>1, ElementOfSeq DEF Range
<1>3. q = <<>> <=> Len(q) = 0
  BY EmptySeq
<1>4. CASE q = <<>>
  <2>1. DOMAIN q = {}
    BY <1>1, <1>3, <1>4
  <2> QED BY <1>2, <1>4, <2>1 DEF Range
<1>5. CASE q # <<>>
  <2>1. 1 \in DOMAIN q
    BY <1>1, <1>3, <1>5
  <2>2. q[1] \in Range(q)
    BY <2>1 DEF Range
  <2> QED BY <1>2, <1>5, <2>2
<1> QED BY <1>4, <1>5

\* RemoveFirst takes away no more than one node, and that is one of the element;
\* an element that had a single node has none afterwards.
LEMMA RemoveFirstProperties ==
  ASSUME NEW S, NEW q \in Seq(S), NEW e
  PROVE  /\ RemoveFirst(q, e) \in Seq(S)
         /\ Range(RemoveFirst(q, e)) \subseteq Range(q)
         /\ Range(q) \subseteq Range(RemoveFirst(q, e)) \cup {e}
         /\ Len(RemoveFirst(q, e)) <= Len(q)
         /\ (\A i, j \in DOMAIN q : q[i] = e /\ q[j] = e => i = j)
              => e \notin Range(RemoveFirst(q, e))
<1>1. DOMAIN q = 1..Len(q) /\ Len(q) \in Nat /\ \A i \in 1..Len(q) : q[i] \in S
  BY LenProperties, ElementOfSeq
<1>2. CASE ~\E i \in 1..Len(q) : q[i] = e
  <2>1. RemoveFirst(q, e) = q
    BY <1>2 DEF RemoveFirst
  <2> QED BY <1>1, <1>2, <2>1 DEF Range
<1>3. CASE \E i \in 1..Len(q) : q[i] = e
  <2> DEFINE I == {i \in 1..Len(q) : q[i] = e}
             k == SelectInSeq(q, LAMBDA v : v = e)
             a == SubSeq(q, 1, k - 1)
             b == SubSeq(q, k + 1, Len(q))
             r == a \o b
  <2>1. k = Min(I)
    BY <1>3 DEF SelectInSeq
  <2>2. k \in 1..Len(q) /\ q[k] = e
    <3>1. \E x \in I : \A y \in I : x <= y
      <4>1. I \in SUBSET Nat /\ I # {}
        BY <1>1, <1>3
      <4> HIDE DEF I
      <4> QED BY <4>1, SmallestOfNat
    <3>2. Min(I) \in I
      BY <3>1 DEF Min
    <3> QED BY <2>1, <3>2
  <2> HIDE DEF k
  <2>3. r = RemoveFirst(q, e)
    BY <1>3 DEF RemoveFirst, RemoveAt, k
  <2>4. /\ a \in Seq(S) /\ Len(a) = k - 1
        /\ \A i \in 1..(k - 1) : a[i] = q[i]
    <3>1. \A i \in 1..(k - 1) : q[i] \in S
      BY <1>1, <2>2
    <3>2. /\ SubSeq(q, 1, k - 1) \in Seq(S)
          /\ Len(SubSeq(q, 1, k - 1)) = IF 1 <= k - 1 THEN (k - 1) - 1 + 1 ELSE 0
          /\ \A i \in 1..((k - 1) - 1 + 1) : SubSeq(q, 1, k - 1)[i] = q[1 + i - 1]
      BY <1>1, <2>2, <3>1, SubSeqProperties
    <3> QED BY <2>2, <3>2
  <2>5. /\ b \in Seq(S) /\ Len(b) = Len(q) - k
        /\ \A i \in 1..(Len(q) - k) : b[i] = q[k + i]
    <3>1. \A i \in (k + 1)..Len(q) : q[i] \in S
      BY <1>1, <2>2
    <3>2. /\ b \in Seq(S)
          /\ Len(b) = IF k + 1 <= Len(q) THEN Len(q) - (k + 1) + 1 ELSE 0
          /\ \A i \in 1..(Len(q) - (k + 1) + 1) : b[i] = q[k + 1 + i - 1]
      BY <1>1, <2>2, <3>1, SubSeqProperties
    <3> HIDE DEF b
    <3>3. Len(b) = Len(q) - k
      <4>1. k \in Nat /\ Len(q) \in Nat /\ k <= Len(q)
        BY <1>1, <2>2
      <4> QED BY <3>2, <4>1
    <3>4. ASSUME NEW i \in 1..(Len(q) - k) PROVE b[i] = q[k + i]
      <4>1. i \in 1..(Len(q) - (k + 1) + 1) /\ k + 1 + i - 1 = k + i
        BY <1>1, <2>2
      <4> QED BY <3>2, <4>1
    <3> QED BY <3>2, <3>3, <3>4
  <2> HIDE DEF a, b
  <2>6. /\ r \in Seq(S) /\ Len(r) = Len(q) - 1
        /\ \A i \in 1..(Len(q) - 1) : r[i] = IF i < k THEN q[i] ELSE q[i + 1]
    <3>1. /\ r \in Seq(S) /\ Len(r) = Len(a) + Len(b)
          /\ \A i \in 1..(Len(a) + Len(b)) :
               r[i] = IF i <= Len(a) THEN a[i] ELSE b[i - Len(a)]
      BY <2>4, <2>5, ConcatProperties
    <3>2. Len(a) + Len(b) = Len(q) - 1
      BY <1>1, <2>2, <2>4, <2>5
    <3>3. ASSUME NEW i \in 1..(Len(q) - 1), i < k PROVE r[i] = q[i]
      BY <1>1, <2>2, <2>4, <3>1, <3>2, <3>3
    <3>4. ASSUME NEW i \in 1..(Len(q) - 1), ~(i < k) PROVE r[i] = q[i + 1]
      <4>1. r[i] = b[i - Len(a)] /\ i - Len(a) \in 1..(Len(q) - k)
        BY <1>1, <2>2, <2>4, <3>1, <3>2, <3>4
      <4>2. b[i - Len(a)] = q[k + (i - Len(a))]
        BY <2>5, <4>1
      <4> QED BY <1>1, <2>2, <2>4, <4>1, <4>2
    <3> QED BY <3>1, <3>2, <3>3, <3>4
  <2> HIDE DEF r
  <2>7. DOMAIN r = 1..(Len(q) - 1)
    BY <2>6, LenProperties
  <2>8. Range(r) \subseteq Range(q)
    <3>1. ASSUME NEW i \in DOMAIN r
          PROVE  \E j \in DOMAIN q : j # k /\ r[i] = q[j]
      <4>1. CASE i < k
        BY <1>1, <2>2, <2>6, <2>7, <4>1
      <4>2. CASE ~(i < k)
        <5>1. i + 1 \in DOMAIN q /\ i + 1 # k /\ r[i] = q[i + 1]
          BY <1>1, <2>2, <2>6, <2>7, <4>2
        <5> QED BY <5>1
      <4> QED BY <4>1, <4>2
    <3> QED BY <3>1 DEF Range
  <2>9. Range(q) \subseteq Range(r) \cup {e}
    <3>1. ASSUME NEW j \in DOMAIN q, j # k
          PROVE  \E i \in DOMAIN r : r[i] = q[j]
      <4>1. CASE j < k
        <5>1. j \in DOMAIN r /\ r[j] = q[j]
          BY <1>1, <2>2, <2>6, <2>7, <4>1
        <5> QED BY <5>1
      <4>2. CASE ~(j < k)
        <5>1. j - 1 \in DOMAIN r /\ ~(j - 1 < k) /\ (j - 1) + 1 = j
          BY <1>1, <2>2, <2>7, <3>1, <4>2
        <5>2. r[j - 1] = q[j]
          BY <2>6, <2>7, <5>1
        <5> QED BY <5>1, <5>2
      <4> QED BY <4>1, <4>2
    <3> QED BY <2>2, <3>1 DEF Range
  <2>10. ASSUME \A i, j \in DOMAIN q : q[i] = e /\ q[j] = e => i = j
         PROVE  e \notin Range(r)
    <3>1. ASSUME NEW i \in DOMAIN r PROVE r[i] # e
      <4>1. \A j \in DOMAIN q : j # k => q[j] # e
        BY <1>1, <2>2, <2>10
      <4>2. CASE i < k
        <5>1. i \in DOMAIN q /\ i # k /\ r[i] = q[i]
          BY <1>1, <2>2, <2>6, <2>7, <4>2
        <5> QED BY <4>1, <5>1
      <4>3. CASE ~(i < k)
        <5>1. i + 1 \in DOMAIN q /\ i + 1 # k /\ r[i] = q[i + 1]
          BY <1>1, <2>2, <2>6, <2>7, <4>3
        <5> QED BY <4>1, <5>1
      <4> QED BY <4>2, <4>3
    <3> QED BY <3>1 DEF Range
  <2> QED BY <1>1, <2>3, <2>6, <2>8, <2>9, <2>10
<1> QED BY <1>2, <1>3

\* A queue without repetitions lists as many elements as it is long.
LEMMA RangeCounts ==
  ASSUME NEW S, NEW q \in Seq(S), \A i, j \in DOMAIN q : q[i] = q[j] => i = j
  PROVE  IsFiniteSet(Range(q)) /\ Cardinality(Range(q)) = Len(q)
<1>1. DOMAIN q = 1..Len(q) /\ Len(q) \in Nat
  BY LenProperties
<1>2. IsFiniteSet(1..Len(q)) /\ Cardinality(1..Len(q)) = Len(q)
  <2>1. /\ IsFiniteSet(1..Len(q))
        /\ Cardinality(1..Len(q)) = IF 1 > Len(q) THEN 0 ELSE Len(q) - 1 + 1
    BY <1>1, FS_Interval
  <2> QED BY <1>1, <2>1
<1>3. q \in [1..Len(q) -> Range(q)]
  <2>1. q \in [1..Len(q) -> S]
    BY LenProperties
  <2> QED BY <1>1, <2>1 DEF Range
<1>4. q \in Surjection(1..Len(q), Range(q))
  BY <1>1, <1>3 DEF Surjection, Range
<1>5. q \in Injection(1..Len(q), Range(q))
  BY <1>1, <1>3 DEF Injection, IsInjective
<1> DEFINE D == 1..Len(q)
           L == Range(q)
<1>6. IsFiniteSet(D) /\ Cardinality(D) = Len(q) /\ q \in Surjection(D, L) /\ q \in Injection(D, L)
  BY <1>2, <1>4, <1>5
<1> HIDE DEF D, L
<1>7. IsFiniteSet(L) /\ Cardinality(L) = Cardinality(D)
  BY <1>6, FS_Surjection
<1> QED BY <1>6, <1>7 DEF L

\* Two sets with nothing in common add up.
LEMMA DisjointUnion ==
  ASSUME NEW S, IsFiniteSet(S), NEW U, IsFiniteSet(U), S \cap U = {}
  PROVE  /\ IsFiniteSet(S \cup U)
         /\ Cardinality(S \cup U) = Cardinality(S) + Cardinality(U)
<1>1. Cardinality(S) \in Nat /\ Cardinality(U) \in Nat
  BY FS_CardinalityType
<1>2. Cardinality(S \cap U) = 0
  BY FS_EmptySet
<1>3. /\ IsFiniteSet(S \cup U)
      /\ Cardinality(S \cup U) = Cardinality(S) + Cardinality(U) - Cardinality(S \cap U)
  BY FS_Union
<1> QED BY <1>1, <1>2, <1>3

\* Two things that differ are two.
LEMMA TwoElements ==
  ASSUME NEW i, NEW j, i # j
  PROVE  IsFiniteSet({i, j}) /\ Cardinality({i, j}) = 2
<1> DEFINE E == {i}
<1>1. IsFiniteSet(E) /\ Cardinality(E) = 1
  BY FS_Singleton
<1>2. j \notin E /\ E \cup {j} = {i, j}
  OBVIOUS
<1> HIDE DEF E
<1>3. IsFiniteSet(E \cup {j}) /\ Cardinality(E \cup {j}) = 1 + 1
  BY <1>1, <1>2, FS_AddElement
<1> QED BY <1>2, <1>3

----------------------------------------------------------------------------

----------------------------------------------------------------------------
(* Commands. *)

CmdTypeOK ==
  /\ CmdQState \in {"INITED", "RUNNING", "STOPED", "UNKNOWN"}
  /\ cqueue \in Seq(Cmd)
  /\ cpc \in {"attach", "loop", "wait", "handle", "run", "leave", "gone"}
  /\ made \in SUBSET Cmd /\ freed \in SUBSET Cmd
  /\ suspended \in BOOLEAN /\ slept \in BOOLEAN

\* A command is at one place, and the thread holds one only while it runs it.
OnePlace ==
  /\ made = freed \cup cmd \cup Range(cqueue)
  /\ freed \cap cmd = {} /\ (freed \cup cmd) \cap Range(cqueue) = {}
  /\ \A i, j \in DOMAIN cqueue : cqueue[i] = cqueue[j] => i = j
  /\ IF cpc = "run" THEN \E c \in Cmd : cmd = {c} ELSE cmd = {}

\* A thread that has left, but for a suspension, has emptied its queue and
\* closed it: this is why no command comes in between its end and the close's.
ClosedBehind ==
  /\ suspended => slept
  /\ cpc = "gone" /\ ~slept => CmdQState \in {"STOPED", "UNKNOWN"} /\ cqueue = <<>>
  /\ stage \in {"timer", "closed"} => cpc = "gone"

CmdIInv == CmdTypeOK /\ OnePlace /\ ClosedBehind

\* Disjoint places add up.
LEMMA PlacesCount ==
  ASSUME CmdIInv
  PROVE  Cardinality(made) = Cardinality(freed) + Cardinality(cmd) + Len(cqueue)
<1>1. IsFiniteSet(freed) /\ IsFiniteSet(cmd)
  <2>1. IsFiniteSet(freed)
    BY CmdQAssumption, FS_Subset DEF CmdIInv, CmdTypeOK
  <2>2. IsFiniteSet(cmd)
    BY FS_EmptySet, FS_Singleton DEF CmdIInv, OnePlace
  <2> QED BY <2>1, <2>2
<1>2. IsFiniteSet(Range(cqueue)) /\ Cardinality(Range(cqueue)) = Len(cqueue)
  BY RangeCounts DEF CmdIInv, CmdTypeOK, OnePlace
<1>3. /\ IsFiniteSet(freed \cup cmd)
      /\ Cardinality(freed \cup cmd) = Cardinality(freed) + Cardinality(cmd)
  <2>1. freed \cap cmd = {}
    BY DEF CmdIInv, OnePlace
  <2> QED BY <1>1, <2>1, DisjointUnion
<1>4. Cardinality((freed \cup cmd) \cup Range(cqueue))
        = Cardinality(freed \cup cmd) + Cardinality(Range(cqueue))
  <2>1. (freed \cup cmd) \cap Range(cqueue) = {}
    BY DEF CmdIInv, OnePlace
  <2> DEFINE S == freed \cup cmd
             U == Range(cqueue)
  <2>2. IsFiniteSet(S) /\ IsFiniteSet(U) /\ S \cap U = {}
    BY <1>2, <1>3, <2>1
  <2> HIDE DEF S, U
  <2>3. Cardinality(S \cup U) = Cardinality(S) + Cardinality(U)
    BY <2>2, DisjointUnion
  <2> QED BY <2>3 DEF S, U
<1> QED BY <1>2, <1>3, <1>4 DEF CmdIInv, OnePlace

LEMMA CmdInitOK == Init => CmdIInv
<1> SUFFICES ASSUME Init PROVE CmdIInv
  OBVIOUS
<1>1. cqueue = <<>> /\ <<>> \in Seq(Cmd) /\ Range(<<>>) = {}
  BY EmptySeq, RangeEmpty DEF Init, CmdInit
<1>2. DOMAIN cqueue = {}
  <2>1. DOMAIN cqueue = 1..Len(cqueue) /\ Len(cqueue) = 0
    BY <1>1, LenProperties, EmptySeq
  <2> QED BY <2>1
<1> QED BY <1>1, <1>2 DEF Init, CmdInit, CmdIInv, CmdTypeOK, OnePlace, ClosedBehind

\* Enqueueing puts a new command at one place: behind the others or among the freed.
LEMMA EnqueueKeeps ==
  ASSUME CmdIInv, NEW c \in Cmd, NEW up, Enqueue(c, up),
         UNCHANGED <<stage, suspended, slept>>
  PROVE  CmdIInv'
<1>1. /\ c \notin freed /\ c \notin cmd /\ c \notin Range(cqueue)
      /\ made' = made \cup {c} /\ UNCHANGED <<CmdQState, cpc, cmd>>
  BY DEF CmdIInv, OnePlace, Enqueue
<1>2. CASE CanInsert
  <2>1. cqueue' = Append(cqueue, c) /\ freed' = freed
    BY <1>2 DEF Enqueue
  <2>2. cqueue' \in Seq(Cmd) /\ Range(cqueue') = Range(cqueue) \cup {c}
    BY <2>1, RangeAppend DEF CmdIInv, CmdTypeOK
  <2>3. \A i, j \in DOMAIN cqueue' : cqueue'[i] = cqueue'[j] => i = j
    <3>1. /\ DOMAIN cqueue = 1..Len(cqueue) /\ Len(cqueue) \in Nat
          /\ DOMAIN cqueue' = 1..(Len(cqueue) + 1)
      <4>1. Len(cqueue') = Len(cqueue) + 1
        BY <2>1, AppendProperties DEF CmdIInv, CmdTypeOK
      <4> QED BY <2>2, <4>1, LenProperties DEF CmdIInv, CmdTypeOK
    <3>2. /\ \A i \in DOMAIN cqueue : cqueue'[i] = cqueue[i]
          /\ cqueue'[Len(cqueue) + 1] = c
      BY <2>1, <3>1, AppendProperties DEF CmdIInv, CmdTypeOK
    <3>3. \A i \in DOMAIN cqueue : cqueue[i] # c
      BY <1>1 DEF Range
    <3>4. \A i \in DOMAIN cqueue' : i \in DOMAIN cqueue \/ i = Len(cqueue) + 1
      BY <3>1
    <3>5. \A i, j \in DOMAIN cqueue : cqueue[i] = cqueue[j] => i = j
      BY DEF CmdIInv, OnePlace
    <3> QED BY <3>2, <3>3, <3>4, <3>5
  <2>4. cpc # "gone" \/ slept
    BY <1>2 DEF CanInsert, CmdIInv, ClosedBehind
  <2>5. CmdTypeOK' /\ ClosedBehind'
    BY <1>1, <2>1, <2>2, <2>4 DEF CmdIInv, CmdTypeOK, ClosedBehind
  <2>6. OnePlace'
    BY <1>1, <2>1, <2>2, <2>3 DEF CmdIInv, OnePlace
  <2> QED BY <2>5, <2>6 DEF CmdIInv
<1>3. CASE ~CanInsert
  <2>1. freed' = freed \cup {c} /\ cqueue' = cqueue
    BY <1>3 DEF Enqueue
  <2>2. CmdTypeOK' /\ ClosedBehind'
    BY <1>1, <2>1 DEF CmdIInv, CmdTypeOK, ClosedBehind
  <2>3. OnePlace'
    BY <1>1, <2>1 DEF CmdIInv, OnePlace
  <2> QED BY <2>2, <2>3 DEF CmdIInv
<1> QED BY <1>2, <1>3

\* The head of the queue goes to the thread's hand.
LEMMA CmdTakeKeeps ==
  ASSUME CmdIInv, CmdTake, UNCHANGED <<stage, suspended, slept>>
  PROVE  CmdIInv'
<1>1. /\ Head(cqueue) \in Cmd /\ Tail(cqueue) \in Seq(Cmd)
      /\ Range(cqueue) = {Head(cqueue)} \cup Range(Tail(cqueue))
  BY RangeTail DEF CmdIInv, CmdTypeOK, CmdTake
<1>2. /\ DOMAIN cqueue = 1..Len(cqueue) /\ Len(cqueue) \in Nat
      /\ DOMAIN Tail(cqueue) = 1..(Len(cqueue) - 1)
      /\ \A i \in DOMAIN Tail(cqueue) : Tail(cqueue)[i] = cqueue[i + 1]
      /\ cqueue[1] = Head(cqueue) /\ 1 \in DOMAIN cqueue
  <2>1. Len(cqueue) \in Nat /\ Len(cqueue) # 0 /\ DOMAIN cqueue = 1..Len(cqueue)
    BY LenProperties, EmptySeq DEF CmdIInv, CmdTypeOK, CmdTake
  <2>2. /\ Len(Tail(cqueue)) = Len(cqueue) - 1
        /\ \A i \in 1..Len(Tail(cqueue)) : Tail(cqueue)[i] = cqueue[i + 1]
    BY HeadTailProperties DEF CmdIInv, CmdTypeOK, CmdTake
  <2>3. DOMAIN Tail(cqueue) = 1..Len(Tail(cqueue))
    BY <1>1, LenProperties
  <2>4. cqueue[1] = Head(cqueue)
    BY <2>1
  <2> QED BY <2>1, <2>2, <2>3, <2>4
<1>3. \A i \in DOMAIN Tail(cqueue) : i + 1 \in DOMAIN cqueue /\ i + 1 # 1
  BY <1>2
<1>4. \A i, j \in DOMAIN cqueue : cqueue[i] = cqueue[j] => i = j
  BY DEF CmdIInv, OnePlace
<1>5. \A i, j \in DOMAIN Tail(cqueue) : Tail(cqueue)[i] = Tail(cqueue)[j] => i = j
  <2> SUFFICES ASSUME NEW i \in DOMAIN Tail(cqueue), NEW j \in DOMAIN Tail(cqueue),
                      Tail(cqueue)[i] = Tail(cqueue)[j]
               PROVE  i = j
    OBVIOUS
  <2>1. i + 1 = j + 1
    BY <1>2, <1>3, <1>4
  <2> QED BY <1>2, <2>1
<1>6. Head(cqueue) \notin Range(Tail(cqueue))
  BY <1>2, <1>3, <1>4 DEF Range
<1>7. CmdTypeOK' /\ ClosedBehind'
  BY <1>1 DEF CmdIInv, CmdTypeOK, ClosedBehind, CmdTake
<1>8. OnePlace'
  <2>1. cqueue' = Tail(cqueue) /\ cmd' = {Head(cqueue)} /\ cpc' = "run" /\ cmd = {}
        /\ UNCHANGED <<made, freed>>
    BY DEF CmdTake, CmdIInv, OnePlace
  <2>2. /\ made = freed \cup Range(cqueue) /\ freed \cap Range(cqueue) = {}
    BY <2>1 DEF CmdIInv, OnePlace
  <2> HIDE DEF Range
  <2>3. /\ made' = freed' \cup cmd' \cup Range(cqueue')
        /\ freed' \cap cmd' = {} /\ (freed' \cup cmd') \cap Range(cqueue') = {}
    BY <1>1, <1>6, <2>1, <2>2
  <2> QED BY <1>1, <1>5, <2>1, <2>3 DEF OnePlace
<1> QED BY <1>7, <1>8 DEF CmdIInv

\* So do the other steps of the command thread; the last empties the queue.
LEMMA CmdThreadKeeps ==
  ASSUME CmdIInv, RTUSBCmdThread
  PROVE  CmdIInv'
<1>1. UNCHANGED <<stage, suspended, slept>>
  BY DEF RTUSBCmdThread, closeVars, sleepVars
<1>2. CASE CmdTake
  BY <1>1, <1>2, CmdTakeKeeps
<1>3. CASE CmdStart \/ CmdLoop \/ CmdWake(suspended) \/ CmdInterrupted(Signalled("cmd"))
           \/ CmdEmpty
  <2>1. UNCHANGED <<cqueue, cmd, made, freed>> /\ cpc # "gone" /\ cpc # "run"
    BY <1>3 DEF CmdStart, CmdLoop, CmdWake, CmdInterrupted, CmdEmpty
  <2>2. CmdQState' = CmdQState \/ CmdQState' = "RUNNING"
    BY <1>3 DEF CmdStart, CmdLoop, CmdWake, CmdInterrupted, CmdEmpty
  <2>3. cpc' \in {"loop", "wait", "leave", "handle"}
    BY <1>3 DEF CmdStart, CmdLoop, CmdWake, CmdInterrupted, CmdEmpty
  <2> QED BY <1>1, <2>1, <2>2, <2>3 DEF CmdIInv, CmdTypeOK, OnePlace, ClosedBehind
<1>4. CASE CmdRun(halting)
  <2>1. /\ UNCHANGED <<cqueue, made, CmdQState>> /\ cpc = "run" /\ cpc' = "handle"
        /\ freed' = freed \cup cmd /\ cmd' = {}
    BY <1>4 DEF CmdRun
  <2>2. PICK c \in Cmd : cmd = {c}
    BY <2>1 DEF CmdIInv, OnePlace
  <2>3. CmdTypeOK' /\ ClosedBehind'
    BY <1>1, <2>1, <2>2 DEF CmdIInv, CmdTypeOK, ClosedBehind
  <2>4. OnePlace'
    BY <2>1 DEF CmdIInv, OnePlace
  <2> QED BY <2>3, <2>4 DEF CmdIInv
<1>5. CASE CmdLeave(suspended)
  <2>1. UNCHANGED <<cmd, made>> /\ cpc = "leave" /\ cpc' = "gone" /\ cmd = {}
    BY <1>5 DEF CmdLeave, CmdIInv, OnePlace
  <2>2. CASE suspended
    <3>1. slept /\ UNCHANGED <<CmdQState, cqueue, freed>>
      BY <1>5, <2>2 DEF CmdLeave, CmdIInv, ClosedBehind
    <3> QED BY <1>1, <2>1, <3>1 DEF CmdIInv, CmdTypeOK, OnePlace, ClosedBehind
  <2>3. CASE ~suspended
    <3>1. CmdQState' = "STOPED" /\ cqueue' = <<>> /\ freed' = freed \cup Range(cqueue)
      BY <1>5, <2>3 DEF CmdLeave, Drained, Range
    <3>2. <<>> \in Seq(Cmd) /\ Range(cqueue') = {} /\ DOMAIN cqueue' = {}
      <4>1. <<>> \in Seq(Cmd) /\ Len(<<>>) = 0
        BY EmptySeq
      <4>2. DOMAIN <<>> = 1..0
        BY <4>1, LenProperties
      <4> QED BY <3>1, <4>1, <4>2 DEF Range
    <3>3. CmdTypeOK' /\ ClosedBehind'
      BY <1>1, <2>1, <3>1, <3>2 DEF CmdIInv, CmdTypeOK, OnePlace, ClosedBehind
    <3>4. OnePlace'
      BY <2>1, <3>1, <3>2 DEF CmdIInv, OnePlace
    <3> QED BY <3>3, <3>4 DEF CmdIInv
  <2> QED BY <2>2, <2>3
<1> QED BY <1>2, <1>3, <1>4, <1>5 DEF RTUSBCmdThread

\* Every step keeps the commands.
LEMMA CmdStepKeeps == CmdIInv /\ [Next]_vars => CmdIInv'
<1> SUFFICES ASSUME CmdIInv, [Next]_vars PROVE CmdIInv'
  OBVIOUS
<1> DEFINE Still == UNCHANGED <<CmdQState, cqueue, cpc, cmd, made, freed>>
<1>1. ASSUME Still, UNCHANGED <<stage, suspended, slept>> PROVE CmdIInv'
  BY <1>1 DEF CmdIInv, CmdTypeOK, OnePlace, ClosedBehind
<1>2. CASE KernelTimer \/ RtmpTimerQHandle \/ RunHandler \/ MlmeWake \/ MlmeInterrupted
           \/ MlmeTake \/ MlmeDone \/ \E c \in Canceller : Cancelling(c)
  <2>1. Still /\ UNCHANGED <<stage, suspended, slept>>
    BY <1>2 DEF KernelTimer, RtmpTimerQHandle, RunHandler, MlmeWake, MlmeInterrupted,
                MlmeTake, MlmeDone, Cancelling, cmdVars, closeVars, sleepVars
  <2> QED BY <1>1, <2>1
<1>3. CASE MlmeAct
  <2>1. UNCHANGED <<stage, suspended, slept>>
    BY <1>3 DEF MlmeAct, closeVars, sleepVars
  <2>2. CASE \E c \in Cmd : Enqueue(c, Up(csema))
    BY <2>1, <2>2, EnqueueKeeps
  <2>3. CASE UNCHANGED cmdVars
    BY <1>1, <2>1, <2>3 DEF cmdVars
  <2> QED BY <1>3, <2>2, <2>3 DEF MlmeAct
<1>4. CASE RTUSBCmdThread
  BY <1>4, CmdThreadKeeps
<1>5. CASE CloseBegin \/ (\E t \in Timer : CloseCancel(t)) \/ CloseMlmeHalted \/ CloseTimerQ
  <2>1. Still /\ UNCHANGED <<suspended, slept>>
    BY <1>5 DEF CloseBegin, CloseCancel, CloseMlmeHalted, CloseTimerQ, cmdVars, sleepVars
  <2>2. stage' \in {"cancel", "exit", "mlme"}
    BY <1>5 DEF CloseBegin, CloseCancel, CloseMlmeHalted, CloseTimerQ
  <2> QED BY <2>1, <2>2 DEF CmdIInv, CmdTypeOK, OnePlace, ClosedBehind
<1>6. CASE CloseMlmeGone
  <2>1. /\ CmdQState' = "STOPED" /\ UNCHANGED <<cqueue, cpc, cmd, made, freed>>
        /\ UNCHANGED <<suspended, slept>> /\ stage' = "cmd"
    BY <1>6 DEF CloseMlmeGone, CmdQStop, sleepVars
  <2> QED BY <2>1 DEF CmdIInv, CmdTypeOK, OnePlace, ClosedBehind
<1>7. CASE CloseCmdGone
  <2>1. /\ CmdQState' = "UNKNOWN" /\ UNCHANGED <<cqueue, cpc, cmd, made, freed>>
        /\ UNCHANGED <<suspended, slept>> /\ cpc = "gone"
    BY <1>7 DEF CloseCmdGone, CmdQStop, sleepVars
  <2> QED BY <2>1 DEF CmdIInv, CmdTypeOK, OnePlace, ClosedBehind
<1>8. CASE CloseTimerGone
  <2>1. Still /\ UNCHANGED <<suspended, slept>> /\ stage = "timer"
    BY <1>8 DEF CloseTimerGone, cmdVars, sleepVars
  <2> QED BY <2>1 DEF CmdIInv, CmdTypeOK, OnePlace, ClosedBehind
<1>9. CASE OutsideMessage
  <2>1. Still /\ UNCHANGED <<stage, suspended, slept>>
    BY <1>9 DEF OutsideMessage, cmdVars, closeVars
  <2> QED BY <1>1, <2>1
<1>10. CASE OutsideCommand
  BY <1>10, EnqueueKeeps DEF OutsideCommand, closeVars, sleepVars
<1>11. CASE rt2870_suspend
  <2>1. Still /\ suspended' = TRUE /\ slept' = TRUE /\ stage' = stage
    BY <1>11 DEF rt2870_suspend, cmdVars, closeVars
  <2> QED BY <2>1 DEF CmdIInv, CmdTypeOK, OnePlace, ClosedBehind
<1>12. CASE rt2870_resume
  <2>1. Still /\ suspended' = FALSE /\ UNCHANGED <<slept, stage>>
    BY <1>12 DEF rt2870_resume, cmdVars, closeVars
  <2> QED BY <2>1 DEF CmdIInv, CmdTypeOK, OnePlace, ClosedBehind
<1>13. CASE UNCHANGED vars
  BY <1>1, <1>13 DEF vars, cmdVars, closeVars, sleepVars
<1> QED BY <1>2, <1>3, <1>4, <1>5, <1>6, <1>7, <1>8, <1>9, <1>10, <1>11, <1>12, <1>13
        DEF Next, rt28xx_close

\* No command is lost or freed twice, and a close without a suspension leaves
\* none behind, whoever enqueues commands while the thread is being stopped
\* (RTUSBCmdThread, CMDHandler, RTUSBEnqueueInternalCmd).
THEOREM CommandsAreFreed == Spec => []CommandsFreed
<1>1. Init => CmdIInv
  BY CmdInitOK
<1>2. CmdIInv /\ [Next]_vars => CmdIInv'
  BY CmdStepKeeps
<1>3. CmdIInv => CommandsFreed
  <2> SUFFICES ASSUME CmdIInv PROVE CommandsFreed
    OBVIOUS
  <2>1. Cardinality(made) = Cardinality(freed) + Cardinality(cmd) + Len(cqueue)
    BY PlacesCount
  <2>2. made = freed \cup cmd \cup Range(cqueue)
    BY DEF CmdIInv, OnePlace
  <2>3. stage = "closed" /\ ~slept => made = freed
    <3>1. stage = "closed" /\ ~slept => cmd = {} /\ Range(cqueue) = {}
      BY RangeEmpty DEF CmdIInv, CmdTypeOK, OnePlace, ClosedBehind
    <3> QED BY <2>2, <3>1
  <2> QED BY <2>1, <2>2, <2>3 DEF CommandsFreed
<1> QED BY <1>1, <1>2, <1>3, PTL DEF Spec

----------------------------------------------------------------------------
(* Timers. *)

TimerTypeOK ==
  /\ tstatus \in {"INITED", "STOPED"} /\ tqueue \in Seq(Timer)
  /\ pending \in SUBSET Timer /\ firing \in SUBSET Timer
  /\ owed \in SUBSET Timer /\ escaped \in SUBSET Timer
  /\ Repeat \in [Timer -> BOOLEAN] /\ State \in [Timer -> BOOLEAN]
  /\ tpc \in {"wait", "test", "take", "run", "add", "gone"}
  /\ hand \in Timer \cup {None}
  /\ cancel \in [Canceller -> [t : Timer \cup {None},
                              at : {"no", "del", "sync", "remove"}]]

\* The task has a timer in hand while it runs one, and a cancel one to cancel.
Handed ==
  /\ tpc \in {"run", "add"} => hand \in Timer
  /\ \A c \in Canceller : cancel[c].at = "no" <=> cancel[c].t = None

Cancelled == {cancel[c].t : c \in Canceller}

\* A periodic timer that is owed was never cancelled, so that it is added again.
StillPeriodic ==
  \A t \in Periodic \cap owed : Repeat[t] /\ ~State[t] /\ t \notin Cancelled

\* A timer marked as cancelled, whose cancel has ended and was in reach of all
\* of it, is nowhere: neither armed, nor on its way, nor with the timer task.
CancelledIsGone ==
  \A t \in Timer :
    State[t] /\ t \notin escaped /\ t \notin Cancelled =>
      t \notin pending \cup firing \cup Range(tqueue) /\ hand # t

TimerIInv == TimerTypeOK /\ Handed /\ StillPeriodic /\ TimerNotLost /\ CancelledIsGone

LEMMA TimerInitOK == Init => TimerIInv
<1> SUFFICES ASSUME Init PROVE TimerIInv
  OBVIOUS
<1>1. tqueue = <<>> /\ <<>> \in Seq(Timer)
  BY EmptySeq DEF Init, TimerInit
<1>2. /\ pending = Periodic /\ owed = Periodic /\ firing = {} /\ escaped = {}
      /\ State = [t \in Timer |-> FALSE] /\ Repeat = [t \in Timer |-> t \in Periodic]
      /\ Periodic \in SUBSET Timer
  BY TimerQAssumption DEF Init, TimerInit
<1>3. TimerTypeOK /\ Handed
  BY <1>1, <1>2 DEF Init, TimerInit, TimerTypeOK, Handed, NoCancel
<1>4. StillPeriodic /\ TimerNotLost /\ CancelledIsGone
  <2>1. None \notin Timer /\ Cancelled \subseteq {None}
    BY TimerQAssumption DEF Init, TimerInit, NoCancel, Cancelled
  <2> QED BY <1>2, <2>1 DEF StillPeriodic, TimerNotLost, CancelledIsGone
<1> QED BY <1>3, <1>4 DEF TimerIInv

\* The kernel's timers: an expiry takes a timer from armed to on its way, and
\* its function from there to the queue or, when that is full, back to armed.
LEMMA KernelTimerKeeps ==
  ASSUME TimerIInv, NEW t \in Timer, Expire(t) \/ rtmp_timer(t)
  PROVE  TimerIInv'
<1>1. UNCHANGED <<tstatus, Repeat, State, tpc, hand, cancel, owed, escaped>>
  BY DEF Expire, rtmp_timer
<1>2. t \in pending \cup firing
  BY DEF Expire, rtmp_timer
<1>3. /\ pending' \in SUBSET Timer /\ firing' \in SUBSET Timer /\ tqueue' \in Seq(Timer)
      /\ pending' \cup firing' \cup Range(tqueue')
           \subseteq pending \cup firing \cup Range(tqueue) \cup {t}
      /\ tstatus = "INITED" => pending \cup firing \cup Range(tqueue)
                                 \subseteq pending' \cup firing' \cup Range(tqueue')
  <2>1. CASE Expire(t)
    BY <2>1 DEF Expire, TimerIInv, TimerTypeOK
  <2>2. CASE rtmp_timer(t) /\ UNCHANGED tqueue
    BY <2>2 DEF rtmp_timer, QueueFull, RtmpTimerQInsert, TimerIInv, TimerTypeOK
  <2>3. CASE rtmp_timer(t) /\ RtmpTimerQInsert(t) /\ UNCHANGED pending
    <3>1. /\ tqueue' \in Seq(Timer) /\ Range(tqueue') = Range(tqueue) \cup {t}
      BY <2>3, RangeAppend DEF RtmpTimerQInsert, TimerIInv, TimerTypeOK
    <3>2. firing' = firing \ {t}
      BY <2>3 DEF rtmp_timer
    <3> QED BY <2>3, <3>1, <3>2 DEF TimerIInv, TimerTypeOK
  <2> QED BY <2>1, <2>2, <2>3 DEF rtmp_timer, QueueFull
<1>4. TimerTypeOK' /\ Handed' /\ StillPeriodic'
  BY <1>1, <1>3 DEF TimerIInv, TimerTypeOK, Handed, StillPeriodic, Cancelled
<1>5. TimerNotLost'
  BY <1>1, <1>3 DEF TimerIInv, TimerNotLost, InHand
<1>6. CancelledIsGone'
  BY <1>1, <1>2, <1>3 DEF TimerIInv, CancelledIsGone, Cancelled
<1> QED BY <1>4, <1>5, <1>6 DEF TimerIInv

\* RTMPSetTimer arms the timer and takes its mark away.
LEMMA SetTimerKeeps ==
  ASSUME TimerIInv, NEW t \in Timer, RTMPSetTimer(t)
  PROVE  TimerIInv'
<1>1. /\ UNCHANGED <<tstatus, tqueue, firing, tpc, hand, cancel>> /\ t \notin Periodic
      /\ pending' = pending \cup {t} /\ owed' = owed \cup {t} /\ escaped' = escaped \ {t}
      /\ State' = [State EXCEPT ![t] = FALSE] /\ Repeat' = [Repeat EXCEPT ![t] = FALSE]
  BY DEF RTMPSetTimer
<1>2. TimerTypeOK' /\ Handed'
  BY <1>1 DEF TimerIInv, TimerTypeOK, Handed
<1>3. \A u \in Timer : u # t => State'[u] = State[u] /\ Repeat'[u] = Repeat[u]
  BY <1>1 DEF TimerIInv, TimerTypeOK
<1>4. ~State'[t]
  BY <1>1 DEF TimerIInv, TimerTypeOK
<1>5. StillPeriodic'
  BY <1>1, <1>3, TimerQAssumption DEF TimerIInv, StillPeriodic, Cancelled
<1>6. TimerNotLost'
  BY <1>1 DEF TimerIInv, TimerNotLost, InHand
<1>7. CancelledIsGone'
  BY <1>1, <1>3, <1>4 DEF TimerIInv, CancelledIsGone, Cancelled
<1> QED BY <1>2, <1>5, <1>6, <1>7 DEF TimerIInv

\* RTMPCancelTimer, first step: the timer is no longer owed.
LEMMA CancelBeginKeeps ==
  ASSUME TimerIInv, NEW c \in Canceller, NEW t \in Timer, CancelBegin(c, t)
  PROVE  TimerIInv'
<1>1. /\ UNCHANGED <<tstatus, tqueue, pending, firing, State, tpc, hand, escaped>>
      /\ owed' = owed \ {t} /\ cancel[c].at = "no"
      /\ cancel' = [cancel EXCEPT ![c] = [t |-> t, at |-> "del"]]
      /\ Repeat' = IF State[t] THEN Repeat ELSE [Repeat EXCEPT ![t] = FALSE]
  BY DEF CancelBegin
<1>2. t # None /\ cancel[c].t = None
  BY <1>1, TimerQAssumption DEF TimerIInv, Handed
<1>3. /\ \A d \in Canceller : d # c => cancel'[d] = cancel[d]
      /\ cancel'[c].t = t /\ cancel'[c].at = "del"
  BY <1>1 DEF TimerIInv, TimerTypeOK
<1>4. Cancelled' \cup {None} = Cancelled \cup {t, None}
  BY <1>2, <1>3 DEF Cancelled
<1>5. TimerTypeOK' /\ Handed'
  BY <1>1, <1>2, <1>3 DEF TimerIInv, TimerTypeOK, Handed
<1>6. StillPeriodic'
  BY <1>1, <1>4, TimerQAssumption DEF TimerIInv, TimerTypeOK, StillPeriodic
<1>7. TimerNotLost'
  <2>1. tstatus = "INITED" => \A u \in owed \ Cancelled :
           u \in pending \cup firing \cup Range(tqueue) \/ InHand(u)
    BY DEF TimerIInv, TimerNotLost, Cancelled
  <2>2. None \notin owed
    BY TimerQAssumption DEF TimerIInv, TimerTypeOK
  <2>3. \A u \in owed' \ Cancelled' : u \in owed \ Cancelled
    BY <1>1, <1>4, <2>2
  <2>4. UNCHANGED Range(tqueue) /\ \A u \in Timer : InHand(u)' = InHand(u)
    BY <1>1 DEF InHand
  <2> QED BY <1>1, <2>1, <2>3, <2>4 DEF TimerNotLost, Cancelled, InHand
<1>8. CancelledIsGone'
  <2>1. None \notin Timer
    BY TimerQAssumption
  <2> QED BY <1>1, <1>4, <2>1 DEF TimerIInv, CancelledIsGone
<1> QED BY <1>5, <1>6, <1>7, <1>8 DEF TimerIInv

\* Its steps up to the removal mark the timer and disarm it.
LEMMA CancelMarkKeeps ==
  ASSUME TimerIInv, NEW c \in Canceller,
         CancelNotPending(c) \/ CancelPending(c) \/ CancelSync(c)
  PROVE  TimerIInv'
<1> DEFINE t == cancel[c].t
<1>1. /\ UNCHANGED <<tstatus, tqueue, firing, Repeat, tpc, hand, owed, escaped>>
      /\ State' = State \/ State' = [State EXCEPT ![t] = TRUE]
      /\ pending' = pending \/ pending' = pending \ {t}
      /\ \E a \in {"remove", "sync"} : cancel' = [cancel EXCEPT ![c].at = a]
      /\ cancel[c].at # "no"
  BY DEF CancelNotPending, CancelPending, CancelSync
<1>2. t \in Timer
  BY <1>1 DEF TimerIInv, TimerTypeOK, Handed
<1>3. \A d \in Canceller : cancel'[d].t = cancel[d].t /\ (cancel'[d].at = "no" <=> cancel[d].at = "no")
  BY <1>1 DEF TimerIInv, TimerTypeOK
<1>4. UNCHANGED Cancelled /\ t \in Cancelled
  BY <1>3 DEF Cancelled
<1>5. TimerTypeOK' /\ Handed'
  <2>1. cancel' \in [Canceller -> [t : Timer \cup {None}, at : {"no", "del", "sync", "remove"}]]
    BY <1>1 DEF TimerIInv, TimerTypeOK
  <2> QED BY <1>1, <1>2, <1>3, <2>1, ZenonT(60) DEF TimerIInv, TimerTypeOK, Handed
<1> HIDE DEF t
<1>6. \A u \in Timer : u # t => State'[u] = State[u]
  BY <1>1, <1>2 DEF TimerIInv, TimerTypeOK
<1>7. StillPeriodic'
  <2>1. t \notin Periodic \cap owed
    BY <1>4 DEF TimerIInv, StillPeriodic
  <2> QED BY <1>1, <1>4, <1>6, <2>1, TimerQAssumption DEF TimerIInv, StillPeriodic
<1>8. TimerNotLost'
  BY <1>1, <1>4 DEF TimerIInv, TimerNotLost, Cancelled, InHand
<1>9. CancelledIsGone'
  BY <1>1, <1>4, <1>6 DEF TimerIInv, CancelledIsGone
<1> QED BY <1>5, <1>7, <1>8, <1>9 DEF TimerIInv

\* Its last step takes the timer out of the queue.  What is out of its reach
\* then has escaped: past the kernel timer, in the task's hand, or queued twice.
LEMMA CancelEndKeeps ==
  ASSUME TimerIInv, NEW c \in Canceller, CancelEnd(c)
  PROVE  TimerIInv'
<1> DEFINE t == cancel[c].t
<1>1. /\ UNCHANGED <<tstatus, pending, firing, Repeat, State, tpc, hand>>
      /\ cancel[c].at = "remove" /\ tqueue' = RemoveFirst(tqueue, t)
      /\ cancel' = [cancel EXCEPT ![c] = NoCancel] /\ owed' = owed \ {t}
      /\ escaped' = IF InFlight(t) \/ t \in pending THEN escaped \cup {t} ELSE escaped
  BY DEF CancelEnd, RtmpTimerQRemove
<1>2. t \in Timer
  BY <1>1 DEF TimerIInv, TimerTypeOK, Handed
<1>3. /\ \A d \in Canceller : d # c => cancel'[d] = cancel[d]
      /\ cancel'[c] = NoCancel
  BY <1>1 DEF TimerIInv, TimerTypeOK
<1>4. Cancelled \subseteq Cancelled' \cup {t} /\ Cancelled' \subseteq Cancelled \cup {None}
  BY <1>3 DEF Cancelled, NoCancel
<1> HIDE DEF t
<1>5. /\ tqueue' \in Seq(Timer) /\ Range(tqueue') \subseteq Range(tqueue)
      /\ Range(tqueue) \subseteq Range(tqueue') \cup {t}
  BY <1>1, RemoveFirstProperties DEF TimerIInv, TimerTypeOK
<1>6. TimerTypeOK' /\ Handed'
  <2>1. cancel' \in [Canceller -> [t : Timer \cup {None}, at : {"no", "del", "sync", "remove"}]]
    BY <1>1 DEF TimerIInv, TimerTypeOK, NoCancel
  <2>2. escaped' \in SUBSET Timer /\ owed' \in SUBSET Timer
    BY <1>1, <1>2 DEF TimerIInv, TimerTypeOK
  <2> QED BY <1>1, <1>3, <1>5, <2>1, <2>2 DEF TimerIInv, TimerTypeOK, Handed, NoCancel
<1>7. StillPeriodic'
  BY <1>1, <1>4, TimerQAssumption DEF TimerIInv, StillPeriodic
<1>8. TimerNotLost'
  <2>1. \A u \in owed' \ Cancelled' : u \in owed \ Cancelled /\ u # t
    BY <1>1, <1>4
  <2>2. tstatus = "INITED" => \A u \in owed \ Cancelled :
           u \in pending \cup firing \cup Range(tqueue) \/ InHand(u)
    BY DEF TimerIInv, TimerNotLost, Cancelled
  <2>3. \A u : InHand(u)' = InHand(u)
    BY <1>1 DEF InHand
  <2> HIDE DEF InHand, Range
  <2> QED BY <1>1, <1>5, <2>1, <2>2, <2>3 DEF TimerNotLost, Cancelled
<1>9. CancelledIsGone'
  <2> SUFFICES ASSUME NEW u \in Timer, State[u], u \notin escaped', u \notin Cancelled'
               PROVE  u \notin pending \cup firing \cup Range(tqueue') /\ hand # u
    BY <1>1 DEF CancelledIsGone
  <2>1. CASE u # t
    BY <1>1, <1>4, <1>5, <2>1 DEF TimerIInv, CancelledIsGone
  <2>2. CASE u = t
    <3>1. ~InFlight(t) /\ t \notin pending
      BY <1>1, <2>2
    <3>2. /\ t \notin firing /\ hand # t
          /\ ~(Cardinality({k \in DOMAIN tqueue : tqueue[k] = t}) > 1)
      BY <3>1 DEF InFlight
    <3>3. \A i, j \in DOMAIN tqueue : tqueue[i] = t /\ tqueue[j] = t => i = j
      <4> DEFINE K == {k \in DOMAIN tqueue : tqueue[k] = t}
      <4> SUFFICES ASSUME NEW i \in K, NEW j \in K, i # j PROVE FALSE
        OBVIOUS
      <4>1. IsFiniteSet(K)
        <5>1. DOMAIN tqueue = 1..Len(tqueue) /\ Len(tqueue) \in Nat
          BY LenProperties DEF TimerIInv, TimerTypeOK
        <5>2. IsFiniteSet(DOMAIN tqueue)
          BY <5>1, FS_Interval
        <5> QED BY <5>2, FS_Subset
      <4>2. IsFiniteSet({i, j}) /\ Cardinality({i, j}) = 2
        BY TwoElements
      <4>3. {i, j} \in SUBSET K
        OBVIOUS
      <4> HIDE DEF K
      <4>4. Cardinality({i, j}) <= Cardinality(K) /\ Cardinality(K) \in Nat
        BY <4>1, <4>3, FS_Subset, FS_CardinalityType
      <4> QED BY <3>2, <4>2, <4>4 DEF K
    <3>4. t \notin Range(tqueue')
      BY <1>1, <3>3, RemoveFirstProperties DEF TimerIInv, TimerTypeOK
    <3> QED BY <2>2, <3>1, <3>2, <3>4
  <2> QED BY <2>1, <2>2
<1> QED BY <1>6, <1>7, <1>8, <1>9 DEF TimerIInv

\* The timer task: from the queue to its hand, to the handler, and back to the
\* kernel's timers if it is periodic.
LEMMA TimerTaskKeeps ==
  ASSUME TimerIInv, NEW signalled \in BOOLEAN, NEW dead \in BOOLEAN,
         TimerWake(signalled) \/ TimerTestMore \/ TimerTestDone(dead) \/ TimerTake
           \/ TimerHandle \/ TimerAdd
  PROVE  TimerIInv'
<1>1. /\ UNCHANGED <<firing, Repeat, State, cancel, escaped>> /\ UNCHANGED Cancelled
  BY DEF TimerWake, TimerTestMore, TimerTestDone, TimerTake, TimerHandle, TimerAdd, Cancelled
<1>2. CASE TimerWake(signalled) \/ TimerTestMore
  <2>1. /\ UNCHANGED <<tstatus, tqueue, pending, hand, owed>> /\ tpc \notin {"run", "add"}
        /\ tpc' \in {"gone", "test", "take"}
    BY <1>2 DEF TimerWake, TimerTestMore
  <2>2. TimerTypeOK' /\ Handed' /\ StillPeriodic'
    BY <1>1, <2>1 DEF TimerIInv, TimerTypeOK, Handed, StillPeriodic
  <2>3. TimerNotLost' /\ CancelledIsGone'
    BY <1>1, <2>1 DEF TimerIInv, TimerNotLost, CancelledIsGone, InHand
  <2> QED BY <2>2, <2>3 DEF TimerIInv
<1>3. CASE TimerTestDone(dead)
  <2>1. /\ UNCHANGED <<tqueue, pending, owed>> /\ tpc = "test" /\ hand' = None
        /\ tpc' \in {"gone", "wait"} /\ (tstatus' = tstatus \/ tstatus' = "STOPED")
    BY <1>3 DEF TimerTestDone
  <2>2. TimerTypeOK' /\ Handed' /\ StillPeriodic'
    BY <1>1, <2>1 DEF TimerIInv, TimerTypeOK, Handed, StillPeriodic
  <2>3. TimerNotLost'
    BY <1>1, <2>1 DEF TimerIInv, TimerNotLost, InHand
  <2>4. CancelledIsGone'
    BY <1>1, <2>1, TimerQAssumption DEF TimerIInv, CancelledIsGone
  <2> QED BY <2>2, <2>3, <2>4 DEF TimerIInv
<1>4. CASE TimerTake
  <2>1. UNCHANGED <<tstatus, pending, owed>> /\ tpc = "take"
        /\ tpc' = IF hand' = None THEN "test" ELSE "run"
    BY <1>4 DEF TimerTake
  <2>2. CASE tqueue = <<>>
    <3>1. UNCHANGED <<tqueue, hand>>
      BY <1>4, <2>2 DEF TimerTake
    <3>2. TimerTypeOK' /\ Handed' /\ StillPeriodic'
      BY <1>1, <2>1, <3>1 DEF TimerIInv, TimerTypeOK, Handed, StillPeriodic
    <3>3. TimerNotLost' /\ CancelledIsGone'
      BY <1>1, <2>1, <3>1 DEF TimerIInv, TimerNotLost, CancelledIsGone, InHand
    <3> QED BY <3>2, <3>3 DEF TimerIInv
  <2>3. CASE tqueue # <<>>
    <3>1. tqueue' = Tail(tqueue) /\ hand' = Head(tqueue)
      BY <1>4, <2>3 DEF TimerTake
    <3>2. /\ tqueue' \in Seq(Timer) /\ hand' \in Timer /\ hand' \in Range(tqueue)
          /\ Range(tqueue) = {hand'} \cup Range(tqueue')
      BY <2>3, <3>1, RangeTail DEF TimerIInv, TimerTypeOK
    <3>3. tpc' = "run"
      BY <2>1, <3>2, TimerQAssumption
    <3>4. TimerTypeOK' /\ Handed' /\ StillPeriodic'
      BY <1>1, <2>1, <3>2, <3>3 DEF TimerIInv, TimerTypeOK, Handed, StillPeriodic
    <3> HIDE DEF Range
    <3>5. TimerNotLost'
      BY <1>1, <2>1, <3>2, <3>3 DEF TimerIInv, TimerNotLost, InHand
    <3>6. CancelledIsGone'
      BY <1>1, <2>1, <3>2, <3>3 DEF TimerIInv, CancelledIsGone
    <3> QED BY <3>4, <3>5, <3>6 DEF TimerIInv
  <2> QED BY <2>2, <2>3
<1>5. CASE TimerHandle
  <2>1. /\ UNCHANGED <<tstatus, tqueue, pending, hand>> /\ tpc = "run" /\ hand \in Timer
        /\ tpc' = IF Reruns THEN "add" ELSE "test"
        /\ owed' = IF hand \in Periodic THEN owed ELSE owed \ {hand}
    BY <1>5 DEF TimerHandle, TimerIInv, Handed
  <2>2. TimerTypeOK' /\ Handed' /\ StillPeriodic'
    BY <1>1, <2>1 DEF TimerIInv, TimerTypeOK, Handed, StillPeriodic
  <2>3. TimerNotLost'
    <3>1. hand \in owed' => Reruns
      BY <2>1 DEF Reruns, TimerIInv, StillPeriodic
    <3> QED BY <1>1, <2>1, <3>1 DEF TimerIInv, TimerNotLost, InHand
  <2>4. CancelledIsGone'
    BY <1>1, <2>1 DEF TimerIInv, CancelledIsGone
  <2> QED BY <2>2, <2>3, <2>4 DEF TimerIInv
<1>6. CASE TimerAdd
  <2>1. /\ UNCHANGED <<tstatus, tqueue, hand, owed>> /\ tpc = "add" /\ tpc' = "test"
        /\ hand \in Timer /\ pending' = pending \cup {hand}
    BY <1>6 DEF TimerAdd, TimerIInv, Handed
  <2>2. TimerTypeOK' /\ Handed' /\ StillPeriodic'
    BY <1>1, <2>1 DEF TimerIInv, TimerTypeOK, Handed, StillPeriodic
  <2>3. TimerNotLost' /\ CancelledIsGone'
    BY <1>1, <2>1 DEF TimerIInv, TimerNotLost, CancelledIsGone, InHand
  <2> QED BY <2>2, <2>3 DEF TimerIInv
<1> QED BY <1>2, <1>3, <1>4, <1>5, <1>6

\* The close takes every timer out of the queue at once.
LEMMA TimerExitKeeps ==
  ASSUME TimerIInv, RtmpTimerQExit
  PROVE  TimerIInv'
<1>1. /\ UNCHANGED <<pending, firing, Repeat, State, tpc, hand, cancel, owed, escaped>>
      /\ UNCHANGED Cancelled /\ tqueue' = <<>> /\ tstatus' = "STOPED"
  BY DEF RtmpTimerQExit, Cancelled
<1>2. tqueue' \in Seq(Timer) /\ Range(tqueue') = {}
  BY <1>1, EmptySeq, RangeEmpty
<1>3. TimerTypeOK' /\ Handed' /\ StillPeriodic'
  BY <1>1, <1>2 DEF TimerIInv, TimerTypeOK, Handed, StillPeriodic
<1>4. TimerNotLost' /\ CancelledIsGone'
  BY <1>1, <1>2 DEF TimerIInv, TimerNotLost, CancelledIsGone
<1> QED BY <1>3, <1>4 DEF TimerIInv

\* Every step keeps the timers.
LEMMA TimerStepKeeps == TimerIInv /\ [Next]_vars => TimerIInv'
<1> SUFFICES ASSUME TimerIInv, [Next]_vars PROVE TimerIInv'
  OBVIOUS
<1>1. ASSUME UNCHANGED timerVars PROVE TimerIInv'
  BY <1>1 DEF timerVars, TimerIInv, TimerTypeOK, Handed, StillPeriodic, TimerNotLost,
              CancelledIsGone, Cancelled, InHand
<1>2. CASE KernelTimer
  BY <1>2, KernelTimerKeeps DEF KernelTimer
<1>3. CASE RtmpTimerQHandle \/ RunHandler
  <2>1. Signalled("timer") \in BOOLEAN /\ ("timer" \in killed) \in BOOLEAN
    BY DEF Signalled
  <2> QED BY <1>3, <2>1, TimerTaskKeeps DEF RtmpTimerQHandle, RunHandler
<1>4. CASE MlmeAct
  <2>1. "mlme" \in Canceller
    BY MgmtTasksAssumption
  <2> QED BY <1>1, <1>4, <2>1, SetTimerKeeps, CancelBeginKeeps DEF MlmeAct
<1>5. CASE \E c \in Canceller : Cancelling(c)
  BY <1>5, CancelMarkKeeps, CancelEndKeeps DEF Cancelling, CancelStep
<1>6. CASE \E t \in Timer : CloseCancel(t)
  <2>1. "close" \in Canceller
    BY MgmtTasksAssumption
  <2> QED BY <1>6, <2>1, CancelBeginKeeps DEF CloseCancel
<1>7. CASE CloseTimerQ
  BY <1>7, TimerExitKeeps DEF CloseTimerQ
<1>8. CASE MlmeWake \/ MlmeInterrupted \/ MlmeTake \/ MlmeDone \/ RTUSBCmdThread
           \/ CloseBegin \/ CloseMlmeHalted \/ CloseMlmeGone \/ CloseCmdGone \/ CloseTimerGone
           \/ OutsideMessage \/ OutsideCommand \/ rt2870_suspend \/ rt2870_resume
  BY <1>1, <1>8 DEF MlmeWake, MlmeInterrupted, MlmeTake, MlmeDone, RTUSBCmdThread,
       CloseBegin, CloseMlmeHalted, CloseMlmeGone, CloseCmdGone, CloseTimerGone,
       OutsideMessage, OutsideCommand, rt2870_suspend, rt2870_resume
<1>9. CASE UNCHANGED vars
  BY <1>1, <1>9 DEF vars
<1> QED BY <1>2, <1>3, <1>4, <1>5, <1>6, <1>7, <1>8, <1>9 DEF Next, rt28xx_close

\* A timer that was set is never forgotten while the queue is open: not by a
\* full queue, not by a cancel of another timer, and not, if it is periodic,
\* between two rounds (rtmp_timer_<func>, RtmpTimerQHandle).
THEOREM TimersAreNotLost == Spec => []TimerNotLost
<1>1. Init => TimerIInv
  BY TimerInitOK
<1>2. TimerIInv /\ [Next]_vars => TimerIInv'
  BY TimerStepKeeps
<1>3. TimerIInv => TimerNotLost
  BY DEF TimerIInv
<1> QED BY <1>1, <1>2, <1>3, PTL DEF Spec

\* A handler of a cancelled timer runs only for an expiry that no cancel could
\* reach, however many timers and tasks there are (RTMPCancelTimer).
THEOREM CancelsReach == Spec => CancelReaches
<1> DEFINE Ran == tpc = "run" /\ tpc' # "run" /\ State[hand]
                    => hand \in escaped \/ \E c \in Canceller : cancel[c].t = hand
<1>1. Init => TimerIInv
  BY TimerInitOK
<1>2. TimerIInv /\ [Next]_vars => TimerIInv'
  BY TimerStepKeeps
<1>3. TimerIInv => Ran
  BY DEF TimerIInv, Handed, CancelledIsGone, Cancelled
<1>4. TimerIInv /\ [Next]_vars => [Ran]_vars
  BY <1>3
<1> QED BY <1>1, <1>2, <1>4, PTL DEF Spec, CancelReaches
=============================================================================

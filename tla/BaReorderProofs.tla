--------------------------- MODULE BaReorderProofs ---------------------------
(***************************************************************************)
(* The reordering buffer, for every size of the pool, the window and the    *)
(* sequence space.  First its type, and that no interleaving of the receive *)
(* tasklet with a change of the agreement loses a block or counts it twice  *)
(* (IInv).  Then the order: what LastIndSeq means at each place of the      *)
(* tasklet (OInv), from which the window, the order of the frames, the      *)
(* dropping of duplicates and the release at the end follow.                *)
(***************************************************************************)
EXTENDS BaReorder, SequenceTheorems, FiniteSetTheorems, TLAPS

----------------------------------------------------------------------------
(* The elements of a sequence. *)

\* The first of a set of places.
LEMMA SmallestOfNat ==
  ASSUME NEW I, I \subseteq Nat, I # {}
  PROVE  \E x \in I : \A y \in I : x <= y
<1> DEFINE R == OpToRel(<, Nat)
<1>1. IsWellFoundedOn(R, Nat)
  BY NatLessThanWellFounded
<1> HIDE DEF R
<1>2. PICK x \in I : \A y \in I : ~(<<y, x>> \in R)
  BY <1>1, WFMin
<1>3. ASSUME NEW y \in I PROVE x <= y
  <2>1. ~(y < x)
    BY <1>2, <1>3 DEF R, OpToRel
  <2> QED BY <2>1
<1> QED BY <1>3

\* An empty queue holds nothing, and only an empty one does.
LEMMA RangeEmpty ==
  ASSUME NEW S, NEW q \in Seq(S)
  PROVE  /\ Range(q) \subseteq S
         /\ Range(q) = {} <=> q = <<>>
<1>1. DOMAIN q = 1..Len(q) /\ Len(q) \in Nat
  BY LenProperties
<1>2. Range(q) \subseteq S
  BY <1>1, ElementOfSeq DEF Range
<1>3. q = <<>> <=> Len(q) = 0
  BY EmptySeq
<1>4. CASE q = <<>>
  <2>1. DOMAIN q = {}
    BY <1>1, <1>3, <1>4
  <2> QED BY <1>2, <1>4, <2>1 DEF Range
<1>5. CASE q # <<>>
  <2>1. 1 \in DOMAIN q
    BY <1>1, <1>3, <1>5
  <2>2. q[1] \in Range(q)
    BY <2>1 DEF Range
  <2> QED BY <1>2, <1>5, <2>2
<1> QED BY <1>4, <1>5

\* A queue without repetitions lists as many elements as it is long.
LEMMA RangeCounts ==
  ASSUME NEW S, NEW q \in Seq(S), \A i, j \in DOMAIN q : q[i] = q[j] => i = j
  PROVE  IsFiniteSet(Range(q)) /\ Cardinality(Range(q)) = Len(q)
<1>1. DOMAIN q = 1..Len(q) /\ Len(q) \in Nat
  BY LenProperties
<1>2. IsFiniteSet(1..Len(q)) /\ Cardinality(1..Len(q)) = Len(q)
  <2>1. /\ IsFiniteSet(1..Len(q))
        /\ Cardinality(1..Len(q)) = IF 1 > Len(q) THEN 0 ELSE Len(q) - 1 + 1
    BY <1>1, FS_Interval
  <2> QED BY <1>1, <2>1
<1>3. q \in [1..Len(q) -> Range(q)]
  <2>1. q \in [1..Len(q) -> S]
    BY LenProperties
  <2> QED BY <1>1, <2>1 DEF Range
<1>4. q \in Surjection(1..Len(q), Range(q))
  BY <1>1, <1>3 DEF Surjection, Range
<1>5. q \in Injection(1..Len(q), Range(q))
  BY <1>1, <1>3 DEF Injection, IsInjective
<1> DEFINE D == 1..Len(q)
           L == Range(q)
<1>6. IsFiniteSet(D) /\ Cardinality(D) = Len(q) /\ q \in Surjection(D, L) /\ q \in Injection(D, L)
  BY <1>2, <1>4, <1>5
<1> HIDE DEF D, L
<1>7. IsFiniteSet(L) /\ Cardinality(L) = Cardinality(D)
  BY <1>6, FS_Surjection
<1> QED BY <1>6, <1>7 DEF L

----------------------------------------------------------------------------

\* The tasklet has a frame in hand wherever it uses one, and a sequence number
\* wherever it takes one from a BlockAckReq.
InHand ==
  /\ rx.pc \in {"reset", "place", "slide", "store", "direct"} => rx.n \in Frames
  /\ rx.pc = "barred" => rx.seq \in Seqs

\* TypeOK alone is not inductive: that freelist stays within the pool follows
\* from the count of the blocks, and that the list holds frames from InHand.
IInv == TypeOK /\ BlocksConserved /\ InHand

\* A remainder by SEQMOD is a sequence number.
LEMMA Remainder ==
  ASSUME NEW i \in Int
  PROVE  i % SEQMOD \in Seqs
<1>1. SEQMOD \in Nat /\ SEQMOD > 0
  BY BaReorderAssumption
<1> QED BY <1>1, SMT DEF Seqs

\* The frame numbers leave 0 free for NoFrame, and RESET_RCV_SEQ is no
\* sequence number.
LEMMA Numbers ==
  /\ Frames \subseteq Nat \ {NoFrame}
  /\ \A n \in Frames : Sequence(n) \in Seqs
  /\ Seqs \subseteq Int /\ RESET_RCV_SEQ \in Int /\ RESET_RCV_SEQ \notin Seqs
<1>1. Frames \subseteq Nat \ {NoFrame}
  BY BaReorderAssumption DEF Frames, NoFrame
<1>2. ASSUME NEW n \in Frames PROVE Sequence(n) \in Seqs
  BY <1>1, <1>2, Remainder DEF Sequence
<1>3. Seqs \subseteq Int /\ RESET_RCV_SEQ \in Int /\ RESET_RCV_SEQ \notin Seqs
  BY BaReorderAssumption DEF Seqs, RESET_RCV_SEQ
<1> QED BY <1>1, <1>2, <1>3

\* A run is part of the list.
LEMMA RunType ==
  ASSUME NEW places, list \in Seq(Frames)
  PROVE  Run(places) \in 0..Len(list)
<1> DEFINE good == {k \in 1..Len(list) : 1..k \subseteq places}
<1>1. Len(list) \in Nat
  BY LenProperties
<1>2. IsFiniteSet(1..Len(list)) /\ Cardinality(1..Len(list)) = Len(list)
  <2>1. /\ IsFiniteSet(1..Len(list))
        /\ Cardinality(1..Len(list)) = IF 1 > Len(list) THEN 0 ELSE Len(list) - 1 + 1
    BY <1>1, FS_Interval, SMTT(60)
  <2> QED BY <1>1, <2>1
<1>3. good \in SUBSET (1..Len(list))
  OBVIOUS
<1>4. IsFiniteSet(good) /\ Cardinality(good) <= Len(list)
  BY <1>2, <1>3, FS_Subset
<1>5. Cardinality(good) \in Nat
  BY <1>4, FS_CardinalityType
<1> QED BY <1>1, <1>4, <1>5 DEF Run

\* What is taken from the head of the list, and what stays.
LEMMA Parts ==
  ASSUME list \in Seq(Frames), NEW k \in 0..Len(list)
  PROVE  /\ SubSeq(list, k + 1, Len(list)) \in Seq(Frames)
         /\ Len(SubSeq(list, k + 1, Len(list))) = Len(list) - k
         /\ SubSeq(list, 1, k) \in Seq(Frames \cup {Mark})
<1>1. Len(list) \in Nat
  BY LenProperties
<1>2. \A i \in 1..Len(list) : list[i] \in Frames
  BY ElementOfSeq
<1>3. /\ SubSeq(list, k + 1, Len(list)) \in Seq(Frames)
      /\ Len(SubSeq(list, k + 1, Len(list))) =
           IF k + 1 <= Len(list) THEN Len(list) - (k + 1) + 1 ELSE 0
  <2>1. \A i \in (k + 1)..Len(list) : list[i] \in Frames
    BY <1>1, <1>2
  <2> HIDE <1>2
  <2> QED BY <1>1, <2>1, SubSeqProperties
<1>4. SubSeq(list, 1, k) \in Seq(Frames \cup {Mark})
  <2>1. \A i \in 1..k : list[i] \in Frames \cup {Mark}
    BY <1>1, <1>2
  <2> QED BY <1>1, <2>1, SubSeqProperties
<1> QED BY <1>1, <1>3, <1>4

\* Indicating the head of the list keeps types and blocks.
LEMMA IndicateKeeps ==
  ASSUME TypeOK, BlocksConserved, NEW k \in 0..Len(list),
         NEW before \in Seq(Frames \cup {Mark}),
         Indicate(before, k), lost' = lost
  PROVE  /\ list' \in Seq(Frames) /\ freelist' \in 0..POOL
         /\ up' \in Seq(Frames \cup {Mark})
         /\ BlocksConserved'
<1>1. /\ list' \in Seq(Frames) /\ Len(list') = Len(list) - k
      /\ SubSeq(list, 1, k) \in Seq(Frames \cup {Mark})
  BY Parts DEF TypeOK, Indicate
<1>2. Len(list) \in Nat /\ Len(list') \in Nat
  BY <1>1, LenProperties DEF TypeOK
<1>3. up \o before \in Seq(Frames \cup {Mark})
  BY ConcatProperties DEF TypeOK
<1>4. up' \in Seq(Frames \cup {Mark})
  BY <1>1, <1>3, ConcatProperties DEF Indicate
<1>5. freelist' \in 0..POOL /\ BlocksConserved'
  <2>1. freelist \in Nat /\ lost \in Nat /\ POOL \in Nat
        /\ freelist + Len(list) + lost = POOL
    BY BaReorderAssumption DEF TypeOK, BlocksConserved
  <2>2. freelist' = freelist + k
    BY DEF Indicate
  <2>3. k \in Nat /\ k <= Len(list)
    BY <1>2
  <2>4. freelist' \in 0..POOL
    BY <1>2, <2>1, <2>2, <2>3
  <2>5. freelist' + Len(list') + lost' = POOL
    BY <1>1, <1>2, <2>1, <2>2, <2>3
  <2> QED BY <2>4, <2>5 DEF BlocksConserved
<1> QED BY <1>1, <1>4, <1>5

\* So does a refresh.
LEMMA RefreshKeeps ==
  ASSUME TypeOK, BlocksConserved, ba_refresh_reordering_mpdus, lost' = lost
  PROVE  /\ list' \in Seq(Frames) /\ freelist' \in 0..POOL
         /\ up' \in Seq(Frames \cup {Mark})
         /\ LastIndSeq' \in Seqs \cup {RESET_RCV_SEQ}
         /\ BlocksConserved'
<1>1. Len(list) \in Nat
  BY LenProperties DEF TypeOK
<1>2. list' \in Seq(Frames) /\ Len(list') = 0
  BY EmptySeq DEF ba_refresh_reordering_mpdus
<1>3. list \in Seq(Frames \cup {Mark})
  BY SeqMonotonic DEF TypeOK
<1>4. up \o list \in Seq(Frames \cup {Mark})
  BY <1>3, ConcatProperties DEF TypeOK
<1>5. <<Mark>> \in Seq(Frames \cup {Mark})
  OBVIOUS
<1>6. up' \in Seq(Frames \cup {Mark})
  BY <1>4, <1>5, ConcatProperties DEF ba_refresh_reordering_mpdus
<1>7. freelist' \in 0..POOL /\ BlocksConserved'
  BY <1>1, <1>2, BaReorderAssumption
     DEF TypeOK, BlocksConserved, ba_refresh_reordering_mpdus
<1> QED BY <1>2, <1>6, <1>7 DEF ba_refresh_reordering_mpdus

\* Initially the whole pool is free.
LEMMA InitOK == Init => IInv
<1> SUFFICES ASSUME Init PROVE IInv
  OBVIOUS
<1>1. <<>> \in Seq(Frames) /\ <<>> \in Seq(Frames \cup {Mark}) /\ Len(<<>>) = 0
  BY EmptySeq
<1>2. FIRST \in Frames
  BY BaReorderAssumption DEF Frames
<1>3. 0 \in Seqs
  BY BaReorderAssumption DEF Seqs
<1>4. TypeOK
  <2>1. rx \in [pc : Pcs, n : Frames \cup {NoFrame}, seq : Seqs \cup {RESET_RCV_SEQ},
               walk : BOOLEAN]
    BY DEF Init, Idle, Pcs
  <2>2. list \in Seq(Frames) /\ up \in Seq(Frames \cup {Mark})
    BY <1>1 DEF Init
  <2>3. /\ freelist \in 0..POOL /\ lost \in 0..POOL
        /\ arrivals \in 0..MaxArrivals /\ changes \in 0..MaxChanges
    BY BaReorderAssumption DEF Init
  <2>4. LastIndSeq \in Seqs \cup {RESET_RCV_SEQ} /\ base \in Frames
    BY <1>2, <1>3 DEF Init
  <2> QED BY <2>1, <2>2, <2>3, <2>4 DEF Init, TypeOK
<1>5. BlocksConserved
  BY <1>1, BaReorderAssumption DEF Init, BlocksConserved
<1>6. InHand
  BY DEF Init, InHand, Idle
<1> QED BY <1>4, <1>5, <1>6 DEF IInv

\* A frame goes up after what is there.
LEMMA AppendKeeps ==
  ASSUME TypeOK, rx.n \in Frames, up' = Append(up, rx.n)
  PROVE  up' \in Seq(Frames \cup {Mark})
BY AppendProperties DEF TypeOK

\* What arrives brings a frame, or a sequence number, with it.
LEMMA ArrivalKeeps ==
  ASSUME IInv, Indicate_AMPDU_Packet \/ Indicate_Legacy_Packet \/ CntlEnqueueForRecv
  PROVE  IInv'
<1>1. TypeOK /\ BlocksConserved /\ InHand
  BY DEF IInv
<1>2. arrivals' \in 0..MaxArrivals /\ overlapped' \in BOOLEAN
  <2>1. Arrives /\ Overlaps
    BY DEF Indicate_AMPDU_Packet, Indicate_Legacy_Packet, CntlEnqueueForRecv
  <2>2. arrivals' \in 0..MaxArrivals
    BY <1>1, <2>1, BaReorderAssumption DEF TypeOK, Arrives
  <2>3. overlapped' \in BOOLEAN
    BY <2>1 DEF Overlaps
  <2> QED BY <2>2, <2>3
<1>3. CASE Indicate_AMPDU_Packet
  <2>1. /\ rx' \in [pc : Pcs, n : Frames \cup {NoFrame}, seq : Seqs \cup {RESET_RCV_SEQ},
                    walk : BOOLEAN]
        /\ rx'.pc \in {"idle", "flush"}
    <3>1. PICK n \in Frames :
            rx' = IF session THEN [Idle EXCEPT !.pc = "flush", !.n = n] ELSE Idle
      BY <1>3 DEF Indicate_AMPDU_Packet
    <3> QED BY <3>1 DEF Idle, Pcs
  <2> QED BY <1>1, <1>2, <1>3, <2>1
          DEF Indicate_AMPDU_Packet, IInv, TypeOK, BlocksConserved, InHand, entryVars, heldVars
<1>4. CASE Indicate_Legacy_Packet
  BY <1>1, <1>2, <1>4
     DEF Indicate_Legacy_Packet, Idle, Pcs, IInv, TypeOK, BlocksConserved, InHand, entryVars,
         heldVars
<1>5. CASE CntlEnqueueForRecv
  <2>1. Sequence(base) \in Seqs
    BY <1>1, Numbers DEF TypeOK
  <2>2. CASE SEQ_SMALLER(LastIndSeq, Sequence(base))
    <3>1. LeSeqCount(Sequence(base)) \in 0..Len(list)
      BY <1>1, RunType DEF TypeOK, LeSeqCount
    <3>2. Indicate(<<>>, LeSeqCount(Sequence(base))) /\ lost' = lost
      BY <1>5, <2>2 DEF CntlEnqueueForRecv, ba_indicate_reordering_mpdus_le_seq
    <3>3. <<>> \in Seq(Frames \cup {Mark})
      BY EmptySeq
    <3>4. /\ list' \in Seq(Frames) /\ freelist' \in 0..POOL
          /\ up' \in Seq(Frames \cup {Mark}) /\ BlocksConserved'
      BY <1>1, <3>1, <3>2, <3>3, IndicateKeeps
    <3>5. rx' = [Idle EXCEPT !.pc = "barred", !.seq = Sequence(base)]
      BY <1>5, <2>2 DEF CntlEnqueueForRecv
    <3> QED BY <1>1, <1>2, <1>5, <2>1, <3>4, <3>5
            DEF CntlEnqueueForRecv, IInv, TypeOK, InHand, Idle, Pcs, entryVars
  <2>3. CASE ~SEQ_SMALLER(LastIndSeq, Sequence(base))
    <3>1. rx' = Idle /\ UNCHANGED <<heldVars, up>>
      BY <1>5, <2>3 DEF CntlEnqueueForRecv
    <3> QED BY <1>1, <1>2, <1>5, <3>1
            DEF CntlEnqueueForRecv, IInv, TypeOK, BlocksConserved, InHand, Idle, Pcs,
                entryVars, heldVars
  <2> QED BY <2>2, <2>3
<1> QED BY <1>3, <1>4, <1>5

\* The steps of the tasklet that touch neither the list nor the stack.
LEMMA QuietKeeps ==
  ASSUME IInv, Barred \/ NotLate \/ Advance \/ DropOld \/ WithinWindow \/ Slide
  PROVE  IInv'
<1>1. TypeOK /\ BlocksConserved /\ InHand
  BY DEF IInv
<1>2. /\ UNCHANGED <<session, BAWinSize, list, freelist, mlme, base, arrivals, changes,
                     closed, up, overlapped, lost>>
  BY DEF Barred, NotLate, Advance, DropOld, WithinWindow, Slide, entryVars, heldVars,
         envVars, ghostVars
<1>3. shortcut' \subseteq {"bar", "direct"}
  BY <1>1 DEF TypeOK, Barred, NotLate, Advance, DropOld, WithinWindow, Slide, ghostVars
<1>4. LastIndSeq' \in Seqs \cup {RESET_RCV_SEQ}
  <2>1. CASE Barred
    <3>1. rx.seq \in Seqs
      BY <1>1, <2>1 DEF InHand, Barred, At
    <3>2. LastIndSeq' = IF rx.seq = 0 THEN SEQMOD - 1 ELSE rx.seq - 1
      BY <2>1 DEF Barred
    <3> QED BY <3>1, <3>2, BaReorderAssumption DEF Seqs
  <2>2. CASE NotLate \/ DropOld \/ WithinWindow
    BY <1>1, <2>2 DEF NotLate, DropOld, WithinWindow, TypeOK, entryVars
  <2>3. CASE Advance \/ Slide
    BY <1>1, <2>3 DEF Advance, Slide, Returned, TypeOK
  <2> QED BY <2>1, <2>2, <2>3
<1>5. /\ rx' \in [pc : Pcs, n : Frames \cup {NoFrame}, seq : Seqs \cup {RESET_RCV_SEQ},
                  walk : BOOLEAN]
      /\ InHand'
  <2>1. rx \in [pc : Pcs, n : Frames \cup {NoFrame}, seq : Seqs \cup {RESET_RCV_SEQ},
                walk : BOOLEAN]
    BY <1>1 DEF TypeOK
  <2>2. CASE Barred \/ DropOld
    <3>1. rx' = Idle
      BY <2>2 DEF Barred, DropOld, Done
    <3> QED BY <3>1 DEF Idle, InHand, Pcs
  <2>3. CASE NotLate
    BY <2>1, <2>3 DEF NotLate, AfterFlush, Idle, InHand, Pcs
  <2>4. CASE Advance
    BY <2>1, <2>4 DEF Advance, Idle, InHand, Pcs
  <2>5. CASE WithinWindow \/ Slide
    BY <1>1, <2>1, <2>5 DEF WithinWindow, Slide, Goto, At, InHand, Pcs
  <2> QED BY <2>2, <2>3, <2>4, <2>5
<1>6. BlocksConserved'
  BY <1>1, <1>2 DEF BlocksConserved
<1>7. TypeOK'
  BY <1>1, <1>2, <1>3, <1>4, <1>5 DEF TypeOK
<1> QED BY <1>5, <1>6, <1>7 DEF IInv

\* The steps that indicate the head of the list.
LEMMA IndicatingKeeps ==
  ASSUME IInv, FlushOne \/ FlushedOne \/ InOrder \/ BeyondWindow \/ Walk
  PROVE  IInv'
<1>1. TypeOK /\ BlocksConserved /\ InHand
  BY DEF IInv
<1>2. UNCHANGED <<session, BAWinSize, mlme, base, arrivals, changes, closed, overlapped,
                  shortcut, lost>>
  BY DEF FlushOne, FlushedOne, InOrder, BeyondWindow, Walk, entryVars, envVars, ghostVars
<1>3. /\ \A s : LeSeqCount(s) \in 0..Len(list) /\ InOrderCount(s) \in 0..Len(list)
      /\ \A k \in 0..Len(list) : LastOf(k) \in Seqs \cup {RESET_RCV_SEQ}
  <2>1. \A s : LeSeqCount(s) \in 0..Len(list) /\ InOrderCount(s) \in 0..Len(list)
    BY <1>1, RunType DEF TypeOK, LeSeqCount, InOrderCount
  <2>2. ASSUME NEW k \in 0..Len(list), k # 0
        PROVE  Sequence(list[k]) \in Seqs
    <3>1. k \in 1..Len(list)
      BY <1>1, <2>2, LenProperties DEF TypeOK
    <3>2. list[k] \in Frames
      BY <1>1, <3>1, ElementOfSeq DEF TypeOK
    <3> QED BY <3>2, Numbers
  <2> QED BY <2>1, <2>2 DEF LastOf
<1>4. \E before \in Seq(Frames \cup {Mark}) : \E k \in 0..Len(list) : Indicate(before, k)
  <2>1. <<>> \in Seq(Frames \cup {Mark})
    BY EmptySeq
  <2>2. CASE FlushOne \/ BeyondWindow
    BY <1>3, <2>1, <2>2 DEF FlushOne, BeyondWindow, ba_indicate_reordering_mpdus_le_seq
  <2>3. CASE FlushedOne \/ Walk
    BY <1>3, <2>1, <2>3 DEF FlushedOne, Walk, ba_indicate_reordering_mpdus_in_order
  <2>4. CASE InOrder
    <3>1. rx.n \in Frames
      BY <1>1, <2>4 DEF InOrder, At, InHand
    <3>2. <<rx.n>> \in Seq(Frames \cup {Mark})
      BY <3>1
    <3> QED BY <1>3, <2>4, <3>2 DEF InOrder
  <2> QED BY <2>2, <2>3, <2>4
<1>5. /\ list' \in Seq(Frames) /\ freelist' \in 0..POOL
      /\ up' \in Seq(Frames \cup {Mark}) /\ BlocksConserved'
  BY <1>1, <1>2, <1>4, IndicateKeeps
<1>6. LastIndSeq' \in Seqs \cup {RESET_RCV_SEQ}
  <2>1. CASE FlushOne \/ BeyondWindow \/ Walk
    BY <1>1, <2>1 DEF FlushOne, BeyondWindow, Walk, entryVars, TypeOK
  <2>2. CASE FlushedOne
    BY <1>1, <2>2 DEF FlushedOne, TypeOK
  <2>3. CASE InOrder
    BY <1>1, <2>3, Numbers DEF InOrder, InHand, At
  <2> QED BY <2>1, <2>2, <2>3
<1>7. /\ rx' \in [pc : Pcs, n : Frames \cup {NoFrame}, seq : Seqs \cup {RESET_RCV_SEQ},
                  walk : BOOLEAN]
      /\ InHand'
  <2>1. rx \in [pc : Pcs, n : Frames \cup {NoFrame}, seq : Seqs \cup {RESET_RCV_SEQ},
                walk : BOOLEAN]
    BY <1>1 DEF TypeOK
  <2>2. CASE FlushOne
    <3>1. (LastIndSeq + 1) % SEQMOD \in Seqs
      BY <1>1, Numbers, Remainder DEF TypeOK
    <3> QED BY <2>1, <2>2, <3>1 DEF FlushOne, InHand, Pcs
  <2>3. CASE FlushedOne \/ Walk
    <3>1. PICK l \in Seqs \cup {RESET_RCV_SEQ} :
            rx' = [rx EXCEPT !.pc = "advance", !.seq = l]
      BY <1>3, <2>3 DEF FlushedOne, Walk, ba_indicate_reordering_mpdus_in_order
    <3> QED BY <2>1, <3>1 DEF InHand, Pcs
  <2>4. CASE InOrder
    <3>1. PICK l \in Seqs \cup {RESET_RCV_SEQ} :
            rx' = [rx EXCEPT !.pc = "advance", !.seq = l, !.walk = TRUE]
      BY <1>3, <2>4 DEF InOrder
    <3> QED BY <2>1, <3>1 DEF InHand, Pcs
  <2>5. CASE BeyondWindow
    <3>1. rx.n \in Frames
      BY <1>1, <2>5 DEF BeyondWindow, At, InHand
    <3>2. WinStart(rx.n) \in Seqs
      <4>0. Sequence(rx.n) \in Int
        BY <3>1, Numbers
      <4>1. Sequence(rx.n) \in Int /\ BAWinSize \in Int
        <5>1. BAWinSize \in {0, WIN} /\ WIN \in Nat
          BY <1>1, BaReorderAssumption DEF TypeOK
        <5> QED BY <4>0, <5>1
      <4>2. Sequence(rx.n) - BAWinSize \in Int
        BY <4>1
      <4>3. (Sequence(rx.n) - BAWinSize) % SEQMOD \in Seqs
        BY <4>2, Remainder
      <4> QED BY <4>3 DEF WinStart
    <3> QED BY <2>1, <2>5, <3>1, <3>2 DEF BeyondWindow, InHand, Pcs
  <2> QED BY <2>2, <2>3, <2>4, <2>5
<1>8. TypeOK'
  BY <1>1, <1>2, <1>5, <1>6, <1>7 DEF TypeOK
<1> QED BY <1>5, <1>7, <1>8 DEF IInv

\* The refreshes, of the tasklet and of the thread.
LEMMA RefreshingKeeps ==
  ASSUME IInv, FlushAll \/ Refresh
  PROVE  IInv'
<1>1. TypeOK /\ BlocksConserved /\ InHand
  BY DEF IInv
<1>2. ba_refresh_reordering_mpdus /\ UNCHANGED <<session, BAWinSize, envVars, ghostVars>>
  BY DEF FlushAll, Refresh
<1>3. /\ list' \in Seq(Frames) /\ freelist' \in 0..POOL
      /\ up' \in Seq(Frames \cup {Mark})
      /\ LastIndSeq' \in Seqs \cup {RESET_RCV_SEQ}
      /\ BlocksConserved'
  BY <1>1, <1>2, RefreshKeeps DEF ghostVars
<1>4. CASE FlushAll
  BY <1>1, <1>2, <1>3, <1>4
     DEF FlushAll, AfterFlush, Idle, IInv, TypeOK, InHand, Pcs, envVars, ghostVars
<1>5. CASE Refresh
  BY <1>1, <1>2, <1>3, <1>5 DEF Refresh, IInv, TypeOK, InHand, envVars, ghostVars
<1> QED BY <1>4, <1>5

\* The steps that send the frame in hand up by itself.
LEMMA AppendingKeeps ==
  ASSUME IInv, FirstOfNumbering \/ Direct
  PROVE  IInv'
<1>1. TypeOK /\ BlocksConserved /\ InHand /\ rx.n \in Frames
  BY DEF IInv, FirstOfNumbering, Direct, InHand, At
<1>2. Sequence(rx.n) \in Seqs
  BY <1>1, Numbers
<1>3. up' \in Seq(Frames \cup {Mark})
  <2>1. up' = Append(up, rx.n) \/ up' = up
    BY DEF FirstOfNumbering, Direct
  <2> QED BY <1>1, <2>1, AppendKeeps DEF TypeOK
<1>4. CASE FirstOfNumbering
  <2>1. rx' = Idle \/ rx' = [rx EXCEPT !.pc = "place"]
    BY <1>4 DEF FirstOfNumbering, Done, Goto
  <2>2. LastIndSeq' \in Seqs \cup {RESET_RCV_SEQ}
    BY <1>1, <1>2, <1>4 DEF FirstOfNumbering, TypeOK
  <2>3. /\ rx' \in [pc : Pcs, n : Frames \cup {NoFrame}, seq : Seqs \cup {RESET_RCV_SEQ},
                    walk : BOOLEAN]
        /\ InHand'
    <3>1. rx \in [pc : Pcs, n : Frames \cup {NoFrame}, seq : Seqs \cup {RESET_RCV_SEQ},
                  walk : BOOLEAN]
      BY <1>1 DEF TypeOK
    <3>2. CASE rx' = Idle
      BY <3>2 DEF Idle, InHand, Pcs
    <3>3. CASE rx' = [rx EXCEPT !.pc = "place"]
      BY <1>1, <3>1, <3>3 DEF InHand, Pcs
    <3> QED BY <2>1, <3>2, <3>3
  <2>4. UNCHANGED <<session, BAWinSize, list, freelist, mlme, base, arrivals, changes, closed,
                    overlapped, shortcut, lost>>
    BY <1>4 DEF FirstOfNumbering, heldVars, envVars, ghostVars
  <2>5. TypeOK'
    BY <1>1, <1>3, <2>2, <2>3, <2>4 DEF TypeOK
  <2>6. BlocksConserved'
    BY <1>1, <2>4 DEF BlocksConserved
  <2> QED BY <2>3, <2>5, <2>6 DEF IInv
<1>5. CASE Direct
  <2>1. shortcut' \subseteq {"bar", "direct"}
    BY <1>1, <1>5 DEF Direct, TypeOK
  <2> QED BY <1>1, <1>2, <1>3, <1>5, <2>1
          DEF Direct, AfterStore, IInv, TypeOK, BlocksConserved, InHand, Idle, Pcs, heldVars,
              envVars
<1> QED BY <1>4, <1>5

\* A frame is put in its place, or given up as held already.
LEMMA HoldKeeps ==
  ASSUME IInv, Hold
  PROVE  IInv'
<1>1. TypeOK /\ BlocksConserved /\ rx.n \in Frames
  BY DEF IInv, Hold, InHand, At
<1>2. /\ list' \in Seq(Frames) /\ freelist' \in 0..POOL
      /\ freelist' + Len(list') = freelist + Len(list)
  <2>1. CASE AlreadyHeld(rx.n)
    BY <1>1, <2>1 DEF Hold, ba_reordering_mpdu_insertsorted, heldVars, TypeOK
  <2>2. CASE ~AlreadyHeld(rx.n)
    <3> DEFINE p == Position(rx.n)
               front == SubSeq(list, 1, p)
               back == SubSeq(list, p + 1, Len(list))
    <3>1. p \in 0..Len(list)
      BY <1>1, RunType DEF TypeOK, Position
    <3>2. Len(list) \in Nat
      BY <1>1, LenProperties DEF TypeOK
    <3>3. back \in Seq(Frames) /\ Len(back) = Len(list) - p
      BY <1>1, <3>1, Parts DEF TypeOK
    <3>4. front \in Seq(Frames) /\ Len(front) = p
      <4>1. \A i \in 1..p : list[i] \in Frames
        BY <1>1, <3>1, <3>2, ElementOfSeq DEF TypeOK
      <4>2. /\ SubSeq(list, 1, p) \in Seq(Frames)
            /\ Len(SubSeq(list, 1, p)) = IF 1 <= p THEN p - 1 + 1 ELSE 0
        BY <3>1, <3>2, <4>1, SubSeqProperties
      <4> QED BY <3>1, <3>2, <4>2
    <3>5. list' = front \o <<rx.n>> \o back /\ freelist' = freelist - 1
      <4>1. list' = InsertAt(list, p + 1, rx.n) /\ freelist' = freelist - 1
        BY <2>2 DEF Hold, ba_reordering_mpdu_insertsorted
      <4>2. (p + 1) - 1 = p
        BY <3>1, <3>2
      <4> QED BY <4>1, <4>2 DEF InsertAt
    <3>6. <<rx.n>> \in Seq(Frames) /\ Len(<<rx.n>>) = 1
      BY <1>1
    <3> HIDE DEF p, front, back
    <3>7. front \o <<rx.n>> \in Seq(Frames) /\ Len(front \o <<rx.n>>) = p + 1
      BY <3>4, <3>6, ConcatProperties
    <3>8. list' \in Seq(Frames) /\ Len(list') = (p + 1) + (Len(list) - p)
      <4>1. list' = (front \o <<rx.n>>) \o back
        BY <3>5
      <4>2. /\ (front \o <<rx.n>>) \o back \in Seq(Frames)
            /\ Len((front \o <<rx.n>>) \o back) = Len(front \o <<rx.n>>) + Len(back)
        BY <3>3, <3>7, ConcatProperties
      <4> QED BY <3>3, <3>7, <4>1, <4>2
    <3>9. freelist \in 1..POOL
      BY <1>1, BaReorderAssumption DEF Hold, TypeOK
    <3>10. freelist' \in 0..POOL
      BY <3>5, <3>9, BaReorderAssumption
    <3>11. Len(list') = Len(list) + 1
      BY <3>1, <3>2, <3>8
    <3>12. freelist' + Len(list') = freelist + Len(list)
      <4>1. freelist' = freelist - 1
        BY <3>5
      <4>2. freelist \in Int /\ Len(list) \in Int
        BY <3>2, <3>9, BaReorderAssumption
      <4> HIDE <3>5
      <4> QED BY <3>11, <4>1, <4>2
    <3> QED BY <3>8, <3>10, <3>12
  <2> QED BY <2>1, <2>2
<1>3. BlocksConserved'
  <2>1. Len(list) \in Nat /\ Len(list') \in Nat /\ freelist \in Nat /\ lost \in Nat
    BY <1>1, <1>2, LenProperties DEF TypeOK
  <2>2. lost' = lost
    BY DEF Hold, ghostVars
  <2> QED BY <1>1, <1>2, <2>1, <2>2 DEF BlocksConserved
<1>4. rx' = Idle \/ rx' = [rx EXCEPT !.pc = "walk"]
  BY DEF Hold, AfterStore
<1>5. /\ rx' \in [pc : Pcs, n : Frames \cup {NoFrame}, seq : Seqs \cup {RESET_RCV_SEQ},
                 walk : BOOLEAN]
      /\ InHand'
  <2>1. rx \in [pc : Pcs, n : Frames \cup {NoFrame}, seq : Seqs \cup {RESET_RCV_SEQ},
                walk : BOOLEAN]
    BY <1>1 DEF TypeOK
  <2>2. CASE rx' = Idle
    BY <2>2 DEF Idle, InHand, Pcs
  <2>3. CASE rx' = [rx EXCEPT !.pc = "walk"]
    BY <2>1, <2>3 DEF InHand, Pcs
  <2> QED BY <1>4, <2>2, <2>3
<1>7. UNCHANGED <<session, LastIndSeq, BAWinSize, mlme, base, arrivals, changes, closed, up,
                  overlapped, shortcut, lost>>
  BY DEF Hold, entryVars, envVars, ghostVars
<1>8. TypeOK'
  BY <1>1, <1>2, <1>5, <1>7 DEF TypeOK
<1> QED BY <1>3, <1>5, <1>8 DEF IInv

\* A frame that is not held sends up what is older; the block of an EAPOL frame
\* is lost.
LEMMA DoNotHoldKeeps ==
  ASSUME IInv, DoNotHold
  PROVE  IInv'
<1> DEFINE k == LeSeqCount(Sequence(rx.n))
           spent == IF freelist > 0 THEN 1 ELSE 0
<1>1. TypeOK /\ BlocksConserved /\ rx.n \in Frames
  BY DEF IInv, DoNotHold, InHand, At
<1>2. k \in 0..Len(list)
  BY <1>1, RunType DEF TypeOK, LeSeqCount
<1>3. /\ list' = SubSeq(list, k + 1, Len(list))
      /\ up' = up \o SubSeq(list, 1, k)
      /\ freelist' = freelist - spent + k
      /\ lost' = lost + spent
      /\ rx' = [rx EXCEPT !.pc = "direct"]
      /\ UNCHANGED <<session, LastIndSeq, BAWinSize, mlme, base, arrivals, changes, closed,
                     overlapped, shortcut>>
  BY DEF DoNotHold, Goto, entryVars, envVars
<1>4. spent \in {0, 1} /\ (spent = 1 => freelist > 0)
  OBVIOUS
<1> HIDE DEF k, spent
<1>5. /\ list' \in Seq(Frames) /\ Len(list') = Len(list) - k
      /\ SubSeq(list, 1, k) \in Seq(Frames \cup {Mark})
  BY <1>1, <1>2, <1>3, Parts DEF TypeOK
<1>6. up' \in Seq(Frames \cup {Mark})
  BY <1>1, <1>3, <1>5, ConcatProperties DEF TypeOK
<1>7. freelist' \in 0..POOL /\ lost' \in 0..POOL /\ BlocksConserved'
  <2>1. /\ freelist \in Nat /\ lost \in Nat /\ POOL \in Nat /\ Len(list) \in Nat
        /\ freelist + Len(list) + lost = POOL
    BY <1>1, LenProperties, BaReorderAssumption DEF TypeOK, BlocksConserved
  <2>2. k \in Nat /\ k <= Len(list)
    BY <1>2, <2>1
  <2>3. freelist' = freelist - spent + k /\ lost' = lost + spent
    BY <1>3
  <2>4. freelist' + Len(list') + lost' = POOL
    BY <1>4, <1>5, <2>1, <2>2, <2>3
  <2>5. freelist' \in 0..POOL /\ lost' \in 0..POOL
    BY <1>4, <2>1, <2>2, <2>3
  <2> QED BY <2>4, <2>5 DEF BlocksConserved
<1>8. /\ rx' \in [pc : Pcs, n : Frames \cup {NoFrame}, seq : Seqs \cup {RESET_RCV_SEQ},
                  walk : BOOLEAN]
      /\ InHand'
  BY <1>1, <1>3 DEF TypeOK, InHand, Pcs
<1>9. TypeOK'
  BY <1>1, <1>3, <1>5, <1>6, <1>7, <1>8 DEF TypeOK
<1> QED BY <1>7, <1>8, <1>9 DEF IInv

\* What the peer and the threads do beside the tasklet.
LEMMA BesideKeeps ==
  ASSUME IInv,
         \/ PeerMovesOn \/ BARecSessionAdd \/ BARecSessionTearDown
         \/ Fill \/ Free \/ ba_reordering_resource_release
  PROVE  IInv'
<1>1. TypeOK /\ BlocksConserved /\ InHand
  BY DEF IInv
<1>2. UNCHANGED <<rx, up, arrivals, shortcut, lost>>
  BY DEF PeerMovesOn, BARecSessionAdd, BARecSessionTearDown, Fill, Free,
         ba_reordering_resource_release, entryVars, heldVars, envVars, ghostVars
<1>3. InHand'
  BY <1>1, <1>2 DEF InHand
<1>4. CASE PeerMovesOn
  <2>1. base' \in Frames
    BY <1>1, <1>4, BaReorderAssumption DEF PeerMovesOn, TypeOK, Frames
  <2>2. UNCHANGED <<session, LastIndSeq, BAWinSize, list, freelist, mlme, changes, closed,
                    overlapped>>
    BY <1>4 DEF PeerMovesOn, entryVars, heldVars, ghostVars
  <2> QED BY <1>1, <1>2, <1>3, <2>1, <2>2 DEF IInv, TypeOK, BlocksConserved
<1>5. CASE BARecSessionAdd \/ BARecSessionTearDown
  <2>1. PICK l \in {"renew", "fill", "end"} : Change(l)
    BY <1>5 DEF BARecSessionAdd, BARecSessionTearDown
  <2>2. changes' \in 0..MaxChanges
    BY <1>1, <2>1, BaReorderAssumption DEF Change, TypeOK
  <2>3. overlapped' \in BOOLEAN /\ mlme' \in {"renew", "fill", "end"}
    BY <2>1 DEF Change
  <2>4. UNCHANGED <<session, LastIndSeq, BAWinSize, list, freelist, base, closed>>
    BY <1>5 DEF BARecSessionAdd, BARecSessionTearDown, entryVars, heldVars
  <2> QED BY <1>1, <1>2, <1>3, <2>2, <2>3, <2>4 DEF IInv, TypeOK, BlocksConserved
<1>6. CASE Fill \/ Free
  <2>1. UNCHANGED <<list, freelist, base, changes, closed, overlapped>>
    BY <1>6 DEF Fill, Free, heldVars, envVars, ghostVars
  <2>2. /\ session' \in BOOLEAN /\ BAWinSize' \in {0, WIN}
        /\ LastIndSeq' \in Seqs \cup {RESET_RCV_SEQ} /\ mlme' = "idle"
    BY <1>6 DEF Fill, Free
  <2> QED BY <1>1, <1>2, <1>3, <2>1, <2>2 DEF IInv, TypeOK, BlocksConserved
<1>7. CASE ba_reordering_resource_release
  <2>1. UNCHANGED <<session, LastIndSeq, BAWinSize, mlme, base, changes, overlapped>>
        /\ closed' = TRUE
    BY <1>7 DEF ba_reordering_resource_release, entryVars, ghostVars
  <2>2. Len(list) \in Nat /\ <<>> \in Seq(Frames) /\ Len(<<>>) = 0
    BY <1>1, LenProperties, EmptySeq DEF TypeOK
  <2>3. /\ list' \in Seq(Frames) /\ freelist' \in 0..POOL
        /\ freelist' + Len(list') + lost = POOL
    <3>1. CASE session
      <4>1. list' = <<>> /\ freelist' = freelist + Len(list)
        BY <1>7, <3>1 DEF ba_reordering_resource_release
      <4> QED BY <1>1, <2>2, <4>1, BaReorderAssumption DEF TypeOK, BlocksConserved
    <3>2. CASE ~session
      BY <1>1, <1>7, <3>2 DEF ba_reordering_resource_release, heldVars, TypeOK, BlocksConserved
    <3> QED BY <3>1, <3>2
  <2> QED BY <1>1, <1>2, <1>3, <2>1, <2>3 DEF IInv, TypeOK, BlocksConserved
<1> QED BY <1>4, <1>5, <1>6, <1>7

\* Every step keeps the invariant.
LEMMA StepKeeps == IInv /\ [Next]_vars => IInv'
<1> SUFFICES ASSUME IInv, [Next]_vars PROVE IInv'
  OBVIOUS
<1>1. CASE Indicate_AMPDU_Packet \/ Indicate_Legacy_Packet \/ CntlEnqueueForRecv
  BY <1>1, ArrivalKeeps
<1>2. CASE Tasklet
  <2>1. CASE Barred \/ NotLate \/ Advance \/ DropOld \/ WithinWindow \/ Slide
    BY <2>1, QuietKeeps
  <2>2. CASE FlushOne \/ FlushedOne \/ InOrder \/ BeyondWindow \/ Walk
    BY <2>2, IndicatingKeeps
  <2>3. CASE FlushAll
    BY <2>3, RefreshingKeeps
  <2>4. CASE FirstOfNumbering \/ Direct
    BY <2>4, AppendingKeeps
  <2>5. CASE Hold
    BY <2>5, HoldKeeps
  <2>6. CASE DoNotHold
    BY <2>6, DoNotHoldKeeps
  <2> QED BY <1>2, <2>1, <2>2, <2>3, <2>4, <2>5, <2>6 DEF Tasklet
<1>3. CASE Refresh
  BY <1>3, RefreshingKeeps
<1>4. CASE \/ PeerMovesOn \/ BARecSessionAdd \/ BARecSessionTearDown
           \/ Fill \/ Free \/ ba_reordering_resource_release
  BY <1>4, BesideKeeps
<1>5. CASE UNCHANGED vars
  BY <1>5 DEF vars, entryVars, heldVars, envVars, ghostVars, IInv, TypeOK, BlocksConserved, InHand
<1> QED BY <1>1, <1>2, <1>3, <1>4, <1>5 DEF Next, Thread

\* Every variable of the agreement keeps its type, for every window, pool,
\* sequence space and number of frames.
THEOREM TypeCorrect == Spec => []TypeOK
<1>1. Init => IInv
  BY InitOK
<1>2. IInv /\ [Next]_vars => IInv'
  BY StepKeeps
<1>3. IInv => TypeOK
  BY DEF IInv
<1> QED BY <1>1, <1>2, <1>3, PTL DEF Spec

\* However the tasklet and the thread that renews or ends the agreement
\* interleave, no block for a held frame is freed twice or forgotten, but for
\* those of the EAPOL frames (ba_action.c, ba_enqueue_reordering_packet).
THEOREM BlocksAreConserved == Spec => []BlocksConserved
<1>1. Init => IInv
  BY InitOK
<1>2. IInv /\ [Next]_vars => IInv'
  BY StepKeeps
<1>3. IInv => BlocksConserved
  BY DEF IInv
<1> QED BY <1>1, <1>2, <1>3, PTL DEF Spec

----------------------------------------------------------------------------
(* Numbers modulo SEQMOD.                                                   *)

\* Every integer has a quotient and a remainder by SEQMOD.
LEMMA Divided ==
  ASSUME NEW x \in Int
  PROVE  \E q \in Int, r \in 0..(SEQMOD - 1) : x = SEQMOD * q + r /\ x % SEQMOD = r
<1>1. SEQMOD \in Nat /\ SEQMOD > 0
  BY BaReorderAssumption
<1>2. x = SEQMOD * (x \div SEQMOD) + (x % SEQMOD) /\ x \div SEQMOD \in Int
      /\ x % SEQMOD \in 0..(SEQMOD - 1)
  BY <1>1
<1> QED BY <1>2

\* A quotient and a remainder are unique.
LEMMA OneRemainder ==
  ASSUME NEW p \in Int, NEW q \in Int,
         NEW r \in 0..(SEQMOD - 1), NEW t \in 0..(SEQMOD - 1),
         SEQMOD * p + r = SEQMOD * q + t
  PROVE  r = t
<1> SEQMOD \in Nat
  BY BaReorderAssumption
<1>1. ASSUME NEW a \in Int, NEW b \in Int, NEW x \in 0..(SEQMOD - 1),
             NEW y \in 0..(SEQMOD - 1),
             SEQMOD * a + x = SEQMOD * b + y, a < b
      PROVE  FALSE
  <2>1. PICK d \in Nat : b = a + 1 + d
    <3>1. b - a - 1 \in Nat /\ b = a + 1 + (b - a - 1)
      BY <1>1
    <3> QED BY <3>1
  <2>2. SEQMOD * b = SEQMOD * a + SEQMOD + SEQMOD * d /\ SEQMOD * d \in Nat
    BY <2>1
  <2>3. PICK u \in Int, v \in Int, w \in Nat :
          u = SEQMOD * a /\ v = SEQMOD * b /\ v = u + SEQMOD + w /\ u + x = v + y
    BY <1>1, <2>2
  <2> QED BY <2>3
<1>2. p = q
  BY <1>1
<1>3. PICK u \in Int : u = SEQMOD * p /\ u + r = u + t
  BY <1>2
<1> QED BY <1>3

\* A remainder need not be taken before the last step.
LEMMA Shifted ==
  ASSUME NEW x \in Int, NEW d \in Int
  PROVE  ((x % SEQMOD) + d) % SEQMOD = (x + d) % SEQMOD
<1> SEQMOD \in Nat
  BY BaReorderAssumption
<1>1. PICK q \in Int, r \in 0..(SEQMOD - 1) : x = SEQMOD * q + r /\ x % SEQMOD = r
  BY Divided
<1>2. r + d \in Int /\ x + d \in Int
  OBVIOUS
<1>3. PICK p \in Int, t \in 0..(SEQMOD - 1) : r + d = SEQMOD * p + t /\ (r + d) % SEQMOD = t
  BY <1>2, Divided
<1>4. PICK u \in Int, v \in 0..(SEQMOD - 1) : x + d = SEQMOD * u + v /\ (x + d) % SEQMOD = v
  BY <1>2, Divided
<1>5. SEQMOD * (p + q) + t = SEQMOD * u + v
  <2>1. PICK a \in Int, b \in Int, c \in Int, e \in Int :
          /\ a = SEQMOD * p /\ b = SEQMOD * q /\ c = SEQMOD * u /\ e = SEQMOD * (p + q)
          /\ e = a + b
    OBVIOUS
  <2> QED BY <1>1, <1>3, <1>4, <2>1
<1>6. p + q \in Int
  OBVIOUS
<1>7. t = v
  BY <1>5, <1>6, OneRemainder
<1> QED BY <1>1, <1>3, <1>4, <1>7

\* What is counted on from a sequence number is counted on from its frame.
LEMMA SequenceShifted ==
  ASSUME NEW a \in Int, NEW d \in Int
  PROVE  (Sequence(a) + d) % SEQMOD = Sequence(a + d)
BY Shifted DEF Sequence

\* The distance of two sequence numbers is that of their frames.
LEMMA SequenceBetween ==
  ASSUME NEW a \in Int, NEW b \in Int
  PROVE  (Sequence(a) - Sequence(b)) % SEQMOD = Sequence(a - b)
<1>1. PICK q \in Int, r \in 0..(SEQMOD - 1) : b = SEQMOD * q + r /\ Sequence(b) = r
  BY Divided DEF Sequence
<1>2. (Sequence(a) + (0 - r)) % SEQMOD = Sequence(a - r)
  <2>1. a + (0 - r) = a - r /\ 0 - r \in Int
    BY <1>1
  <2> QED BY <2>1, SequenceShifted
<1>3. Sequence(a - r) = Sequence(a - b)
  <2>1. a - r \in Int /\ a - b \in Int
    OBVIOUS
  <2>2. PICK p \in Int, t \in 0..(SEQMOD - 1) : a - r = SEQMOD * p + t /\ Sequence(a - r) = t
    BY <2>1, Divided DEF Sequence
  <2>3. PICK u \in Int, v \in 0..(SEQMOD - 1) : a - b = SEQMOD * u + v /\ Sequence(a - b) = v
    BY <2>1, Divided DEF Sequence
  <2>4. SEQMOD * p + t = SEQMOD * (u + q) + v
    <3>1. SEQMOD \in Nat
      BY BaReorderAssumption
    <3>2. PICK w \in Int, x \in Int, y \in Int, z \in Int :
            /\ w = SEQMOD * p /\ x = SEQMOD * q /\ y = SEQMOD * u /\ z = SEQMOD * (u + q)
            /\ z = x + y
      BY <3>1
    <3> QED BY <1>1, <2>2, <2>3, <3>2
  <2>5. u + q \in Int
    OBVIOUS
  <2> QED BY <2>2, <2>3, <2>4, <2>5, OneRemainder
<1>4. Sequence(a) - r = Sequence(a) + (0 - r)
  <2>1. Sequence(a) \in Int
    BY Divided DEF Sequence
  <2> QED BY <2>1
<1> QED BY <1>1, <1>2, <1>3, <1>4

\* The sequence number of a distance that is less than SEQMOD either way.
LEMMA SmallSequence ==
  ASSUME NEW d \in Int, -SEQMOD <= d, d < SEQMOD
  PROVE  Sequence(d) = IF d < 0 THEN d + SEQMOD ELSE d
<1> SEQMOD \in Nat
  BY BaReorderAssumption
<1>1. PICK q \in Int, r \in 0..(SEQMOD - 1) : d = SEQMOD * q + r /\ Sequence(d) = r
  BY Divided DEF Sequence
<1>2. CASE d < 0
  <2>1. d + SEQMOD \in 0..(SEQMOD - 1) /\ SEQMOD * q + r = SEQMOD * (-1) + (d + SEQMOD)
    BY <1>1, <1>2
  <2> QED BY <1>1, <1>2, <2>1, OneRemainder
<1>3. CASE ~(d < 0)
  <2>1. d \in 0..(SEQMOD - 1) /\ SEQMOD * q + r = SEQMOD * 0 + d
    BY <1>1, <1>3
  <2> QED BY <1>1, <1>3, <2>1, OneRemainder
<1> QED BY <1>2, <1>3

\* Of numbers less than SEQMOD apart the sequence numbers tell whether they are
\* equal, and of those within half of it which is the smaller.
LEMMA SequenceEqual ==
  ASSUME NEW a \in Int, NEW b \in Int, -SEQMOD < a - b, a - b < SEQMOD
  PROVE  Sequence(a) = Sequence(b) <=> a = b
<1> SEQMOD \in Nat
  BY BaReorderAssumption
<1>1. ASSUME Sequence(a) = Sequence(b) PROVE a = b
  <2>1. PICK q \in Int, r \in 0..(SEQMOD - 1) : b = SEQMOD * q + r /\ Sequence(b) = r
    BY Divided DEF Sequence
  <2>2. (Sequence(a) - Sequence(b)) % SEQMOD = 0
    <3>1. Sequence(a) - Sequence(b) = 0
      BY <1>1, <2>1
    <3>2. Sequence(0) = 0
      BY SmallSequence, BaReorderAssumption
    <3> QED BY <3>1, <3>2 DEF Sequence
  <2>3. Sequence(a - b) = 0
    BY <2>2, SequenceBetween
  <2>4. Sequence(a - b) = IF a - b < 0 THEN a - b + SEQMOD ELSE a - b
    <3>1. a - b \in Int /\ -SEQMOD <= a - b
      OBVIOUS
    <3> QED BY <3>1, SmallSequence
  <2> QED BY <2>3, <2>4
<1> QED BY <1>1

\* Frames that lie within half of the space compare as their sequence numbers do.
LEMMA SequenceSmaller ==
  ASSUME NEW a \in Int, NEW b \in Int, -SEQMOD <= 2 * (a - b), 2 * (a - b) < SEQMOD
  PROVE  SEQ_SMALLER(Sequence(a), Sequence(b)) <=> a < b
<1>1. SEQMOD \in Nat /\ SEQMOD = 2 * (SEQMOD \div 2) /\ SEQMOD \div 2 \in Nat
  BY BaReorderAssumption
<1>2. (Sequence(a) - Sequence(b)) % SEQMOD = Sequence(a - b)
  BY SequenceBetween
<1>3. Sequence(a - b) = IF a - b < 0 THEN a - b + SEQMOD ELSE a - b
  <2>1. a - b \in Int /\ -SEQMOD <= a - b /\ a - b < SEQMOD
    BY <1>1
  <2> QED BY <2>1, SmallSequence
<1>4. PICK h \in Nat : h = SEQMOD \div 2 /\ SEQMOD = 2 * h
  BY <1>1
<1>5. SEQ_SMALLER(Sequence(a), Sequence(b)) <=> Sequence(a - b) >= h
  BY <1>2, <1>4 DEF SEQ_SMALLER
<1> QED BY <1>3, <1>4, <1>5

----------------------------------------------------------------------------
(* The order of the frames.  While the agreement does not change under a    *)
(* frame in hand, LastIndSeq is the number of a frame l, or the numbering   *)
(* starts anew (Fresh), and the places of the tasklet tell what it has      *)
(* decided by LastIndSeq.                                                   *)

Held == Range(list)
Above(E, m) == \A e \in E : e > m
Sorted(s) == \A i, j \in 1..Len(s) : i < j => s[i] < s[j]

\* A stream u of indicated frames: those of the present numbering, by their places.
Same(u, i, j) == \A k \in i..j : u[k] # Mark
Current(u) == {i \in 1..Len(u) : Same(u, i, Len(u))}
UpTo(u, m) == \A i \in Current(u) : u[i] <= m
Indicated(u, e) == \E i \in Current(u) : u[i] = e

\* To indicate e now, for the first time or again, breaks no order.
Ready(u, e) == \A i \in Current(u) : u[i] > e => \E k \in Current(u) : k < i /\ u[k] = e

\* FirstCopiesInOrder and NoneTwice, of any stream.
Ordered(u) ==
  \A i, j \in 1..Len(u) :
    (i < j /\ Same(u, i, j) /\ u[j] < u[i]) => \E k \in 1..(i - 1) : Same(u, k, i) /\ u[k] = u[j]
Once(u) == \A i, j \in 1..Len(u) : i < j /\ Same(u, i, j) => u[i] # u[j]

\* Until a frame that was not held has set LastIndSeq, nothing in the list is passed over.
Walked == "direct" \notin shortcut
Top(l) == IF "bar" \in shortcut THEN l + 1 ELSE l

\* The thread and the tasklet keep out of each other's way, and an agreement begins
\* with nothing held or indicated.
Apart ==
  /\ rx.pc # "idle" => session /\ mlme = "idle" /\ ~closed
  /\ session => BAWinSize = WIN
  /\ mlme \in {"renew", "end", "free"} => session
  /\ ~session \/ mlme \in {"fill", "free"} => list = <<>> /\ Current(up) = {}
  /\ closed => list = <<>> /\ mlme = "idle"

Fresh ==
  /\ LastIndSeq = RESET_RCV_SEQ /\ list = <<>> /\ Current(up) = {}
  /\ rx.pc \in {"idle", "flush", "reset", "barred"}
  /\ rx.pc = "barred" => \E b \in Frames : rx.seq = Sequence(b)

\* What the tasklet has decided, the last frame indicated being l.
Decided(l) ==
  /\ rx.pc = "barred" => \E b \in Frames : /\ rx.seq = Sequence(b) /\ l < b
                                           /\ Above(Held, b) /\ UpTo(up, b)
  /\ rx.pc = "flushed" => rx.seq = Sequence(l + 1) /\ l <= LAST /\ Above(Held, l + 1) /\ UpTo(up, l + 1)
  /\ rx.pc = "advance" =>
       \/ rx.seq = RESET_RCV_SEQ /\ UpTo(up, Top(l)) /\ (Walked => l + 1 \notin Held)
       \/ \E x \in Frames : /\ rx.seq = Sequence(x) /\ l < x /\ (Walked => x <= l + WIN)
                            /\ Above(Held, x) /\ (Walked => x + 1 \notin Held) /\ UpTo(up, x)
  /\ rx.pc = "slide" => /\ rx.seq = Sequence(rx.n - WIN) /\ l < rx.n - WIN
                        /\ Above(Held, rx.n - WIN) /\ UpTo(up, rx.n - WIN)
  /\ rx.pc = "store" => l < rx.n /\ rx.n <= l + WIN /\ (~rx.walk => rx.n # l + 1)
  /\ rx.pc = "direct" => l < rx.n /\ rx.n <= l + WIN /\ Above(Held, rx.n) /\ UpTo(up, rx.n)
  /\ rx.pc \in {"idle", "flush", "reset", "place", "store", "walk"} => UpTo(up, Top(l))
  /\ rx.pc \in {"idle", "flush", "reset", "place"} \/ (rx.pc = "store" /\ ~rx.walk) =>
       (Walked => l + 1 \notin Held)

Numbered(l) ==
  /\ LastIndSeq = Sequence(l)
  /\ l = LAST + 1 => list = <<>>
  /\ Walked => Above(Held, l) /\ \A e \in Held : e <= l + WIN
  /\ \A e \in Held : e <= l => Indicated(up, e) /\ Ready(up, e)
  /\ Decided(l)

Orderly ==
  /\ Apart /\ Sorted(list)
  /\ session => Fresh \/ \E l \in (FIRST - 1)..(LAST + 1) : Numbered(l)
  /\ Ordered(up) /\ (shortcut = {} => Once(up))

OInv == IInv /\ (overlapped \/ Orderly)

----------------------------------------------------------------------------
(* What the operations on the list do to the frames held.                   *)

\* A run ends at the end of the list or before the first place that is not among the given ones.
LEMMA RunStops ==
  ASSUME NEW places, list \in Seq(Frames)
  PROVE  /\ Run(places) \in 0..Len(list) /\ 1..Run(places) \subseteq places
         /\ Run(places) < Len(list) => Run(places) + 1 \notin places
<1> DEFINE good == {k \in 1..Len(list) : 1..k \subseteq places}
           bad == {j \in 1..Len(list) : j \notin places}
<1>1. PICK n \in Nat : n = Len(list)
  BY LenProperties
<1>2. PICK m \in 0..n : 1..m \subseteq places /\ (m < n => m + 1 \notin places)
  <2>1. CASE bad = {}
    <3>1. 1..n \subseteq places /\ n \in 0..n
      BY <1>1, <2>1
    <3> QED BY <3>1
  <2>2. CASE bad # {}
    <3>1. bad \subseteq Nat
      BY <1>1
    <3> HIDE DEF bad
    <3>2. PICK j \in bad : \A y \in bad : j <= y
      BY <2>2, <3>1, SmallestOfNat
    <3>3. j \in 1..n /\ j \notin places /\ 1..(j - 1) \subseteq places
      BY <1>1, <3>2 DEF bad
    <3>4. j - 1 \in 0..n /\ (j - 1) + 1 = j
      BY <1>1, <3>3
    <3> QED BY <3>3, <3>4
  <2> QED BY <2>1, <2>2
<1>3. good = 1..m
  BY <1>1, <1>2
<1>4. Cardinality(1..m) = m
  <2>1. Cardinality(1..m) = IF 1 > m THEN 0 ELSE m - 1 + 1
    BY <1>2, FS_Interval
  <2> QED BY <1>2, <2>1
<1>5. Run(places) = m
  BY <1>3, <1>4 DEF Run
<1> QED BY <1>1, <1>2, <1>5

\* What a sequence of frames holds are numbers.
LEMMA Elements ==
  ASSUME NEW s \in Seq(Frames)
  PROVE  \A i \in 1..Len(s) : s[i] \in Frames /\ s[i] \in Int
<1>1. Frames \subseteq Int
  BY Numbers
<1> QED BY <1>1, ElementOfSeq

\* There are no more places than numbers between FIRST and LAST.
LEMMA SortedFits ==
  ASSUME list \in Seq(Frames), Sorted(list)
  PROVE  Len(list) <= LAST - FIRST + 1
<1>1. DOMAIN list = 1..Len(list) /\ Len(list) \in Nat /\ \A i \in 1..Len(list) : list[i] \in Frames
  BY LenProperties, ElementOfSeq
<1>2. \A i, j \in DOMAIN list : list[i] = list[j] => i = j
  <2>1. Frames \subseteq Int
    BY Numbers
  <2>2. ASSUME NEW i \in 1..Len(list), NEW j \in 1..Len(list), i < j PROVE list[i] # list[j]
    <3>1. list[i] < list[j]
      BY <2>2 DEF Sorted
    <3>2. list[i] \in Int /\ list[j] \in Int
      BY <1>1, <2>1
    <3> HIDE <1>1
    <3> QED BY <3>1, <3>2
  <2>3. \A i, j \in 1..Len(list) : i = j \/ i < j \/ j < i
    BY <1>1
  <2> QED BY <1>1, <2>2, <2>3
<1>3. Cardinality(Range(list)) = Len(list)
  BY <1>2, RangeCounts
<1>4. Range(list) \in SUBSET Frames
  BY <1>1 DEF Range
<1>5. IsFiniteSet(Frames) /\ Cardinality(Frames) = LAST - FIRST + 1
  <2>1. FIRST \in Int /\ LAST \in Int /\ FIRST <= LAST
    BY BaReorderAssumption
  <2>2. /\ IsFiniteSet(FIRST..LAST)
        /\ Cardinality(FIRST..LAST) = IF FIRST > LAST THEN 0 ELSE LAST - FIRST + 1
    BY <2>1, FS_Interval
  <2> QED BY <2>1, <2>2 DEF Frames
<1>6. Cardinality(Range(list)) <= Cardinality(Frames)
  BY <1>4, <1>5, FS_Subset
<1> QED BY <1>3, <1>5, <1>6

\* A sorted list is cut into sorted lists.
LEMMA Cut ==
  ASSUME NEW s \in Seq(Frames), Sorted(s), NEW k \in 0..Len(s)
  PROVE  /\ SubSeq(s, 1, k) \in Seq(Frames) /\ Sorted(SubSeq(s, 1, k))
         /\ Range(SubSeq(s, 1, k)) = {s[i] : i \in 1..k}
         /\ SubSeq(s, k + 1, Len(s)) \in Seq(Frames) /\ Sorted(SubSeq(s, k + 1, Len(s)))
         /\ Range(SubSeq(s, k + 1, Len(s))) = {s[i] : i \in (k + 1)..Len(s)}
<1>1. PICK n \in Nat : n = Len(s)
  BY LenProperties
<1>2. \A i \in 1..n : s[i] \in Frames
  BY <1>1, ElementOfSeq
<1>3. \A i, j \in 1..n : i < j => s[i] < s[j]
  BY <1>1 DEF Sorted
<1>4. k \in 0..n
  BY <1>1
<1> DEFINE h == SubSeq(s, 1, k)
           t == SubSeq(s, k + 1, Len(s))
<1>5. h \in Seq(Frames) /\ Len(h) = k /\ \A i \in 1..k : h[i] = s[i]
  <2>1. \A i \in 1..k : s[i] \in Frames
    BY <1>2, <1>4
  <2>2. /\ h \in Seq(Frames) /\ Len(h) = IF 1 <= k THEN k - 1 + 1 ELSE 0
        /\ \A i \in 1..(k - 1 + 1) : h[i] = s[1 + i - 1]
    BY <1>4, <2>1, SubSeqProperties
  <2> HIDE DEF h
  <2> QED BY <1>4, <2>2
<1>6. t \in Seq(Frames) /\ Len(t) = n - k /\ \A i \in 1..(n - k) : t[i] = s[k + i]
  <2>1. \A i \in (k + 1)..n : s[i] \in Frames
    BY <1>2, <1>4
  <2>2. /\ t \in Seq(Frames) /\ Len(t) = IF k + 1 <= n THEN n - (k + 1) + 1 ELSE 0
        /\ \A i \in 1..(n - (k + 1) + 1) : t[i] = s[(k + 1) + i - 1]
    BY <1>1, <1>4, <2>1, SubSeqProperties
  <2> HIDE DEF t
  <2> QED BY <1>4, <2>2
<1>7. DOMAIN h = 1..Len(h) /\ DOMAIN t = 1..Len(t)
  BY <1>5, <1>6, LenProperties
<1> HIDE DEF h, t
<1>8. Sorted(h) /\ Range(h) = {s[i] : i \in 1..k}
  BY <1>3, <1>4, <1>5, <1>7 DEF Sorted, Range
<1>9. Sorted(t)
  <2> SUFFICES ASSUME NEW i \in 1..(n - k), NEW j \in 1..(n - k), i < j
               PROVE  t[i] < t[j]
    BY <1>6 DEF Sorted
  <2> QED BY <1>3, <1>4, <1>6
<1>10. Range(t) = {s[i] : i \in (k + 1)..n}
  <2>1. ASSUME NEW e \in Range(t) PROVE e \in {s[i] : i \in (k + 1)..n}
    <3>1. PICK i \in 1..(n - k) : e = t[i]
      BY <1>6, <1>7, <2>1 DEF Range
    <3>2. k + i \in (k + 1)..n
      BY <1>4
    <3> QED BY <1>6, <3>1, <3>2
  <2>2. ASSUME NEW i \in (k + 1)..n PROVE s[i] \in Range(t)
    <3>1. i - k \in 1..(n - k) /\ k + (i - k) = i
      BY <1>4
    <3>2. t[i - k] = s[i]
      BY <1>6, <3>1
    <3> QED BY <1>6, <1>7, <3>1, <3>2 DEF Range
  <2> QED BY <2>1, <2>2
<1> QED BY <1>1, <1>5, <1>6, <1>8, <1>9, <1>10 DEF h, t

\* All the frames up to c go up, wherever c is near the frames.
LEMMA LeSeq ==
  ASSUME list \in Seq(Frames), Sorted(list),
         NEW c \in (FIRST - WIN - 1)..(LAST + 1), NEW k, k = LeSeqCount(Sequence(c))
  PROVE  /\ k \in 0..Len(list)
         /\ Range(SubSeq(list, 1, k)) = {e \in Held : e <= c}
         /\ Range(SubSeq(list, k + 1, Len(list))) = {e \in Held : e > c}
<1>1. PICK n \in Nat : n = Len(list)
  BY LenProperties
<1>2. \A i \in 1..n : list[i] \in Frames /\ list[i] \in Int
  BY <1>1, Elements
<1>3. \A i, j \in 1..n : i < j => list[i] < list[j]
  BY <1>1 DEF Sorted
<1>4. c \in Int
  BY BaReorderAssumption
<1>5. \A e \in Frames : AtOrBelow(Sequence(e), Sequence(c)) <=> e <= c
  <2> TAKE e \in Frames
  <2>1. e \in Int /\ c \in Int
        /\ -SEQMOD <= 2 * (e - c) /\ 2 * (e - c) < SEQMOD
        /\ -SEQMOD < e - c /\ e - c < SEQMOD
    BY BaReorderAssumption DEF Frames
  <2>2. Sequence(e) = Sequence(c) <=> e = c
    BY <2>1, SequenceEqual
  <2>3. SEQ_SMALLER(Sequence(e), Sequence(c)) <=> e < c
    BY <2>1, SequenceSmaller
  <2> QED BY <2>1, <2>2, <2>3 DEF AtOrBelow
<1> DEFINE places == {i \in 1..Len(list) : AtOrBelow(Sequence(list[i]), Sequence(c))}
<1>6. k \in 0..n /\ 1..k \subseteq places /\ (k < n => k + 1 \notin places)
  <2>1. k = Run(places)
    BY DEF LeSeqCount
  <2> HIDE DEF places
  <2> QED BY <1>1, <2>1, RunStops
<1>7. \A i \in 1..k : list[i] <= c
  BY <1>1, <1>2, <1>5, <1>6
<1>8. \A i \in (k + 1)..n : list[i] > c
  <2> TAKE i \in (k + 1)..n
  <2>1. k + 1 \in 1..n /\ k < n /\ i \in 1..n
    BY <1>6
  <2>2. ~(list[k + 1] <= c)
    BY <1>1, <1>2, <1>5, <1>6, <2>1
  <2>3. i = k + 1 \/ list[k + 1] < list[i]
    BY <1>3, <2>1
  <2> QED BY <1>2, <1>4, <2>1, <2>2, <2>3
<1>9. Held = {list[i] : i \in 1..n}
  BY <1>1, LenProperties DEF Held, Range
<1>10. /\ {list[i] : i \in 1..k} = {e \in Held : e <= c}
       /\ {list[i] : i \in (k + 1)..n} = {e \in Held : e > c}
  <2>1. \A i \in 1..n : i \in 1..k \/ i \in (k + 1)..n
    BY <1>6
  <2>2. \A i \in 1..k : i \in 1..n
    BY <1>6
  <2>3. \A i \in (k + 1)..n : i \in 1..n
    BY <1>6
  <2>4. \A i \in 1..n : ~(list[i] <= c /\ list[i] > c)
    BY <1>2, <1>4
  <2> HIDE <1>2, <1>3
  <2> QED BY <1>7, <1>8, <1>9, <2>1, <2>2, <2>3, <2>4
<1> QED BY <1>1, <1>6, <1>10, Cut

\* The frames that follow c without a gap go up, and the next one is not held; but when
\* the list begins behind c, none goes up.
LEMMA InOrderRun ==
  ASSUME list \in Seq(Frames), Sorted(list),
         NEW c \in (FIRST - 1)..(LAST + 1), NEW k, k = InOrderCount(Sequence(c))
  PROVE  /\ k \in 0..Len(list)
         /\ Range(SubSeq(list, 1, k)) = (c + 1)..(c + k)
         /\ LastOf(k) = IF k = 0 THEN RESET_RCV_SEQ ELSE Sequence(c + k)
         /\ Range(SubSeq(list, k + 1, Len(list))) \subseteq Held
         /\ k > 0 => /\ c + k \in Held
                     /\ \A e \in Range(SubSeq(list, k + 1, Len(list))) : e > c + k + 1
         /\ k = 0 => /\ Range(SubSeq(list, k + 1, Len(list))) = Held
                     /\ Above(Held, c) => c + 1 \notin Held
<1>1. PICK n \in Nat : n = Len(list)
  BY LenProperties
<1>2. \A i \in 1..n : list[i] \in Frames /\ list[i] \in Int
  BY <1>1, Elements
<1>3. \A i, j \in 1..n : i < j => list[i] < list[j]
  BY <1>1 DEF Sorted
<1>4. c \in Int
  BY BaReorderAssumption
<1>5. \A i \in 1..n : Sequence(list[i]) = (Sequence(c) + i) % SEQMOD <=> list[i] = c + i
  <2> TAKE i \in 1..n
  <2>1. i <= LAST - FIRST + 1
    BY <1>1, SortedFits, BaReorderAssumption
  <2>2. PICK e \in Frames : e = list[i]
    BY <1>2
  <2>3. /\ e \in Int /\ c + i \in Int
        /\ -SEQMOD < e - (c + i) /\ e - (c + i) < SEQMOD
    BY <2>1, BaReorderAssumption DEF Frames
  <2>4. Sequence(e) = Sequence(c + i) <=> e = c + i
    BY <2>3, SequenceEqual
  <2>5. (Sequence(c) + i) % SEQMOD = Sequence(c + i)
    BY <1>4, SequenceShifted
  <2> QED BY <2>2, <2>4, <2>5
<1> DEFINE places == {i \in 1..Len(list) : Sequence(list[i]) = (Sequence(c) + i) % SEQMOD}
<1>6. k \in 0..n /\ 1..k \subseteq places /\ (k < n => k + 1 \notin places)
  <2>1. k = Run(places)
    BY DEF InOrderCount
  <2> HIDE DEF places
  <2> QED BY <1>1, <2>1, RunStops
<1>7. \A i \in 1..k : list[i] = c + i
  BY <1>1, <1>5, <1>6
<1>8. k < n => list[k + 1] # c + (k + 1)
  <2>1. k < n => k + 1 \in 1..n
    BY <1>6
  <2> QED BY <1>1, <1>5, <1>6, <2>1
<1>9. Held = {list[i] : i \in 1..n}
  BY <1>1, LenProperties DEF Held, Range
<1>10. {list[i] : i \in 1..k} = (c + 1)..(c + k)
  <2>1. ASSUME NEW e \in (c + 1)..(c + k) PROVE e \in {list[i] : i \in 1..k}
    <3>1. e - c \in 1..k /\ c + (e - c) = e
      BY <1>4, <1>6
    <3> QED BY <1>7, <3>1
  <2>2. \A i \in 1..k : c + i \in (c + 1)..(c + k)
    BY <1>4, <1>6
  <2> QED BY <1>7, <2>1, <2>2, SMTT(60)
<1>11. LastOf(k) = IF k = 0 THEN RESET_RCV_SEQ ELSE Sequence(c + k)
  <2>1. k # 0 => k \in 1..k
    BY <1>6
  <2> QED BY <1>7, <2>1 DEF LastOf
<1>12. {list[i] : i \in (k + 1)..n} \subseteq Held
  <2>1. \A i \in (k + 1)..n : i \in 1..n
    BY <1>6
  <2> QED BY <1>9, <2>1
<1>13. ASSUME k > 0
       PROVE  c + k \in Held /\ \A i \in (k + 1)..n : list[i] > c + k + 1
  <2>1. k \in 1..n /\ k \in 1..k
    BY <1>6, <1>13
  <2>2. list[k] = c + k
    BY <1>7, <2>1
  <2>3. ASSUME NEW i \in (k + 1)..n PROVE list[i] > c + k + 1
    <3>1. k + 1 \in 1..n /\ i \in 1..n /\ k < k + 1 /\ k < n
      BY <1>6, <2>3
    <3>2. list[k] < list[k + 1] /\ (i = k + 1 \/ list[k + 1] < list[i])
      BY <1>3, <2>1, <3>1
    <3>3. list[k + 1] # c + (k + 1)
      BY <1>8, <3>1
    <3>4. PICK a \in Int, b \in Int : a = list[k + 1] /\ b = list[i]
      BY <1>2, <3>1
    <3>5. c + k < a /\ (b = a \/ a < b) /\ a # c + (k + 1)
      BY <2>2, <3>2, <3>3, <3>4
    <3>6. b > c + k + 1
      BY <1>4, <1>6, <3>5
    <3> QED BY <3>4, <3>6
  <2> QED BY <1>9, <2>1, <2>2, <2>3
<1>14. ASSUME k = 0
       PROVE  /\ {list[i] : i \in (k + 1)..n} = Held
              /\ Above(Held, c) => c + 1 \notin Held
  <2>1. {list[i] : i \in (k + 1)..n} = Held
    BY <1>9, <1>14
  <2>2. ASSUME Above(Held, c), c + 1 \in Held PROVE FALSE
    <3>1. PICK i \in 1..n : list[i] = c + 1
      BY <1>9, <2>2
    <3>2. 1 \in 1..n /\ list[1] # c + 1 /\ (i = 1 \/ list[1] < list[i])
      BY <1>3, <1>8, <1>14, <3>1
    <3>3. PICK a \in Int : a = list[1]
      BY <1>2, <3>2
    <3>4. a > c
      BY <1>9, <2>2, <3>2, <3>3 DEF Above
    <3> QED BY <1>4, <3>1, <3>2, <3>3, <3>4
  <2> QED BY <2>1, <2>2
<1>15. /\ Range(SubSeq(list, 1, k)) = {list[i] : i \in 1..k}
       /\ Range(SubSeq(list, k + 1, Len(list))) = {list[i] : i \in (k + 1)..n}
  BY <1>1, <1>6, Cut
<1> HIDE DEF places
<1>16. \A e \in {list[i] : i \in (k + 1)..n} : k > 0 => e > c + k + 1
  BY <1>13
<1> QED BY <1>1, <1>6, <1>10, <1>11, <1>12, <1>13, <1>14, <1>15, <1>16

\* Two sorted lists, the one below the other, make one.
LEMMA Join ==
  ASSUME NEW s \in Seq(Frames), NEW t \in Seq(Frames), Sorted(s), Sorted(t),
         \A a \in Range(s), b \in Range(t) : a < b
  PROVE  /\ s \o t \in Seq(Frames) /\ Sorted(s \o t)
         /\ Range(s \o t) = Range(s) \cup Range(t)
<1>1. PICK l \in Nat, m \in Nat : l = Len(s) /\ m = Len(t)
  BY LenProperties
<1> DEFINE u == s \o t
<1>2. /\ u \in Seq(Frames) /\ Len(u) = l + m
      /\ \A i \in 1..(l + m) : u[i] = IF i <= l THEN s[i] ELSE t[i - l]
  BY <1>1, ConcatProperties
<1> HIDE DEF u
<1>3. /\ \A i \in 1..l : s[i] \in Range(s)
      /\ \A i \in 1..m : t[i] \in Range(t)
  BY <1>1, LenProperties DEF Range
<1>4. ASSUME NEW i \in 1..(l + m), NEW j \in 1..(l + m), i < j PROVE u[i] < u[j]
  <2>1. CASE j <= l
    <3>1. i \in 1..l /\ j \in 1..l /\ u[i] = s[i] /\ u[j] = s[j]
      BY <1>2, <1>4, <2>1
    <3> QED BY <1>1, <1>4, <3>1 DEF Sorted
  <2>2. CASE i <= l /\ ~(j <= l)
    <3>1. i \in 1..l /\ j - l \in 1..m /\ u[i] = s[i] /\ u[j] = t[j - l]
      BY <1>2, <1>4, <2>2
    <3> QED BY <1>3, <3>1
  <2>3. CASE ~(i <= l)
    <3>1. i - l \in 1..m /\ j - l \in 1..m /\ i - l < j - l
          /\ u[i] = t[i - l] /\ u[j] = t[j - l]
      BY <1>2, <1>4, <2>3
    <3> QED BY <1>1, <3>1 DEF Sorted
  <2> QED BY <2>1, <2>2, <2>3
<1>5. Sorted(u)
  BY <1>2, <1>4 DEF Sorted
<1>6. Range(u) = Range(s) \cup Range(t)
  BY RangeConcatenation DEF u
<1> QED BY <1>2, <1>5, <1>6 DEF u

\* One frame alone is sorted.
LEMMA Single ==
  ASSUME NEW n \in Frames
  PROVE  <<n>> \in Seq(Frames) /\ Sorted(<<n>>) /\ Range(<<n>>) = {n}
<1>1. <<n>> \in Seq(Frames) /\ Len(<<n>>) = 1 /\ <<n>>[1] = n
  OBVIOUS
<1>2. DOMAIN <<n>> = 1..1
  BY <1>1, LenProperties
<1>3. \A i \in 1..1 : i = 1
  OBVIOUS
<1>4. Range(<<n>>) = {n}
  BY <1>1, <1>2, <1>3 DEF Range
<1> QED BY <1>1, <1>3, <1>4 DEF Sorted

\* A frame comes to its place, unless it is held already.
LEMMA Placed ==
  ASSUME list \in Seq(Frames), Sorted(list), NEW n \in Frames,
         ba_reordering_mpdu_insertsorted(n)
  PROVE  Sorted(list)' /\ Held' = Held \cup {n}
<1>1. PICK m \in Nat : m = Len(list)
  BY LenProperties
<1>2. \A i \in 1..m : list[i] \in Frames /\ list[i] \in Int
  BY <1>1, Elements
<1>3. \A i, j \in 1..m : i < j => list[i] < list[j]
  BY <1>1 DEF Sorted
<1>4. n \in Int
  BY Numbers
<1>5. \A e \in Frames : /\ Sequence(e) = Sequence(n) <=> e = n
                        /\ SEQ_SMALLER(Sequence(e), Sequence(n)) <=> e < n
  <2> TAKE e \in Frames
  <2>1. e \in Int /\ n \in Int
        /\ -SEQMOD <= 2 * (e - n) /\ 2 * (e - n) < SEQMOD
        /\ -SEQMOD < e - n /\ e - n < SEQMOD
    BY BaReorderAssumption DEF Frames
  <2> QED BY <2>1, SequenceEqual, SequenceSmaller
<1> DEFINE places == {i \in 1..Len(list) : SEQ_SMALLER(Sequence(list[i]), Sequence(n))}
<1>6. PICK p \in 0..m : p = Position(n) /\ 1..p \subseteq places /\ (p < m => p + 1 \notin places)
  <2>1. Position(n) = Run(places)
    BY DEF Position
  <2> HIDE DEF places
  <2> QED BY <1>1, <2>1, RunStops
<1>7. \A i \in 1..p : list[i] < n
  BY <1>1, <1>2, <1>5, <1>6
<1>8. p < m => ~(list[p + 1] < n)
  <2>1. p < m => p + 1 \in 1..m
    BY <1>6
  <2> QED BY <1>1, <1>2, <1>5, <1>6, <2>1
<1>9. AlreadyHeld(n) <=> p < m /\ list[p + 1] = n
  <2>1. p < m => p + 1 \in 1..m
    BY <1>6
  <2> QED BY <1>1, <1>2, <1>5, <1>6, <2>1 DEF AlreadyHeld
<1>10. Held = {list[i] : i \in 1..m}
  BY <1>1, LenProperties DEF Held, Range
<1> HIDE DEF places
<1>11. CASE AlreadyHeld(n)
  <2>1. list' = list
    BY <1>11 DEF ba_reordering_mpdu_insertsorted, heldVars
  <2>2. p + 1 \in 1..m /\ list[p + 1] = n
    BY <1>6, <1>9, <1>11
  <2>3. n \in Held
    BY <1>10, <2>2
  <2>4. Held' = Held /\ Sorted(list')
    BY <2>1 DEF Held
  <2> QED BY <2>3, <2>4
<1>12. CASE ~AlreadyHeld(n)
  <2> DEFINE front == SubSeq(list, 1, p)
             back == SubSeq(list, p + 1, m)
  <2>1. /\ front \in Seq(Frames) /\ Sorted(front) /\ Range(front) = {list[i] : i \in 1..p}
        /\ back \in Seq(Frames) /\ Sorted(back) /\ Range(back) = {list[i] : i \in (p + 1)..m}
    BY <1>1, <1>6, Cut
  <2>2. list' = (front \o <<n>>) \o back
    <3>1. list' = InsertAt(list, p + 1, n)
      BY <1>6, <1>12 DEF ba_reordering_mpdu_insertsorted
    <3>2. (p + 1) - 1 = p
      BY <1>6
    <3> QED BY <1>1, <3>1, <3>2 DEF InsertAt
  <2>3. \A i \in (p + 1)..m : n < list[i]
    <3> TAKE i \in (p + 1)..m
    <3>1. p < m /\ p + 1 \in 1..m /\ i \in 1..m /\ (i = p + 1 \/ p + 1 < i)
      BY <1>6
    <3>2. list[p + 1] # n /\ ~(list[p + 1] < n) /\ (i = p + 1 \/ list[p + 1] < list[i])
      BY <1>3, <1>8, <1>9, <1>12, <3>1
    <3>3. list[p + 1] \in Int /\ list[i] \in Int
      BY <1>2, <3>1
    <3> HIDE <1>2, <1>3
    <3> QED BY <1>4, <3>2, <3>3
  <2> HIDE DEF front, back
  <2>4. /\ <<n>> \in Seq(Frames) /\ Sorted(<<n>>) /\ Range(<<n>>) = {n}
    BY Single
  <2>5. /\ front \o <<n>> \in Seq(Frames) /\ Sorted(front \o <<n>>)
        /\ Range(front \o <<n>>) = Range(front) \cup {n}
    <3>1. \A a \in Range(front), b \in Range(<<n>>) : a < b
      BY <1>7, <2>1, <2>4
    <3> QED BY <2>1, <2>4, <3>1, Join, ZenonT(60)
  <2>6. /\ Sorted((front \o <<n>>) \o back)
        /\ Range((front \o <<n>>) \o back) = (Range(front) \cup {n}) \cup Range(back)
    <3>1. \A a \in Range(front), b \in Range(back) : a < b
      <4>1. \A i \in 1..p, j \in (p + 1)..m : i \in 1..m /\ j \in 1..m /\ i < j
        BY <1>6
      <4> QED BY <1>3, <2>1, <4>1
    <3>2. \A a \in Range(front \o <<n>>), b \in Range(back) : a < b
      BY <2>1, <2>3, <2>5, <3>1
    <3> QED BY <2>1, <2>5, <3>2, Join
  <2>7. Range(front) \cup Range(back) = Held
    <3>1. \A i \in 1..m : i \in 1..p \/ i \in (p + 1)..m
      BY <1>6
    <3>2. \A i \in 1..p : i \in 1..m
      BY <1>6
    <3>3. \A i \in (p + 1)..m : i \in 1..m
      BY <1>6
    <3> QED BY <1>10, <2>1, <3>1, <3>2, <3>3
  <2>8. Sorted(list') /\ Held' = Range(list')
    BY <2>2, <2>6 DEF Held
  <2> QED BY <2>2, <2>6, <2>7, <2>8
<1> QED BY <1>11, <1>12

----------------------------------------------------------------------------
(* What the frames that go up do to the order of the stream.                *)

\* From u to v the frames of E went up.
Grown(u, v, E) ==
  /\ Ordered(v)
  /\ Once(u) /\ (\A e \in E : ~Indicated(u, e)) => Once(v)
  /\ \A m \in Int : UpTo(u, m) /\ (\A e \in E : e <= m) => UpTo(v, m)
  /\ \A e : Indicated(u, e) \/ e \in E => Indicated(v, e)
  /\ \A e \in Int : Ready(u, e) /\ (Indicated(u, e) \/ e \in E) => Ready(v, e)

\* To let a sorted list go up breaks no order if it breaks none for each of its frames.
LEMMA UpGrows ==
  ASSUME NEW u \in Seq(Frames \cup {Mark}), Ordered(u),
         NEW s \in Seq(Frames), Sorted(s), \A e \in Range(s) : Ready(u, e)
  PROVE  Grown(u, u \o s, Range(s))
<1> DEFINE v == u \o s
<1>1. PICK l \in Nat, m \in Nat : l = Len(u) /\ m = Len(s)
  BY LenProperties
<1>2. Len(v) = l + m /\ \A i \in 1..(l + m) : v[i] = IF i <= l THEN u[i] ELSE s[i - l]
  <2>1. s \in Seq(Frames \cup {Mark})
    BY SeqMonotonic
  <2> QED BY <1>1, <2>1, ConcatProperties
<1> HIDE DEF v
<1>3. /\ \A i \in 1..m : s[i] \in Frames /\ s[i] \in Int /\ s[i] # Mark /\ s[i] \in Range(s)
      /\ Range(s) = {s[i] : i \in 1..m}
      /\ \A i, j \in 1..m : i < j => s[i] < s[j]
  <2>1. Mark \notin Frames
    BY Numbers DEF Mark, NoFrame
  <2>2. DOMAIN s = 1..m
    BY <1>1, LenProperties
  <2> QED BY <1>1, <2>1, <2>2, Elements DEF Range, Sorted
<1>4. \A i \in 1..l : v[i] = u[i] /\ (u[i] # Mark => u[i] \in Int)
  <2>1. \A i \in 1..l : v[i] = u[i]
    BY <1>2
  <2>2. \A i \in 1..l : u[i] \in Frames \cup {Mark}
    BY <1>1, ElementOfSeq
  <2>3. Frames \subseteq Int
    BY Numbers
  <2> QED BY <2>1, <2>2, <2>3
<1>5. \A j \in 1..m : l + j \in 1..(l + m) /\ v[l + j] = s[j]
  <2> TAKE j \in 1..m
  <2>1. l + j \in 1..(l + m) /\ ~(l + j <= l) /\ (l + j) - l = j
    OBVIOUS
  <2> QED BY <1>2, <2>1
<1>6. \A i \in 1..(l + m) : i \in 1..l \/ \E j \in 1..m : i = l + j
  <2> TAKE i \in 1..(l + m)
  <2>1. CASE i > l
    <3>1. i - l \in 1..m /\ i = l + (i - l)
      BY <2>1
    <3> QED BY <3>1
  <2> QED BY <2>1
<1>7. Current(u) = {i \in 1..l : \A k \in i..l : u[k] # Mark}
  BY <1>1 DEF Current, Same
<1>8. Current(v) = {i \in 1..(l + m) : \A k \in i..(l + m) : v[k] # Mark}
  BY <1>2 DEF Current, Same
<1>9. \A j \in 1..m : l + j \in Current(v)
  <2> TAKE j \in 1..m
  <2>1. ASSUME NEW k \in (l + j)..(l + m) PROVE v[k] # Mark
    <3>1. k - l \in 1..m /\ k = l + (k - l)
      OBVIOUS
    <3> QED BY <1>3, <1>5, <3>1
  <2> QED BY <1>5, <1>8, <2>1
<1>10. \A i \in 1..l : i \in Current(u) <=> i \in Current(v)
  <2> TAKE i \in 1..l
  <2>1. ASSUME i \in Current(u) PROVE i \in Current(v)
    <3>1. ASSUME NEW k \in i..(l + m) PROVE v[k] # Mark
      <4>1. k \in 1..(l + m)
        OBVIOUS
      <4>2. CASE k \in 1..l
        <5>1. k \in i..l
          BY <4>2
        <5> QED BY <1>4, <1>7, <2>1, <4>2, <5>1
      <4> QED BY <1>3, <1>5, <1>6, <4>1, <4>2
    <3>2. i \in 1..(l + m)
      OBVIOUS
    <3> QED BY <1>8, <3>1, <3>2
  <2>2. ASSUME i \in Current(v) PROVE i \in Current(u)
    <3>1. ASSUME NEW k \in i..l PROVE u[k] # Mark
      <4>1. k \in i..(l + m) /\ k \in 1..l
        OBVIOUS
      <4> QED BY <1>4, <1>8, <2>2, <4>1
    <3> QED BY <1>7, <3>1
  <2> QED BY <2>1, <2>2
<1>11. \A i \in Current(v) : i \in Current(u) \/ \E j \in 1..m : i = l + j
  BY <1>6, <1>8, <1>10
<1>12. Current(u) \subseteq 1..l /\ Current(u) \subseteq Current(v)
       /\ \A i \in Current(u) : v[i] = u[i] /\ u[i] \in Int
  <2>1. Current(u) \subseteq 1..l
    BY <1>7
  <2>2. \A i \in Current(u) : i \in i..l
    BY <2>1
  <2>3. \A i \in Current(u) : u[i] # Mark
    BY <1>7, <2>2
  <2> HIDE <1>7, <1>8
  <2> QED BY <1>4, <1>10, <2>1, <2>3
<1> HIDE <1>7, <1>8
<1>13. ASSUME NEW n \in Int, UpTo(u, n), \A e \in Range(s) : e <= n PROVE UpTo(v, n)
  <2> SUFFICES ASSUME NEW i \in Current(v) PROVE v[i] <= n
    BY DEF UpTo
  <2>1. CASE i \in Current(u)
    BY <1>12, <1>13, <2>1 DEF UpTo
  <2>2. CASE \E j \in 1..m : i = l + j
    BY <1>3, <1>5, <1>13, <2>2
  <2> QED BY <1>11, <2>1, <2>2
<1>14. ASSUME NEW e, Indicated(u, e) \/ e \in Range(s) PROVE Indicated(v, e)
  <2>1. CASE Indicated(u, e)
    BY <1>12, <2>1 DEF Indicated
  <2>2. CASE e \in Range(s)
    <3>1. PICK j \in 1..m : e = s[j]
      BY <1>3, <2>2
    <3> QED BY <1>5, <1>9, <3>1 DEF Indicated
  <2> QED BY <1>14, <2>1, <2>2
\* Of two frames that went up together the second is the larger.
<1>15. ASSUME NEW j \in 1..m, NEW i \in Current(v), v[i] > s[j]
       PROVE  i \in Current(u) \/ l + j < i
  <2>1. CASE \E q \in 1..m : i = l + q
    <3>1. PICK q \in 1..m : i = l + q
      BY <2>1
    <3>2. v[i] = s[q]
      BY <1>5, <3>1
    <3>3. q = j \/ q < j \/ j < q
      OBVIOUS
    <3>4. q < j => s[q] < s[j]
      BY <1>3
    <3>5. s[q] \in Int /\ s[j] \in Int
      BY <1>3
    <3>6. j < q
      BY <1>15, <3>2, <3>3, <3>4, <3>5
    <3> QED BY <3>1, <3>6
  <2> QED BY <1>11, <2>1
<1>16. ASSUME NEW e \in Int, Ready(u, e), Indicated(u, e) \/ e \in Range(s) PROVE Ready(v, e)
  <2> SUFFICES ASSUME NEW i \in Current(v), v[i] > e
               PROVE  \E k \in Current(v) : k < i /\ v[k] = e
    BY DEF Ready
  <2>1. CASE i \in Current(u)
    <3>1. PICK k \in Current(u) : k < i /\ u[k] = e
      BY <1>12, <1>16, <2>1 DEF Ready
    <3> QED BY <1>12, <3>1
  <2>2. CASE i \notin Current(u)
    <3>1. PICK q \in 1..m : i = l + q
      BY <1>11, <2>2
    <3>2. CASE Indicated(u, e)
      <4>1. PICK k \in Current(u) : u[k] = e
        BY <3>2 DEF Indicated
      <4>2. k \in 1..l /\ k < i
        BY <1>12, <3>1, <4>1
      <4> QED BY <1>12, <4>1, <4>2
    <3>3. CASE e \in Range(s)
      <4>1. PICK j \in 1..m : e = s[j]
        BY <1>3, <3>3
      <4>2. l + j < i
        BY <1>15, <2>2, <4>1
      <4> QED BY <1>5, <1>9, <4>1, <4>2
    <3> QED BY <1>16, <3>2, <3>3
  <2> QED BY <2>1, <2>2
<1>17. \A i, j \in 1..l : Same(v, i, j) <=> Same(u, i, j)
  <2> TAKE i \in 1..l, j \in 1..l
  <2>1. \A k \in i..j : k \in 1..l
    OBVIOUS
  <2>2. \A k \in i..j : v[k] = u[k]
    BY <1>4, <2>1
  <2> QED BY <2>2 DEF Same
<1>18. ASSUME NEW i \in 1..(l + m), NEW q \in 1..m, i < l + q, Same(v, i, l + q)
       PROVE  i \in Current(v) /\ (i \in Current(u) \/ i > l)
  <2>1. CASE i \in 1..l
    <3>1. \A k \in i..l : k \in i..(l + q) /\ k \in 1..l
      OBVIOUS
    <3>2. \A k \in i..l : u[k] # Mark
      BY <1>4, <1>18, <3>1 DEF Same
    <3>3. i \in Current(u)
      BY <1>1, <2>1, <3>2 DEF Current, Same
    <3> QED BY <1>12, <3>3
  <2>2. CASE i \notin 1..l
    <3>1. PICK p \in 1..m : i = l + p
      BY <1>6, <2>2
    <3>2. l + p \in Current(v)
      BY <1>9
    <3> QED BY <3>1, <3>2
  <2> QED BY <2>1, <2>2
<1>19. Ordered(v)
  <2> SUFFICES ASSUME NEW i \in 1..Len(v), NEW j \in 1..Len(v),
                      i < j, Same(v, i, j), v[j] < v[i]
               PROVE  \E k \in 1..(i - 1) : Same(v, k, i) /\ v[k] = v[j]
    BY Zenon DEF Ordered
  <2> i \in 1..(l + m) /\ j \in 1..(l + m)
    BY <1>2
  <2>1. CASE j \in 1..l
    <3>1. i \in 1..l
      BY <2>1
    <3>2. Same(u, i, j) /\ u[j] < u[i]
      BY <1>4, <1>17, <2>1, <3>1
    <3>3. PICK k \in 1..(i - 1) : Same(u, k, i) /\ u[k] = u[j]
      BY <1>1, <2>1, <3>1, <3>2 DEF Ordered
    <3>4. k \in 1..l
      BY <3>1
    <3> QED BY <1>4, <1>17, <2>1, <3>1, <3>3, <3>4
  <2>2. CASE j \notin 1..l
    <3>1. PICK q \in 1..m : j = l + q
      BY <1>6, <2>2
    <3>2. i \in Current(v) /\ v[j] = s[q]
      BY <1>5, <1>18, <3>1
    <3>3. s[q] \in Int /\ Ready(u, s[q]) /\ s[q] \in Range(s)
      BY <1>3
    <3>4. Ready(v, s[q])
      BY <1>16, <3>3
    <3>5. v[i] > s[q]
      <4>1. v[i] \in Int
        <5>1. CASE i \in Current(u)
          BY <1>12, <5>1
        <5>2. CASE \E p \in 1..m : i = l + p
          BY <1>3, <1>5, <5>2
        <5> QED BY <1>11, <3>2, <5>1, <5>2
      <4> QED BY <3>2, <3>3, <4>1
    <3>6. PICK k \in Current(v) : k < i /\ v[k] = s[q]
      BY <3>2, <3>4, <3>5 DEF Ready
    <3>7. k \in 1..(i - 1) /\ Same(v, k, i)
      <4>1. k \in 1..(l + m) /\ \A x \in k..(l + m) : v[x] # Mark
        BY <1>2 DEF Current, Same
      <4>2. \A x \in k..i : x \in k..(l + m)
        BY <4>1
      <4>3. Same(v, k, i)
        BY <4>1, <4>2 DEF Same
      <4>4. k \in 1..(i - 1)
        BY <3>6, <4>1
      <4> QED BY <4>3, <4>4
    <3> QED BY <3>2, <3>6, <3>7
  <2> QED BY <2>1, <2>2
<1>20. ASSUME Once(u), \A e \in Range(s) : ~Indicated(u, e) PROVE Once(v)
  <2> SUFFICES ASSUME NEW i \in 1..(l + m), NEW j \in 1..(l + m),
                      i < j, Same(v, i, j), v[i] = v[j]
               PROVE  FALSE
    BY <1>2 DEF Once
  <2>1. CASE j \in 1..l
    <3>1. i \in 1..l
      BY <2>1
    <3>2. Same(u, i, j) /\ u[i] = u[j]
      BY <1>4, <1>17, <2>1, <3>1
    <3> QED BY <1>1, <1>20, <2>1, <3>1, <3>2 DEF Once
  <2>2. CASE j \notin 1..l
    <3>1. PICK q \in 1..m : j = l + q
      BY <1>6, <2>2
    <3>2. i \in Current(v) /\ v[j] = s[q]
      BY <1>5, <1>18, <3>1
    <3>3. CASE i \in Current(u)
      <4>1. u[i] = s[q]
        BY <1>12, <3>2, <3>3
      <4> QED BY <1>3, <1>20, <3>3, <4>1 DEF Indicated
    <3>4. CASE i \notin Current(u)
      <4>1. PICK p \in 1..m : i = l + p
        BY <1>11, <3>2, <3>4
      <4>2. p < q /\ s[p] = s[q]
        BY <1>5, <3>1, <3>2, <4>1
      <4>3. s[p] < s[q] /\ s[p] \in Int /\ s[q] \in Int
        BY <1>3, <4>2
      <4> QED BY <4>2, <4>3
    <3> QED BY <3>3, <3>4
  <2> QED BY <2>1, <2>2
<1> QED BY <1>13, <1>14, <1>16, <1>19, <1>20 DEF Grown, v

\* After a mark the numbering starts anew.
LEMMA UpMarked ==
  ASSUME NEW u \in Seq(Frames \cup {Mark}), Ordered(u)
  PROVE  /\ Ordered(u \o <<Mark>>) /\ Current(u \o <<Mark>>) = {}
         /\ Once(u) => Once(u \o <<Mark>>)
<1> DEFINE v == u \o <<Mark>>
<1>1. PICK l \in Nat : l = Len(u)
  BY LenProperties
<1>2. Len(v) = l + 1 /\ v[l + 1] = Mark /\ \A i \in 1..l : v[i] = u[i]
  <2>1. <<Mark>> \in Seq(Frames \cup {Mark}) /\ Len(<<Mark>>) = 1 /\ <<Mark>>[1] = Mark
    OBVIOUS
  <2>2. Len(v) = l + 1 /\ \A i \in 1..(l + 1) : v[i] = IF i <= l THEN u[i] ELSE <<Mark>>[i - l]
    BY <1>1, <2>1, ConcatProperties
  <2> HIDE DEF v
  <2>3. v[l + 1] = <<Mark>>[(l + 1) - l] /\ (l + 1) - l = 1
    BY <2>2
  <2> QED BY <2>1, <2>2, <2>3
<1> HIDE DEF v
<1>3. \A i, j \in 1..l : Same(v, i, j) <=> Same(u, i, j)
  <2> TAKE i \in 1..l, j \in 1..l
  <2>1. \A k \in i..j : k \in 1..l
    OBVIOUS
  <2>2. \A k \in i..j : v[k] = u[k]
    BY <1>2, <2>1
  <2> QED BY <2>2 DEF Same
<1>4. \A i \in 1..(l + 1) : ~Same(v, i, l + 1)
  <2> TAKE i \in 1..(l + 1)
  <2>1. l + 1 \in i..(l + 1)
    OBVIOUS
  <2> QED BY <1>2, <2>1 DEF Same
<1>5. ASSUME NEW i \in 1..(l + 1), NEW j \in 1..(l + 1), i < j, Same(v, i, j)
      PROVE  i \in 1..l /\ j \in 1..l
  <2>1. j # l + 1
    BY <1>4, <1>5
  <2> QED BY <1>5, <2>1
<1>6. Ordered(v)
  <2> SUFFICES ASSUME NEW i \in 1..Len(v), NEW j \in 1..Len(v),
                      i < j, Same(v, i, j), v[j] < v[i]
               PROVE  \E k \in 1..(i - 1) : Same(v, k, i) /\ v[k] = v[j]
    BY Zenon DEF Ordered
  <2>1. i \in 1..l /\ j \in 1..l
    BY <1>2, <1>5
  <2>2. Same(u, i, j) /\ u[j] < u[i]
    BY <1>2, <1>3, <2>1
  <2>3. PICK k \in 1..(i - 1) : Same(u, k, i) /\ u[k] = u[j]
    BY <1>1, <2>1, <2>2 DEF Ordered
  <2>4. k \in 1..l
    BY <2>1
  <2> QED BY <1>2, <1>3, <2>1, <2>3, <2>4
<1>7. ASSUME Once(u) PROVE Once(v)
  <2> SUFFICES ASSUME NEW i \in 1..Len(v), NEW j \in 1..Len(v), i < j, Same(v, i, j)
               PROVE  v[i] # v[j]
    BY Zenon DEF Once
  <2>1. i \in 1..l /\ j \in 1..l
    BY <1>2, <1>5
  <2> QED BY <1>1, <1>2, <1>3, <1>7, <2>1 DEF Once
<1>8. Current(v) = {}
  BY <1>2, <1>4 DEF Current
<1> QED BY <1>6, <1>7, <1>8 DEF v

\* So it does with nothing indicated.
LEMMA UpEmpty == Ordered(<<>>) /\ Once(<<>>) /\ Current(<<>>) = {}
<1>1. 1..Len(<<>>) = {}
  BY EmptySeq
<1> QED BY <1>1 DEF Ordered, Once, Current

----------------------------------------------------------------------------
(* Every step of the tasklet keeps the order.                               *)

\* The number before a frame's, where a BlockAckReq sets LastIndSeq.
LEMMA Before ==
  ASSUME NEW b \in Frames
  PROVE  Sequence(b - 1) = IF Sequence(b) = 0 THEN SEQMOD - 1 ELSE Sequence(b) - 1
<1>1. b \in Int /\ -1 \in Int /\ b + (-1) = b - 1
  BY Numbers
<1>2. (Sequence(b) + (-1)) % SEQMOD = Sequence(b - 1)
  BY <1>1, SequenceShifted
<1>3. PICK d \in Int : d = Sequence(b) + (-1) /\ -SEQMOD <= d /\ d < SEQMOD /\ Sequence(b) = d + 1
  BY Numbers, BaReorderAssumption DEF Seqs
<1>4. Sequence(d) = IF d < 0 THEN d + SEQMOD ELSE d
  BY <1>3, SmallSequence
<1>5. Sequence(d) = Sequence(b - 1)
  BY <1>2, <1>3 DEF Sequence
<1> QED BY <1>3, <1>4, <1>5, Numbers, BaReorderAssumption DEF Seqs

\* While the tasklet works the agreement stands.
LEMMA TaskletApart ==
  ASSUME Apart, rx.pc # "idle", UNCHANGED <<session, BAWinSize, mlme, closed>>
  PROVE  Apart' /\ session' /\ session /\ BAWinSize = WIN /\ mlme = "idle"
BY DEF Apart

\* A number that LastIndSeq may have is one near the frames.
LEMMA Near ==
  ASSUME NEW l \in (FIRST - 1)..(LAST + 1)
  PROVE  l \in Int /\ Sequence(l) \in Seqs /\ Sequence(l) # RESET_RCV_SEQ
<1>1. l \in Int
  BY BaReorderAssumption
<1>2. Sequence(l) \in Seqs
  BY <1>1, Remainder DEF Sequence
<1> QED BY <1>1, <1>2, Numbers

\* The BlockAckReq sets LastIndSeq to the number before its own, as everything below went up.
LEMMA BarredKeepsOrder ==
  ASSUME IInv, Orderly, Barred
  PROVE  Orderly'
<1>1. /\ rx.pc = "barred" /\ rx' = Idle /\ list' = list /\ up' = up /\ shortcut' = shortcut \cup {"bar"}
      /\ UNCHANGED <<session, BAWinSize, mlme, closed>>
  BY DEF Barred, At, Done, heldVars, envVars
<1>2. Apart' /\ session /\ Sorted(list)' /\ Ordered(up)' /\ Held' = Held
  BY <1>1, TaskletApart DEF Orderly, Held
<1>3. PICK b \in Frames : /\ rx.seq = Sequence(b) /\ Above(Held, b) /\ UpTo(up, b)
                          /\ Walked => \A e \in Held : e <= b - 1 + WIN
  <2>1. CASE Fresh
    <3>1. PICK b \in Frames : rx.seq = Sequence(b)
      BY <1>1, <2>1 DEF Fresh
    <3>2. Held = {}
      BY <2>1, EmptySeq DEF Fresh, Held, Range
    <3>3. UpTo(up, b)
      BY <2>1 DEF Fresh, UpTo
    <3> QED BY <3>1, <3>2, <3>3 DEF Above
  <2>2. CASE \E l \in (FIRST - 1)..(LAST + 1) : Numbered(l)
    <3>1. PICK l \in (FIRST - 1)..(LAST + 1) : Numbered(l)
      BY <2>2
    <3>2. PICK b \in Frames : rx.seq = Sequence(b) /\ l < b /\ Above(Held, b) /\ UpTo(up, b)
      BY <1>1, <3>1 DEF Numbered, Decided
    <3>3. ASSUME Walked, NEW e \in Held PROVE e <= b - 1 + WIN
      <4>1. e <= l + WIN
        BY <3>1, <3>3 DEF Numbered
      <4>2. e \in Int /\ b \in Int /\ l \in Int /\ WIN \in Int
        <5>1. Held \subseteq Frames
          BY RangeEmpty DEF Held, IInv, TypeOK
        <5> QED BY <5>1, Numbers, BaReorderAssumption
      <4> QED BY <3>2, <4>1, <4>2
    <3> QED BY <3>2, <3>3
  <2> QED BY <1>2, <2>1, <2>2 DEF Orderly
<1>4. /\ b - 1 \in (FIRST - 1)..(LAST + 1) /\ b - 1 # LAST + 1 /\ (b - 1) + 1 = b
      /\ Held \subseteq Int
  <2>1. Held \subseteq Frames
    BY RangeEmpty DEF Held, IInv, TypeOK
  <2> QED BY <2>1, Numbers, BaReorderAssumption DEF Frames
<1>5. LastIndSeq' = Sequence(b - 1)
  BY <1>3, Before DEF Barred
<1>6. /\ Above(Held, b - 1)
      /\ b \notin Held
      /\ \A e \in Held : ~(e <= b - 1)
  <2>1. b \in Int
    BY Numbers
  <2> QED BY <1>3, <1>4, <2>1 DEF Above
<1>7. Decided(b - 1)'
  BY <1>1, <1>2, <1>3, <1>4, <1>6 DEF Decided, Idle, Top
<1>8. Numbered(b - 1)'
  BY <1>1, <1>2, <1>3, <1>4, <1>5, <1>6, <1>7 DEF Numbered, Walked
<1> QED BY <1>1, <1>2, <1>4, <1>8 DEF Orderly

\* Where neither the list nor the stream changes nor LastIndSeq, only what the tasklet has
\* decided does.
LEMMA SameNumber ==
  ASSUME NEW l, Numbered(l), UNCHANGED <<LastIndSeq, list, up, shortcut>>, Decided(l)'
  PROVE  Numbered(l)'
<1>1. Held' = Held
  BY DEF Held
<1> QED BY <1>1 DEF Numbered, Walked

\* The frames held, and the stream, have their types.
LEMMA HeldType ==
  ASSUME IInv
  PROVE  /\ Held \subseteq Frames /\ Held \subseteq Int /\ list \in Seq(Frames)
         /\ up \in Seq(Frames \cup {Mark})
<1>1. list \in Seq(Frames) /\ up \in Seq(Frames \cup {Mark})
  BY DEF IInv, TypeOK
<1>2. Held \subseteq Frames
  BY <1>1, RangeEmpty DEF Held
<1> QED BY <1>1, <1>2, Numbers

\* The current stream holds numbers.
LEMMA StreamType ==
  ASSUME NEW u \in Seq(Frames \cup {Mark})
  PROVE  \A i \in Current(u) : u[i] \in Int
<1>1. Frames \cup {Mark} \subseteq Int
  BY Numbers DEF Mark
<1>2. \A i \in Current(u) : i \in 1..Len(u)
  BY DEF Current
<1> QED BY <1>1, <1>2, ElementOfSeq

\* What bounds the current stream is bounded by more.
LEMMA UpToMore ==
  ASSUME NEW u \in Seq(Frames \cup {Mark}), NEW m \in Int, NEW n \in Int, m <= n, UpTo(u, m)
  PROVE  UpTo(u, n)
<1> SUFFICES ASSUME NEW i \in Current(u) PROVE u[i] <= n
  BY DEF UpTo
<1>1. u[i] \in Int /\ u[i] <= m
  BY StreamType DEF UpTo
<1> QED BY <1>1

\* A stream that goes no further than m does not go further than the top of m.
LEMMA UpToTop ==
  ASSUME IInv, NEW m \in Int, UpTo(up, m)
  PROVE  UpTo(up, Top(m))
<1>1. up \in Seq(Frames \cup {Mark})
  BY HeldType
<1>2. m + 1 \in Int /\ m <= m + 1
  OBVIOUS
<1>3. UpTo(up, m + 1)
  BY <1>1, <1>2, UpToMore
<1> QED BY <1>3 DEF Top

\* What NotLate and DropOld, and the arrival of a frame, leave as decided.
LEMMA RestingDecided ==
  ASSUME NEW l, Decided(l), rx.pc \in {"idle", "flush", "place"},
         rx'.pc \in {"idle", "flush", "reset"}, UNCHANGED <<list, up, shortcut>>
  PROVE  Decided(l)'
<1>1. Held' = Held
  BY DEF Held
<1> QED BY <1>1 DEF Decided, Walked, Top

\* A frame for which there is nothing late in the list, or an old one: only the place changes.
LEMMA RestingKeepsOrder ==
  ASSUME IInv, Orderly, NotLate \/ DropOld
  PROVE  Orderly'
<1>1. /\ rx.pc \in {"flush", "place"}
      /\ UNCHANGED <<session, LastIndSeq, BAWinSize, mlme, closed, list, up, shortcut>>
  BY DEF NotLate, DropOld, At, entryVars, heldVars, envVars, ghostVars
<1>2. rx'.pc \in {"idle", "reset"}
  BY DEF NotLate, DropOld, AfterFlush, Done, Idle, IInv, TypeOK
<1>3. Apart' /\ session
  BY <1>1, TaskletApart DEF Orderly
<1>4. CASE Fresh
  <2>1. Fresh'
    BY <1>1, <1>2, <1>4 DEF Fresh
  <2> QED BY <1>1, <1>3, <2>1 DEF Orderly
<1>5. CASE \E l \in (FIRST - 1)..(LAST + 1) : Numbered(l)
  <2>1. PICK l \in (FIRST - 1)..(LAST + 1) : Numbered(l)
    BY <1>5
  <2>2. Decided(l)'
    BY <1>1, <1>2, <2>1, RestingDecided DEF Numbered
  <2>3. Numbered(l)'
    BY <1>1, <2>1, <2>2, SameNumber
  <2> QED BY <1>1, <1>3, <2>3 DEF Orderly
<1> QED BY <1>3, <1>4, <1>5 DEF Orderly

\* Past the reset the numbering is known, and the last number indicated is that of a frame.
LEMMA Placing ==
  ASSUME IInv, Orderly, rx.pc \in {"place", "slide", "store", "direct", "walk", "advance", "flushed"}
  PROVE  /\ session /\ BAWinSize = WIN
         /\ \E l \in (FIRST - 1)..(LAST + 1) : Numbered(l) /\ LastIndSeq = Sequence(l)
<1>1. session /\ BAWinSize = WIN
  BY DEF Orderly, Apart
<1>2. ~Fresh
  BY DEF Fresh
<1> QED BY <1>1, <1>2 DEF Orderly, Numbered

\* What the guards compare: the frame in hand is the next one, behind, or ahead of LastIndSeq,
\* and within the window or beyond it.
LEMMA Compared ==
  ASSUME NEW l \in (FIRST - 1)..(LAST + 1), LastIndSeq = Sequence(l), BAWinSize = WIN,
         NEW n \in Frames
  PROVE  /\ SEQ_STEPONE(Sequence(n), LastIndSeq) <=> n = l + 1
         /\ IsOld(n) <=> n <= l
         /\ InWindow(n) <=> n < l + WIN + 1
         /\ WinStart(n) = Sequence(n - WIN)
<1>1. l \in Int /\ n \in Int /\ WIN \in Nat
  BY Near, Numbers, BaReorderAssumption
<1>2. /\ -SEQMOD < n - (l + 1) /\ n - (l + 1) < SEQMOD
      /\ -SEQMOD < n - l /\ n - l < SEQMOD
      /\ -SEQMOD <= 2 * (n - l) /\ 2 * (n - l) < SEQMOD
      /\ -SEQMOD <= 2 * (n - (l + (WIN + 1))) /\ 2 * (n - (l + (WIN + 1))) < SEQMOD
  BY BaReorderAssumption DEF Frames
<1>3. SEQ_STEPONE(Sequence(n), LastIndSeq) <=> n = l + 1
  <2>1. (Sequence(l) + 1) % SEQMOD = Sequence(l + 1)
    BY <1>1, SequenceShifted
  <2>2. l + 1 \in Int
    BY <1>1
  <2> QED BY <1>1, <1>2, <2>1, <2>2, SequenceEqual DEF SEQ_STEPONE
<1>4. IsOld(n) <=> n <= l
  <2>1. Sequence(n) = Sequence(l) <=> n = l
    BY <1>1, <1>2, SequenceEqual
  <2>2. SEQ_SMALLER(Sequence(n), Sequence(l)) <=> n < l
    BY <1>1, <1>2, SequenceSmaller
  <2> QED BY <1>1, <2>1, <2>2 DEF IsOld
<1>5. InWindow(n) <=> n < l + WIN + 1
  <2>1. LastIndSeq + BAWinSize + 1 = Sequence(l) + (WIN + 1)
    BY <1>1, Near DEF Seqs
  <2>2. (Sequence(l) + (WIN + 1)) % SEQMOD = Sequence(l + (WIN + 1))
    BY <1>1, SequenceShifted
  <2>3. l + (WIN + 1) \in Int /\ l + (WIN + 1) = l + WIN + 1
    BY <1>1
  <2>4. SEQ_SMALLER(Sequence(n), Sequence(l + (WIN + 1))) <=> n < l + (WIN + 1)
    BY <1>1, <1>2, <2>3, SequenceSmaller
  <2> QED BY <2>1, <2>2, <2>3, <2>4 DEF InWindow
<1>6. WinStart(n) = Sequence(n - WIN)
  <2>1. Sequence(n) - BAWinSize = Sequence(n) + (-WIN) /\ n + (-WIN) = n - WIN /\ -WIN \in Int
    BY <1>1, Numbers DEF Seqs
  <2>2. (Sequence(n) + (-WIN)) % SEQMOD = Sequence(n + (-WIN))
    BY <1>1, <2>1, SequenceShifted
  <2> QED BY <2>1, <2>2 DEF WinStart
<1> QED BY <1>3, <1>4, <1>5, <1>6

\* A frame of the window is ahead of the last one indicated.
LEMMA WithinKeepsOrder ==
  ASSUME IInv, Orderly, WithinWindow
  PROVE  Orderly'
<1>1. /\ rx.pc = "place" /\ rx' = [rx EXCEPT !.pc = "store"]
      /\ UNCHANGED <<session, LastIndSeq, BAWinSize, mlme, closed, list, up, shortcut>>
      /\ Ahead(rx.n) /\ InWindow(rx.n)
  BY DEF WithinWindow, At, Goto, entryVars, heldVars, envVars, ghostVars
<1>2. Apart' /\ session /\ BAWinSize = WIN
  BY <1>1, TaskletApart DEF Orderly
<1>3. PICK l \in (FIRST - 1)..(LAST + 1) : Numbered(l) /\ LastIndSeq = Sequence(l)
  BY <1>1, Placing
<1>4. rx.n \in Frames /\ rx'.pc = "store" /\ rx'.n = rx.n /\ rx'.walk = rx.walk
  BY <1>1 DEF IInv, InHand, TypeOK
<1>5. rx.n # l + 1 /\ ~(rx.n <= l) /\ rx.n < l + WIN + 1
  BY <1>1, <1>2, <1>3, <1>4, Compared DEF Ahead
<1>6. l < rx.n /\ rx.n <= l + WIN
  <2>1. rx.n \in Int
    BY <1>4, BaReorderAssumption DEF Frames
  <2>2. l \in Int /\ WIN \in Int
    BY BaReorderAssumption
  <2> QED BY <1>5, <2>1, <2>2
<1>7. UpTo(up, Top(l)) /\ (Walked => l + 1 \notin Held) /\ Held' = Held
  BY <1>1, <1>3 DEF Numbered, Decided, Held
<1>8. Decided(l)'
  BY <1>1, <1>4, <1>5, <1>6, <1>7 DEF Decided, Walked, Top
<1>9. Numbered(l)'
  BY <1>1, <1>3, <1>8, SameNumber
<1> QED BY <1>1, <1>2, <1>9 DEF Orderly

\* The window slides up to a frame beyond it, of which nothing below is held any more.
LEMMA SlideKeepsOrder ==
  ASSUME IInv, Orderly, Slide
  PROVE  Orderly'
<1>1. /\ rx.pc = "slide" /\ rx' = [rx EXCEPT !.pc = "store", !.walk = TRUE]
      /\ UNCHANGED <<session, BAWinSize, mlme, closed, list, up, shortcut>>
      /\ LastIndSeq' = rx.seq
  BY DEF Slide, At, heldVars, envVars, ghostVars
<1>2. Apart' /\ session
  BY <1>1, TaskletApart DEF Orderly
<1>3. PICK l \in (FIRST - 1)..(LAST + 1) : Numbered(l) /\ LastIndSeq = Sequence(l)
  BY <1>1, Placing
<1>4. rx.n \in Frames /\ rx'.pc = "store" /\ rx'.n = rx.n /\ rx'.walk = TRUE
  BY <1>1 DEF IInv, InHand, TypeOK
<1>5. PICK k : k = rx.n - WIN
  OBVIOUS
<1>6. rx.seq = Sequence(k) /\ l < k /\ Above(Held, k) /\ UpTo(up, k)
  BY <1>1, <1>3, <1>5 DEF Numbered, Decided
<1>7. /\ k \in (FIRST - 1)..(LAST + 1) /\ k # LAST + 1 /\ k \in Int /\ l \in Int /\ WIN \in Int
      /\ k < rx.n /\ rx.n <= k + WIN /\ Held \subseteq Int /\ Held' = Held
  <2>1. k \in Int /\ k <= LAST - 1 /\ l \in Int /\ FIRST - 1 <= l /\ k < rx.n /\ rx.n <= k + WIN
    BY <1>4, <1>5, BaReorderAssumption DEF Frames
  <2>2. LAST \in Int /\ FIRST \in Int /\ WIN \in Int
    BY BaReorderAssumption
  <2>3. l < k
    BY <1>6
  <2>4. k \in (FIRST - 1)..(LAST + 1) /\ k # LAST + 1
    BY <2>1, <2>2, <2>3
  <2>5. Held' = Held
    BY <1>1 DEF Held
  <2>6. Held \subseteq Int
    BY HeldType
  <2> QED BY <2>1, <2>2, <2>4, <2>5, <2>6
<1>8. /\ \A e \in Held : ~(e <= k)
      /\ Walked => \A e \in Held : e <= k + WIN
  <2>1. \A e \in Held : ~(e <= k)
    BY <1>6, <1>7 DEF Above
  <2>2. ASSUME Walked, NEW e \in Held PROVE e <= k + WIN
    <3>1. e <= l + WIN
      BY <1>3, <2>2 DEF Numbered
    <3> QED BY <1>6, <1>7, <3>1
  <2> QED BY <2>1, <2>2
<1>9. UpTo(up, Top(k))
  BY <1>6, <1>7, UpToTop
<1>10. Decided(k)'
  BY <1>1, <1>4, <1>7, <1>9 DEF Decided, Top
<1>11. Numbered(k)'
  BY <1>1, <1>6, <1>7, <1>8, <1>10 DEF Numbered, Walked
<1> QED BY <1>1, <1>2, <1>7, <1>11 DEF Orderly

\* LastIndSeq takes the number of the last frame of a run that went up.
LEMMA AdvanceKeepsOrder ==
  ASSUME IInv, Orderly, Advance
  PROVE  Orderly'
<1>1. /\ rx.pc = "advance" /\ rx'.pc \in {"idle", "reset"}
      /\ UNCHANGED <<session, BAWinSize, mlme, closed, list, up, shortcut>>
      /\ LastIndSeq' = Returned
  BY DEF Advance, At, Idle, heldVars, envVars, ghostVars, IInv, TypeOK
<1>2. Apart' /\ session /\ Held' = Held
  BY <1>1, TaskletApart DEF Orderly, Held
<1>3. PICK l \in (FIRST - 1)..(LAST + 1) : Numbered(l) /\ LastIndSeq = Sequence(l)
  BY <1>1, Placing
<1>4. CASE rx.seq = RESET_RCV_SEQ /\ UpTo(up, Top(l)) /\ (Walked => l + 1 \notin Held)
  <2>1. UNCHANGED LastIndSeq
    BY <1>1, <1>4 DEF Returned
  <2>2. Decided(l)'
    BY <1>1, <1>2, <1>4 DEF Decided, Top, Walked
  <2>3. Numbered(l)'
    BY <1>1, <1>3, <2>1, <2>2, SameNumber
  <2> QED BY <1>1, <1>2, <2>3 DEF Orderly
<1>5. CASE \E x \in Frames : /\ rx.seq = Sequence(x) /\ l < x /\ (Walked => x <= l + WIN)
                             /\ Above(Held, x) /\ (Walked => x + 1 \notin Held) /\ UpTo(up, x)
  <2>1. PICK x \in Frames : /\ rx.seq = Sequence(x) /\ l < x
                            /\ Above(Held, x) /\ (Walked => x + 1 \notin Held) /\ UpTo(up, x)
    BY <1>5
  <2>2. LastIndSeq' = Sequence(x)
    BY <1>1, <2>1, Numbers DEF Returned
  <2>3. /\ x \in (FIRST - 1)..(LAST + 1) /\ x # LAST + 1 /\ x \in Int /\ l \in Int /\ WIN \in Int
        /\ Held \subseteq Int
    BY HeldType, BaReorderAssumption DEF Frames
  <2>4. /\ \A e \in Held : ~(e <= x)
        /\ Walked => \A e \in Held : e <= x + WIN
    <3>1. \A e \in Held : ~(e <= x)
      BY <2>1, <2>3 DEF Above
    <3>2. ASSUME Walked, NEW e \in Held PROVE e <= x + WIN
      <4>1. e <= l + WIN
        BY <1>3, <3>2 DEF Numbered
      <4> QED BY <2>1, <2>3, <4>1
    <3> QED BY <3>1, <3>2
  <2>5. UpTo(up, Top(x))
    BY <2>1, <2>3, UpToTop
  <2>6. Decided(x)'
    BY <1>1, <1>2, <2>1, <2>5 DEF Decided, Top, Walked
  <2>7. Numbered(x)'
    BY <1>1, <1>2, <2>1, <2>2, <2>3, <2>4, <2>6 DEF Numbered, Walked
  <2> QED BY <1>1, <1>2, <2>3, <2>7 DEF Orderly
<1> QED BY <1>1, <1>3, <1>4, <1>5 DEF Numbered, Decided

\* A frame at the last number indicated or beyond it is ready, and beyond it is new.
LEMMA BeyondTop ==
  ASSUME NEW u \in Seq(Frames \cup {Mark}), NEW m \in Int, UpTo(u, m), NEW e \in Int, m <= e
  PROVE  Ready(u, e) /\ (m < e => ~Indicated(u, e))
<1>1. \A i \in Current(u) : u[i] <= e /\ u[i] \in Int
  <2>1. UpTo(u, e)
    BY UpToMore
  <2> QED BY <2>1, StreamType DEF UpTo
<1>2. m < e => \A i \in Current(u) : u[i] # e
  BY <1>1, StreamType DEF UpTo
<1> QED BY <1>1, <1>2 DEF Ready, Indicated

\* All that is held is ready to go up, and new unless LastIndSeq was set past it.
LEMMA HeldReady ==
  ASSUME IInv, NEW l \in (FIRST - 1)..(LAST + 1), Numbered(l), UpTo(up, Top(l)), NEW e \in Held
  PROVE  Ready(up, e) /\ (shortcut = {} => ~Indicated(up, e))
<1>1. l \in Int /\ e \in Int /\ up \in Seq(Frames \cup {Mark})
  BY HeldType, BaReorderAssumption
<1>2. Top(l) \in Int /\ Top(l) <= l + 1 /\ (shortcut = {} => Top(l) = l)
  BY <1>1 DEF Top
<1>3. CASE e <= l
  <2>1. Ready(up, e)
    BY <1>3 DEF Numbered
  <2>2. ASSUME Walked PROVE FALSE
    <3>1. e > l
      BY <2>2 DEF Numbered, Above
    <3> QED BY <1>1, <1>3, <3>1
  <2> QED BY <2>1, <2>2 DEF Walked
<1>4. CASE ~(e <= l)
  <2>1. Top(l) <= e /\ (shortcut = {} => Top(l) < e)
    BY <1>1, <1>2, <1>4
  <2> QED BY <1>1, <1>2, <2>1, BeyondTop
<1> QED BY <1>3, <1>4

\* The numbers up to c, beyond the last one indicated, are given up: what is held of them
\* goes up, and breaks no order.
LEMMA LeSeqKeepsOrder ==
  ASSUME IInv, Orderly, NEW l \in (FIRST - 1)..(LAST + 1), Numbered(l), UpTo(up, Top(l)),
         NEW c \in (FIRST - 1)..(LAST + 1), l < c,
         NEW k, k = LeSeqCount(Sequence(c)),
         list' = SubSeq(list, k + 1, Len(list)), up' = up \o SubSeq(list, 1, k),
         UNCHANGED shortcut
  PROVE  /\ Sorted(list)' /\ Held' = {e \in Held : e > c} /\ Above(Held', c)
         /\ UpTo(up', c)
         /\ Ordered(up') /\ (shortcut = {} => Once(up'))
<1> DEFINE h == SubSeq(list, 1, k)
<1>1. /\ Held \subseteq Int /\ list \in Seq(Frames) /\ Sorted(list)
      /\ up \in Seq(Frames \cup {Mark})
  BY HeldType DEF Orderly
<1>2. l \in Int /\ c \in Int /\ c \in (FIRST - WIN - 1)..(LAST + 1)
  BY BaReorderAssumption
<1>3. /\ k \in 0..Len(list)
      /\ Range(h) = {e \in Held : e <= c}
      /\ Held' = {e \in Held : e > c}
  BY <1>1, <1>2, LeSeq DEF Held
<1>4. h \in Seq(Frames) /\ Sorted(h) /\ Sorted(list')
  BY <1>1, <1>3, Cut
<1> HIDE DEF h
<1>5. Top(l) \in Int /\ Top(l) <= l + 1 /\ (shortcut = {} => Top(l) = l)
  BY <1>2 DEF Top
<1>6. ASSUME NEW e \in Range(h)
      PROVE  Ready(up, e) /\ (shortcut = {} => ~Indicated(up, e))
  <2>1. e \in Held
    BY <1>3
  <2> QED BY <2>1, HeldReady
<1>7. Grown(up, up', Range(h))
  <2>1. Ordered(up)
    BY DEF Orderly
  <2>2. \A e \in Range(h) : Ready(up, e)
    BY <1>6
  <2>3. up' = up \o h
    BY DEF h
  <2>4. Grown(up, up \o h, Range(h))
    BY <1>1, <1>4, <2>1, <2>2, UpGrows
  <2> QED BY <2>3, <2>4
<1>8. Ordered(up') /\ (shortcut = {} => Once(up'))
  BY <1>6, <1>7 DEF Grown, Orderly
<1>9. UpTo(up', c)
  <2>1. UpTo(up, c)
    <3>1. Top(l) <= c
      BY <1>2, <1>5
    <3> QED BY <1>1, <1>2, <1>5, <3>1, UpToMore
  <2>2. \A e \in Range(h) : e <= c
    BY <1>3
  <2> QED BY <1>2, <1>7, <2>1, <2>2 DEF Grown
<1> QED BY <1>3, <1>4, <1>8, <1>9 DEF Above

\* Where only frames up to a number below all that stays are taken from the list, the rest
\* is as far ahead of l as it was.
LEMMA NumberedShorter ==
  ASSUME IInv, NEW l \in (FIRST - 1)..(LAST + 1), Numbered(l), NEW c \in Int, l < c, c <= LAST + 1,
         Held' = {e \in Held : e > c}, list' \in Seq(Frames),
         UNCHANGED <<LastIndSeq, shortcut>>, Decided(l)'
  PROVE  Numbered(l)'
<1>1. Held \subseteq Int /\ l \in Int
  BY HeldType, BaReorderAssumption
<1>2. \A e \in Held' : e > l /\ ~(e <= l) /\ e \in Held
  BY <1>1
<1>3. l = LAST + 1 => list' = <<>>
  BY <1>1, BaReorderAssumption
<1>4. Walked' => Above(Held', l) /\ \A e \in Held' : e <= l + WIN
  BY <1>2 DEF Numbered, Walked, Above
<1>5. \A e \in Held' : e <= l => Indicated(up', e) /\ Ready(up', e)
  BY <1>2
<1>6. LastIndSeq' = Sequence(l)
  BY DEF Numbered
<1> QED BY <1>3, <1>4, <1>5, <1>6 DEF Numbered

\* After the timeout the first frame goes up, whatever is missing before it.
LEMMA FlushOneKeepsOrder ==
  ASSUME IInv, IInv', Orderly, FlushOne
  PROVE  Orderly'
<1>1. /\ rx.pc = "flush" /\ rx'.pc = "flushed" /\ rx'.seq = (LastIndSeq + 1) % SEQMOD
      /\ UNCHANGED <<session, LastIndSeq, BAWinSize, mlme, closed, shortcut>>
      /\ list # <<>>
  BY DEF FlushOne, At, entryVars, envVars, ghostVars, IInv, TypeOK
<1>2. Apart' /\ session
  BY <1>1, TaskletApart DEF Orderly
<1>3. PICK l \in (FIRST - 1)..(LAST + 1) : Numbered(l)
  BY <1>1, <1>2 DEF Orderly, Fresh
<1>4. /\ LastIndSeq = Sequence(l) /\ l \in Int /\ l # LAST + 1
      /\ l + 1 \in (FIRST - 1)..(LAST + 1) /\ l < l + 1 /\ l <= LAST /\ l + 1 \in Int /\ l + 1 <= LAST + 1
  BY <1>1, <1>3, BaReorderAssumption DEF Numbered
<1>5. (LastIndSeq + 1) % SEQMOD = Sequence(l + 1)
  BY <1>4, SequenceShifted
<1>6. PICK k : /\ k = LeSeqCount(Sequence(l + 1))
               /\ list' = SubSeq(list, k + 1, Len(list)) /\ up' = up \o SubSeq(list, 1, k)
  <2>1. up \o <<>> = up
    BY HeldType, ConcatEmptySeq
  <2> QED BY <1>5, <2>1 DEF FlushOne, ba_indicate_reordering_mpdus_le_seq, Indicate
<1>7. UpTo(up, Top(l))
  BY <1>1, <1>3 DEF Numbered, Decided
<1>8. /\ Sorted(list)' /\ Held' = {e \in Held : e > l + 1} /\ Above(Held', l + 1)
      /\ UpTo(up', l + 1) /\ Ordered(up') /\ (shortcut = {} => Once(up'))
  BY <1>1, <1>3, <1>4, <1>6, <1>7, LeSeqKeepsOrder
<1>9. Decided(l)'
  BY <1>1, <1>4, <1>5, <1>8 DEF Decided
<1>10. Numbered(l)'
  BY <1>1, <1>3, <1>4, <1>8, <1>9, NumberedShorter DEF IInv, TypeOK
<1> QED BY <1>1, <1>2, <1>8, <1>10 DEF Orderly

\* A frame beyond the window sends up what the window leaves.
LEMMA BeyondKeepsOrder ==
  ASSUME IInv, IInv', Orderly, BeyondWindow
  PROVE  Orderly'
<1>1. /\ rx.pc = "place" /\ rx'.pc = "slide" /\ rx'.seq = WinStart(rx.n) /\ rx'.n = rx.n
      /\ UNCHANGED <<session, LastIndSeq, BAWinSize, mlme, closed, shortcut>>
      /\ Ahead(rx.n) /\ ~InWindow(rx.n)
  BY DEF BeyondWindow, At, entryVars, envVars, ghostVars, IInv, TypeOK
<1>2. Apart' /\ session /\ BAWinSize = WIN
  BY <1>1, TaskletApart DEF Orderly
<1>3. PICK l \in (FIRST - 1)..(LAST + 1) : Numbered(l) /\ LastIndSeq = Sequence(l)
  BY <1>1, Placing
<1>4. rx.n \in Frames
  BY <1>1 DEF IInv, InHand
<1>5. PICK c : c = rx.n - WIN
  OBVIOUS
<1>6. WinStart(rx.n) = Sequence(c) /\ ~(rx.n < l + WIN + 1)
  BY <1>1, <1>2, <1>3, <1>4, <1>5, Compared
<1>7. c \in (FIRST - 1)..(LAST + 1) /\ l < c /\ c \in Int /\ c <= LAST + 1
  BY <1>4, <1>5, <1>6, BaReorderAssumption DEF Frames
<1>8. PICK k : /\ k = LeSeqCount(Sequence(c))
               /\ list' = SubSeq(list, k + 1, Len(list)) /\ up' = up \o SubSeq(list, 1, k)
  <2>1. up \o <<>> = up
    BY HeldType, ConcatEmptySeq
  <2> QED BY <1>6, <2>1 DEF BeyondWindow, ba_indicate_reordering_mpdus_le_seq, Indicate
<1>9. UpTo(up, Top(l))
  BY <1>1, <1>3 DEF Numbered, Decided
<1>10. /\ Sorted(list)' /\ Held' = {e \in Held : e > c} /\ Above(Held', c)
       /\ UpTo(up', c) /\ Ordered(up') /\ (shortcut = {} => Once(up'))
  BY <1>1, <1>3, <1>7, <1>8, <1>9, LeSeqKeepsOrder
<1>11. Decided(l)'
  BY <1>1, <1>5, <1>6, <1>7, <1>10 DEF Decided
<1>12. Numbered(l)'
  BY <1>1, <1>3, <1>7, <1>10, <1>11, NumberedShorter DEF IInv, TypeOK
<1> QED BY <1>1, <1>2, <1>10, <1>12 DEF Orderly

\* From a stream u in which c is the last number indicated, what follows c without a gap goes up.
LEMMA RunKeepsOrder ==
  ASSUME IInv, IInv', Sorted(list), NEW c \in (FIRST - 1)..(LAST + 1),
         NEW u \in Seq(Frames \cup {Mark}), Ordered(u), shortcut = {} => Once(u),
         UpTo(u, Top(c)), c = LAST + 1 => list = <<>>,
         Walked => Above(Held, c) /\ \A e \in Held : e <= c + WIN,
         \A e \in Held : e <= c => Indicated(u, e) /\ Ready(u, e),
         NEW k, k = InOrderCount(Sequence(c)),
         list' = SubSeq(list, k + 1, Len(list)), up' = u \o SubSeq(list, 1, k),
         LastIndSeq' = Sequence(c), rx'.pc = "advance", rx'.seq = LastOf(k), UNCHANGED shortcut
  PROVE  /\ Sorted(list)' /\ Ordered(up') /\ (shortcut = {} => Once(up'))
         /\ Numbered(c)'
<1> DEFINE h == SubSeq(list, 1, k)
<1>1. /\ Held \subseteq Int /\ Held \subseteq Frames /\ list \in Seq(Frames) /\ c \in Int
      /\ WIN \in Nat
  BY HeldType, BaReorderAssumption
<1>2. /\ k \in 0..Len(list) /\ k \in Nat
      /\ Range(h) = (c + 1)..(c + k)
      /\ LastOf(k) = IF k = 0 THEN RESET_RCV_SEQ ELSE Sequence(c + k)
      /\ Held' \subseteq Held
      /\ k > 0 => c + k \in Held /\ \A e \in Held' : e > c + k + 1
      /\ k = 0 => Held' = Held /\ (Above(Held, c) => c + 1 \notin Held)
  <2>1. k \in 0..Len(list)
    BY <1>1, InOrderRun
  <2> QED BY <1>1, <2>1, InOrderRun, SMTT(60) DEF Held
<1>3. h \in Seq(Frames) /\ Sorted(h) /\ Sorted(list')
  BY <1>1, <1>2, Cut
<1>4. up' = u \o h
  OBVIOUS
<1> HIDE DEF h
<1>5. Top(c) \in Int /\ Top(c) <= c + 1 /\ (shortcut = {} => Top(c) = c)
  BY <1>1 DEF Top
<1>6. ASSUME NEW e \in Range(h)
      PROVE  Ready(u, e) /\ (shortcut = {} => ~Indicated(u, e))
  <2>1. e \in Int /\ c + 1 <= e
    BY <1>1, <1>2
  <2>2. Top(c) <= e /\ (shortcut = {} => Top(c) < e)
    BY <1>1, <1>5, <2>1
  <2> QED BY <1>5, <2>1, <2>2, BeyondTop
<1>7. Grown(u, up', Range(h))
  <2>1. \A e \in Range(h) : Ready(u, e)
    BY <1>6
  <2>2. Grown(u, u \o h, Range(h))
    BY <1>3, <2>1, UpGrows
  <2> QED BY <1>4, <2>2
<1>8. Ordered(up') /\ (shortcut = {} => Once(up'))
  BY <1>6, <1>7 DEF Grown
<1>9. CASE k = 0
  <2>1. UpTo(up', Top(c))
    <3>1. \A e \in Range(h) : e <= Top(c)
      BY <1>1, <1>2, <1>9
    <3> QED BY <1>5, <1>7, <3>1 DEF Grown
  <2>2. Held' = Held /\ (Walked => c + 1 \notin Held) /\ rx'.seq = RESET_RCV_SEQ
    BY <1>2, <1>9
  <2>3. Decided(c)'
    BY <2>1, <2>2 DEF Decided, Top, Walked
  <2>4. c = LAST + 1 => list' = <<>>
    <3>1. c = LAST + 1 => Held = {}
      BY EmptySeq DEF Held, Range
    <3> QED BY <2>2, <3>1, RangeEmpty DEF Held, IInv, TypeOK
  <2>5. \A e \in Held : e <= c => Indicated(up', e) /\ Ready(up', e)
    BY <1>1, <1>7 DEF Grown
  <2> QED BY <1>3, <1>8, <2>2, <2>3, <2>4, <2>5 DEF Numbered, Walked
<1>10. CASE k > 0
  <2>1. PICK x \in Frames : x = c + k /\ x \in Held
    BY <1>1, <1>2, <1>10
  <2>2. /\ x \in Int /\ c < x /\ rx'.seq = Sequence(x) /\ (Walked => x <= c + WIN)
        /\ \A e \in Held' : e > x /\ e # x + 1 /\ e > c /\ ~(e <= c)
        /\ c # LAST + 1
    <3>1. x \in Int /\ c < x /\ rx'.seq = Sequence(x)
      BY <1>1, <1>2, <1>10, <2>1, SMTT(60)
    <3>2. Walked => x <= c + WIN
      BY <2>1
    <3>3. ASSUME NEW e \in Held' PROVE e > x /\ e # x + 1 /\ e > c /\ ~(e <= c)
      <4>1. e > x + 1 /\ e \in Int
        BY <1>1, <1>2, <1>10, <2>1
      <4> QED BY <1>1, <3>1, <4>1
    <3>4. c # LAST + 1
      <4>1. x <= LAST
        BY BaReorderAssumption DEF Frames
      <4> QED BY <1>1, <3>1, <4>1, BaReorderAssumption
    <3> QED BY <3>1, <3>2, <3>3, <3>4
  <2>3. UpTo(up', x)
    <3>1. UpTo(u, x)
      <4>1. Top(c) <= x
        BY <1>1, <1>5, <2>2
      <4> QED BY <1>5, <2>2, <4>1, UpToMore
    <3>2. \A e \in Range(h) : e <= x
      BY <1>1, <1>2, <2>1
    <3> QED BY <1>7, <2>2, <3>1, <3>2 DEF Grown
  <2>4. Above(Held', x) /\ x + 1 \notin Held' /\ Above(Held', c)
    BY <2>2 DEF Above
  <2>5. Decided(c)'
    BY <2>2, <2>3, <2>4 DEF Decided, Walked
  <2> QED BY <1>2, <1>3, <1>8, <2>2, <2>4, <2>5 DEF Numbered, Walked
<1> QED BY <1>2, <1>9, <1>10

\* What follows the frame that the timeout released goes up.
LEMMA FlushedKeepsOrder ==
  ASSUME IInv, IInv', Orderly, FlushedOne
  PROVE  Orderly'
<1>1. /\ rx.pc = "flushed" /\ rx'.pc = "advance" /\ LastIndSeq' = rx.seq
      /\ UNCHANGED <<session, BAWinSize, mlme, closed, shortcut>>
  BY DEF FlushedOne, ba_indicate_reordering_mpdus_in_order, At, envVars, ghostVars, IInv, TypeOK
<1>2. Apart' /\ session
  BY <1>1, TaskletApart DEF Orderly
<1>3. PICK l \in (FIRST - 1)..(LAST + 1) : Numbered(l)
  BY <1>1, Placing
<1>4. PICK c : c = l + 1
  OBVIOUS
<1>5. /\ rx.seq = Sequence(c) /\ Above(Held, c) /\ UpTo(up, c)
      /\ c \in (FIRST - 1)..(LAST + 1) /\ c \in Int /\ l \in Int /\ WIN \in Int /\ l < c
      /\ Held \subseteq Int /\ Held \subseteq Frames
  <2>1. rx.seq = Sequence(c) /\ l <= LAST /\ Above(Held, c) /\ UpTo(up, c)
    BY <1>1, <1>3, <1>4 DEF Numbered, Decided
  <2> QED BY <1>4, <2>1, HeldType, BaReorderAssumption
<1>6. PICK k : /\ k = InOrderCount(Sequence(c)) /\ rx'.seq = LastOf(k)
               /\ list' = SubSeq(list, k + 1, Len(list)) /\ up' = up \o SubSeq(list, 1, k)
  <2>1. up \o <<>> = up
    BY HeldType, ConcatEmptySeq
  <2> QED BY <1>5, <2>1
          DEF FlushedOne, ba_indicate_reordering_mpdus_in_order, Indicate, IInv, TypeOK
<1>7. UpTo(up, Top(c))
  <2>1. Top(c) \in Int /\ c <= Top(c)
    BY <1>5 DEF Top
  <2> QED BY <1>5, <2>1, HeldType, UpToMore
<1>8. c = LAST + 1 => list = <<>>
  <2>1. c = LAST + 1 => Held = {}
    <3>1. \A e \in Held : e <= LAST
      BY <1>5, BaReorderAssumption DEF Frames
    <3>2. LAST \in Int
      BY BaReorderAssumption
    <3> QED BY <1>5, <3>1, <3>2 DEF Above
  <2> QED BY <2>1, HeldType, RangeEmpty DEF Held
<1>9. \A e \in Held : ~(e <= c)
  BY <1>5 DEF Above
<1>10. Walked => \A e \in Held : e <= c + WIN
  <2>1. Walked => \A e \in Held : e <= l + WIN
    BY <1>3 DEF Numbered
  <2> QED BY <1>5, <2>1
<1>11. Sorted(list) /\ Ordered(up) /\ (shortcut = {} => Once(up)) /\ up \in Seq(Frames \cup {Mark})
  BY HeldType DEF Orderly
<1>12. LastIndSeq' = Sequence(c)
  BY <1>1, <1>5
<1>13. Sorted(list)' /\ Ordered(up') /\ (shortcut = {} => Once(up')) /\ Numbered(c)'
  BY <1>1, <1>5, <1>6, <1>7, <1>8, <1>9, <1>10, <1>11, <1>12, RunKeepsOrder
<1> QED BY <1>1, <1>2, <1>5, <1>13 DEF Orderly

\* After a frame was stored, what has become in order goes up.
LEMMA WalkKeepsOrder ==
  ASSUME IInv, IInv', Orderly, Walk
  PROVE  Orderly'
<1>1. /\ rx.pc = "walk" /\ rx'.pc = "advance"
      /\ UNCHANGED <<session, LastIndSeq, BAWinSize, mlme, closed, shortcut>>
  BY DEF Walk, ba_indicate_reordering_mpdus_in_order, At, entryVars, envVars, ghostVars, IInv,
         TypeOK
<1>2. Apart' /\ session
  BY <1>1, TaskletApart DEF Orderly
<1>3. PICK l \in (FIRST - 1)..(LAST + 1) : Numbered(l) /\ LastIndSeq = Sequence(l)
  BY <1>1, Placing
<1>4. PICK k : /\ k = InOrderCount(Sequence(l)) /\ rx'.seq = LastOf(k)
               /\ list' = SubSeq(list, k + 1, Len(list)) /\ up' = up \o SubSeq(list, 1, k)
  <2>1. up \o <<>> = up
    BY HeldType, ConcatEmptySeq
  <2> QED BY <1>3, <2>1 DEF Walk, ba_indicate_reordering_mpdus_in_order, Indicate, IInv, TypeOK
<1>5. UpTo(up, Top(l))
  BY <1>1, <1>3 DEF Numbered, Decided
<1>6. Sorted(list) /\ Ordered(up) /\ (shortcut = {} => Once(up)) /\ up \in Seq(Frames \cup {Mark})
  BY HeldType DEF Orderly
<1>7. /\ l = LAST + 1 => list = <<>>
      /\ Walked => Above(Held, l) /\ \A e \in Held : e <= l + WIN
      /\ \A e \in Held : e <= l => Indicated(up, e) /\ Ready(up, e)
  BY <1>3 DEF Numbered
<1>8. LastIndSeq' = Sequence(l)
  BY <1>1, <1>3
<1>9. Sorted(list)' /\ Ordered(up') /\ (shortcut = {} => Once(up')) /\ Numbered(l)'
  BY <1>1, <1>4, <1>5, <1>6, <1>7, <1>8, RunKeepsOrder
<1> QED BY <1>1, <1>2, <1>9 DEF Orderly

\* The next frame goes up, and the run behind it.
LEMMA InOrderKeepsOrder ==
  ASSUME IInv, IInv', Orderly, InOrder
  PROVE  Orderly'
<1>1. /\ rx.pc = "place" /\ rx'.pc = "advance" /\ LastIndSeq' = Sequence(rx.n)
      /\ UNCHANGED <<session, BAWinSize, mlme, closed, shortcut>>
      /\ SEQ_STEPONE(Sequence(rx.n), LastIndSeq)
  BY DEF InOrder, At, envVars, ghostVars, IInv, TypeOK
<1>2. Apart' /\ session /\ BAWinSize = WIN
  BY <1>1, TaskletApart DEF Orderly
<1>3. PICK l \in (FIRST - 1)..(LAST + 1) : Numbered(l) /\ LastIndSeq = Sequence(l)
  BY <1>1, Placing
<1>4. PICK n \in Frames : n = rx.n
  BY <1>1 DEF IInv, InHand
<1>5. n = l + 1
  BY <1>1, <1>2, <1>3, <1>4, Compared
<1>6. /\ n \in (FIRST - 1)..(LAST + 1) /\ n # LAST + 1 /\ n \in Int /\ l \in Int /\ l < n /\ WIN \in Int
      /\ Held \subseteq Int
  BY <1>5, HeldType, BaReorderAssumption DEF Frames
<1> DEFINE u == up \o <<n>>
<1>7. PICK k : /\ k = InOrderCount(Sequence(n)) /\ rx'.seq = LastOf(k)
               /\ list' = SubSeq(list, k + 1, Len(list)) /\ up' = u \o SubSeq(list, 1, k)
  BY <1>4 DEF InOrder, Indicate, IInv, TypeOK
<1>8. UpTo(up, Top(l)) /\ (Walked => l + 1 \notin Held)
  BY <1>1, <1>3 DEF Numbered, Decided
<1>9. Sorted(list) /\ Ordered(up) /\ (shortcut = {} => Once(up)) /\ up \in Seq(Frames \cup {Mark})
  BY HeldType DEF Orderly
<1>10. Top(l) \in Int /\ Top(l) <= n /\ (shortcut = {} => Top(l) < n)
  BY <1>5, <1>6 DEF Top
<1>11. Ready(up, n) /\ (shortcut = {} => ~Indicated(up, n)) /\ UpTo(up, n)
  BY <1>6, <1>8, <1>9, <1>10, BeyondTop, UpToMore
<1>12. <<n>> \in Seq(Frames) /\ Sorted(<<n>>) /\ Range(<<n>>) = {n}
  BY Single
<1>13. Grown(up, u, {n})
  <2>1. \A e \in Range(<<n>>) : Ready(up, e)
    BY <1>11, <1>12
  <2>2. Grown(up, up \o <<n>>, Range(<<n>>))
    BY <1>9, <1>12, <2>1, UpGrows
  <2> QED BY <1>12, <2>2
<1>14. u \in Seq(Frames \cup {Mark})
  <2>1. <<n>> \in Seq(Frames \cup {Mark})
    OBVIOUS
  <2> QED BY <1>9, <2>1, ConcatProperties
<1> HIDE DEF u
<1>15. Ordered(u) /\ (shortcut = {} => Once(u)) /\ UpTo(u, n)
  BY <1>6, <1>9, <1>11, <1>13 DEF Grown
<1>16. UpTo(u, Top(n))
  <2>1. Top(n) \in Int /\ n <= Top(n)
    BY <1>6 DEF Top
  <2> QED BY <1>6, <1>14, <1>15, <2>1, UpToMore
<1>17. ASSUME NEW e \in Held, e <= n PROVE Indicated(u, e) /\ Ready(u, e)
  <2>1. (e <= l \/ e = n) /\ e \in Int
    BY <1>5, <1>6, <1>17
  <2>2. e = n \/ (Indicated(up, e) /\ Ready(up, e))
    BY <1>3, <2>1 DEF Numbered
  <2> QED BY <1>11, <1>13, <2>1, <2>2 DEF Grown
<1>18. ASSUME Walked PROVE Above(Held, n) /\ \A e \in Held : e <= n + WIN
  <2>1. ASSUME NEW e \in Held PROVE e > n /\ e <= n + WIN
    <3>1. e > l /\ e <= l + WIN /\ e # n
      BY <1>3, <1>5, <1>8, <1>18 DEF Numbered, Above
    <3> QED BY <1>5, <1>6, <3>1
  <2> QED BY <2>1 DEF Above
<1>19. LastIndSeq' = Sequence(n)
  BY <1>1, <1>4
<1>20. Sorted(list)' /\ Ordered(up') /\ (shortcut = {} => Once(up')) /\ Numbered(n)'
  BY <1>1, <1>6, <1>7, <1>9, <1>14, <1>15, <1>16, <1>17, <1>18, <1>19, RunKeepsOrder
<1> QED BY <1>1, <1>2, <1>6, <1>20 DEF Orderly

\* A BlockAckReq sends up all below its start sequence.
LEMMA BarKeepsOrder ==
  ASSUME IInv, IInv', Orderly, CntlEnqueueForRecv, ~overlapped'
  PROVE  Orderly'
<1>1. /\ rx.pc = "idle" /\ session /\ mlme = "idle" /\ ~closed
      /\ UNCHANGED <<session, LastIndSeq, BAWinSize, mlme, closed, shortcut>>
  BY DEF CntlEnqueueForRecv, Arrives, Overlaps, At, entryVars
<1>2. Apart'
  BY <1>1 DEF Orderly, Apart
<1>3. PICK b \in Frames : b = base
  BY DEF IInv, TypeOK
<1>4. CASE ~SEQ_SMALLER(LastIndSeq, Sequence(b))
  <2>1. rx' = Idle /\ UNCHANGED <<list, up>>
    BY <1>3, <1>4 DEF CntlEnqueueForRecv, heldVars
  <2>2. CASE Fresh
    <3>1. Fresh'
      BY <1>1, <2>1, <2>2 DEF Fresh, Idle
    <3> QED BY <1>1, <1>2, <2>1, <3>1 DEF Orderly
  <2>3. CASE \E l \in (FIRST - 1)..(LAST + 1) : Numbered(l)
    <3>1. PICK l \in (FIRST - 1)..(LAST + 1) : Numbered(l)
      BY <2>3
    <3>2. Decided(l)'
      BY <1>1, <2>1, <3>1, RestingDecided DEF Numbered, Idle
    <3>3. Numbered(l)'
      BY <1>1, <2>1, <3>1, <3>2, SameNumber
    <3> QED BY <1>1, <1>2, <2>1, <3>3 DEF Orderly
  <2> QED BY <1>1, <2>2, <2>3 DEF Orderly
<1>5. CASE SEQ_SMALLER(LastIndSeq, Sequence(b))
  <2>1. PICK k : /\ k = LeSeqCount(Sequence(b))
                 /\ list' = SubSeq(list, k + 1, Len(list)) /\ up' = up \o SubSeq(list, 1, k)
    <3>1. up \o <<>> = up
      BY HeldType, ConcatEmptySeq
    <3> QED BY <1>3, <1>5, <3>1 DEF CntlEnqueueForRecv, ba_indicate_reordering_mpdus_le_seq, Indicate
  <2>2. rx'.pc = "barred" /\ rx'.seq = Sequence(b)
    BY <1>3, <1>5 DEF CntlEnqueueForRecv, Idle
  <2>3. CASE Fresh
    <3>1. list = <<>> /\ k \in 0..0
      BY <2>1, <2>3, EmptySeq, RunType DEF Fresh, LeSeqCount
    <3>2. list' = <<>> /\ up' = up
      <4>1. /\ SubSeq(<<>>, 1, 0) = <<>> /\ SubSeq(<<>>, 1, Len(<<>>)) = <<>>
        BY EmptySeq, SubSeqEmpty
      <4>2. up \o <<>> = up
        BY HeldType, ConcatEmptySeq
      <4>3. k = 0 /\ 0 + 1 = 1
        BY <3>1
      <4> QED BY <2>1, <3>1, <4>1, <4>2, <4>3
    <3>3. Fresh'
      BY <1>1, <2>2, <2>3, <3>2 DEF Fresh
    <3> QED BY <1>1, <1>2, <3>1, <3>2, <3>3 DEF Orderly
  <2>4. CASE \E l \in (FIRST - 1)..(LAST + 1) : Numbered(l)
    <3>1. PICK l \in (FIRST - 1)..(LAST + 1) : Numbered(l) /\ LastIndSeq = Sequence(l)
      BY <2>4 DEF Numbered
    <3>2. l \in Int /\ b \in Int /\ -SEQMOD <= 2 * (l - b) /\ 2 * (l - b) < SEQMOD
          /\ b \in (FIRST - 1)..(LAST + 1) /\ b <= LAST + 1
      BY BaReorderAssumption DEF Frames
    <3>3. l < b
      BY <1>5, <3>1, <3>2, SequenceSmaller
    <3>4. UpTo(up, Top(l))
      BY <1>1, <3>1 DEF Numbered, Decided
    <3>5. /\ Sorted(list)' /\ Held' = {e \in Held : e > b} /\ Above(Held', b)
          /\ UpTo(up', b) /\ Ordered(up') /\ (shortcut = {} => Once(up'))
      BY <1>1, <2>1, <3>1, <3>2, <3>3, <3>4, LeSeqKeepsOrder
    <3>6. Decided(l)'
      BY <2>2, <3>3, <3>5 DEF Decided
    <3>7. Numbered(l)'
      BY <1>1, <3>1, <3>2, <3>3, <3>5, <3>6, NumberedShorter DEF IInv, TypeOK
    <3> QED BY <1>1, <1>2, <3>5, <3>7 DEF Orderly
  <2> QED BY <1>1, <2>3, <2>4 DEF Orderly
<1> QED BY <1>4, <1>5

\* Without a block, or an EAPOL frame: everything held and then the frame go up.
LEMMA DoNotHoldKeepsOrder ==
  ASSUME IInv, IInv', Orderly, DoNotHold
  PROVE  Orderly'
<1>1. /\ rx.pc = "store" /\ rx'.pc = "direct" /\ rx'.n = rx.n
      /\ UNCHANGED <<session, LastIndSeq, BAWinSize, mlme, closed, shortcut>>
  BY DEF DoNotHold, At, Goto, entryVars, envVars, IInv, TypeOK
<1>2. Apart' /\ session
  BY <1>1, TaskletApart DEF Orderly
<1>3. PICK l \in (FIRST - 1)..(LAST + 1) : Numbered(l)
  BY <1>1, Placing
<1>4. PICK n \in Frames : n = rx.n
  BY <1>1 DEF IInv, InHand
<1>5. l < n /\ n <= l + WIN /\ UpTo(up, Top(l))
  BY <1>1, <1>3, <1>4 DEF Numbered, Decided
<1>6. n \in (FIRST - 1)..(LAST + 1) /\ n \in Int /\ n <= LAST + 1
  BY BaReorderAssumption DEF Frames
<1>7. PICK k : /\ k = LeSeqCount(Sequence(n))
               /\ list' = SubSeq(list, k + 1, Len(list)) /\ up' = up \o SubSeq(list, 1, k)
  BY <1>4 DEF DoNotHold
<1>8. /\ Sorted(list)' /\ Held' = {e \in Held : e > n} /\ Above(Held', n)
      /\ UpTo(up', n) /\ Ordered(up') /\ (shortcut = {} => Once(up'))
  BY <1>1, <1>3, <1>5, <1>6, <1>7, LeSeqKeepsOrder
<1>9. Decided(l)'
  BY <1>1, <1>4, <1>5, <1>8 DEF Decided
<1>10. Numbered(l)'
  BY <1>1, <1>3, <1>5, <1>6, <1>8, <1>9, NumberedShorter DEF IInv, TypeOK
<1> QED BY <1>1, <1>2, <1>8, <1>10 DEF Orderly

\* A frame by itself goes up.
LEMMA OneGrows ==
  ASSUME up \in Seq(Frames \cup {Mark}), Ordered(up), NEW n \in Frames, Ready(up, n)
  PROVE  Grown(up, Append(up, n), {n})
<1>1. <<n>> \in Seq(Frames) /\ Sorted(<<n>>) /\ Range(<<n>>) = {n}
  BY Single
<1>2. \A e \in Range(<<n>>) : Ready(up, e)
  BY <1>1
<1>3. Grown(up, up \o <<n>>, Range(<<n>>))
  BY <1>1, <1>2, UpGrows
<1>4. Append(up, n) = up \o <<n>>
  BY AppendIsConcat
<1> QED BY <1>1, <1>3, <1>4

\* A frame that was not held sets LastIndSeq to its own number.
LEMMA DirectKeepsOrder ==
  ASSUME IInv, Orderly, Direct
  PROVE  Orderly'
<1>1. /\ rx.pc = "direct" /\ rx'.pc \in {"idle", "walk"} /\ LastIndSeq' = Sequence(rx.n)
      /\ UNCHANGED <<session, BAWinSize, mlme, closed, list>>
      /\ shortcut' = shortcut \cup {"direct"} /\ up' = Append(up, rx.n)
  BY DEF Direct, At, AfterStore, Idle, heldVars, envVars, IInv, TypeOK
<1>2. Apart' /\ session /\ Sorted(list)' /\ Held' = Held
  BY <1>1, TaskletApart DEF Orderly, Held
<1>3. PICK l \in (FIRST - 1)..(LAST + 1) : Numbered(l)
  BY <1>1, Placing
<1>4. PICK n \in Frames : n = rx.n
  BY <1>1 DEF IInv, InHand
<1>5. l < n /\ Above(Held, n) /\ UpTo(up, n)
  BY <1>1, <1>3, <1>4 DEF Numbered, Decided
<1>6. /\ n \in (FIRST - 1)..(LAST + 1) /\ n # LAST + 1 /\ n \in Int /\ n <= n /\ Held \subseteq Int
      /\ up \in Seq(Frames \cup {Mark}) /\ up' \in Seq(Frames \cup {Mark})
  BY <1>1, <1>4, HeldType, AppendProperties, BaReorderAssumption, SMTT(60) DEF Frames
<1>7. Grown(up, up', {n})
  <2>1. Ready(up, n)
    BY <1>5, <1>6, BeyondTop
  <2> QED BY <1>1, <1>4, <1>6, <2>1, OneGrows DEF Orderly
<1>8. UpTo(up', n) /\ Ordered(up')
  BY <1>5, <1>6, <1>7 DEF Grown
<1>9. PICK t \in Int : t = IF "bar" \in shortcut' THEN n + 1 ELSE n
  BY <1>6
<1>10. UpTo(up', t)
  BY <1>6, <1>8, <1>9, UpToMore
<1>11. \A e \in Held : ~(e <= n)
  BY <1>5, <1>6 DEF Above
<1>12. Decided(n)'
  BY <1>1, <1>9, <1>10 DEF Decided, Top, Walked
<1>13. Numbered(n)'
  BY <1>1, <1>2, <1>4, <1>6, <1>11, <1>12 DEF Numbered, Walked
<1> QED BY <1>1, <1>2, <1>6, <1>8, <1>13 DEF Orderly

\* The first frame of a numbering goes up and sets LastIndSeq.
LEMMA FirstKeepsOrder ==
  ASSUME IInv, Orderly, FirstOfNumbering
  PROVE  Orderly'
<1>1. /\ rx.pc = "reset"
      /\ UNCHANGED <<session, BAWinSize, mlme, closed, list, shortcut>>
  BY DEF FirstOfNumbering, At, heldVars, envVars, ghostVars
<1>2. Apart' /\ session /\ Sorted(list)' /\ Held' = Held
  BY <1>1, TaskletApart DEF Orderly, Held
<1>3. CASE LastIndSeq = RESET_RCV_SEQ
  <2>1. Fresh
    BY <1>2, <1>3, Near DEF Orderly, Numbered
  <2>2. PICK n \in Frames : n = rx.n
    BY <1>1 DEF IInv, InHand
  <2>3. LastIndSeq' = Sequence(n) /\ up' = Append(up, n) /\ rx' = Idle
    BY <1>3, <2>2 DEF FirstOfNumbering, Done
  <2>4. /\ n \in (FIRST - 1)..(LAST + 1) /\ n # LAST + 1 /\ n \in Int
        /\ up \in Seq(Frames \cup {Mark}) /\ up' \in Seq(Frames \cup {Mark})
    BY <2>3, HeldType, AppendProperties, BaReorderAssumption DEF Frames
  <2>5. /\ UpTo(up, n) /\ Ready(up, n) /\ ~Indicated(up, n)
    BY <2>1 DEF Fresh, UpTo, Ready, Indicated
  <2>6. Grown(up, up', {n})
    BY <2>3, <2>4, <2>5, OneGrows DEF Orderly
  <2>7. UpTo(up', n) /\ Ordered(up') /\ (shortcut = {} => Once(up'))
    BY <2>4, <2>5, <2>6 DEF Grown, Orderly
  <2>8. Held = {} /\ list' = <<>>
    BY <1>1, <2>1, EmptySeq DEF Fresh, Held, Range
  <2>9. PICK t \in Int : t = IF "bar" \in shortcut' THEN n + 1 ELSE n
    BY <2>4
  <2>10. UpTo(up', t)
    BY <2>4, <2>7, <2>9, UpToMore
  <2>11. Decided(n)'
    BY <1>2, <2>3, <2>8, <2>9, <2>10 DEF Decided, Top, Walked, Idle
  <2>12. Numbered(n)'
    BY <1>2, <2>3, <2>4, <2>8, <2>11 DEF Numbered, Walked, Above
  <2> QED BY <1>1, <1>2, <2>4, <2>7, <2>12 DEF Orderly
<1>4. CASE LastIndSeq # RESET_RCV_SEQ
  <2>1. UNCHANGED <<LastIndSeq, up>> /\ rx'.pc = "place"
    BY <1>4 DEF FirstOfNumbering, Goto, IInv, TypeOK
  <2>2. PICK l \in (FIRST - 1)..(LAST + 1) : Numbered(l)
    BY <1>2, <1>4 DEF Orderly, Fresh
  <2>3. Decided(l)'
    BY <1>1, <1>2, <2>1, <2>2 DEF Numbered, Decided, Top, Walked
  <2>4. Numbered(l)'
    BY <1>1, <2>1, <2>2, <2>3, SameNumber
  <2> QED BY <1>1, <1>2, <2>1, <2>4 DEF Orderly
<1> QED BY <1>3, <1>4

\* A frame is placed in the list, or is there already.
LEMMA HoldKeepsOrder ==
  ASSUME IInv, IInv', Orderly, Hold
  PROVE  Orderly'
<1>1. /\ rx.pc = "store" /\ rx'.pc = (IF rx.walk THEN "walk" ELSE "idle")
      /\ UNCHANGED <<session, LastIndSeq, BAWinSize, mlme, closed, up, shortcut>>
      /\ ba_reordering_mpdu_insertsorted(rx.n)
  BY DEF Hold, At, AfterStore, Idle, entryVars, envVars, ghostVars, IInv, TypeOK
<1>2. Apart' /\ session
  BY <1>1, TaskletApart DEF Orderly
<1>3. PICK l \in (FIRST - 1)..(LAST + 1) : Numbered(l)
  BY <1>1, Placing
<1>4. PICK n \in Frames : n = rx.n
  BY <1>1 DEF IInv, InHand
<1>5. /\ l < n /\ n <= l + WIN /\ UpTo(up, Top(l)) /\ (~rx.walk => n # l + 1)
      /\ ~rx.walk => (Walked => l + 1 \notin Held)
  BY <1>1, <1>3, <1>4 DEF Numbered, Decided
<1>6. Sorted(list)' /\ Held' = Held \cup {n}
  BY <1>1, <1>4, HeldType, Placed DEF Orderly
<1>7. n \in Int /\ n <= LAST /\ l \in Int /\ l # LAST + 1
  BY <1>5, BaReorderAssumption DEF Frames
<1>8. ~rx.walk => (Walked => l + 1 \notin Held')
  BY <1>5, <1>6
<1>9. Decided(l)'
  BY <1>1, <1>5, <1>8 DEF Decided, Top, Walked
<1>10. Walked => Above(Held', l) /\ \A e \in Held' : e <= l + WIN
  <2>1. n > l
    BY <1>5, <1>7
  <2> QED BY <1>3, <1>5, <1>6, <2>1 DEF Numbered, Above
<1>11. \A e \in Held' : e <= l => Indicated(up, e) /\ Ready(up, e)
  <2>1. ~(n <= l)
    BY <1>5, <1>7
  <2> QED BY <1>3, <1>6, <2>1 DEF Numbered
<1>12. Numbered(l)'
  BY <1>1, <1>3, <1>7, <1>9, <1>10, <1>11 DEF Numbered, Walked
<1> QED BY <1>1, <1>2, <1>6, <1>12 DEF Orderly

----------------------------------------------------------------------------
(* The changes of the agreement, the arrivals, and all steps together.      *)

\* A refresh sends up all that is held, and the numbering starts anew.
LEMMA RefreshOrders ==
  ASSUME IInv, Orderly, session, rx.pc \in {"idle", "flush"}, ba_refresh_reordering_mpdus
  PROVE  /\ LastIndSeq' = RESET_RCV_SEQ /\ list' = <<>> /\ Current(up') = {}
         /\ Ordered(up') /\ (shortcut = {} => Once(up'))
<1>1. list \in Seq(Frames) /\ up \in Seq(Frames \cup {Mark})
  BY HeldType
<1>2. \A e \in Held : Ready(up, e) /\ (shortcut = {} => ~Indicated(up, e))
  <2>1. CASE Fresh
    <3>1. Held = {}
      BY <2>1, EmptySeq DEF Fresh, Held, Range
    <3> QED BY <3>1
  <2>2. CASE \E l \in (FIRST - 1)..(LAST + 1) : Numbered(l)
    <3>1. PICK l \in (FIRST - 1)..(LAST + 1) : Numbered(l)
      BY <2>2
    <3>2. UpTo(up, Top(l))
      BY <3>1 DEF Numbered, Decided
    <3> QED BY <3>1, <3>2, HeldReady
  <2> QED BY <2>1, <2>2 DEF Orderly
<1>3. Grown(up, up \o list, Held)
  <2>1. Sorted(list) /\ Ordered(up)
    BY DEF Orderly
  <2> QED BY <1>1, <1>2, <2>1, UpGrows DEF Held
<1>4. Ordered(up \o list) /\ (shortcut = {} => Once(up \o list))
  BY <1>2, <1>3 DEF Grown, Orderly
<1>5. up \o list \in Seq(Frames \cup {Mark})
  <2>1. list \in Seq(Frames \cup {Mark})
    BY <1>1, SeqMonotonic
  <2> QED BY <1>1, <2>1, ConcatProperties
<1>6. up' = (up \o list) \o <<Mark>>
  BY DEF ba_refresh_reordering_mpdus
<1> QED BY <1>4, <1>5, <1>6, UpMarked DEF ba_refresh_reordering_mpdus

\* The empty list is sorted.
LEMMA EmptySorted == Sorted(<<>>)
BY EmptySeq DEF Sorted

\* A refresh, of the timeout or of a thread.
LEMMA RefreshingKeepsOrder ==
  ASSUME IInv, Orderly, FlushAll \/ Refresh
  PROVE  Orderly'
<1>1. /\ session /\ rx.pc \in {"idle", "flush"} /\ ba_refresh_reordering_mpdus
      /\ UNCHANGED <<session, BAWinSize, closed, shortcut>>
  BY DEF FlushAll, Refresh, At, Orderly, Apart, envVars, ghostVars
<1>2. /\ LastIndSeq' = RESET_RCV_SEQ /\ list' = <<>> /\ Current(up') = {}
      /\ Ordered(up') /\ (shortcut = {} => Once(up'))
  BY <1>1, RefreshOrders
<1>3. CASE FlushAll
  <2>1. rx.pc = "flush" /\ mlme' = mlme
    BY <1>3 DEF FlushAll, At
  <2>2. rx'.pc \in {"idle", "reset"}
    BY <1>3 DEF FlushAll, AfterFlush, Idle, IInv, TypeOK
  <2>3. Apart'
    BY <1>1, <2>1, TaskletApart DEF Orderly
  <2>4. Fresh'
    BY <1>2, <2>2 DEF Fresh
  <2> QED BY <1>1, <1>2, <2>3, <2>4, EmptySorted DEF Orderly
<1>4. CASE Refresh
  <2>1. rx.pc = "idle" /\ rx' = rx /\ mlme' \in {"fill", "free"} /\ ~closed
    BY <1>4 DEF Refresh, Orderly, Apart
  <2>2. Apart'
    BY <1>1, <1>2, <2>1 DEF Orderly, Apart
  <2>3. Fresh'
    BY <1>2, <2>1 DEF Fresh
  <2> QED BY <1>1, <1>2, <2>2, <2>3, EmptySorted DEF Orderly
<1> QED BY <1>3, <1>4

\* A frame arrives while nothing else is under way.
LEMMA ArrivalKeepsOrder ==
  ASSUME IInv, Orderly, Indicate_AMPDU_Packet \/ Indicate_Legacy_Packet, ~overlapped'
  PROVE  Orderly'
<1>1. /\ rx.pc = "idle" /\ mlme = "idle" /\ ~closed
      /\ UNCHANGED <<session, LastIndSeq, BAWinSize, mlme, closed, list, up, shortcut>>
  BY DEF Indicate_AMPDU_Packet, Indicate_Legacy_Packet, Arrives, Overlaps, At, entryVars, heldVars
<1>2. rx'.pc \in {"idle", "flush"} /\ (~session => rx'.pc = "idle")
  <2>1. CASE Indicate_AMPDU_Packet
    <3>1. PICK n : rx' = IF session THEN [Idle EXCEPT !.pc = "flush", !.n = n] ELSE Idle
      BY <2>1 DEF Indicate_AMPDU_Packet
    <3> QED BY <3>1 DEF Idle
  <2>2. CASE Indicate_Legacy_Packet
    BY <2>2 DEF Indicate_Legacy_Packet, Idle
  <2> QED BY <2>1, <2>2
<1>3. Apart'
  BY <1>1, <1>2 DEF Orderly, Apart
<1>4. session => Fresh' \/ \E l \in (FIRST - 1)..(LAST + 1) : Numbered(l)'
  <2>1. CASE Fresh
    BY <1>1, <1>2, <2>1 DEF Fresh
  <2>2. ASSUME NEW l \in (FIRST - 1)..(LAST + 1), Numbered(l)
        PROVE  Numbered(l)'
    <3>1. Decided(l)'
      BY <1>1, <1>2, <2>2, RestingDecided DEF Numbered
    <3> QED BY <1>1, <2>2, <3>1, SameNumber
  <2> QED BY <2>1, <2>2 DEF Orderly
<1> QED BY <1>1, <1>3, <1>4 DEF Orderly

\* The threads, and the peer.
LEMMA BesideKeepsOrder ==
  ASSUME IInv, Orderly, ~overlapped',
         \/ PeerMovesOn \/ BARecSessionAdd \/ BARecSessionTearDown
         \/ Fill \/ Free \/ ba_reordering_resource_release
  PROVE  Orderly'
<1>1. UNCHANGED <<rx, up, shortcut>>
  BY DEF PeerMovesOn, BARecSessionAdd, BARecSessionTearDown, Fill, Free,
         ba_reordering_resource_release, entryVars, heldVars, envVars, ghostVars
<1>2. Ordered(up)' /\ (shortcut = {} => Once(up))'
  BY <1>1 DEF Orderly
<1>3. CASE PeerMovesOn \/ BARecSessionAdd \/ BARecSessionTearDown
  <2>1. UNCHANGED <<session, LastIndSeq, BAWinSize, list, closed>>
    BY <1>3 DEF PeerMovesOn, BARecSessionAdd, BARecSessionTearDown, entryVars, heldVars
  <2>2. Apart'
    <3>1. CASE PeerMovesOn
      BY <1>1, <2>1, <3>1 DEF PeerMovesOn, Orderly, Apart
    <3>2. CASE BARecSessionAdd \/ BARecSessionTearDown
      <4>1. rx.pc = "idle" /\ ~closed
        BY <3>2 DEF BARecSessionAdd, BARecSessionTearDown, Change, At
      <4>2. (mlme' \in {"renew", "end"} /\ session) \/ (mlme' = "fill" /\ ~session)
        BY <3>2 DEF BARecSessionAdd, BARecSessionTearDown, Change
      <4> QED BY <1>1, <2>1, <4>1, <4>2 DEF Orderly, Apart
    <3> QED BY <1>3, <3>1, <3>2
  <2>3. Fresh => Fresh'
    BY <1>1, <2>1 DEF Fresh
  <2>4. ASSUME NEW l, Numbered(l) PROVE Numbered(l)'
    <3>1. Decided(l)'
      BY <1>1, <2>1, <2>4 DEF Numbered, Decided, Held, Top, Walked
    <3> QED BY <1>1, <2>1, <2>4, <3>1, SameNumber
  <2> QED BY <1>2, <2>1, <2>2, <2>3, <2>4 DEF Orderly
<1>4. CASE Fill \/ Free
  <2>1. rx.pc = "idle" /\ list = <<>> /\ Current(up) = {} /\ mlme' = "idle" /\ UNCHANGED <<list, closed>>
    BY <1>4 DEF Fill, Free, Orderly, Apart, heldVars, envVars
  <2>2. LastIndSeq' = RESET_RCV_SEQ /\ (session' => BAWinSize' = WIN)
    BY <1>4 DEF Fill, Free
  <2>3. Apart' /\ Fresh'
    BY <1>1, <2>1, <2>2 DEF Apart, Fresh
  <2> QED BY <1>2, <2>1, <2>3, EmptySorted DEF Orderly
<1>5. CASE ba_reordering_resource_release
  <2>1. /\ rx.pc = "idle" /\ mlme = "idle" /\ UNCHANGED <<session, LastIndSeq, BAWinSize, mlme>>
    BY <1>5 DEF ba_reordering_resource_release, At, entryVars
  <2>2. list' = <<>>
    BY <1>5 DEF ba_reordering_resource_release, heldVars, Orderly, Apart
  <2>3. Held' = {}
    BY <2>2, EmptySeq DEF Held, Range
  <2>4. Apart'
    BY <1>1, <2>1, <2>2 DEF Orderly, Apart
  <2>5. Fresh => Fresh'
    BY <1>1, <2>1, <2>2 DEF Fresh
  <2>6. ASSUME NEW l, Numbered(l) PROVE Numbered(l)'
    <3>1. Decided(l)'
      BY <1>1, <2>1, <2>3, <2>6 DEF Numbered, Decided, Top, Walked
    <3> QED BY <1>1, <2>1, <2>2, <2>3, <2>6, <3>1 DEF Numbered, Walked, Above
  <2> QED BY <1>2, <2>1, <2>2, <2>4, <2>5, <2>6, EmptySorted DEF Orderly
<1> QED BY <1>3, <1>4, <1>5

\* As long as the agreement does not change under a frame in hand, every step keeps the order.
LEMMA OrderKept == OInv /\ [Next]_vars => OInv'
<1> SUFFICES ASSUME OInv, [Next]_vars, ~overlapped' PROVE Orderly'
  BY StepKeeps DEF OInv
<1>1. IInv /\ IInv'
  BY StepKeeps DEF OInv
<1>2. ~overlapped
  <2>1. overlapped => overlapped'
    <3>1. CASE UNCHANGED overlapped
      BY <3>1
    <3>2. CASE overlapped' = (overlapped \/ mlme # "idle") \/ overlapped' = (overlapped \/ ~At("idle"))
      BY <3>2
    <3>3. UNCHANGED overlapped \/ Overlaps \/ \E m : Change(m)
      BY DEF Next, vars, ghostVars, Tasklet, Thread, PeerMovesOn, Indicate_AMPDU_Packet,
             Indicate_Legacy_Packet, CntlEnqueueForRecv, Barred, FlushAll, FlushOne, FlushedOne,
             NotLate, Advance, FirstOfNumbering, InOrder, DropOld, WithinWindow, BeyondWindow,
             Slide, Hold, DoNotHold, Direct, Walk, BARecSessionAdd, BARecSessionTearDown, Refresh,
             Fill, Free, ba_reordering_resource_release
    <3> QED BY <3>1, <3>2, <3>3 DEF Overlaps, Change
  <2> QED BY <2>1
<1>3. Orderly
  BY <1>2 DEF OInv
<1>4. CASE Indicate_AMPDU_Packet \/ Indicate_Legacy_Packet
  BY <1>1, <1>3, <1>4, ArrivalKeepsOrder
<1>5. CASE CntlEnqueueForRecv
  BY <1>1, <1>3, <1>5, BarKeepsOrder
<1>6. CASE Tasklet
  <2>1. CASE Barred
    BY <1>1, <1>3, <2>1, BarredKeepsOrder
  <2>2. CASE NotLate \/ DropOld
    BY <1>1, <1>3, <2>2, RestingKeepsOrder
  <2>3. CASE FlushAll
    BY <1>1, <1>3, <2>3, RefreshingKeepsOrder
  <2>4. CASE FlushOne
    BY <1>1, <1>3, <2>4, FlushOneKeepsOrder
  <2>5. CASE FlushedOne
    BY <1>1, <1>3, <2>5, FlushedKeepsOrder
  <2>6. CASE Advance
    BY <1>1, <1>3, <2>6, AdvanceKeepsOrder
  <2>7. CASE FirstOfNumbering
    BY <1>1, <1>3, <2>7, FirstKeepsOrder
  <2>8. CASE InOrder
    BY <1>1, <1>3, <2>8, InOrderKeepsOrder
  <2>9. CASE WithinWindow
    BY <1>1, <1>3, <2>9, WithinKeepsOrder
  <2>10. CASE BeyondWindow
    BY <1>1, <1>3, <2>10, BeyondKeepsOrder
  <2>11. CASE Slide
    BY <1>1, <1>3, <2>11, SlideKeepsOrder
  <2>12. CASE Hold
    BY <1>1, <1>3, <2>12, HoldKeepsOrder
  <2>13. CASE DoNotHold
    BY <1>1, <1>3, <2>13, DoNotHoldKeepsOrder
  <2>14. CASE Direct
    BY <1>1, <1>3, <2>14, DirectKeepsOrder
  <2>15. CASE Walk
    BY <1>1, <1>3, <2>15, WalkKeepsOrder
  <2> QED BY <1>6, <2>1, <2>2, <2>3, <2>4, <2>5, <2>6, <2>7, <2>8, <2>9, <2>10, <2>11, <2>12,
             <2>13, <2>14, <2>15 DEF Tasklet
<1>7. CASE Refresh
  BY <1>1, <1>3, <1>7, RefreshingKeepsOrder
<1>8. CASE \/ PeerMovesOn \/ BARecSessionAdd \/ BARecSessionTearDown
           \/ Fill \/ Free \/ ba_reordering_resource_release
  BY <1>1, <1>3, <1>8, BesideKeepsOrder
<1>9. CASE UNCHANGED vars
  <2>1. UNCHANGED <<session, LastIndSeq, BAWinSize, list, rx, mlme, closed, up, shortcut>>
    BY <1>9 DEF vars, entryVars, heldVars, envVars, ghostVars
  <2> QED BY <1>3, <2>1 DEF Orderly, Apart, Fresh, Numbered, Decided, Held, Top, Walked
<1> QED BY <1>4, <1>5, <1>6, <1>7, <1>8, <1>9 DEF Next, Thread

\* Initially nothing is held and nothing was indicated.
LEMMA InitOrderly == Init => OInv
<1> SUFFICES ASSUME Init PROVE Orderly
  BY InitOK DEF OInv
<1>1. Apart
  BY UpEmpty DEF Init, Idle, Apart
<1> QED BY <1>1, UpEmpty, EmptySorted DEF Init, Orderly

\* While the agreement does not change under a frame in hand, the held frames are sorted, beyond
\* the last frame indicated and within the window: the assertion qlen <= BAWinSize in
\* ba_reordering_mpdu_insertsorted, and what its comment says.
THEOREM HeldStaysInWindow == Spec => []HeldInWindow
<1>1. OInv => HeldInWindow
  <2> SUFFICES ASSUME IInv, Orderly PROVE HeldInWindow
    BY DEF OInv, HeldInWindow
  <2>1. \A i, j \in 1..Len(list) : i < j => list[i] < list[j]
    BY DEF Orderly, Sorted
  <2>2. ASSUME NEW i \in 1..Len(list)
        PROVE  /\ LastIndSeq # RESET_RCV_SEQ
               /\ "direct" \notin shortcut => (Sequence(list[i]) - LastIndSeq) % SEQMOD \in 1..WIN
    <3>1. list # <<>>
      BY <2>2, EmptySeq
    <3>2. session
      BY <3>1 DEF Orderly, Apart
    <3>3. PICK l \in (FIRST - 1)..(LAST + 1) : Numbered(l)
      BY <3>1, <3>2 DEF Orderly, Fresh
    <3>4. LastIndSeq = Sequence(l) /\ LastIndSeq # RESET_RCV_SEQ
      BY <3>3, Near DEF Numbered
    <3>5. ASSUME Walked PROVE (Sequence(list[i]) - LastIndSeq) % SEQMOD \in 1..WIN
      <4>1. PICK e \in Held : e = list[i]
        BY <2>2, LenProperties DEF Held, Range, IInv, TypeOK
      <4>2. e > l /\ e <= l + WIN
        BY <3>3, <3>5 DEF Numbered, Above
      <4>3. e \in Int /\ l \in Int /\ WIN \in Nat /\ SEQMOD \in Nat
        BY HeldType, BaReorderAssumption
      <4>4. PICK d \in Int : d = e - l /\ d \in 1..WIN /\ -SEQMOD <= d /\ d < SEQMOD
        BY <4>2, <4>3, BaReorderAssumption
      <4>5. Sequence(d) = d
        BY <4>4, SmallSequence
      <4>6. (Sequence(e) - Sequence(l)) % SEQMOD = Sequence(d)
        BY <4>3, <4>4, SequenceBetween
      <4> QED BY <3>4, <4>1, <4>4, <4>5, <4>6
    <3> QED BY <3>4, <3>5 DEF Walked
  <2> QED BY <2>1, <2>2 DEF HeldInWindow
<1> QED BY <1>1, InitOrderly, OrderKept, PTL DEF Spec

\* The purpose of the buffer: a frame not indicated before goes up after all frames older than
\* itself, whatever was lost, repeated, flushed on a time-out or not held for want of a block.
THEOREM OrderIsKept == Spec => []FirstCopiesInOrder
<1>1. OInv => FirstCopiesInOrder
  <2> SUFFICES ASSUME Orderly PROVE FirstCopiesInOrder
    BY DEF OInv, FirstCopiesInOrder
  <2>1. \A i, j : SameNumbering(i, j) <=> Same(up, i, j)
    BY DEF SameNumbering, Same
  <2> QED BY <2>1 DEF Orderly, Ordered, FirstCopiesInOrder
<1> QED BY <1>1, InitOrderly, OrderKept, PTL DEF Spec

\* A duplicate is dropped (ba_action.c, Indicate_AMPDU_Packet): no frame is indicated twice in one
\* numbering until a BlockAckReq or a frame that was not held sets LastIndSeq.
THEOREM DuplicatesAreDropped == Spec => []NoneTwice
<1>1. OInv => NoneTwice
  <2> SUFFICES ASSUME Orderly PROVE NoneTwice
    BY DEF OInv, NoneTwice
  <2>1. \A i, j : SameNumbering(i, j) <=> Same(up, i, j)
    BY DEF SameNumbering, Same
  <2> QED BY <2>1 DEF Orderly, Once, NoneTwice
<1> QED BY <1>1, InitOrderly, OrderKept, PTL DEF Spec

\* No held frame is left behind when the device closes: an agreement that ended before left none.
THEOREM ClosedReleasesAll == Spec => []AllReleased
<1>1. OInv => AllReleased
  BY DEF OInv, Orderly, Apart, AllReleased
<1> QED BY <1>1, InitOrderly, OrderKept, PTL DEF Spec
=============================================================================

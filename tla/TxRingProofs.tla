---------------------------- MODULE TxRingProofs ----------------------------
(***************************************************************************)
(* The transmit ring of a bulk-out pipe implements the queue of TxFifo, and *)
(* neither what waits in it nor what a transfer carries is ever disturbed.  *)
(* The proof says where every committed frame lies: the frames of a lap lie *)
(* one behind another, the newest transfer lies before them, the writer at  *)
(* work behind them, and a writer that has turned stays behind the transfer *)
(* (Lies, Carries, Writes).  Only one writer of a batch is assumed at a     *)
(* time, as Fits says: the run MCTxRingBatch shows what several would do.   *)
(***************************************************************************)
EXTENDS TxRing, SequenceTheorems, FiniteSetTheorems, TLAPS

\* What the proofs need of the kinds of writes that meet, and of the slack: only writers of
\* single packets run at the same time, and then the slack takes any write, its pads and the
\* header of a second fragment.
Fits == Concurrent = {} \/ (Concurrent = {"Single"} /\ \A n \in Lens : n + 4 <= LocalTxBuf)

End(f) == f.pos + f.len
LastPlace == Limit - HeadRoom  \* a write that ends beyond it turns

\* The frames i to j of s lie one behind another from p to q.
Run(s, i, j, p, q) ==
  /\ IF i > j THEN p = q ELSE s[i].pos = p /\ End(s[j]) = q
  /\ \A k \in i..j : p <= s[k].pos /\ 2 <= s[k].len /\ End(s[k]) <= q
  /\ \A k, l \in i..j : k < l => End(s[k]) <= s[l].pos
  /\ \A k \in i..j : k < j => End(s[k]) = s[k + 1].pos

\* TxContextQueueLock is held by the bulk-out routine, which has visited the first frames.
Locked == bulk.pc \in {"walk", "seal"}
Start == IF Locked THEN NextBulkOutPosition ELSE ENextBulkOutPosition
Visited == IF Locked THEN Len(bulk.frames) ELSE 0
Behind == CurWritePosition < NextBulkOutPosition

\* The committed frames, where frame t is the last of its lap (0: none is).  Either they
\* lie ahead of the newest transfer; or that transfer ended its lap, and they lie behind it; or
\* the first t lie ahead of it and the others on the next lap.
Lies(t) ==
  \/ /\ t = 0 /\ Run(fifo, 1, Len(fifo), Start, CurWritePosition)
     /\ NextBulkOutPosition <= Start
  \/ /\ t = 0 /\ Run(fifo, 1, Len(fifo), Start, CurWritePosition)
     /\ Behind /\ Pad <= Start /\ ~Locked /\ ~bCopySavePad
  \/ /\ t \in 1..Len(fifo) /\ Run(fifo, 1, t, Start, End(fifo[t]))
     /\ Run(fifo, t + 1, Len(fifo), Pad, CurWritePosition)
     /\ NextBulkOutPosition <= Start
     /\ \/ Behind
        \/ /\ CurWritePosition = Pad /\ NextBulkOutPosition <= Pad
           /\ ~bCurWriting /\ ~Locked

Bounded ==
  /\ CurWritePosition <= LastPlace + IF bCurWriting THEN 1 ELSE 0
  /\ bCurWriting => Pad <= CurWritePosition
  /\ NextBulkOutPosition <= LastPlace + 3 /\ ENextBulkOutPosition <= LastPlace + 3
  /\ \A i \in 1..Len(fifo) :
       Pad <= fifo[i].pos /\ fifo[i].pos <= LastPlace + 3 /\ End(fifo[i]) <= Limit + 1

Bodies == \A i \in 1..Len(fifo) : BodyIntact(fifo[i])

Headers(t) ==
  \A i \in 1..Len(fifo) :
    LET f == fifo[i]
        h == HeaderAt(f.pos)
    IN
    /\ i > Visited => h = Header(f.id, f.len, i = t)
    /\ i <= Visited =>
         /\ h = [Header(f.id, f.len, FALSE) EXCEPT !.nv = h.nv]
         /\ i < Visited \/ (bulk.pc = "walk" /\ End(f) # CurWritePosition) => h.nv

Walks(t) ==
  Locked =>
    LET m == Len(bulk.frames) IN
    /\ ~bCopySavePad /\ fifo # <<>> /\ m <= Len(fifo)
    /\ bulk.frames = SubSeq(fifo, 1, m)
    /\ bulk.pc = "seal" => m > 0
    /\ IF bulk.lastRound
         THEN /\ bulk.pc = "seal" /\ m = t
              /\ bulk.pos = End(fifo[t]) /\ ENextBulkOutPosition = Pad
         ELSE /\ t > 0 => m < t
              /\ bulk.pos = IF m = 0 THEN NextBulkOutPosition ELSE End(fifo[m])
              /\ m = 0 => bulk.size = 0
              /\ ENextBulkOutPosition = IF bulk.pc = "seal" THEN bulk.pos ELSE NextBulkOutPosition

Saves ==
  bCopySavePad => /\ Pad < ENextBulkOutPosition
                  /\ ENextBulkOutPosition = CurWritePosition => bCurWriting

\* The newest transfer, from where it begins to its pad.
Carries ==
  LET n == Len(carried) IN
  /\ bulk.pc \in {"submit", "flying"} => carried # <<>>
  /\ ~Locked /\ carried # <<>> =>
       /\ Run(carried, 1, n, NextBulkOutPosition, End(carried[n]))
       /\ End(carried[n]) \in Cells
       /\ NextBulkOutPosition <= ENextBulkOutPosition =>
            /\ End(carried[n]) <= ENextBulkOutPosition
            /\ bCurWriting /\ ~bCopySavePad => End(carried[n]) # CurWritePosition

Busy(w) == writer[w].pc \in {"copy", "next", "final"}

OneWrites ==
  /\ \A v, w \in Writers :
       v # w /\ writer[v].pc # "idle" /\ writer[w].pc # "idle" =>
         /\ {writer[v].kind, writer[w].kind} \subseteq Concurrent
         /\ ~(Busy(v) /\ Busy(w))
  /\ bCurWriting => \E w \in Writers : Busy(w)
  /\ IF bCurWriting THEN CurWriteRealPos > CurWritePosition
                    ELSE CurWriteRealPos = CurWritePosition

\* A writer that found room, or was refused.
Waits(w) ==
  LET x == writer[w] IN
  /\ x.pc # "idle" => x.total \in Lens
  /\ x.pc = "granted" =>
       /\ x.k = 0
       /\ Concurrent = {} => /\ Behind => CurWritePosition + x.total + 4 <= NextBulkOutPosition
                             /\ CurWritePosition = Pad => Behind
  /\ Busy(w) /\ ~bCurWriting =>
       x.kind # "Single" /\ x.pc \in {"next", "final"} /\ (x.pc = "final" => x.kind = "Multi")

\* The writer whose claim bCurWriting is, and what it has written so far.
Writes(w) ==
  LET x == writer[w]
      W == CurWritePosition
      first == IF x.kind = "Single" THEN x.total ELSE 2
  IN
  Busy(w) /\ bCurWriting =>
    /\ Behind => W + x.total + 3 <= NextBulkOutPosition
    /\ x.k = 0 => CurWriteRealPos = W + 1
    /\ x.k = 1 => x.kind # "Single"
    /\ x.pc = "next" => x.kind # "Single" /\ x.k = 0
    /\ x.pc = "final" => x.kind = "Single" \/ x.k = 1
    /\ x.at = IF x.k = 0 THEN W ELSE W + 2
    /\ x.priv = IF x.k = 0 THEN first ELSE x.total
    /\ x.last = ((x.kind = "Single" \/ (x.kind = "Frag" /\ x.k = 1)) /\ TurnsAt(W + x.total))
    /\ HeaderAt(W) = Header(x.id, first, x.kind = "Single" /\ x.last)
    /\ x.kind = "Frag" /\ x.k = 1 => buf[W + 2] = Header(x.id + 1, x.total - 2, x.last)
    /\ x.k = 1 \/ x.pc # "copy" => \A c \in (W + 1)..(W + first - 1) : buf[c] = Body(x.id)
    /\ x.pc = "final" /\ x.k = 1 =>
         IF x.kind = "Frag"
           THEN \A c \in (W + 3)..(W + x.total - 1) : buf[c] = Body(x.id + 1)
           ELSE \A c \in (W + 2)..(W + x.total - 1) : buf[c] = Body(x.id)

Inv ==
  /\ Bounded /\ Bodies /\ Saves /\ Carries /\ OneWrites /\ BulkIntact
  /\ BulkOutPending <=> bulk.pc # "idle"
  /\ \A w \in Writers : Waits(w) /\ Writes(w)
  /\ \E t \in 0..Len(fifo) : Lies(t) /\ Headers(t) /\ Walks(t)

Actor == [pc : {"idle", "granted", "copy", "next", "final"}, kind : {"Single", "Frag", "Multi"},
          total : Nat, priv : Nat, at : Nat, id : Nat, k : {0, 1}, last : BOOLEAN]

\* With the fields that TypeOK leaves open.
Typed ==
  /\ TypeOK
  /\ bulk \in [pc : {"idle", "claimed", "walk", "seal", "submit", "flying"}, pos : Cells,
               size : Nat, frames : Seq(Frames), lastRound : BOOLEAN]
  /\ writer \in [Writers -> Actor]

IInv == Typed /\ Inv

----------------------------------------------------------------------------
(* Frames that lie one behind another.                                      *)

\* The same frames under other numbers.
LEMMA RunShift ==
  ASSUME NEW s, NEW r, NEW d \in Int, NEW i \in Int, NEW j \in Int, NEW p, NEW q,
         Run(s, i, j, p, q), \A k \in i..j : r[k - d] = s[k]
  PROVE  Run(r, i - d, j - d, p, q)
<1>1. \A k \in (i - d)..(j - d) : k + d \in i..j /\ r[k] = s[k + d]
  <2> TAKE k \in (i - d)..(j - d)
  <2>1. k + d \in i..j /\ (k + d) - d = k
    OBVIOUS
  <2> QED BY <2>1
<1>2. IF i - d > j - d THEN p = q ELSE r[i - d].pos = p /\ End(r[j - d]) = q
  <2>1. CASE i > j
    BY <2>1 DEF Run
  <2>2. CASE ~(i > j)
    <3>1. r[i - d] = s[i] /\ r[j - d] = s[j] /\ ~(i - d > j - d)
      BY <2>2
    <3> QED BY <2>2, <3>1 DEF Run
  <2> QED BY <2>1, <2>2
<1>3. \A k \in (i - d)..(j - d) : p <= r[k].pos /\ 2 <= r[k].len /\ End(r[k]) <= q
  BY <1>1 DEF Run
<1>4. \A k, l \in (i - d)..(j - d) : k < l => End(r[k]) <= r[l].pos
  <2> TAKE k, l \in (i - d)..(j - d)
  <2>1. k < l => k + d < l + d
    OBVIOUS
  <2> QED BY <1>1, <2>1 DEF Run
<1>5. \A k \in (i - d)..(j - d) : k < j - d => End(r[k]) = r[k + 1].pos
  <2> TAKE k \in (i - d)..(j - d)
  <2> HAVE k < j - d
  <2>1. k + d < j /\ k + 1 \in (i - d)..(j - d) /\ (k + 1) + d = (k + d) + 1
    OBVIOUS
  <2> QED BY <1>1, <2>1 DEF Run
<1> QED BY <1>2, <1>3, <1>4, <1>5 DEF Run

\* The same frames of another sequence.
LEMMA RunSame ==
  ASSUME NEW s, NEW r, NEW i \in Int, NEW j \in Int, NEW p, NEW q,
         Run(s, i, j, p, q), \A k \in i..j : r[k] = s[k]
  PROVE  Run(r, i, j, p, q)
<1>1. PICK d \in Int : d = 0
  OBVIOUS
<1>2. i - d = i /\ j - d = j /\ \A k \in i..j : k - d = k
  BY <1>1
<1>3. \A k \in i..j : r[k - d] = s[k]
  BY <1>2
<1>4. Run(r, i - d, j - d, p, q)
  BY <1>3, RunShift
<1> QED BY <1>2, <1>4

\* A run is cut behind one of its frames.
LEMMA RunCut ==
  ASSUME NEW s, NEW i \in Int, NEW j \in Int, NEW p, NEW q, Run(s, i, j, p, q),
         NEW m \in i..j, \A k \in i..j : s[k] \in Frames, p \in Int, q \in Int
  PROVE  Run(s, i, m, p, End(s[m])) /\ Run(s, m + 1, j, End(s[m]), q)
<1>1. \A k \in i..j : s[k].pos \in Int /\ s[k].len \in Nat /\ End(s[k]) \in Int
  BY DEF Frames, Cells, End
<1>2. Run(s, i, m, p, End(s[m]))
  <2>1. \A k \in i..m : k \in i..j
    OBVIOUS
  <2>2. \A k \in i..m : End(s[k]) <= End(s[m])
    <3> TAKE k \in i..m
    <3>1. CASE k = m
      BY <1>1, <3>1
    <3>2. CASE k < m
      <4>1. End(s[k]) <= s[m].pos /\ 2 <= s[m].len
        BY <2>1, <3>2 DEF Run
      <4> QED BY <1>1, <2>1, <4>1 DEF End
    <3> QED BY <3>1, <3>2
  <2> QED BY <2>1, <2>2 DEF Run
<1>3. Run(s, m + 1, j, End(s[m]), q)
  <2>1. \A k \in (m + 1)..j : k \in i..j /\ m < k
    OBVIOUS
  <2>2. \A k \in (m + 1)..j : End(s[m]) <= s[k].pos
    BY <2>1 DEF Run
  <2>3. IF m + 1 > j THEN End(s[m]) = q ELSE s[m + 1].pos = End(s[m]) /\ End(s[j]) = q
    <3>1. CASE m = j
      BY <3>1 DEF Run
    <3>2. CASE m < j
      BY <3>2 DEF Run
    <3> QED BY <3>1, <3>2
  <2> QED BY <2>1, <2>2, <2>3 DEF Run
<1> QED BY <1>2, <1>3

\* A run grows by the frame that begins where it ends.
LEMMA RunGrows ==
  ASSUME NEW s, NEW i \in Int, NEW j \in Int, NEW p \in Int, NEW q \in Int,
         Run(s, i, j, p, q), i <= j + 1, \A k \in i..(j + 1) : s[k] \in Frames,
         s[j + 1].pos = q, 2 <= s[j + 1].len
  PROVE  Run(s, i, j + 1, p, End(s[j + 1]))
<1>1. \A k \in i..(j + 1) : s[k].pos \in Int /\ s[k].len \in Nat /\ End(s[k]) \in Int
  BY DEF Frames, Cells, End
<1>2. q <= End(s[j + 1]) /\ p <= q
  <2>1. p <= q
    <3>1. CASE i > j
      BY <3>1 DEF Run
    <3>2. CASE ~(i > j)
      <4>1. p <= s[i].pos /\ End(s[i]) <= q /\ 2 <= s[i].len /\ i \in i..(j + 1)
        BY <3>2 DEF Run
      <4> QED BY <1>1, <4>1 DEF End
    <3> QED BY <3>1, <3>2
  <2> QED BY <1>1, <2>1 DEF End
<1>3. \A k \in i..(j + 1) : k # j + 1 => k \in i..j
  OBVIOUS
<1>4. \A k \in i..(j + 1) : p <= s[k].pos /\ 2 <= s[k].len /\ End(s[k]) <= End(s[j + 1])
  <2> TAKE k \in i..(j + 1)
  <2>1. CASE k = j + 1
    BY <1>1, <1>2, <2>1
  <2>2. CASE k \in i..j
    <3>1. p <= s[k].pos /\ 2 <= s[k].len /\ End(s[k]) <= q
      BY <2>2 DEF Run
    <3> QED BY <1>1, <1>2, <3>1
  <2> QED BY <1>3, <2>1, <2>2
<1>5. \A k, l \in i..(j + 1) : k < l => End(s[k]) <= s[l].pos
  <2> TAKE k, l \in i..(j + 1)
  <2> HAVE k < l
  <2>1. k \in i..j
    OBVIOUS
  <2>2. CASE l = j + 1
    BY <2>1, <2>2 DEF Run
  <2>3. CASE l \in i..j
    BY <2>1, <2>3 DEF Run
  <2> QED BY <1>3, <2>2, <2>3
<1>6. \A k \in i..(j + 1) : k < j + 1 => End(s[k]) = s[k + 1].pos
  <2> TAKE k \in i..(j + 1)
  <2> HAVE k < j + 1
  <2>1. CASE k = j
    BY <2>1 DEF Run
  <2>2. CASE k < j
    BY <2>2 DEF Run
  <2> QED BY <2>1, <2>2
<1>7. s[i].pos = p
  <2>1. CASE i > j
    BY <2>1 DEF Run
  <2>2. CASE ~(i > j)
    BY <2>2 DEF Run
  <2> QED BY <2>1, <2>2
<1> QED BY <1>4, <1>5, <1>6, <1>7 DEF Run

\* A run leads forward.
LEMMA RunForward ==
  ASSUME NEW s, NEW i \in Int, NEW j \in Int, NEW p \in Int, NEW q \in Int,
         Run(s, i, j, p, q), \A k \in i..j : s[k] \in Frames
  PROVE  p <= q
<1>1. CASE i > j
  BY <1>1 DEF Run
<1>2. CASE ~(i > j)
  <2>1. i \in i..j
    BY <1>2
  <2>2. p <= s[i].pos /\ 2 <= s[i].len /\ End(s[i]) <= q
    BY <2>1 DEF Run
  <2>3. s[i].pos \in Nat /\ s[i].len \in Nat
    BY <2>1, TxRingAssumption DEF Frames, Cells
  <2> QED BY <2>2, <2>3 DEF End
<1> QED BY <1>1, <1>2

----------------------------------------------------------------------------
(* The steps that leave the ring alone.                                     *)

\* The positions are numbers, and the constants have their places.
LEMMA Numbers ==
  ASSUME Typed
  PROVE  /\ CurWritePosition \in Nat /\ CurWriteRealPos \in Nat
         /\ NextBulkOutPosition \in Nat /\ ENextBulkOutPosition \in Nat
         /\ LastPlace \in Nat /\ 1 <= LastPlace
         /\ Limit \in Nat /\ HeadRoom \in Nat /\ LocalTxBuf \in Nat
         /\ Limit = LastPlace + HeadRoom /\ 4 <= HeadRoom /\ 5 <= LocalTxBuf
         /\ \A n \in Lens : n \in Nat /\ 4 <= n /\ n <= HeadRoom
         /\ Cells = 0..(Limit + HeadRoom)
         /\ Len(fifo) \in Nat /\ Len(carried) \in Nat /\ Len(bulk.frames) \in Nat
         /\ Start \in Nat
<1>1. Cells \subseteq Nat
  BY TxRingAssumption DEF Cells
<1>2. fifo \in Seq(Frames) /\ carried \in Seq(Frames) /\ bulk.frames \in Seq(Frames)
  BY DEF Typed, TypeOK
<1>3. Len(fifo) \in Nat /\ Len(carried) \in Nat /\ Len(bulk.frames) \in Nat
  BY <1>2, LenProperties
<1>4. /\ CurWritePosition \in Nat /\ CurWriteRealPos \in Nat
      /\ NextBulkOutPosition \in Nat /\ ENextBulkOutPosition \in Nat
  BY <1>1 DEF Typed, TypeOK
<1>5. Start \in Nat
  BY <1>4 DEF Start
<1> QED BY <1>3, <1>4, <1>5, TxRingAssumption DEF LastPlace, Cells

\* Frames are places and lengths.
LEMMA FrameTypes ==
  ASSUME NEW s \in Seq(Frames)
  PROVE  \A i \in 1..Len(s) :
           /\ s[i] \in Frames /\ s[i].pos \in Cells /\ s[i].pos \in Nat /\ s[i].len \in Nat
           /\ End(s[i]) \in Nat
<1> TAKE i \in 1..Len(s)
<1>1. s[i] \in Frames
  BY LenProperties
<1>2. Cells \subseteq Nat
  BY TxRingAssumption DEF Cells
<1>3. s[i].pos \in Cells /\ s[i].pos \in Nat /\ s[i].len \in Nat
  BY <1>1, <1>2 DEF Frames
<1> QED BY <1>1, <1>3 DEF End

\* What is unlocked and unchanged is as it was.
LEMMA QuietRing ==
  ASSUME Inv, UNCHANGED <<ringVars, fifo, carried>>, ~Locked, ~Locked'
  PROVE  /\ Bounded' /\ Bodies' /\ Saves' /\ BulkIntact'
         /\ (\E t \in 0..Len(fifo) : Lies(t) /\ Headers(t) /\ Walks(t))'
         /\ (bulk'.pc \in {"submit", "flying"} => carried # <<>>) => Carries'
<1>1. \A p : HeaderAt(p)' = HeaderAt(p)
  BY DEF HeaderAt, ringVars
<1>2. Bounded' /\ Saves'
  <2>1. /\ UNCHANGED <<CurWritePosition, bCurWriting, NextBulkOutPosition, ENextBulkOutPosition,
                      bCopySavePad, fifo>>
        /\ Bounded /\ Saves
    BY DEF Inv, ringVars
  <2>2. Bounded'
    BY <2>1 DEF Bounded
  <2> QED BY <2>1, <2>2 DEF Saves
<1>3. Bodies' /\ BulkIntact'
  BY DEF Inv, Bodies, BulkIntact, BodyIntact, Locked, ringVars
<1>4. PICK t \in 0..Len(fifo) : Lies(t) /\ Headers(t) /\ Walks(t)
  BY DEF Inv
<1>5. Start' = Start /\ Visited' = Visited /\ Behind' = Behind
  BY DEF Start, Visited, Behind, ringVars
<1>6. Lies(t)'
  BY <1>4, <1>5 DEF Lies, ringVars
<1>7. Headers(t)'
  <2>1. Visited = 0 /\ \A i \in 1..Len(fifo) : i > 0 /\ ~(i <= 0)
    BY DEF Visited
  <2> QED BY <1>1, <1>4, <1>5, <2>1 DEF Headers
<1>8. Walks(t)'
  BY DEF Walks
<1>9. (bulk'.pc \in {"submit", "flying"} => carried # <<>>) => Carries'
  BY DEF Inv, Carries, ringVars
<1> QED BY <1>2, <1>3, <1>4, <1>6, <1>7, <1>8, <1>9

\* A step that leaves the ring and the writers alone leaves what the writers know.
LEMMA QuietWriters ==
  ASSUME Inv, UNCHANGED <<ringVars, writer>>
  PROVE  OneWrites' /\ \A w \in Writers : Waits(w)' /\ Writes(w)'
<1>1. \A p : HeaderAt(p)' = HeaderAt(p)
  BY DEF HeaderAt, ringVars
<1>2. \A w : (Busy(w)' <=> Busy(w)) /\ (Behind' <=> Behind)
  BY DEF Busy, Behind, ringVars
<1>3. OneWrites'
  BY <1>2 DEF Inv, OneWrites, ringVars
<1>4. ASSUME NEW w \in Writers PROVE Waits(w)' /\ Writes(w)'
  <2>1. Waits(w)'
    BY <1>2 DEF Inv, Waits, ringVars
  <2>2. Writes(w)'
    BY <1>1, <1>2 DEF Inv, Writes, ringVars
  <2> QED BY <2>1, <2>2
<1> QED BY <1>3, <1>4

\* The transfer as the USB core and the reset command hand it about.
LEMMA HandingKeeps ==
  ASSUME IInv, \/ BulkOutClaim \/ BulkOutEmpty \/ SubmitOk \/ SubmitFail
               \/ DataOutComplete(TRUE) \/ DataOutComplete(FALSE) \/ ResetBulkOut
  PROVE  IInv'
<1>1. /\ UNCHANGED <<ringVars, fifo, carried, writer, nextId>> /\ ~Locked /\ ~Locked'
      /\ bulk' \in [pc : {"idle", "claimed", "submit", "flying"}, pos : Cells, size : Nat,
                    frames : Seq(Frames), lastRound : BOOLEAN]
      /\ bulk'.pc \in {"submit", "flying"} => carried # <<>>
      /\ BulkOutPending' \in BOOLEAN /\ BulkOutReset' \in BOOLEAN
      /\ BulkOutPending' <=> bulk'.pc # "idle"
  <2>1. BulkIdle \in [pc : {"idle"}, pos : Cells, size : Nat, frames : Seq(Frames),
                      lastRound : BOOLEAN]
    BY TxRingAssumption DEF BulkIdle, Cells
  <2>2. CASE BulkOutClaim
    BY <2>1, <2>2 DEF BulkOutClaim, IInv, Typed, TypeOK, Locked, Inv, Carries, BulkIdle
  <2>3. CASE BulkOutEmpty \/ SubmitOk \/ SubmitFail
    BY <2>1, <2>3 DEF BulkOutEmpty, SubmitOk, SubmitFail, IInv, Typed, TypeOK, Locked, Inv, Carries,
         BulkIdle
  <2>4. CASE DataOutComplete(TRUE) \/ DataOutComplete(FALSE)
    BY <2>1, <2>4 DEF DataOutComplete, IInv, Typed, TypeOK, Locked, Inv, Carries, BulkIdle
  <2>5. CASE ResetBulkOut
    BY <2>1, <2>5 DEF ResetBulkOut, IInv, Typed, TypeOK, Locked, Inv, Carries, BulkIdle
  <2> QED BY <2>2, <2>3, <2>4, <2>5
<1>2. Typed'
  BY <1>1 DEF IInv, Typed, TypeOK, ringVars
<1>3. Inv'
  BY <1>1, QuietRing, QuietWriters DEF Inv, IInv
<1> QED BY <1>2, <1>3 DEF IInv

----------------------------------------------------------------------------
(* The cells that a writer may write.                                       *)

\* Committed frames are two cells long or longer and lie in the buffer.
LEMMA FifoFrames ==
  ASSUME IInv, NEW i \in 1..Len(fifo)
  PROVE  /\ fifo[i] \in Frames /\ fifo[i].pos \in Nat /\ fifo[i].len \in Nat /\ fifo[i].pos \in Cells
         /\ End(fifo[i]) \in Nat /\ Pad <= fifo[i].pos /\ 2 <= fifo[i].len
         /\ fifo[i].pos <= LastPlace + 3 /\ End(fifo[i]) <= Limit + 1
         /\ \A c \in fifo[i].pos..(End(fifo[i]) - 1) : c \in Cells /\ c \in Nat
<1>1. /\ fifo[i] \in Frames /\ fifo[i].pos \in Nat /\ fifo[i].len \in Nat /\ fifo[i].pos \in Cells
      /\ End(fifo[i]) \in Nat
  BY FrameTypes DEF IInv, Typed, TypeOK
<1>2. Pad <= fifo[i].pos /\ fifo[i].pos <= LastPlace + 3 /\ End(fifo[i]) <= Limit + 1
  BY DEF IInv, Inv, Bounded
<1>3. PICK t \in 0..Len(fifo) : Lies(t)
  BY DEF IInv, Inv
<1>4. 2 <= fifo[i].len
  <2>1. CASE Run(fifo, 1, Len(fifo), Start, CurWritePosition)
    BY <2>1 DEF Run
  <2>2. CASE /\ t \in 1..Len(fifo) /\ Run(fifo, 1, t, Start, End(fifo[t]))
             /\ Run(fifo, t + 1, Len(fifo), Pad, CurWritePosition)
    <3>1. i \in 1..t \/ i \in (t + 1)..Len(fifo)
      BY <2>2, Numbers DEF IInv
    <3> QED BY <2>2, <3>1 DEF Run
  <2> QED BY <1>3, <2>1, <2>2 DEF Lies
<1>5. \A c \in fifo[i].pos..(End(fifo[i]) - 1) : c \in Cells /\ c \in Nat
  <2>1. Cells = 0..(Limit + HeadRoom) /\ Limit \in Nat /\ HeadRoom \in Nat
    BY Numbers DEF IInv
  <2> QED BY <1>1, <1>2, <2>1, SMTT(60)
<1> QED BY <1>1, <1>2, <1>4, <1>5

\* So do those of the newest transfer, with its pad.
LEMMA CarriedFrames ==
  ASSUME IInv, ~Locked, carried # <<>>
  PROVE  /\ Len(carried) \in 1..Len(carried)
         /\ End(carried[Len(carried)]) \in Cells /\ End(carried[Len(carried)]) \in Nat
         /\ \A c \in NextBulkOutPosition..End(carried[Len(carried)]) : c \in Cells
         /\ \A i \in 1..Len(carried) :
              /\ carried[i].pos \in Nat /\ carried[i].len \in Nat /\ End(carried[i]) \in Nat
              /\ NextBulkOutPosition <= carried[i].pos /\ 2 <= carried[i].len
              /\ End(carried[i]) <= End(carried[Len(carried)])
<1>1. Len(carried) \in 1..Len(carried)
  BY EmptySeq, LenProperties DEF IInv, Typed, TypeOK
<1>2. /\ Run(carried, 1, Len(carried), NextBulkOutPosition, End(carried[Len(carried)]))
      /\ End(carried[Len(carried)]) \in Cells
  BY DEF IInv, Inv, Carries
<1>3. \A i \in 1..Len(carried) :
        carried[i].pos \in Nat /\ carried[i].len \in Nat /\ End(carried[i]) \in Nat
  BY FrameTypes DEF IInv, Typed, TypeOK
<1>4. \A c \in NextBulkOutPosition..End(carried[Len(carried)]) : c \in Cells
  BY <1>2, Numbers, SMTT(60) DEF IInv
<1>5. \A i \in 1..Len(carried) :
        /\ NextBulkOutPosition <= carried[i].pos /\ 2 <= carried[i].len
        /\ End(carried[i]) <= End(carried[Len(carried)])
  BY <1>2 DEF Run
<1> QED BY <1>1, <1>2, <1>3, <1>4, <1>5

\* The cells of a write in progress hold no committed frame, nothing that the newest
\* transfer carries, and no header whose place is saved.
LEMMA Room ==
  ASSUME IInv, NEW w \in Writers, Busy(w), bCurWriting,
         NEW c \in CurWritePosition..(CurWritePosition + writer[w].total)
  PROVE  /\ c \in Cells /\ c \in Nat
         /\ \A i \in 1..Len(fifo) : c < fifo[i].pos \/ End(fifo[i]) <= c
         /\ ~Locked /\ carried # <<>> /\ (c # CurWritePosition \/ ENextBulkOutPosition # c \/ ~bCopySavePad) =>
              c < NextBulkOutPosition \/ End(carried[Len(carried)]) < c
         /\ bCopySavePad /\ c # CurWritePosition => c # ENextBulkOutPosition
<1>1. PICK W \in Nat, N \in Nat, E \in Nat, n \in Nat, S \in Nat :
        /\ W = CurWritePosition /\ N = NextBulkOutPosition /\ E = ENextBulkOutPosition
        /\ n = writer[w].total /\ S = Start
  BY Numbers DEF IInv, Typed, Actor
<1>2. n \in Lens /\ 4 <= n /\ n <= HeadRoom /\ (W < N => W + n + 3 <= N) /\ W <= LastPlace + 1
  <2>1. writer[w].total \in Lens
    BY DEF IInv, Inv, Waits, Busy
  <2>2. Behind => W + n + 3 <= N
    BY <1>1 DEF IInv, Inv, Writes
  <2>3. W <= LastPlace + 1
    BY <1>1 DEF IInv, Inv, Bounded
  <2> QED BY <1>1, <2>1, <2>2, <2>3, Numbers DEF Behind, IInv
<1>3. c \in Cells /\ c \in Nat /\ W <= c /\ c <= W + n
  <2>1. Cells = 0..(Limit + HeadRoom) /\ Limit = LastPlace + HeadRoom /\ LastPlace \in Nat /\ HeadRoom \in Nat
    BY Numbers DEF IInv
  <2> QED BY <1>1, <1>2, <2>1
<1>4. \A i \in 1..Len(fifo) : fifo[i].pos \in Nat /\ End(fifo[i]) \in Nat
  BY FrameTypes DEF IInv, Typed, TypeOK
<1>5. carried # <<>> => End(carried[Len(carried)]) \in Nat
  <2>1. carried \in Seq(Frames) /\ (carried # <<>> => Len(carried) \in 1..Len(carried))
    BY EmptySeq, LenProperties DEF IInv, Typed, TypeOK
  <2> QED BY <2>1, FrameTypes
<1>6. ~Locked /\ carried # <<>> =>
        (N <= E => End(carried[Len(carried)]) <= E
                   /\ (~bCopySavePad => End(carried[Len(carried)]) # W))
  BY <1>1 DEF IInv, Inv, Carries
<1>7. PICK t \in 0..Len(fifo) : Lies(t) /\ Headers(t) /\ Walks(t)
  BY DEF IInv, Inv
<1>8. Locked => ~bCopySavePad
  BY <1>7 DEF Walks
<1>9. ~Locked => S = E
  BY <1>1 DEF Start
<1>10. Len(fifo) \in Nat
  BY Numbers DEF IInv
<1>11. CASE t = 0 /\ Run(fifo, 1, Len(fifo), S, W)
  <2>1. \A i \in 1..Len(fifo) : S <= fifo[i].pos /\ End(fifo[i]) <= W
    BY <1>11 DEF Run
  <2>2. S <= W
    <3>1. CASE 1 > Len(fifo)
      BY <1>11, <3>1 DEF Run
    <3>2. CASE ~(1 > Len(fifo))
      <4>1. 1 \in 1..Len(fifo)
        BY <1>10, <3>2
      <4>2. S <= fifo[1].pos /\ 2 <= fifo[1].len /\ End(fifo[1]) <= W
        BY <1>11, <4>1 DEF Run
      <4>3. fifo[1].len \in Nat /\ fifo[1].pos \in Nat
        BY <4>1, FrameTypes DEF IInv, Typed, TypeOK
      <4> QED BY <1>1, <4>2, <4>3 DEF End
    <3> QED BY <3>1, <3>2
  <2>3. N <= S \/ (W < N /\ ~Locked /\ ~bCopySavePad)
    BY <1>1, <1>7, <1>11 DEF Lies, Behind
  <2>4. \A i \in 1..Len(fifo) : End(fifo[i]) <= c
    BY <1>1, <1>3, <1>4, <2>1
  <2>5. ASSUME ~Locked, carried # <<>>, c # W \/ E # c \/ ~bCopySavePad
        PROVE  c < N \/ End(carried[Len(carried)]) < c
    <3>1. CASE W < N /\ ~bCopySavePad
      BY <1>1, <1>2, <1>3, <3>1, SMTT(60)
    <3>2. CASE N <= S
      <4>1. PICK e \in Nat : e = End(carried[Len(carried)])
        BY <1>5, <2>5
      <4>2. S = E /\ e <= E /\ (~bCopySavePad => e # W)
        BY <1>6, <1>9, <2>5, <3>2, <4>1
      <4>3. e <= W /\ (e = W => E = W)
        BY <1>1, <2>2, <4>1, <4>2
      <4>4. e < c
        <5>1. CASE ~bCopySavePad
          BY <1>1, <1>3, <4>1, <4>2, <4>3, <5>1
        <5>2. CASE c # W
          BY <1>1, <1>3, <4>1, <4>3, <5>2
        <5>3. CASE E # c
          BY <1>1, <1>3, <4>1, <4>2, <4>3, <5>3, <2>2
        <5> QED BY <2>5, <5>1, <5>2, <5>3
      <4> QED BY <4>1, <4>4
    <3> QED BY <2>3, <3>1, <3>2
  <2>6. bCopySavePad /\ c # W => c # E
    BY <1>1, <1>3, <1>8, <1>9, <2>2, <2>3
  <2> QED BY <1>1, <1>3, <2>4, <2>5, <2>6
<1>12. CASE /\ t \in 1..Len(fifo) /\ Run(fifo, 1, t, S, End(fifo[t]))
            /\ Run(fifo, t + 1, Len(fifo), Pad, W)
            /\ N <= S /\ W < N
  <2>0. c < N /\ N <= S /\ (~Locked => c # E)
    <3>1. W + n + 3 <= N /\ N <= S
      BY <1>2, <1>12
    <3> QED BY <1>3, <1>9, <3>1
  <2>1. ASSUME NEW i \in 1..Len(fifo)
        PROVE  c < fifo[i].pos \/ End(fifo[i]) <= c
    <3>1. CASE i \in 1..t
      <4>1. S <= fifo[i].pos
        BY <1>12, <3>1 DEF Run
      <4>2. fifo[i].pos \in Nat
        BY <1>4
      <4> QED BY <1>3, <2>0, <4>1, <4>2
    <3>2. CASE i \in (t + 1)..Len(fifo)
      <4>1. End(fifo[i]) <= W
        BY <1>12, <3>2 DEF Run
      <4> QED BY <1>1, <1>3, <1>4, <4>1
    <3> QED BY <1>10, <3>1, <3>2
  <2> QED BY <1>1, <1>3, <1>8, <2>0, <2>1
<1> QED BY <1>1, <1>7, <1>11, <1>12 DEF Lies, Behind

\* Where only such cells change, the frames, their headers and the transfer stay.
LEMMA CellsStay ==
  ASSUME IInv, NEW D,
         UNCHANGED <<carried, bulk, NextBulkOutPosition, bCopySavePad>>,
         bCopySavePad => UNCHANGED ENextBulkOutPosition, fifo # <<>> => UNCHANGED SavedPad,
         \A c \in Cells : c \in D \/ buf'[c] = buf[c],
         \A c \in D :
           /\ \A i \in 1..Len(fifo) : c < fifo[i].pos \/ End(fifo[i]) <= c
           /\ ~Locked /\ carried # <<>> => c < NextBulkOutPosition \/ End(carried[Len(carried)]) < c
           /\ bCopySavePad => c # ENextBulkOutPosition
  PROVE  /\ \A p : \A i \in 1..Len(fifo) : p = fifo[i].pos => HeaderAt(p)' = HeaderAt(p)
         /\ \A c \in Nat : \A i \in 1..Len(fifo) :
              fifo[i].pos < c /\ c < End(fifo[i]) => buf'[c] = Body(fifo[i].id)
         /\ BulkIntact'
<1>1. ASSUME NEW i \in 1..Len(fifo), NEW c \in fifo[i].pos..(End(fifo[i]) - 1)
      PROVE  buf'[c] = buf[c]
  <2>1. c \in Cells /\ c \in Nat /\ fifo[i].pos <= c /\ c < End(fifo[i])
    BY <1>1, FifoFrames
  <2>2. fifo[i].pos \in Nat /\ End(fifo[i]) \in Nat
    BY FifoFrames
  <2> QED BY <2>1, <2>2
<1>2. ASSUME ~Locked, carried # <<>>, NEW c \in NextBulkOutPosition..End(carried[Len(carried)])
      PROVE  buf'[c] = buf[c]
  <2>1. /\ c \in Cells /\ NextBulkOutPosition <= c /\ c <= End(carried[Len(carried)])
        /\ NextBulkOutPosition \in Nat /\ End(carried[Len(carried)]) \in Nat /\ c \in Nat
    BY <1>2, CarriedFrames, Numbers DEF IInv
  <2> QED BY <1>2, <2>1
<1>3. ASSUME NEW i \in 1..Len(fifo), NEW c \in Nat, fifo[i].pos < c, c < End(fifo[i])
      PROVE  buf'[c] = Body(fifo[i].id)
  <2>1. c \in fifo[i].pos..(End(fifo[i]) - 1) /\ c \in (fifo[i].pos + 1)..(fifo[i].pos + fifo[i].len - 1)
    BY <1>3, FifoFrames DEF End
  <2>2. buf[c] = Body(fifo[i].id)
    BY <2>1 DEF IInv, Inv, Bodies, BodyIntact
  <2> QED BY <1>1, <2>1, <2>2
<1>4. ASSUME NEW i \in 1..Len(fifo), NEW p, p = fifo[i].pos
      PROVE  HeaderAt(p)' = HeaderAt(p)
  <2>1. p \in fifo[i].pos..(End(fifo[i]) - 1)
    BY <1>4, FifoFrames DEF End
  <2>2. buf'[p] = buf[p]
    BY <1>1, <2>1
  <2>3. fifo # <<>>
    BY EmptySeq
  <2> QED BY <2>2, <2>3 DEF HeaderAt
<1>6. BulkIntact'
  <2> SUFFICES ASSUME ~Locked, NEW i \in 1..Len(carried)
               PROVE  LET f == carried[i] IN
                      /\ buf'[f.pos] = [Header(f.id, f.len, FALSE) EXCEPT !.nv = i < Len(carried)]
                      /\ \A c \in (f.pos + 1)..(f.pos + f.len - 1) : buf'[c] = Body(f.id)
                      /\ i = Len(carried) => buf'[f.pos + f.len] = Zero
    BY DEF BulkIntact, BodyIntact, Locked
  <2>1. LET f == carried[i] IN
        /\ buf[f.pos] = [Header(f.id, f.len, FALSE) EXCEPT !.nv = i < Len(carried)]
        /\ \A c \in (f.pos + 1)..(f.pos + f.len - 1) : buf[c] = Body(f.id)
        /\ i = Len(carried) => buf[f.pos + f.len] = Zero
    BY DEF IInv, Inv, BulkIntact, BodyIntact, Locked
  <2>2. carried # <<>>
    BY EmptySeq
  <2>3. \A c \in carried[i].pos..(carried[i].pos + carried[i].len) : buf'[c] = buf[c]
    <3> TAKE c \in carried[i].pos..(carried[i].pos + carried[i].len)
    <3>1. /\ NextBulkOutPosition <= carried[i].pos
          /\ carried[i].pos + carried[i].len <= End(carried[Len(carried)])
          /\ carried[i].pos \in Nat /\ carried[i].len \in Nat
          /\ NextBulkOutPosition \in Nat /\ End(carried[Len(carried)]) \in Nat
      BY <2>2, CarriedFrames, Numbers DEF End, IInv
    <3>2. c \in NextBulkOutPosition..End(carried[Len(carried)])
      BY <3>1
    <3> QED BY <1>2, <2>2, <3>2
  <2>4. /\ carried[i].pos \in Nat /\ carried[i].len \in Nat /\ 2 <= carried[i].len
    BY <2>2, CarriedFrames
  <2>5. buf'[carried[i].pos] = buf[carried[i].pos]
    BY <2>3, <2>4
  <2>6. buf'[carried[i].pos + carried[i].len] = buf[carried[i].pos + carried[i].len]
    BY <2>3, <2>4
  <2>7. \A c \in (carried[i].pos + 1)..(carried[i].pos + carried[i].len - 1) : buf'[c] = buf[c]
    BY <2>3, <2>4
  <2> QED BY <2>1, <2>5, <2>6, <2>7
<1> QED BY <1>3, <1>4, <1>6

\* A step that writes only cells outside the frames leaves their headers and bodies as they were.
LEMMA RingStays ==
  ASSUME IInv, NEW D,
         UNCHANGED <<fifo, carried, bulk, NextBulkOutPosition, bCopySavePad, SavedPad>>,
         bCopySavePad => UNCHANGED ENextBulkOutPosition, Locked => UNCHANGED CurWritePosition,
         \A c \in Cells : c \in D \/ buf'[c] = buf[c],
         \A c \in D :
           /\ \A i \in 1..Len(fifo) : c < fifo[i].pos \/ End(fifo[i]) <= c
           /\ ~Locked /\ carried # <<>> => c < NextBulkOutPosition \/ End(carried[Len(carried)]) < c
           /\ bCopySavePad => c # ENextBulkOutPosition
  PROVE  /\ Bodies' /\ BulkIntact'
         /\ \A t : Headers(t) => Headers(t)'
<1>1. /\ \A p : \A i \in 1..Len(fifo) : p = fifo[i].pos => HeaderAt(p)' = HeaderAt(p)
      /\ \A c \in Nat : \A i \in 1..Len(fifo) :
           fifo[i].pos < c /\ c < End(fifo[i]) => buf'[c] = Body(fifo[i].id)
      /\ BulkIntact'
  BY CellsStay
<1>2. Bodies'
  <2> SUFFICES ASSUME NEW i \in 1..Len(fifo), NEW c \in (fifo[i].pos + 1)..(fifo[i].pos + fifo[i].len - 1)
               PROVE  buf'[c] = Body(fifo[i].id)
    BY DEF Bodies, BodyIntact
  <2>1. c \in Nat /\ fifo[i].pos < c /\ c < End(fifo[i])
    BY FifoFrames, SMTT(60) DEF End
  <2> QED BY <1>1, <2>1
<1>3. ASSUME NEW t, Headers(t) PROVE Headers(t)'
  <2>1. Visited' = Visited
    BY DEF Visited, Locked
  <2>2. \A i \in 1..Len(fifo) : HeaderAt(fifo[i].pos)' = HeaderAt(fifo[i].pos)
    <3> TAKE i \in 1..Len(fifo)
    <3>1. PICK p : p = fifo[i].pos
      OBVIOUS
    <3> QED BY <1>1, <3>1
  <2>3. ~Locked => Visited = 0
    BY DEF Visited
  <2>4. CASE Locked
    BY <1>3, <2>1, <2>2, <2>4, ZenonT(60) DEF Headers
  <2>5. CASE ~Locked
    <3>1. \A i \in 1..Len(fifo) : i > 0 /\ ~(i <= 0)
      OBVIOUS
    <3> QED BY <1>3, <2>1, <2>2, <2>3, <2>5, <3>1 DEF Headers
  <2> QED BY <2>4, <2>5
<1> QED BY <1>1, <1>2, <1>3

----------------------------------------------------------------------------
(* The steps of a writer.                                                   *)

\* Where no position moves, the frames lie as they did.
LEMMA PlacesStay ==
  ASSUME Inv, UNCHANGED <<CurWritePosition, CurWriteRealPos, NextBulkOutPosition, ENextBulkOutPosition,
                          bCurWriting, bCopySavePad, fifo, carried, bulk, BulkOutPending>>
  PROVE  /\ Bounded' /\ Saves' /\ Carries' /\ (BulkOutPending' <=> bulk'.pc # "idle")
         /\ \A t : Lies(t) /\ Walks(t) => Lies(t)' /\ Walks(t)'
<1>1. Bounded'
  BY DEF Inv, Bounded
<1>2. Saves' /\ (BulkOutPending' <=> bulk'.pc # "idle")
  BY DEF Inv, Saves
<1>3. Locked' = Locked /\ Start' = Start /\ Behind' = Behind
  BY DEF Locked, Start, Behind
<1>4. Carries'
  BY <1>3 DEF Inv, Carries
<1>5. ASSUME NEW t, Lies(t), Walks(t) PROVE Lies(t)' /\ Walks(t)'
  BY <1>3, <1>5 DEF Lies, Walks
<1> QED BY <1>1, <1>2, <1>4, <1>5

\* A writer at work has the ring to itself.
LEMMA Alone ==
  ASSUME IInv, NEW w \in Writers, Busy(w), NEW v \in Writers, v # w
  PROVE  ~Busy(v)
<1>1. Busy(v) => writer[v].pc # "idle" /\ writer[w].pc # "idle"
  BY DEF Busy
<1> QED BY <1>1 DEF IInv, Inv, OneWrites

\* What another writer knows does not depend on the buffer.
LEMMA OthersKeep ==
  ASSUME IInv, NEW w \in Writers, NEW v \in Writers, v # w, writer'[v] = writer[v],
         UNCHANGED <<CurWritePosition, NextBulkOutPosition, bCurWriting>>,
         Busy(w)
  PROVE  Waits(v)' /\ Writes(v)'
<1>1. ~Busy(v) /\ ~Busy(v)'
  BY Alone DEF Busy
<1>2. Waits(v)'
  BY <1>1 DEF IInv, Inv, Waits, Behind
<1> QED BY <1>1, <1>2 DEF Writes

\* The payload of a piece.
LEMMA CopyKeeps ==
  ASSUME IInv, NEW w \in Writers, CopyPayload(w)
  PROVE  IInv'
<1>0. PICK x, W : x = writer[w] /\ W = CurWritePosition
  OBVIOUS
<1> DEFINE end == x.at + Piece(x, x.k)
           lo == IF x.kind = "Multi" /\ x.k = 1 THEN x.at ELSE x.at + 1
           id == IF x.kind = "Frag" THEN x.id + x.k ELSE x.id
<1>1. /\ x.pc = "copy" /\ Busy(w)
      /\ x.kind \in {"Single", "Frag", "Multi"} /\ x.total \in Nat /\ x.priv \in Nat /\ x.at \in Nat
      /\ x.id \in Nat /\ x.k \in {0, 1} /\ x.last \in BOOLEAN
      /\ W \in Nat
      /\ x \in Actor
  BY <1>0, Numbers DEF CopyPayload, Busy, IInv, Typed, Actor
<1>2. bCurWriting /\ x.total \in Lens /\ 4 <= x.total
  BY <1>0, <1>1, Numbers DEF IInv, Inv, Waits
<1>3. /\ x.k = 1 => x.kind # "Single"
      /\ x.k = 0 => CurWriteRealPos = W + 1
      /\ x.at = IF x.k = 0 THEN W ELSE W + 2
      /\ x.priv = IF x.k = 0 THEN IF x.kind = "Single" THEN x.total ELSE 2 ELSE x.total
      /\ x.last = ((x.kind = "Single" \/ (x.kind = "Frag" /\ x.k = 1)) /\ TurnsAt(W + x.total))
      /\ HeaderAt(W) = Header(x.id, IF x.kind = "Single" THEN x.total ELSE 2, x.kind = "Single" /\ x.last)
      /\ x.kind = "Frag" /\ x.k = 1 => buf[W + 2] = Header(x.id + 1, x.total - 2, x.last)
      /\ x.k = 1 => \A c \in (W + 1)..(W + 1) : buf[c] = Body(x.id)
      /\ Behind => W + x.total + 3 <= NextBulkOutPosition
  BY <1>0, <1>1, <1>2 DEF IInv, Inv, Writes
<1>4. /\ lo \in Nat /\ end \in Nat /\ W + 1 <= lo /\ end <= W + x.total /\ W + 1 <= end
      /\ id \in Nat
      /\ x.k = 0 => lo = W + 1 /\ end = W + IF x.kind = "Single" THEN x.total ELSE 2
      /\ x.k = 1 => lo = W + (IF x.kind = "Frag" THEN 3 ELSE 2) /\ end = W + x.total
  BY <1>1, <1>2, <1>3 DEF Piece
<1>5. /\ UNCHANGED <<CurWritePosition, CurWriteRealPos, NextBulkOutPosition, ENextBulkOutPosition,
                     bCurWriting, bCopySavePad, SavedPad, Header_802_3, fifo, carried, bulk, BulkOutPending,
                     BulkOutReset, nextId>>
      /\ writer' = [writer EXCEPT ![w].pc = IF x.kind = "Single" \/ x.k = 1 THEN "final" ELSE "next"]
  BY <1>0 DEF CopyPayload
<1>6. buf \in [Cells -> Cell] /\ (W + 1)..(W + x.total) \subseteq Cells
  <2>1. (W + 1)..(W + x.total) \subseteq Cells
    BY <1>0, <1>1, <1>2, Room
  <2> QED BY <2>1 DEF IInv, Typed, TypeOK
<1>7. /\ buf' = IF x.kind = "Multi" THEN Fill(buf, id, lo, end)
                ELSE [Fill(buf, id, lo, end) EXCEPT ![end] = Zero]
  BY <1>0 DEF CopyPayload
<1> HIDE DEF lo, end, id
<1>8. \A c \in Cells : buf'[c] = IF c = end /\ x.kind # "Multi" THEN Zero
                                 ELSE IF lo <= c /\ c < end THEN Body(id) ELSE buf[c]
  BY <1>7 DEF Fill
<1>9. buf' \in [Cells -> Cell]
  <2>1. Zero \in Cell /\ Body(id) \in Cell
    BY <1>4 DEF Zero, Body, Cell
  <2>2. Fill(buf, id, lo, end) \in [Cells -> Cell]
    BY <1>6, <2>1 DEF Fill
  <2> QED BY <1>7, <2>1, <2>2
<1>10. Typed'
  <2>1. writer' \in [Writers -> Actor]
    <3>1. writer' = [writer EXCEPT ![w] = [x EXCEPT !.pc = IF x.kind = "Single" \/ x.k = 1
                                                           THEN "final" ELSE "next"]]
      BY <1>0, <1>5
    <3>2. [x EXCEPT !.pc = IF x.kind = "Single" \/ x.k = 1 THEN "final" ELSE "next"] \in Actor
      BY <1>1 DEF Actor
    <3> QED BY <3>1, <3>2 DEF IInv, Typed
  <2>2. \A v \in Writers : /\ writer'[v].pc \in {"idle", "granted", "copy", "next", "final"}
                           /\ writer'[v].kind \in {"Single", "Frag", "Multi"}
    BY <2>1 DEF Actor
  <2> QED BY <1>5, <1>9, <2>1, <2>2 DEF IInv, Typed, TypeOK
<1>11. \A c \in Cells : c \in (W + 1)..(W + x.total) \/ buf'[c] = buf[c]
  <2> SUFFICES ASSUME NEW c \in Cells, c \notin (W + 1)..(W + x.total)
               PROVE  buf'[c] = buf[c]
    OBVIOUS
  <2>1. c \in Nat
    BY TxRingAssumption DEF Cells
  <2> QED BY <1>1, <1>4, <1>8, <2>1
<1>12. Bodies' /\ BulkIntact' /\ \A t : Headers(t) => Headers(t)'
  <2> DEFINE D == (W + 1)..(W + x.total)
  <2>1. \A c \in D :
           /\ \A i \in 1..Len(fifo) : c < fifo[i].pos \/ End(fifo[i]) <= c
           /\ ~Locked /\ carried # <<>> => c < NextBulkOutPosition \/ End(carried[Len(carried)]) < c
           /\ bCopySavePad => c # ENextBulkOutPosition
    <3> TAKE c \in D
    <3>1. c \in CurWritePosition..(CurWritePosition + writer[w].total) /\ c # CurWritePosition
      BY <1>0, <1>1
    <3> QED BY <1>1, <1>2, <3>1, Room
  <2>2. \A c \in Cells : c \in D \/ buf'[c] = buf[c]
    BY <1>11
  <2> HIDE DEF D
  <2> QED BY <1>5, <2>1, <2>2, RingStays
<1>13. Bounded' /\ Saves' /\ Carries' /\ (BulkOutPending' <=> bulk'.pc # "idle")
       /\ \A t : Lies(t) /\ Walks(t) => Lies(t)' /\ Walks(t)'
  BY <1>5, PlacesStay DEF IInv
<1>14. \A v \in Writers : v # w => writer'[v] = writer[v]
  BY <1>5 DEF IInv, Typed
<1>15. writer'[w] = [x EXCEPT !.pc = IF x.kind = "Single" \/ x.k = 1 THEN "final" ELSE "next"]
  BY <1>0, <1>5 DEF IInv, Typed
<1>16. OneWrites'
  <2>1. \A v \in Writers : /\ Busy(v)' <=> Busy(v)
                           /\ writer'[v].pc # "idle" <=> writer[v].pc # "idle"
                           /\ writer'[v].kind = writer[v].kind
    <3> TAKE v \in Writers
    <3>1. CASE v = w
      BY <1>0, <1>1, <1>15, <3>1 DEF Busy, Actor
    <3>2. CASE v # w
      BY <1>14, <3>2 DEF Busy
    <3> QED BY <3>1, <3>2
  <2>2. OneWrites
    BY DEF IInv, Inv
  <2> QED BY <1>5, <2>1, <2>2 DEF OneWrites
<1>17. Waits(w)'
  BY <1>1, <1>2, <1>5, <1>15 DEF Waits, Behind, Actor
<1>18. Writes(w)'
  <2>1. Busy(w)' /\ bCurWriting' /\ Behind' = Behind /\ CurWritePosition' = W
        /\ CurWriteRealPos' = CurWriteRealPos /\ NextBulkOutPosition' = NextBulkOutPosition
    BY <1>0, <1>1, <1>2, <1>5, <1>15 DEF Busy, Behind
  <2>2. \A c \in W..(W + x.total) : c \in Cells /\ c \in Nat
    BY <1>0, <1>1, <1>2, Room
  <2>3. HeaderAt(W)' = HeaderAt(W)
    <3>1. buf'[W] = buf[W]
      BY <1>1, <1>4, <1>8, <2>2
    <3> QED BY <1>5, <3>1 DEF HeaderAt
  <2>4. x.k = 0 => \A c \in (W + 1)..(W + (IF x.kind = "Single" THEN x.total ELSE 2) - 1) :
                     buf'[c] = Body(x.id)
    <3> SUFFICES ASSUME x.k = 0,
                        NEW c \in (W + 1)..(W + (IF x.kind = "Single" THEN x.total ELSE 2) - 1)
                 PROVE  buf'[c] = Body(x.id)
      OBVIOUS
    <3>1. c \in Cells /\ lo <= c /\ c < end /\ c # end
      BY <1>1, <1>2, <1>4, <2>2
    <3>2. id = x.id
      BY <1>1 DEF id
    <3> QED BY <1>8, <3>1, <3>2
  <2>5. ASSUME x.k = 1
        PROVE  /\ buf'[W + 1] = Body(x.id)
               /\ x.kind = "Frag" => buf'[W + 2] = Header(x.id + 1, x.total - 2, x.last)
               /\ IF x.kind = "Frag"
                    THEN \A c \in (W + 3)..(W + x.total - 1) : buf'[c] = Body(x.id + 1)
                    ELSE \A c \in (W + 2)..(W + x.total - 1) : buf'[c] = Body(x.id)
    <3>1. W + 1 \in Cells /\ W + 2 \in Cells
      BY <1>1, <1>2, <2>2
    <3>2. buf'[W + 1] = Body(x.id)
      BY <1>1, <1>2, <1>3, <1>4, <1>8, <2>5, <3>1
    <3>3. x.kind = "Frag" => buf'[W + 2] = Header(x.id + 1, x.total - 2, x.last)
      BY <1>1, <1>2, <1>3, <1>4, <1>8, <2>5, <3>1
    <3>4. id = IF x.kind = "Frag" THEN x.id + 1 ELSE x.id
      BY <2>5 DEF id
    <3>5. ASSUME NEW c \in (W + (IF x.kind = "Frag" THEN 3 ELSE 2))..(W + x.total - 1)
          PROVE  buf'[c] = Body(id)
      <4>1. c \in Cells /\ lo <= c /\ c < end /\ c # end
        BY <1>1, <1>2, <1>4, <2>2, <2>5
      <4> QED BY <1>8, <4>1
    <3> QED BY <3>2, <3>3, <3>4, <3>5
  <2>6. /\ writer'[w].k = x.k /\ writer'[w].kind = x.kind /\ writer'[w].total = x.total
        /\ writer'[w].at = x.at /\ writer'[w].priv = x.priv /\ writer'[w].last = x.last
        /\ writer'[w].id = x.id
        /\ writer'[w].pc = IF x.kind = "Single" \/ x.k = 1 THEN "final" ELSE "next"
    BY <1>1, <1>15 DEF Actor
  <2>7. \A c \in (W + 1)..(W + 2 - 1) : c = W + 1
    BY <1>1
  <2>8. CASE x.k = 0
    BY <1>1, <1>3, <2>1, <2>3, <2>4, <2>6, <2>8 DEF Writes
  <2>9. CASE x.k = 1
    BY <1>1, <1>3, <2>1, <2>3, <2>5, <2>6, <2>7, <2>9 DEF Writes
  <2> QED BY <1>1, <2>8, <2>9
<1>19. \A v \in Writers : Waits(v)' /\ Writes(v)'
  BY <1>1, <1>5, <1>14, <1>17, <1>18, OthersKeep
<1>20. (\E t \in 0..Len(fifo) : Lies(t) /\ Headers(t) /\ Walks(t))'
  <2>1. PICK t \in 0..Len(fifo) : Lies(t) /\ Headers(t) /\ Walks(t)
    BY DEF IInv, Inv
  <2> QED BY <1>5, <1>12, <1>13, <2>1
<1> QED BY <1>10, <1>12, <1>13, <1>16, <1>19, <1>20 DEF IInv, Inv

\* Where the ring is not touched.
LEMMA QuietStep ==
  ASSUME IInv, NEW w \in Writers, NEW y \in Actor, writer' = [writer EXCEPT ![w] = y], nextId' \in Nat,
         UNCHANGED <<ringVars, BulkOutPending, BulkOutReset, bulk, carried, fifo>>, Unlocked,
         OneWrites', Waits(w)', Writes(w)'
  PROVE  IInv'
<1>1. ~Locked /\ ~Locked' /\ Carries
  BY DEF Locked, Unlocked, IInv, Inv
<1>2. /\ Bounded' /\ Bodies' /\ Saves' /\ BulkIntact'
      /\ (\E t \in 0..Len(fifo) : Lies(t) /\ Headers(t) /\ Walks(t))'
      /\ Carries'
  BY <1>1, QuietRing DEF IInv, Carries
<1>3. ASSUME NEW v \in Writers PROVE Waits(v)' /\ Writes(v)'
  <2>1. CASE v = w
    BY <2>1
  <2>2. CASE v # w
    <3>1. writer'[v] = writer[v] /\ HeaderAt(CurWritePosition)' = HeaderAt(CurWritePosition)
          /\ (Busy(v)' <=> Busy(v)) /\ (Behind' <=> Behind)
      BY <2>2 DEF IInv, Typed, HeaderAt, Busy, Behind, ringVars
    <3>2. Waits(v)'
      BY <3>1 DEF IInv, Inv, Waits, ringVars
    <3>3. Writes(v)'
      BY <3>1 DEF IInv, Inv, Writes, ringVars
    <3> QED BY <3>2, <3>3
  <2> QED BY <2>1, <2>2
<1>4. Typed'
  <2>1. writer' \in [Writers -> Actor]
    BY DEF IInv, Typed
  <2>2. \A v \in Writers : /\ writer'[v].pc \in {"idle", "granted", "copy", "next", "final"}
                           /\ writer'[v].kind \in {"Single", "Frag", "Multi"}
    BY <2>1 DEF Actor
  <2> QED BY <2>1, <2>2 DEF IInv, Typed, TypeOK, ringVars
<1>5. BulkOutPending' <=> bulk'.pc # "idle"
  BY DEF IInv, Inv
<1> QED BY <1>2, <1>3, <1>4, <1>5 DEF IInv, Inv

\* The state of a writer that is done.
LEMMA IdleType == Idle \in Actor /\ Idle.pc = "idle"
BY DEF Idle, Actor

\* The others stay as they are, and one who gets to work meets no one at work.
LEMMA OneWritesStays ==
  ASSUME IInv, NEW w \in Writers, NEW y \in Actor, writer' = [writer EXCEPT ![w] = y],
         UNCHANGED <<CurWritePosition, CurWriteRealPos, bCurWriting>>,
         bCurWriting => \E v \in Writers : Busy(v)',
         y.pc # "idle" => \A v \in Writers : v # w /\ writer[v].pc # "idle" =>
                            {y.kind, writer[v].kind} \subseteq Concurrent,
         y.pc \in {"copy", "next", "final"} => \A v \in Writers : v # w => ~Busy(v)
  PROVE  OneWrites'
<1>1. writer'[w] = y /\ \A v \in Writers : v # w => writer'[v] = writer[v]
  BY DEF IInv, Typed
<1>2. ASSUME NEW u \in Writers, NEW v \in Writers, u # v, writer'[u].pc # "idle", writer'[v].pc # "idle"
      PROVE  /\ {writer'[u].kind, writer'[v].kind} \subseteq Concurrent
             /\ ~(Busy(u)' /\ Busy(v)')
  <2>1. CASE u = w
    BY <1>1, <1>2, <2>1 DEF Busy
  <2>2. CASE v = w
    BY <1>1, <1>2, <2>2 DEF Busy
  <2>3. CASE u # w /\ v # w
    BY <1>1, <1>2, <2>3 DEF Busy, IInv, Inv, OneWrites
  <2> QED BY <2>1, <2>2, <2>3
<1>3. IF bCurWriting THEN CurWriteRealPos > CurWritePosition ELSE CurWriteRealPos = CurWritePosition
  BY DEF IInv, Inv, OneWrites
<1> QED BY <1>2, <1>3 DEF OneWrites

\* RTMPDeQueuePacket: a writer finds room for a packet.
LEMMA DequeueKeeps ==
  ASSUME IInv, NEW w \in Writers, RTMPDeQueuePacket(w)
  PROVE  IInv'
<1>1. PICK kind \in Kinds, n \in Lens :
        /\ ~NoRoomFor(n - 1)
        /\ \A v \in Writers : writer[v].pc # "idle" => {kind, writer[v].kind} \subseteq Concurrent
        /\ writer' = [writer EXCEPT ![w] = [Idle EXCEPT !.pc = "granted", !.kind = kind, !.total = n]]
  BY DEF RTMPDeQueuePacket
<1>2. PICK y : y = [Idle EXCEPT !.pc = "granted", !.kind = kind, !.total = n]
  OBVIOUS
<1>3. y \in Actor /\ y.pc = "granted" /\ y.kind = kind /\ y.total = n /\ y.k = 0
  <2>1. n \in Nat /\ kind \in {"Single", "Frag", "Multi"}
    BY TxRingAssumption
  <2> QED BY <1>2, <2>1 DEF Idle, Actor
<1>4. writer' = [writer EXCEPT ![w] = y] /\ writer'[w] = y /\ writer[w].pc = "idle"
  BY <1>1, <1>2 DEF RTMPDeQueuePacket, IInv, Typed
<1>5. UNCHANGED <<ringVars, BulkOutPending, BulkOutReset, bulk, carried, fifo, nextId>> /\ Unlocked
  BY DEF RTMPDeQueuePacket
<1>6. \A v \in Writers : v # w => writer'[v] = writer[v]
  BY <1>4 DEF IInv, Typed
<1>7. bCurWriting => \E v \in Writers : Busy(v)'
  <2> SUFFICES ASSUME bCurWriting PROVE \E v \in Writers : Busy(v)'
    OBVIOUS
  <2>1. PICK v \in Writers : Busy(v)
    BY DEF IInv, Inv, OneWrites
  <2> QED BY <1>4, <1>6, <2>1 DEF Busy
<1>8. OneWrites'
  <2>1. \A v \in Writers : v # w /\ writer[v].pc # "idle" => {y.kind, writer[v].kind} \subseteq Concurrent
    BY <1>1, <1>3
  <2>2. y.pc \notin {"copy", "next", "final"}
    BY <1>3
  <2>3. UNCHANGED <<CurWritePosition, CurWriteRealPos, bCurWriting>>
    BY <1>5 DEF ringVars
  <2> QED BY <1>3, <1>4, <1>7, <2>1, <2>2, <2>3, OneWritesStays
<1>9. Waits(w)'
  <2>1. /\ Behind => CurWritePosition + n + 4 <= NextBulkOutPosition
        /\ CurWritePosition = Pad => Behind
    <3>1. /\ CurWritePosition \in Nat /\ NextBulkOutPosition \in Nat /\ LocalTxBuf \in Nat
          /\ 5 <= LocalTxBuf /\ n \in Nat
      BY Numbers DEF IInv
    <3>2. /\ Behind => ~(CurWritePosition + (n - 1) + LocalTxBuf > NextBulkOutPosition)
          /\ CurWritePosition = Pad => ~(NextBulkOutPosition < (n - 1) + LocalTxBuf)
      BY <1>1 DEF NoRoomFor, Behind
    <3>3. 4 <= n
      BY Numbers DEF IInv
    <3> QED BY <3>1, <3>2, <3>3 DEF Behind, Pad
  <2>2. ~Busy(w)' /\ (Behind' <=> Behind)
    BY <1>3, <1>4, <1>5 DEF Busy, Behind, ringVars
  <2> QED BY <1>3, <1>4, <1>5, <2>1, <2>2 DEF Waits, ringVars
<1>10. Writes(w)'
  BY <1>3, <1>4 DEF Writes, Busy
<1> QED BY <1>3, <1>4, <1>5, <1>8, <1>9, <1>10, QuietStep DEF IInv, Typed, TypeOK

\* A writer of a batch meets no one.
LEMMA BatchAlone ==
  ASSUME IInv, Fits, NEW w \in Writers, writer[w].pc # "idle", writer[w].kind # "Single",
         NEW v \in Writers, v # w
  PROVE  writer[v].pc = "idle"
BY DEF IInv, Inv, OneWrites, Fits

\* The first piece is refused; a batch goes on without it.
LEMMA RefusedKeeps ==
  ASSUME IInv, Fits, NEW w \in Writers, WriteRefused(w)
  PROVE  IInv'
<1>1. PICK x \in Actor : x = writer[w] /\ x.pc = "granted"
  BY DEF WriteRefused, IInv, Typed
<1>2. PICK y : y = IF x.kind = "Single" THEN Idle ELSE [x EXCEPT !.pc = "next", !.id = nextId]
  OBVIOUS
<1>3. nextId \in Nat /\ nextId' \in Nat
  BY <1>1 DEF WriteRefused, IInv, Typed, TypeOK
<1>4. /\ y \in Actor
      /\ x.kind = "Single" => y.pc = "idle"
      /\ x.kind # "Single" => y.pc = "next" /\ y.kind = x.kind /\ y.total = x.total
  BY <1>1, <1>2, <1>3, IdleType DEF Actor
<1>5. writer' = [writer EXCEPT ![w] = y] /\ writer'[w] = y /\ \A v \in Writers : v # w => writer'[v] = writer[v]
  BY <1>1, <1>2 DEF WriteRefused, IInv, Typed
<1>6. UNCHANGED <<ringVars, BulkOutPending, BulkOutReset, bulk, carried, fifo>> /\ Unlocked
  BY DEF WriteRefused
<1>7. x.kind # "Single" => ~bCurWriting /\ \A v \in Writers : v # w => writer[v].pc = "idle"
  <2> SUFFICES ASSUME x.kind # "Single"
               PROVE  ~bCurWriting /\ \A v \in Writers : v # w => writer[v].pc = "idle"
    OBVIOUS
  <2>1. \A v \in Writers : v # w => writer[v].pc = "idle"
    BY <1>1, BatchAlone
  <2>2. \A v \in Writers : ~Busy(v)
    BY <1>1, <2>1 DEF Busy
  <2> QED BY <2>1, <2>2 DEF IInv, Inv, OneWrites
<1>8. bCurWriting => \E v \in Writers : Busy(v)'
  <2> SUFFICES ASSUME bCurWriting PROVE \E v \in Writers : Busy(v)'
    OBVIOUS
  <2>1. PICK v \in Writers : Busy(v)
    BY DEF IInv, Inv, OneWrites
  <2> QED BY <1>1, <1>5, <2>1 DEF Busy
<1>9. OneWrites'
  <2>1. \A v \in Writers : v # w /\ y.pc # "idle" => writer[v].pc = "idle" /\ ~Busy(v)
    BY <1>4, <1>7 DEF Busy
  <2> QED BY <1>4, <1>5, <1>6, <1>8, <2>1, OneWritesStays DEF ringVars
<1>10. Waits(w)'
  <2>1. x.total \in Lens
    BY <1>1 DEF IInv, Inv, Waits
  <2> QED BY <1>1, <1>4, <1>5, <1>6, <2>1 DEF Waits, Busy, ringVars
<1>11. Writes(w)'
  BY <1>1, <1>4, <1>5, <1>6, <1>7 DEF Writes, Busy, ringVars
<1> QED BY <1>3, <1>4, <1>5, <1>6, <1>9, <1>10, <1>11, QuietStep

\* Without a claim the rest of a batch is dropped.
LEMMA DropKeeps ==
  ASSUME IInv, NEW w \in Writers, WriteNext(w), ~bCurWriting
  PROVE  IInv'
<1>1. PICK x \in Actor : x = writer[w] /\ x.pc = "next"
  BY DEF WriteNext, IInv, Typed
<1>2. PICK y : y = IF x.kind = "Multi" THEN [x EXCEPT !.pc = "final"] ELSE Idle
  OBVIOUS
<1>3. /\ y \in Actor
      /\ IF x.kind = "Multi" THEN y.pc = "final" /\ y.kind = x.kind /\ y.total = x.total ELSE y.pc = "idle"
  BY <1>1, <1>2, IdleType DEF Actor
<1>4. writer' = [writer EXCEPT ![w] = y] /\ writer'[w] = y /\ \A v \in Writers : v # w => writer'[v] = writer[v]
  BY <1>1, <1>2 DEF WriteNext, IInv, Typed
<1>5. UNCHANGED <<ringVars, BulkOutPending, BulkOutReset, bulk, carried, fifo, nextId>> /\ Unlocked
  BY DEF WriteNext, ringVars
<1>6. Busy(w) /\ \A v \in Writers : v # w => ~Busy(v)
  BY <1>1, Alone DEF Busy
<1>7. OneWrites'
  <2>1. \A v \in Writers : v # w /\ writer[v].pc # "idle" => {x.kind, writer[v].kind} \subseteq Concurrent
    BY <1>1 DEF IInv, Inv, OneWrites
  <2>2. y.pc # "idle" => y.kind = x.kind
    BY <1>3
  <2>3. UNCHANGED <<CurWritePosition, CurWriteRealPos, bCurWriting>>
    BY <1>5 DEF ringVars
  <2>4. y.pc # "idle" => \A v \in Writers : v # w /\ writer[v].pc # "idle" =>
                                            {y.kind, writer[v].kind} \subseteq Concurrent
    BY <2>1, <2>2
  <2> QED BY <1>3, <1>4, <1>6, <2>3, <2>4, OneWritesStays
<1>8. Waits(w)'
  <2>1. x.total \in Lens
    BY <1>1 DEF IInv, Inv, Waits
  <2> QED BY <1>3, <1>4, <1>5, <2>1 DEF Waits, Busy, ringVars
<1>9. Writes(w)'
  BY <1>5 DEF Writes, ringVars
<1>10. nextId' \in Nat
  BY <1>5 DEF IInv, Typed, TypeOK
<1> QED BY <1>3, <1>4, <1>5, <1>7, <1>8, <1>9, <1>10, QuietStep

\* A list that ends where it begins is empty, and no list ends before.
LEMMA RunEmpty ==
  ASSUME NEW s \in Seq(Frames), NEW p \in Nat, NEW q \in Nat, Run(s, 1, Len(s), p, q)
  PROVE  p <= q /\ (p = q <=> s = <<>>)
<1>1. CASE s = <<>>
  <2>1. 1 > Len(s)
    BY <1>1
  <2> QED BY <1>1, <2>1 DEF Run
<1>2. CASE s # <<>>
  <2>1. 1 \in 1..Len(s) /\ Len(s) \in Nat
    BY <1>2, EmptySeq, LenProperties
  <2>2. s[1].pos \in Nat /\ s[1].len \in Nat
    BY <2>1, FrameTypes
  <2>3. p <= s[1].pos /\ 2 <= s[1].len /\ End(s[1]) <= q
    BY <2>1 DEF Run
  <2> QED BY <1>2, <2>2, <2>3 DEF End
<1> QED BY <1>1, <1>2

\* The claim of the ring, with the first header.
LEMMA FirstKeeps ==
  ASSUME IInv, Fits, NEW w \in Writers, WriteFirst(w)
  PROVE  IInv'
<1>1. PICK x \in Actor : x = writer[w] /\ x.pc = "granted"
  BY DEF WriteFirst, IInv, Typed
<1>2. PICK W \in Nat, N \in Nat, E \in Nat, r \in {0, 1} :
        /\ W = CurWritePosition /\ N = NextBulkOutPosition /\ E = ENextBulkOutPosition
        /\ r = Reserve
  BY Numbers DEF IInv, Reserve, Pad
<1>3. PICK s, turns : s = W + r /\ turns = (x.kind = "Single" /\ TurnsAt(W + r + x.total))
  OBVIOUS
<1>4. PICK y : y = [x EXCEPT !.pc = "copy", !.id = nextId, !.at = s, !.priv = Piece(x, 0), !.last = turns]
  OBVIOUS
<1>5. /\ Unlocked /\ CanDoWrite /\ bCurWriting' = TRUE /\ CurWritePosition' = s
      /\ ENextBulkOutPosition' = E + r /\ CurWriteRealPos' = s + 1
      /\ buf' = [buf EXCEPT ![s] = Header(nextId, Piece(x, 0), turns)]
      /\ writer' = [writer EXCEPT ![w] = y]
      /\ nextId' = nextId + IF x.kind = "Frag" THEN 2 ELSE 1
      /\ UNCHANGED <<NextBulkOutPosition, bCopySavePad, SavedPad, Header_802_3, BulkOutPending,
                     BulkOutReset, bulk, carried, fifo>>
  BY <1>1, <1>2, <1>3, <1>4 DEF WriteFirst
<1>6. ~Locked /\ ~Locked' /\ Start = E /\ Start' = E + r
  BY <1>2, <1>5 DEF Locked, Unlocked, Start
<1>7. /\ ~bCurWriting /\ (W < N => W + LocalTxBuf <= N) /\ (W = Pad => LocalTxBuf <= N)
      /\ r = (IF E = W THEN 1 ELSE 0) /\ s \in Nat
  <2>1. LocalTxBuf \in Nat
    BY Numbers DEF IInv
  <2>2. ~bCurWriting /\ ~(W < N /\ W + 0 + LocalTxBuf > N) /\ ~(W = Pad /\ N < 0 + LocalTxBuf)
    BY <1>2, <1>5 DEF CanDoWrite, NoRoomFor
  <2> QED BY <1>2, <1>3, <2>1, <2>2 DEF Reserve, Pad
<1>8. /\ x.total \in Lens /\ x.total \in Nat /\ 4 <= x.total /\ x.total <= HeadRoom /\ x.k = 0
      /\ x.kind \in {"Single", "Frag", "Multi"}
      /\ LocalTxBuf \in Nat /\ 5 <= LocalTxBuf /\ LastPlace \in Nat /\ HeadRoom \in Nat
      /\ Limit = LastPlace + HeadRoom /\ Cells = 0..(Limit + HeadRoom)
      /\ Concurrent = {} => (W < N => W + x.total + 4 <= N)
  <2>1. x.total \in Lens /\ x.k = 0 /\ (Concurrent = {} => (W < N => W + x.total + 4 <= N))
    BY <1>1, <1>2 DEF IInv, Inv, Waits, Behind
  <2> QED BY <2>1, Numbers DEF IInv, Actor
<1>9. W < N => W + x.total + 4 <= N
  <2>1. CASE Concurrent = {}
    BY <1>8, <2>1
  <2>2. CASE x.total + 4 <= LocalTxBuf
    BY <1>7, <1>8, <2>2
  <2> QED BY <1>8, <2>1, <2>2 DEF Fits
<1>10. W <= LastPlace
  BY <1>2, <1>7, <1>8 DEF IInv, Inv, Bounded
<1>11. s \in Cells
  BY <1>3, <1>8, <1>10
<1>12. PICK t \in 0..Len(fifo) : Lies(t) /\ Headers(t) /\ Walks(t)
  BY DEF IInv, Inv
<1>13. bCopySavePad => E # W
  BY <1>2, <1>7 DEF IInv, Inv, Saves
<1>14. fifo \in Seq(Frames) /\ Len(fifo) \in Nat
  BY Numbers DEF IInv, Typed, TypeOK
<1>15. carried # <<>> => End(carried[Len(carried)]) \in Nat
                         /\ (N <= E => End(carried[Len(carried)]) <= E)
  BY <1>2, <1>6, CarriedFrames DEF IInv, Inv, Carries
<1>16. \A i \in 1..Len(fifo) : fifo[i].pos \in Nat /\ End(fifo[i]) \in Nat
  BY <1>14, FrameTypes
<1>17. /\ Lies(t)' /\ (N <= E + r => N <= E)
       /\ \A i \in 1..Len(fifo) : s < fifo[i].pos \/ End(fifo[i]) <= s
       /\ carried # <<>> => s < N \/ End(carried[Len(carried)]) < s
  <2>1. CASE t = 0 /\ Run(fifo, 1, Len(fifo), E, W)
    <3>1. E <= W /\ (E = W <=> fifo = <<>>)
      BY <1>14, <2>1, RunEmpty
    <3>2. N <= E \/ (W < N /\ Pad <= E /\ ~bCopySavePad)
      BY <1>2, <1>6, <1>12, <2>1 DEF Lies, Behind
    <3>3. Run(fifo, 1, Len(fifo), E + r, s)
      <4>1. CASE r = 0
        BY <1>2, <1>3, <2>1, <4>1
      <4>2. CASE r = 1
        <5>1. fifo = <<>> /\ E = W /\ 1 > Len(fifo)
          BY <1>7, <3>1, <4>2
        <5> QED BY <1>3, <4>2, <5>1 DEF Run
      <4> QED BY <4>1, <4>2
    <3>4. \A i \in 1..Len(fifo) : End(fifo[i]) <= s
      <4> TAKE i \in 1..Len(fifo)
      <4>1. End(fifo[i]) <= W
        BY <2>1 DEF Run
      <4> QED BY <1>2, <1>3, <1>16, <4>1
    <3>5. carried # <<>> => s < N \/ End(carried[Len(carried)]) < s
      BY <1>2, <1>3, <1>7, <1>8, <1>15, <3>1, <3>2
    <3>6. N <= E + r => N <= E
      BY <1>2, <1>7, <1>8, <3>1, <3>2
    <3>7. N <= E => N <= E + r
      BY <1>2
    <3>8. W < N /\ Pad <= E => s < N /\ Pad <= E + r
      BY <1>2, <1>3, <1>7, <1>8 DEF Pad
    <3>9. Lies(t)'
      BY <1>2, <1>5, <1>6, <2>1, <3>2, <3>3, <3>7, <3>8 DEF Lies, Behind
    <3> QED BY <3>4, <3>5, <3>6, <3>9
  <2>2. CASE /\ t \in 1..Len(fifo) /\ Run(fifo, 1, t, E, End(fifo[t]))
             /\ Run(fifo, t + 1, Len(fifo), Pad, W)
             /\ N <= E /\ (W < N \/ (W = Pad /\ N <= Pad))
    <3>1. W < N /\ r = 0 /\ s = W
      BY <1>2, <1>3, <1>7, <1>8, <2>2 DEF Pad
    <3>2. Lies(t)'
      BY <1>2, <1>5, <1>6, <2>2, <3>1 DEF Lies, Behind
    <3>3. ASSUME NEW i \in 1..Len(fifo) PROVE s < fifo[i].pos \/ End(fifo[i]) <= s
      <4>1. CASE i \in 1..t
        <5>1. E <= fifo[i].pos
          BY <2>2, <4>1 DEF Run
        <5> QED BY <1>2, <1>16, <2>2, <3>1, <5>1
      <4>2. CASE i \in (t + 1)..Len(fifo)
        BY <2>2, <3>1, <4>2 DEF Run
      <4> QED BY <1>14, <4>1, <4>2
    <3> QED BY <2>2, <3>1, <3>2, <3>3
  <2> QED BY <1>2, <1>6, <1>12, <2>1, <2>2 DEF Lies, Behind
<1>18. bCopySavePad => E + r = E /\ s # E
  BY <1>2, <1>3, <1>7, <1>13
<1>19. nextId \in Nat /\ buf \in [Cells -> Cell] /\ Piece(x, 0) = (IF x.kind = "Single" THEN x.total ELSE 2)
  BY <1>8 DEF IInv, Typed, TypeOK, Piece
<1>20. Header(nextId, Piece(x, 0), turns) \in Cell
  BY <1>3, <1>8, <1>19 DEF Header, Cell
<1>21. Bodies' /\ BulkIntact' /\ Headers(t)'
  <2> DEFINE D == {s}
  <2>1. \A c \in Cells : c \in D \/ buf'[c] = buf[c]
    BY <1>5, <1>19
  <2>2. \A c \in D :
           /\ \A i \in 1..Len(fifo) : c < fifo[i].pos \/ End(fifo[i]) <= c
           /\ ~Locked /\ carried # <<>> => c < NextBulkOutPosition \/ End(carried[Len(carried)]) < c
           /\ bCopySavePad => c # ENextBulkOutPosition
    BY <1>2, <1>17, <1>18
  <2>3. bCopySavePad => UNCHANGED ENextBulkOutPosition
    BY <1>2, <1>5, <1>18
  <2> HIDE DEF D
  <2> QED BY <1>5, <1>6, <1>12, <2>1, <2>2, <2>3, RingStays
<1>35. turns \in BOOLEAN
  BY <1>3 DEF TurnsAt
<1>22. y \in Actor /\ y.pc = "copy" /\ y.kind = x.kind /\ y.total = x.total /\ y.k = 0 /\ y.at = s
       /\ y.id = nextId /\ y.priv = Piece(x, 0) /\ y.last = turns
  <2>1. PICK p \in Nat, n \in Nat : p = Piece(x, 0) /\ n = nextId
    BY <1>8, <1>19
  <2>2. y = [x EXCEPT !.pc = "copy", !.id = n, !.at = s, !.priv = p, !.last = turns]
    BY <1>4, <2>1
  <2>3. s \in Nat /\ x.k = 0
    BY <1>7, <1>8
  <2>4. /\ y \in Actor /\ y.pc = "copy" /\ y.kind = x.kind /\ y.total = x.total /\ y.k = 0
        /\ y.at = s /\ y.id = n /\ y.priv = p /\ y.last = turns
    BY <1>35, <2>2, <2>3 DEF Actor
  <2> QED BY <2>1, <2>4
<1>23. writer'[w] = y /\ \A v \in Writers : v # w => writer'[v] = writer[v]
  BY <1>5 DEF IInv, Typed
<1>24. \A v \in Writers : v # w => ~Busy(v)
  <2> TAKE v \in Writers
  <2> HAVE v # w
  <2> SUFFICES ASSUME Busy(v) PROVE FALSE
    OBVIOUS
  <2>1. writer[v].kind # "Single" /\ writer[v].pc # "idle"
    BY <1>7 DEF IInv, Inv, Waits, Busy
  <2> QED BY <1>1, <2>1, BatchAlone
<1>25. OneWrites'
  <2>1. \A v \in Writers : v # w => ~Busy(v)'
    BY <1>23, <1>24 DEF Busy
  <2>2. Busy(w)'
    BY <1>22, <1>23 DEF Busy
  <2>3. ASSUME NEW u \in Writers, NEW v \in Writers, u # v, writer'[u].pc # "idle", writer'[v].pc # "idle"
        PROVE  {writer'[u].kind, writer'[v].kind} \subseteq Concurrent
    <3>1. writer[u].pc # "idle" /\ writer[v].pc # "idle"
      BY <1>1, <1>23, <2>3
    <3>2. writer'[u].kind = writer[u].kind /\ writer'[v].kind = writer[v].kind
      BY <1>1, <1>22, <1>23
    <3> QED BY <2>3, <3>1, <3>2 DEF IInv, Inv, OneWrites
  <2>4. CurWriteRealPos' > CurWritePosition'
    BY <1>5, <1>7
  <2> QED BY <1>5, <2>1, <2>2, <2>3, <2>4 DEF OneWrites
<1>26. ASSUME NEW v \in Writers, v # w PROVE Waits(v)' /\ Writes(v)'
  <2>1. ~Busy(v)' /\ writer'[v] = writer[v]
    BY <1>23, <1>24, <1>26 DEF Busy
  <2>2. writer[v].pc = "granted" => Concurrent # {}
    BY <1>1, <1>26 DEF IInv, Inv, OneWrites
  <2>3. Waits(v)'
    BY <2>1, <2>2 DEF Waits, IInv, Inv
  <2> QED BY <2>1, <2>3 DEF Writes
<1>27. Waits(w)'
  BY <1>5, <1>8, <1>22, <1>23 DEF Waits
<1>28. Writes(w)'
  <2>1. HeaderAt(s)' = Header(nextId, Piece(x, 0), turns)
    BY <1>2, <1>5, <1>11, <1>18, <1>19 DEF HeaderAt
  <2>2. Behind' => s + x.total + 3 <= N
    BY <1>2, <1>3, <1>5, <1>8, <1>9, SMTT(60) DEF Behind
  <2>3. turns = (x.kind = "Single" /\ TurnsAt(s + x.total))
    BY <1>3
  <2>4. y.last = ((y.kind = "Single" \/ (y.kind = "Frag" /\ y.k = 1)) /\ TurnsAt(s + y.total))
    BY <1>8, <1>22, <2>3
  <2>5. HeaderAt(s)' = Header(y.id, IF y.kind = "Single" THEN y.total ELSE 2, y.kind = "Single" /\ y.last)
    <3>1. turns = (y.kind = "Single" /\ y.last)
      BY <1>8, <1>22, <2>3
    <3> QED BY <1>19, <1>22, <2>1, <3>1
  <2>6. y.at = s /\ y.priv = (IF y.kind = "Single" THEN y.total ELSE 2) /\ y.k = 0 /\ y.pc = "copy"
    BY <1>19, <1>22
  <2>7. CurWritePosition' = s /\ NextBulkOutPosition' = N /\ CurWriteRealPos' = s + 1
    BY <1>2, <1>5
  <2> QED BY <1>22, <1>23, <2>2, <2>4, <2>5, <2>6, <2>7 DEF Writes
<1>36. 1 <= s /\ Pad <= s
  <2>1. CASE t = 0 /\ Run(fifo, 1, Len(fifo), E, W)
    <3>1. E <= W
      BY <1>14, <2>1, RunEmpty
    <3> QED BY <1>2, <1>3, <1>7, <3>1 DEF Pad
  <2>2. CASE t \in 1..Len(fifo) /\ Run(fifo, t + 1, Len(fifo), Pad, W)
    <3>1. \A k \in (t + 1)..Len(fifo) : fifo[k] \in Frames
      <4> TAKE k \in (t + 1)..Len(fifo)
      <4>1. k \in 1..Len(fifo)
        BY <1>14, <2>2
      <4> QED BY <1>14, <4>1, FrameTypes
    <3>2. t + 1 \in Int /\ Len(fifo) \in Int /\ Pad \in Int /\ W \in Int
      BY <1>2, <1>14, <2>2 DEF Pad
    <3>3. Pad <= W
      BY <2>2, <3>1, <3>2, RunForward
    <3> QED BY <1>2, <1>3, <3>3 DEF Pad
  <2> QED BY <1>2, <1>6, <1>12, <2>1, <2>2 DEF Lies
<1>29. Bounded'
  <2>1. s <= LastPlace + 1 /\ E + r <= LastPlace + 3 /\ Pad <= s
    <3>1. E <= LastPlace + 3
      BY <1>2 DEF IInv, Inv, Bounded
    <3>2. Pad <= s
      BY <1>36
    <3> QED BY <3>2, <1>2, <1>3, <1>7, <1>8, <1>10, <3>1
  <2> QED BY <1>2, <1>5, <2>1 DEF Bounded, IInv, Inv
<1>30. Carries'
  <2>1. carried # <<>> /\ N <= E + r =>
          End(carried[Len(carried)]) <= E + r /\ End(carried[Len(carried)]) # s
    <3>1. carried # <<>> => End(carried[Len(carried)]) < s \/ s < N
      BY <1>17
    <3>2. carried # <<>> => N <= End(carried[Len(carried)])
      <4> HAVE carried # <<>>
      <4>1. carried[Len(carried)].pos \in Nat /\ carried[Len(carried)].len \in Nat /\ N <= carried[Len(carried)].pos
        BY <1>2, <1>6, CarriedFrames
      <4> QED BY <1>2, <4>1 DEF End
    <3> QED BY <1>2, <1>7, <1>15, <1>17, <3>1, <3>2
  <2> QED BY <1>2, <1>5, <1>6, <2>1 DEF Carries, IInv, Inv
<1>37. Saves'
  <2>1. bCopySavePad => Pad < E
    BY <1>2 DEF IInv, Inv, Saves
  <2> QED BY <1>5, <1>18, <2>1 DEF Saves
<1>31. (BulkOutPending' <=> bulk'.pc # "idle") /\ Walks(t)'
  BY <1>5, <1>6 DEF Walks, IInv, Inv
<1>32. Typed'
  <2>1. buf' \in [Cells -> Cell]
    BY <1>5, <1>19, <1>20
  <2>2. writer' \in [Writers -> Actor]
    BY <1>5, <1>22 DEF IInv, Typed
  <2>3. \A v \in Writers : /\ writer'[v].pc \in {"idle", "granted", "copy", "next", "final"}
                           /\ writer'[v].kind \in {"Single", "Frag", "Multi"}
    BY <2>2 DEF Actor
  <2>4. s + 1 \in Cells /\ E + r \in Cells
    <3>1. E <= LastPlace + 3
      BY <1>2 DEF IInv, Inv, Bounded
    <3> QED BY <1>2, <1>3, <1>7, <1>8, <1>10, <3>1
  <2>5. nextId' \in Nat
    BY <1>5, <1>19
  <2> QED BY <1>5, <1>11, <2>1, <2>2, <2>3, <2>4, <2>5 DEF IInv, Typed, TypeOK
<1> QED BY <1>5, <1>12, <1>17, <1>21, <1>25, <1>26, <1>27, <1>28, <1>29, <1>30, <1>31, <1>32, <1>37 DEF IInv, Inv

\* The second piece of a batch that has the ring.
LEMMA NextKeeps ==
  ASSUME IInv, NEW w \in Writers, WriteNext(w), bCurWriting
  PROVE  IInv'
<1>1. PICK x \in Actor : x = writer[w] /\ x.pc = "next" /\ Busy(w)
  BY DEF WriteNext, IInv, Typed, Busy
<1>2. PICK W \in Nat, N \in Nat : W = CurWritePosition /\ N = NextBulkOutPosition
  BY Numbers DEF IInv
<1>3. /\ x.total \in Lens /\ x.total \in Nat /\ 4 <= x.total /\ x.total <= HeadRoom
      /\ HeadRoom \in Nat /\ LastPlace \in Nat /\ Cells = 0..(LastPlace + HeadRoom + HeadRoom)
  <2>1. x.total \in Lens
    BY <1>1 DEF IInv, Inv, Waits
  <2> QED BY <2>1, Numbers DEF IInv
<1>4. /\ Behind => W + x.total + 3 <= N
      /\ x.k = 0 /\ x.kind # "Single" /\ x.kind \in {"Single", "Frag", "Multi"}
      /\ x.at = W /\ x.priv = 2 /\ CurWriteRealPos = W + 1
      /\ HeaderAt(W) = Header(x.id, 2, FALSE)
      /\ \A c \in (W + 1)..(W + 2 - 1) : buf[c] = Body(x.id)
  <2>1. Writes(w)
    BY DEF IInv, Inv
  <2>2. x.kind # "Single" /\ x.k = 0 /\ x.kind \in {"Single", "Frag", "Multi"}
    BY <1>1, <2>1 DEF Writes, Actor
  <2>3. (x.kind = "Single" /\ x.last) = FALSE
    BY <2>2
  <2>4. HeaderAt(W) = Header(x.id, IF x.kind = "Single" THEN x.total ELSE 2, x.kind = "Single" /\ x.last)
    BY <1>1, <1>2, <2>1 DEF Writes
  <2>5. HeaderAt(W) = Header(x.id, 2, FALSE)
    BY <2>2, <2>3, <2>4
  <2>6. \A c \in (W + 1)..(W + 2 - 1) : buf[c] = Body(x.id)
    BY <1>1, <1>2, <2>1, <2>2 DEF Writes
  <2>7. Behind => W + x.total + 3 <= N
    BY <1>1, <1>2, <2>1 DEF Writes
  <2>8. x.at = W /\ x.priv = 2 /\ CurWriteRealPos = W + 1
    BY <1>1, <1>2, <2>1, <2>2 DEF Writes
  <2> QED BY <2>2, <2>5, <2>6, <2>7, <2>8
<1>5. PICK turns : turns = TurnsAt(W + x.total)
  OBVIOUS
<1>6. Piece(x, 1) = x.total - 2 /\ x.total - 2 \in Nat /\ (W + 2) + (x.total - 2) = W + x.total
      /\ 2 + (x.total - 2) = x.total
  <2>1. Piece(x, 1) = x.total - 2
    BY <1>4 DEF Piece
  <2>2. PICK n \in Nat : n = x.total /\ 4 <= n
    BY <1>3
  <2>3. n - 2 \in Nat /\ (W + 2) + (n - 2) = W + n /\ 2 + (n - 2) = n
    BY <1>2, <2>2
  <2> QED BY <2>1, <2>2, <2>3
<1>7. PICK y : y = [x EXCEPT !.pc = "copy", !.k = 1, !.at = W + 2, !.priv = x.total,
                             !.last = x.kind = "Frag" /\ turns]
  OBVIOUS
<1>22. turns \in BOOLEAN /\ (x.kind = "Frag" /\ turns) \in BOOLEAN
  BY <1>5 DEF TurnsAt
<1>8. /\ writer' = [writer EXCEPT ![w] = y]
      /\ IF x.kind = "Frag"
           THEN /\ buf' = [buf EXCEPT ![W + 2] = Header(x.id + 1, x.total - 2, turns)]
                /\ CurWriteRealPos' = CurWriteRealPos + 1
           ELSE UNCHANGED <<buf, CurWriteRealPos>>
      /\ UNCHANGED <<CurWritePosition, NextBulkOutPosition, ENextBulkOutPosition,
                     bCurWriting, bCopySavePad, SavedPad, Header_802_3, BulkOutPending, BulkOutReset,
                     bulk, carried, fifo, nextId>>
      /\ Unlocked
  <2>1. CurWritePosition + x.priv = W + 2
    BY <1>2, <1>4
  <2>2. TurnsAt((W + 2) + Piece(x, 1)) = turns
    BY <1>5, <1>6
  <2>3. writer' = [writer EXCEPT ![w] = [x EXCEPT !.pc = "copy", !.k = 1, !.at = W + 2,
                     !.priv = @ + Piece(x, 1), !.last = x.kind = "Frag" /\ turns]]
    BY <1>1, <2>1, <2>2 DEF WriteNext
  <2>4. x.priv + Piece(x, 1) = x.total
    BY <1>4, <1>6
  <2>5. writer' = [writer EXCEPT ![w] = y]
    BY <1>7, <2>3, <2>4
  <2>6. IF x.kind = "Frag"
           THEN /\ buf' = [buf EXCEPT ![W + 2] = Header(x.id + 1, x.total - 2, turns)]
                /\ CurWriteRealPos' = CurWriteRealPos + 1
           ELSE UNCHANGED <<buf, CurWriteRealPos>>
    BY <1>1, <1>6, <2>1, <2>2 DEF WriteNext
  <2> QED BY <2>5, <2>6 DEF WriteNext
<1>9. /\ y \in Actor /\ y.pc = "copy" /\ y.kind = x.kind /\ y.total = x.total /\ y.k = 1
      /\ y.at = W + 2 /\ y.id = x.id /\ y.priv = x.total /\ y.last = (x.kind = "Frag" /\ turns)
  <2>1. PICK b \in BOOLEAN : b = (x.kind = "Frag" /\ turns)
    BY <1>22
  <2>2. PICK n \in Nat, p \in Nat : n = x.total /\ p = W + 2
    BY <1>2, <1>3
  <2>3. y = [x EXCEPT !.pc = "copy", !.k = 1, !.at = p, !.priv = n, !.last = b]
    BY <1>7, <2>1, <2>2
  <2>4. /\ y \in Actor /\ y.pc = "copy" /\ y.kind = x.kind /\ y.total = x.total /\ y.k = 1
        /\ y.at = p /\ y.id = x.id /\ y.priv = n /\ y.last = b
    BY <2>3 DEF Actor
  <2> QED BY <2>1, <2>2, <2>4
<1>10. writer'[w] = y /\ \A v \in Writers : v # w => writer'[v] = writer[v]
  BY <1>8 DEF IInv, Typed
<1>11. /\ W + 2 \in CurWritePosition..(CurWritePosition + writer[w].total) /\ W + 2 # CurWritePosition
       /\ W + 1 \in CurWritePosition..(CurWritePosition + writer[w].total) /\ W + 1 # CurWritePosition
       /\ W \in CurWritePosition..(CurWritePosition + writer[w].total)
  BY <1>1, <1>2, <1>3
<1>12. W + 1 \in Cells /\ W + 2 \in Cells /\ W \in Cells
  BY <1>1, <1>11, Room
<1>13. buf \in [Cells -> Cell] /\ \A c \in Cells : c \in {W + 2} \/ buf'[c] = buf[c]
  BY <1>8 DEF IInv, Typed, TypeOK
<1>14. Bodies' /\ BulkIntact' /\ \A t : Headers(t) => Headers(t)'
  <2> DEFINE D == {W + 2}
  <2>1. \A c \in D :
           /\ \A i \in 1..Len(fifo) : c < fifo[i].pos \/ End(fifo[i]) <= c
           /\ ~Locked /\ carried # <<>> => c < NextBulkOutPosition \/ End(carried[Len(carried)]) < c
           /\ bCopySavePad => c # ENextBulkOutPosition
    BY <1>1, <1>11, Room
  <2>2. \A c \in Cells : c \in D \/ buf'[c] = buf[c]
    BY <1>13
  <2> HIDE DEF D
  <2> QED BY <1>8, <2>1, <2>2, RingStays
<1>15. Bounded' /\ Saves' /\ Carries' /\ (BulkOutPending' <=> bulk'.pc # "idle")
       /\ \A t : Lies(t) /\ Walks(t) => Lies(t)' /\ Walks(t)'
  <2>1. Locked' = Locked /\ Start' = Start /\ Behind' = Behind
    BY <1>8 DEF Locked, Start, Behind
  <2>2. Bounded' /\ Saves' /\ (BulkOutPending' <=> bulk'.pc # "idle")
    BY <1>8 DEF IInv, Inv, Bounded, Saves
  <2>3. Carries'
    BY <1>8, <2>1 DEF IInv, Inv, Carries
  <2>4. ASSUME NEW t, Lies(t), Walks(t) PROVE Lies(t)' /\ Walks(t)'
    BY <1>8, <2>1, <2>4 DEF Lies, Walks
  <2> QED BY <2>2, <2>3, <2>4
<1>16. Typed'
  <2>1. writer' \in [Writers -> Actor]
    BY <1>8, <1>9 DEF IInv, Typed
  <2>2. \A v \in Writers : /\ writer'[v].pc \in {"idle", "granted", "copy", "next", "final"}
                           /\ writer'[v].kind \in {"Single", "Frag", "Multi"}
    BY <2>1 DEF Actor
  <2>3. buf' \in [Cells -> Cell]
    <3>1. Header(x.id + 1, x.total - 2, turns) \in Cell
      BY <1>6, <1>22 DEF Header, Cell, Actor
    <3> QED BY <1>8, <1>13, <3>1
  <2>4. CurWriteRealPos' \in Cells
    <3>1. CurWriteRealPos' \in {W + 1, W + 2}
      BY <1>2, <1>4, <1>8
    <3> QED BY <1>12, <3>1
  <2> QED BY <1>8, <2>1, <2>2, <2>3, <2>4 DEF IInv, Typed, TypeOK
<1>17. OneWrites'
  <2>1. \A v \in Writers : /\ Busy(v)' <=> Busy(v)
                           /\ writer'[v].pc # "idle" <=> writer[v].pc # "idle"
                           /\ writer'[v].kind = writer[v].kind
    <3> TAKE v \in Writers
    <3>1. CASE v = w
      BY <1>1, <1>9, <1>10, <3>1 DEF Busy
    <3>2. CASE v # w
      BY <1>10, <3>2 DEF Busy
    <3> QED BY <3>1, <3>2
  <2>2. CurWriteRealPos' > CurWritePosition'
    BY <1>2, <1>4, <1>8
  <2> QED BY <1>8, <2>1, <2>2 DEF IInv, Inv, OneWrites
<1>18. Waits(w)'
  BY <1>3, <1>8, <1>9, <1>10 DEF Waits
<1>19. Writes(w)'
  <2>1. Behind' => W + x.total + 3 <= N
    BY <1>4, <1>8 DEF Behind
  <2>2. HeaderAt(W)' = HeaderAt(W)
    <3>1. buf'[W] = buf[W]
      <4>1. W # W + 2
        BY <1>2
      <4> QED BY <1>12, <1>13, <4>1
    <3> QED BY <1>8, <3>1 DEF HeaderAt
  <2>3. x.kind = "Frag" => buf'[W + 2] = Header(x.id + 1, x.total - 2, turns)
    BY <1>8, <1>12, <1>13
  <2>4. buf'[W + 1] = Body(x.id)
    <3>1. W + 1 # W + 2 /\ W + 1 \in (W + 1)..(W + 2 - 1)
      BY <1>2
    <3> QED BY <1>4, <1>12, <1>13, <3>1
  <2>5. \A c \in (W + 1)..(W + 2 - 1) : buf'[c] = Body(x.id)
    <3>1. \A c \in (W + 1)..(W + 2 - 1) : c = W + 1
      BY <1>2
    <3> QED BY <2>4, <3>1
  <2>6. CurWritePosition' = W /\ NextBulkOutPosition' = N
    BY <1>2, <1>8
  <2>7. y.last = ((y.kind = "Single" \/ (y.kind = "Frag" /\ y.k = 1)) /\ TurnsAt(W + y.total))
    BY <1>4, <1>5, <1>9
  <2>8. HeaderAt(W)' = Header(y.id, IF y.kind = "Single" THEN y.total ELSE 2, y.kind = "Single" /\ y.last)
    <3>1. (y.kind = "Single" /\ y.last) = FALSE /\ y.kind # "Single"
      BY <1>4, <1>9
    <3> QED BY <1>4, <1>9, <2>2, <3>1
  <2>9. y.kind = "Frag" => buf'[W + 2] = Header(y.id + 1, y.total - 2, y.last)
    <3> SUFFICES ASSUME y.kind = "Frag" PROVE buf'[W + 2] = Header(y.id + 1, y.total - 2, y.last)
      OBVIOUS
    <3>1. y.last = turns
      BY <1>9, <1>22
    <3> QED BY <1>9, <2>3, <3>1
  <2>10. \A c \in (W + 1)..(W + (IF y.kind = "Single" THEN y.total ELSE 2) - 1) : buf'[c] = Body(y.id)
    BY <1>4, <1>9, <2>5
  <2>11. y.k = 1 /\ y.pc = "copy" /\ y.at = W + 2 /\ y.priv = y.total /\ y.kind # "Single"
         /\ (Behind' => W + y.total + 3 <= N)
    BY <1>4, <1>9, <2>1
  <2> QED BY <1>10, <2>6, <2>7, <2>8, <2>9, <2>10, <2>11 DEF Writes
<1>20. \A v \in Writers : Waits(v)' /\ Writes(v)'
  BY <1>1, <1>8, <1>10, <1>18, <1>19, OthersKeep
<1>21. (\E t \in 0..Len(fifo) : Lies(t) /\ Headers(t) /\ Walks(t))'
  <2>1. PICK t \in 0..Len(fifo) : Lies(t) /\ Headers(t) /\ Walks(t)
    BY DEF IInv, Inv
  <2> QED BY <1>8, <1>14, <1>15, <2>1
<1> QED BY <1>14, <1>15, <1>16, <1>17, <1>20, <1>21 DEF IInv, Inv

\* A commit: the frames of a write join the list, and the writing position moves behind
\* them, or to the next lap.
Commits(w, W, n, turns, m, L) ==
  /\ Busy(w) /\ bCurWriting /\ ~Locked
  /\ W = CurWritePosition /\ n = writer[w].total /\ turns = TurnsAt(W + n) /\ m = Len(fifo)
  /\ fifo' \in Seq(Frames) /\ Len(fifo') = m + L /\ \A k \in 1..m : fifo'[k] = fifo[k]
  /\ fifo'[m + 1].pos = W /\ fifo'[m + 1].len = IF L = 1 THEN n ELSE 2
  /\ L = 2 => fifo'[m + 2].pos = W + 2 /\ fifo'[m + 2].len = n - 2
  /\ UNCHANGED <<carried, bulk, NextBulkOutPosition, ENextBulkOutPosition, bCopySavePad,
                 BulkOutPending, BulkOutReset, nextId>>
  /\ ENextBulkOutPosition # W \/ ~bCopySavePad => UNCHANGED SavedPad
  /\ SavedPad' \in Cell /\ Header_802_3' \in Nat /\ buf' \in [Cells -> Cell]
  /\ \A c \in Cells : buf'[c] = buf[c] \/ (c \in W..(W + n)
                          /\ (c # W \/ ENextBulkOutPosition # c \/ ~bCopySavePad))
  /\ \A j \in (m + 1)..(m + L) :
       /\ \A p : p = fifo'[j].pos =>
            HeaderAt(p)' = Header(fifo'[j].id, fifo'[j].len, turns /\ j = m + L)
       /\ \A c \in (fifo'[j].pos + 1)..(fifo'[j].pos + fifo'[j].len - 1) : buf'[c] = Body(fifo'[j].id)
  /\ CurWritePosition' = IF turns THEN Pad ELSE W + n
  /\ CurWriteRealPos' = CurWritePosition' /\ bCurWriting' = FALSE
  /\ writer' = [writer EXCEPT ![w] = Idle]

\* A commit keeps the invariant: the frames join those of this lap or, the writer turning, end it.
LEMMA CommitKeeps ==
  ASSUME IInv, NEW w \in Writers, NEW W, NEW n, NEW turns \in BOOLEAN, NEW m \in Nat, NEW L \in {1, 2},
         Commits(w, W, n, turns, m, L)
  PROVE  IInv'
<1>31. Busy(w) /\ bCurWriting /\ ~Locked /\ W = CurWritePosition /\ n = writer[w].total /\ turns = TurnsAt(W + n)
       /\ m = Len(fifo)
  BY DEF Commits
<1>32. fifo' \in Seq(Frames) /\ Len(fifo') = m + L /\ \A k \in 1..m : fifo'[k] = fifo[k]
  BY DEF Commits
<1>33. /\ fifo'[m + 1].pos = W /\ fifo'[m + 1].len = IF L = 1 THEN n ELSE 2
       /\ L = 2 => fifo'[m + 2].pos = W + 2 /\ fifo'[m + 2].len = n - 2
  BY DEF Commits
<1>34. UNCHANGED <<carried, bulk, NextBulkOutPosition, ENextBulkOutPosition, bCopySavePad,
                   BulkOutPending, BulkOutReset, nextId>>
  BY DEF Commits
<1>35. /\ ENextBulkOutPosition # W \/ ~bCopySavePad => UNCHANGED SavedPad
       /\ SavedPad' \in Cell /\ Header_802_3' \in Nat /\ buf' \in [Cells -> Cell]
  BY DEF Commits
<1>36. \A c \in Cells : buf'[c] = buf[c] \/ (c \in W..(W + n)
                          /\ (c # W \/ ENextBulkOutPosition # c \/ ~bCopySavePad))
  BY DEF Commits
<1>37. \A j \in (m + 1)..(m + L) :
         /\ \A p : p = fifo'[j].pos =>
              HeaderAt(p)' = Header(fifo'[j].id, fifo'[j].len, turns /\ j = m + L)
         /\ \A c \in (fifo'[j].pos + 1)..(fifo'[j].pos + fifo'[j].len - 1) : buf'[c] = Body(fifo'[j].id)
  BY DEF Commits
<1>38. /\ CurWritePosition' = IF turns THEN Pad ELSE W + n
       /\ CurWriteRealPos' = CurWritePosition' /\ bCurWriting' = FALSE
       /\ writer' = [writer EXCEPT ![w] = Idle]
  BY DEF Commits
<1>1. PICK N \in Nat, E \in Nat : N = NextBulkOutPosition /\ E = ENextBulkOutPosition
  BY Numbers DEF IInv
<1>2. /\ n \in Nat /\ 4 <= n /\ n <= HeadRoom /\ W \in Nat
      /\ LastPlace \in Nat /\ 1 <= LastPlace /\ HeadRoom \in Nat /\ Limit = LastPlace + HeadRoom
      /\ Cells = 0..(Limit + HeadRoom)
  <2>1. n \in Lens
    BY <1>31 DEF IInv, Inv, Waits, Busy
  <2>2. W \in Nat
    BY <1>31, Numbers DEF IInv
  <2> QED BY <2>1, <2>2, Numbers DEF IInv
<1>3. (W < N => W + n + 3 <= N) /\ W <= LastPlace + 1 /\ Pad <= W /\ N <= LastPlace + 3 /\ E <= LastPlace + 3
  <2>1. Behind => W + n + 3 <= N
    BY <1>1, <1>31 DEF IInv, Inv, Writes
  <2>2. W <= LastPlace + 1 /\ Pad <= W /\ N <= LastPlace + 3 /\ E <= LastPlace + 3
    BY <1>1, <1>31 DEF IInv, Inv, Bounded
  <2> QED BY <1>1, <1>31, <2>1, <2>2 DEF Behind
<1>4. turns <=> W + n > LastPlace
  <2>1. (W + n) + HeadRoom > Limit <=> W + n > LastPlace
    BY <1>2
  <2> QED BY <1>31, <2>1 DEF TurnsAt
<1>5. PICK V \in Nat : V = CurWritePosition'
  BY <1>2, <1>38 DEF Pad
<1>6. (turns => V = Pad) /\ (~turns => V = W + n) /\ Pad <= V /\ V <= LastPlace
  BY <1>2, <1>3, <1>4, <1>5, <1>38 DEF Pad
<1>7. W < N => ~turns
  BY <1>1, <1>2, <1>3, <1>4
<1>8. fifo \in Seq(Frames) /\ \A k \in 1..(m + L) : fifo'[k] \in Frames
  BY <1>32, LenProperties DEF IInv, Typed, TypeOK
<1>9. ~Locked' /\ Start = E /\ Start' = E /\ Visited = 0 /\ Visited' = 0
  BY <1>1, <1>31, <1>34 DEF Locked, Start, Visited
<1>10. PICK t \in 0..m : Lies(t) /\ Headers(t) /\ Walks(t)
  BY <1>31 DEF IInv, Inv
<1>11. \A i \in 1..m : fifo[i].pos \in Nat /\ End(fifo[i]) \in Nat
  BY <1>8, <1>31, FrameTypes
<1>12. End(fifo'[m + L]) = W + n
  <2>1. CASE L = 1
    BY <1>2, <1>33, <2>1 DEF End
  <2>2. CASE L = 2
    BY <1>2, <1>33, <2>2 DEF End
  <2> QED BY <2>1, <2>2
\* The list ends where the writer ends.
<1>13. ASSUME NEW i \in 1..(m + 1), NEW p \in Nat, Run(fifo, i, m, p, W)
       PROVE  Run(fifo', i, m + L, p, W + n)
  <2>1. \A k \in i..m : k \in 1..m
    BY <1>13
  <2>2. i \in Int /\ m \in Int /\ i <= m + 1
    OBVIOUS
  <2>3. Run(fifo', i, m, p, W)
    BY <1>13, <1>32, <2>1, <2>2, RunSame
  <2>4. \A k \in i..(m + L) : k \in 1..(m + L)
    BY <1>13
  <2>5. PICK s : s = fifo'
    OBVIOUS
  <2>6. Run(s, i, m + 1, p, End(s[m + 1]))
    <3>1. \A k \in i..(m + 1) : s[k] \in Frames
      BY <1>8, <2>4, <2>5
    <3>2. s[m + 1].pos = W /\ 2 <= s[m + 1].len
      BY <1>2, <1>33, <2>5
    <3>3. Run(s, i, m, p, W) /\ W \in Int /\ p \in Int
      BY <1>2, <2>3, <2>5
    <3> QED BY <2>2, <3>1, <3>2, <3>3, RunGrows
  <2>7. CASE L = 1
    BY <1>12, <2>5, <2>6, <2>7
  <2>8. CASE L = 2
    <3>1. End(s[m + 1]) = W + 2 /\ s[m + 2].pos = W + 2 /\ 2 <= s[m + 2].len
      BY <1>2, <1>33, <2>5, <2>8 DEF End
    <3>2. (m + 1) + 1 = m + 2 /\ m + 1 \in Int /\ i <= (m + 1) + 1 /\ W + 2 \in Int /\ p \in Int
      BY <1>2
    <3>3. \A k \in i..(m + 2) : s[k] \in Frames
      BY <1>8, <2>4, <2>5, <2>8
    <3>4. Run(s, i, m + 1, p, W + 2)
      BY <2>6, <3>1
    <3>5. Run(s, i, (m + 1) + 1, p, End(s[(m + 1) + 1]))
      BY <2>2, <3>1, <3>2, <3>3, <3>4, RunGrows
    <3> QED BY <1>12, <2>5, <2>8, <3>2, <3>5
  <2> QED BY <2>7, <2>8
<1>14. PICK u \in 0..(m + L) : u = IF turns THEN m + L ELSE t
  OBVIOUS
<1>15. /\ Lies(u)' /\ (turns => t = 0)
       /\ bCopySavePad => E # V
       /\ E = W => fifo = <<>>
  <2>1. CASE t = 0 /\ Run(fifo, 1, m, E, W)
    <3>1. E <= W /\ (E = W => fifo = <<>>)
      BY <1>1, <1>2, <1>8, <1>31, <2>1, RunEmpty
    <3>2. N <= E \/ (W < N /\ Pad <= E /\ ~bCopySavePad)
      BY <1>1, <1>9, <1>10, <1>31, <2>1 DEF Lies, Behind
    <3>3. Run(fifo', 1, m + L, E, W + n)
      <4>1. 1 \in 1..(m + 1)
        OBVIOUS
      <4> QED BY <1>13, <2>1, <4>1
    <3>4. bCopySavePad => E # V
      <4>1. bCopySavePad => Pad < E
        BY <1>1 DEF IInv, Inv, Saves
      <4>2. ~turns => E < V
        BY <1>1, <1>2, <1>6, <3>1
      <4> QED BY <1>1, <1>6, <4>1, <4>2 DEF Pad
    <3>5. CASE turns
      <4>1. N <= E /\ u = m + L /\ V = Pad
        BY <1>6, <1>7, <1>14, <3>2, <3>5
      <4>2. Run(fifo', 1, u, E, End(fifo'[u]))
        BY <1>12, <3>3, <4>1
      <4>3. Run(fifo', u + 1, Len(fifo'), Pad, V)
        BY <1>32, <4>1 DEF Run
      <4>4. V < N \/ (V = Pad /\ N <= Pad)
        BY <1>1, <4>1 DEF Pad
      <4>5. u \in 1..Len(fifo')
        BY <1>32, <4>1
      <4>6. Lies(u)'
        BY <1>1, <1>5, <1>9, <4>1, <4>2, <4>3, <4>4, <4>5, <1>34, <1>38 DEF Lies, Behind
      <4> QED BY <2>1, <3>1, <3>4, <4>6
    <3>6. CASE ~turns
      <4>1. V = W + n /\ u = 0
        BY <1>6, <1>14, <2>1, <3>6
      <4>2. W < N => V < N
        BY <1>1, <1>2, <1>3, <4>1
      <4>3. Lies(0)'
        BY <1>1, <1>5, <1>9, <3>2, <3>3, <4>1, <4>2, <1>32, <1>34 DEF Lies, Behind
      <4> QED BY <3>1, <3>4, <3>6, <4>1, <4>3
    <3> QED BY <3>5, <3>6
  <2>2. CASE /\ t \in 1..m /\ Run(fifo, 1, t, E, End(fifo[t]))
             /\ Run(fifo, t + 1, m, Pad, W)
             /\ N <= E /\ W < N
    <3>1. ~turns /\ V = W + n /\ u = t
      BY <1>6, <1>7, <1>14, <2>2
    <3>2. Run(fifo', t + 1, m + L, Pad, V)
      <4>1. t + 1 \in 1..(m + 1) /\ Pad \in Nat
        BY <2>2 DEF Pad
      <4> QED BY <1>13, <2>2, <3>1, <4>1
    <3>3. Run(fifo', 1, t, E, End(fifo'[t]))
      <4>1. \A k \in 1..t : k \in 1..m
        BY <2>2
      <4>2. \A k \in 1..t : fifo'[k] = fifo[k]
        BY <1>32, <4>1
      <4>3. Run(fifo', 1, t, E, End(fifo[t]))
        BY <2>2, <4>2, RunSame
      <4> QED BY <2>2, <4>2, <4>3
    <3>4. V < N /\ E # V /\ E # W
      BY <1>1, <1>2, <1>3, <2>2, <3>1
    <3>5. t \in 1..Len(fifo')
      BY <1>32, <2>2
    <3>6. Lies(t)'
      BY <1>1, <1>5, <1>9, <2>2, <3>2, <3>3, <3>4, <3>5, <1>32, <1>34 DEF Lies, Behind
    <3> QED BY <3>1, <3>4, <3>6
  <2> QED BY <1>1, <1>9, <1>10, <1>31, <2>1, <2>2 DEF Lies, Behind
<1>16. /\ \A p : \A i \in 1..m : p = fifo[i].pos => HeaderAt(p)' = HeaderAt(p)
       /\ \A c \in Nat : \A i \in 1..m :
            fifo[i].pos < c /\ c < End(fifo[i]) => buf'[c] = Body(fifo[i].id)
       /\ BulkIntact'
  <2> DEFINE D == {c \in W..(W + n) : c # W \/ ENextBulkOutPosition # c \/ ~bCopySavePad}
  <2>1. \A c \in D :
           /\ \A i \in 1..Len(fifo) : c < fifo[i].pos \/ End(fifo[i]) <= c
           /\ ~Locked /\ carried # <<>> => c < NextBulkOutPosition \/ End(carried[Len(carried)]) < c
           /\ bCopySavePad => c # ENextBulkOutPosition
    <3> TAKE c \in D
    <3>1. c \in CurWritePosition..(CurWritePosition + writer[w].total)
      BY <1>31
    <3>2. c # CurWritePosition \/ ENextBulkOutPosition # c \/ ~bCopySavePad
      BY <1>31
    <3>3. bCopySavePad => c # ENextBulkOutPosition
      <4>1. c # CurWritePosition => (bCopySavePad => c # ENextBulkOutPosition)
        BY <1>31, <3>1, Room
      <4> QED BY <3>2, <4>1
    <3> QED BY <1>31, <3>1, <3>2, <3>3, Room
  <2>2. \A c \in Cells : c \in D \/ buf'[c] = buf[c]
    BY <1>36
  <2>3. fifo # <<>> => UNCHANGED SavedPad
    BY <1>1, <1>15, <1>35
  <2> HIDE DEF D
  <2> QED BY <1>31, <1>34, <2>1, <2>2, <2>3, CellsStay
<1>17. Bodies'
  <2> SUFFICES ASSUME NEW i \in 1..(m + L), NEW c \in (fifo'[i].pos + 1)..(fifo'[i].pos + fifo'[i].len - 1)
               PROVE  buf'[c] = Body(fifo'[i].id)
    BY <1>32 DEF Bodies, BodyIntact
  <2>1. CASE i \in 1..m
    <3>1. fifo'[i] = fifo[i] /\ fifo[i].pos \in Nat /\ fifo[i].len \in Nat
      BY <1>8, <1>31, <1>32, <2>1, FrameTypes
    <3>2. c \in Nat /\ fifo[i].pos < c /\ c < End(fifo[i])
      <4>1. c \in (fifo[i].pos + 1)..(fifo[i].pos + fifo[i].len - 1)
        BY <3>1
      <4> QED BY <3>1, <4>1 DEF End
    <3>3. buf'[c] = Body(fifo[i].id)
      BY <1>16, <2>1, <3>2
    <3> QED BY <3>1, <3>3
  <2>2. CASE i \in (m + 1)..(m + L)
    BY <1>37, <2>2
  <2> QED BY <2>1, <2>2
<1>18. Headers(u)'
  <2> SUFFICES ASSUME NEW i \in 1..(m + L), NEW p, p = fifo'[i].pos
               PROVE  HeaderAt(p)' = Header(fifo'[i].id, fifo'[i].len, i = u)
    BY <1>9, <1>32 DEF Headers
  <2>1. CASE i \in 1..m
    <3>1. fifo'[i] = fifo[i]
      BY <1>32, <2>1
    <3>2. HeaderAt(p)' = HeaderAt(p)
      BY <1>16, <2>1, <3>1
    <3>3. HeaderAt(p) = Header(fifo[i].id, fifo[i].len, i = t)
      <4>1. i \in 1..Len(fifo) /\ i > Visited
        BY <1>9, <1>31, <2>1
      <4>2. HeaderAt(fifo[i].pos) = Header(fifo[i].id, fifo[i].len, i = t)
        BY <1>10, <4>1 DEF Headers
      <4> QED BY <3>1, <4>2
    <3>4. (i = u) = (i = t)
      <4>1. CASE turns
        <5>1. i # u /\ i # t
          BY <1>14, <1>15, <2>1, <4>1
        <5> QED BY <5>1
      <4>2. CASE ~turns
        BY <1>14, <4>2
      <4> QED BY <4>1, <4>2
    <3> QED BY <3>1, <3>2, <3>3, <3>4
  <2>2. CASE i \in (m + 1)..(m + L)
    <3>1. HeaderAt(p)' = Header(fifo'[i].id, fifo'[i].len, turns /\ i = m + L)
      BY <1>37, <2>2
    <3>2. (i = u) = (turns /\ i = m + L)
      BY <1>14, <2>2
    <3> QED BY <3>1, <3>2
  <2> QED BY <2>1, <2>2
<1>19. Bounded'
  <2>1. ASSUME NEW i \in 1..(m + L)
        PROVE  Pad <= fifo'[i].pos /\ fifo'[i].pos <= LastPlace + 3 /\ End(fifo'[i]) <= Limit + 1
    <3>1. CASE i \in 1..m
      BY <1>31, <1>32, <3>1 DEF IInv, Inv, Bounded
    <3>2. CASE i = m + 1
      BY <1>2, <1>3, <1>33, <3>2 DEF End, Pad
    <3>3. CASE L = 2 /\ i = m + 2
      BY <1>2, <1>3, <1>33, <3>3 DEF End, Pad
    <3> QED BY <3>1, <3>2, <3>3
  <2>2. V <= LastPlace + 0
    BY <1>2, <1>5, <1>6
  <2> QED BY <1>1, <1>3, <1>5, <1>32, <1>34, <1>38, <2>1, <2>2 DEF Bounded
<1>20. Saves' /\ Carries' /\ (BulkOutPending' <=> bulk'.pc # "idle") /\ Walks(u)'
  <2>1. Saves'
    BY <1>1, <1>5, <1>15, <1>34 DEF Saves, IInv, Inv
  <2>2. Carries'
    BY <1>9, <1>31, <1>34, <1>38 DEF Carries, IInv, Inv
  <2>3. Walks(u)' /\ (BulkOutPending' <=> bulk'.pc # "idle")
    BY <1>9, <1>34 DEF Walks, IInv, Inv
  <2> QED BY <2>1, <2>2, <2>3
<1>21. writer'[w] = Idle /\ (\A v \in Writers : v # w => writer'[v] = writer[v]) /\ Idle.pc = "idle"
  BY <1>38 DEF IInv, Typed, Idle
<1>22. \A v \in Writers : ~Busy(v)'
  <2> TAKE v \in Writers
  <2>1. CASE v = w
    BY <1>21, <2>1 DEF Busy
  <2>2. CASE v # w
    BY <1>21, <1>31, <2>2, Alone DEF Busy
  <2> QED BY <2>1, <2>2
<1>23. OneWrites'
  <2>1. ASSUME NEW v1 \in Writers, NEW v2 \in Writers, v1 # v2, writer'[v1].pc # "idle", writer'[v2].pc # "idle"
        PROVE  {writer'[v1].kind, writer'[v2].kind} \subseteq Concurrent
    <3>1. writer'[v1] = writer[v1] /\ writer'[v2] = writer[v2]
      BY <1>21, <2>1
    <3> QED BY <2>1, <3>1 DEF IInv, Inv, OneWrites
  <2> QED BY <1>22, <1>38, <2>1 DEF OneWrites
<1>24. ASSUME NEW v \in Writers PROVE Waits(v)' /\ Writes(v)'
  <2>1. CASE v = w
    BY <1>21, <1>22, <1>38, <2>1 DEF Waits, Writes
  <2>2. CASE v # w
    <3>1. writer'[v] = writer[v]
      BY <1>21, <2>2
    <3>2. writer[v].pc = "granted" => Concurrent # {}
      BY <1>31, <2>2 DEF IInv, Inv, OneWrites, Busy
    <3>3. Waits(v)'
      BY <1>22, <3>1, <3>2 DEF Waits, IInv, Inv
    <3> QED BY <1>22, <1>38, <3>3 DEF Writes
  <2> QED BY <2>1, <2>2
<1>25. Typed'
  <2>1. writer' \in [Writers -> Actor]
    BY <1>38, IdleType DEF IInv, Typed
  <2>2. \A v \in Writers : /\ writer'[v].pc \in {"idle", "granted", "copy", "next", "final"}
                           /\ writer'[v].kind \in {"Single", "Frag", "Multi"}
    BY <2>1 DEF Actor
  <2>3. V \in Cells
    BY <1>2, <1>5, <1>6
  <2> QED BY <1>5, <1>32, <1>34, <1>35, <1>38, <2>1, <2>2, <2>3, ZenonT(60) DEF IInv, Typed, TypeOK
<1> QED BY <1>14, <1>32, <1>15, <1>16, <1>17, <1>18, <1>19, <1>20, <1>23, <1>24, <1>25 DEF IInv, Inv

\* The frames of a write follow those before.
LEMMA Joined ==
  ASSUME NEW s \in Seq(Frames), NEW r \in Seq(Frames)
  PROVE  /\ s \o r \in Seq(Frames) /\ Len(s \o r) = Len(s) + Len(r)
         /\ \A k \in 1..Len(s) : (s \o r)[k] = s[k]
         /\ \A k \in 1..Len(r) : (s \o r)[Len(s) + k] = r[k]
<1>1. Len(s) \in Nat /\ Len(r) \in Nat
  BY LenProperties
<1>2. s \o r \in Seq(Frames) /\ Len(s \o r) = Len(s) + Len(r)
  BY ConcatProperties
<1>3. \A i \in 1..(Len(s) + Len(r)) : (s \o r)[i] = IF i <= Len(s) THEN s[i] ELSE r[i - Len(s)]
  BY ConcatProperties
<1>4. \A k \in 1..Len(r) : (s \o r)[Len(s) + k] = r[k]
  <2> TAKE k \in 1..Len(r)
  <2>1. Len(s) + k \in 1..(Len(s) + Len(r)) /\ ~(Len(s) + k <= Len(s)) /\ (Len(s) + k) - Len(s) = k
    BY <1>1
  <2> QED BY <1>3, <2>1
<1>5. \A k \in 1..Len(s) : (s \o r)[k] = s[k]
  <2> TAKE k \in 1..Len(s)
  <2>1. k \in 1..(Len(s) + Len(r)) /\ k <= Len(s)
    BY <1>1
  <2> QED BY <1>3, <2>1
<1> QED BY <1>2, <1>4, <1>5

\* The commit of a single packet or of the last fragment.
LEMMA WriteCommitKeeps ==
  ASSUME IInv, NEW w \in Writers, WriteCommit(w)
  PROVE  IInv'
<1>1. PICK x \in Actor : x = writer[w] /\ x.pc = "final" /\ x.kind # "Multi" /\ Busy(w)
  BY DEF WriteCommit, IInv, Typed, Busy
<1>2. bCurWriting
  BY <1>1 DEF IInv, Inv, Waits
<1>3. PICK W \in Nat, n \in Nat, m \in Nat : W = CurWritePosition /\ n = x.total /\ m = Len(fifo)
  BY Numbers DEF IInv, Actor
<1>4. n \in Lens /\ 4 <= n /\ n - 2 \in Nat
  <2>1. n \in Lens
    BY <1>1, <1>3 DEF IInv, Inv, Waits
  <2>2. 4 <= n
    BY <2>1, Numbers DEF IInv
  <2> QED BY <1>3, <2>1, <2>2
<1>5. PICK turns : turns = TurnsAt(W + n)
  OBVIOUS
<1>6. turns \in BOOLEAN
  BY <1>5 DEF TurnsAt
<1>7. x.kind \in {"Single", "Frag"} /\ (x.kind = "Frag" => x.k = 1) /\ (x.kind = "Single" => x.k = 0)
      /\ x.priv = n
  <2>1. Writes(w) /\ x.kind \in {"Single", "Frag"} /\ x.k \in {0, 1}
    BY <1>1 DEF IInv, Inv, Actor
  <2> QED BY <1>1, <1>2, <1>3, <2>1 DEF Writes
<1>8. x.last = turns
  <2>1. x.last = ((x.kind = "Single" \/ (x.kind = "Frag" /\ x.k = 1)) /\ TurnsAt(W + n))
    BY <1>1, <1>2, <1>3 DEF IInv, Inv, Writes
  <2> QED BY <1>5, <1>6, <1>7, <2>1
<1>9. /\ HeaderAt(W) = Header(x.id, IF x.kind = "Single" THEN n ELSE 2, x.kind = "Single" /\ x.last)
      /\ \A c \in (W + 1)..(W + (IF x.kind = "Single" THEN n ELSE 2) - 1) : buf[c] = Body(x.id)
      /\ x.kind = "Frag" => buf[W + 2] = Header(x.id + 1, n - 2, x.last)
      /\ x.kind = "Frag" => \A c \in (W + 3)..(W + n - 1) : buf[c] = Body(x.id + 1)
  BY <1>1, <1>2, <1>3, <1>7 DEF IInv, Inv, Writes
<1>10. /\ ~Locked
       /\ CurWritePosition' = IF turns THEN Pad ELSE W + n
       /\ CurWriteRealPos' = CurWritePosition'
       /\ bCurWriting' = FALSE /\ fifo' = fifo \o Written(x)
       /\ writer' = [writer EXCEPT ![w] = Idle]
       /\ UNCHANGED <<NextBulkOutPosition, ENextBulkOutPosition, bCopySavePad, SavedPad,
                      Header_802_3, buf, BulkOutPending, BulkOutReset, bulk, carried, nextId>>
  BY <1>1, <1>3, <1>7, <1>8 DEF WriteCommit, Locked, Unlocked
<1>11. PICK L \in {1, 2} : L = IF x.kind = "Single" THEN 1 ELSE 2
  OBVIOUS
<1>12. \A c \in W..(W + n) : c \in Cells
  BY <1>1, <1>2, <1>3, Room
<1>13. PICK f : f = [pos |-> W, len |-> n, id |-> x.id]
  OBVIOUS
<1>14. PICK a, b : a = [f EXCEPT !.len = IF x.kind = "Single" THEN n ELSE 2]
                   /\ b = [f EXCEPT !.pos = @ + 2, !.len = n - 2, !.id = @ + 1]
  OBVIOUS
<1>25. f \in Frames /\ f.pos = W /\ f.len = n /\ f.id = x.id /\ x.id \in Nat
  <2>1. W \in Cells
    BY <1>3, <1>4, <1>12
  <2>2. x.id \in Nat
    BY DEF Actor
  <2> QED BY <1>3, <1>13, <2>1, <2>2 DEF Frames
<1>26. /\ a \in Frames /\ a.pos = W /\ a.len = (IF x.kind = "Single" THEN n ELSE 2) /\ a.id = x.id
       /\ b \in Frames /\ b.pos = W + 2 /\ b.len = n - 2 /\ b.id = x.id + 1
  <2>1. PICK l \in Nat : l = IF x.kind = "Single" THEN n ELSE 2
    BY <1>3
  <2>2. PICK q \in Cells, k \in Nat, g \in Nat : q = W + 2 /\ k = n - 2 /\ g = x.id + 1
    BY <1>3, <1>4, <1>12, <1>25
  <2>3. a = [f EXCEPT !.len = l]
    BY <1>14, <2>1
  <2>4. b = [f EXCEPT !.pos = q, !.len = k, !.id = g]
    BY <1>14, <1>25, <2>2
  <2>5. a \in Frames /\ a.pos = W /\ a.len = l /\ a.id = x.id
    BY <1>25, <2>3 DEF Frames
  <2>6. b \in Frames /\ b.pos = q /\ b.len = k /\ b.id = g
    BY <1>25, <2>4 DEF Frames
  <2> QED BY <2>1, <2>2, <2>5, <2>6
<1>15. Written(x) = IF x.kind = "Single" THEN <<a>> ELSE <<a, b>>
  <2>1. CASE x.kind = "Single"
    <3>1. Written(x) = <<f>>
      BY <1>3, <1>7, <1>13, <2>1 DEF Written
    <3>2. a = f
      BY <1>13, <1>14, <2>1
    <3> QED BY <2>1, <3>1, <3>2
  <2>2. CASE x.kind = "Frag"
    <3>1. Piece(x, 0) = 2 /\ Piece(x, 1) = n - 2
      BY <1>3, <2>2 DEF Piece
    <3>2. Written(x) = <<[f EXCEPT !.len = 2], [f EXCEPT !.pos = @ + 2, !.len = n - 2, !.id = @ + 1]>>
      BY <1>3, <1>7, <1>13, <2>2, <3>1 DEF Written
    <3> QED BY <1>14, <2>2, <3>2
  <2> QED BY <1>7, <2>1, <2>2
<1>16. Written(x) \in Seq(Frames) /\ Len(Written(x)) = L /\ Written(x)[1] = a
       /\ (L = 2 => Written(x)[2] = b)
  BY <1>11, <1>26, <1>15
<1>17. /\ fifo' \in Seq(Frames) /\ Len(fifo') = m + L /\ \A k \in 1..m : fifo'[k] = fifo[k]
       /\ fifo'[m + 1] = a /\ (L = 2 => fifo'[m + 2] = b)
  <2>1. fifo \in Seq(Frames)
    BY DEF IInv, Typed, TypeOK
  <2>2. 1 \in 1..Len(Written(x)) /\ (L = 2 => 2 \in 1..Len(Written(x)))
    BY <1>16
  <2> QED BY <1>3, <1>10, <1>16, <2>1, <2>2, Joined
<1>19. \A p : HeaderAt(p)' = HeaderAt(p)
  BY <1>10 DEF HeaderAt
<1>20. /\ \A p : p = a.pos => HeaderAt(p)' = Header(a.id, a.len, turns /\ m + 1 = m + L)
       /\ \A c \in (a.pos + 1)..(a.pos + a.len - 1) : buf'[c] = Body(a.id)
  <2>1. (x.kind = "Single" /\ x.last) = (turns /\ m + 1 = m + L)
    <3>1. CASE x.kind = "Single"
      BY <1>6, <1>8, <1>11, <3>1
    <3>2. CASE x.kind = "Frag"
      BY <1>11, <3>2
    <3> QED BY <1>7, <3>1, <3>2
  <2>2. HeaderAt(W)' = Header(a.id, a.len, turns /\ m + 1 = m + L)
    BY <1>9, <1>26, <1>19, <2>1
  <2> QED BY <1>9, <1>10, <1>26, <2>2
<1>21. L = 2 =>
         /\ \A p : p = b.pos => HeaderAt(p)' = Header(b.id, b.len, turns /\ m + 2 = m + L)
         /\ \A c \in (b.pos + 1)..(b.pos + b.len - 1) : buf'[c] = Body(b.id)
  <2> HAVE L = 2
  <2>1. x.kind = "Frag" /\ (turns /\ m + 2 = m + L) = turns
    BY <1>6, <1>7, <1>11
  <2>2. HeaderAt(W + 2) = buf[W + 2]
    <3>1. W + 2 \in CurWritePosition..(CurWritePosition + writer[w].total) /\ W + 2 # CurWritePosition
      BY <1>1, <1>3, <1>4, SMTT(60)
    <3>2. bCopySavePad => W + 2 # ENextBulkOutPosition
      BY <1>1, <1>2, <3>1, Room
    <3> QED BY <3>2 DEF HeaderAt
  <2>3. HeaderAt(W + 2)' = Header(b.id, b.len, turns /\ m + 2 = m + L)
    <3>1. buf[W + 2] = Header(b.id, b.len, turns)
      BY <1>8, <1>9, <1>26, <2>1
    <3>2. HeaderAt(W + 2)' = HeaderAt(W + 2)
      BY <1>19
    <3> QED BY <2>1, <2>2, <3>1, <3>2
  <2>4. \A c \in (b.pos + 1)..(b.pos + b.len - 1) : c \in (W + 3)..(W + n - 1)
    <3>1. PICK q \in Nat, l \in Nat : q = b.pos /\ l = b.len /\ q = W + 2 /\ l = n - 2
      <4>1. W + 2 \in Nat
        BY <1>3
      <4> QED BY <1>4, <1>26, <4>1
    <3>2. q + 1 = W + 3 /\ q + l - 1 = W + n - 1
      BY <3>1
    <3> QED BY <3>1, <3>2
  <2>5. \A c \in (b.pos + 1)..(b.pos + b.len - 1) : buf'[c] = Body(b.id)
    BY <1>9, <1>10, <1>26, <2>1, <2>4
  <2> QED BY <1>26, <2>3, <2>5
<1>22. \A j \in (m + 1)..(m + L) :
         /\ \A p : p = fifo'[j].pos =>
              HeaderAt(p)' = Header(fifo'[j].id, fifo'[j].len, turns /\ j = m + L)
         /\ \A c \in (fifo'[j].pos + 1)..(fifo'[j].pos + fifo'[j].len - 1) : buf'[c] = Body(fifo'[j].id)
  <2> TAKE j \in (m + 1)..(m + L)
  <2>1. CASE j = m + 1
    BY <1>17, <1>20, <2>1
  <2>2. CASE L = 2 /\ j = m + 2
    BY <1>17, <1>21, <2>2
  <2> QED BY <2>1, <2>2
<1>23. SavedPad \in Cell /\ Header_802_3 \in Nat /\ buf \in [Cells -> Cell]
  BY DEF IInv, Typed, TypeOK
<1>24. Commits(w, W, n, turns, m, L)
  <2>1. /\ fifo'[m + 1].pos = W /\ fifo'[m + 1].len = IF L = 1 THEN n ELSE 2
        /\ L = 2 => fifo'[m + 2].pos = W + 2 /\ fifo'[m + 2].len = n - 2
    BY <1>7, <1>11, <1>17, <1>26
  <2> QED BY <1>1, <1>2, <1>3, <1>5, <1>10, <1>17, <1>22, <1>23, <2>1 DEF Commits
<1> QED BY <1>6, <1>24, CommitKeeps

\* The end of an aggregate, whose length is known only now.
LEMMA FinalKeeps ==
  ASSUME IInv, NEW w \in Writers, FinalWriteTxResource(w), bCurWriting
  PROVE  IInv'
<1>1. PICK x \in Actor : x = writer[w] /\ x.pc = "final" /\ x.kind = "Multi" /\ Busy(w)
  BY DEF FinalWriteTxResource, IInv, Typed, Busy
<1>3. PICK W \in Nat, n \in Nat, m \in Nat, N \in Nat, E \in Nat :
        /\ W = CurWritePosition /\ n = x.total /\ m = Len(fifo)
        /\ N = NextBulkOutPosition /\ E = ENextBulkOutPosition
  BY Numbers DEF IInv, Actor
<1>4. n \in Lens /\ 4 <= n
  <2>1. n \in Lens
    BY <1>1, <1>3 DEF IInv, Inv, Waits
  <2> QED BY <1>3, <2>1, Numbers DEF IInv
<1>5. PICK turns : turns = TurnsAt(W + n)
  OBVIOUS
<1>6. turns \in BOOLEAN
  BY <1>5 DEF TurnsAt
<1>7. x.k = 1 /\ x.priv = n /\ x.id \in Nat /\ (W < N => W + n + 3 <= N)
  <2>1. Writes(w) /\ x.k \in {0, 1} /\ x.id \in Nat
    BY <1>1 DEF IInv, Inv, Actor
  <2>2. x.k = 1
    BY <1>1, <2>1 DEF Writes
  <2> QED BY <1>1, <1>3, <2>1, <2>2 DEF Writes, Behind
<1>9. /\ HeaderAt(W) = Header(x.id, 2, FALSE)
      /\ buf[W + 1] = Body(x.id)
      /\ \A c \in (W + 2)..(W + n - 1) : buf[c] = Body(x.id)
  <2>1. Writes(w)
    BY DEF IInv, Inv
  <2>2. \A c \in (W + 1)..(W + 2 - 1) : buf[c] = Body(x.id)
    BY <1>1, <1>3, <1>7, <2>1 DEF Writes
  <2>3. HeaderAt(W) = Header(x.id, 2, x.kind = "Single" /\ x.last)
    BY <1>1, <1>3, <1>7, <2>1 DEF Writes
  <2>4. (x.kind = "Single" /\ x.last) = FALSE
    BY <1>1
  <2>5. \A c \in (W + 2)..(W + n - 1) : buf[c] = Body(x.id)
    BY <1>1, <1>3, <1>7, <2>1 DEF Writes
  <2>6. W + 1 \in (W + 1)..(W + 2 - 1)
    BY <1>3
  <2> QED BY <2>2, <2>3, <2>4, <2>5, <2>6
<1>11. ~Locked /\ Start = E
  BY <1>3 DEF FinalWriteTxResource, Locked, Unlocked, Start
\* The ring is empty only where its header may be saved.
<1>12. RingEmpty => E = W
  <2>1. PICK t \in 0..m : Lies(t)
    BY <1>3 DEF IInv, Inv
  <2>2. fifo \in Seq(Frames)
    BY DEF IInv, Typed, TypeOK
  <2>3. RingEmpty => E = W \/ E = W + 1
    BY <1>3 DEF RingEmpty, Pad
  <2>4. CASE Run(fifo, 1, m, E, W)
    <3>1. E <= W
      BY <1>3, <2>2, <2>4, RunEmpty
    <3> QED BY <1>3, <2>3, <3>1
  <2>5. CASE W < N /\ N <= E
    BY <1>3, <1>7, <2>3, <2>5
  <2> QED BY <1>3, <1>11, <2>1, <2>4, <2>5 DEF Lies, Behind
<1>13. PICK saved : saved = (RingEmpty /\ bCopySavePad)
  OBVIOUS
<1>14. saved <=> bCopySavePad /\ W = E
  BY <1>3, <1>12, <1>13 DEF RingEmpty
<1> DEFINE fixed(h) == [h EXCEPT !.len = n, !.last = @ \/ turns]
<1>15. /\ SavedPad' = IF saved THEN fixed(SavedPad) ELSE SavedPad
       /\ Header_802_3' = IF saved THEN n ELSE Header_802_3
       /\ buf' = [buf EXCEPT ![W] = IF saved THEN @ ELSE fixed(@), ![W + n] = Zero]
       /\ CurWritePosition' = IF turns THEN Pad ELSE W + n
       /\ CurWriteRealPos' = CurWritePosition' /\ bCurWriting' = FALSE
       /\ fifo' = fifo \o Written(x)
       /\ writer' = [writer EXCEPT ![w] = Idle]
       /\ UNCHANGED <<NextBulkOutPosition, ENextBulkOutPosition, bCopySavePad,
                      BulkOutPending, BulkOutReset, bulk, carried, nextId>>
  BY <1>1, <1>3, <1>5, <1>7, <1>13 DEF FinalWriteTxResource
<1>16. (IF saved THEN SavedPad ELSE buf[W]) = Header(x.id, 2, FALSE)
  BY <1>3, <1>9, <1>14 DEF HeaderAt
<1>17. fixed(Header(x.id, 2, FALSE)) = Header(x.id, n, turns)
  <2>1. PICK h : h = Header(x.id, 2, FALSE)
    OBVIOUS
  <2>2. h = [id |-> x.id, len |-> 2, last |-> FALSE, nv |-> FALSE]
    BY <2>1 DEF Header
  <2>3. (h.last \/ turns) = turns
    BY <1>6, <2>2
  <2>4. fixed(h) = [h EXCEPT !.len = n, !.last = h.last \/ turns]
    BY <2>2
  <2>8. PICK g : g = [id |-> x.id, len |-> n, last |-> turns, nv |-> FALSE]
    OBVIOUS
  <2>5. g \in Cell /\ g.id = x.id /\ g.len = n /\ g.last = turns /\ g.nv = FALSE
    BY <1>3, <1>6, <1>7, <2>8 DEF Cell
  <2>6. h \in Cell /\ h.id = x.id /\ h.nv = FALSE
    BY <1>7, <2>2 DEF Cell
  <2>7. [h EXCEPT !.len = n, !.last = turns] = g
    BY <1>3, <1>6, <2>5, <2>6 DEF Cell
  <2> QED BY <2>1, <2>3, <2>4, <2>7, <2>8 DEF Header
<1>18. /\ \A c \in W..(W + n) : c \in Cells
       /\ buf \in [Cells -> Cell] /\ SavedPad \in Cell
       /\ Header(x.id, n, turns) \in Cell /\ Zero \in Cell
  <2>1. \A c \in W..(W + n) : c \in Cells
    BY <1>1, <1>3, Room
  <2>2. Header(x.id, n, turns) \in Cell /\ Zero \in Cell
    BY <1>3, <1>6, <1>7 DEF Header, Zero, Cell
  <2> QED BY <2>1, <2>2 DEF IInv, Typed, TypeOK
<1>19. W \in Cells /\ W + n \in Cells /\ W # W + n
  BY <1>3, <1>4, <1>18
<1>20. /\ SavedPad' = IF saved THEN Header(x.id, n, turns) ELSE SavedPad
       /\ buf' = [[buf EXCEPT ![W] = IF saved THEN buf[W] ELSE Header(x.id, n, turns)]
                    EXCEPT ![W + n] = Zero]
  <2>1. SavedPad' = IF saved THEN Header(x.id, n, turns) ELSE SavedPad
    BY <1>15, <1>16, <1>17
  <2>2. buf' = [[buf EXCEPT ![W] = IF saved THEN buf[W] ELSE fixed(buf[W])] EXCEPT ![W + n] = Zero]
    BY <1>15
  <2> QED BY <1>16, <1>17, <2>1, <2>2
<1>21. /\ SavedPad' \in Cell /\ buf' \in [Cells -> Cell]
       /\ \A c \in Cells : c # W /\ c # W + n => buf'[c] = buf[c]
       /\ buf'[W] = IF saved THEN buf[W] ELSE Header(x.id, n, turns)
  BY <1>18, <1>19, <1>20
<1>22. HeaderAt(W)' = Header(x.id, n, turns)
  BY <1>3, <1>14, <1>15, <1>20, <1>21 DEF HeaderAt
<1>23. PICK a : a = [pos |-> W, len |-> n, id |-> x.id]
  OBVIOUS
<1>24. a \in Frames /\ a.pos = W /\ a.len = n /\ a.id = x.id /\ Written(x) = <<a>>
  BY <1>1, <1>3, <1>7, <1>19, <1>23 DEF Frames, Written
<1>25. /\ fifo' \in Seq(Frames) /\ Len(fifo') = m + 1 /\ \A k \in 1..m : fifo'[k] = fifo[k]
       /\ fifo'[m + 1] = a
  <2>1. fifo \in Seq(Frames)
    BY DEF IInv, Typed, TypeOK
  <2>2. <<a>> \in Seq(Frames) /\ Len(<<a>>) = 1 /\ <<a>>[1] = a /\ 1 \in 1..Len(<<a>>)
    BY <1>24
  <2> QED BY <1>3, <1>15, <1>24, <2>1, <2>2, Joined
<1>26. \A c \in (W + 1)..(W + n - 1) : buf'[c] = Body(x.id)
  <2> TAKE c \in (W + 1)..(W + n - 1)
  <2>1. c \in W..(W + n) /\ c # W /\ c # W + n /\ (c = W + 1 \/ c \in (W + 2)..(W + n - 1))
    BY <1>3, <1>4
  <2> QED BY <1>9, <1>18, <1>21, <2>1
<1>27. \A j \in (m + 1)..(m + 1) :
         /\ \A p : p = fifo'[j].pos =>
              HeaderAt(p)' = Header(fifo'[j].id, fifo'[j].len, turns /\ j = m + 1)
         /\ \A c \in (fifo'[j].pos + 1)..(fifo'[j].pos + fifo'[j].len - 1) : buf'[c] = Body(fifo'[j].id)
  <2> TAKE j \in (m + 1)..(m + 1)
  <2>1. j = m + 1 /\ (turns /\ j = m + 1) = turns /\ fifo'[j] = a
    BY <1>6, <1>25
  <2> QED BY <1>22, <1>24, <1>26, <2>1
<1>29. Header_802_3' \in Nat
  <2>1. Header_802_3 \in Nat
    BY DEF IInv, Typed, TypeOK
  <2> QED BY <1>3, <1>15, <2>1
<1>28. Commits(w, W, n, turns, m, 1)
  <2>1. \A c \in Cells : buf'[c] = buf[c] \/ (c \in W..(W + n)
                          /\ (c # W \/ ENextBulkOutPosition # c \/ ~bCopySavePad))
    <3> TAKE c \in Cells
    <3>1. CASE c = W + n
      BY <1>3, <1>4, <3>1
    <3>2. CASE c = W
      BY <1>3, <1>4, <1>14, <1>21, <3>2
    <3> QED BY <1>21, <3>1, <3>2
  <2>2. ENextBulkOutPosition # W \/ ~bCopySavePad => UNCHANGED SavedPad
    BY <1>3, <1>14, <1>20
  <2>3. fifo'[m + 1].pos = W /\ fifo'[m + 1].len = n
    BY <1>24, <1>25
  <2>4. PICK L \in {1, 2} : L = 1
    OBVIOUS
  <2>5. /\ fifo'[m + 1].len = (IF L = 1 THEN n ELSE 2)
        /\ L = 2 => fifo'[m + 2].pos = W + 2 /\ fifo'[m + 2].len = n - 2
    BY <2>3, <2>4
  <2>6. Commits(w, W, n, turns, m, L)
    <3>1. Busy(w) /\ bCurWriting /\ n = writer[w].total
      BY <1>1, <1>3
    <3>2. Len(fifo') = m + L
      BY <1>25, <2>4
    <3>3. \A j \in (m + 1)..(m + L) :
            /\ \A p : p = fifo'[j].pos =>
                 HeaderAt(p)' = Header(fifo'[j].id, fifo'[j].len, turns /\ j = m + L)
            /\ \A c \in (fifo'[j].pos + 1)..(fifo'[j].pos + fifo'[j].len - 1) : buf'[c] = Body(fifo'[j].id)
      BY <1>27, <2>4
    <3> QED BY <1>3, <1>5, <1>11, <1>15, <1>21, <1>25, <1>29, <2>1, <2>2, <2>3, <2>5, <3>1, <3>2, <3>3 DEF Commits
  <2> QED BY <2>4, <2>6
<1> QED BY <1>6, <1>28, CommitKeeps

\* An aggregate without a claim ends in nothing.
LEMMA FinalDropKeeps ==
  ASSUME IInv, NEW w \in Writers, FinalWriteTxResource(w), ~bCurWriting
  PROVE  IInv'
<1>1. writer[w].pc = "final" /\ Busy(w)
  BY DEF FinalWriteTxResource, Busy
<1>2. /\ writer' = [writer EXCEPT ![w] = Idle] /\ Unlocked
      /\ UNCHANGED <<ringVars, BulkOutPending, BulkOutReset, bulk, carried, fifo, nextId>>
  BY DEF FinalWriteTxResource, ringVars
<1>3. writer'[w] = Idle
  BY <1>2 DEF IInv, Typed
<1>4. OneWrites'
  <2>1. \A v \in Writers : v # w => ~Busy(v)
    BY <1>1, Alone
  <2> QED BY <1>2, IdleType, OneWritesStays DEF ringVars
<1>5. Waits(w)' /\ Writes(w)'
  BY <1>2, <1>3, IdleType DEF Waits, Writes, Busy, ringVars
<1>6. nextId' \in Nat
  BY <1>2 DEF IInv, Typed, TypeOK
<1> QED BY <1>2, <1>4, <1>5, <1>6, IdleType, QuietStep

----------------------------------------------------------------------------
(* The bulk-out routine.                                                    *)

\* No two committed frames share a cell.
LEMMA Apart ==
  ASSUME IInv, NEW i \in 1..Len(fifo), NEW j \in 1..Len(fifo), i < j
  PROVE  End(fifo[i]) <= fifo[j].pos \/ End(fifo[j]) <= fifo[i].pos
<1>1. PICK t \in 0..Len(fifo) : Lies(t)
  BY DEF IInv, Inv
<1>2. CASE Run(fifo, 1, Len(fifo), Start, CurWritePosition)
  BY <1>2 DEF Run
<1>3. CASE /\ t \in 1..Len(fifo) /\ Run(fifo, 1, t, Start, End(fifo[t]))
           /\ Run(fifo, t + 1, Len(fifo), Pad, CurWritePosition)
           /\ NextBulkOutPosition <= Start
           /\ Behind \/ CurWritePosition = Pad
  <2>1. CASE j <= t
    <3>1. i \in 1..t /\ j \in 1..t
      BY <1>3, <2>1
    <3> QED BY <1>3, <3>1 DEF Run
  <2>2. CASE i > t
    <3>1. i \in (t + 1)..Len(fifo) /\ j \in (t + 1)..Len(fifo)
      BY <1>3, <2>2
    <3> QED BY <1>3, <3>1 DEF Run
  <2>3. CASE i <= t /\ t < j
    <3>1. i \in 1..t /\ j \in (t + 1)..Len(fifo)
      BY <1>3, <2>3
    <3>2. Start <= fifo[i].pos /\ End(fifo[j]) <= CurWritePosition /\ Pad <= fifo[j].pos
      BY <1>3, <3>1 DEF Run
    <3>3. /\ fifo[i].pos \in Nat /\ fifo[j].pos \in Nat /\ fifo[j].len \in Nat /\ 2 <= fifo[j].len
          /\ End(fifo[j]) = fifo[j].pos + fifo[j].len
      BY FifoFrames DEF End
    <3>4. CurWritePosition \in Nat /\ NextBulkOutPosition \in Nat /\ Start \in Nat
      BY Numbers DEF IInv
    <3>5. CurWritePosition # Pad
      BY <3>2, <3>3 DEF Pad
    <3> QED BY <1>3, <3>2, <3>3, <3>4, <3>5, SMTT(60) DEF Behind
  <2> QED BY <1>3, <2>1, <2>2, <2>3
<1> QED BY <1>1, <1>2, <1>3 DEF Lies

\* The ring that is not empty has a frame where the next transfer begins.
LEMMA FirstFrame ==
  ASSUME IInv, ~Locked, ~RingEmpty
  PROVE  /\ fifo # <<>> /\ 1 \in 1..Len(fifo) /\ fifo[1].pos = ENextBulkOutPosition
         /\ \A t \in 0..Len(fifo) : Lies(t) =>
              /\ t = 0 => ENextBulkOutPosition <= CurWritePosition
              /\ t > 0 => CurWritePosition < ENextBulkOutPosition
              /\ CurWritePosition = Pad => t > 0
<1>1. PICK W \in Nat, N \in Nat, E \in Nat, m \in Nat :
        /\ W = CurWritePosition /\ N = NextBulkOutPosition /\ E = ENextBulkOutPosition
        /\ m = Len(fifo) /\ Start = E
  BY Numbers DEF IInv, Start
<1>2. E # W /\ E # W + 1
  BY <1>1 DEF RingEmpty, Pad
<1>3. fifo \in Seq(Frames)
  BY DEF IInv, Typed, TypeOK
<1>4. ASSUME NEW t \in 0..m, Lies(t)
      PROVE  /\ fifo # <<>> /\ 1 \in 1..m /\ fifo[1].pos = E
             /\ t = 0 => E <= W
             /\ t > 0 => W < E
             /\ W = Pad => t > 0
  <2>1. CASE t = 0 /\ Run(fifo, 1, m, E, W)
    <3>1. E <= W /\ fifo # <<>>
      BY <1>1, <1>2, <1>3, <2>1, RunEmpty
    <3>2. 1 \in 1..m
      BY <1>1, <1>3, <3>1, EmptySeq, LenProperties
    <3>3. fifo[1].pos = E /\ E <= fifo[1].pos
      BY <2>1, <3>2 DEF Run
    <3>4. Pad <= E
      BY <1>1, <3>2, <3>3, FifoFrames
    <3> QED BY <1>1, <1>2, <2>1, <3>1, <3>2, <3>3, <3>4 DEF Pad
  <2>2. CASE t \in 1..m /\ Run(fifo, 1, t, E, End(fifo[t])) /\ N <= E /\ (W < N \/ W = Pad)
    <3>1. 1 \in 1..m /\ 1 \in 1..t /\ fifo # <<>>
      BY <1>1, <2>2
    <3>2. fifo[1].pos = E
      BY <2>2, <3>1 DEF Run
    <3>3. Pad <= E
      BY <1>1, <3>1, <3>2, FifoFrames
    <3>4. W < E
      BY <1>1, <1>2, <2>2, <3>3 DEF Pad
    <3> QED BY <2>2, <3>1, <3>2, <3>4
  <2> QED BY <1>1, <1>4, <2>1, <2>2 DEF Lies, Behind
<1>5. PICK t \in 0..m : Lies(t)
  BY <1>1 DEF IInv, Inv
<1> QED BY <1>1, <1>4, <1>5

\* Where the cells of a write stay, its writer knows what it knew.
LEMMA WritesStay ==
  ASSUME IInv, NEW v \in Writers, Busy(v), bCurWriting, writer' = writer,
         UNCHANGED <<CurWritePosition, CurWriteRealPos>>,
         NEW W \in Nat, W = CurWritePosition, NEW n \in Nat, n = writer[v].total,
         HeaderAt(W)' = HeaderAt(W), \A c \in (W + 1)..(W + n - 1) : buf'[c] = buf[c],
         Behind' => W + n + 3 <= NextBulkOutPosition'
  PROVE  Writes(v)'
<1>1. PICK x : x = writer[v] /\ writer'[v] = x
  OBVIOUS
<1>2. 4 <= n /\ n = x.total
  <2>1. writer[v].total \in Lens
    BY DEF IInv, Inv, Waits, Busy
  <2> QED BY <1>1, <2>1, Numbers DEF IInv
<1>3. PICK first \in Nat : first = (IF x.kind = "Single" THEN x.total ELSE 2) /\ first <= n
  BY <1>2
<1>4. Writes(v)
  BY DEF IInv, Inv
<1>5. /\ \A c \in (W + 1)..(W + first - 1) : buf'[c] = buf[c]
      /\ buf'[W + 2] = buf[W + 2]
      /\ \A c \in (W + 3)..(W + n - 1) : buf'[c] = buf[c]
      /\ \A c \in (W + 2)..(W + n - 1) : buf'[c] = buf[c]
  <2>1. /\ \A c \in (W + 1)..(W + first - 1) : c \in (W + 1)..(W + n - 1)
        /\ W + 2 \in (W + 1)..(W + n - 1)
        /\ \A c \in (W + 3)..(W + n - 1) : c \in (W + 1)..(W + n - 1)
        /\ \A c \in (W + 2)..(W + n - 1) : c \in (W + 1)..(W + n - 1)
    BY <1>2, <1>3
  <2> QED BY <2>1
<1>6. /\ x.k = 0 => CurWriteRealPos = W + 1
      /\ x.k = 1 => x.kind # "Single"
      /\ x.pc = "next" => x.kind # "Single" /\ x.k = 0
      /\ x.pc = "final" => x.kind = "Single" \/ x.k = 1
      /\ x.at = IF x.k = 0 THEN W ELSE W + 2
      /\ x.priv = IF x.k = 0 THEN first ELSE x.total
  BY <1>1, <1>3, <1>4 DEF Writes
<1>7. /\ x.last = ((x.kind = "Single" \/ (x.kind = "Frag" /\ x.k = 1)) /\ TurnsAt(W + x.total))
      /\ HeaderAt(W)' = Header(x.id, first, x.kind = "Single" /\ x.last)
  BY <1>1, <1>3, <1>4 DEF Writes
<1>8. /\ x.kind = "Frag" /\ x.k = 1 => buf'[W + 2] = Header(x.id + 1, x.total - 2, x.last)
      /\ x.k = 1 \/ x.pc # "copy" => \A c \in (W + 1)..(W + first - 1) : buf'[c] = Body(x.id)
      /\ x.pc = "final" /\ x.k = 1 =>
           IF x.kind = "Frag"
             THEN \A c \in (W + 3)..(W + x.total - 1) : buf'[c] = Body(x.id + 1)
             ELSE \A c \in (W + 2)..(W + x.total - 1) : buf'[c] = Body(x.id)
  BY <1>1, <1>2, <1>3, <1>4, <1>5 DEF Writes
<1>9. CurWritePosition' = W /\ CurWriteRealPos' = CurWriteRealPos
  OBVIOUS
<1> QED BY <1>1, <1>2, <1>3, <1>6, <1>7, <1>8, <1>9 DEF Writes

\* The lock is taken and the saved header put back.
LEMMA BeginKeeps ==
  ASSUME IInv, BulkOutBegin
  PROVE  IInv'
<1>1. PICK W \in Nat, N \in Nat, E \in Nat, m \in Nat :
        /\ W = CurWritePosition /\ N = NextBulkOutPosition /\ E = ENextBulkOutPosition
        /\ m = Len(fifo)
  BY Numbers DEF IInv
<1>2. /\ bulk.pc = "claimed" /\ ~RingEmpty /\ ~Locked
      /\ NextBulkOutPosition' = E
      /\ buf' = IF bCopySavePad THEN [buf EXCEPT ![E] = SavedPad] ELSE buf
      /\ bCopySavePad' = FALSE
      /\ bulk' = [BulkIdle EXCEPT !.pc = "walk", !.pos = E]
      /\ UNCHANGED <<CurWritePosition, CurWriteRealPos, ENextBulkOutPosition, bCurWriting,
                     SavedPad, Header_802_3, BulkOutPending, BulkOutReset, carried, writer, fifo, nextId>>
  BY <1>1 DEF BulkOutBegin, Locked
<1>3. /\ bulk' \in [pc : {"walk"}, pos : Cells, size : Nat, frames : Seq(Frames), lastRound : BOOLEAN]
      /\ bulk'.pc = "walk" /\ bulk'.pos = E /\ bulk'.size = 0 /\ bulk'.frames = <<>>
      /\ bulk'.lastRound = FALSE
  <2>1. E \in Cells /\ 0 \in Cells
    BY <1>1, TxRingAssumption DEF IInv, Typed, TypeOK, Cells
  <2>2. PICK b : b = BulkIdle
    OBVIOUS
  <2>3. /\ b \in [pc : {"idle", "walk"}, pos : Cells, size : Nat, frames : Seq(Frames), lastRound : BOOLEAN]
        /\ b.size = 0 /\ b.frames = <<>> /\ b.lastRound = FALSE
    BY <2>1, <2>2 DEF BulkIdle
  <2>4. bulk' = [b EXCEPT !.pc = "walk", !.pos = E]
    BY <1>2, <2>2
  <2> QED BY <2>1, <2>3, <2>4
<1>4. /\ Locked' /\ Start' = E /\ Visited' = 0 /\ Start = E /\ Visited = 0
      /\ Behind = (W < N) /\ Behind' = (W < E)
  BY <1>1, <1>2, <1>3 DEF Locked, Start, Visited, Behind
<1>5. buf \in [Cells -> Cell] /\ SavedPad \in Cell /\ E \in Cells
  BY <1>1 DEF IInv, Typed, TypeOK
<1>6. \A p \in Cells : HeaderAt(p)' = HeaderAt(p)
  BY <1>1, <1>2, <1>5 DEF HeaderAt
<1>7. /\ fifo # <<>> /\ 1 \in 1..m /\ fifo[1].pos = E
      /\ \A t \in 0..m : Lies(t) => /\ t = 0 => E <= W
                                    /\ t > 0 => W < E
                                    /\ W = Pad => t > 0
  BY <1>1, <1>2, FirstFrame
<1>8. PICK t \in 0..m : Lies(t) /\ Headers(t) /\ Walks(t)
  BY <1>1 DEF IInv, Inv
<1>19. t > 0 => /\ t \in 1..m /\ Run(fifo, 1, t, E, End(fifo[t])) /\ Run(fifo, t + 1, m, Pad, W)
                /\ N <= E /\ (W < N \/ (W = Pad /\ ~bCurWriting))
  BY <1>1, <1>4, <1>8 DEF Lies, Behind
<1>9. Lies(t)'
  <2>1. CASE t = 0
    <3>1. Run(fifo, 1, m, E, W)
      BY <1>1, <1>4, <1>8, <2>1 DEF Lies
    <3> QED BY <1>1, <1>2, <1>4, <2>1, <3>1 DEF Lies
  <2>2. CASE t > 0
    <3>1. W < E
      BY <1>7, <1>8, <2>2
    <3> QED BY <1>1, <1>2, <1>4, <1>19, <2>2, <3>1 DEF Lies, Behind
  <2> QED BY <2>1, <2>2
<1>10. Headers(t)'
  <2>1. \A i \in 1..m : fifo[i].pos \in Cells /\ i > 0 /\ ~(i <= 0)
    BY <1>1, FifoFrames
  <2> QED BY <1>1, <1>2, <1>4, <1>6, <1>8, <2>1 DEF Headers
<1>11. Walks(t)'
  <2>1. <<>> = SubSeq(fifo, 1, 0) /\ Len(<<>>) = 0
    OBVIOUS
  <2>2. PICK b : b = bulk'
    OBVIOUS
  <2>3. /\ b.pc = "walk" /\ b.pos = E /\ b.size = 0 /\ b.lastRound = FALSE
        /\ b.frames = SubSeq(fifo, 1, 0) /\ Len(b.frames) = 0
    BY <1>3, <2>1, <2>2
  <2> QED BY <1>1, <1>2, <1>7, <2>2, <2>3 DEF Walks
<1>12. Bodies'
  <2> SUFFICES ASSUME NEW i \in 1..m, NEW c \in (fifo[i].pos + 1)..(fifo[i].pos + fifo[i].len - 1)
               PROVE  buf'[c] = Body(fifo[i].id)
    BY <1>1, <1>2 DEF Bodies, BodyIntact
  <2>1. buf[c] = Body(fifo[i].id)
    BY <1>1 DEF IInv, Inv, Bodies, BodyIntact
  <2>2. /\ fifo[i].pos \in Nat /\ fifo[i].len \in Nat /\ End(fifo[i]) = fifo[i].pos + fifo[i].len
        /\ c \in Cells /\ c \in Nat /\ fifo[i].pos < c /\ c < End(fifo[i])
    <3>1. /\ fifo[i].pos \in Nat /\ fifo[i].len \in Nat
          /\ \A e \in fifo[i].pos..(End(fifo[i]) - 1) : e \in Cells /\ e \in Nat
      BY <1>1, FifoFrames
    <3>2. c \in fifo[i].pos..(End(fifo[i]) - 1) /\ fifo[i].pos < c /\ c < End(fifo[i])
      BY <3>1 DEF End
    <3> QED BY <3>1, <3>2 DEF End
  <2>3. c # E
    <3>1. CASE i = 1
      BY <1>1, <1>7, <2>2, <3>1
    <3>2. CASE 1 < i
      <4>1. End(fifo[1]) <= fifo[i].pos \/ End(fifo[i]) <= fifo[1].pos
        BY <1>1, <1>7, <3>2, Apart
      <4>2. fifo[1].pos \in Nat /\ fifo[1].len \in Nat /\ 2 <= fifo[1].len
            /\ End(fifo[1]) = fifo[1].pos + fifo[1].len
        BY <1>1, <1>7, FifoFrames DEF End
      <4> QED BY <1>1, <1>7, <2>2, <4>1, <4>2, SMTT(60)
    <3> QED BY <1>1, <3>1, <3>2
  <2> QED BY <1>2, <1>5, <2>1, <2>2, <2>3
<1>13. Bounded'
  <2>1. Bounded
    BY DEF IInv, Inv
  <2> QED BY <1>1, <1>2, <2>1 DEF Bounded
<1>14. Saves' /\ Carries' /\ BulkIntact' /\ (BulkOutPending' <=> bulk'.pc # "idle")
  BY <1>2, <1>3, <1>4 DEF Saves, Carries, BulkIntact, IInv, Inv
<1>15. OneWrites'
  BY <1>2 DEF OneWrites, Busy, IInv, Inv
<1>16. ASSUME NEW v \in Writers, writer[v].pc = "granted", Concurrent = {}
       PROVE  /\ W < E => W + writer[v].total + 4 <= E
              /\ W = Pad => W < E
  <2>1. (W < N => W + writer[v].total + 4 <= N) /\ (W = Pad => W < N)
    BY <1>1, <1>4, <1>16 DEF IInv, Inv, Waits
  <2>2. writer[v].total \in Nat
    BY DEF IInv, Typed, Actor
  <2>3. t > 0 => N <= E /\ (W < N \/ W = Pad)
    BY <1>19
  <2> QED BY <1>1, <1>7, <1>8, <2>1, <2>2, <2>3
<1>17. ASSUME NEW v \in Writers PROVE Waits(v)' /\ Writes(v)'
  <2>1. Waits(v)'
    <3>1. Waits(v)
      BY DEF IInv, Inv
    <3> QED BY <1>1, <1>2, <1>4, <1>16, <3>1 DEF Waits, Busy
  <2>2. ASSUME Busy(v), bCurWriting
        PROVE  Writes(v)'
    <3>1. PICK x : x = writer[v] /\ writer'[v] = x
      BY <1>2
    <3>2. PICK n \in Nat : n = x.total /\ 4 <= n
      <4>1. writer[v].total \in Lens
        BY <2>2 DEF IInv, Inv, Waits, Busy
      <4> QED BY <3>1, <4>1, Numbers DEF IInv
    <3>3. \A c \in W..(W + n) : c \in Cells /\ (c # W => buf'[c] = buf[c])
      <4> TAKE c \in W..(W + n)
      <4>1. c \in Cells /\ (bCopySavePad /\ c # W => c # E)
        BY <1>1, <2>2, <3>1, <3>2, Room
      <4> QED BY <1>2, <1>5, <4>1
    <3>4. HeaderAt(W)' = HeaderAt(W)
      <4>1. W \in W..(W + n)
        BY <1>1, <3>2
      <4> QED BY <1>6, <3>3, <4>1
    <3>5. Behind' => W + n + 3 <= E
      <4>1. W < N => W + n + 3 <= N
        BY <1>1, <1>4, <2>2, <3>1, <3>2 DEF IInv, Inv, Writes
      <4>2. t > 0 => N <= E /\ W < N
        BY <1>19, <2>2
      <4>3. t = 0 => E <= W
        BY <1>7, <1>8
      <4>4. W < E => W + n + 3 <= E
        BY <1>1, <3>2, <4>1, <4>2, <4>3
      <4> QED BY <1>4, <4>4
    <3>6. \A c \in (W + 1)..(W + n - 1) : buf'[c] = buf[c]
      <4> TAKE c \in (W + 1)..(W + n - 1)
      <4>1. c \in W..(W + n) /\ c # W
        BY <1>1, <3>2
      <4> QED BY <3>3, <4>1
    <3> QED BY <1>1, <1>2, <2>2, <3>1, <3>2, <3>4, <3>5, <3>6, WritesStay
  <2>3. ~(Busy(v) /\ bCurWriting) => Writes(v)'
    BY <1>2 DEF Writes, Busy
  <2> QED BY <2>1, <2>2, <2>3
<1>18. Typed'
  <2>1. buf' \in [Cells -> Cell]
    BY <1>2, <1>5
  <2> QED BY <1>2, <1>3, <1>5, <2>1, ZenonT(60) DEF IInv, Typed, TypeOK
<1> QED BY <1>1, <1>2, <1>9, <1>10, <1>11, <1>12, <1>13, <1>14, <1>15, <1>17, <1>18 DEF IInv, Inv

\* Where the next frame is that the transfer may take.
LEMMA NextFrame ==
  ASSUME IInv, bulk.pc = "walk", bulk.pos # CurWritePosition
  PROVE  LET m == Len(bulk.frames) IN
         /\ m \in Nat /\ m < Len(fifo) /\ bulk.pos = fifo[m + 1].pos
         /\ m > 0 => End(fifo[m]) = bulk.pos
         /\ \A t \in 0..Len(fifo) : Lies(t) /\ Headers(t) /\ Walks(t) =>
              buf[bulk.pos] = Header(fifo[m + 1].id, fifo[m + 1].len, m + 1 = t)
<1>1. PICK m \in Nat, k \in Nat, W \in Nat, N \in Nat :
        m = Len(bulk.frames) /\ k = Len(fifo) /\ W = CurWritePosition /\ N = NextBulkOutPosition
  BY Numbers DEF IInv
<1>2. Locked /\ Start = N /\ Visited = m
  BY <1>1 DEF Locked, Start, Visited
<1>3. ASSUME NEW t \in 0..k, Lies(t), Headers(t), Walks(t)
      PROVE  /\ m < k /\ bulk.pos = fifo[m + 1].pos /\ (m > 0 => End(fifo[m]) = bulk.pos)
             /\ buf[bulk.pos] = Header(fifo[m + 1].id, fifo[m + 1].len, m + 1 = t)
  <2>1. /\ ~bCopySavePad /\ fifo # <<>> /\ m <= k /\ ~bulk.lastRound
        /\ t > 0 => m < t
        /\ bulk.pos = IF m = 0 THEN N ELSE End(fifo[m])
    BY <1>1, <1>2, <1>3 DEF Walks
  <2>2. k > 0
    <3>1. fifo \in Seq(Frames)
      BY DEF IInv, Typed, TypeOK
    <3> QED BY <1>1, <2>1, <3>1, EmptySeq, LenProperties
  <2>3. m < k /\ bulk.pos = fifo[m + 1].pos
    <3>1. CASE t = 0
      <4>1. Run(fifo, 1, k, N, W)
        BY <1>1, <1>2, <1>3, <3>1 DEF Lies
      <4>2. CASE m = 0
        <5>1. fifo[1].pos = N /\ m + 1 = 1
          BY <2>2, <4>1, <4>2 DEF Run
        <5> QED BY <2>1, <2>2, <4>2, <5>1
      <4>3. CASE m > 0
        <5>1. m # k
          <6> SUFFICES ASSUME m = k PROVE FALSE
            OBVIOUS
          <6>1. End(fifo[k]) = W
            BY <2>2, <4>1 DEF Run
          <6> QED BY <1>1, <2>1, <4>3, <6>1
        <5>2. m \in 1..k /\ m < k
          BY <2>1, <4>3, <5>1
        <5>3. End(fifo[m]) = fifo[m + 1].pos
          BY <4>1, <5>2 DEF Run
        <5> QED BY <2>1, <4>3, <5>2, <5>3
      <4> QED BY <4>2, <4>3
    <3>2. CASE t > 0
      <4>1. Run(fifo, 1, t, N, End(fifo[t])) /\ m < t /\ t \in 1..k
        BY <1>1, <1>2, <1>3, <2>1, <3>2 DEF Lies
      <4>2. CASE m = 0
        <5>1. fifo[1].pos = N /\ m + 1 = 1
          BY <4>1, <4>2 DEF Run
        <5> QED BY <2>1, <2>2, <4>2, <5>1
      <4>3. CASE m > 0
        <5>1. m \in 1..t
          BY <4>1, <4>3
        <5>2. End(fifo[m]) = fifo[m + 1].pos
          BY <4>1, <5>1 DEF Run
        <5> QED BY <2>1, <4>1, <4>3, <5>2
      <4> QED BY <4>2, <4>3
    <3> QED BY <3>1, <3>2
  <2>4. HeaderAt(bulk.pos) = buf[bulk.pos]
    BY <2>1 DEF HeaderAt
  <2>5. m + 1 \in 1..Len(fifo) /\ m + 1 > Visited
    BY <1>1, <1>2, <2>3
  <2>6. HeaderAt(fifo[m + 1].pos) = Header(fifo[m + 1].id, fifo[m + 1].len, m + 1 = t)
    BY <1>3, <2>5 DEF Headers
  <2> QED BY <2>1, <2>3, <2>4, <2>6
<1>4. PICK t \in 0..k : Lies(t) /\ Headers(t) /\ Walks(t)
  BY <1>1 DEF IInv, Inv
<1> QED BY <1>1, <1>3, <1>4

\* The transfer ends with what it has.
LEMMA StopKeeps ==
  ASSUME IInv, BulkOutStop
  PROVE  IInv'
<1>1. PICK m \in Nat, k \in Nat, W \in Nat, N \in Nat :
        m = Len(bulk.frames) /\ k = Len(fifo) /\ W = CurWritePosition /\ N = NextBulkOutPosition
  BY Numbers DEF IInv
<1>2. /\ bulk.pc = "walk" /\ WalkEnds
      /\ ENextBulkOutPosition' = bulk.pos /\ bulk' = [bulk EXCEPT !.pc = "seal"]
      /\ UNCHANGED <<CurWritePosition, CurWriteRealPos, NextBulkOutPosition, bCurWriting,
                     bCopySavePad, SavedPad, Header_802_3, buf, BulkOutPending, BulkOutReset, carried,
                     writer, fifo, nextId>>
  BY DEF BulkOutStop
<1>3. /\ bulk' \in [pc : {"seal"}, pos : Cells, size : Nat, frames : Seq(Frames), lastRound : BOOLEAN]
      /\ bulk'.pc = "seal" /\ bulk'.pos = bulk.pos /\ bulk'.size = bulk.size
      /\ bulk'.frames = bulk.frames /\ bulk'.lastRound = bulk.lastRound
  BY <1>2 DEF IInv, Typed
<1>4. /\ Locked /\ Locked' /\ Start = N /\ Start' = N /\ Visited = m /\ Visited' = m
      /\ (Behind' <=> Behind)
  BY <1>1, <1>2, <1>3 DEF Locked, Start, Visited, Behind
<1>5. PICK t \in 0..k : Lies(t) /\ Headers(t) /\ Walks(t)
  BY <1>1 DEF IInv, Inv
<1>6. /\ ~bCopySavePad /\ fifo # <<>> /\ m <= k /\ ~bulk.lastRound
      /\ t > 0 => m < t
      /\ bulk.pos = IF m = 0 THEN N ELSE End(fifo[m])
      /\ m = 0 => bulk.size = 0
      /\ bulk.frames = SubSeq(fifo, 1, m)
  BY <1>1, <1>2, <1>4, <1>5 DEF Walks
<1>7. \A p : HeaderAt(p)' = HeaderAt(p)
  BY <1>2, <1>6 DEF HeaderAt
<1>8. m > 0
  <2> SUFFICES ASSUME m = 0 PROVE FALSE
    OBVIOUS
  <2>1. W = N
    <3>1. \A cap \in BulkCaps : ~(bulk.size >= cap)
      BY <1>6, TxRingAssumption
    <3> QED BY <1>1, <1>2, <1>6, <3>1 DEF WalkEnds
  <2>2. Run(fifo, 1, k, N, W)
    BY <1>1, <1>4, <1>5, <2>1 DEF Lies, Behind
  <2>3. fifo \in Seq(Frames)
    BY DEF IInv, Typed, TypeOK
  <2> QED BY <1>1, <1>6, <2>1, <2>2, <2>3, RunEmpty
<1>9. bulk.pos <= LastPlace + 3
  <2>1. CASE bulk.pos = W
    <3>1. W <= LastPlace + 1 /\ LastPlace \in Nat
      <4>1. CurWritePosition <= LastPlace + IF bCurWriting THEN 1 ELSE 0
        BY DEF IInv, Inv, Bounded
      <4>2. LastPlace \in Nat
        BY Numbers DEF IInv
      <4> QED BY <1>1, <4>1, <4>2
    <3> QED BY <1>1, <2>1, <3>1
  <2>2. CASE bulk.pos # W
    <3>1. m + 1 \in 1..k /\ bulk.pos = fifo[m + 1].pos
      BY <1>1, <1>2, <2>2, NextFrame
    <3> QED BY <1>1, <3>1, FifoFrames
  <2> QED BY <2>1, <2>2
<1>10. Lies(t)'
  BY <1>2, <1>4, <1>5 DEF Lies, Behind
<1>11. Headers(t)'
  <2>1. bulk'.pc # "walk" /\ Visited' = Visited
    BY <1>3, <1>4
  <2> QED BY <1>2, <1>5, <1>7, <2>1 DEF Headers
<1>12. Walks(t)'
  BY <1>1, <1>2, <1>3, <1>6, <1>8 DEF Walks
<1>13. Bounded' /\ Bodies' /\ Saves'
  <2>1. Bounded /\ Bodies
    BY DEF IInv, Inv
  <2>2. Bounded'
    BY <1>2, <1>9, <2>1 DEF Bounded
  <2>3. Bodies'
    BY <1>2, <2>1 DEF Bodies, BodyIntact
  <2> QED BY <1>2, <1>6, <2>2, <2>3 DEF Saves
<1>14. Carries' /\ BulkIntact' /\ (BulkOutPending' <=> bulk'.pc # "idle")
  BY <1>2, <1>3, <1>4 DEF Carries, BulkIntact, IInv, Inv
<1>15. OneWrites'
  BY <1>2 DEF OneWrites, Busy, IInv, Inv
<1>16. ASSUME NEW v \in Writers PROVE Waits(v)' /\ Writes(v)'
  <2>1. Busy(v)' <=> Busy(v)
    BY <1>2 DEF Busy
  <2>2. Waits(v)'
    BY <1>2, <1>4, <2>1 DEF Waits, IInv, Inv
  <2>3. Writes(v)'
    BY <1>2, <1>4, <1>7, <2>1 DEF Writes, IInv, Inv
  <2> QED BY <2>2, <2>3
<1>17. Typed'
  BY <1>2, <1>3 DEF IInv, Typed, TypeOK
<1> QED BY <1>1, <1>2, <1>5, <1>10, <1>11, <1>12, <1>13, <1>14, <1>15, <1>16, <1>17 DEF IInv, Inv

\* No frame begins among the cells of another.
LEMMA NotWithin ==
  ASSUME IInv, NEW i \in 1..Len(fifo), NEW j \in 1..Len(fifo), i # j
  PROVE  fifo[j].pos < fifo[i].pos \/ End(fifo[i]) <= fifo[j].pos
<1>1. /\ fifo[i].pos \in Nat /\ fifo[i].len \in Nat /\ End(fifo[i]) = fifo[i].pos + fifo[i].len
      /\ fifo[j].pos \in Nat /\ fifo[j].len \in Nat /\ End(fifo[j]) = fifo[j].pos + fifo[j].len
      /\ 2 <= fifo[i].len /\ 2 <= fifo[j].len
  BY FifoFrames DEF End
<1>2. End(fifo[i]) <= fifo[j].pos \/ End(fifo[j]) <= fifo[i].pos
  <2>1. CASE i < j
    BY <2>1, Apart
  <2>2. CASE j < i
    BY <2>2, Apart
  <2>3. Len(fifo) \in Nat
    BY Numbers DEF IInv
  <2> QED BY <2>1, <2>2, <2>3
<1> QED BY <1>1, <1>2

\* The next frame joins the transfer.
LEMMA FrameKeeps ==
  ASSUME IInv, BulkOutFrame
  PROVE  IInv'
<1>1. PICK m \in Nat, k \in Nat, W \in Nat, N \in Nat :
        m = Len(bulk.frames) /\ k = Len(fifo) /\ W = CurWritePosition /\ N = NextBulkOutPosition
  BY Numbers DEF IInv
<1>2. bulk.pc = "walk" /\ WalkGoesOn /\ bulk.pos # W
  BY <1>1 DEF BulkOutFrame, WalkGoesOn
<1>3. Locked /\ Start = N /\ Visited = m
  BY <1>1, <1>2 DEF Locked, Start, Visited
<1>4. PICK t \in 0..k : Lies(t) /\ Headers(t) /\ Walks(t)
  BY <1>1 DEF IInv, Inv
<1>5. /\ m < k /\ bulk.pos = fifo[m + 1].pos /\ (m > 0 => End(fifo[m]) = bulk.pos)
      /\ buf[bulk.pos] = Header(fifo[m + 1].id, fifo[m + 1].len, m + 1 = t)
  BY <1>1, <1>2, <1>4, NextFrame
<1>6. m + 1 \in 1..k
  BY <1>5
<1>7. PICK f : f = fifo[m + 1]
  OBVIOUS
<1>8. /\ f \in Frames /\ f.pos \in Nat /\ f.len \in Nat /\ f.id \in Nat /\ f.pos \in Cells
      /\ End(f) \in Nat /\ 2 <= f.len /\ End(f) <= Limit + 1
  <2>1. /\ f \in Frames /\ f.pos \in Nat /\ f.len \in Nat /\ f.pos \in Cells
        /\ End(f) \in Nat /\ 2 <= f.len /\ End(f) <= Limit + 1
    BY <1>1, <1>6, <1>7, FifoFrames
  <2> QED BY <2>1 DEF Frames
<1>9. PICK p \in Cells, q \in Cells : p = f.pos /\ q = End(f) /\ p = bulk.pos /\ q = p + f.len
  <2>1. End(f) \in Cells
    <3>1. Cells = 0..(Limit + HeadRoom) /\ Limit \in Nat /\ HeadRoom \in Nat /\ 4 <= HeadRoom
      BY Numbers DEF IInv
    <3>2. End(f) \in Nat /\ End(f) <= Limit + 1
      BY <1>8
    <3> QED BY <3>1, <3>2
  <2> QED BY <1>5, <1>7, <1>8, <2>1 DEF End
<1>10. PICK last \in BOOLEAN, v \in BOOLEAN :
         last = (m + 1 = t) /\ v = IF last /\ W = Pad THEN FALSE ELSE q # W
  OBVIOUS
<1>11. PICK h : h = Header(f.id, f.len, last)
  OBVIOUS
<1>12. /\ h \in Cell /\ h.id = f.id /\ h.len = f.len /\ h.last = last /\ h.nv = FALSE
       /\ buf[p] = h
  <2>1. h \in Cell /\ h.id = f.id /\ h.len = f.len /\ h.last = last /\ h.nv = FALSE
    BY <1>8, <1>10, <1>11 DEF Header, Cell
  <2> QED BY <1>5, <1>7, <1>9, <1>10, <1>11, <2>1
<1>13. PICK g : g = [Header(f.id, f.len, FALSE) EXCEPT !.nv = v]
  OBVIOUS
<1>14. g \in Cell /\ g.id = f.id /\ g.len = f.len /\ g.last = FALSE /\ g.nv = v
  BY <1>8, <1>10, <1>13 DEF Header, Cell
<1>15. [h EXCEPT !.last = FALSE, !.nv = v] = g
  BY <1>12, <1>14 DEF Cell
<1>16. PICK e : e = [pos |-> p, len |-> f.len, id |-> f.id]
  OBVIOUS
<1>17. e = f
  <2>1. e \in Frames /\ e.pos = p /\ e.len = f.len /\ e.id = f.id
    BY <1>8, <1>16 DEF Frames
  <2>2. [e EXCEPT !.pos = p] = f
    BY <1>8, <1>9, <2>1 DEF Frames
  <2>3. [e EXCEPT !.pos = p] = e
    BY <2>1 DEF Frames
  <2> QED BY <2>2, <2>3
<1>18. /\ buf' = [buf EXCEPT ![p] = g]
       /\ ENextBulkOutPosition' = IF last THEN Pad ELSE ENextBulkOutPosition
       /\ bulk' = [pc |-> IF last THEN "seal" ELSE "walk", pos |-> q, size |-> bulk.size + f.len,
                   lastRound |-> last, frames |-> Append(bulk.frames, f)]
       /\ UNCHANGED <<BulkOutPending, CurWritePosition, CurWriteRealPos, NextBulkOutPosition, bCurWriting,
                      bCopySavePad, SavedPad, Header_802_3, BulkOutReset, carried, writer, fifo, nextId>>
  <2>1. h.len > 1 /\ buf[bulk.pos] = h /\ bulk.pos + h.len = q /\ bulk.pos = p
    BY <1>8, <1>9, <1>12
  <2>2. /\ buf' = [buf EXCEPT ![p] = [h EXCEPT !.last = FALSE,
                      !.nv = IF h.last /\ CurWritePosition = Pad THEN FALSE ELSE @ \/ q # CurWritePosition]]
        /\ ENextBulkOutPosition' = IF h.last THEN Pad ELSE ENextBulkOutPosition
        /\ bulk' = [pc |-> IF h.last THEN "seal" ELSE "walk",
                    pos |-> q, size |-> bulk.size + h.len, lastRound |-> h.last,
                    frames |-> Append(bulk.frames, [pos |-> p, len |-> h.len, id |-> h.id])]
        /\ UNCHANGED <<BulkOutPending, CurWritePosition, CurWriteRealPos, NextBulkOutPosition, bCurWriting,
                       bCopySavePad, SavedPad, Header_802_3, BulkOutReset, carried, writer, fifo, nextId>>
    BY <2>1 DEF BulkOutFrame
  <2>3. (IF h.last /\ CurWritePosition = Pad THEN FALSE ELSE h.nv \/ q # CurWritePosition) = v
    BY <1>1, <1>10, <1>12
  <2>4. [h EXCEPT !.last = FALSE,
                  !.nv = IF h.last /\ CurWritePosition = Pad THEN FALSE ELSE @ \/ q # CurWritePosition] = g
    BY <1>15, <2>3
  <2> QED BY <1>12, <1>16, <1>17, <2>2, <2>4
<1>19. /\ Append(bulk.frames, f) \in Seq(Frames) /\ Len(Append(bulk.frames, f)) = m + 1
       /\ Append(bulk.frames, f) = SubSeq(fifo, 1, m + 1)
  <2>1. bulk.frames \in Seq(Frames) /\ fifo \in Seq(Frames) /\ bulk.frames = SubSeq(fifo, 1, m)
    BY <1>1, <1>3, <1>4 DEF IInv, Typed, TypeOK, Walks
  <2>2. 1 \in 1..k /\ m + 1 \in 1..k /\ (m + 1) - 1 = m
    BY <1>6
  <2>3. SubSeq(fifo, 1, m + 1) = SubSeq(fifo, 1, (m + 1) - 1) \o <<fifo[m + 1]>>
    BY <1>1, <2>1, <2>2, SubSeqRecursiveSecond
  <2>4. Append(bulk.frames, f) = bulk.frames \o <<f>>
    BY <1>8, <2>1, AppendIsConcat
  <2>5. Append(bulk.frames, f) \in Seq(Frames) /\ Len(Append(bulk.frames, f)) = Len(bulk.frames) + 1
    BY <1>8, <2>1, AppendProperties
  <2> QED BY <1>1, <1>7, <2>1, <2>2, <2>3, <2>4, <2>5
<1>20. /\ bulk' \in [pc : {"walk", "seal"}, pos : Cells, size : Nat, frames : Seq(Frames),
                     lastRound : BOOLEAN]
       /\ bulk'.pc = (IF last THEN "seal" ELSE "walk") /\ bulk'.pos = q /\ bulk'.lastRound = last
       /\ bulk'.frames = SubSeq(fifo, 1, m + 1) /\ Len(bulk'.frames) = m + 1
  <2>1. bulk.size + f.len \in Nat
    <3>1. bulk.size \in Nat
      BY DEF IInv, Typed, TypeOK
    <3> QED BY <1>8, <3>1
  <2> QED BY <1>18, <1>19, <2>1
<1>21. /\ Locked' /\ Start' = N /\ Visited' = m + 1 /\ (Behind' <=> Behind)
  BY <1>1, <1>18, <1>20 DEF Locked, Start, Visited, Behind
<1>22. ~bCopySavePad /\ ~bCopySavePad' /\ (t > 0 => m < t) /\ fifo # <<>>
       /\ ENextBulkOutPosition = N /\ buf \in [Cells -> Cell]
  <2>1. ~bulk.lastRound
    BY <1>2, <1>3, <1>4 DEF Walks
  <2> QED BY <1>1, <1>2, <1>3, <1>4, <1>18, <2>1 DEF Walks, IInv, Typed, TypeOK
<1>23. HeaderAt(p)' = g /\ \A c \in Cells : c # p => HeaderAt(c)' = HeaderAt(c) /\ buf'[c] = buf[c]
  BY <1>18, <1>22 DEF HeaderAt
<1>24. \A i \in 1..k : i # m + 1 => fifo[i].pos \in Cells /\ fifo[i].pos # p
  <2> TAKE i \in 1..k
  <2> HAVE i # m + 1
  <2>1. fifo[i].pos < fifo[m + 1].pos \/ End(fifo[m + 1]) <= fifo[i].pos
    BY <1>1, <1>6, NotWithin
  <2>2. fifo[i].pos \in Nat /\ fifo[i].pos \in Cells
    BY <1>1, FifoFrames
  <2> QED BY <1>7, <1>8, <1>9, <2>1, <2>2 DEF End
<1>25. Lies(t)'
  BY <1>3, <1>4, <1>18, <1>21, <1>1 DEF Lies, Behind
<1>26. Headers(t)'
  <2>1. ASSUME NEW i \in 1..k, NEW d, d = fifo[i], NEW y, y = HeaderAt(d.pos)'
        PROVE  /\ i > m + 1 => y = Header(d.id, d.len, i = t)
               /\ i <= m + 1 =>
                    /\ y = [Header(d.id, d.len, FALSE) EXCEPT !.nv = y.nv]
                    /\ i < m + 1 \/ (bulk'.pc = "walk" /\ End(d) # CurWritePosition') => y.nv
    <3>1. CASE i > m + 1
      <4>1. y = HeaderAt(d.pos) /\ i > Visited /\ ~(i <= m + 1)
        BY <1>3, <1>6, <1>23, <1>24, <2>1, <3>1
      <4> QED BY <1>1, <1>4, <2>1, <3>1, <4>1 DEF Headers
    <3>2. CASE i = m + 1
      <4>1. y = g /\ d = f
        BY <1>7, <1>9, <1>23, <2>1, <3>2
      <4>2. y = [Header(d.id, d.len, FALSE) EXCEPT !.nv = y.nv]
        BY <1>13, <1>14, <4>1
      <4>3. bulk'.pc = "walk" /\ End(d) # CurWritePosition' => y.nv
        <5>1. CurWritePosition' = W
          BY <1>1, <1>18
        <5>2. bulk'.pc = "walk" => ~last
          BY <1>20
        <5>3. ~last /\ q # W => v
          BY <1>10
        <5> QED BY <1>9, <1>14, <4>1, <5>1, <5>2, <5>3
      <4>4. ~(i > m + 1) /\ ~(i < m + 1)
        BY <3>2
      <4> QED BY <4>2, <4>3, <4>4
    <3>3. CASE i < m + 1
      <4>1. y = HeaderAt(d.pos) /\ i <= Visited /\ (i < m \/ i = m)
        BY <1>3, <1>6, <1>23, <1>24, <2>1, <3>3
      <4>2. /\ y = [Header(d.id, d.len, FALSE) EXCEPT !.nv = y.nv]
            /\ i < Visited \/ (bulk.pc = "walk" /\ End(d) # CurWritePosition) => y.nv
        BY <1>1, <1>4, <2>1, <4>1 DEF Headers
      <4>3. i = m => End(d) # CurWritePosition
        BY <1>1, <1>2, <1>5, <2>1
      <4>4. y.nv
        BY <1>2, <1>3, <4>1, <4>2, <4>3
      <4>5. ~(i > m + 1)
        BY <3>3
      <4> QED BY <4>2, <4>4, <4>5
    <3>4. i > m + 1 \/ i = m + 1 \/ i < m + 1
      OBVIOUS
    <3> QED BY <3>1, <3>2, <3>3, <3>4
  <2>2. ASSUME NEW i \in 1..k, NEW d, d = fifo'[i]
        PROVE  /\ i > Visited' => HeaderAt(d.pos)' = Header(d.id, d.len, i = t)
               /\ i <= Visited' =>
                    /\ HeaderAt(d.pos)' = [Header(d.id, d.len, FALSE) EXCEPT !.nv = HeaderAt(d.pos)'.nv]
                    /\ i < Visited' \/ (bulk'.pc = "walk" /\ End(d) # CurWritePosition') => HeaderAt(d.pos)'.nv
    <3>1. d = fifo[i]
      BY <1>18, <2>2
    <3>2. PICK y : y = HeaderAt(d.pos)'
      OBVIOUS
    <3> QED BY <1>21, <2>1, <3>1, <3>2
  <2>3. \A i \in 1..Len(fifo') : i \in 1..k
    BY <1>1, <1>18
  <2> QED BY <2>2, <2>3 DEF Headers
<1>27. Walks(t)'
  <2>1. last => m + 1 = t /\ q = End(fifo[t]) /\ ENextBulkOutPosition' = Pad
    BY <1>7, <1>9, <1>10, <1>18
  <2>2. ~last => (t > 0 => m + 1 < t) /\ ENextBulkOutPosition' = N
    <3>1. ~last => m + 1 # t
      BY <1>10
    <3>2. ~last => (t > 0 => m + 1 < t)
      BY <1>22, <3>1
    <3> QED BY <1>18, <1>22, <3>2
  <2>3. q = End(fifo[m + 1]) /\ m + 1 <= k /\ m + 1 > 0 /\ m + 1 # 0
    BY <1>6, <1>7, <1>9
  <2>4. PICK b : b = bulk'
    OBVIOUS
  <2>5. /\ b.pc = (IF last THEN "seal" ELSE "walk") /\ b.pos = q /\ b.lastRound = last
        /\ b.frames = SubSeq(fifo, 1, m + 1) /\ Len(b.frames) = m + 1
    BY <1>20, <2>4
  <2>6. NextBulkOutPosition' = N /\ fifo' = fifo
    BY <1>1, <1>18
  <2> QED BY <1>1, <1>22, <2>1, <2>2, <2>3, <2>4, <2>5, <2>6 DEF Walks
<1>28. Bodies'
  <2> SUFFICES ASSUME NEW i \in 1..k, NEW c \in (fifo[i].pos + 1)..(fifo[i].pos + fifo[i].len - 1)
               PROVE  buf'[c] = Body(fifo[i].id)
    BY <1>1, <1>18 DEF Bodies, BodyIntact
  <2>1. buf[c] = Body(fifo[i].id)
    BY <1>1 DEF IInv, Inv, Bodies, BodyIntact
  <2>2. /\ fifo[i].pos \in Nat /\ fifo[i].len \in Nat /\ End(fifo[i]) = fifo[i].pos + fifo[i].len
        /\ c \in Cells /\ c \in Nat /\ fifo[i].pos < c /\ c < End(fifo[i])
    <3>1. /\ fifo[i].pos \in Nat /\ fifo[i].len \in Nat
          /\ \A x \in fifo[i].pos..(End(fifo[i]) - 1) : x \in Cells /\ x \in Nat
      BY <1>1, FifoFrames
    <3>2. c \in fifo[i].pos..(End(fifo[i]) - 1) /\ fifo[i].pos < c /\ c < End(fifo[i])
      BY <3>1 DEF End
    <3> QED BY <3>1, <3>2 DEF End
  <2>3. c # p
    <3>1. CASE i = m + 1
      <4>1. fifo[i].pos = p
        BY <1>7, <1>9, <3>1
      <4> QED BY <2>2, <4>1
    <3>2. CASE i # m + 1
      <4>1. fifo[m + 1].pos < fifo[i].pos \/ End(fifo[i]) <= fifo[m + 1].pos
        BY <1>1, <1>6, <3>2, NotWithin
      <4> QED BY <1>7, <1>8, <1>9, <2>2, <4>1
    <3> QED BY <3>1, <3>2
  <2> QED BY <1>23, <2>1, <2>2, <2>3
<1>29. Bounded' /\ Saves'
  <2>1. Bounded /\ Pad <= LastPlace + 3
    BY Numbers, SMTT(60) DEF IInv, Inv, Pad
  <2> QED BY <1>1, <1>18, <1>22, <2>1 DEF Bounded, Saves
<1>30. Carries' /\ BulkIntact' /\ (BulkOutPending' <=> bulk'.pc # "idle")
  <2>1. bulk'.pc \in {"walk", "seal"} /\ BulkOutPending
    BY <1>2, <1>20 DEF IInv, Inv
  <2> QED BY <1>18, <1>21, <2>1 DEF Carries, BulkIntact
<1>31. OneWrites'
  BY <1>18 DEF OneWrites, Busy, IInv, Inv
<1>32. ASSUME NEW u \in Writers PROVE Waits(u)' /\ Writes(u)'
  <2>1. Waits(u)'
    <3>1. Busy(u)' <=> Busy(u)
      BY <1>18 DEF Busy
    <3> QED BY <1>18, <1>21, <3>1 DEF Waits, IInv, Inv
  <2>2. ASSUME Busy(u), bCurWriting
        PROVE  Writes(u)'
    <3>1. PICK n \in Nat : n = writer[u].total /\ 4 <= n
      <4>1. writer[u].total \in Lens
        BY <2>2 DEF IInv, Inv, Waits, Busy
      <4> QED BY <4>1, Numbers DEF IInv
    <3>2. \A c \in W..(W + n) : c \in Cells /\ c # p
      <4> TAKE c \in W..(W + n)
      <4>1. c \in Cells /\ c \in Nat /\ (c < fifo[m + 1].pos \/ End(fifo[m + 1]) <= c)
        BY <1>1, <1>6, <2>2, <3>1, Room
      <4> QED BY <1>7, <1>8, <1>9, <4>1 DEF End
    <3>3. HeaderAt(W)' = HeaderAt(W)
      <4>1. W \in W..(W + n)
        BY <3>1
      <4> QED BY <1>23, <3>2, <4>1
    <3>4. \A c \in (W + 1)..(W + n - 1) : buf'[c] = buf[c]
      <4> TAKE c \in (W + 1)..(W + n - 1)
      <4>1. c \in W..(W + n)
        BY <3>1
      <4> QED BY <1>23, <3>2, <4>1
    <3>5. Behind' => W + n + 3 <= NextBulkOutPosition'
      BY <1>1, <1>18, <1>21, <2>2, <3>1 DEF IInv, Inv, Writes
    <3> QED BY <1>1, <1>18, <2>2, <3>1, <3>3, <3>4, <3>5, WritesStay
  <2>3. ~(Busy(u) /\ bCurWriting) => Writes(u)'
    BY <1>18 DEF Writes, Busy
  <2> QED BY <2>1, <2>2, <2>3
<1>33. Typed'
  <2>1. buf' \in [Cells -> Cell]
    BY <1>14, <1>18, <1>22
  <2>2. ENextBulkOutPosition' \in Cells
    <3>1. Pad \in Cells
      BY Numbers, SMTT(60) DEF IInv, Pad
    <3> QED BY <1>18, <3>1 DEF IInv, Typed, TypeOK
  <2> QED BY <1>18, <1>20, <2>1, <2>2 DEF IInv, Typed, TypeOK
<1> QED BY <1>1, <1>4, <1>18, <1>25, <1>26, <1>27, <1>28, <1>29, <1>30, <1>31, <1>32, <1>33 DEF IInv, Inv

\* The frames the transfer takes, the frames it leaves, and where the pad goes.
LEMMA Sealed ==
  ASSUME IInv, bulk.pc = "seal", NEW t \in 0..Len(fifo), Lies(t), Walks(t),
         NEW m, m = Len(bulk.frames), NEW k, k = Len(fifo), NEW P, P = bulk.pos,
         NEW W, W = CurWritePosition, NEW N, N = NextBulkOutPosition, NEW E, E = ENextBulkOutPosition
  PROVE  /\ m \in 1..k /\ bulk.frames = SubSeq(fifo, 1, m) /\ ~bCopySavePad
         /\ P = End(fifo[m]) /\ N <= P /\ Run(fifo, 1, m, N, P)
         /\ P <= W \/ W < N
         /\ bulk.lastRound => t = m /\ E = Pad /\ Pad <= W /\ W < N
         /\ ~bulk.lastRound => E = P /\ (t = 0 \/ m < t)
         /\ \A j \in (m + 1)..k : \/ P <= fifo[j].pos /\ ~bulk.lastRound /\ P # W
                                  \/ End(fifo[j]) < P
         /\ t = m => Run(fifo, m + 1, k, Pad, W)
         /\ t = 0 => Run(fifo, m + 1, k, P, W)
         /\ t > m => Run(fifo, m + 1, t, P, End(fifo[t])) /\ Run(fifo, t + 1, k, Pad, W) /\ W < N
<1>1. m \in Nat /\ k \in Nat /\ W \in Nat /\ N \in Nat /\ E \in Nat
  BY Numbers DEF IInv
<1>2. Locked /\ Start = N /\ (Behind <=> W < N)
  BY DEF Locked, Start, Behind
<1>3. /\ ~bCopySavePad /\ m <= k /\ m > 0 /\ bulk.frames = SubSeq(fifo, 1, m) /\ P = End(fifo[m])
      /\ bulk.lastRound => m = t /\ E = Pad
      /\ ~bulk.lastRound => E = P /\ (t > 0 => m < t)
  BY <1>1, <1>2 DEF Walks
<1>4. m \in 1..k /\ t \in Nat
  BY <1>1, <1>3
<1>5. \A i \in 1..k : /\ fifo[i] \in Frames /\ fifo[i].pos \in Nat /\ fifo[i].len \in Nat /\ 2 <= fifo[i].len
                      /\ End(fifo[i]) \in Nat /\ End(fifo[i]) = fifo[i].pos + fifo[i].len
  BY FifoFrames DEF End
<1>6. P \in Nat
  BY <1>3, <1>4, <1>5
<1>7. \A j \in (m + 1)..k : j \in 1..k
  BY <1>4
<1>8. CASE t = 0
  <2>1. Run(fifo, 1, k, N, W)
    BY <1>2, <1>8 DEF Lies
  <2>2. Run(fifo, 1, m, N, P) /\ Run(fifo, m + 1, k, P, W)
    <3>1. 1 \in Int /\ k \in Int /\ N \in Int /\ W \in Int /\ \A i \in 1..k : fifo[i] \in Frames
      BY <1>1, <1>5
    <3>2. m \in 1..k
      BY <1>4
    <3> QED BY <1>3, <2>1, <3>1, <3>2, RunCut
  <2>3. N <= P
    <3>1. \A i \in 1..m : fifo[i] \in Frames
      BY <1>4, <1>5
    <3> QED BY <1>1, <1>6, <2>2, <3>1, RunForward
  <2>4. P <= W
    <3>1. \A i \in (m + 1)..k : fifo[i] \in Frames
      BY <1>5, <1>7
    <3>2. m + 1 \in Int /\ k \in Int /\ P \in Int /\ W \in Int
      BY <1>1, <1>6
    <3> QED BY <2>2, <3>1, <3>2, RunForward
  <2>5. ~bulk.lastRound
    BY <1>3, <1>8
  <2>6. \A j \in (m + 1)..k : P <= fifo[j].pos /\ P # W
    <3> TAKE j \in (m + 1)..k
    <3>1. P <= fifo[j].pos /\ End(fifo[j]) <= W
      BY <2>2 DEF Run
    <3> QED BY <1>1, <1>5, <1>6, <1>7, <3>1
  <2> QED BY <1>3, <1>4, <1>8, <2>2, <2>3, <2>4, <2>5, <2>6
<1>9. CASE t > 0
  <2>1. t \in 1..k /\ Run(fifo, 1, t, N, End(fifo[t])) /\ Run(fifo, t + 1, k, Pad, W) /\ W < N
    BY <1>2, <1>9 DEF Lies
  <2>2. m <= t /\ m \in 1..t
    BY <1>1, <1>3, <1>4, <1>9
  <2>3. /\ Run(fifo, 1, m, N, P) /\ Run(fifo, m + 1, t, P, End(fifo[t]))
    <3>1. \A i \in 1..t : fifo[i] \in Frames
      BY <1>5, <2>1
    <3>2. N \in Int /\ End(fifo[t]) \in Int /\ t \in Int
      BY <1>1, <1>5, <2>1
    <3> QED BY <1>3, <2>1, <2>2, <3>1, <3>2, RunCut, SMTT(60)
  <2>4. N <= P
    <3>1. \A i \in 1..m : fifo[i] \in Frames
      BY <1>4, <1>5
    <3> QED BY <1>1, <1>6, <2>3, <3>1, RunForward
  <2>5. Pad <= W
    <3>1. \A i \in (t + 1)..k : fifo[i] \in Frames
      BY <1>4, <1>5
    <3>2. t + 1 \in Int /\ k \in Int /\ Pad \in Int /\ W \in Int
      BY <1>1, <1>4 DEF Pad
    <3> QED BY <2>1, <3>1, <3>2, RunForward
  <2>6. \A j \in (m + 1)..k : (P <= fifo[j].pos /\ m < t) \/ End(fifo[j]) < P
    <3> TAKE j \in (m + 1)..k
    <3>1. CASE j <= t
      <4>1. j \in (m + 1)..t /\ m < t
        BY <1>1, <2>1, <3>1
      <4> QED BY <2>3, <4>1 DEF Run
    <3>2. CASE t < j
      <4>1. j \in (t + 1)..k
        BY <2>1, <3>2
      <4>2. End(fifo[j]) <= W
        BY <2>1, <4>1 DEF Run
      <4> QED BY <1>1, <1>5, <1>6, <1>7, <2>1, <2>4, <4>2
    <3> QED BY <1>4, <3>1, <3>2
  <2>7. P # W
    BY <1>1, <1>6, <2>1, <2>4
  <2>8. m < t => ~bulk.lastRound
    BY <1>1, <1>3, <1>4
  <2>9. \A j \in (m + 1)..k : \/ P <= fifo[j].pos /\ ~bulk.lastRound /\ P # W
                              \/ End(fifo[j]) < P
    BY <2>6, <2>7, <2>8
  <2> QED BY <1>3, <1>4, <1>9, <2>1, <2>3, <2>4, <2>5, <2>9
<1> QED BY <1>4, <1>8, <1>9

\* The transfer is closed: its last frame ends the chain, and the pad is written.
LEMMA SealKeeps ==
  ASSUME IInv, BulkOutSeal
  PROVE  IInv'
<1>1. PICK m \in Nat, k \in Nat, W \in Nat, N \in Nat, E \in Nat, P \in Cells :
        /\ m = Len(bulk.frames) /\ k = Len(fifo) /\ W = CurWritePosition /\ N = NextBulkOutPosition
        /\ E = ENextBulkOutPosition /\ P = bulk.pos
  BY Numbers DEF IInv, Typed, TypeOK
<1>2. bulk.pc = "seal" /\ Locked /\ Start = N /\ Visited = m
  BY <1>1 DEF BulkOutSeal, Locked, Start, Visited
<1>3. PICK t \in 0..k : Lies(t) /\ Headers(t) /\ Walks(t)
  BY <1>1 DEF IInv, Inv
<1>4. /\ m \in 1..k /\ bulk.frames = SubSeq(fifo, 1, m) /\ ~bCopySavePad
      /\ P = End(fifo[m]) /\ N <= P /\ Run(fifo, 1, m, N, P)
      /\ P <= W \/ W < N
      /\ bulk.lastRound => t = m /\ E = Pad /\ Pad <= W /\ W < N
      /\ ~bulk.lastRound => E = P /\ (t = 0 \/ m < t)
      /\ \A j \in (m + 1)..k : \/ P <= fifo[j].pos /\ ~bulk.lastRound /\ P # W
                               \/ End(fifo[j]) < P
      /\ t = m => Run(fifo, m + 1, k, Pad, W)
      /\ t = 0 => Run(fifo, m + 1, k, P, W)
      /\ t > m => Run(fifo, m + 1, t, P, End(fifo[t])) /\ Run(fifo, t + 1, k, Pad, W) /\ W < N
  BY <1>1, <1>2, <1>3, Sealed, SMTT(60)
<1>5. \A i \in 1..k : /\ fifo[i] \in Frames /\ fifo[i].pos \in Nat /\ fifo[i].pos \in Cells
                      /\ fifo[i].len \in Nat /\ 2 <= fifo[i].len /\ Pad <= fifo[i].pos
                      /\ End(fifo[i]) \in Nat /\ End(fifo[i]) = fifo[i].pos + fifo[i].len
  BY <1>1, FifoFrames DEF End
<1>6. PICK Q, s, r : Q = fifo[m].pos /\ s = bulk.frames /\ r = SubSeq(fifo, m + 1, k)
  OBVIOUS
<1>7. /\ s \in Seq(Frames) /\ Len(s) = m /\ \A i \in 1..m : s[i] = fifo[i]
      /\ r \in Seq(Frames) /\ Len(r) = k - m /\ k - m \in Nat
      /\ \A i \in 1..(k - m) : r[i] = fifo[m + i] /\ m + i \in (m + 1)..k /\ m + i \in 1..k
  <2>1. k - m \in Nat /\ \A i \in 1..(k - m) : m + i \in (m + 1)..k /\ m + i \in 1..k
    BY <1>4
  <2>2. s \in Seq(Frames)
    BY <1>6 DEF IInv, Typed, TypeOK
  <2>3. \A i \in 1..m : s[i] = fifo[i]
    <3>1. 1 \in Int /\ m \in Int /\ \A i \in 1..m : fifo[i] \in Frames
      BY <1>4, <1>5
    <3>2. \A i \in 1..(m - 1 + 1) : SubSeq(fifo, 1, m)[i] = fifo[1 + i - 1]
      BY <3>1, SubSeqProperties
    <3>3. m - 1 + 1 = m /\ \A i \in 1..m : 1 + i - 1 = i
      OBVIOUS
    <3> QED BY <1>4, <1>6, <3>2, <3>3
  <2>4. /\ r \in Seq(Frames) /\ Len(r) = k - m /\ \A i \in 1..(k - m) : r[i] = fifo[m + i]
    <3>1. m + 1 \in Int /\ k \in Int /\ \A i \in (m + 1)..k : fifo[i] \in Frames
      BY <1>4, <1>5
    <3>2. /\ r \in Seq(Frames) /\ Len(r) = IF m + 1 <= k THEN k - (m + 1) + 1 ELSE 0
          /\ \A i \in 1..(k - (m + 1) + 1) : r[i] = fifo[(m + 1) + i - 1]
      BY <1>6, <3>1, SubSeqProperties
    <3>3. k - (m + 1) + 1 = k - m /\ \A i \in 1..(k - m) : (m + 1) + i - 1 = m + i
      OBVIOUS
    <3>4. ~(m + 1 <= k) => k - m = 0
      BY <2>1
    <3> QED BY <3>2, <3>3, <3>4
  <2> QED BY <1>1, <1>6, <2>1, <2>2, <2>3, <2>4
<1>8. PICK save \in BOOLEAN, b \in BOOLEAN :
        save = MustSavePad /\ b = bulk.lastRound
  BY DEF MustSavePad, IInv, Typed
<1>9. save <=> ~b /\ (E # W \/ CurWriteRealPos > W)
  BY <1>1, <1>8 DEF MustSavePad
<1>10. /\ SavedPad' = IF save THEN buf[E] ELSE SavedPad
       /\ bCopySavePad' = save
       /\ buf' = [buf EXCEPT ![Q].nv = FALSE, ![P] = Zero]
       /\ carried' = s /\ fifo' = r
       /\ bulk' = [bulk EXCEPT !.pc = "submit"]
       /\ UNCHANGED <<CurWritePosition, CurWriteRealPos, NextBulkOutPosition,
                      ENextBulkOutPosition, bCurWriting, Header_802_3, BulkOutPending, BulkOutReset,
                      writer, nextId>>
  <2>1. bulk.frames[Len(bulk.frames)].pos = Q /\ bulk.pos = P /\ m = Len(bulk.frames) /\ Len(fifo) = k
    BY <1>1, <1>4, <1>6, <1>7
  <2>2. bCopySavePad' = (bCopySavePad \/ MustSavePad)
    BY DEF BulkOutSeal
  <2>3. bCopySavePad' = save
    BY <1>4, <1>8, <2>2
  <2> QED BY <1>1, <1>6, <1>8, <2>1, <2>3 DEF BulkOutSeal
<1>11. /\ bulk' \in [pc : {"submit"}, pos : Cells, size : Nat, frames : Seq(Frames), lastRound : BOOLEAN]
       /\ bulk'.pc = "submit"
  BY <1>10 DEF IInv, Typed
<1>12. /\ ~Locked' /\ Start' = E /\ Visited' = 0 /\ (Behind' <=> W < N) /\ (Behind <=> W < N)
  BY <1>1, <1>10, <1>11 DEF Locked, Start, Visited, Behind
<1>13. Q # P /\ Q \in Cells /\ buf \in [Cells -> Cell] /\ P = Q + fifo[m].len /\ Q \in Nat /\ P \in Nat /\ Pad <= Q
  <2>1. m \in 1..k /\ P = End(fifo[m])
    BY <1>4
  <2>2. Q \in Cells /\ Q \in Nat /\ P \in Nat /\ Pad <= Q /\ P = Q + fifo[m].len /\ 2 <= fifo[m].len /\ fifo[m].len \in Nat
    BY <1>5, <1>6, <2>1
  <2>3. buf \in [Cells -> Cell]
    BY DEF IInv, Typed, TypeOK
  <2> QED BY <2>2, <2>3
<1>14. /\ buf' \in [Cells -> Cell] /\ buf'[P] = Zero /\ buf'[Q] = [buf[Q] EXCEPT !.nv = FALSE]
       /\ \A c \in Cells : c # P /\ c # Q => buf'[c] = buf[c]
  <2>1. [buf[Q] EXCEPT !.nv = FALSE] \in Cell /\ Zero \in Cell
    BY <1>13 DEF Cell, Zero
  <2>2. buf' = [[buf EXCEPT ![Q] = [buf[Q] EXCEPT !.nv = FALSE]] EXCEPT ![P] = Zero]
    BY <1>10, <1>13
  <2> QED BY <1>13, <2>1, <2>2
<1>15. \A i \in 1..k : i # m => Q < fifo[i].pos \/ End(fifo[i]) <= Q
  BY <1>1, <1>4, <1>6, NotWithin
<1>16. PICK u \in 0..(k - m) : u = IF b THEN 0 ELSE IF t > 0 THEN t - m ELSE 0
  <2>1. ~b /\ t > 0 => t - m \in 0..(k - m)
    <3>1. ~b => t = 0 \/ m < t
      BY <1>4, <1>8
    <3> QED BY <3>1
  <2>2. 0 \in 0..(k - m)
    BY <1>7
  <2> QED BY <2>1, <2>2
<1>17. E \in Cells
  BY <1>1 DEF IInv, Typed, TypeOK
<1>18. \A x : x \in Cells => HeaderAt(x) = buf[x] /\ HeaderAt(x)' = (IF save /\ x = E THEN buf[E] ELSE buf'[x])
  BY <1>1, <1>4, <1>10 DEF HeaderAt
<1>19. Lies(u)'
  <2>1. m \in Int /\ m + 1 \in Int /\ k \in Int /\ t \in Int /\ (m + 1) - m = 1
    BY <1>1
  <2>2. CASE b
    <3>1. \A j \in (m + 1)..k : r[j - m] = fifo[j]
      <4> TAKE j \in (m + 1)..k
      <4>1. j - m \in 1..(k - m) /\ m + (j - m) = j
        OBVIOUS
      <4> QED BY <1>7, <4>1
    <3>2. Run(fifo, m + 1, k, Pad, W) /\ W < N /\ E = Pad
      BY <1>4, <1>8, <2>2
    <3>3. Run(r, 1, k - m, Pad, W)
      <4>1. Run(r, (m + 1) - m, k - m, Pad, W)
        BY <2>1, <3>1, <3>2, RunShift
      <4> QED BY <2>1, <4>1
    <3>4. u = 0 /\ ~save /\ Pad <= Start'
      BY <1>9, <1>12, <1>16, <2>2, <3>2 DEF Pad
    <3>5. W < N /\ Run(fifo', 1, Len(fifo'), Start', CurWritePosition') /\ Behind'
      BY <1>1, <1>7, <1>10, <1>12, <3>2, <3>3
    <3> QED BY <1>10, <1>12, <3>4, <3>5 DEF Lies
  <2>3. CASE ~b /\ t = 0
    <3>1. \A j \in (m + 1)..k : r[j - m] = fifo[j]
      <4> TAKE j \in (m + 1)..k
      <4>1. j - m \in 1..(k - m) /\ m + (j - m) = j
        OBVIOUS
      <4> QED BY <1>7, <4>1
    <3>2. Run(fifo, m + 1, k, P, W) /\ E = P
      BY <1>4, <1>8, <2>3
    <3>3. Run(r, 1, k - m, E, W)
      <4>1. Run(r, (m + 1) - m, k - m, P, W)
        BY <2>1, <3>1, <3>2, RunShift
      <4> QED BY <2>1, <3>2, <4>1
    <3>4. u = 0 /\ NextBulkOutPosition' <= Start'
      BY <1>1, <1>4, <1>10, <1>12, <1>16, <2>3, <3>2
    <3>5. Run(fifo', 1, Len(fifo'), Start', CurWritePosition')
      BY <1>1, <1>7, <1>10, <1>12, <3>3
    <3> QED BY <3>4, <3>5 DEF Lies
  <2>4. CASE ~b /\ t > 0
    <3>1. /\ t > m /\ E = P /\ Run(fifo, m + 1, t, P, End(fifo[t])) /\ Run(fifo, t + 1, k, Pad, W) /\ W < N
          /\ t - m \in 1..(k - m) /\ u = t - m /\ m + (t - m) = t
      BY <1>4, <1>8, <1>16, <2>4
    <3>2. /\ \A j \in (m + 1)..t : r[j - m] = fifo[j]
          /\ \A j \in (t + 1)..k : r[j - m] = fifo[j]
      <4>1. ASSUME NEW j \in (m + 1)..k PROVE r[j - m] = fifo[j]
        <5>1. j - m \in 1..(k - m) /\ m + (j - m) = j
          OBVIOUS
        <5> QED BY <1>7, <5>1
      <4>2. /\ \A j \in (m + 1)..t : j \in (m + 1)..k
            /\ \A j \in (t + 1)..k : j \in (m + 1)..k
        BY <1>4, <3>1
      <4> QED BY <4>1, <4>2
    <3>3. End(fifo[t]) = End(r[t - m])
      BY <1>7, <3>1
    <3>4. Run(r, 1, t - m, E, End(r[t - m]))
      <4>1. Run(r, (m + 1) - m, t - m, P, End(fifo[t]))
        BY <2>1, <3>1, <3>2, RunShift
      <4> QED BY <2>1, <3>1, <3>3, <4>1
    <3>5. Run(r, (t - m) + 1, k - m, Pad, W)
      <4>1. t + 1 \in Int /\ (t + 1) - m = (t - m) + 1
        BY <1>3
      <4>2. Run(r, (t + 1) - m, k - m, Pad, W)
        BY <2>1, <3>1, <3>2, <4>1, RunShift
      <4> QED BY <4>1, <4>2
    <3>6. u \in 1..Len(fifo') /\ NextBulkOutPosition' <= Start' /\ Behind'
      BY <1>1, <1>4, <1>7, <1>10, <1>12, <3>1
    <3>7. Run(fifo', 1, u, Start', End(fifo'[u])) /\ Run(fifo', u + 1, Len(fifo'), Pad, CurWritePosition')
      BY <1>1, <1>7, <1>10, <1>12, <3>1, <3>4, <3>5
    <3> QED BY <3>6, <3>7 DEF Lies
  <2>5. t = 0 \/ t > 0
    BY <1>3
  <2> QED BY <2>2, <2>3, <2>4, <2>5
<1>20. Headers(u)'
  <2>1. ASSUME NEW i \in 1..(k - m), NEW x, x = r[i].pos
        PROVE  HeaderAt(x)' = Header(r[i].id, r[i].len, i = u)
    <3>1. m + i \in (m + 1)..k /\ m + i \in 1..k /\ r[i] = fifo[m + i] /\ m + i # m
      BY <1>7
    <3>2. x \in Cells /\ x \in Nat /\ x = fifo[m + i].pos /\ End(fifo[m + i]) = x + fifo[m + i].len
          /\ 2 <= fifo[m + i].len /\ fifo[m + i].len \in Nat
      BY <1>5, <2>1, <3>1
    <3>3. HeaderAt(x) = Header(r[i].id, r[i].len, m + i = t)
      <4>1. m + i \in 1..Len(fifo) /\ m + i > Visited
        BY <1>1, <1>2, <3>1
      <4>2. HeaderAt(fifo[m + i].pos) = Header(fifo[m + i].id, fifo[m + i].len, m + i = t)
        BY <1>3, <4>1 DEF Headers
      <4> QED BY <3>1, <3>2, <4>2
    <3>4. x # Q
      BY <1>13, <1>15, <3>1, <3>2
    <3>5. x = P => save
      <4> SUFFICES ASSUME x = P PROVE save
        OBVIOUS
      <4>1. ~bulk.lastRound /\ P # W
        <5>1. ~(End(fifo[m + i]) < P)
          BY <1>13, <3>2
        <5> QED BY <1>4, <3>1, <5>1
      <4> QED BY <1>4, <1>8, <1>9, <4>1
    <3>6. HeaderAt(x)' = buf[x]
      <4>1. save => E = P
        BY <1>4, <1>8, <1>9
      <4> QED BY <1>14, <1>18, <3>2, <3>4, <3>5, <4>1
    <3>7. (m + i = t) = (i = u)
      <4>1. CASE b
        <5>1. t = m /\ u = 0 /\ m + i # t /\ i # u
          BY <1>4, <1>8, <1>16, <4>1
        <5> QED BY <5>1
      <4>2. CASE ~b /\ t = 0
        <5>1. u = 0 /\ m + i # t /\ i # u
          BY <1>4, <1>16, <4>2
        <5> QED BY <5>1
      <4>3. CASE ~b /\ t > 0
        <5>1. u = t - m
          BY <1>16, <4>3
        <5>2. m + i = t <=> i = u
          BY <1>1, <1>3, <5>1
        <5> QED BY <5>2
      <4> QED BY <1>3, <4>1, <4>2, <4>3
    <3> QED BY <1>18, <3>2, <3>3, <3>6, <3>7
  <2>2. ASSUME NEW i \in 1..Len(fifo'), NEW x, x = fifo'[i].pos
        PROVE  /\ HeaderAt(x)' = Header(fifo'[i].id, fifo'[i].len, i = u)
               /\ i > Visited' /\ ~(i <= Visited')
    <3>1. i \in 1..(k - m) /\ fifo'[i] = r[i]
      BY <1>7, <1>10, <2>2
    <3>2. i > 0 /\ ~(i <= 0)
      BY <3>1
    <3> QED BY <1>12, <2>1, <2>2, <3>1, <3>2
  <2> QED BY <2>2 DEF Headers
<1>21. Walks(u)'
  BY <1>12 DEF Walks
\* No cell of a body is the place of the last header or of the pad.
<1>22. ASSUME NEW i \in 1..k, NEW c \in (fifo[i].pos + 1)..(fifo[i].pos + fifo[i].len - 1)
       PROVE  buf'[c] = Body(fifo[i].id)
  <2>1. buf[c] = Body(fifo[i].id)
    BY <1>1, <1>22 DEF IInv, Inv, Bodies, BodyIntact
  <2>2. /\ fifo[i].pos \in Nat /\ fifo[i].len \in Nat /\ End(fifo[i]) = fifo[i].pos + fifo[i].len
        /\ c \in Cells /\ c \in Nat /\ fifo[i].pos < c /\ c < End(fifo[i])
    <3>1. /\ fifo[i].pos \in Nat /\ fifo[i].len \in Nat
          /\ \A x \in fifo[i].pos..(End(fifo[i]) - 1) : x \in Cells /\ x \in Nat
      BY <1>1, FifoFrames
    <3>2. c \in fifo[i].pos..(End(fifo[i]) - 1) /\ fifo[i].pos < c /\ c < End(fifo[i])
      BY <1>22, <3>1 DEF End
    <3> QED BY <3>1, <3>2 DEF End
  <2>3. c # Q
    <3>1. CASE i = m
      <4>1. fifo[i].pos = Q
        BY <1>6, <3>1
      <4> QED BY <2>2, <4>1
    <3>2. CASE i # m
      BY <1>13, <1>15, <2>2, <3>2
    <3> QED BY <3>1, <3>2
  <2>4. c # P
    <3>1. CASE i <= m
      <4>1. i \in 1..m
        BY <3>1
      <4>2. End(fifo[i]) <= P
        BY <1>4, <4>1 DEF Run
      <4> QED BY <1>13, <2>2, <4>2
    <3>2. CASE i > m
      <4>1. i \in (m + 1)..k
        BY <3>2
      <4>2. P <= fifo[i].pos \/ End(fifo[i]) < P
        BY <1>4, <4>1
      <4> QED BY <1>13, <2>2, <4>2
    <3> QED BY <3>1, <3>2
  <2> QED BY <1>14, <2>1, <2>2, <2>3, <2>4
<1>23. Bodies'
  <2> SUFFICES ASSUME NEW i \in 1..(k - m), NEW c \in (r[i].pos + 1)..(r[i].pos + r[i].len - 1)
               PROVE  buf'[c] = Body(r[i].id)
    <3>1. \A i \in 1..Len(fifo') : i \in 1..(k - m) /\ fifo'[i] = r[i]
      BY <1>7, <1>10
    <3> QED BY <3>1 DEF Bodies, BodyIntact
  <2>1. m + i \in 1..k /\ r[i] = fifo[m + i]
    BY <1>7
  <2> QED BY <1>22, <2>1
<1>24. Saves'
  <2>1. save => E = P /\ Pad < E
    <3>1. save => E = P
      BY <1>4, <1>8, <1>9
    <3>2. Pad < P
      BY <1>4, <1>5, <1>13 DEF Pad
    <3> QED BY <3>1, <3>2
  <2>2. save /\ E = W => CurWriteRealPos > W
    BY <1>9
  <2>3. CurWriteRealPos > W => bCurWriting
    BY <1>1, Numbers DEF IInv, Inv, OneWrites
  <2> QED BY <1>1, <1>10, <2>1, <2>2, <2>3 DEF Saves
<1>25. Carries'
  <2>1. Len(s) = m /\ s # <<>> /\ m \in 1..m /\ s[m] = fifo[m]
    <3>1. Len(<<>>) = 0
      OBVIOUS
    <3> QED BY <1>4, <1>7, <3>1
  <2>2. End(s[m]) = P /\ End(s[m]) \in Cells
    BY <1>4, <2>1
  <2>3. Run(s, 1, m, N, End(s[m]))
    <3>1. 1 \in Int /\ m \in Int /\ \A i \in 1..m : s[i] = fifo[i]
      BY <1>7
    <3>2. Run(s, 1, m, N, P)
      BY <1>4, <3>1, RunSame
    <3> QED BY <2>2, <3>2
  <2>4. N <= E => P <= E /\ (bCurWriting /\ ~save => P # W)
    <3>1. CASE b
      <4>1. E = Pad /\ Pad <= W /\ W < N
        BY <1>4, <1>8, <3>1
      <4> QED BY <1>1, <4>1 DEF Pad
    <3>2. CASE ~b
      <4>1. E = P
        BY <1>4, <1>8, <3>2
      <4>2. bCurWriting => CurWriteRealPos > W
        BY <1>1 DEF IInv, Inv, OneWrites
      <4>3. ~save => E = W /\ ~(CurWriteRealPos > W)
        BY <1>9, <3>2
      <4> QED BY <1>1, <4>1, <4>2, <4>3
    <3> QED BY <3>1, <3>2
  <2> QED BY <1>1, <1>10, <2>1, <2>2, <2>3, <2>4 DEF Carries
<1>26. BulkIntact'
  <2>1. ASSUME NEW i \in 1..m, NEW f, f = fifo[i]
        PROVE  buf'[f.pos] = [Header(f.id, f.len, FALSE) EXCEPT !.nv = i < m]
    <3>1. i \in 1..k /\ f \in Frames /\ f.pos \in Cells /\ f.pos \in Nat /\ f.len \in Nat /\ f.id \in Nat
          /\ End(f) = f.pos + f.len /\ 2 <= f.len
      <4>1. i \in 1..k
        BY <1>4
      <4>2. f \in Frames /\ f.pos \in Cells /\ f.pos \in Nat /\ f.len \in Nat
            /\ End(f) = f.pos + f.len /\ 2 <= f.len
        BY <1>5, <2>1, <4>1
      <4> QED BY <4>1, <4>2 DEF Frames
    <3>2. PICK h : h = buf[f.pos]
      OBVIOUS
    <3>3. h \in Cell /\ h.nv \in BOOLEAN
      BY <1>13, <3>1, <3>2 DEF Cell
    <3>4. h = [Header(f.id, f.len, FALSE) EXCEPT !.nv = h.nv] /\ (i < m => h.nv)
      <4>1. i \in 1..Len(fifo) /\ i <= Visited /\ (i < m <=> i < Visited)
        BY <1>1, <1>2, <3>1
      <4>2. HeaderAt(fifo[i].pos) = h
        BY <1>18, <2>1, <3>1, <3>2
      <4> QED BY <1>3, <2>1, <4>1, <4>2 DEF Headers
    <3>5. CASE i < m
      <4>1. f.pos # Q /\ f.pos # P
        <5>1. End(f) <= P
          BY <1>4, <2>1 DEF Run
        <5>2. Q < f.pos \/ End(f) <= Q
          BY <1>15, <2>1, <3>1, <3>5
        <5> QED BY <1>13, <3>1, <5>1, <5>2
      <4>2. h.nv = (i < m)
        BY <3>3, <3>4, <3>5
      <4> QED BY <1>14, <3>1, <3>2, <3>4, <4>1, <4>2
    <3>6. CASE i = m
      <4>1. f.pos = Q /\ (i < m) = FALSE
        BY <1>6, <2>1, <3>6
      <4>2. buf'[f.pos] = [h EXCEPT !.nv = FALSE]
        BY <1>14, <3>2, <4>1
      <4>3. PICK g : g = [Header(f.id, f.len, FALSE) EXCEPT !.nv = FALSE]
        OBVIOUS
      <4>4. g \in Cell /\ g.id = f.id /\ g.len = f.len /\ g.last = FALSE /\ g.nv = FALSE
        BY <3>1, <4>3 DEF Header, Cell
      <4>5. h.id = f.id /\ h.len = f.len /\ h.last = FALSE
        BY <3>1, <3>3, <3>4 DEF Header, Cell
      <4>6. [h EXCEPT !.nv = FALSE] = g
        BY <3>3, <4>4, <4>5 DEF Cell
      <4> QED BY <4>1, <4>2, <4>3, <4>6
    <3> QED BY <3>5, <3>6
  <2>2. ASSUME NEW i \in 1..m, NEW f, f = fifo[i], NEW c \in (f.pos + 1)..(f.pos + f.len - 1)
        PROVE  buf'[c] = Body(f.id)
    <3>1. i \in 1..k
      BY <1>4
    <3> QED BY <1>22, <2>2, <3>1
  <2>3. ASSUME NEW i \in 1..m, i = m PROVE buf'[s[i].pos + s[i].len] = Zero
    <3>1. s[i].pos + s[i].len = P
      BY <1>4, <1>5, <1>7, <2>3
    <3> QED BY <1>14, <3>1
  <2>4. ASSUME NEW i \in 1..m
        PROVE  /\ buf'[s[i].pos] = [Header(s[i].id, s[i].len, FALSE) EXCEPT !.nv = i < m]
               /\ \A c \in (s[i].pos + 1)..(s[i].pos + s[i].len - 1) : buf'[c] = Body(s[i].id)
               /\ i = m => buf'[s[i].pos + s[i].len] = Zero
    <3>1. s[i] = fifo[i]
      BY <1>7
    <3> QED BY <2>1, <2>2, <2>3, <3>1
  <2>5. Len(carried') = m /\ \A i \in 1..m : carried'[i] = s[i]
    BY <1>7, <1>10
  <2> QED BY <2>4, <2>5, ZenonT(60) DEF BulkIntact, BodyIntact
<1>27. Bounded'
  <2>1. Bounded
    BY DEF IInv, Inv
  <2>2. \A i \in 1..Len(fifo') : m + i \in 1..Len(fifo) /\ fifo'[i] = fifo[m + i]
    BY <1>1, <1>7, <1>10
  <2> QED BY <1>10, <2>1, <2>2 DEF Bounded
<1>28. OneWrites' /\ (BulkOutPending' <=> bulk'.pc # "idle")
  <2>1. OneWrites /\ BulkOutPending
    BY <1>2 DEF IInv, Inv
  <2> QED BY <1>10, <1>11, <2>1 DEF OneWrites, Busy
<1>29. ASSUME NEW v \in Writers PROVE Waits(v)' /\ Writes(v)'
  <2>1. Waits(v)'
    <3>1. (Busy(v)' <=> Busy(v)) /\ (Behind' <=> Behind)
      BY <1>10, <1>12 DEF Busy
    <3> QED BY <1>10, <3>1 DEF Waits, IInv, Inv
  <2>2. ASSUME Busy(v), bCurWriting
        PROVE  Writes(v)'
    <3>1. PICK n \in Nat : n = writer[v].total /\ 4 <= n
      <4>1. writer[v].total \in Lens
        BY <2>2 DEF IInv, Inv, Waits, Busy
      <4> QED BY <4>1, Numbers DEF IInv
    <3>2. Behind' => W + n + 3 <= N
      BY <1>1, <1>12, <2>2, <3>1 DEF IInv, Inv, Writes
    <3>3. \A c \in W..(W + n) : c \in Cells /\ c \in Nat /\ c # Q /\ (c # W => c # P)
      <4> TAKE c \in W..(W + n)
      <4>1. c \in Cells /\ c \in Nat /\ (c < fifo[m].pos \/ End(fifo[m]) <= c)
        BY <1>1, <1>4, <2>2, <3>1, Room
      <4>2. c # Q
        <5>1. c < Q \/ P <= c
          BY <1>4, <1>6, <4>1
        <5>2. Q < P
          <6>1. 2 <= fifo[m].len /\ fifo[m].len \in Nat
            BY <1>4, <1>5
          <6> QED BY <1>13, <6>1
        <5> QED BY <1>13, <4>1, <5>1, <5>2
      <4>3. c # W => c # P
        <5>1. CASE W < N
          <6>1. W + n + 3 <= N /\ N <= P
            BY <1>4, <1>12, <3>2, <5>1
          <6> QED BY <1>13, <3>1, <6>1
        <5>2. CASE P <= W
          BY <1>1, <1>13, <3>1, <5>2
        <5> QED BY <1>4, <5>1, <5>2
      <4> QED BY <4>1, <4>2, <4>3
    <3>4. HeaderAt(W)' = HeaderAt(W)
      <4>1. W \in Cells /\ W # Q
        <5>1. W \in W..(W + n)
          BY <3>1
        <5> QED BY <3>3, <5>1
      <4>2. CurWriteRealPos > W
        BY <1>1, <2>2 DEF IInv, Inv, OneWrites
      <4>3. CASE W = P
        <5>1. ~(W < N)
          BY <1>1, <1>4, <1>13, <4>3
        <5>2. ~b /\ E = W
          BY <1>4, <1>8, <4>3, <5>1
        <5>3. save
          BY <1>9, <4>2, <5>2
        <5> QED BY <1>18, <4>1, <5>2, <5>3
      <4>4. CASE W # P
        <5>1. save => E # W
          BY <1>4, <1>8, <1>9, <4>4
        <5>2. buf'[W] = buf[W]
          BY <1>14, <4>1, <4>4
        <5> QED BY <1>18, <4>1, <5>1, <5>2
      <4> QED BY <4>3, <4>4
    <3>5. \A c \in (W + 1)..(W + n - 1) : buf'[c] = buf[c]
      <4> TAKE c \in (W + 1)..(W + n - 1)
      <4>1. c \in W..(W + n) /\ c # W
        BY <3>1
      <4> QED BY <1>14, <3>3, <4>1
    <3>6. Behind' => W + n + 3 <= NextBulkOutPosition'
      BY <1>1, <1>10, <3>2
    <3> QED BY <1>1, <1>10, <2>2, <3>1, <3>4, <3>5, <3>6, WritesStay
  <2>3. ~(Busy(v) /\ bCurWriting) => Writes(v)'
    BY <1>10 DEF Writes, Busy
  <2> QED BY <2>1, <2>2, <2>3
<1>30. Typed'
  <2>1. SavedPad' \in Cell
    BY <1>10, <1>13, <1>17 DEF IInv, Typed, TypeOK
  <2> QED BY <1>7, <1>10, <1>11, <1>14, <2>1 DEF IInv, Typed, TypeOK
<1>31. u \in 0..Len(fifo')
  BY <1>7, <1>10
<1> QED BY <1>19, <1>20, <1>21, <1>23, <1>24, <1>25, <1>26, <1>27, <1>28, <1>29, <1>30, <1>31 DEF IInv, Inv

----------------------------------------------------------------------------
(* The theorems.                                                            *)

\* Nothing is written, nothing is queued, nothing is under way.
LEMMA Starts == Init => IInv
<1> SUFFICES ASSUME Init PROVE IInv
  OBVIOUS
<1>1. /\ 0 \in Cells /\ LastPlace \in Nat /\ LastPlace + 3 \in Nat
      /\ <<>> \in Seq(Frames) /\ Len(<<>>) = 0
  BY TxRingAssumption DEF Cells, LastPlace
<1>2. /\ CurWritePosition = 0 /\ CurWriteRealPos = 0 /\ NextBulkOutPosition = 0
      /\ ENextBulkOutPosition = 0 /\ bCurWriting = FALSE /\ bCopySavePad = FALSE
      /\ SavedPad = Zero /\ Header_802_3 = 0 /\ buf = [c \in Cells |-> Zero] /\ BulkOutPending = FALSE /\ BulkOutReset = FALSE
      /\ bulk = BulkIdle /\ carried = <<>> /\ writer = [w \in Writers |-> Idle] /\ fifo = <<>> /\ nextId = 1
  BY DEF Init
<1>3. /\ bulk \in [pc : {"idle"}, pos : Cells, size : Nat, frames : Seq(Frames), lastRound : BOOLEAN]
      /\ bulk.pc = "idle"
  BY <1>1, <1>2 DEF BulkIdle
<1>4. \A w \in Writers : writer[w] = Idle /\ Idle \in Actor /\ Idle.pc = "idle" /\ Idle.kind = "Single"
  <2>1. Idle.kind = "Single"
    BY DEF Idle
  <2> QED BY <1>2, <2>1, IdleType
<1>5. Typed
  <2>1. Zero \in Cell
    BY DEF Zero, Cell
  <2>2. writer \in [Writers -> Actor]
    BY <1>2, <1>4
  <2>3. \A w \in Writers : /\ writer[w].pc \in {"idle", "granted", "copy", "next", "final"}
                           /\ writer[w].kind \in {"Single", "Frag", "Multi"}
    BY <1>4
  <2>4. TypeOK
    BY <1>1, <1>2, <1>3, <2>1, <2>3 DEF TypeOK
  <2> QED BY <1>3, <2>2, <2>4 DEF Typed
<1>6. ~Locked /\ Start = 0 /\ Visited = 0
  BY <1>2, <1>3 DEF Locked, Start, Visited
<1>7. Lies(0) /\ Headers(0) /\ Walks(0)
  <2>1. Run(fifo, 1, 0, 0, 0)
    BY DEF Run
  <2>2. Lies(0)
    BY <1>1, <1>2, <1>6, <2>1 DEF Lies
  <2>3. Headers(0)
    BY <1>1, <1>2 DEF Headers
  <2> QED BY <1>6, <2>2, <2>3 DEF Walks
<1>8. Bounded /\ Bodies /\ Saves
  BY <1>1, <1>2 DEF Bounded, Bodies, Saves
<1>9. Carries /\ BulkIntact
  BY <1>1, <1>2, <1>3 DEF Carries, BulkIntact
<1>10. OneWrites /\ \A w \in Writers : Waits(w) /\ Writes(w)
  BY <1>2, <1>4 DEF OneWrites, Busy, Waits, Writes
<1>11. (BulkOutPending <=> bulk.pc # "idle") /\ 0 \in 0..Len(fifo)
  BY <1>1, <1>2, <1>3
<1> QED BY <1>5, <1>7, <1>8, <1>9, <1>10, <1>11 DEF IInv, Inv

\* Every step keeps the invariant.
LEMMA StepKeeps ==
  ASSUME Fits, IInv, [Next]_vars
  PROVE  IInv'
<1>1. CASE \/ BulkOutClaim \/ BulkOutEmpty \/ SubmitOk \/ SubmitFail
           \/ DataOutComplete(TRUE) \/ DataOutComplete(FALSE) \/ ResetBulkOut
  BY <1>1, HandingKeeps
<1>2. CASE BulkOutBegin
  BY <1>2, BeginKeeps
<1>3. CASE BulkOutStop
  BY <1>3, StopKeeps
<1>4. CASE BulkOutFrame
  BY <1>4, FrameKeeps
<1>5. CASE BulkOutSeal
  BY <1>5, SealKeeps
<1>6. ASSUME NEW w \in Writers, WriterStep(w)
      PROVE  IInv'
  <2>1. CASE RTMPDeQueuePacket(w)
    BY <2>1, DequeueKeeps
  <2>2. CASE WriteFirst(w)
    BY <2>2, FirstKeeps
  <2>3. CASE WriteRefused(w)
    BY <2>3, RefusedKeeps
  <2>4. CASE CopyPayload(w)
    BY <2>4, CopyKeeps
  <2>5. CASE WriteNext(w)
    BY <2>5, NextKeeps, DropKeeps
  <2>6. CASE WriteCommit(w)
    BY <2>6, WriteCommitKeeps
  <2>7. CASE FinalWriteTxResource(w)
    BY <2>7, FinalKeeps, FinalDropKeeps
  <2> QED BY <1>6, <2>1, <2>2, <2>3, <2>4, <2>5, <2>6, <2>7 DEF WriterStep
<1>7. CASE UNCHANGED vars
  <2>1. UNCHANGED <<ringVars, BulkOutPending, BulkOutReset, bulk, carried, writer, fifo, nextId>>
    BY <1>7 DEF vars
  <2>2. Typed'
    BY <2>1 DEF IInv, Typed, TypeOK, ringVars
  <2>3. UNCHANGED <<CurWritePosition, CurWriteRealPos, NextBulkOutPosition, ENextBulkOutPosition,
                    bCurWriting, bCopySavePad, SavedPad, buf, BulkOutPending, bulk, carried, fifo>>
    BY <2>1 DEF ringVars
  <2>4. OneWrites' /\ \A w \in Writers : Waits(w)' /\ Writes(w)'
    BY <2>1, QuietWriters DEF IInv
  <2>5. /\ Bounded' /\ Saves' /\ Carries' /\ (BulkOutPending' <=> bulk'.pc # "idle")
        /\ \A t : Lies(t) /\ Walks(t) => Lies(t)' /\ Walks(t)'
    BY <2>3, PlacesStay DEF IInv
  <2>6. Bodies' /\ BulkIntact' /\ \A t : Headers(t) => Headers(t)'
    <3>1. PICK D : D = {}
      OBVIOUS
    <3>2. \A c \in Cells : c \in D \/ buf'[c] = buf[c]
      BY <2>3
    <3>3. \A c \in D :
            /\ \A i \in 1..Len(fifo) : c < fifo[i].pos \/ End(fifo[i]) <= c
            /\ ~Locked /\ carried # <<>> => c < NextBulkOutPosition \/ End(carried[Len(carried)]) < c
            /\ bCopySavePad => c # ENextBulkOutPosition
      BY <3>1
    <3> QED BY <2>3, <3>2, <3>3, RingStays
  <2>7. PICK t \in 0..Len(fifo) : Lies(t) /\ Headers(t) /\ Walks(t)
    BY DEF IInv, Inv
  <2> QED BY <2>2, <2>3, <2>4, <2>5, <2>6, <2>7 DEF IInv, Inv
<1> QED BY <1>1, <1>2, <1>3, <1>4, <1>5, <1>6, <1>7 DEF Next, BulkStep

\* The invariant the theorems rest on.
THEOREM RingInvariant == Fits => (Spec => []IInv)
<1> SUFFICES ASSUME Fits PROVE Spec => []IInv
  OBVIOUS
<1>1. Init => IInv
  BY Starts
<1>2. IInv /\ [Next]_vars => IInv'
  BY StepKeeps
<1> QED BY <1>1, <1>2, PTL DEF Spec

\* The positions of HT_TX_CONTEXT stay inside the transfer buffer, whatever turns the ring takes.
THEOREM RingTyped == Fits => (Spec => []TypeOK)
<1>1. IInv => TypeOK
  BY DEF IInv, Typed
<1> QED BY <1>1, RingInvariant, PTL

\* A frame committed by a writer keeps its header and payload until RTUSBBulkOutDataPacket takes it.
THEOREM QueueStaysIntact == Fits => (Spec => []QueueIntact)
<1>1. IInv => QueueIntact
  <2> SUFFICES ASSUME IInv, NEW i \in 1..Len(fifo)
               PROVE  /\ HeaderAt(fifo[i].pos).id = fifo[i].id
                      /\ HeaderAt(fifo[i].pos).len = fifo[i].len
                      /\ BodyIntact(fifo[i])
    BY DEF QueueIntact
  <2>1. PICK t \in 0..Len(fifo) : Headers(t)
    BY DEF IInv, Inv
  <2>2. BodyIntact(fifo[i])
    BY DEF IInv, Inv, Bodies
  <2>3. PICK f, h : f = fifo[i] /\ h = HeaderAt(f.pos)
    OBVIOUS
  <2>4. h = Header(f.id, f.len, i = t) \/ h = [Header(f.id, f.len, FALSE) EXCEPT !.nv = h.nv]
    <3>1. i > Visited \/ i <= Visited
      <4>1. Len(bulk.frames) \in Nat
        BY Numbers DEF IInv
      <4>2. Visited \in Nat
        BY <4>1 DEF Visited
      <4> QED BY <4>2
    <3> QED BY <2>1, <2>3, <3>1 DEF Headers
  <2>5. h.id = f.id /\ h.len = f.len
    BY <2>4 DEF Header
  <2> QED BY <2>2, <2>3, <2>5
<1> QED BY <1>1, RingInvariant, PTL

\* What a transfer carries is not disturbed until the next one is composed: rtusb's URB and the reset
\* command read it at any time.
THEOREM TransferStaysIntact == Fits => (Spec => []BulkIntact)
<1>1. IInv => BulkIntact
  BY DEF IInv, Inv
<1> QED BY <1>1, RingInvariant, PTL

\* The error branch of RTUSBBulkOutDataPacket ("e2, USBDMATxPktLen==0") stays unused.
THEOREM WalkMeetsHeaders == Fits => (Spec => []WalkFindsHeaders)
<1>1. IInv => WalkFindsHeaders
  <2> SUFFICES ASSUME IInv, bulk.pc = "walk", WalkGoesOn
               PROVE  buf[bulk.pos].len > 1
    BY DEF WalkFindsHeaders
  <2>1. PICK m : m = Len(bulk.frames)
    OBVIOUS
  <2>2. PICK t \in 0..Len(fifo) : Lies(t) /\ Headers(t) /\ Walks(t)
    BY DEF IInv, Inv
  <2>3. /\ m \in Nat /\ m < Len(fifo)
        /\ buf[bulk.pos] = Header(fifo[m + 1].id, fifo[m + 1].len, m + 1 = t)
    BY <2>1, <2>2, NextFrame DEF WalkGoesOn
  <2>4. m + 1 \in 1..Len(fifo)
    BY <2>3, Numbers DEF IInv
  <2>5. 2 <= fifo[m + 1].len /\ fifo[m + 1].len \in Nat
    BY <2>4, FifoFrames
  <2> QED BY <2>3, <2>5 DEF Header
<1> QED BY <1>1, RingInvariant, PTL

\* What follows a sequence leaves it a prefix.
LEMMA PrefixStays ==
  ASSUME NEW S, NEW s \in Seq(S), NEW r \in Seq(S), r # <<>>
  PROVE  Len(s \o r) > Len(s) /\ SubSeq(s \o r, 1, Len(s)) = s
<1>1. PICK q : q = s \o r
  OBVIOUS
<1>2. /\ q \in Seq(S) /\ Len(q) = Len(s) + Len(r) /\ Len(s) \in Nat /\ Len(r) \in Nat \ {0}
      /\ \A i \in 1..Len(s) : q[i] = s[i] /\ s[i] \in S
  <2>1. Len(s) \in Nat /\ Len(r) \in Nat \ {0} /\ \A i \in 1..Len(s) : s[i] \in S
    BY EmptySeq, LenProperties
  <2>2. /\ q \in Seq(S) /\ Len(q) = Len(s) + Len(r)
        /\ \A i \in 1..Len(s) + Len(r) : q[i] = IF i <= Len(s) THEN s[i] ELSE r[i - Len(s)]
    BY <1>1, ConcatProperties
  <2> QED BY <2>1, <2>2
<1>3. PICK p, n : n = Len(s) /\ p = SubSeq(q, 1, n)
  BY <1>2
<1>4. p \in Seq(S) /\ Len(p) = n /\ n \in Nat /\ \A i \in 1..n : p[i] = s[i]
  <2>1. 1 \in Int /\ n \in Int /\ n \in Nat /\ \A i \in 1..n : q[i] \in S
    BY <1>2, <1>3
  <2>2. /\ p \in Seq(S) /\ Len(p) = IF 1 <= n THEN n - 1 + 1 ELSE 0
        /\ \A i \in 1..(n - 1 + 1) : p[i] = q[1 + i - 1]
    BY <1>3, <2>1, SubSeqProperties
  <2>3. n - 1 + 1 = n /\ (~(1 <= n) => n = 0) /\ \A i \in 1..n : 1 + i - 1 = i
    BY <2>1
  <2> QED BY <1>2, <1>3, <2>1, <2>2, <2>3
<1>5. p = s
  BY <1>3, <1>4, SeqEqual
<1> QED BY <1>1, <1>2, <1>3, <1>5

\* A write puts frames behind those that wait.
LEMMA PutsFrames ==
  ASSUME IInv, NEW x, fifo' = fifo \o Written(x)
  PROVE  Len(fifo') > Len(fifo) /\ SubSeq(fifo', 1, Len(fifo)) = fifo
<1>1. PICK a, b : Written(x) = <<a>> \/ Written(x) = <<a, b>>
  BY DEF Written
<1>2. PICK S : S = Frames \cup {a, b}
  OBVIOUS
<1>3. fifo \in Seq(S)
  <2>1. fifo \in Seq(Frames) /\ Frames \subseteq S
    BY <1>2 DEF IInv, Typed, TypeOK
  <2> QED BY <2>1, SeqMonotonic
<1>4. Written(x) \in Seq(S) /\ Written(x) # <<>>
  BY <1>1, <1>2
<1> QED BY <1>3, <1>4, PrefixStays

\* What each step is to the queue of frames.
LEMMA StepIsFifoStep ==
  ASSUME IInv, [Next]_vars
  PROVE  [Fifo!Next]_(Fifo!fifoVars)
<1>1. CASE BulkOutSeal
  <2>1. PICK t \in 0..Len(fifo) : Lies(t) /\ Walks(t)
    BY DEF IInv, Inv
  <2>2. PICK m : m = Len(bulk.frames)
    OBVIOUS
  <2>3. bulk.pc = "seal" /\ bulk' = [bulk EXCEPT !.pc = "submit"]
    BY <1>1 DEF BulkOutSeal
  <2>4. m \in 1..Len(fifo) /\ bulk.frames = SubSeq(fifo, 1, m)
    BY <2>1, <2>3, <2>2, Sealed
  <2>5. carried' = SubSeq(fifo, 1, m) /\ fifo' = SubSeq(fifo, m + 1, Len(fifo))
    BY <1>1, <2>4, <2>2 DEF BulkOutSeal
  <2>6. bulk'.pc = "submit"
    BY <2>3 DEF IInv, Typed
  <2> QED BY <2>3, <2>4, <2>5, <2>6 DEF Fifo!Next, Fifo!Take
<1>2. CASE SubmitOk
  <2>1. bulk.pc = "submit" /\ bulk'.pc = "flying" /\ carried # <<>> /\ UNCHANGED <<carried, fifo>>
    BY <1>2 DEF SubmitOk, BulkIdle, IInv, Inv, Carries
  <2> QED BY <2>1 DEF Fifo!Next, Fifo!Submit
<1>3. CASE DataOutComplete(TRUE) \/ DataOutComplete(FALSE)
  <2>1. bulk.pc = "flying" /\ bulk'.pc = "idle" /\ UNCHANGED <<carried, fifo>>
    BY <1>3 DEF DataOutComplete, BulkIdle
  <2> QED BY <2>1 DEF Fifo!Next, Fifo!Complete
<1>4. CASE BulkOutClaim \/ BulkOutEmpty \/ BulkOutBegin \/ BulkOutStop \/ SubmitFail \/ ResetBulkOut
  <2>1. bulk.pc # "flying" /\ UNCHANGED <<carried, fifo>>
    BY <1>4 DEF BulkOutClaim, BulkOutEmpty, BulkOutBegin, BulkOutStop, SubmitFail, ResetBulkOut, IInv, Inv
  <2>2. bulk'.pc # "flying"
    <3>1. CASE BulkOutStop
      BY <3>1 DEF BulkOutStop, IInv, Typed
    <3>2. CASE BulkOutClaim \/ BulkOutEmpty \/ BulkOutBegin \/ SubmitFail \/ ResetBulkOut
      <4>1. PICK b \in [pc : {"idle"}, pos : {0}, size : {0}, frames : {<<>>}, lastRound : {FALSE}] :
              b = BulkIdle
        BY DEF BulkIdle
      <4>2. \/ bulk' = b \/ bulk' = [b EXCEPT !.pc = "claimed"] \/ bulk' = [b EXCEPT !.pc = "submit"]
            \/ \E p : bulk' = [b EXCEPT !.pc = "walk", !.pos = p]
        BY <3>2, <4>1 DEF BulkOutClaim, BulkOutEmpty, BulkOutBegin, SubmitFail, ResetBulkOut
      <4> QED BY <4>1, <4>2
    <3> QED BY <1>4, <3>1, <3>2
  <2> QED BY <2>1, <2>2 DEF Fifo!fifoVars
<1>5. CASE BulkOutFrame
  <2>1. bulk.pc # "flying" /\ bulk'.pc # "flying" /\ UNCHANGED <<carried, fifo>>
    BY <1>5 DEF BulkOutFrame, BulkIdle
  <2> QED BY <2>1 DEF Fifo!fifoVars
<1>6. ASSUME NEW w \in Writers, WriterStep(w)
      PROVE  Fifo!Put \/ UNCHANGED Fifo!fifoVars
  <2>1. UNCHANGED <<carried, bulk>>
    BY <1>6 DEF WriterStep, RTMPDeQueuePacket, WriteFirst, WriteRefused, CopyPayload, WriteNext,
                WriteCommit, FinalWriteTxResource
  <2>2. fifo' = fifo \/ fifo' = fifo \o Written(writer[w])
    BY <1>6 DEF WriterStep, RTMPDeQueuePacket, WriteFirst, WriteRefused, CopyPayload, WriteNext,
                WriteCommit, FinalWriteTxResource
  <2>3. CASE fifo' = fifo
    BY <2>1, <2>3 DEF Fifo!fifoVars
  <2>4. CASE fifo' = fifo \o Written(writer[w])
    <3>1. Len(fifo') > Len(fifo) /\ SubSeq(fifo', 1, Len(fifo)) = fifo
      BY <2>4, PutsFrames
    <3> QED BY <2>1, <3>1 DEF Fifo!Put
  <2> QED BY <2>2, <2>3, <2>4
<1>7. CASE UNCHANGED vars
  BY <1>7 DEF vars, Fifo!fifoVars
<1> QED BY <1>1, <1>2, <1>3, <1>4, <1>5, <1>6, <1>7 DEF Next, BulkStep, Fifo!Next

\* The ring implements TxFifo: frames leave in the order of their commits, each in one transfer, and
\* no transfer is composed while one is in the hands of the USB core.
THEOREM RingRefinesFifo == Fits => (Spec => RefinesFifo)
<1> SUFFICES ASSUME Fits PROVE Spec => RefinesFifo
  OBVIOUS
<1>1. Init => Fifo!Init
  BY DEF Init, BulkIdle, Fifo!Init
<1>2. IInv /\ [Next]_vars => [Fifo!Next]_(Fifo!fifoVars)
  BY StepIsFifoStep
<1>3. Spec => []IInv
  BY RingInvariant
<1> QED BY <1>1, <1>2, <1>3, PTL DEF Spec, RefinesFifo, Fifo!Spec
=============================================================================

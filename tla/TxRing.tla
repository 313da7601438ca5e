------------------------------- MODULE TxRing -------------------------------
(***************************************************************************)
(* The transmit ring of one bulk-out pipe (HT_TX_CONTEXT): a byte buffer    *)
(* which packet writers fill under TxContextQueueLock while the bulk-out    *)
(* routine cuts it into USB transfers.  Positions and lengths are counted   *)
(* in cells of eight bytes, the size of SavedPad and of the zero pad that   *)
(* ends a transfer; a frame is one header cell followed by body cells.      *)
(***************************************************************************)
EXTENDS Integers, Sequences, FiniteSets

CONSTANTS
  Writers,   \* contexts that may run RTMPDeQueuePacket for this queue
  Kinds,     \* the ways a packet is written, of "Single", "Frag" and "Multi"
  Concurrent,\* the kinds that two writers may have in hand at the same time
  Lens,      \* total lengths of what one write commits
  LocalTxBuf,\* LOCAL_TXBUF_SIZE, the slack kept before NextBulkOutPosition
  HeadRoom,  \* 3906: room for the largest aggregate before the ring turns
  BulkCaps,  \* the sizes at which RTUSBBulkOutDataPacket ends a transfer, of
             \* which the PHYMODE of the next frame and the USB speed pick one
  Limit,     \* MAX_TXBULK_LIMIT
  MaxFrame   \* bound: frames written in one behaviour

ASSUME TxRingAssumption ==
  /\ Concurrent \subseteq Kinds /\ Kinds \subseteq {"Single", "Frag", "Multi"}
  /\ Lens \subseteq {n \in Nat : 4 <= n /\ n <= HeadRoom}
  /\ LocalTxBuf \in Nat /\ HeadRoom \in Nat /\ BulkCaps \subseteq Nat \ {0}
  /\ Limit \in Nat /\ MaxFrame \in Nat
  /\ 5 <= LocalTxBuf /\ 4 <= HeadRoom /\ HeadRoom < Limit

VARIABLES
  CurWritePosition, CurWriteRealPos,
  NextBulkOutPosition, ENextBulkOutPosition,
  bCurWriting, bCopySavePad, SavedPad,
  Header_802_3, \* what was written into the field behind SavedPad, or 0
  buf,          \* WirelessPacket[], by cell
  BulkOutPending,
  BulkOutReset, \* fRTMP_ADAPTER_BULKOUT_RESET on behalf of this pipe
  bulk,         \* the progress of RTUSBBulkOutDataPacket
  carried,      \* frames of the newest transfer, as read from the buffer
  writer,       \* the progress of each writer
  fifo,         \* frames committed and not yet in a transfer
  nextId        \* names frames

ringVars == <<CurWritePosition, CurWriteRealPos, NextBulkOutPosition,
              ENextBulkOutPosition, bCurWriting, bCopySavePad, SavedPad, Header_802_3, buf>>
vars == <<ringVars, BulkOutPending, BulkOutReset, bulk, carried, writer, fifo, nextId>>

----------------------------------------------------------------------------
(* Cells.  A header cell is TXINFO and the first word of TXWI: its frame,  *)
(* USBDMATxPktLen + 4 in cells, SwUseLastRound and USBDMANextVLD.           *)

Pad == 1
Zero == [id |-> 0, len |-> 0, last |-> FALSE, nv |-> FALSE]
Header(id, len, last) == [id |-> id, len |-> len, last |-> last, nv |-> FALSE]
Body(id) == [id |-> id, len |-> 0, last |-> FALSE, nv |-> FALSE]

Cells == 0..(Limit + HeadRoom)
Cell == [id : Nat, len : Nat, last : BOOLEAN, nv : BOOLEAN]

\* The cells from p on hold the body of frame id, up to q.
Fill(b, id, p, q) == [c \in Cells |-> IF p <= c /\ c < q THEN Body(id) ELSE b[c]]

Unlocked == bulk.pc \notin {"walk", "seal"}

Idle == [pc |-> "idle", kind |-> "Single", total |-> 0, priv |-> 0, at |-> 0,
         id |-> 0, k |-> 0, last |-> FALSE]

BulkIdle == [pc |-> "idle", pos |-> 0, size |-> 0, frames |-> <<>>, lastRound |-> FALSE]

Init ==
  /\ CurWritePosition = 0 /\ CurWriteRealPos = 0
  /\ NextBulkOutPosition = 0 /\ ENextBulkOutPosition = 0
  /\ bCurWriting = FALSE /\ bCopySavePad = FALSE
  /\ SavedPad = Zero /\ Header_802_3 = 0
  /\ buf = [c \in Cells |-> Zero]
  /\ BulkOutPending = FALSE /\ BulkOutReset = FALSE
  /\ bulk = BulkIdle
  /\ carried = <<>>
  /\ writer = [w \in Writers |-> Idle]
  /\ fifo = <<>>
  /\ nextId = 1

\* The test for "nothing to send".
RingEmpty ==
  \/ ENextBulkOutPosition = CurWritePosition
  \/ ENextBulkOutPosition - Pad = CurWritePosition

----------------------------------------------------------------------------
(* Writers.                                                                *)

\* Fault: the test that a writer on the next lap stays behind the transfer.
NoRoomForAnyLap(n) ==
  \/ /\ CurWritePosition = Pad
     /\ NextBulkOutPosition < n + LocalTxBuf
  \/ bCurWriting

\* RTUSBFreeDescriptorRequest, with LOCAL_TXBUF_SIZE beside the request.
NoRoomFor(n) ==
  \/ /\ CurWritePosition < NextBulkOutPosition
     /\ CurWritePosition + n + LocalTxBuf > NextBulkOutPosition
  \/ /\ CurWritePosition = Pad
     /\ NextBulkOutPosition < n + LocalTxBuf
  \/ bCurWriting

\* RtmpUSBCanDoWrite looks for the slack alone.
CanDoWrite == ~NoRoomFor(0)

\* RTMPDeQueuePacket takes a packet, or an aggregate, from the software queue
\* once RTUSBFreeDescriptorRequest finds room for its payload.  DeQueueRunning
\* does not keep a second context out (the `continue' of RTMP_START_DEQUEUE
\* leaves only the macro's own loop); Concurrent says what it may meet.
RTMPDeQueuePacket(w) ==
  /\ writer[w].pc = "idle"
  /\ Unlocked
  /\ nextId <= MaxFrame
  /\ \E kind \in Kinds, n \in Lens :
       /\ ~NoRoomFor(n - 1)
       /\ \A v \in Writers :
            writer[v].pc # "idle" => {kind, writer[v].kind} \subseteq Concurrent
       /\ writer' = [writer EXCEPT ![w] =
            [Idle EXCEPT !.pc = "granted", !.kind = kind, !.total = n]]
  /\ UNCHANGED <<ringVars, BulkOutPending, BulkOutReset, bulk, carried, fifo, nextId>>

\* Length of the k-th piece of a write, header included where it has one.
Piece(x, k) ==
  IF x.kind = "Single" THEN x.total
  ELSE IF k = 0 THEN 2 ELSE x.total - 2

\* Fault: turn only once the limit is behind.
TurnsAtLimit(p) == p > Limit

\* Whether a write that ends at p leaves less than the headroom to the limit.
TurnsAt(p) == p + HeadRoom > Limit

\* Fault: the pad of the last transfer is written over.
NoReserve == 0

\* "Reserve space for 8 bytes padding": the pad of the transfer that ended here.
Reserve == IF ENextBulkOutPosition = CurWritePosition THEN Pad ELSE 0

\* The first critical section of a write: claim the ring and put the header
\* in place.
WriteFirst(w) ==
  LET x == writer[w]
      start == CurWritePosition + Reserve
      turns == x.kind = "Single" /\ TurnsAt(start + x.total)
  IN
  /\ x.pc = "granted"
  /\ Unlocked
  /\ CanDoWrite
  /\ bCurWriting' = TRUE
  /\ CurWritePosition' = start
  /\ ENextBulkOutPosition' = ENextBulkOutPosition + Reserve
  /\ buf' = [buf EXCEPT ![start] = Header(nextId, Piece(x, 0), turns)]
  /\ CurWriteRealPos' = start + 1
  /\ writer' = [writer EXCEPT ![w] =
       [x EXCEPT !.pc = "copy", !.id = nextId, !.at = start, !.priv = Piece(x, 0),
                 !.last = turns]]
  /\ nextId' = nextId + IF x.kind = "Frag" THEN 2 ELSE 1
  /\ UNCHANGED <<NextBulkOutPosition, bCopySavePad, SavedPad, Header_802_3,
                 BulkOutPending, BulkOutReset, bulk, carried, fifo>>

\* The first piece finds no room, or another writer at work.  The packet is
\* released.  The callers of the batch writers ignore the result and go on
\* with the next piece.
WriteRefused(w) ==
  LET x == writer[w] IN
  /\ x.pc = "granted"
  /\ Unlocked
  /\ ~CanDoWrite
  /\ writer' = [writer EXCEPT ![w] =
       IF x.kind = "Single" THEN Idle ELSE [x EXCEPT !.pc = "next", !.id = nextId]]
  /\ nextId' = nextId + IF x.kind = "Single" THEN 0 ELSE 2
  /\ UNCHANGED <<ringVars, BulkOutPending, BulkOutReset, bulk, carried, fifo>>

\* Outside the lock: copy the payload of a piece and, but for an aggregate,
\* zero the pad behind it.
CopyPayload(w) ==
  LET x == writer[w]
      end == x.at + Piece(x, x.k)
      headless == x.kind = "Multi" /\ x.k = 1
      id == IF x.kind = "Frag" THEN x.id + x.k ELSE x.id
      filled == Fill(buf, id, IF headless THEN x.at ELSE x.at + 1, end)
  IN
  /\ x.pc = "copy"
  /\ buf' = IF x.kind = "Multi" THEN filled ELSE [filled EXCEPT ![end] = Zero]
  /\ writer' = [writer EXCEPT ![w].pc =
       IF x.kind = "Single" \/ x.k = 1 THEN "final" ELSE "next"]
  /\ UNCHANGED <<CurWritePosition, CurWriteRealPos, NextBulkOutPosition,
                 ENextBulkOutPosition, bCurWriting, bCopySavePad, SavedPad,
                 Header_802_3, BulkOutPending, BulkOutReset, bulk, carried, fifo,
                 nextId>>

\* The second piece of a batch; a fragment brings a header of its own.  With
\* the writing flag down the piece is dropped.
WriteNext(w) ==
  LET x == writer[w]
      at == CurWritePosition + x.priv
      turns == TurnsAt(at + Piece(x, 1))
  IN
  /\ x.pc = "next"
  /\ Unlocked
  /\ writer' = [writer EXCEPT ![w] =
       IF bCurWriting
         THEN [x EXCEPT !.pc = "copy", !.k = 1, !.at = at, !.priv = @ + Piece(x, 1),
                        !.last = x.kind = "Frag" /\ turns]
         ELSE IF x.kind = "Multi" THEN [x EXCEPT !.pc = "final"] ELSE Idle]
  /\ IF bCurWriting /\ x.kind = "Frag"
       THEN /\ buf' = [buf EXCEPT ![at] = Header(x.id + 1, Piece(x, 1), turns)]
            /\ CurWriteRealPos' = CurWriteRealPos + 1
       ELSE UNCHANGED <<buf, CurWriteRealPos>>
  /\ UNCHANGED <<CurWritePosition, NextBulkOutPosition, ENextBulkOutPosition,
                 bCurWriting, bCopySavePad, SavedPad, Header_802_3, BulkOutPending,
                 BulkOutReset, bulk, carried, fifo, nextId>>

\* The frames a write leaves in the ring, with their places.
Written(x) ==
  LET first == [pos |-> CurWritePosition, len |-> x.priv, id |-> x.id]
  IN IF x.kind = "Frag"
       THEN <<[first EXCEPT !.len = Piece(x, 0)],
              [first EXCEPT !.pos = @ + Piece(x, 0), !.len = Piece(x, 1), !.id = @ + 1]>>
       ELSE <<first>>

\* The last critical section of RtmpUSB_WriteSingleTxResource and of the last
\* RtmpUSB_WriteFragTxResource: move CurWritePosition past what was written.
WriteCommit(w) ==
  LET x == writer[w]
      end == IF x.last THEN Pad ELSE CurWritePosition + x.priv
  IN
  /\ x.pc = "final" /\ x.kind # "Multi"
  /\ Unlocked
  /\ CurWritePosition' = end
  /\ CurWriteRealPos' = end
  /\ bCurWriting' = FALSE
  /\ fifo' = fifo \o Written(x)
  /\ writer' = [writer EXCEPT ![w] = Idle]
  /\ UNCHANGED <<NextBulkOutPosition, ENextBulkOutPosition, bCopySavePad, SavedPad,
                 Header_802_3, buf, BulkOutPending, BulkOutReset, bulk, carried, nextId>>

\* RtmpUSB_FinalWriteTxResource: the length of an aggregate is known only now;
\* its header may meanwhile have moved to SavedPad.  MPDUtotalByteCount is in
\* the second word of TXWI, a cell behind the header: in the frame, or behind
\* SavedPad[8], whose eight bytes are all that moves back to the buffer.
FinalWriteTxResource(w) ==
  LET x == writer[w]
      end == CurWritePosition + x.priv
      turns == TurnsAt(end)
      saved == RingEmpty /\ bCopySavePad
      fixed(h) == [h EXCEPT !.len = x.priv, !.last = @ \/ turns]
  IN
  /\ x.pc = "final" /\ x.kind = "Multi"
  /\ Unlocked
  /\ writer' = [writer EXCEPT ![w] = Idle]
  /\ IF bCurWriting
       THEN /\ SavedPad' = IF saved THEN fixed(SavedPad) ELSE SavedPad
            /\ Header_802_3' = IF saved THEN x.priv ELSE Header_802_3
            /\ buf' = [buf EXCEPT ![CurWritePosition] = IF saved THEN @ ELSE fixed(@),
                                  ![end] = Zero]
            /\ CurWritePosition' = IF turns THEN Pad ELSE end
            /\ CurWriteRealPos' = CurWritePosition'
            /\ bCurWriting' = FALSE
            /\ fifo' = fifo \o Written(x)
       ELSE UNCHANGED <<SavedPad, Header_802_3, buf, CurWritePosition, CurWriteRealPos,
                         bCurWriting, fifo>>
  /\ UNCHANGED <<NextBulkOutPosition, ENextBulkOutPosition, bCopySavePad,
                 BulkOutPending, BulkOutReset, bulk, carried, nextId>>

----------------------------------------------------------------------------
(* Bulk-out.                                                               *)

\* RTUSBBulkOutDataPacket, under BulkOutLock: one transfer at a time.
BulkOutClaim ==
  /\ ~BulkOutPending
  /\ ~BulkOutReset
  /\ BulkOutPending' = TRUE
  /\ bulk' = [BulkIdle EXCEPT !.pc = "claimed"]
  /\ UNCHANGED <<ringVars, BulkOutReset, carried, writer, fifo, nextId>>

BulkOutEmpty ==
  /\ bulk.pc = "claimed"
  /\ RingEmpty
  /\ BulkOutPending' = FALSE
  /\ bulk' = BulkIdle
  /\ UNCHANGED <<ringVars, BulkOutReset, carried, writer, fifo, nextId>>

\* TxContextQueueLock is taken: the transfer starts where the last one ended,
\* with the eight bytes that its pad had overwritten put back.
BulkOutBegin ==
  /\ bulk.pc = "claimed"
  /\ ~RingEmpty
  /\ NextBulkOutPosition' = ENextBulkOutPosition
  /\ buf' = IF bCopySavePad THEN [buf EXCEPT ![ENextBulkOutPosition] = SavedPad] ELSE buf
  /\ bCopySavePad' = FALSE
  /\ bulk' = [BulkIdle EXCEPT !.pc = "walk", !.pos = ENextBulkOutPosition]
  /\ UNCHANGED <<CurWritePosition, CurWriteRealPos, ENextBulkOutPosition, bCurWriting,
                 SavedPad, Header_802_3, BulkOutPending, BulkOutReset, carried, writer,
                 fifo, nextId>>

\* The transfer is large enough for the next frame not to join it, or has
\* reached the writer.  The frame's PHYMODE and the speed of the bus pick the
\* size, and a size between the least and the greatest may do or not.
WalkEnds == (\E cap \in BulkCaps : bulk.size >= cap) \/ bulk.pos = CurWritePosition

\* Fault: run on past the last committed frame.
WalkGoesOnToCap == \E cap \in BulkCaps : bulk.size < cap

WalkGoesOn == (\E cap \in BulkCaps : bulk.size < cap) /\ bulk.pos # CurWritePosition

BulkOutStop ==
  /\ bulk.pc = "walk"
  /\ WalkEnds
  /\ ENextBulkOutPosition' = bulk.pos
  /\ bulk' = [bulk EXCEPT !.pc = "seal"]
  /\ UNCHANGED <<CurWritePosition, CurWriteRealPos, NextBulkOutPosition, bCurWriting,
                 bCopySavePad, SavedPad, Header_802_3, buf, BulkOutPending, BulkOutReset,
                 carried, writer, fifo, nextId>>

\* One turn of the loop takes the frame whose header is at the current place,
\* or gives up if what is there is no header ("e2, USBDMATxPktLen==0").
BulkOutFrame ==
  LET h == buf[bulk.pos]
      pos == bulk.pos + h.len
  IN
  /\ bulk.pc = "walk"
  /\ WalkGoesOn
  /\ IF h.len > 1
       THEN /\ buf' = [buf EXCEPT ![bulk.pos] =
                 [h EXCEPT !.last = FALSE,
                           !.nv = IF h.last /\ CurWritePosition = Pad THEN FALSE
                                  ELSE @ \/ pos # CurWritePosition]]
            /\ ENextBulkOutPosition' = IF h.last THEN Pad ELSE ENextBulkOutPosition
            /\ bulk' = [pc |-> IF h.last THEN "seal" ELSE "walk",
                        pos |-> pos, size |-> bulk.size + h.len, lastRound |-> h.last,
                        frames |-> Append(bulk.frames,
                                     [pos |-> bulk.pos, len |-> h.len, id |-> h.id])]
            /\ UNCHANGED BulkOutPending
       ELSE /\ BulkOutPending' = FALSE
            /\ bulk' = BulkIdle
            /\ UNCHANGED <<buf, ENextBulkOutPosition>>
  /\ UNCHANGED <<CurWritePosition, CurWriteRealPos, NextBulkOutPosition, bCurWriting,
                 bCopySavePad, SavedPad, Header_802_3, BulkOutReset, carried, writer, fifo,
                 nextId>>

\* Fault: forget the header that a writer at work has already put there.
MustSaveCommitted == ~bulk.lastRound /\ ENextBulkOutPosition # CurWritePosition

\* "We need to copy SavedPad when following condition matched!"
MustSavePad ==
  /\ ~bulk.lastRound
  /\ \/ /\ ENextBulkOutPosition = CurWritePosition
        /\ CurWriteRealPos > CurWritePosition
     \/ ENextBulkOutPosition # CurWritePosition

\* Still under the lock: end the chain of frames, save the header that the pad
\* is about to overwrite, write the pad.
BulkOutSeal ==
  LET n == Len(bulk.frames) IN
  /\ bulk.pc = "seal"
  /\ SavedPad' = IF MustSavePad THEN buf[ENextBulkOutPosition] ELSE SavedPad
  /\ bCopySavePad' = (bCopySavePad \/ MustSavePad)
  /\ buf' = [buf EXCEPT ![bulk.frames[n].pos].nv = FALSE, ![bulk.pos] = Zero]
  /\ carried' = bulk.frames
  /\ fifo' = SubSeq(fifo, n + 1, Len(fifo))
  /\ bulk' = [bulk EXCEPT !.pc = "submit"]
  /\ UNCHANGED <<CurWritePosition, CurWriteRealPos, NextBulkOutPosition,
                 ENextBulkOutPosition, bCurWriting, Header_802_3, BulkOutPending,
                 BulkOutReset, writer, nextId>>

SubmitOk ==
  /\ bulk.pc = "submit"
  /\ bulk' = [BulkIdle EXCEPT !.pc = "flying"]
  /\ UNCHANGED <<ringVars, BulkOutPending, BulkOutReset, carried, writer, fifo, nextId>>

\* RTUSB_SUBMIT_URB fails: the pipe is given up, the transfer with it.
SubmitFail ==
  /\ bulk.pc = "submit"
  /\ bulk' = BulkIdle
  /\ BulkOutPending' = FALSE
  /\ UNCHANGED <<ringVars, BulkOutReset, carried, writer, fifo, nextId>>

\* rtusb_dataout_complete; an error asks for the reset command.
DataOutComplete(ok) ==
  /\ bulk.pc = "flying"
  /\ bulk' = BulkIdle
  /\ BulkOutPending' = FALSE
  /\ BulkOutReset' = (BulkOutReset \/ ~ok)
  /\ UNCHANGED <<ringVars, carried, writer, fifo, nextId>>

\* CMDTHREAD_RESET_BULK_OUT: submit the newest transfer again, from the place
\* and with the size that RTUSBBulkOutDataPacket left in the context.  The
\* command does not look at the reason it was queued for: a second one, queued
\* while the flag was up, finds the flag down.
ResetBulkOut ==
  /\ ~BulkOutPending
  /\ carried # <<>>
  /\ BulkOutPending' = TRUE
  /\ BulkOutReset' = FALSE
  /\ bulk' = [BulkIdle EXCEPT !.pc = "submit"]
  /\ UNCHANGED <<ringVars, carried, writer, fifo, nextId>>

WriterStep(w) ==
  \/ RTMPDeQueuePacket(w) \/ WriteFirst(w) \/ WriteRefused(w) \/ CopyPayload(w)
  \/ WriteNext(w) \/ WriteCommit(w) \/ FinalWriteTxResource(w)

BulkStep ==
  \/ BulkOutClaim \/ BulkOutEmpty \/ BulkOutBegin \/ BulkOutStop \/ BulkOutFrame
  \/ BulkOutSeal \/ SubmitOk \/ SubmitFail
  \/ DataOutComplete(TRUE) \/ DataOutComplete(FALSE) \/ ResetBulkOut

Next == BulkStep \/ \E w \in Writers : WriterStep(w)

Spec == Init /\ [][Next]_vars

----------------------------------------------------------------------------
(* Properties.                                                             *)

Frames == [pos : Cells, len : Nat, id : Nat]

\* Every field of the ring context and of its users has its type, and positions
\* stay inside the transfer buffer.
TypeOK ==
  /\ {CurWritePosition, CurWriteRealPos, NextBulkOutPosition, ENextBulkOutPosition}
       \subseteq Cells
  /\ {bCurWriting, bCopySavePad, BulkOutPending, BulkOutReset} \subseteq BOOLEAN
  /\ SavedPad \in Cell /\ Header_802_3 \in Nat /\ buf \in [Cells -> Cell]
  /\ bulk.pc \in {"idle", "claimed", "walk", "seal", "submit", "flying"}
  /\ bulk.pos \in Cells /\ bulk.size \in Nat
  /\ {bulk.frames, carried, fifo} \subseteq Seq(Frames)
  /\ \A w \in Writers :
       /\ writer[w].pc \in {"idle", "granted", "copy", "next", "final"}
       /\ writer[w].kind \in {"Single", "Frag", "Multi"}
  /\ nextId \in Nat

\* The header of the frame at p, wherever RTUSBBulkOutDataPacket has left it.
HeaderAt(p) ==
  IF bCopySavePad /\ p = ENextBulkOutPosition THEN SavedPad ELSE buf[p]

BodyIntact(f) == \A c \in (f.pos + 1)..(f.pos + f.len - 1) : buf[c] = Body(f.id)

\* A committed frame keeps its header and its payload until a transfer takes it:
\* no later write, pad or saved header disturbs it, on whatever lap of the ring.
QueueIntact ==
  \A i \in 1..Len(fifo) :
    LET f == fifo[i] IN
    /\ HeaderAt(f.pos).id = f.id
    /\ HeaderAt(f.pos).len = f.len
    /\ BodyIntact(f)

\* What the newest transfer carries stays as it was composed, its chain of
\* "next valid" bits and its zero pad included, until another is begun: the
\* USB core reads it at any time, and the reset command submits it again.
BulkIntact ==
  bulk.pc \notin {"walk", "seal"} =>
    \A i \in 1..Len(carried) :
      LET f == carried[i] IN
      /\ buf[f.pos] = [Header(f.id, f.len, FALSE) EXCEPT !.nv = i < Len(carried)]
      /\ BodyIntact(f)
      /\ i = Len(carried) => buf[f.pos + f.len] = Zero

\* The loop never meets a cell that is no header: the error branch of
\* RTUSBBulkOutDataPacket stays unused.
WalkFindsHeaders ==
  bulk.pc = "walk" /\ WalkGoesOn => buf[bulk.pos].len > 1

\* "bCurWriting is FALSE when handle sub-sequent frames ... It should not
\* happened now unless we are going to shutdown."
BatchOwnsRing ==
  \A w \in Writers :
    writer[w].pc \in {"next", "copy", "final"} => bCurWriting

\* "TxWI->MPDUtotalByteCount will be updated after final frame was handled": the
\* count of an aggregate goes to the frame it counts, and nowhere else.
AggregateCounted == Header_802_3 = 0

\* The test for an empty ring is never true of a ring that holds frames.
EmptyMeansEmpty == Unlocked /\ RingEmpty => fifo = <<>>

Fifo == INSTANCE TxFifo WITH
  queue <- fifo, bulk <- carried, inFlight <- (bulk.pc = "flying")

\* The ring implements a queue of frames.
RefinesFifo == Fifo!Spec
=============================================================================

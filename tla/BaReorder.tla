------------------------------ MODULE BaReorder ------------------------------
(***************************************************************************)
(* The reordering buffer of one BlockAck agreement in which the driver      *)
(* receives (ba_action.c): frames of the peer, which arrive out of order,   *)
(* twice or never; BlockAckReqs; frames sent outside the agreement, which   *)
(* only set the time-outs off; and the threads that renew or end the        *)
(* agreement beside the receive tasklet.  RxReRingLock covers the list and  *)
(* not LastIndSeq, so a step of the tasklet is the code up to the end of    *)
(* the next region under the lock.                                          *)
(*                                                                          *)
(* A frame is its number in the peer's stream; its sequence number is that  *)
(* number modulo SEQMOD.                                                    *)
(***************************************************************************)
EXTENDS Integers, FiniteSets, SequencesExt

CONSTANTS
  SEQMOD,       \* 4096, MAXSEQ + 1
  WIN,          \* the agreed window
  POOL,         \* MAX_REORDERING_MPDU_NUM: blocks for held frames
  FIRST, LAST,  \* the frames of the peer: FIRST..LAST
  EapFrames,    \* those that are EAPOL frames
  MaxArrivals,  \* bound: frames and BlockAckReqs received
  MaxChanges    \* bound: agreements renewed or ended

\* The frames span less than half of the sequence space, as the frames in
\* flight do: further apart the code's comparison means nothing.
ASSUME BaReorderAssumption ==
  /\ SEQMOD \in Nat /\ WIN \in Nat \ {0} /\ POOL \in Nat
  /\ FIRST \in Nat \ {0} /\ LAST \in Nat /\ FIRST <= LAST
  /\ SEQMOD % 2 = 0 /\ 2 * (LAST - FIRST + WIN + 2) <= SEQMOD
  /\ EapFrames \subseteq FIRST..LAST
  /\ MaxArrivals \in Nat /\ MaxChanges \in Nat

Frames == FIRST..LAST
NoFrame == 0
Seqs == 0..(SEQMOD - 1)
RESET_RCV_SEQ == 2 * SEQMOD - 1  \* 0xFFFF: beyond MAXSEQ, its low bits all ones
Mark == 0                        \* in `up': the numbering starts anew

VARIABLES
  session,     \* BARecWcidArray[TID] names the entry
  LastIndSeq, BAWinSize,
  list,        \* the held frames
  freelist,    \* blocks in the pool
  rx,          \* the tasklet: where it is, the frame in hand, a sequence
               \* number it holds, and whether a walk along the list ends
               \* the handler
  mlme,        \* the thread that changes the agreement
  base,        \* the oldest frame the peer still sends
  arrivals, changes,
  closed,
  up,          \* the frames of the agreement indicated to the stack
  overlapped,  \* the agreement changed under a frame in hand
  shortcut,    \* LastIndSeq was set by a BlockAckReq ("bar"), or to a frame not
               \* held without a walk along the list ("direct")
  lost         \* blocks that no list holds any more

entryVars == <<session, LastIndSeq, BAWinSize>>
heldVars == <<list, freelist>>
envVars == <<base, arrivals, changes, closed>>
ghostVars == <<overlapped, shortcut, lost>>
vars == <<entryVars, heldVars, rx, mlme, envVars, up, ghostVars>>

Idle == [pc |-> "idle", n |-> NoFrame, seq |-> RESET_RCV_SEQ, walk |-> FALSE]

Init ==
  /\ session = FALSE /\ LastIndSeq = 0 /\ BAWinSize = 0
  /\ list = <<>> /\ freelist = POOL
  /\ rx = Idle /\ mlme = "idle"
  /\ base = FIRST /\ arrivals = 0 /\ changes = 0 /\ closed = FALSE
  /\ up = <<>> /\ overlapped = FALSE /\ shortcut = {} /\ lost = 0

Sequence(n) == n % SEQMOD  \* the sequence number of a frame

SEQ_STEPONE(a, b) == a = (b + 1) % SEQMOD

\* Mutant of SEQ_SMALLER: the numbers are compared as they are.
PlainSmaller(a, b) == a < b

\* The top bit of the difference.
SEQ_SMALLER(a, b) == (a - b) % SEQMOD >= SEQMOD \div 2

At(l) == rx.pc = l
Goto(l) == rx' = [rx EXCEPT !.pc = l]
Done == rx' = Idle

----------------------------------------------------------------------------
(* The list. *)

\* How many frames at the head of the list have a place in the set.
Run(places) == Cardinality({k \in 1..Len(list) : 1..k \subseteq places})

\* The first k frames of the list go up behind the given ones, and their
\* blocks back to the pool.
Indicate(before, k) ==
  /\ list' = SubSeq(list, k + 1, Len(list))
  /\ freelist' = freelist + k
  /\ up' = up \o before \o SubSeq(list, 1, k)

AtOrBelow(seq, s) == seq = s \/ SEQ_SMALLER(seq, s)
LeSeqCount(s) ==
  Run({i \in 1..Len(list) : AtOrBelow(Sequence(list[i]), s)})

InOrderCount(s) ==
  Run({i \in 1..Len(list) : Sequence(list[i]) = (s + i) % SEQMOD})

ba_indicate_reordering_mpdus_le_seq(s) == Indicate(<<>>, LeSeqCount(s))

LastOf(k) == IF k = 0 THEN RESET_RCV_SEQ ELSE Sequence(list[k])

\* Leaves the last number indicated, if any, in rx.seq, for Advance to store.
ba_indicate_reordering_mpdus_in_order(s) ==
  LET k == InOrderCount(s) IN
  /\ Indicate(<<>>, k)
  /\ rx' = [rx EXCEPT !.pc = "advance", !.seq = LastOf(k)]

ba_refresh_reordering_mpdus ==
  /\ list' = <<>> /\ freelist' = freelist + Len(list)
  /\ up' = up \o list \o <<Mark>>
  /\ LastIndSeq' = RESET_RCV_SEQ

Position(n) ==
  Run({i \in 1..Len(list) : SEQ_SMALLER(Sequence(list[i]), Sequence(n))})

AlreadyHeld(n) ==
  LET p == Position(n) IN p < Len(list) /\ Sequence(list[p + 1]) = Sequence(n)

\* Mutant of ba_reordering_mpdu_insertsorted: the block of a frame that is
\* given up is not freed.
InsertKeepsBlock(n) ==
  /\ list' = IF AlreadyHeld(n) THEN list ELSE InsertAt(list, Position(n) + 1, n)
  /\ freelist' = freelist - 1

\* A frame that is in the list already is given up, with its block.
ba_reordering_mpdu_insertsorted(n) ==
  IF AlreadyHeld(n)
  THEN UNCHANGED heldVars
  ELSE list' = InsertAt(list, Position(n) + 1, n) /\ freelist' = freelist - 1

----------------------------------------------------------------------------
(* The peer. *)

\* The peer has the oldest frame acknowledged, or gives it up.
PeerMovesOn ==
  /\ ~closed /\ base < LAST
  /\ base' = base + 1
  /\ UNCHANGED <<entryVars, heldVars, rx, mlme, arrivals, changes, closed, up, ghostVars>>

Arrives == ~closed /\ At("idle") /\ arrivals < MaxArrivals /\ arrivals' = arrivals + 1
Overlaps == overlapped' = (overlapped \/ mlme # "idle")

\* Without an agreement the frame is indicated as it comes.
Indicate_AMPDU_Packet ==
  /\ Arrives
  /\ \E n \in base..(base + WIN - 1) :
       /\ n \in Frames
       /\ rx' = IF session THEN [Idle EXCEPT !.pc = "flush", !.n = n] ELSE Idle
  /\ Overlaps
  /\ UNCHANGED <<entryVars, heldVars, mlme, base, changes, closed, up, shortcut, lost>>

\* A frame of the TID that was sent outside the agreement.
Indicate_Legacy_Packet ==
  /\ Arrives /\ session
  /\ rx' = [Idle EXCEPT !.pc = "flush"]
  /\ Overlaps
  /\ UNCHANGED <<entryVars, heldVars, mlme, base, changes, closed, up, shortcut, lost>>

\* A BlockAckReq: what the peer has given up is not waited for.
CntlEnqueueForRecv ==
  LET s == Sequence(base) IN
  /\ Arrives /\ session
  /\ IF SEQ_SMALLER(LastIndSeq, s)
     THEN /\ ba_indicate_reordering_mpdus_le_seq(s)
          /\ rx' = [Idle EXCEPT !.pc = "barred", !.seq = s]
     ELSE rx' = Idle /\ UNCHANGED <<heldVars, up>>
  /\ Overlaps
  /\ UNCHANGED <<entryVars, mlme, base, changes, closed, shortcut, lost>>

Barred ==
  /\ At("barred")
  /\ LastIndSeq' = IF rx.seq = 0 THEN SEQMOD - 1 ELSE rx.seq - 1
  /\ shortcut' = shortcut \cup {"bar"}
  /\ Done
  /\ UNCHANGED <<session, BAWinSize, heldVars, mlme, envVars, up, overlapped, lost>>

----------------------------------------------------------------------------
(* The time-outs.  Nothing but a frame received looks at the clock; the     *)
(* time since LastIndSeqAtTimer may by then be anything.                    *)

AfterFlush == IF rx.n = NoFrame THEN Idle ELSE [rx EXCEPT !.pc = "reset"]

\* More than 500 ms, and more than one frame held.
FlushAll ==
  /\ At("flush") /\ Len(list) > 1
  /\ ba_refresh_reordering_mpdus
  /\ rx' = AfterFlush
  /\ UNCHANGED <<session, BAWinSize, mlme, envVars, ghostVars>>

\* More than 100 ms: the next number is not waited for any longer.
FlushOne ==
  LET s == (LastIndSeq + 1) % SEQMOD IN
  /\ At("flush") /\ list # <<>>
  /\ ba_indicate_reordering_mpdus_le_seq(s)
  /\ rx' = [rx EXCEPT !.pc = "flushed", !.seq = s]
  /\ UNCHANGED <<entryVars, mlme, envVars, ghostVars>>

FlushedOne ==
  /\ At("flushed")
  /\ LastIndSeq' = rx.seq
  /\ ba_indicate_reordering_mpdus_in_order(rx.seq)
  /\ UNCHANGED <<session, BAWinSize, mlme, envVars, ghostVars>>

NotLate ==
  /\ At("flush")
  /\ rx' = AfterFlush
  /\ UNCHANGED <<entryVars, heldVars, mlme, envVars, up, ghostVars>>

Returned == IF rx.seq = RESET_RCV_SEQ THEN LastIndSeq ELSE rx.seq

\* After a flush the frame in hand is still to be placed; rx.seq is reused.
Advance ==
  /\ At("advance")
  /\ LastIndSeq' = Returned
  /\ rx' = IF rx.n = NoFrame \/ rx.walk THEN Idle
           ELSE [rx EXCEPT !.pc = "reset", !.seq = RESET_RCV_SEQ]
  /\ UNCHANGED <<session, BAWinSize, heldVars, mlme, envVars, up, ghostVars>>

----------------------------------------------------------------------------
(* The frame in hand finds its place. *)

\* The first frame of an agreement, or after a flush, sets the numbering.
FirstOfNumbering ==
  /\ At("reset")
  /\ IF LastIndSeq = RESET_RCV_SEQ
     THEN /\ LastIndSeq' = Sequence(rx.n)
          /\ up' = Append(up, rx.n)
          /\ Done
     ELSE Goto("place") /\ UNCHANGED <<LastIndSeq, up>>
  /\ UNCHANGED <<session, BAWinSize, heldVars, mlme, envVars, ghostVars>>

InOrder ==
  /\ At("place") /\ SEQ_STEPONE(Sequence(rx.n), LastIndSeq)
  /\ LastIndSeq' = Sequence(rx.n)
  /\ LET k == InOrderCount(Sequence(rx.n)) IN
       /\ Indicate(<<rx.n>>, k)
       /\ rx' = [rx EXCEPT !.pc = "advance", !.seq = LastOf(k), !.walk = TRUE]
  /\ UNCHANGED <<session, BAWinSize, mlme, envVars, ghostVars>>

\* Mutant of IsOld: only the last frame indicated is known for a duplicate.
IsLastOnly(n) == Sequence(n) = LastIndSeq

IsOld(n) == Sequence(n) = LastIndSeq \/ SEQ_SMALLER(Sequence(n), LastIndSeq)

DropOld ==
  /\ At("place") /\ ~SEQ_STEPONE(Sequence(rx.n), LastIndSeq) /\ IsOld(rx.n)
  /\ Done
  /\ UNCHANGED <<entryVars, heldVars, mlme, envVars, up, ghostVars>>

Ahead(n) == ~SEQ_STEPONE(Sequence(n), LastIndSeq) /\ ~IsOld(n)

\* Mutant of InWindow: one number too many.
InWiderWindow(n) == SEQ_SMALLER(Sequence(n), (LastIndSeq + BAWinSize + 2) % SEQMOD)

InWindow(n) == SEQ_SMALLER(Sequence(n), (LastIndSeq + BAWinSize + 1) % SEQMOD)

WithinWindow ==
  /\ At("place") /\ Ahead(rx.n) /\ InWindow(rx.n)
  /\ Goto("store")
  /\ UNCHANGED <<entryVars, heldVars, mlme, envVars, up, ghostVars>>

\* Mutant of WinStart: the difference is not wrapped.
WinStartUnwrapped(n) == Sequence(n) - BAWinSize

WinStart(n) == (Sequence(n) - BAWinSize) % SEQMOD

\* A frame beyond the window moves the window up to itself.
BeyondWindow ==
  /\ At("place") /\ Ahead(rx.n) /\ ~InWindow(rx.n)
  /\ ba_indicate_reordering_mpdus_le_seq(WinStart(rx.n))
  /\ rx' = [rx EXCEPT !.pc = "slide", !.seq = WinStart(rx.n)]
  /\ UNCHANGED <<entryVars, mlme, envVars, ghostVars>>

Slide ==
  /\ At("slide")
  /\ LastIndSeq' = rx.seq
  /\ rx' = [rx EXCEPT !.pc = "store", !.walk = TRUE]
  /\ UNCHANGED <<session, BAWinSize, heldVars, mlme, envVars, up, ghostVars>>

AfterStore == IF rx.walk THEN [rx EXCEPT !.pc = "walk"] ELSE Idle

\* ba_enqueue_reordering_packet: hold the frame ...
Hold ==
  /\ At("store") /\ freelist > 0 /\ rx.n \notin EapFrames
  /\ ba_reordering_mpdu_insertsorted(rx.n)
  /\ rx' = AfterStore
  /\ UNCHANGED <<entryVars, mlme, envVars, up, ghostVars>>

\* ... or indicate it behind what is older.  The block that was allocated for
\* an EAPOL frame goes nowhere.
DoNotHold ==
  /\ At("store") /\ (freelist = 0 \/ rx.n \in EapFrames)
  /\ LET k == LeSeqCount(Sequence(rx.n))
         spent == IF freelist > 0 THEN 1 ELSE 0 IN
       /\ list' = SubSeq(list, k + 1, Len(list))
       /\ up' = up \o SubSeq(list, 1, k)
       /\ freelist' = freelist - spent + k
       /\ lost' = lost + spent
  /\ Goto("direct")
  /\ UNCHANGED <<entryVars, mlme, envVars, overlapped, shortcut>>

Direct ==
  /\ At("direct")
  /\ LastIndSeq' = Sequence(rx.n)
  /\ up' = Append(up, rx.n)
  /\ shortcut' = shortcut \cup {"direct"}
  /\ rx' = AfterStore
  /\ UNCHANGED <<session, BAWinSize, heldVars, mlme, envVars, overlapped, lost>>

Walk ==
  /\ At("walk")
  /\ ba_indicate_reordering_mpdus_in_order(LastIndSeq)
  /\ UNCHANGED <<entryVars, mlme, envVars, ghostVars>>

----------------------------------------------------------------------------
(* The agreement is made, renewed and ended by other threads. *)

Change(l) ==
  /\ ~closed /\ mlme = "idle" /\ changes < MaxChanges
  /\ changes' = changes + 1
  /\ mlme' = l
  /\ overlapped' = (overlapped \/ ~At("idle"))

\* PeerAddBAReqAction: an agreement that exists is flushed first.
BARecSessionAdd ==
  /\ Change(IF session THEN "renew" ELSE "fill")
  /\ UNCHANGED <<entryVars, heldVars, rx, base, arrivals, closed, up, shortcut, lost>>

\* Mutant of BARecSessionTearDown: what is held is not flushed.
TearDownUnflushed ==
  /\ session
  /\ Change("free")
  /\ UNCHANGED <<entryVars, heldVars, rx, base, arrivals, closed, up, shortcut, lost>>

\* A DELBA, the link going down, or a private ioctl.
BARecSessionTearDown ==
  /\ session
  /\ Change("end")
  /\ UNCHANGED <<entryVars, heldVars, rx, base, arrivals, closed, up, shortcut, lost>>

Refresh ==
  /\ mlme \in {"renew", "end"}
  /\ ba_refresh_reordering_mpdus
  /\ mlme' = IF mlme = "renew" THEN "fill" ELSE "free"
  /\ UNCHANGED <<session, BAWinSize, rx, envVars, ghostVars>>

Fill ==
  /\ mlme = "fill"
  /\ session' = TRUE /\ BAWinSize' = WIN /\ LastIndSeq' = RESET_RCV_SEQ
  /\ mlme' = "idle"
  /\ UNCHANGED <<heldVars, rx, envVars, up, ghostVars>>

Free ==
  /\ mlme = "free"
  /\ session' = FALSE /\ BAWinSize' = 0 /\ LastIndSeq' = RESET_RCV_SEQ
  /\ mlme' = "idle"
  /\ UNCHANGED <<heldVars, rx, envVars, up, ghostVars>>

\* The device closes: what an entry in use still holds is released.
ba_reordering_resource_release ==
  /\ ~closed /\ At("idle") /\ mlme = "idle"
  /\ closed' = TRUE
  /\ IF session THEN list' = <<>> /\ freelist' = freelist + Len(list)
     ELSE UNCHANGED heldVars
  /\ UNCHANGED <<entryVars, rx, mlme, base, arrivals, changes, up, ghostVars>>

Tasklet ==
  \/ Barred
  \/ FlushAll \/ FlushOne \/ FlushedOne \/ NotLate \/ Advance
  \/ FirstOfNumbering
  \/ InOrder \/ DropOld \/ WithinWindow \/ BeyondWindow
  \/ Slide \/ Hold \/ DoNotHold \/ Direct \/ Walk

Thread == Refresh \/ Fill \/ Free

Next ==
  \/ PeerMovesOn
  \/ Indicate_AMPDU_Packet \/ Indicate_Legacy_Packet \/ CntlEnqueueForRecv
  \/ Tasklet
  \/ BARecSessionAdd \/ BARecSessionTearDown
  \/ Thread
  \/ ba_reordering_resource_release

Spec == Init /\ [][Next]_vars

----------------------------------------------------------------------------
Pcs == {"idle", "flush", "flushed", "advance", "reset", "place", "slide", "store",
        "direct", "walk", "barred"}

\* Every variable has its type, and the list never holds more than the pool.
TypeOK ==
  /\ session \in BOOLEAN /\ LastIndSeq \in Seqs \cup {RESET_RCV_SEQ}
  /\ BAWinSize \in {0, WIN}
  /\ list \in Seq(Frames) /\ freelist \in 0..POOL
  /\ rx \in [pc : Pcs, n : Frames \cup {NoFrame}, seq : Seqs \cup {RESET_RCV_SEQ},
            walk : BOOLEAN]
  /\ mlme \in {"idle", "renew", "end", "fill", "free"}
  /\ base \in Frames /\ arrivals \in 0..MaxArrivals /\ changes \in 0..MaxChanges
  /\ closed \in BOOLEAN
  /\ up \in Seq(Frames \cup {Mark})
  /\ overlapped \in BOOLEAN /\ shortcut \subseteq {"bar", "direct"} /\ lost \in 0..POOL

\* Every block is in the pool, in the list, or was lost to an EAPOL frame,
\* whatever the threads do beside the tasklet.
BlocksConserved == freelist + Len(list) + lost = POOL

\* The comment of ba_reordering_mpdu_insertsorted, and the assertion behind
\* it (qlen <= BAWinSize): as long as the agreement does not change under a
\* frame in hand, held frames are sorted, ahead of what was indicated, and
\* within the window.  FirstOfNumbering relies on it: the list is empty when
\* the numbering starts.
HeldInWindow ==
  ~overlapped =>
    /\ \A i, j \in 1..Len(list) : i < j => list[i] < list[j]
    /\ \A i \in 1..Len(list) :
         /\ LastIndSeq # RESET_RCV_SEQ
         /\ "direct" \notin shortcut =>
              (Sequence(list[i]) - LastIndSeq) % SEQMOD \in 1..WIN

\* Positions of `up' within one numbering.
SameNumbering(i, j) == \A k \in i..j : up[k] # Mark

\* The purpose of the buffer: within one numbering a frame that has not been
\* indicated before comes after all frames older than itself, whatever was
\* lost, repeated, given up or not held for want of a block.
FirstCopiesInOrder ==
  ~overlapped =>
    \A i, j \in 1..Len(up) :
      (i < j /\ SameNumbering(i, j) /\ up[j] < up[i]) =>
        \E k \in 1..(i - 1) : SameNumbering(k, i) /\ up[k] = up[j]

\* `Drop Duplicated Packet': no frame is indicated twice in one numbering,
\* unless a BlockAckReq or an unheld frame set LastIndSeq past or behind what
\* the list holds.
NoneTwice ==
  ~overlapped /\ shortcut = {} =>
    \A i, j \in 1..Len(up) : i < j /\ SameNumbering(i, j) => up[i] # up[j]

\* ba_reordering_resource_release releases `all pending reordering packet'.
AllReleased == closed /\ ~overlapped => list = <<>>

\* ASSERT(pBAEntry->list.qlen == 0) where the numbering starts: in
\* BARecSessionAdd, and in Indicate_AMPDU_Packet.
EmptyAtStart ==
  (mlme = "fill" \/ (At("reset") /\ LastIndSeq = RESET_RCV_SEQ)) => list = <<>>

\* The pool has the blocks that no list holds.
NoBlockLost == freelist + Len(list) = POOL
=============================================================================

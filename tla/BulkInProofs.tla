----------------------------- MODULE BulkInProofs -----------------------------
(***************************************************************************)
(* The bulk-in path, for every size of the ring: the types, and, until the   *)
(* reset command is hasty, that a buffer has one owner, that buffers are      *)
(* read in order, that PendingRx counts the one transfer there may be, and    *)
(* where a transfer begins.                                                  *)
(***************************************************************************)
EXTENDS BulkIn, FiniteSetTheorems, TLAPS

\* Who holds a context; only the command thread resets.
Grip ==
  /\ \A a \in Actors : pc[a] \in {"handle", "submit", "killing"} => hand[a] \in RxContexts
  /\ \A a \in Actors : pc[a] \in {"kill", "killing", "clear", "mac"} => a = Cmd

\* There is one transfer, claimed, out, or completed for the tasklet to see; it is counted,
\* it is of the context at the bulk-in index, and that one has nothing to be read.
OneTransfer ==
  /\ \A a, b \in Actors : pc[a] = "submit" /\ pc[b] = "submit" => a = b
  /\ \A a \in Actors : pc[a] = "submit" =>
       hand[a] = NextRxBulkInIndex /\ \A c \in RxContexts : urb[c] = "idle"
  /\ \A c \in RxContexts : urb[c] # "idle" => c = NextRxBulkInIndex
  /\ \A c \in RxContexts : urb[c] \notin {"idle", "flying"} => task = c
  /\ task # None => urb[task] \notin {"idle", "flying"}
  /\ PendingRx = IF Busy THEN 1 ELSE 0
  /\ Busy => NextRxBulkInIndex \notin Readable

\* One actor reads, at the read index, a buffer that has been received.
OneReader ==
  /\ \A a, b \in Actors : pc[a] = "handle" /\ pc[b] = "handle" => a = b
  /\ \A a \in Actors : pc[a] = "handle" =>
       hand[a] = NextRxBulkInReadIndex /\ NextRxBulkInReadIndex \in bRxHandling
  /\ \A c \in bRxHandling : c = NextRxBulkInReadIndex /\ c \in Readable
                            /\ \E a \in Actors : pc[a] = "handle"
  /\ \A c \in Readable : c \in BulkInOffset /\ c \notin InUse

\* The places from the read index r up to the bulk-in index w.
Between(r, w) ==
  {c \in RxContexts : IF r <= w THEN r <= c /\ c < w ELSE r <= c \/ c < w}
InOrder ==
  \/ Readable = Between(NextRxBulkInReadIndex, NextRxBulkInIndex)
  \/ NextRxBulkInReadIndex = NextRxBulkInIndex /\ Readable = RxContexts

\* A reset is asked for once, and pending until the command has reset; a device
\* that is gone is never reset.
Resets ==
  /\ cmds \in {0, 1}
  /\ cmds = 1 \/ pc[Cmd] \in {"kill", "killing", "clear", "mac"} \/ NIC_NOT_EXIST => BULKIN_RESET
  /\ cmds = 1 => pc[Cmd] \notin {"kill", "killing", "clear", "mac"}

\* Bytes are kept of buffers to be read and of a failed transfer, and the next
\* transfer, or the one that is out, begins behind the latter.
Bytes ==
  LET kept == NextRxBulkInIndex \in BulkInOffset /\ NextRxBulkInIndex \notin Readable
      Behind(n) == n = IF kept THEN 1 ELSE 0
  IN /\ BulkInOffset \subseteq Readable \cup {NextRxBulkInIndex}
     /\ ~misplaced =>
          /\ ~BULKIN_RESET \/ (\E a \in Actors : pc[a] = "submit") => Behind(NextRxBulkInPosition)
          /\ \A c \in RxContexts : urb[c] # "idle" => Behind(start[c])

Calm == OneTransfer /\ OneReader /\ InOrder /\ Resets /\ Bytes
IInv == TypeOK /\ Grip /\ (hasty \/ Calm)
----------------------------------------------------------------------------
(* The constants, indices and counters. *)

LEMMA Remainder ==
  ASSUME NEW n \in Nat \ {0}, NEW x \in Int
  PROVE  /\ x % n \in 0..(n - 1)
         /\ 0 <= x /\ x < n => x % n = x
         /\ n <= x /\ x < n + n => x % n = x - n
         /\ -n <= x /\ x < 0 => x % n = x + n
OBVIOUS

LEMMA RemainderOf ==
  ASSUME NEW n \in Nat \ {0}, NEW x \in Int, -n <= x, x < n + n
  PROVE  x % n = IF x < 0 THEN x + n ELSE IF x < n THEN x ELSE x - n
<1>1. CASE x < 0
  BY <1>1
<1>2. CASE 0 <= x /\ x < n
  BY <1>2
<1>3. CASE n <= x
  BY <1>3
<1> QED BY <1>1, <1>2, <1>3

LEMMA Numbers ==
  /\ RX_RING_SIZE \in Nat \ {0} /\ RxContexts \subseteq Nat
  /\ 0 \in RxContexts /\ None \notin RxContexts
  /\ Cmd # Radio /\ Cmd # Tasklet /\ Radio # Tasklet /\ Actors = {Cmd, Radio, Tasklet}
BY BulkInAssumption DEF RxContexts, None, Cmd, Radio, Tasklet, Actors

LEMMA Next1 ==
  ASSUME NEW c \in RxContexts
  PROVE  /\ Inc(c) \in RxContexts
         /\ Inc(c) = IF c = RX_RING_SIZE - 1 THEN 0 ELSE c + 1
<1>1. c \in Nat /\ c < RX_RING_SIZE /\ RX_RING_SIZE \in Nat \ {0} /\ c + 1 \in Int
  BY Numbers DEF RxContexts
<1>2. c = RX_RING_SIZE - 1 => (c + 1) % RX_RING_SIZE = 0
  BY <1>1, Remainder
<1>3. ASSUME c # RX_RING_SIZE - 1 PROVE (c + 1) % RX_RING_SIZE = c + 1
  <2>1. 0 <= c + 1 /\ c + 1 < RX_RING_SIZE
    BY <1>1, <1>3
  <2> QED BY <1>1, <2>1, Remainder
<1> QED BY <1>1, <1>2, <1>3 DEF Inc, RxContexts

\* PendingRx and the bound on faults.
LEMMA Counters ==
  ASSUME PendingRx \in 0..(UcharMod - 1), faults \in 0..MaxFaults
  PROVE  /\ OneLess \in 0..(UcharMod - 1) /\ (PendingRx + 1) % UcharMod \in 0..(UcharMod - 1)
         /\ 0 \in 0..(UcharMod - 1)
         /\ PendingRx = 0 => (PendingRx + 1) % UcharMod = 1
         /\ PendingRx = 1 => OneLess = 0
         /\ Fault \/ UNCHANGED faults => faults' \in 0..MaxFaults
<1>1. UcharMod \in Nat \ {0} /\ UcharMod > 1 /\ PendingRx + 1 \in Int /\ PendingRx - 1 \in Int
      /\ MaxFaults \in Nat
  BY BulkInAssumption
<1>2. /\ OneLess \in 0..(UcharMod - 1) /\ (PendingRx + 1) % UcharMod \in 0..(UcharMod - 1)
      /\ PendingRx = 0 => (PendingRx + 1) % UcharMod = 1
      /\ PendingRx = 1 => OneLess = 0
  BY <1>1, Remainder, SMTT(60) DEF OneLess
<1> QED BY <1>1, <1>2 DEF Fault

----------------------------------------------------------------------------
(* Types, and who holds a context. *)

LEMMA ReceiveTypes ==
  ASSUME TypeOK, Grip, NEW a \in Actors, Receive(a)
  PROVE  TypeOK' /\ Grip'
<1> USE Numbers DEF TypeOK, Grip, Goto, Take, ctxVars, idxVars, flagVars, usbVars
<1>1. CASE RTUSBBulkReceive(a)
  BY <1>1 DEF RTUSBBulkReceive
<1>2. CASE LookAtRing(a)
  <2>1. CASE MayHandle(NextRxBulkInReadIndex)
    <3>1. /\ bRxHandling' = bRxHandling \cup {NextRxBulkInReadIndex}
          /\ Take(a, NextRxBulkInReadIndex) /\ Goto(a, "handle")
      BY <1>2, <2>1 DEF LookAtRing
    <3>2. hand' \in [Actors -> RxContexts \cup {None}] /\ Grip'
      BY <1>2, <3>1 DEF LookAtRing
    <3> QED BY <1>2, <3>1, <3>2 DEF LookAtRing
  <2>2. CASE ~MayHandle(NextRxBulkInReadIndex)
    BY <1>2, <2>2, ZenonT(60) DEF LookAtRing
  <2> QED BY <2>1, <2>2
<1>3. CASE HandledRing(a)
  BY <1>3, Next1 DEF HandledRing, NextToRead
<1>4. CASE TestStopRx(a)
  BY <1>4 DEF TestStopRx, AfterLook
<1>5. CASE DoBulkIn(a)
  <2>1. CASE MayClaim(NextRxBulkInIndex)
    <3>1. (PendingRx + 1) % UcharMod \in 0..(UcharMod - 1)
      BY Counters
    <3>2. /\ InUse' = InUse \cup {NextRxBulkInIndex} /\ misplaced' \in BOOLEAN
          /\ IRPPending' = IRPPending \cup {NextRxBulkInIndex}
          /\ PendingRx' = (PendingRx + 1) % UcharMod
          /\ Take(a, NextRxBulkInIndex) /\ Goto(a, "submit")
      BY <1>5, <2>1 DEF DoBulkIn
    <3>3. hand' \in [Actors -> RxContexts \cup {None}] /\ Grip'
      BY <1>5, <3>2 DEF DoBulkIn
    <3> QED BY <1>5, <3>1, <3>2, <3>3 DEF DoBulkIn
  <2>2. CASE ~MayClaim(NextRxBulkInIndex)
    BY <1>5, <2>2, ZenonT(60) DEF DoBulkIn
  <2> QED BY <2>1, <2>2
<1>6. CASE SubmitOk(a)
  <2>1. zeroed' \subseteq RxContexts
    BY <1>6 DEF SubmitOk, Zero
  <2> QED BY <1>6, <2>1 DEF SubmitOk
<1>7. CASE SubmitFail(a)
  <2>1. OneLess \in 0..(UcharMod - 1) /\ faults' \in 0..MaxFaults
    BY <1>7, Counters DEF SubmitFail
  <2>2. zeroed' \subseteq RxContexts
    BY <1>7 DEF SubmitFail, Zero
  <2> QED BY <1>7, <2>1, <2>2 DEF SubmitFail
<1> QED BY <1>1, <1>2, <1>3, <1>4, <1>5, <1>6, <1>7 DEF Receive

LEMMA CmdTypes ==
  ASSUME TypeOK, Grip, CmdStep
  PROVE  TypeOK' /\ Grip'
<1> USE Numbers DEF TypeOK, Grip, Goto, Take, ctxVars, idxVars, flagVars, usbVars
<1>1. CASE ResetBulkIn
  BY <1>1 DEF ResetBulkIn
<1>2. CASE RTUSBCancelPendingBulkInIRP
  BY <1>2 DEF RTUSBCancelPendingBulkInIRP
<1>3. CASE KillDone
  BY <1>3 DEF KillDone
<1>4. CASE ClearPendingRx
  <2>1. hasty' \in BOOLEAN /\ 0 \in 0..(UcharMod - 1)
    BY <1>4, Counters DEF ClearPendingRx, Busy
  <2> QED BY <1>4, <2>1 DEF ClearPendingRx
<1>5. CASE ReadMacCsr0
  <2>1. faults' \in 0..MaxFaults /\ BytesToKeep \in {0, 1}
    BY <1>5, Counters DEF ReadMacCsr0, BytesToKeep
  <2>2. hasty' \in BOOLEAN /\ misplaced' \in BOOLEAN
    BY <1>5 DEF ReadMacCsr0, Busy
  <2>3. /\ BULKIN_RESET' \in BOOLEAN /\ NIC_NOT_EXIST' \in BOOLEAN
        /\ NextRxBulkInPosition' \in {0, 1}
    BY <1>5, <2>1 DEF ReadMacCsr0
  <2>4. /\ pc' \in [Actors -> {"idle", "receive", "look", "handle", "test", "dobulkin", "submit",
                               "kill", "killing", "clear", "mac"}]
        /\ Grip'
    BY <1>5 DEF ReadMacCsr0
  <2> QED BY <1>5, <2>1, <2>2, <2>3, <2>4 DEF ReadMacCsr0
<1> QED BY <1>1, <1>2, <1>3, <1>4, <1>5 DEF CmdStep

LEMMA OtherTypes ==
  ASSUME TypeOK, Grip,
         \/ rx_done_tasklet \/ RT28xxUsbMlmeRadioOFF \/ RT28xxUsbMlmeRadioOn \/ RTUSBWatchDog
         \/ \E c \in RxContexts : RTUSBBulkRxComplete(c)
  PROVE  TypeOK' /\ Grip'
<1> USE Numbers DEF TypeOK, Grip, Goto, Take, ctxVars, idxVars, flagVars, usbVars
<1>1. CASE rx_done_tasklet
  <2>1. task \in RxContexts
    BY <1>1 DEF rx_done_tasklet
  <2>2. OneLess \in 0..(UcharMod - 1)
    BY Counters
  <2>3. NextRxBulkInIndex' \in RxContexts
    BY <1>1, Next1 DEF rx_done_tasklet
  <2>4. /\ BulkInOffset' \subseteq RxContexts /\ Readable' \subseteq RxContexts
        /\ NextRxBulkInPosition' \in {0, 1}
    BY <1>1, <2>1 DEF rx_done_tasklet
  <2>7. BULKIN_RESET' \in BOOLEAN /\ cmds' \in Nat
    <3>1. \/ BULKIN_RESET' = BULKIN_RESET /\ cmds' = cmds
          \/ BULKIN_RESET' = TRUE /\ cmds' = cmds + 1
      BY <1>1 DEF rx_done_tasklet
    <3>2. cmds' \in Nat
      BY <3>1
    <3>3. BULKIN_RESET' \in BOOLEAN
      BY <3>1, Zenon
    <3> QED BY <3>2, <3>3
  <2>5. urb' \in [RxContexts -> {"idle", "flying", "data", "empty", "partial", "error"}]
    BY <1>1, <2>1 DEF rx_done_tasklet
  <2>6. /\ pc' \in [Actors -> {"idle", "receive", "look", "handle", "test", "dobulkin", "submit",
                               "kill", "killing", "clear", "mac"}]
        /\ Grip'
    BY <1>1 DEF rx_done_tasklet
  <2> QED BY <1>1, <2>1, <2>2, <2>3, <2>4, <2>5, <2>6, <2>7 DEF rx_done_tasklet
<1>2. CASE RT28xxUsbMlmeRadioOFF
  BY <1>2 DEF RT28xxUsbMlmeRadioOFF
<1>3. CASE RT28xxUsbMlmeRadioOn
  BY <1>3 DEF RT28xxUsbMlmeRadioOn
<1>4. CASE RTUSBWatchDog
  <2>1. faults' \in 0..MaxFaults
    BY <1>4, Counters DEF RTUSBWatchDog
  <2> QED BY <1>4, <2>1 DEF RTUSBWatchDog
<1>5. ASSUME NEW c \in RxContexts, RTUSBBulkRxComplete(c) PROVE TypeOK' /\ Grip'
  <2>1. faults' \in 0..MaxFaults
    BY <1>5, Counters DEF RTUSBBulkRxComplete
  <2> QED BY <1>5, <2>1 DEF RTUSBBulkRxComplete
<1> QED BY <1>1, <1>2, <1>3, <1>4, <1>5

LEMMA TypeNext == TypeOK /\ Grip /\ [Next]_vars => TypeOK' /\ Grip'
<1> SUFFICES ASSUME TypeOK, Grip, [Next]_vars PROVE TypeOK' /\ Grip'
  OBVIOUS
<1>1. CASE Next
  BY <1>1, ReceiveTypes, CmdTypes, OtherTypes DEF Next
<1>2. CASE UNCHANGED vars
  BY <1>2 DEF vars, ctxVars, idxVars, flagVars, usbVars, TypeOK, Grip
<1> QED BY <1>1, <1>2
----------------------------------------------------------------------------
(* What a step leaves alone. *)

\* The steps of a pc.
Keeps(l) == \A a \in Actors : pc'[a] = l <=> pc[a] = l
Moves(a, l) == pc'[a] = l /\ \A b \in Actors \ {a} : pc'[b] = pc[b]

LEMMA GotoMoves ==
  ASSUME TypeOK, NEW a \in Actors, NEW l, Goto(a, l)
  PROVE  Moves(a, l)
BY DEF TypeOK, Goto, Moves

LEMMA TakeHolds ==
  ASSUME TypeOK, NEW a \in Actors, NEW c, Take(a, c)
  PROVE  hand'[a] = c /\ \A b \in Actors \ {a} : hand'[b] = hand[b]
BY DEF TypeOK, Take

\* The actor's transfer, and whether there is one.
LEMMA TransferFrame ==
  ASSUME OneTransfer, UNCHANGED <<urb, task, PendingRx, NextRxBulkInIndex>>, Keeps("submit"),
         \A a \in Actors : pc[a] = "submit" => hand'[a] = hand[a], Readable' \subseteq Readable
  PROVE  OneTransfer'
<1>1. Busy' <=> Busy
  BY DEF Busy, Keeps
<1> QED BY <1>1 DEF OneTransfer, Keeps

LEMMA ReaderFrame ==
  ASSUME OneReader, UNCHANGED <<bRxHandling, Readable, NextRxBulkInReadIndex>>, Keeps("handle"),
         \A a \in Actors : pc[a] = "handle" => hand'[a] = hand[a],
         BulkInOffset \subseteq BulkInOffset', InUse' \subseteq InUse
  PROVE  OneReader'
BY DEF OneReader, Keeps

LEMMA OrderFrame ==
  ASSUME InOrder, UNCHANGED <<Readable, NextRxBulkInIndex, NextRxBulkInReadIndex>>
  PROVE  InOrder'
BY DEF InOrder, Between

LEMMA ResetsFrame ==
  ASSUME Resets, UNCHANGED <<cmds, BULKIN_RESET, NIC_NOT_EXIST>>,
         pc'[Cmd] \in {"kill", "killing", "clear", "mac"} => pc[Cmd] \in {"kill", "killing", "clear", "mac"}
  PROVE  Resets'
BY DEF Resets

LEMMA BytesFrame ==
  ASSUME Bytes, UNCHANGED <<BulkInOffset, Readable, NextRxBulkInIndex, NextRxBulkInPosition, start>>,
         misplaced => misplaced', \A a \in Actors : pc'[a] = "submit" => pc[a] = "submit",
         BULKIN_RESET => BULKIN_RESET', \A c \in RxContexts : urb[c] = "idle" => urb'[c] = "idle"
  PROVE  Bytes'
BY DEF Bytes

\* A step that moves an actor that neither reads nor submits, nor resets before it did.
LEMMA Wanders ==
  ASSUME TypeOK, Calm, NEW a \in Actors, NEW l, Goto(a, l),
         pc[a] \notin {"submit", "handle"}, l \notin {"submit", "handle"},
         l \in {"kill", "killing", "clear", "mac"} /\ a = Cmd
           => pc[a] \in {"kill", "killing", "clear", "mac"},
         hand' = hand \/ \E c \in RxContexts \cup {None} : Take(a, c),
         InUse' \subseteq InUse,
         UNCHANGED <<Readable, bRxHandling, BulkInOffset, idxVars, PendingRx, BULKIN_RESET,
                     NIC_NOT_EXIST, cmds, usbVars, hasty, misplaced>>
  PROVE  Calm'
<1>1. Moves(a, l)
  BY GotoMoves
<1>2. Keeps("submit") /\ Keeps("handle")
  BY <1>1 DEF Moves, Keeps
<1>3. \A b \in Actors \ {a} : hand'[b] = hand[b]
  BY TakeHolds
<1>4. UNCHANGED <<NextRxBulkInPosition, NextRxBulkInIndex, NextRxBulkInReadIndex, urb, start, task>>
  BY DEF idxVars, usbVars
<1>5. OneTransfer'
  BY <1>2, <1>3, <1>4, TransferFrame DEF Calm
<1>6. OneReader'
  BY <1>2, <1>3, <1>4, ReaderFrame DEF Calm
<1>7. InOrder'
  BY <1>4, OrderFrame DEF Calm
<1>8. Resets'
  <2>1. Cmd \in Actors /\ (Cmd # a => pc'[Cmd] = pc[Cmd])
    BY <1>1 DEF Moves, Actors
  <2> QED BY <1>1, <1>4, <2>1, ResetsFrame DEF Calm, Moves
<1>9. Bytes'
  BY <1>2, <1>4, BytesFrame DEF Calm, Keeps
<1> QED BY <1>5, <1>6, <1>7, <1>8, <1>9 DEF Calm
----------------------------------------------------------------------------
(* The places of the ring that wait to be read. *)

LEMMA ReadOne ==
  ASSUME NEW r \in RxContexts, NEW w \in RxContexts, NEW S, r \in S,
         S = Between(r, w) \/ (r = w /\ S = RxContexts)
  PROVE  S \ {r} = Between(Inc(r), w)
<1>1. Inc(r) = IF r = RX_RING_SIZE - 1 THEN 0 ELSE r + 1
  BY Next1
<1>2. RX_RING_SIZE \in Nat \ {0} /\ RxContexts = 0..(RX_RING_SIZE - 1)
  BY Numbers DEF RxContexts
<1>3. ASSUME NEW c \in RxContexts PROVE c \in S \ {r} <=> c \in Between(Inc(r), w)
  BY <1>1, <1>2 DEF Between
<1>4. S \subseteq RxContexts /\ Between(Inc(r), w) \subseteq RxContexts
  BY DEF Between
<1> QED BY <1>3, <1>4

LEMMA FillOne ==
  ASSUME NEW r \in RxContexts, NEW w \in RxContexts, NEW S, w \notin S,
         S = Between(r, w) \/ (r = w /\ S = RxContexts)
  PROVE  \/ S \cup {w} = Between(r, Inc(w))
         \/ r = Inc(w) /\ S \cup {w} = RxContexts
<1>1. Inc(w) = IF w = RX_RING_SIZE - 1 THEN 0 ELSE w + 1
  BY Next1
<1>2. RX_RING_SIZE \in Nat \ {0} /\ RxContexts = 0..(RX_RING_SIZE - 1) /\ S = Between(r, w)
  BY Numbers DEF RxContexts
<1>3. CASE r = Inc(w)
  <2>1. ASSUME NEW c \in RxContexts PROVE c \in S \cup {w}
    BY <1>1, <1>2, <1>3 DEF Between
  <2> QED BY <1>2, <1>3, <2>1 DEF Between
<1>4. CASE r # Inc(w)
  <2>1. ASSUME NEW c \in RxContexts PROVE c \in S \cup {w} <=> c \in Between(r, Inc(w))
    BY <1>1, <1>2, <1>4 DEF Between
  <2>2. S \cup {w} \subseteq RxContexts /\ Between(r, Inc(w)) \subseteq RxContexts
    BY <1>2 DEF Between
  <2> QED BY <2>1, <2>2
<1> QED BY <1>3, <1>4

----------------------------------------------------------------------------
(* RTUSBBulkReceive and DoBulkIn. *)

LEMMA LookAtRingCalm ==
  ASSUME TypeOK, Calm, NEW a \in Actors, LookAtRing(a)
  PROVE  Calm'
<1>1. /\ pc[a] = "look"
      /\ UNCHANGED <<InUse, IRPPending, Readable, BulkInOffset, NextRxBulkInPosition, NextRxBulkInIndex,
                     NextRxBulkInReadIndex, PendingRx, BULKIN_RESET, NIC_NOT_EXIST, cmds, urb, start,
                     task, misplaced, idxVars, usbVars>>
  BY DEF LookAtRing, idxVars, flagVars, usbVars
<1>2. CASE MayHandle(NextRxBulkInReadIndex)
  <2> PICK r : r = NextRxBulkInReadIndex
    OBVIOUS
  <2>1. /\ bRxHandling' = bRxHandling \cup {r} /\ Take(a, r) /\ Goto(a, "handle")
        /\ r \in Readable /\ r \notin bRxHandling
    BY <1>2 DEF LookAtRing, MayHandle
  <2>2. /\ pc'[a] = "handle" /\ hand'[a] = r
        /\ \A b \in Actors \ {a} : pc'[b] = pc[b] /\ hand'[b] = hand[b]
    BY <2>1, GotoMoves, TakeHolds DEF Moves
  <2>3. \A b \in Actors : pc[b] # "handle"
    BY <2>1 DEF Calm, OneReader
  <2>4. OneReader'
    BY <1>1, <2>1, <2>2, <2>3 DEF Calm, OneReader
  <2>5. Keeps("submit")
    BY <1>1, <2>2 DEF Keeps
  <2>6. OneTransfer'
    BY <1>1, <2>2, <2>5, TransferFrame DEF Calm
  <2>7. InOrder' /\ Bytes'
    BY <1>1, <2>5, OrderFrame, BytesFrame DEF Calm, Keeps
  <2>8. Resets'
    <3>1. pc'[Cmd] \in {"kill", "killing", "clear", "mac"} => pc[Cmd] \in {"kill", "killing", "clear", "mac"}
      BY <2>2 DEF Actors
    <3> QED BY <1>1, <3>1, ResetsFrame DEF Calm
  <2> QED BY <2>4, <2>6, <2>7, <2>8 DEF Calm
<1>3. CASE ~MayHandle(NextRxBulkInReadIndex)
  <2>1. UNCHANGED <<bRxHandling, hand, hasty>> /\ Goto(a, "test")
    BY <1>3 DEF LookAtRing
  <2> QED BY <1>1, <2>1, Wanders
<1> QED BY <1>2, <1>3

LEMMA HandledRingCalm ==
  ASSUME TypeOK, Calm, NEW a \in Actors, HandledRing(a)
  PROVE  Calm'
<1> PICK r, w : r = NextRxBulkInReadIndex /\ w = NextRxBulkInIndex
  OBVIOUS
<1>1. /\ pc[a] = "handle" /\ hand[a] = r /\ r \in Readable /\ r \in RxContexts /\ w \in RxContexts
      /\ \A b \in Actors : pc[b] = "handle" => b = a
      /\ \A c \in bRxHandling : c = r
  BY DEF HandledRing, Calm, OneReader, TypeOK
<1>2. /\ BulkInOffset' = BulkInOffset \ {r} /\ Readable' = Readable \ {r}
      /\ bRxHandling' = bRxHandling \ {r} /\ NextRxBulkInReadIndex' = Inc(r)
      /\ Take(a, None) /\ Goto(a, "look")
      /\ UNCHANGED <<InUse, IRPPending, NextRxBulkInPosition, PendingRx, NextRxBulkInIndex,
                     BULKIN_RESET, NIC_NOT_EXIST, cmds, urb, start, task, misplaced>>
  BY <1>1 DEF HandledRing, NextToRead, flagVars, usbVars
<1>3. /\ pc'[a] = "look" /\ \A b \in Actors \ {a} : pc'[b] = pc[b] /\ hand'[b] = hand[b]
  BY <1>2, GotoMoves, TakeHolds DEF Moves
<1>4. OneTransfer'
  <2>1. Keeps("submit") /\ Readable' \subseteq Readable
    BY <1>1, <1>2, <1>3 DEF Keeps
  <2> QED BY <1>1, <1>2, <1>3, <2>1, TransferFrame DEF Calm
<1>5. OneReader'
  BY <1>1, <1>2, <1>3 DEF Calm, OneReader
<1>6. InOrder'
  <2>1. Readable \ {r} = Between(Inc(r), w)
    BY <1>1, ReadOne DEF Calm, InOrder
  <2> QED BY <1>2, <2>1 DEF InOrder, Between
<1>7. Resets'
  <2>1. pc'[Cmd] \in {"kill", "killing", "clear", "mac"} => pc[Cmd] \in {"kill", "killing", "clear", "mac"}
    BY <1>3 DEF Actors
  <2> QED BY <1>2, <2>1, ResetsFrame DEF Calm
<1>8. Bytes'
  BY <1>1, <1>2, <1>3 DEF Calm, Bytes
<1> QED BY <1>4, <1>5, <1>6, <1>7, <1>8 DEF Calm

LEMMA DoBulkInCalm ==
  ASSUME TypeOK, Calm, NEW a \in Actors, DoBulkIn(a)
  PROVE  Calm'
<1> PICK w : w = NextRxBulkInIndex
  OBVIOUS
<1>1. /\ pc[a] = "dobulkin" /\ w \in RxContexts
      /\ UNCHANGED <<Readable, bRxHandling, BulkInOffset, NextRxBulkInPosition, NextRxBulkInIndex,
                     NextRxBulkInReadIndex, BULKIN_RESET, NIC_NOT_EXIST, cmds, urb, start, task,
                     idxVars, usbVars, hasty>>
  BY DEF DoBulkIn, idxVars, flagVars, usbVars, TypeOK
<1>2. CASE MayClaim(w)
  <2>1. /\ InUse' = InUse \cup {w} /\ PendingRx' = (PendingRx + 1) % UcharMod
        /\ misplaced' = (misplaced \/ BULKIN_RESET) /\ Take(a, w) /\ Goto(a, "submit")
        /\ PendingRx = 0 /\ w \notin Readable
    BY <1>2 DEF DoBulkIn, MayClaim
  <2>2. PendingRx' = 1 /\ ~Busy
    BY <2>1, Counters DEF TypeOK, Calm, OneTransfer
  <2>3. /\ pc'[a] = "submit" /\ hand'[a] = w
        /\ \A b \in Actors \ {a} : pc'[b] = pc[b] /\ pc[b] # "submit" /\ hand'[b] = hand[b]
    BY <2>1, <2>2, GotoMoves, TakeHolds DEF Moves, Busy
  <2>4. Busy' /\ \A c \in RxContexts : urb'[c] = "idle"
    BY <1>1, <2>2, <2>3 DEF Busy
  <2>5. OneTransfer'
    BY <1>1, <2>1, <2>2, <2>3, <2>4 DEF Calm, OneTransfer
  <2>6. OneReader'
    BY <1>1, <2>1, <2>3 DEF Calm, OneReader
  <2>7. InOrder'
    BY <1>1, OrderFrame DEF Calm
  <2>8. Resets'
    <3>1. pc'[Cmd] \in {"kill", "killing", "clear", "mac"} => pc[Cmd] \in {"kill", "killing", "clear", "mac"}
      BY <2>3 DEF Actors
    <3> QED BY <1>1, <3>1, ResetsFrame DEF Calm
  <2>9. Bytes'
    BY <1>1, <2>1, <2>4 DEF Calm, Bytes
  <2> QED BY <2>5, <2>6, <2>7, <2>8, <2>9 DEF Calm
<1>3. CASE ~MayClaim(w)
  <2>1. UNCHANGED <<InUse, PendingRx, misplaced, hand>> /\ Goto(a, "idle")
    BY <1>3 DEF DoBulkIn
  <2> QED BY <1>1, <2>1, Wanders
<1> QED BY <1>2, <1>3

LEMMA SubmitCalm ==
  ASSUME TypeOK, Calm, NEW a \in Actors, SubmitOk(a) \/ SubmitFail(a)
  PROVE  Calm'
<1> PICK w : w = NextRxBulkInIndex
  OBVIOUS
<1>1. /\ pc[a] = "submit" /\ hand[a] = w /\ w \in RxContexts /\ Take(a, None) /\ Goto(a, "idle")
      /\ w \notin Readable
      /\ \A c \in RxContexts : urb[c] = "idle"
      /\ \A b \in Actors : pc[b] = "submit" => b = a
      /\ PendingRx = 1
  <2>1. pc[a] = "submit" /\ Busy /\ Take(a, None) /\ Goto(a, "idle")
    BY DEF SubmitOk, SubmitFail, Busy
  <2> QED BY <2>1 DEF Calm, OneTransfer, TypeOK
<1>2. /\ UNCHANGED <<Readable, bRxHandling, BulkInOffset, NextRxBulkInPosition, NextRxBulkInIndex,
                     NextRxBulkInReadIndex, BULKIN_RESET, NIC_NOT_EXIST, cmds, task, misplaced>>
      /\ InUse' \subseteq InUse
  BY DEF SubmitOk, SubmitFail, ctxVars, idxVars, flagVars, usbVars
<1>3. /\ pc'[a] = "idle"
      /\ \A b \in Actors \ {a} : pc'[b] = pc[b] /\ pc[b] # "submit" /\ hand'[b] = hand[b]
  BY <1>1, GotoMoves, TakeHolds DEF Moves
<1>4. OneReader'
  <2>1. Keeps("handle")
    BY <1>1, <1>3 DEF Keeps
  <2> QED BY <1>1, <1>2, <1>3, <2>1, ReaderFrame DEF Calm
<1>5. InOrder'
  BY <1>2, OrderFrame DEF Calm
<1>6. Resets'
  <2>1. pc'[Cmd] \in {"kill", "killing", "clear", "mac"} => pc[Cmd] \in {"kill", "killing", "clear", "mac"}
    BY <1>3 DEF Actors
  <2> QED BY <1>2, <2>1, ResetsFrame DEF Calm
<1>7. CASE SubmitOk(a)
  <2>1. /\ urb' = [urb EXCEPT ![w] = "flying"] /\ start' = [start EXCEPT ![w] = NextRxBulkInPosition]
        /\ PendingRx' = PendingRx
    BY <1>1, <1>7 DEF SubmitOk
  <2>2. /\ urb'[w] = "flying" /\ \A c \in RxContexts \ {w} : urb'[c] = "idle"
        /\ start'[w] = NextRxBulkInPosition /\ task = None
    <3>1. task = None
      BY <1>1 DEF Calm, OneTransfer, TypeOK
    <3> QED BY <1>1, <2>1, <3>1 DEF TypeOK
  <2>3. Busy'
    BY <1>1, <2>2 DEF Busy
  <2>4. OneTransfer'
    BY <1>1, <1>2, <1>3, <2>1, <2>2, <2>3 DEF OneTransfer
  <2>5. Bytes'
    BY <1>1, <1>2, <1>3, <2>2 DEF Calm, Bytes
  <2> QED BY <1>4, <1>5, <1>6, <2>4, <2>5 DEF Calm
<1>8. CASE SubmitFail(a)
  <2>1. PendingRx' = 0 /\ UNCHANGED <<urb, start>>
    BY <1>1, <1>8, Counters DEF SubmitFail, usbVars, TypeOK
  <2>2. ~Busy'
    BY <1>1, <1>3, <2>1 DEF Busy
  <2>3. OneTransfer'
    BY <1>1, <1>2, <1>3, <2>1, <2>2 DEF Calm, OneTransfer
  <2>4. Bytes'
    BY <1>1, <1>2, <1>3, <2>1, BytesFrame DEF Calm
  <2> QED BY <1>4, <1>5, <1>6, <2>3, <2>4 DEF Calm
<1> QED BY <1>7, <1>8

LEMMA ReceiveCalm ==
  ASSUME TypeOK, Calm, NEW a \in Actors, Receive(a)
  PROVE  Calm'
<1>1. CASE RTUSBBulkReceive(a) \/ TestStopRx(a)
  <2>1. /\ pc[a] \in {"receive", "test"}
        /\ \E l \in {"idle", "look", "dobulkin"} : Goto(a, l)
        /\ UNCHANGED <<InUse, Readable, bRxHandling, BulkInOffset, idxVars, PendingRx, BULKIN_RESET,
                       NIC_NOT_EXIST, cmds, usbVars, hand, hasty, misplaced>>
    BY <1>1 DEF RTUSBBulkReceive, TestStopRx, AfterLook, ctxVars, flagVars
  <2> QED BY <2>1, Wanders
<1> QED BY <1>1, LookAtRingCalm, HandledRingCalm, DoBulkInCalm, SubmitCalm DEF Receive
----------------------------------------------------------------------------
(* Completions. *)

LEMMA RTUSBBulkRxCompleteCalm ==
  ASSUME TypeOK, Calm, NEW w \in RxContexts, RTUSBBulkRxComplete(w)
  PROVE  Calm'
<1>1. /\ urb[w] = "flying" /\ task' = w
      /\ UNCHANGED <<InUse, Readable, bRxHandling, BulkInOffset, NextRxBulkInPosition,
                     NextRxBulkInIndex, NextRxBulkInReadIndex, PendingRx, BULKIN_RESET,
                     NIC_NOT_EXIST, cmds, start, pc, hand, misplaced>>
  BY DEF RTUSBBulkRxComplete, ctxVars, idxVars, flagVars
<1>2. w = NextRxBulkInIndex /\ \A c \in RxContexts \ {w} : urb[c] = "idle"
  BY <1>1 DEF Calm, OneTransfer
<1>3. urb'[w] \notin {"idle", "flying"} /\ \A c \in RxContexts \ {w} : urb'[c] = urb[c]
  BY DEF RTUSBBulkRxComplete, TypeOK
<1>4. Busy /\ Busy'
  BY <1>1, <1>3 DEF Busy
<1>5. OneTransfer'
  BY <1>1, <1>2, <1>3, <1>4 DEF Calm, OneTransfer
<1>6. OneReader'
  BY <1>1, <1>2, <1>3 DEF Calm, OneReader
<1>7. InOrder' /\ Resets'
  BY <1>1, OrderFrame, ResetsFrame DEF Calm
<1>8. Bytes'
  BY <1>1, <1>2, <1>3 DEF Calm, Bytes
<1> QED BY <1>5, <1>6, <1>7, <1>8 DEF Calm

LEMMA RxDoneCalm ==
  ASSUME TypeOK, Calm, rx_done_tasklet
  PROVE  Calm'
<1> PICK w : w = task
  OBVIOUS
<1>1. /\ pc[Tasklet] = "idle" /\ w \in RxContexts /\ task' = None /\ Goto(Tasklet, "receive")
      /\ InUse' = InUse \ {w} /\ PendingRx' = OneLess
      /\ UNCHANGED <<bRxHandling, NextRxBulkInReadIndex, NIC_NOT_EXIST, start, hand, misplaced>>
  BY DEF rx_done_tasklet, TypeOK
<1>2. /\ w = NextRxBulkInIndex /\ urb[w] \notin {"idle", "flying"} /\ w \notin Readable
      /\ PendingRx = 1 /\ \A c \in RxContexts \ {w} : urb[c] = "idle"
      /\ \A a \in Actors : pc[a] # "submit"
  <2>1. w # None /\ urb[w] \notin {"idle", "flying"}
    BY <1>1, Numbers DEF Calm, OneTransfer
  <2>2. Busy
    BY <1>1, <2>1 DEF Busy
  <2> QED BY <1>1, <2>1, <2>2 DEF Calm, OneTransfer
<1>3. \A c \in RxContexts : urb'[c] = "idle"
  <2>1. urb' = [urb EXCEPT ![w] = "idle"]
    BY <1>2 DEF rx_done_tasklet
  <2> QED BY <1>2, <2>1 DEF TypeOK
<1>4. PendingRx' = 0
  BY <1>1, <1>2, Counters DEF TypeOK
<1>5. /\ pc'[Tasklet] = "receive" /\ \A a \in Actors \ {Tasklet} : pc'[a] = pc[a]
      /\ Tasklet \in Actors
  BY <1>1, GotoMoves DEF Moves, Actors
<1>6. ~Busy'
  BY <1>2, <1>3, <1>5 DEF Busy
<1>7. OneTransfer'
  BY <1>1, <1>2, <1>3, <1>4, <1>5, <1>6 DEF Calm, OneTransfer
<1>8. CASE Good(w) /\ HasBytes(w)
  <2>1. /\ Readable' = Readable \cup {w} /\ BulkInOffset' = BulkInOffset \cup {w}
        /\ NextRxBulkInIndex' = Inc(w) /\ NextRxBulkInPosition' = 0
        /\ UNCHANGED <<BULKIN_RESET, cmds>>
    BY <1>2, <1>8 DEF rx_done_tasklet
  <2>2. OneReader'
    BY <1>1, <1>2, <1>3, <1>5, <2>1 DEF Calm, OneReader
  <2>3. InOrder'
    <3> PICK r : r = NextRxBulkInReadIndex
      OBVIOUS
    <3>1. \/ Readable \cup {w} = Between(r, Inc(w))
          \/ r = Inc(w) /\ Readable \cup {w} = RxContexts
      <4>1. r \in RxContexts
        BY DEF TypeOK
      <4> QED BY <1>1, <1>2, <4>1, FillOne DEF Calm, InOrder
    <3> QED BY <1>1, <2>1, <3>1 DEF InOrder, Between
  <2>4. Resets'
    <3>1. pc'[Cmd] = pc[Cmd]
      BY <1>5, Numbers
    <3> QED BY <1>1, <2>1, <3>1, ResetsFrame DEF Calm
  <2>5. Bytes'
    BY <1>1, <1>2, <1>3, <1>5, <2>1 DEF Calm, Bytes
  <2> QED BY <1>7, <2>2, <2>3, <2>4, <2>5 DEF Calm
<1>9. CASE ~(Good(w) /\ HasBytes(w))
  <2>1. /\ Readable' = Readable /\ NextRxBulkInIndex' = NextRxBulkInIndex
        /\ BulkInOffset \subseteq BulkInOffset' /\ BulkInOffset' \subseteq BulkInOffset \cup {w}
    BY <1>2, <1>9 DEF rx_done_tasklet
  <2>2. OneReader'
    BY <1>1, <1>2, <1>3, <1>5, <2>1 DEF Calm, OneReader
  <2>3. InOrder'
    BY <1>1, <2>1, OrderFrame DEF Calm
  <2>4. CASE Good(w)
    <3>1. /\ UNCHANGED <<BULKIN_RESET, cmds, BulkInOffset>> /\ NextRxBulkInPosition' = 0
          /\ w \notin BulkInOffset
      BY <1>9, <2>4 DEF rx_done_tasklet, HasBytes
    <3>2. Resets'
      <4>1. pc'[Cmd] = pc[Cmd]
        BY <1>5, Numbers
      <4> QED BY <1>1, <3>1, <4>1, ResetsFrame DEF Calm
    <3>3. Bytes'
      BY <1>1, <1>2, <1>3, <1>5, <2>1, <3>1 DEF Calm, Bytes
    <3> QED BY <1>7, <2>2, <2>3, <3>2, <3>3 DEF Calm
  <2>5. CASE ~Good(w)
    <3>1. /\ BULKIN_RESET \/ NIC_NOT_EXIST => UNCHANGED <<BULKIN_RESET, cmds>>
          /\ ~BULKIN_RESET /\ ~NIC_NOT_EXIST => BULKIN_RESET' = TRUE /\ cmds' = cmds + 1
      BY <2>5 DEF rx_done_tasklet
    <3>2. pc'[Cmd] = pc[Cmd]
      BY <1>5, Numbers
    <3>3. BULKIN_RESET' /\ Resets'
      BY <1>1, <3>1, <3>2 DEF Calm, Resets
    <3>4. Bytes'
      BY <1>1, <1>2, <1>3, <1>5, <2>1, <3>3 DEF Calm, Bytes
    <3> QED BY <1>7, <2>2, <2>3, <3>3, <3>4 DEF Calm
  <2> QED BY <2>4, <2>5
<1> QED BY <1>8, <1>9

----------------------------------------------------------------------------
(* The command, the radio and the watchdog. *)

\* A step that moves at most an actor that neither reads nor submits, before or after
\* it, and changes flags, or the position while nothing is out.
LEMMA FlagsCalm ==
  ASSUME TypeOK, Calm, NEW a \in Actors, NEW l, Goto(a, l),
         pc[a] \notin {"submit", "handle"}, l \notin {"submit", "handle"},
         UNCHANGED <<ctxVars, NextRxBulkInIndex, NextRxBulkInReadIndex, PendingRx, usbVars, hand>>,
         Resets', Bytes'
  PROVE  Calm'
<1>1. Moves(a, l)
  BY GotoMoves
<1>2. Keeps("submit") /\ Keeps("handle")
  BY <1>1 DEF Moves, Keeps
<1>3. UNCHANGED <<InUse, Readable, bRxHandling, BulkInOffset, urb, start, task>>
  BY DEF ctxVars, usbVars
<1>4. OneTransfer' /\ OneReader' /\ InOrder'
  BY <1>2, <1>3, TransferFrame, ReaderFrame, OrderFrame DEF Calm
<1> QED BY <1>4 DEF Calm

LEMMA ReadMacCsr0Calm ==
  ASSUME TypeOK, Calm, ReadMacCsr0, ~hasty'
  PROVE  Calm'
<1>1. /\ pc[Cmd] = "mac" /\ Cmd \in Actors
      /\ UNCHANGED <<ctxVars, NextRxBulkInIndex, NextRxBulkInReadIndex, PendingRx, cmds, usbVars, hand,
                     Readable, BulkInOffset, urb, start>>
  BY Numbers DEF ReadMacCsr0, ctxVars, usbVars
<1>2. cmds = 0 /\ BULKIN_RESET
  BY <1>1 DEF Calm, Resets
<1>3. CASE ~UNCHANGED BULKIN_RESET
  <2>1. /\ ~StopHandle /\ NextRxBulkInPosition' = BytesToKeep /\ BULKIN_RESET' = FALSE
        /\ misplaced' = (misplaced \/ NextRxBulkInIndex \in Readable) /\ ~Busy
        /\ Goto(Cmd, "dobulkin") /\ UNCHANGED NIC_NOT_EXIST
    BY <1>3 DEF ReadMacCsr0
  <2>2. pc'[Cmd] = "dobulkin" /\ \A a \in Actors \ {Cmd} : pc'[a] = pc[a]
    BY <1>1, <2>1, GotoMoves DEF Moves
  <2>3. Resets'
    BY <1>1, <1>2, <2>1, <2>2 DEF Resets, StopHandle
  <2>4. Bytes'
    <3>1. \A c \in RxContexts : urb'[c] = "idle"
      BY <1>1, <2>1 DEF Busy
    <3> QED BY <1>1, <2>1, <3>1 DEF Calm, Bytes, BytesToKeep
  <2> QED BY <1>1, <2>1, <2>3, <2>4, FlagsCalm
<1>4. CASE UNCHANGED BULKIN_RESET
  <2>1. /\ Goto(Cmd, "idle") /\ UNCHANGED <<NextRxBulkInPosition, misplaced>>
    BY <1>2, <1>4 DEF ReadMacCsr0
  <2>2. pc'[Cmd] = "idle" /\ \A a \in Actors \ {Cmd} : pc'[a] = pc[a]
    BY <1>1, <2>1, GotoMoves DEF Moves
  <2>3. Resets'
    BY <1>1, <1>2, <1>4, <2>2 DEF Resets
  <2>4. Bytes'
    BY <1>1, <1>4, <2>1, <2>2, BytesFrame DEF Calm
  <2> QED BY <1>1, <2>1, <2>3, <2>4, FlagsCalm
<1> QED BY <1>3, <1>4

LEMMA CmdCalm ==
  ASSUME TypeOK, Calm, CmdStep, ~hasty'
  PROVE  Calm'
<1> USE Numbers
<1>1. CASE ResetBulkIn
  <2>1. /\ pc[Cmd] = "idle" /\ cmds > 0 /\ cmds' = cmds - 1
        /\ \E l \in {"kill", "mac"} : Goto(Cmd, l)
        /\ UNCHANGED <<ctxVars, NextRxBulkInPosition, NextRxBulkInIndex, NextRxBulkInReadIndex,
                       PendingRx, BULKIN_RESET, NIC_NOT_EXIST, usbVars, hand, misplaced, Readable,
                       BulkInOffset, urb, start>>
    BY <1>1 DEF ResetBulkIn, idxVars, ctxVars, usbVars
  <2> PICK l \in {"kill", "mac"} : Goto(Cmd, l)
    BY <2>1
  <2>2. pc'[Cmd] = l /\ \A a \in Actors \ {Cmd} : pc'[a] = pc[a]
    BY GotoMoves DEF Moves
  <2>3. cmds = 1 /\ cmds' = 0
    BY <2>1 DEF Calm, Resets
  <2>4. Resets'
    BY <2>1, <2>2, <2>3 DEF Calm, Resets
  <2>5. Bytes'
    BY <2>1, <2>2, BytesFrame DEF Calm
  <2> QED BY <2>1, <2>4, <2>5, FlagsCalm
<1>2. CASE RTUSBCancelPendingBulkInIRP
  <2>1. /\ pc[Cmd] = "kill" /\ \E l \in {"killing", "clear"} : Goto(Cmd, l)
        /\ hand' = hand \/ \E c \in RxContexts \cup {None} : Take(Cmd, c)
        /\ UNCHANGED <<InUse, Readable, bRxHandling, BulkInOffset, idxVars, PendingRx, BULKIN_RESET,
                       NIC_NOT_EXIST, cmds, usbVars, hasty, misplaced>>
    BY <1>2 DEF RTUSBCancelPendingBulkInIRP, ctxVars, flagVars, TypeOK
  <2> QED BY <2>1, Wanders
<1>3. CASE KillDone
  <2>1. /\ pc[Cmd] = "killing" /\ Goto(Cmd, "kill") /\ Take(Cmd, None) /\ InUse' \subseteq InUse
        /\ UNCHANGED <<Readable, bRxHandling, BulkInOffset, idxVars, PendingRx, BULKIN_RESET,
                       NIC_NOT_EXIST, cmds, usbVars, hasty, misplaced>>
    BY <1>3 DEF KillDone, flagVars
  <2> QED BY <2>1, Wanders
<1>4. CASE ClearPendingRx
  <2>1. /\ pc[Cmd] = "clear" /\ Goto(Cmd, "mac") /\ PendingRx' = 0 /\ ~Busy /\ hand' = hand
        /\ UNCHANGED <<InUse, Readable, bRxHandling, BulkInOffset, idxVars, BULKIN_RESET,
                       NIC_NOT_EXIST, cmds, usbVars, misplaced>>
    BY <1>4 DEF ClearPendingRx, ctxVars, flagVars
  <2>2. UNCHANGED PendingRx /\ UNCHANGED hasty
    BY <1>4, <2>1 DEF Calm, OneTransfer, ClearPendingRx, TypeOK
  <2> QED BY <2>1, <2>2, Wanders
<1> QED BY <1>1, <1>2, <1>3, <1>4, ReadMacCsr0Calm DEF CmdStep

LEMMA OtherCalm ==
  ASSUME TypeOK, Calm, RT28xxUsbMlmeRadioOFF \/ RT28xxUsbMlmeRadioOn \/ RTUSBWatchDog \/ UNCHANGED vars
  PROVE  Calm'
<1> USE Numbers
<1>1. CASE RT28xxUsbMlmeRadioOn
  <2>1. /\ pc[Radio] = "idle" /\ Goto(Radio, "receive") /\ hand' = hand
        /\ UNCHANGED <<InUse, Readable, bRxHandling, BulkInOffset, idxVars, PendingRx, BULKIN_RESET,
                       NIC_NOT_EXIST, cmds, usbVars, hasty, misplaced>>
    BY <1>1 DEF RT28xxUsbMlmeRadioOn, ctxVars
  <2> QED BY <2>1, Wanders
<1>2. CASE RT28xxUsbMlmeRadioOFF \/ RTUSBWatchDog \/ UNCHANGED vars
  <2>1. /\ UNCHANGED <<InUse, IRPPending, Readable, bRxHandling, BulkInOffset, NextRxBulkInPosition,
                       NextRxBulkInIndex, NextRxBulkInReadIndex, PendingRx, urb, start, task, pc, hand,
                       NIC_NOT_EXIST, misplaced>>
        /\ \/ UNCHANGED <<BULKIN_RESET, cmds>>
           \/ ~BULKIN_RESET /\ ~NIC_NOT_EXIST /\ BULKIN_RESET' = TRUE /\ cmds' = cmds + 1
    BY <1>2 DEF RT28xxUsbMlmeRadioOFF, RTUSBWatchDog, vars, ctxVars, idxVars, flagVars, usbVars
  <2>2. Keeps("submit") /\ Keeps("handle")
    BY <2>1 DEF Keeps
  <2>3. OneTransfer' /\ OneReader' /\ InOrder'
    BY <2>1, <2>2, TransferFrame, ReaderFrame, OrderFrame DEF Calm
  <2>4. Resets'
    BY <2>1 DEF Calm, Resets
  <2>5. Bytes'
    BY <2>1, BytesFrame DEF Calm
  <2> QED BY <2>3, <2>4, <2>5 DEF Calm
<1> QED BY <1>1, <1>2

----------------------------------------------------------------------------
(* Every step. *)

LEMMA InitOK == Init => IInv
<1> SUFFICES ASSUME Init PROVE IInv
  OBVIOUS
<1> USE Numbers
<1>1. TypeOK
  <2>1. 0 \in 0..(UcharMod - 1) /\ 0 \in 0..MaxFaults
    BY BulkInAssumption
  <2>2. pc \in [Actors -> {"idle", "receive"}] /\ hand \in [Actors -> {None}]
    BY DEF Init
  <2> QED BY <2>1, <2>2 DEF Init, TypeOK
<1>2. Grip /\ \A a \in Actors : pc[a] \in {"idle", "receive"}
  BY DEF Init, Grip
<1>3. ~Busy
  BY <1>2 DEF Init, Busy
<1>4. OneTransfer
  BY <1>2, <1>3 DEF Init, OneTransfer
<1>5. OneReader /\ Resets /\ Bytes
  BY <1>2 DEF Init, OneReader, Resets, Bytes
<1>6. InOrder
  <2>1. Between(0, 0) = {}
    <3>1. ASSUME NEW c \in Between(0, 0) PROVE FALSE
      <4>1. c \in Nat /\ 0 <= c /\ c < 0
        BY DEF Between
      <4> QED BY <4>1
    <3> QED BY <3>1
  <2> QED BY <2>1 DEF Init, InOrder
<1> QED BY <1>1, <1>2, <1>4, <1>5, <1>6 DEF IInv, Calm

LEMMA NextKeeps == IInv /\ [Next]_vars => IInv'
<1> SUFFICES ASSUME IInv, [Next]_vars PROVE IInv'
  OBVIOUS
<1>1. TypeOK' /\ Grip'
  BY TypeNext DEF IInv
<1>2. hasty => hasty'
  BY DEF Next, Receive, RTUSBBulkReceive, LookAtRing, HandledRing, TestStopRx, DoBulkIn, SubmitOk,
         SubmitFail, rx_done_tasklet, CmdStep, ResetBulkIn, RTUSBCancelPendingBulkInIRP, KillDone,
         ClearPendingRx, ReadMacCsr0, RTUSBBulkRxComplete, RT28xxUsbMlmeRadioOFF,
         RT28xxUsbMlmeRadioOn, RTUSBWatchDog, vars
<1>3. ASSUME ~hasty' PROVE Calm'
  <2>1. TypeOK /\ Calm
    BY <1>2, <1>3 DEF IInv
  <2> QED BY <1>3, <2>1, ReceiveCalm, RxDoneCalm, CmdCalm, RTUSBBulkRxCompleteCalm, OtherCalm
          DEF Next
<1> QED BY <1>1, <1>3 DEF IInv

\* The inductive invariant.
LEMMA Invariance == Spec => []IInv
BY InitOK, NextKeeps, PTL DEF Spec

----------------------------------------------------------------------------
(* What it shows. *)

\* Every variable of the receive path keeps its type, whatever the reset command does.
THEOREM TypeCorrect == Spec => []TypeOK
<1>1. IInv => TypeOK
  BY DEF IInv
<1> QED BY <1>1, Invariance, PTL

\* RTUSBBulkReceive has one reader, at the read index, and what it reads or is to read is
\* out of the USB core's hands.
THEOREM ReadersOwnTheirBuffers == Spec => []ReaderOwnsBuffer
<1>1. IInv => ReaderOwnsBuffer
  <2> SUFFICES ASSUME TypeOK, Calm PROVE ReaderOwnsBuffer
    BY DEF IInv, ReaderOwnsBuffer
  <2>1. \A c \in Readable : c \in RxContexts /\ urb[c] = "idle"
    <3>1. \A c \in RxContexts : urb[c] # "idle" => Busy /\ c = NextRxBulkInIndex
      BY DEF Calm, OneTransfer, Busy
    <3> QED BY <3>1 DEF TypeOK, Calm, OneTransfer
  <2> QED BY <2>1 DEF ReaderOwnsBuffer, Calm, OneReader
<1> QED BY <1>1, Invariance, PTL

\* The buffers that RTUSBBulkReceive has still to read are those from the read index up to
\* the bulk-in index, in the order of their transfers.
THEOREM BuffersAreReadInOrder == Spec => []ReadInOrder
<1>1. IInv => ReadInOrder
  <2> PICK r, w : r = NextRxBulkInReadIndex /\ w = NextRxBulkInIndex
    OBVIOUS
  <2> DEFINE n == (w - r) % RX_RING_SIZE
             waiting == {(r + i) % RX_RING_SIZE : i \in 0..(n - 1)}
  <2> SUFFICES ASSUME TypeOK, Calm PROVE Readable = waiting \/ (n = 0 /\ Readable = RxContexts)
    BY DEF IInv, ReadInOrder
  <2>1. /\ r \in Nat /\ w \in Nat /\ r < RX_RING_SIZE /\ w < RX_RING_SIZE
        /\ RX_RING_SIZE \in Nat \ {0} /\ w - r \in Int
    BY Numbers DEF TypeOK, RxContexts
  <2>2. n = IF r <= w THEN w - r ELSE w - r + RX_RING_SIZE
    <3>1. /\ w - r \in Int /\ -RX_RING_SIZE <= w - r /\ w - r < RX_RING_SIZE + RX_RING_SIZE
          /\ w - r < RX_RING_SIZE /\ (r <= w <=> ~(w - r < 0))
      BY <2>1
    <3>2. n = IF w - r < 0 THEN w - r + RX_RING_SIZE
              ELSE IF w - r < RX_RING_SIZE THEN w - r ELSE w - r - RX_RING_SIZE
      BY <2>1, <3>1, RemainderOf
    <3> HIDE DEF n
    <3> QED BY <2>1, <3>1, <3>2
  <2>3. ASSUME NEW i \in 0..(n - 1)
        PROVE  (r + i) % RX_RING_SIZE = IF r + i < RX_RING_SIZE THEN r + i ELSE r + i - RX_RING_SIZE
    <3> PICK d : d = r + i
      OBVIOUS
    <3> HIDE DEF n
    <3>1. /\ i \in Nat /\ d \in Int /\ -RX_RING_SIZE <= d
          /\ d < RX_RING_SIZE + RX_RING_SIZE /\ ~(d < 0)
      BY <2>1, <2>2
    <3>2. d % RX_RING_SIZE = IF d < 0 THEN d + RX_RING_SIZE
                             ELSE IF d < RX_RING_SIZE THEN d ELSE d - RX_RING_SIZE
      BY <2>1, <3>1, RemainderOf
    <3> QED BY <2>1, <3>1, <3>2
  <2>4. waiting = Between(r, w)
    <3>1. ASSUME NEW i \in 0..(n - 1) PROVE (r + i) % RX_RING_SIZE \in Between(r, w)
      BY <2>1, <2>2, <2>3 DEF Between, RxContexts
    <3>2. ASSUME NEW c \in Between(r, w)
          PROVE  \E i \in 0..(n - 1) : c = (r + i) % RX_RING_SIZE
      <4>1. c \in Nat /\ c < RX_RING_SIZE /\ (IF r <= w THEN r <= c /\ c < w ELSE r <= c \/ c < w)
        BY <2>1 DEF Between, RxContexts
      <4>2. CASE r <= c
        <5>1. c - r \in 0..(n - 1) /\ r + (c - r) < RX_RING_SIZE /\ r + (c - r) = c
          BY <2>1, <2>2, <4>1, <4>2
        <5>2. (r + (c - r)) % RX_RING_SIZE = c
          BY <2>3, <5>1
        <5> QED BY <5>1, <5>2
      <4>3. CASE c < r
        <5> DEFINE k == c - r + RX_RING_SIZE
        <5>1. k \in 0..(n - 1) /\ ~(r + k < RX_RING_SIZE) /\ r + k - RX_RING_SIZE = c
          BY <2>1, <2>2, <4>1, <4>3
        <5> HIDE DEF k
        <5>2. (r + k) % RX_RING_SIZE = c
          BY <2>3, <5>1
        <5> QED BY <5>1, <5>2
      <4> QED BY <2>1, <4>1, <4>2, <4>3
    <3> QED BY <3>1, <3>2
  <2>5. r = w => n = 0
    BY <2>1, <2>2
  <2> QED BY <2>4, <2>5 DEF Calm, InOrder
<1> QED BY <1>1, Invariance, PTL

\* PendingRx of DoBulkIn, rx_done_tasklet and the reset counts the one transfer there may be.
THEOREM PendingRxIsExact == Spec => []PendingRxCounts
<1>1. IInv => PendingRxCounts
  <2> SUFFICES ASSUME TypeOK, Calm PROVE PendingRxCounts
    BY DEF IInv, PendingRxCounts
  <2>1. Busy <=> Holders # {} \/ OutOf # {}
    BY DEF Busy, Holders, OutOf
  <2>2. OutOf \subseteq {NextRxBulkInIndex} /\ (Holders # {} => OutOf = {})
    BY DEF Holders, OutOf, Calm, OneTransfer
  <2>3. Cardinality(Holders) + Cardinality(OutOf) <= 1
    <3>1. Cardinality(OutOf) \in {0, 1} /\ (OutOf = {} => Cardinality(OutOf) = 0)
      <4>1. OutOf = {} \/ OutOf = {NextRxBulkInIndex}
        BY <2>2
      <4> QED BY <4>1, FS_EmptySet, FS_Singleton
    <3>2. Cardinality(Holders) \in {0, 1} /\ (Holders = {} => Cardinality(Holders) = 0)
      <4>1. Holders = {} \/ \E a \in Actors : Holders = {a}
        BY DEF Holders, Calm, OneTransfer
      <4> QED BY <4>1, FS_EmptySet, FS_Singleton
    <3> QED BY <2>2, <3>1, <3>2
  <2> QED BY <2>1, <2>2, <2>3 DEF PendingRxCounts, Calm, OneTransfer
<1> QED BY <1>1, Invariance, PTL

\* DoBulkIn puts the next transfer behind the bytes of the failed one (NextRxBulkInPosition).
THEOREM FailedBuffersAreContinued == Spec => []ConcatenatesFailed
<1>1. IInv => ConcatenatesFailed
  <2> SUFFICES ASSUME TypeOK, Calm, ~misplaced, NEW c \in OutOf
               PROVE  start[c] = (IF c \in BulkInOffset THEN 1 ELSE 0)
    BY DEF IInv, ConcatenatesFailed
  <2>1. c \in RxContexts /\ urb[c] # "idle" /\ c = NextRxBulkInIndex /\ c \notin Readable
    BY DEF OutOf, Calm, OneTransfer, Busy
  <2> QED BY <2>1 DEF Calm, Bytes
<1> QED BY <1>1, Invariance, PTL
=============================================================================

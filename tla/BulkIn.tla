------------------------------- MODULE BulkIn -------------------------------
(***************************************************************************)
(* The bulk-in path: a ring of receive contexts that RTUSBBulkReceive       *)
(* empties and offers, one at a time, to the USB core; the receive tasklet; *)
(* the command that resets a failed bulk-in; the radio going off and on;    *)
(* and the watchdog.  A buffer is known by what the transfer left in it:    *)
(* nothing, or some bytes.                                                  *)
(***************************************************************************)
EXTENDS Integers, FiniteSets

CONSTANTS
  RX_RING_SIZE,
  UcharMod,     \* 256, the modulus of PendingRx (a UCHAR)
  MaxFaults     \* bound: failed transfers, refused URBs, watchdog alarms and
                \* failed register reads in one behaviour

ASSUME BulkInAssumption ==
  /\ RX_RING_SIZE \in Nat \ {0}
  /\ UcharMod \in Nat /\ RX_RING_SIZE < UcharMod
  /\ MaxFaults \in Nat

RxContexts == 0..(RX_RING_SIZE - 1)
None == RX_RING_SIZE  \* no context

\* Who runs this code: the receive tasklet, the command thread, and the thread
\* that opens the device and turns the radio off and on.
Tasklet == "tasklet"
Cmd == "cmd"
Radio == "radio"
Actors == {Tasklet, Cmd, Radio}

\* Mutant of Inc: the index is not wrapped.
IncUnwrapped(i) == i + 1
Inc(i) == (i + 1) % RX_RING_SIZE  \* INC_RING_INDEX

VARIABLES
  InUse, IRPPending, Readable, bRxHandling,  \* contexts with the flag
  BulkInOffset,          \* contexts that hold bytes
  zeroed,                \* those whose bytes DoBulkIn has overwritten with zeros
  NextRxBulkInPosition,  \* 1 when the next transfer goes behind such bytes
  PendingRx, NextRxBulkInIndex, NextRxBulkInReadIndex,
  BULKIN_RESET, RADIO_OFF, NIC_NOT_EXIST,
  cmds,      \* CMDTHREAD_RESET_BULK_IN commands in the queue
  urb,       \* of each context: "idle", "flying", or completed with "data",
             \* "empty", "partial" (failed after some bytes) or "error"
  start,     \* where the newest transfer of a context began
  task,      \* rx_done_task.data while the tasklet is scheduled
  pc,
  hand,      \* the context an actor holds
  faults,
  hasty,     \* the reset command went on beside a transfer still claimed or out
  misplaced, \* a context was claimed while a reset was pending, or the reset
             \* took the length of a buffer yet to be read for a failed one's
  refused    \* an URB was refused

ctxVars == <<InUse, IRPPending, Readable, bRxHandling, BulkInOffset, zeroed>>
idxVars == <<NextRxBulkInPosition, NextRxBulkInIndex, NextRxBulkInReadIndex>>
flagVars == <<BULKIN_RESET, RADIO_OFF, NIC_NOT_EXIST, cmds>>
usbVars == <<urb, start, task>>
vars == <<ctxVars, idxVars, PendingRx, flagVars, usbVars, pc, hand, faults, hasty,
          misplaced, refused>>

\* The open thread is about to make the first call of RTUSBBulkReceive.
Init ==
  /\ InUse = {} /\ IRPPending = {} /\ Readable = {} /\ bRxHandling = {} /\ BulkInOffset = {}
  /\ zeroed = {}
  /\ NextRxBulkInPosition = 0 /\ PendingRx = 0
  /\ NextRxBulkInIndex = 0 /\ NextRxBulkInReadIndex = 0
  /\ BULKIN_RESET = FALSE /\ RADIO_OFF = FALSE /\ NIC_NOT_EXIST = FALSE /\ cmds = 0
  /\ urb = [c \in RxContexts |-> "idle"] /\ start = [c \in RxContexts |-> 0]
  /\ task = None
  /\ pc = [a \in Actors |-> IF a = Radio THEN "receive" ELSE "idle"]
  /\ hand = [a \in Actors |-> None]
  /\ faults = 0 /\ hasty = FALSE /\ misplaced = FALSE /\ refused = FALSE

Goto(a, l) == pc' = [pc EXCEPT ![a] = l]
Take(a, c) == hand' = [hand EXCEPT ![a] = c]
Fault == faults < MaxFaults /\ faults' = faults + 1

StopHandle == RADIO_OFF \/ NIC_NOT_EXIST  \* fRTMP_ADAPTER_NEED_STOP_HANDLE_RX
StopRx == StopHandle \/ BULKIN_RESET      \* fRTMP_ADAPTER_NEED_STOP_RX

\* Transfers that are claimed, out, or completed and not yet seen.
Busy ==
  (\E a \in Actors : pc[a] = "submit") \/ (\E c \in RxContexts : urb[c] # "idle")

----------------------------------------------------------------------------
(* RTUSBBulkReceive and DoBulkIn, for any caller. *)

RTUSBBulkReceive(a) ==
  /\ pc[a] = "receive"
  /\ Goto(a, IF StopHandle THEN "idle" ELSE "look")
  /\ UNCHANGED <<ctxVars, idxVars, PendingRx, flagVars, usbVars, hand, faults, hasty,
                 misplaced, refused>>

\* Mutant of MayHandle: a context that is being handled is handled again.
MayHandleAgain(c) == c \notin InUse /\ c \in Readable

MayHandle(c) == c \notin InUse /\ c \in Readable /\ c \notin bRxHandling

\* The oldest buffer, if nobody handles it yet.
LookAtRing(a) ==
  LET c == NextRxBulkInReadIndex IN
  /\ pc[a] = "look"
  /\ IF MayHandle(c)
     THEN bRxHandling' = bRxHandling \cup {c} /\ Take(a, c) /\ Goto(a, "handle")
     ELSE UNCHANGED <<bRxHandling, hand>> /\ Goto(a, "test")
  /\ UNCHANGED <<InUse, IRPPending, Readable, BulkInOffset, zeroed, idxVars, PendingRx,
                 flagVars, usbVars, faults, hasty, misplaced, refused>>

\* Mutant of NextToRead: the read index stays behind.
NextToReadStuck(c) == NextRxBulkInReadIndex
NextToRead(c) == Inc(NextRxBulkInReadIndex)

\* STARxDoneInterruptHandle has indicated the packets of the buffer.
HandledRing(a) ==
  LET c == hand[a] IN
  /\ pc[a] = "handle"
  /\ BulkInOffset' = BulkInOffset \ {c} /\ zeroed' = zeroed \ {c}
  /\ Readable' = Readable \ {c}
  /\ bRxHandling' = bRxHandling \ {c}
  /\ NextRxBulkInReadIndex' = NextToRead(c)
  /\ Take(a, None)
  /\ Goto(a, "look")
  /\ UNCHANGED <<InUse, IRPPending, NextRxBulkInPosition, PendingRx, NextRxBulkInIndex,
                 flagVars, usbVars, faults, hasty, misplaced, refused>>

\* Mutant of AfterLook: the loop ends without offering a context.
AfterLookIdle == "idle"
AfterLook == IF StopRx THEN "idle" ELSE "dobulkin"

TestStopRx(a) ==
  /\ pc[a] = "test"
  /\ Goto(a, AfterLook)
  /\ UNCHANGED <<ctxVars, idxVars, PendingRx, flagVars, usbVars, hand, faults, hasty,
                 misplaced, refused>>

MayClaim(c) == PendingRx = 0 /\ c \notin Readable /\ c \notin InUse

\* The claim, with BulkInLock held.
DoBulkIn(a) ==
  LET c == NextRxBulkInIndex IN
  /\ pc[a] = "dobulkin"
  /\ IF MayClaim(c)
     THEN /\ InUse' = InUse \cup {c} /\ IRPPending' = IRPPending \cup {c}
          /\ PendingRx' = (PendingRx + 1) % UcharMod
          /\ misplaced' = (misplaced \/ BULKIN_RESET)
          /\ Take(a, c)
          /\ Goto(a, "submit")
     ELSE UNCHANGED <<InUse, IRPPending, PendingRx, misplaced, hand>> /\ Goto(a, "idle")
  /\ UNCHANGED <<Readable, bRxHandling, BulkInOffset, zeroed, idxVars, flagVars, usbVars,
                 faults, hasty, refused>>

\* An URB that is on its way cannot be submitted, nor one that is being killed.
MaySubmit(c) == urb[c] # "flying" /\ ~(pc[Cmd] = "killing" /\ hand[Cmd] = c)

\* Between the claim and the submission DoBulkIn clears the bytes that the context
\* holds; the reset command's copy of the code does not.
Zero(a) == IF a = Cmd THEN zeroed ELSE zeroed \cup ({hand[a]} \cap BulkInOffset)

SubmitOk(a) ==
  LET c == hand[a] IN
  /\ pc[a] = "submit" /\ MaySubmit(c)
  /\ zeroed' = Zero(a)
  /\ urb' = [urb EXCEPT ![c] = "flying"]
  /\ start' = [start EXCEPT ![c] = NextRxBulkInPosition]
  /\ Take(a, None) /\ Goto(a, "idle")
  /\ UNCHANGED <<InUse, IRPPending, Readable, bRxHandling, BulkInOffset, idxVars, PendingRx,
                 flagVars, task, faults, hasty, misplaced, refused>>

\* Mutant of OneLess: the counter is left alone.
OneLessUncounted == PendingRx
OneLess == (PendingRx - 1) % UcharMod

\* The URB is refused; nobody tries again.
SubmitFail(a) ==
  LET c == hand[a] IN
  /\ pc[a] = "submit"
  /\ IF MaySubmit(c) THEN Fault ELSE UNCHANGED faults
  /\ zeroed' = Zero(a)
  /\ InUse' = InUse \ {c} /\ IRPPending' = IRPPending \ {c}
  /\ PendingRx' = OneLess
  /\ refused' = TRUE
  /\ Take(a, None) /\ Goto(a, "idle")
  /\ UNCHANGED <<Readable, bRxHandling, BulkInOffset, idxVars, flagVars, usbVars, hasty, misplaced>>

----------------------------------------------------------------------------
(* Completions. *)

\* The host controller ends a transfer (an error is a fault, or the kill of
\* the command thread) and RTUSBBulkRxComplete schedules the tasklet.
RTUSBBulkRxComplete(c) ==
  /\ urb[c] = "flying"
  /\ \E r \in {"data", "empty", "partial", "error"} :
       /\ urb' = [urb EXCEPT ![c] = r]
       /\ IF r \in {"data", "empty"} \/ (pc[Cmd] = "killing" /\ hand[Cmd] = c)
          THEN UNCHANGED faults ELSE Fault
  /\ task' = c
  /\ UNCHANGED <<ctxVars, idxVars, PendingRx, flagVars, start, pc, hand, hasty, misplaced, refused>>

\* The tasklet finds an URB that was submitted again meanwhile in progress,
\* which is no success.
Good(c) == urb[c] \in {"data", "empty"}
HasBytes(c) == c \in BulkInOffset \/ urb[c] \in {"data", "partial"}

rx_done_tasklet ==
  LET c == task
      full == Good(c) /\ HasBytes(c)
  IN
  /\ pc[Tasklet] = "idle" /\ task # None
  /\ task' = None
  /\ urb' = [urb EXCEPT ![c] = IF @ = "flying" THEN @ ELSE "idle"]
  /\ InUse' = InUse \ {c} /\ IRPPending' = IRPPending \ {c}
  /\ BulkInOffset' = IF HasBytes(c) THEN BulkInOffset \cup {c} ELSE BulkInOffset
  /\ PendingRx' = OneLess
  /\ Readable' = IF full THEN Readable \cup {c}
                 ELSE IF Good(c) THEN Readable ELSE Readable \ {c}
  /\ NextRxBulkInIndex' = IF full THEN Inc(NextRxBulkInIndex) ELSE NextRxBulkInIndex
  /\ NextRxBulkInPosition' = IF Good(c) THEN 0 ELSE NextRxBulkInPosition
  /\ IF Good(c) \/ BULKIN_RESET \/ NIC_NOT_EXIST
     THEN UNCHANGED <<BULKIN_RESET, cmds>>
     ELSE BULKIN_RESET' = TRUE /\ cmds' = cmds + 1
  /\ Goto(Tasklet, "receive")
  /\ UNCHANGED <<bRxHandling, zeroed, NextRxBulkInReadIndex, RADIO_OFF, NIC_NOT_EXIST, start, hand,
                 faults, hasty, misplaced, refused>>

----------------------------------------------------------------------------
(* CMDTHREAD_RESET_BULK_IN. *)

ResetBulkIn ==
  /\ pc[Cmd] = "idle" /\ cmds > 0
  /\ cmds' = cmds - 1
  /\ Goto(Cmd, IF PendingRx > 0 /\ ~NIC_NOT_EXIST THEN "kill" ELSE "mac")
  /\ UNCHANGED <<ctxVars, idxVars, PendingRx, BULKIN_RESET, RADIO_OFF, NIC_NOT_EXIST, usbVars,
                 hand, faults, hasty, misplaced, refused>>

\* RTUSBCancelPendingBulkInIRP, with no lock: kill the URB of each pending
\* context and wait until it has completed, then clear its flags.
RTUSBCancelPendingBulkInIRP ==
  /\ pc[Cmd] = "kill"
  /\ \/ /\ IRPPending # {}
        /\ \E c \in IRPPending : Take(Cmd, c)
        /\ Goto(Cmd, "killing")
     \/ IRPPending = {} /\ Goto(Cmd, "clear") /\ UNCHANGED hand
  /\ UNCHANGED <<ctxVars, idxVars, PendingRx, flagVars, usbVars, faults, hasty, misplaced, refused>>

KillDone ==
  LET c == hand[Cmd] IN
  /\ pc[Cmd] = "killing" /\ urb[c] # "flying"
  /\ InUse' = InUse \ {c} /\ IRPPending' = IRPPending \ {c}
  /\ Take(Cmd, None) /\ Goto(Cmd, "kill")
  /\ UNCHANGED <<Readable, bRxHandling, BulkInOffset, zeroed, idxVars, PendingRx, flagVars,
                 usbVars, faults, hasty, misplaced, refused>>

\* The delay of 100 ms is over: the counter is cleared, whatever it counts.
ClearPendingRx ==
  /\ pc[Cmd] = "clear"
  /\ PendingRx' = 0
  /\ hasty' = (hasty \/ Busy)
  /\ Goto(Cmd, "mac")
  /\ UNCHANGED <<ctxVars, idxVars, flagVars, usbVars, hand, faults, misplaced, refused>>

\* Mutant of BytesToKeep: the reset forgets the bytes of the failed transfer.
BytesForgotten == 0
BytesToKeep == IF NextRxBulkInIndex \in BulkInOffset THEN 1 ELSE 0

\* The register is read: the command gives up while the radio is off, and for
\* good when the read fails.
ReadMacCsr0 ==
  /\ pc[Cmd] = "mac"
  /\ \/ /\ Fault /\ NIC_NOT_EXIST' = TRUE /\ Goto(Cmd, "idle")
        /\ UNCHANGED <<NextRxBulkInPosition, BULKIN_RESET, hasty, misplaced>>
     \/ /\ StopHandle /\ Goto(Cmd, "idle")
        /\ UNCHANGED <<NextRxBulkInPosition, BULKIN_RESET, NIC_NOT_EXIST, faults, hasty, misplaced>>
     \/ /\ ~StopHandle
        /\ NextRxBulkInPosition' = BytesToKeep
        /\ BULKIN_RESET' = FALSE
        /\ hasty' = (hasty \/ Busy)
        /\ misplaced' = (misplaced \/ NextRxBulkInIndex \in Readable)
        /\ Goto(Cmd, "dobulkin")
        /\ UNCHANGED <<NIC_NOT_EXIST, faults>>
  /\ UNCHANGED <<ctxVars, NextRxBulkInIndex, NextRxBulkInReadIndex, PendingRx, RADIO_OFF, cmds,
                 usbVars, hand, refused>>

----------------------------------------------------------------------------
(* The radio and the watchdog. *)

RT28xxUsbMlmeRadioOFF ==
  /\ pc[Radio] = "idle" /\ ~RADIO_OFF
  /\ RADIO_OFF' = TRUE
  /\ UNCHANGED <<ctxVars, idxVars, PendingRx, BULKIN_RESET, NIC_NOT_EXIST, cmds, usbVars, pc,
                 hand, faults, hasty, misplaced, refused>>

RT28xxUsbMlmeRadioOn ==
  /\ pc[Radio] = "idle" /\ RADIO_OFF
  /\ RADIO_OFF' = FALSE
  /\ Goto(Radio, "receive")
  /\ UNCHANGED <<ctxVars, idxVars, PendingRx, BULKIN_RESET, NIC_NOT_EXIST, cmds, usbVars,
                 hand, faults, hasty, misplaced, refused>>

\* Too many overflows of the receive FIFO.
RTUSBWatchDog ==
  /\ ~BULKIN_RESET /\ ~NIC_NOT_EXIST
  /\ Fault
  /\ BULKIN_RESET' = TRUE /\ cmds' = cmds + 1
  /\ UNCHANGED <<ctxVars, idxVars, PendingRx, RADIO_OFF, NIC_NOT_EXIST, usbVars, pc, hand,
                 hasty, misplaced, refused>>

----------------------------------------------------------------------------
Receive(a) ==
  \/ RTUSBBulkReceive(a) \/ LookAtRing(a) \/ HandledRing(a) \/ TestStopRx(a)
  \/ DoBulkIn(a) \/ SubmitOk(a) \/ SubmitFail(a)

CmdStep ==
  \/ ResetBulkIn \/ RTUSBCancelPendingBulkInIRP \/ KillDone \/ ClearPendingRx \/ ReadMacCsr0

Next ==
  \/ \E a \in Actors : Receive(a)
  \/ rx_done_tasklet
  \/ CmdStep
  \/ \E c \in RxContexts : RTUSBBulkRxComplete(c)
  \/ RT28xxUsbMlmeRadioOFF \/ RT28xxUsbMlmeRadioOn \/ RTUSBWatchDog

\* Threads and tasklets run, and an URB that is killed comes back; nothing
\* makes data arrive.
Fairness ==
  /\ \A a \in Actors : WF_vars(Receive(a))
  /\ WF_vars(rx_done_tasklet) /\ WF_vars(CmdStep)
  /\ \A c \in RxContexts :
       WF_vars(pc[Cmd] = "killing" /\ hand[Cmd] = c /\ RTUSBBulkRxComplete(c))

Spec == Init /\ [][Next]_vars /\ Fairness

----------------------------------------------------------------------------
(* Properties. *)

\* The variables have their types.
TypeOK ==
  /\ InUse \subseteq RxContexts /\ IRPPending \subseteq RxContexts
  /\ Readable \subseteq RxContexts /\ bRxHandling \subseteq RxContexts
  /\ BulkInOffset \subseteq RxContexts /\ zeroed \subseteq RxContexts
  /\ NextRxBulkInPosition \in {0, 1}
  /\ PendingRx \in 0..(UcharMod - 1)
  /\ NextRxBulkInIndex \in RxContexts /\ NextRxBulkInReadIndex \in RxContexts
  /\ BULKIN_RESET \in BOOLEAN /\ RADIO_OFF \in BOOLEAN /\ NIC_NOT_EXIST \in BOOLEAN
  /\ cmds \in Nat
  /\ urb \in [RxContexts -> {"idle", "flying", "data", "empty", "partial", "error"}]
  /\ start \in [RxContexts -> {0, 1}]
  /\ task \in RxContexts \cup {None}
  /\ pc \in [Actors -> {"idle", "receive", "look", "handle", "test", "dobulkin", "submit",
                        "kill", "killing", "clear", "mac"}]
  /\ hand \in [Actors -> RxContexts \cup {None}]
  /\ faults \in 0..MaxFaults /\ hasty \in BOOLEAN /\ misplaced \in BOOLEAN /\ refused \in BOOLEAN

\* Until the reset command is hasty, a buffer has one reader, at the read index,
\* and a buffer to be read or being read is not in the hands of the USB core, by
\* its flags ("These 2 Boolean shouldn't both be 1") or by its URB.
ReaderOwnsBuffer ==
  ~hasty =>
    /\ \A a, b \in Actors : pc[a] = "handle" /\ pc[b] = "handle" => a = b
    /\ \A a \in Actors : pc[a] = "handle" => hand[a] = NextRxBulkInReadIndex
    /\ bRxHandling \subseteq Readable
    /\ Readable \subseteq BulkInOffset
    /\ \A c \in Readable : c \notin InUse /\ urb[c] = "idle"

\* The buffers to be read run from the read index up to the bulk-in index, so
\* packets are indicated in the order in which they were received.
ReadInOrder ==
  LET n == (NextRxBulkInIndex - NextRxBulkInReadIndex) % RX_RING_SIZE
      waiting == {(NextRxBulkInReadIndex + i) % RX_RING_SIZE : i \in 0..(n - 1)}
  IN ~hasty => \/ Readable = waiting
               \/ n = 0 /\ Readable = RxContexts

\* Unless the reset command was hasty, PendingRx counts the transfers that are
\* claimed, out, or not yet seen by the tasklet: there is at most one, of the
\* context at the bulk-in index.
Holders == {a \in Actors : pc[a] = "submit"}
OutOf == {c \in RxContexts : urb[c] # "idle"}
PendingRxCounts ==
  ~hasty =>
    /\ Cardinality(Holders) + Cardinality(OutOf) <= 1
    /\ PendingRx \in {0, 1}
    /\ PendingRx = 1 <=> (Holders # {} \/ OutOf # {})
    /\ OutOf \subseteq {NextRxBulkInIndex}

\* "Want to contatenate 2 URB buffer while 1st is bulkin failed URB": a
\* transfer begins where the bytes of the failed one end, never over them,
\* unless it was claimed by a caller that had tested the flags too early, or the
\* reset met a full ring.  It is about the places; BytesKept is about the bytes.
ConcatenatesFailed ==
  ~hasty /\ ~misplaced => \A c \in OutOf : start[c] = (IF c \in BulkInOffset THEN 1 ELSE 0)

\* What the same comment wants of the bytes: those of the failed transfer are still
\* there when the next one has come in behind them.
BytesKept == ~hasty /\ ~misplaced => zeroed = {}

\* "The Maximum pending Rx value should be RX_RING_SIZE."
PendingRxBounded == PendingRx <= RX_RING_SIZE

\* With the radio on, no reset pending and no transfer out, a transfer is
\* offered again: a full ring, or a reader that was in the way, does not end
\* reception.
ReceptionResumes ==
  (~StopRx /\ PendingRx = 0) ~> (PendingRx > 0 \/ StopRx \/ refused \/ hasty)

\* Bound: what follows a hasty reset is not explored; PendingRxBounded shows it.
NotHasty == ~hasty
=============================================================================

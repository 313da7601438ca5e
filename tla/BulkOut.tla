------------------------------ MODULE BulkOut ------------------------------
(***************************************************************************)
(* The arbiter of the bulk-out pipes: RTUSBKickBulkOut and the routines it  *)
(* calls, the completion tasklets of os/linux/rt_usb.c, the command that    *)
(* resets a failed bulk-out, and the management ring behind pipe 0.         *)
(*                                                                         *)
(* A context is what owns an URB: <<"data", p>> for the ring of pipe p, and *)
(* <<"mlme", 0>>, <<"null", 0>>, <<"pspoll", 0>>, which all share pipe 0    *)
(* (MGMTPIPEIDX).  The rings of the data pipes are counted in frames here;  *)
(* module TxRing has their positions.                                       *)
(***************************************************************************)
EXTENDS Integers, FiniteSets

CONSTANTS
  Tasks,          \* kernel threads and receive tasklets that send frames
  Jobs,           \* what they send, of "mgmt", "data", "null", "pspoll"
  LastPipe,       \* the last data pipe (3 in the code)
  MGMT_RING_SIZE,
  UintMod,        \* 2^32, the modulus of TxSwFreeIdx (a UINT32)
  RingCap,        \* bound: frames waiting in the ring of a pipe
  MayScan,        \* whether a scan may start
  MaxJobs,        \* bound: frames sent in one behaviour
  TaskletCpus,    \* how many tasklets run at a time (the CPUs that take the
                  \* host controller's interrupts)
  MaxFaults       \* bound: failed transfers and refused URBs, resets apart

ASSUME BulkOutAssumption ==
  /\ LastPipe \in 0..3
  /\ MGMT_RING_SIZE \in Nat \ {0} /\ UintMod \in Nat /\ MGMT_RING_SIZE < UintMod
  /\ Jobs \subseteq {"mgmt", "data", "null", "pspoll"}
  /\ RingCap \in Nat \ {0} /\ TaskletCpus \in Nat \ {0}
  /\ MaxJobs \in Nat /\ MaxFaults \in Nat
  /\ MayScan \in BOOLEAN

Pipes == 0..LastPipe
DataContexts == {"data"} \X Pipes
Mlme == <<"mlme", 0>>
Null == <<"null", 0>>
PsPoll == <<"pspoll", 0>>
Contexts == DataContexts \cup {Mlme, Null, PsPoll}
Pipe(c) == c[2]

\* Each context has the tasklet that completes it; the command thread and
\* the tasks are the other actors.
Cmd == <<"cmd", 0>>
Actors == Contexts \cup {Cmd} \cup ({"task"} \X Tasks)

None == <<"none", 0>>
MgmtReset == 128  \* MGMTPIPEIDX | BULKOUT_MGMT_RESET_FLAG
Cells == 0..(MGMT_RING_SIZE - 1)

\* Mutant of Inc: the index is not wrapped.
IncUnwrapped(i) == i + 1
Inc(i) == (i + 1) % MGMT_RING_SIZE  \* INC_RING_INDEX

VARIABLES
  BulkFlags,       \* contexts whose flag is set: DATA_NORMAL << p, MLME, NULL, PSPOLL
  BulkOutPending,
  BULKOUT_RESET,   \* fRTMP_ADAPTER_BULKOUT_RESET, the part of NEED_STOP_TX that moves here
  bulkResetPipeid,
  urb,             \* of each context: "idle", "flying", "ok" or "error" when
                   \* completed, "closing" until its tasklet frees the pipe
  ring,            \* frames waiting in the ring of a data pipe
  scanning,        \* fRTMP_ADAPTER_BSS_SCAN_IN_PROGRESS
  NullInUse,       \* NullContext.InUse
  InUse, bWaitingBulkOut,  \* management ring cells with the flag
  TxCpuIdx, TxDmaIdx, TxSwFreeIdx,
  SelfIdx,         \* the cell whose URB was last handed over
  cmds,            \* CMDTHREAD_RESET_BULK_OUT commands in the queue
  pc, ret, at, idx,\* progress of each actor, where RTUSBKickBulkOut returns
                   \* to, the pipe and the management cell it looks at
  hold,            \* the context an actor claimed a pipe for
  jobs, faults,    \* frames sent; failed transfers and refused URBs
  stale,           \* a management cell was claimed or filled out of turn
  orphaned,        \* pipes left pending by a failed reset
  delivered        \* of the newest transfer of a data pipe: "no", "once", "twice"

mgmtVars == <<InUse, bWaitingBulkOut, TxCpuIdx, TxDmaIdx, TxSwFreeIdx>>
resetVars == <<BULKOUT_RESET, bulkResetPipeid, cmds>>
envVars == <<scanning, NullInUse>>
bounds == <<jobs, faults>>
histVars == <<stale, orphaned, delivered>>
vars == <<BulkFlags, BulkOutPending, urb, ring, mgmtVars, SelfIdx, resetVars,
          pc, ret, at, idx, hold, envVars, bounds, histVars>>

Init ==
  /\ BulkFlags = {}
  /\ BulkOutPending = [p \in Pipes |-> FALSE]
  /\ BULKOUT_RESET = FALSE /\ bulkResetPipeid = 0 /\ cmds = 0
  /\ urb = [c \in Contexts |-> "idle"]
  /\ ring = [p \in Pipes |-> 0]
  /\ scanning = FALSE /\ NullInUse = FALSE
  /\ InUse = {} /\ bWaitingBulkOut = {}
  /\ TxCpuIdx = 0 /\ TxDmaIdx = 0 /\ TxSwFreeIdx = MGMT_RING_SIZE /\ SelfIdx = 0
  /\ pc = [a \in Actors |-> "idle"] /\ ret = [a \in Actors |-> "idle"]
  /\ at = [a \in Actors |-> 0] /\ idx = [a \in Actors |-> 0]
  /\ hold = [a \in Actors |-> None]
  /\ jobs = 0 /\ faults = 0 /\ stale = FALSE /\ orphaned = {}
  /\ delivered = [p \in Pipes |-> "no"]

----------------------------------------------------------------------------
(* Control: where an actor goes next. *)

Goto(a, l) == pc' = [pc EXCEPT ![a] = l]

\* a calls RTUSBKickBulkOut and goes on at l.
Kick(a, l) == Goto(a, "kick") /\ ret' = [ret EXCEPT ![a] = l]

\* RTUSBKickBulkOut returns.  "unlock" releases MgmtRingLock on the way out.
Leave(a) ==
  /\ Goto(a, IF ret[a] = "unlock" THEN "idle" ELSE ret[a])
  /\ ret' = [ret EXCEPT ![a] = "idle"]
  /\ at' = [at EXCEPT ![a] = 0]

\* To the first data pipe, and past the pipe looked at.
ToData(a) == Goto(a, "data") /\ at' = [at EXCEPT ![a] = 0] /\ UNCHANGED ret
Past(a) ==
  IF at[a] < LastPipe
  THEN Goto(a, "data") /\ at' = [at EXCEPT ![a] = @ + 1] /\ UNCHANGED ret
  ELSE Leave(a)

\* Mutant of Refused: the claim forgets to look at BulkOutPending.
RefusedOnResetOnly(p) == BULKOUT_RESET

\* BulkOutPending or NEED_STOP_TX, read with BulkOutLock held.
Refused(p) == BulkOutPending[p] \/ BULKOUT_RESET

Claim(a, c) ==
  /\ BulkOutPending' = [BulkOutPending EXCEPT ![Pipe(c)] = TRUE]
  /\ hold' = [hold EXCEPT ![a] = c]

\* Mutant of Release: an error path that forgets to clear BulkOutPending.
ReleaseKeepsPending(a) ==
  UNCHANGED BulkOutPending /\ hold' = [hold EXCEPT ![a] = None]

Release(a) ==
  /\ BulkOutPending' = [BulkOutPending EXCEPT ![Pipe(hold[a])] = FALSE]
  /\ hold' = [hold EXCEPT ![a] = None]

HandOver(a) ==
  /\ urb' = [urb EXCEPT ![hold[a]] = "flying"]
  /\ hold' = [hold EXCEPT ![a] = None]

Fault == faults < MaxFaults /\ faults' = faults + 1 /\ UNCHANGED jobs

----------------------------------------------------------------------------
(* RTUSBKickBulkOut. *)

RTUSBKickBulkOut(a) ==
  /\ pc[a] = "kick"
  /\ IF BULKOUT_RESET THEN Leave(a)
     ELSE IF PsPoll \in BulkFlags THEN Goto(a, "pspoll") /\ UNCHANGED <<ret, at>>
     ELSE IF Mlme \in BulkFlags \/ TxSwFreeIdx < MGMT_RING_SIZE
          THEN Goto(a, "mlme") /\ UNCHANGED <<ret, at>>
     ELSE ToData(a)
  /\ UNCHANGED <<BulkFlags, BulkOutPending, urb, ring, mgmtVars, SelfIdx, resetVars,
                 idx, hold, envVars, bounds, histVars>>

\* The tests of the data flag of a pipe and, when the last one is clear, of
\* the null frame's.  A scan holds both back.
KickData(a) ==
  LET c == <<"data", at[a]>> IN
  /\ pc[a] = "data"
  /\ IF c \in BulkFlags
     THEN IF scanning THEN Past(a) ELSE Goto(a, "dataclaim") /\ UNCHANGED <<ret, at>>
     ELSE IF at[a] = LastPipe /\ Null \in BulkFlags /\ ~scanning
     THEN Goto(a, "null") /\ UNCHANGED <<ret, at>>
     ELSE Past(a)
  /\ UNCHANGED <<BulkFlags, BulkOutPending, urb, ring, mgmtVars, SelfIdx, resetVars,
                 idx, hold, envVars, bounds, histVars>>

----------------------------------------------------------------------------
(* RTUSBBulkOutDataPacket. *)

RTUSBBulkOutDataPacket(a) ==
  /\ pc[a] = "dataclaim"
  /\ IF Refused(at[a])
     THEN Past(a) /\ UNCHANGED <<BulkOutPending, hold>>
     ELSE Claim(a, <<"data", at[a]>>) /\ Goto(a, "ring") /\ UNCHANGED <<ret, at>>
  /\ UNCHANGED <<BulkFlags, urb, ring, mgmtVars, SelfIdx, resetVars, idx, envVars, bounds,
                 histVars>>

\* The part under TxContextQueueLock: leave an empty ring alone, or clear the
\* flag and take the next transfer, which may leave frames behind.
BulkOutRing(a) ==
  LET p == at[a] IN
  /\ pc[a] = "ring"
  /\ IF ring[p] = 0
     THEN Goto(a, "empty") /\ UNCHANGED <<BulkFlags, ring, delivered>>
     ELSE /\ \E n \in 1..ring[p] : ring' = [ring EXCEPT ![p] = @ - n]
          /\ BulkFlags' = BulkFlags \ {<<"data", p>>}
          /\ delivered' = [delivered EXCEPT ![p] = "no"]
          /\ Goto(a, "submit")
  /\ UNCHANGED <<BulkOutPending, urb, mgmtVars, SelfIdx, resetVars, ret, at, idx,
                 hold, envVars, bounds, stale, orphaned>>

\* The ring was empty: BulkOutLock again, the pipe freed and the flag cleared.
BulkOutEmpty(a) ==
  /\ pc[a] = "empty"
  /\ Release(a)
  /\ BulkFlags' = BulkFlags \ {hold[a]}
  /\ Past(a)
  /\ UNCHANGED <<urb, ring, mgmtVars, SelfIdx, resetVars, idx, envVars, bounds, histVars>>

----------------------------------------------------------------------------
(* RTUSBBulkOutPsPoll, RTUSBBulkOutNullFrame and RTUSBBulkOutMLMEPacket. *)

RTUSBBulkOutPsPoll(a) ==
  /\ pc[a] = "pspoll"
  /\ IF Refused(0)
     THEN ToData(a) /\ UNCHANGED <<BulkOutPending, hold>>
     ELSE Claim(a, PsPoll) /\ Goto(a, "submit") /\ UNCHANGED <<ret, at>>
  /\ UNCHANGED <<BulkFlags, urb, ring, mgmtVars, SelfIdx, resetVars, idx, envVars, bounds,
                 histVars>>

RTUSBBulkOutNullFrame(a) ==
  /\ pc[a] = "null"
  /\ IF Refused(0)
     THEN Leave(a) /\ UNCHANGED <<BulkOutPending, hold>>
     ELSE Claim(a, Null) /\ Goto(a, "submit") /\ UNCHANGED <<ret, at>>
  /\ UNCHANGED <<BulkFlags, urb, ring, mgmtVars, SelfIdx, resetVars, idx, envVars, bounds,
                 histVars>>

\* pMLMEContext is chosen and tested before any lock is taken.
RTUSBBulkOutMLMEPacket(a) ==
  /\ pc[a] = "mlme"
  /\ IF /\ TxSwFreeIdx < MGMT_RING_SIZE
        /\ TxDmaIdx \in InUse
        /\ TxDmaIdx \in bWaitingBulkOut
     THEN /\ Goto(a, "mlmeclaim")
          /\ idx' = [idx EXCEPT ![a] = TxDmaIdx]
          /\ UNCHANGED <<BulkFlags, ret, at>>
     ELSE /\ BulkFlags' = BulkFlags \ {Mlme}
          /\ ToData(a)
          /\ UNCHANGED idx
  /\ UNCHANGED <<BulkOutPending, urb, ring, mgmtVars, SelfIdx, resetVars, hold, envVars, bounds,
                 histVars>>

\* The claim itself tests only the pipe.
BulkOutMLMEClaim(a) ==
  /\ pc[a] = "mlmeclaim"
  /\ IF Refused(0)
     THEN /\ ToData(a) /\ idx' = [idx EXCEPT ![a] = 0]
          /\ UNCHANGED <<BulkOutPending, hold, bWaitingBulkOut, SelfIdx, stale>>
     ELSE /\ Claim(a, Mlme)
          /\ bWaitingBulkOut' = bWaitingBulkOut \ {idx[a]}
          /\ SelfIdx' = idx[a]
          /\ stale' = (stale \/ idx[a] # TxDmaIdx \/ idx[a] \notin bWaitingBulkOut)
          /\ Goto(a, "submit")
          /\ UNCHANGED <<ret, at, idx>>
  /\ UNCHANGED <<BulkFlags, urb, ring, InUse, TxCpuIdx, TxDmaIdx, TxSwFreeIdx, resetVars,
                 envVars, bounds, orphaned, delivered>>

\* Clear the flag of a frame that is not data and submit the URB.
AfterSubmit(a) ==
  CASE hold[a] \in DataContexts -> Past(a)
    [] hold[a] = Null -> Leave(a)
    [] OTHER -> ToData(a)
ClearFixedFlag(a) ==
  BulkFlags' = IF hold[a] \in DataContexts THEN BulkFlags ELSE BulkFlags \ {hold[a]}

SubmitOk(a) ==
  /\ pc[a] = "submit"
  /\ HandOver(a)
  /\ ClearFixedFlag(a)
  /\ AfterSubmit(a)
  /\ idx' = [idx EXCEPT ![a] = 0]
  /\ UNCHANGED <<BulkOutPending, ring, mgmtVars, SelfIdx, resetVars, envVars, bounds, histVars>>

\* The URB is refused: the pipe is freed, and a management cell waits again.
SubmitFail(a) ==
  /\ pc[a] = "submit"
  /\ Fault
  /\ Release(a)
  /\ ClearFixedFlag(a)
  /\ bWaitingBulkOut' = IF hold[a] = Mlme THEN bWaitingBulkOut \cup {idx[a]}
                                          ELSE bWaitingBulkOut
  /\ AfterSubmit(a)
  /\ idx' = [idx EXCEPT ![a] = 0]
  /\ UNCHANGED <<urb, ring, InUse, TxCpuIdx, TxDmaIdx, TxSwFreeIdx, SelfIdx, resetVars,
                 scanning, NullInUse, histVars>>

----------------------------------------------------------------------------
(* The frames that come in: one step writes the frame, sets its flag, and   *)
(* calls RTUSBKickBulkOut. *)

Counted == jobs < MaxJobs /\ jobs' = jobs + 1

PutFrame(p) ==
  /\ ring[p] < RingCap /\ Counted
  /\ ring' = [ring EXCEPT ![p] = @ + 1]
  /\ BulkFlags' = BulkFlags \cup {<<"data", p>>}

\* RTMPDeQueuePacket over all queues, cut to one packet of one of them: while
\* a scan runs nothing moves; with no packet or no room (hasTxDesc is FALSE)
\* it only calls RTUSBKickBulkOut.
RTMPDeQueuePacket(a, l) ==
  \/ scanning /\ Goto(a, l) /\ UNCHANGED <<ret, ring, BulkFlags, jobs>>
  \/ ~scanning /\ Kick(a, l) /\ UNCHANGED <<ring, BulkFlags, jobs>>
  \/ ~scanning /\ Kick(a, l) /\ \E p \in Pipes : PutFrame(p)

Starts(t, job) == pc[t] = "idle" /\ job \in Jobs

\* STAHardTransmit to RtmpUSBDataKickOut.
DataKickOut(t) ==
  /\ Starts(t, "data")
  /\ \E p \in Pipes : PutFrame(p)
  /\ Kick(t, "idle")
  /\ UNCHANGED <<BulkOutPending, urb, mgmtVars, SelfIdx, resetVars, at, idx, hold,
                 envVars, faults, histVars>>

RtmpUSBNullFrameKickOut(t) ==
  /\ Starts(t, "null") /\ Counted
  /\ ~NullInUse
  /\ NullInUse' = TRUE
  /\ BulkFlags' = BulkFlags \cup {Null}
  /\ Kick(t, "idle")
  /\ UNCHANGED <<BulkOutPending, urb, ring, mgmtVars, SelfIdx, resetVars, at, idx, hold,
                 scanning, faults, histVars>>

PsPollEnqueue(t) ==
  /\ Starts(t, "pspoll") /\ Counted
  /\ BulkFlags' = BulkFlags \cup {PsPoll}
  /\ Kick(t, "idle")
  /\ UNCHANGED <<BulkOutPending, urb, ring, mgmtVars, SelfIdx, resetVars, at, idx, hold,
                 envVars, faults, histVars>>

\* MiniportMMRequest looks for a free management cell with no lock held.
MiniportMMRequest(t) ==
  /\ Starts(t, "mgmt") /\ Counted
  /\ TxSwFreeIdx > 0
  /\ Goto(t, "mgmtput")
  /\ UNCHANGED <<BulkFlags, BulkOutPending, urb, ring, mgmtVars, SelfIdx, resetVars, ret,
                 at, idx, hold, envVars, faults, histVars>>

\* MlmeHardTransmitMgmtRing takes MgmtRingLock until RtmpUSBMgmtKickOut returns.
RtmpUSBMgmtKickOut(t) ==
  /\ pc[t] = "mgmtput"
  /\ \A a \in Actors : ret[a] # "unlock"
  /\ InUse' = InUse \cup {TxCpuIdx}
  /\ bWaitingBulkOut' = bWaitingBulkOut \cup {TxCpuIdx}
  /\ TxSwFreeIdx' = (TxSwFreeIdx - 1) % UintMod
  /\ TxCpuIdx' = Inc(TxCpuIdx)
  /\ stale' = (stale \/ TxCpuIdx \in InUse)
  /\ BulkFlags' = BulkFlags \cup {Mlme}
  /\ Kick(t, "unlock")
  /\ UNCHANGED <<BulkOutPending, urb, ring, TxDmaIdx, SelfIdx, resetVars, at, idx, hold,
                 envVars, bounds, orphaned, delivered>>

----------------------------------------------------------------------------
(* Completions.  The host controller ends a transfer and schedules the      *)
(* tasklet of its context; a tasklet does not run beside itself.            *)

\* The host controller, as the code uses it.
Transferred(c) ==
  /\ urb[c] = "flying"
  /\ urb' = [urb EXCEPT ![c] = "ok"]
  /\ delivered' = [p \in Pipes |->
       IF c # <<"data", p>> THEN delivered[p]
       ELSE IF delivered[p] = "no" THEN "once" ELSE "twice"]
  /\ UNCHANGED <<BulkFlags, BulkOutPending, ring, mgmtVars, SelfIdx, resetVars, pc, ret,
                 at, idx, hold, envVars, bounds, stale, orphaned>>

TransferFailed(c) ==
  /\ urb[c] = "flying"
  /\ Fault
  /\ urb' = [urb EXCEPT ![c] = "error"]
  /\ UNCHANGED <<BulkFlags, BulkOutPending, ring, mgmtVars, SelfIdx, resetVars, pc, ret,
                 at, idx, hold, scanning, NullInUse, histVars>>

Scheduled(c) ==
  /\ pc[c] = "idle" /\ urb[c] \in {"ok", "error"}
  /\ Cardinality({d \in Contexts : pc[d] # "idle"}) < TaskletCpus

\* What a failed transfer leaves behind, unless a reset is pending already.
RequestReset(c, id) ==
  IF urb[c] = "error" /\ ~BULKOUT_RESET
  THEN BULKOUT_RESET' = TRUE /\ bulkResetPipeid' = id
  ELSE UNCHANGED <<BULKOUT_RESET, bulkResetPipeid>>

FreePipe(c) ==
  /\ BulkOutPending' = [BulkOutPending EXCEPT ![Pipe(c)] = FALSE]
  /\ urb' = [urb EXCEPT ![c] = "idle"]

\* Mutant of EnqueueIfReset: the failure sets the flag and sends no command.
EnqueueNothing(c) == UNCHANGED cmds

\* RTUSBEnqueueInternalCmd of the reset, where the new failure asks for it.
EnqueueIfReset(c) ==
  cmds' = IF urb[c] = "error" /\ ~BULKOUT_RESET THEN cmds + 1 ELSE cmds

rtusb_dataout_complete(c) ==
  /\ c \in DataContexts /\ Scheduled(c)
  /\ FreePipe(c)
  /\ RequestReset(c, Pipe(c))
  /\ BulkFlags' = IF ring[Pipe(c)] > 0 THEN BulkFlags \cup {c} ELSE BulkFlags
  /\ Kick(c, "acdone")
  /\ UNCHANGED <<ring, mgmtVars, SelfIdx, cmds, at, idx, hold, envVars, bounds, histVars>>

\* The rest of the tasklet: any pending reset is asked for, by this pipe or
\* not; otherwise one more packet is fetched and bulk-out is kicked.
rtusb_ac_dma_done_tasklet(c) ==
  /\ pc[c] = "acdone"
  /\ IF BULKOUT_RESET
     THEN /\ cmds' = cmds + 1
          /\ Goto(c, "idle")
          /\ UNCHANGED <<ret, ring, BulkFlags, jobs>>
     ELSE /\ UNCHANGED cmds
          /\ \/ /\ BulkFlags' = BulkFlags \cup {c}
                /\ Kick(c, "idle")
                /\ UNCHANGED <<ring, jobs>>
             \/ /\ ~scanning /\ PutFrame(Pipe(c))
                /\ Kick(c, "acnormal")
  /\ UNCHANGED <<BulkOutPending, urb, mgmtVars, SelfIdx, BULKOUT_RESET, bulkResetPipeid,
                 at, idx, hold, envVars, faults, histVars>>

AcSetNormal(c) ==
  /\ pc[c] = "acnormal"
  /\ BulkFlags' = BulkFlags \cup {c}
  /\ Kick(c, "idle")
  /\ UNCHANGED <<BulkOutPending, urb, ring, mgmtVars, SelfIdx, resetVars, at, idx, hold,
                 envVars, bounds, histVars>>

rtusb_null_frame_done_tasklet ==
  /\ Scheduled(Null)
  /\ FreePipe(Null)
  /\ NullInUse' = FALSE
  /\ RequestReset(Null, MgmtReset)
  /\ EnqueueIfReset(Null)
  /\ IF urb[Null] = "ok" THEN RTMPDeQueuePacket(Null, "kick")
     ELSE Kick(Null, "idle") /\ UNCHANGED <<ring, BulkFlags, jobs>>
  /\ UNCHANGED <<mgmtVars, SelfIdx, at, idx, hold, scanning, faults, histVars>>

\* The PS-Poll tasklet fetches packets first and frees pipe 0 last.
rtusb_pspoll_frame_done_tasklet ==
  /\ Scheduled(PsPoll)
  /\ urb' = [urb EXCEPT ![PsPoll] = "closing"]
  /\ RequestReset(PsPoll, MgmtReset)
  /\ EnqueueIfReset(PsPoll)
  /\ IF urb[PsPoll] = "ok" THEN RTMPDeQueuePacket(PsPoll, "psfree")
     ELSE Goto(PsPoll, "psfree") /\ UNCHANGED <<ret, ring, BulkFlags, jobs>>
  /\ UNCHANGED <<BulkOutPending, mgmtVars, SelfIdx, at, idx, hold, envVars, faults, histVars>>

PsPollFree ==
  /\ pc[PsPoll] = "psfree"
  /\ FreePipe(PsPoll)
  /\ Kick(PsPoll, "idle")
  /\ UNCHANGED <<BulkFlags, ring, mgmtVars, SelfIdx, resetVars, at, idx, hold, envVars, bounds,
                 histVars>>

\* The management tasklet frees the pipe first, the cell after.
rtusb_mgmt_dma_done_tasklet ==
  /\ Scheduled(Mlme)
  /\ RequestReset(Mlme, MgmtReset)
  /\ FreePipe(Mlme)
  /\ idx' = [idx EXCEPT ![Mlme] = SelfIdx]
  /\ Goto(Mlme, "mgmtfree")
  /\ UNCHANGED <<BulkFlags, ring, mgmtVars, SelfIdx, cmds, ret, at, hold, envVars, bounds, histVars>>

\* Mutant of FreeCells: the cell is not counted as free again.
FreeCellsUncounted == TxSwFreeIdx

FreeCells == (TxSwFreeIdx + 1) % UintMod

MgmtFree ==
  LET i == idx[Mlme] IN
  /\ pc[Mlme] = "mgmtfree"
  /\ InUse' = InUse \ {i}
  /\ bWaitingBulkOut' = bWaitingBulkOut \ {i}
  /\ TxDmaIdx' = Inc(TxDmaIdx)
  /\ TxSwFreeIdx' = FreeCells
  /\ IF BULKOUT_RESET /\ bulkResetPipeid = MgmtReset
     THEN cmds' = cmds + 1 /\ Goto(Mlme, "idle") /\ UNCHANGED <<BulkFlags, ret>>
     ELSE /\ UNCHANGED cmds
          /\ BulkFlags' = IF FreeCells < MGMT_RING_SIZE
                          THEN BulkFlags \cup {Mlme} ELSE BulkFlags
          /\ Kick(Mlme, "idle")
  /\ idx' = [idx EXCEPT ![Mlme] = 0]
  /\ UNCHANGED <<BulkOutPending, urb, ring, TxCpuIdx, SelfIdx, BULKOUT_RESET,
                 bulkResetPipeid, at, hold, envVars, bounds, histVars>>

----------------------------------------------------------------------------
(* CMDTHREAD_RESET_BULK_OUT in the command thread.  A failed management     *)
(* transfer is given up; a failed data transfer is submitted again.         *)

ResetMgmt ==
  /\ pc[Cmd] = "idle" /\ cmds > 0 /\ bulkResetPipeid = MgmtReset
  /\ cmds' = cmds - 1
  /\ BULKOUT_RESET' = FALSE
  /\ BulkFlags' = IF TxSwFreeIdx < MGMT_RING_SIZE THEN BulkFlags \cup {Mlme} ELSE BulkFlags
  /\ Kick(Cmd, "idle")
  /\ UNCHANGED <<BulkOutPending, urb, ring, mgmtVars, SelfIdx, bulkResetPipeid, at, idx,
                 hold, envVars, bounds, histVars>>

ResetData ==
  LET p == bulkResetPipeid IN
  /\ pc[Cmd] = "idle" /\ cmds > 0 /\ p # MgmtReset
  /\ cmds' = cmds - 1
  /\ BULKOUT_RESET' = FALSE
  /\ IF BulkOutPending[p]
     THEN /\ BulkFlags' = BulkFlags \cup {<<"data", p>>}
          /\ Goto(Cmd, "dequeue")
          /\ UNCHANGED <<BulkOutPending, hold, at>>
     ELSE /\ Claim(Cmd, <<"data", p>>)
          /\ at' = [at EXCEPT ![Cmd] = p]
          /\ Goto(Cmd, "resubmit")
          /\ UNCHANGED BulkFlags
  /\ UNCHANGED <<urb, ring, mgmtVars, SelfIdx, bulkResetPipeid, ret, idx, envVars, bounds, histVars>>

ResubmitOk ==
  /\ pc[Cmd] = "resubmit"
  /\ HandOver(Cmd)
  /\ Goto(Cmd, "dequeue")
  /\ UNCHANGED <<BulkFlags, BulkOutPending, ring, mgmtVars, SelfIdx, resetVars, ret, at,
                 idx, envVars, bounds, histVars>>

\* The URB is refused.  The pipe that is freed is the one bulkResetPipeid
\* names by now; 128 is outside the array.
ResubmitFail ==
  LET p == Pipe(hold[Cmd]) IN
  /\ pc[Cmd] = "resubmit"
  /\ BulkOutPending' = IF bulkResetPipeid \in Pipes
                       THEN [BulkOutPending EXCEPT ![bulkResetPipeid] = FALSE]
                       ELSE BulkOutPending
  /\ hold' = [hold EXCEPT ![Cmd] = None]
  /\ orphaned' = IF bulkResetPipeid = p THEN orphaned ELSE orphaned \cup {p}
  /\ Goto(Cmd, "dequeue")
  /\ UNCHANGED <<BulkFlags, urb, ring, mgmtVars, SelfIdx, resetVars, ret, at, idx, envVars,
                 bounds, stale, delivered>>

ResetDeQueue ==
  /\ pc[Cmd] = "dequeue"
  /\ RTMPDeQueuePacket(Cmd, "idle")
  /\ at' = [at EXCEPT ![Cmd] = 0]
  /\ UNCHANGED <<BulkOutPending, urb, mgmtVars, SelfIdx, resetVars, idx, hold, envVars, faults,
                 histVars>>

\* A scan starts and ends.
Scan ==
  /\ scanning \/ MayScan
  /\ scanning' = ~scanning
  /\ UNCHANGED <<BulkFlags, BulkOutPending, urb, ring, mgmtVars, SelfIdx, resetVars, pc, ret,
                 at, idx, hold, NullInUse, bounds, histVars>>

----------------------------------------------------------------------------
Job(t) ==
  \/ DataKickOut(t) \/ RtmpUSBNullFrameKickOut(t) \/ PsPollEnqueue(t)
  \/ MiniportMMRequest(t)

KickStep(a) ==
  \/ RTUSBKickBulkOut(a) \/ KickData(a)
  \/ RTUSBBulkOutDataPacket(a) \/ BulkOutRing(a) \/ BulkOutEmpty(a)
  \/ RTUSBBulkOutPsPoll(a) \/ RTUSBBulkOutNullFrame(a)
  \/ RTUSBBulkOutMLMEPacket(a) \/ BulkOutMLMEClaim(a)
  \/ SubmitOk(a) \/ SubmitFail(a)
  \/ RtmpUSBMgmtKickOut(a)

TaskletStep(c) ==
  \/ rtusb_dataout_complete(c) \/ rtusb_ac_dma_done_tasklet(c) \/ AcSetNormal(c)
  \/ c = Null /\ rtusb_null_frame_done_tasklet
  \/ c = PsPoll /\ (rtusb_pspoll_frame_done_tasklet \/ PsPollFree)
  \/ c = Mlme /\ (rtusb_mgmt_dma_done_tasklet \/ MgmtFree)

CmdStep == ResetMgmt \/ ResetData \/ ResubmitOk \/ ResubmitFail \/ ResetDeQueue

\* What an actor does of its own accord.
Step(a) ==
  \/ KickStep(a)
  \/ a \in Contexts /\ TaskletStep(a)
  \/ a = Cmd /\ CmdStep

Next ==
  \/ \E t \in {"task"} \X Tasks : Job(t)
  \/ \E a \in Actors : Step(a)
  \/ \E c \in Contexts : Transferred(c) \/ TransferFailed(c)
  \/ Scan

\* The kernel runs its threads and tasklets, and the host controller ends what
\* it was given; nothing makes a task send a frame or a scan begin or end.
Fairness ==
  /\ \A a \in Actors : WF_vars(Step(a))
  /\ \A c \in Contexts : WF_vars(Transferred(c) \/ TransferFailed(c))

Spec == Init /\ [][Next]_vars /\ Fairness

----------------------------------------------------------------------------
(* Properties. *)

PcOf == {"idle", "kick", "data", "dataclaim", "ring", "empty", "pspoll", "null", "mlme",
         "mlmeclaim", "submit", "mgmtput", "acdone", "acnormal", "psfree", "mgmtfree",
         "resubmit", "dequeue"}

\* The variables have their types.
TypeOK ==
  /\ BulkFlags \subseteq Contexts
  /\ BulkOutPending \in [Pipes -> BOOLEAN]
  /\ BULKOUT_RESET \in BOOLEAN /\ bulkResetPipeid \in Pipes \cup {MgmtReset}
  /\ urb \in [Contexts -> {"idle", "flying", "ok", "error", "closing"}]
  /\ ring \in [Pipes -> 0..RingCap]
  /\ scanning \in BOOLEAN /\ NullInUse \in BOOLEAN
  /\ InUse \subseteq Cells /\ bWaitingBulkOut \subseteq Cells
  /\ TxCpuIdx \in Cells /\ TxDmaIdx \in Cells /\ SelfIdx \in Cells
  /\ TxSwFreeIdx \in 0..(UintMod - 1)
  /\ cmds \in Nat
  /\ pc \in [Actors -> PcOf]
  /\ ret \in [Actors -> {"idle", "kick", "unlock", "acdone", "acnormal", "psfree"}]
  /\ at \in [Actors -> Pipes] /\ idx \in [Actors -> Cells]
  /\ hold \in [Actors -> Contexts \cup {None}]
  /\ jobs \in 0..MaxJobs /\ faults \in 0..MaxFaults /\ stale \in BOOLEAN /\ orphaned \subseteq Pipes
  /\ delivered \in [Pipes -> {"no", "once", "twice"}]

\* The users of pipe p: the actors that claimed it and have not yet handed an
\* URB over, and the contexts whose URB is out or whose tasklet has not yet
\* freed the pipe.
Claimants(p) == {a \in Actors : hold[a] # None /\ Pipe(hold[a]) = p}
Outstanding(p) == {c \in Contexts : urb[c] # "idle" /\ Pipe(c) = p}

\* However the kicks of tasks, tasklets and the reset command interleave, a
\* pipe has at most one user, and BulkOutPending is set while it has one.
OneUserPerPipe ==
  \A p \in Pipes :
    /\ \A a, b \in Claimants(p) : a = b
    /\ \A c, d \in Outstanding(p) : c = d
    /\ Claimants(p) = {} \/ Outstanding(p) = {}
    /\ Claimants(p) \cup Outstanding(p) # {} => BulkOutPending[p]

\* A pipe marked pending has a user that will free it, so it is never blocked
\* for good, but for a reset that was refused after a second failure had
\* changed bulkResetPipeid.
PendingHasUser ==
  \A p \in Pipes : BulkOutPending[p] =>
    Claimants(p) \cup Outstanding(p) # {} \/ p \in orphaned

\* Until a cell is claimed or filled out of turn, TxSwFreeIdx counts the free
\* cells, the cells in use run from TxDmaIdx to TxCpuIdx, and only the first
\* may be on its way out.
MgmtRingConsistent ==
  ~stale =>
    LET used == MGMT_RING_SIZE - TxSwFreeIdx IN
    /\ TxSwFreeIdx <= MGMT_RING_SIZE
    /\ TxCpuIdx = (TxDmaIdx + used) % MGMT_RING_SIZE
    /\ InUse = {(TxDmaIdx + i) % MGMT_RING_SIZE : i \in 0..(used - 1)}
    /\ bWaitingBulkOut \subseteq InUse /\ InUse \subseteq bWaitingBulkOut \cup {TxDmaIdx}

\* ASSERT((pAd->MgmtRing.TxDmaIdx == index)) at the head of
\* rtusb_mgmt_dma_done_tasklet: management frames complete in ring order.
CompletesInOrder == Scheduled(Mlme) => TxDmaIdx = SelfIdx

\* RESET_BULK_OUT submits the transfer "for failed BulkReq": a transfer that
\* was delivered is not sent again.
NoDuplicateTransfer == \A p \in Pipes : delivered[p] # "twice"

\* A pending reset ends: while it lasts every pipe is stopped.
ResetEnds == BULKOUT_RESET ~> ~BULKOUT_RESET

\* RtmpUSBDataKickOut: a frame in the ring is ready for bulk-out and is kicked
\* out, with no failure, no scan and no further traffic to help it.
ReadyFrameIsSent ==
  \A p \in Pipes :
    [](ring[p] > 0 => <>(ring[p] = 0 \/ scanning \/ faults > 0))
=============================================================================

--------------------------- MODULE BulkOutProofs ---------------------------
(***************************************************************************)
(* Proofs about the bulk-out arbiter: its type invariant, that a pipe has   *)
(* at most one user and is pending only for that user, and that the         *)
(* counters of the management ring agree with its cells, for any number of  *)
(* tasks, tasklets and management cells.                                    *)
(***************************************************************************)
EXTENDS BulkOut, TLAPS

\* The sets of contexts and actors, and the pipe of a context.
LEMMA ContextFacts ==
  /\ \A c \in Contexts : Pipe(c) \in Pipes /\ c \in Actors
  /\ \A p \in Pipes : <<"data", p>> \in Contexts /\ Pipe(<<"data", p>>) = p
  /\ \A c \in DataContexts : c = <<"data", Pipe(c)>>
  /\ {Mlme, Null, PsPoll} \subseteq Contexts /\ DataContexts \subseteq Contexts
  /\ Pipe(Mlme) = 0 /\ Pipe(Null) = 0 /\ Pipe(PsPoll) = 0 /\ 0 \in Pipes
  /\ None \notin Contexts /\ Cmd \notin Contexts /\ Cmd \in Actors
  /\ {"task"} \X Tasks \subseteq Actors
  /\ {Mlme, Null, PsPoll} \cap DataContexts = {}
  /\ Mlme # Null /\ Mlme # PsPoll /\ Null # PsPoll
  /\ MgmtReset \notin Pipes
BY BulkOutAssumption, SMT DEF Contexts, DataContexts, Pipe, Mlme, Null, PsPoll, None, Cmd,
   Actors, Pipes, MgmtReset

LEMMA CellFacts ==
  /\ 0 \in Cells
  /\ \A i \in Cells : Inc(i) \in Cells
  /\ \A n \in 0..(UintMod - 1) : (n + 1) % UintMod \in 0..(UintMod - 1)
                              /\ (n - 1) % UintMod \in 0..(UintMod - 1)
  /\ MGMT_RING_SIZE \in 0..(UintMod - 1)
<1>1. MGMT_RING_SIZE \in Nat /\ MGMT_RING_SIZE > 0 /\ UintMod \in Nat /\ UintMod > 0
      /\ MGMT_RING_SIZE < UintMod
  BY BulkOutAssumption
<1>. QED BY <1>1, SMT DEF Cells, Inc

----------------------------------------------------------------------------
(* Type correctness, first of what the shared steps change. *)

CtlOK ==
  /\ pc \in [Actors -> PcOf]
  /\ ret \in [Actors -> {"idle", "kick", "unlock", "acdone", "acnormal", "psfree"}]
  /\ at \in [Actors -> Pipes]
ClaimOK ==
  /\ BulkOutPending \in [Pipes -> BOOLEAN]
  /\ hold \in [Actors -> Contexts \cup {None}]
UrbOK == urb \in [Contexts -> {"idle", "flying", "ok", "error", "closing"}]
ResetOK ==
  /\ BULKOUT_RESET \in BOOLEAN
  /\ bulkResetPipeid \in Pipes \cup {MgmtReset}

LEMMA PastTypes ==
  ASSUME CtlOK, NEW a \in Actors, Leave(a) \/ ToData(a) \/ Past(a)
  PROVE  CtlOK'
<1>1. 0 \in Pipes
  BY ContextFacts
<1>2. ASSUME Leave(a) PROVE CtlOK'
  BY <1>1, <1>2 DEF CtlOK, Leave, Goto, PcOf
<1>3. ASSUME ToData(a) PROVE CtlOK'
  BY <1>1, <1>3 DEF CtlOK, ToData, Goto, PcOf
<1>4. ASSUME Past(a), at[a] < LastPipe PROVE CtlOK'
  <2>1. at[a] + 1 \in Pipes
    BY <1>4, BulkOutAssumption DEF CtlOK, Pipes
  <2>. QED BY <2>1, <1>4 DEF CtlOK, Past, Goto, PcOf
<1>. QED BY <1>2, <1>3, <1>4 DEF Past

LEMMA GotoTypes ==
  ASSUME CtlOK, NEW a \in Actors, NEW l \in PcOf, Goto(a, l), UNCHANGED <<ret, at>>
  PROVE  CtlOK'
BY DEF CtlOK, Goto

LEMMA KickTypes ==
  ASSUME CtlOK, NEW a \in Actors, UNCHANGED at,
         NEW l \in {"idle", "kick", "unlock", "acdone", "acnormal", "psfree"}, Kick(a, l)
  PROVE  CtlOK'
BY DEF CtlOK, Kick, Goto, PcOf

LEMMA ClaimTypes ==
  ASSUME ClaimOK, NEW a \in Actors, NEW c \in Contexts, Claim(a, c) \/ Release(a)
  PROVE  ClaimOK'
<1>1. CASE Claim(a, c)
  <2>1. Pipe(c) \in Pipes
    BY ContextFacts
  <2>2. BulkOutPending' \in [Pipes -> BOOLEAN]
    BY <1>1, <2>1 DEF ClaimOK, Claim
  <2>3. hold' \in [Actors -> Contexts \cup {None}]
    BY <1>1 DEF ClaimOK, Claim
  <2>. QED BY <2>2, <2>3 DEF ClaimOK
<1>2. CASE Release(a)
  BY <1>2 DEF ClaimOK, Release
<1>. QED BY <1>1, <1>2

LEMMA HandOverTypes ==
  ASSUME ClaimOK, UrbOK, NEW a \in Actors, HandOver(a), UNCHANGED BulkOutPending
  PROVE  ClaimOK' /\ UrbOK'
BY DEF ClaimOK, UrbOK, HandOver

LEMMA FreePipeTypes ==
  ASSUME ClaimOK, UrbOK, NEW c \in Contexts, FreePipe(c), UNCHANGED hold
  PROVE  ClaimOK' /\ UrbOK'
BY DEF ClaimOK, UrbOK, FreePipe

LEMMA RequestResetTypes ==
  ASSUME ResetOK, NEW c \in Contexts, NEW id \in Pipes \cup {MgmtReset},
         RequestReset(c, id)
  PROVE  ResetOK'
BY DEF ResetOK, RequestReset

\* The rest of TypeOK.
DataOK ==
  /\ BulkFlags \subseteq Contexts
  /\ ring \in [Pipes -> 0..RingCap]
  /\ scanning \in BOOLEAN /\ NullInUse \in BOOLEAN
  /\ cmds \in Nat
  /\ jobs \in 0..MaxJobs /\ faults \in 0..MaxFaults
  /\ orphaned \subseteq Pipes /\ delivered \in [Pipes -> {"no", "once", "twice"}]
MgmtOK ==
  /\ InUse \subseteq Cells /\ bWaitingBulkOut \subseteq Cells
  /\ TxCpuIdx \in Cells /\ TxDmaIdx \in Cells /\ SelfIdx \in Cells
  /\ TxSwFreeIdx \in 0..(UintMod - 1)
  /\ idx \in [Actors -> Cells]
  /\ stale \in BOOLEAN

LEMMA TypeParts ==
  /\ TypeOK => CtlOK /\ ClaimOK /\ UrbOK /\ ResetOK /\ DataOK /\ MgmtOK
  /\ CtlOK' /\ ClaimOK' /\ UrbOK' /\ ResetOK' /\ DataOK' /\ MgmtOK' => TypeOK'
BY DEF TypeOK, CtlOK, ClaimOK, UrbOK, ResetOK, DataOK, MgmtOK

LEMMA TypeKick ==
  ASSUME TypeOK, NEW a \in Actors, KickStep(a)
  PROVE  TypeOK'
<1>. CtlOK /\ ClaimOK /\ UrbOK /\ ResetOK /\ DataOK /\ MgmtOK
  BY TypeParts
<1>1. CASE RTUSBKickBulkOut(a)
  <2>1. CtlOK'
    BY <1>1, PastTypes DEF CtlOK, Goto, RTUSBKickBulkOut, PcOf
  <2>2. ClaimOK' /\ UrbOK' /\ ResetOK' /\ DataOK' /\ MgmtOK'
    BY <1>1 DEF RTUSBKickBulkOut, ClaimOK, UrbOK, ResetOK, DataOK, MgmtOK, envVars, bounds, histVars, mgmtVars, resetVars
  <2>. QED BY <2>1, <2>2, TypeParts
<1>2. CASE KickData(a)
  <2>1. CtlOK'
    BY <1>2, PastTypes DEF CtlOK, Goto, KickData, PcOf
  <2>2. ClaimOK' /\ UrbOK' /\ ResetOK' /\ DataOK' /\ MgmtOK'
    BY <1>2 DEF KickData, ClaimOK, UrbOK, ResetOK, DataOK, MgmtOK, envVars, bounds, histVars, mgmtVars, resetVars
  <2>. QED BY <2>1, <2>2, TypeParts
<1>3. CASE RTUSBBulkOutDataPacket(a)
  <2>1. CtlOK'
    BY <1>3, PastTypes DEF CtlOK, Goto, RTUSBBulkOutDataPacket, PcOf
  <2>2. ClaimOK'
    BY <1>3, ClaimTypes, ContextFacts DEF ClaimOK, RTUSBBulkOutDataPacket, CtlOK
  <2>3. UrbOK' /\ ResetOK' /\ DataOK' /\ MgmtOK'
    BY <1>3 DEF RTUSBBulkOutDataPacket, UrbOK, ResetOK, DataOK, MgmtOK, envVars, bounds, histVars, mgmtVars, resetVars
  <2>. QED BY <2>1, <2>2, <2>3, TypeParts
<1>4. CASE BulkOutRing(a)
  <2>1. CtlOK'
    BY <1>4, PastTypes DEF CtlOK, Goto, BulkOutRing, PcOf
  <2>2. DataOK'
    <3>1. at[a] \in Pipes
      BY DEF CtlOK
    <3>2. ring' \in [Pipes -> 0..RingCap]
      <4>1. CASE ring[at[a]] = 0
        BY <1>4, <4>1 DEF BulkOutRing, DataOK
      <4>2. CASE ring[at[a]] # 0
        <5>1. PICK k \in 1..ring[at[a]] : ring' = [ring EXCEPT ![at[a]] = @ - k]
          BY <1>4, <4>2 DEF BulkOutRing
        <5>2. ring[at[a]] - k \in 0..RingCap
          BY <3>1, BulkOutAssumption DEF DataOK
        <5>. QED BY <5>1, <5>2 DEF DataOK
      <4>. QED BY <4>1, <4>2
    <3>3. BulkFlags' \subseteq Contexts /\ delivered' \in [Pipes -> {"no", "once", "twice"}]
      BY <1>4 DEF BulkOutRing, DataOK
    <3>. QED BY <1>4, <3>2, <3>3 DEF BulkOutRing, DataOK, resetVars, envVars, bounds
  <2>3. ClaimOK' /\ UrbOK' /\ ResetOK' /\ MgmtOK'
    BY <1>4 DEF BulkOutRing, ClaimOK, UrbOK, ResetOK, MgmtOK, envVars, bounds, histVars, mgmtVars, resetVars
  <2>. QED BY <2>1, <2>2, <2>3, TypeParts
<1>5. CASE BulkOutEmpty(a)
  <2>1. CtlOK'
    BY <1>5, PastTypes DEF CtlOK, Goto, BulkOutEmpty, PcOf
  <2>2. ClaimOK'
    BY <1>5, ClaimTypes, ContextFacts DEF ClaimOK, BulkOutEmpty
  <2>3. DataOK'
    BY <1>5 DEF BulkOutEmpty, DataOK, resetVars, envVars, bounds, histVars
  <2>4. UrbOK' /\ ResetOK' /\ MgmtOK'
    BY <1>5 DEF BulkOutEmpty, UrbOK, ResetOK, MgmtOK, envVars, bounds, histVars, mgmtVars, resetVars
  <2>. QED BY <2>1, <2>2, <2>3, <2>4, TypeParts
<1>6. CASE RTUSBBulkOutPsPoll(a)
  <2>1. CtlOK'
    BY <1>6, PastTypes DEF CtlOK, Goto, RTUSBBulkOutPsPoll, PcOf
  <2>2. ClaimOK'
    BY <1>6, ClaimTypes, ContextFacts DEF ClaimOK, RTUSBBulkOutPsPoll
  <2>3. UrbOK' /\ ResetOK' /\ DataOK' /\ MgmtOK'
    BY <1>6 DEF RTUSBBulkOutPsPoll, UrbOK, ResetOK, DataOK, MgmtOK, envVars, bounds, histVars, mgmtVars, resetVars
  <2>. QED BY <2>1, <2>2, <2>3, TypeParts
<1>7. CASE RTUSBBulkOutNullFrame(a)
  <2>1. CtlOK'
    BY <1>7, PastTypes DEF CtlOK, Goto, RTUSBBulkOutNullFrame, PcOf
  <2>2. ClaimOK'
    BY <1>7, ClaimTypes, ContextFacts DEF ClaimOK, RTUSBBulkOutNullFrame
  <2>3. UrbOK' /\ ResetOK' /\ DataOK' /\ MgmtOK'
    BY <1>7 DEF RTUSBBulkOutNullFrame, UrbOK, ResetOK, DataOK, MgmtOK, envVars, bounds, histVars, mgmtVars, resetVars
  <2>. QED BY <2>1, <2>2, <2>3, TypeParts
<1>8. CASE RTUSBBulkOutMLMEPacket(a)
  <2>1. CtlOK'
    BY <1>8, PastTypes DEF CtlOK, Goto, RTUSBBulkOutMLMEPacket, PcOf
  <2>2. ClaimOK' /\ UrbOK' /\ ResetOK' /\ DataOK' /\ MgmtOK'
    BY <1>8 DEF RTUSBBulkOutMLMEPacket, ClaimOK, UrbOK, ResetOK, DataOK, MgmtOK, envVars, bounds, histVars, mgmtVars, resetVars
  <2>. QED BY <2>1, <2>2, TypeParts
<1>9. CASE BulkOutMLMEClaim(a)
  <2>1. CtlOK'
    BY <1>9, PastTypes DEF CtlOK, Goto, BulkOutMLMEClaim, PcOf
  <2>2. ClaimOK'
    BY <1>9, ClaimTypes, ContextFacts DEF ClaimOK, BulkOutMLMEClaim
  <2>3. MgmtOK'
    <3>1. stale' \in BOOLEAN
      BY <1>9, Zenon DEF BulkOutMLMEClaim, MgmtOK
    <3>. QED BY <1>9, <3>1, CellFacts DEF BulkOutMLMEClaim, MgmtOK
  <2>4. UrbOK' /\ ResetOK' /\ DataOK'
    BY <1>9 DEF BulkOutMLMEClaim, UrbOK, ResetOK, DataOK, envVars, bounds, histVars, mgmtVars, resetVars
  <2>. QED BY <2>1, <2>2, <2>3, <2>4, TypeParts
<1>10. CASE SubmitOk(a)
  <2>1. CtlOK'
    BY <1>10, PastTypes DEF SubmitOk, AfterSubmit
  <2>2. ClaimOK'
    BY <1>10, HandOverTypes DEF SubmitOk
  <2>3. UrbOK'
    BY <1>10, HandOverTypes DEF SubmitOk
  <2>4. DataOK'
    BY <1>10 DEF SubmitOk, DataOK, ClearFixedFlag, resetVars, envVars, bounds, histVars
  <2>5. MgmtOK'
    BY <1>10, CellFacts DEF SubmitOk, MgmtOK, mgmtVars, histVars
  <2>6. ResetOK'
    BY <1>10 DEF SubmitOk, ResetOK, envVars, bounds, histVars, mgmtVars, resetVars
  <2>. QED BY <2>1, <2>2, <2>3, <2>4, <2>5, <2>6, TypeParts
<1>11. CASE SubmitFail(a)
  <2>1. CtlOK'
    BY <1>11, PastTypes DEF SubmitFail, AfterSubmit
  <2>2. ClaimOK'
    BY <1>11, ClaimTypes, ContextFacts DEF ClaimOK, SubmitFail
  <2>3. DataOK'
    <3>1. BulkFlags' \subseteq Contexts
      BY <1>11 DEF SubmitFail, DataOK, ClearFixedFlag
    <3>2. jobs' \in 0..MaxJobs /\ faults' \in 0..MaxFaults
      BY <1>11, BulkOutAssumption DEF SubmitFail, DataOK, Fault
    <3>. QED BY <1>11, <3>1, <3>2 DEF SubmitFail, DataOK, resetVars, histVars
  <2>4. MgmtOK'
    BY <1>11, CellFacts DEF SubmitFail, MgmtOK, histVars
  <2>5. UrbOK' /\ ResetOK'
    BY <1>11 DEF SubmitFail, UrbOK, ResetOK, envVars, bounds, histVars, mgmtVars, resetVars
  <2>. QED BY <2>1, <2>2, <2>3, <2>4, <2>5, TypeParts
<1>12. CASE RtmpUSBMgmtKickOut(a)
  <2>1. CtlOK'
    BY <1>12, KickTypes DEF RtmpUSBMgmtKickOut
  <2>2. DataOK'
    BY <1>12, ContextFacts DEF RtmpUSBMgmtKickOut, DataOK, envVars, bounds, resetVars
  <2>3. MgmtOK'
    <3>1. stale' \in BOOLEAN
      BY <1>12, Zenon DEF RtmpUSBMgmtKickOut, MgmtOK
    <3>. QED BY <1>12, <3>1, CellFacts DEF RtmpUSBMgmtKickOut, MgmtOK
  <2>4. ClaimOK' /\ UrbOK' /\ ResetOK'
    BY <1>12 DEF RtmpUSBMgmtKickOut, ClaimOK, UrbOK, ResetOK, envVars, bounds, histVars, mgmtVars, resetVars
  <2>. QED BY <2>1, <2>2, <2>3, <2>4, TypeParts
<1>. QED BY <1>1, <1>2, <1>3, <1>4, <1>5, <1>6, <1>7, <1>8, <1>9, <1>10, <1>11, <1>12 DEF KickStep

LEMMA PutFrameTypes ==
  ASSUME DataOK, NEW p \in Pipes, PutFrame(p)
  PROVE  /\ ring' \in [Pipes -> 0..RingCap]
         /\ BulkFlags' \subseteq Contexts
         /\ jobs' \in 0..MaxJobs
<1>1. jobs' \in 0..MaxJobs
  BY BulkOutAssumption DEF DataOK, PutFrame, Counted
<1>2. ring[p] + 1 \in 0..RingCap
  BY BulkOutAssumption DEF DataOK, PutFrame
<1>3. ring' \in [Pipes -> 0..RingCap]
  BY <1>2 DEF DataOK, PutFrame
<1>. QED BY <1>1, <1>3, ContextFacts DEF DataOK, PutFrame

\* The parts of TypeOK that RTMPDeQueuePacket changes.
LEMMA DeQueueTypes ==
  ASSUME CtlOK, DataOK, NEW a \in Actors, NEW l \in {"idle", "kick", "psfree"},
         RTMPDeQueuePacket(a, l)
  PROVE  /\ pc' \in [Actors -> PcOf]
         /\ ret' \in [Actors -> {"idle", "kick", "unlock", "acdone", "acnormal", "psfree"}]
         /\ ring' \in [Pipes -> 0..RingCap]
         /\ BulkFlags' \subseteq Contexts
         /\ jobs' \in 0..MaxJobs
<1>1. /\ pc' \in [Actors -> PcOf]
      /\ ret' \in [Actors -> {"idle", "kick", "unlock", "acdone", "acnormal", "psfree"}]
  BY DEF RTMPDeQueuePacket, CtlOK, Kick, Goto, PcOf
<1>2. CASE \E p \in Pipes : PutFrame(p)
  BY <1>1, <1>2, PutFrameTypes
<1>3. CASE UNCHANGED <<ring, BulkFlags, jobs>>
  BY <1>1, <1>3 DEF DataOK
<1>. QED BY <1>2, <1>3 DEF RTMPDeQueuePacket

LEMMA TypeJob ==
  ASSUME TypeOK, NEW t \in {"task"} \X Tasks, Job(t)
  PROVE  TypeOK'
<1>. CtlOK /\ ClaimOK /\ UrbOK /\ ResetOK /\ DataOK /\ MgmtOK
  BY TypeParts
<1>1. CASE DataKickOut(t)
  <2>1. CtlOK'
    BY <1>1, KickTypes, ContextFacts DEF DataKickOut, Starts, Scheduled
  <2>2. DataOK'
    <3>1. PICK p \in Pipes : PutFrame(p)
      BY <1>1 DEF DataKickOut
    <3>. QED BY <1>1, <3>1, PutFrameTypes DEF DataKickOut, DataOK, resetVars, envVars, histVars
  <2>3. ClaimOK' /\ UrbOK' /\ ResetOK' /\ MgmtOK'
    BY <1>1 DEF DataKickOut, ClaimOK, UrbOK, ResetOK, MgmtOK,
       envVars, bounds, histVars, mgmtVars, resetVars
  <2>. QED BY <2>1, <2>2, <2>3, TypeParts
<1>2. CASE RtmpUSBNullFrameKickOut(t)
  <2>1. CtlOK'
    BY <1>2, KickTypes, ContextFacts DEF RtmpUSBNullFrameKickOut, Starts, Scheduled
  <2>2. DataOK'
    <3>1. jobs' \in 0..MaxJobs
      BY <1>2, BulkOutAssumption DEF RtmpUSBNullFrameKickOut, DataOK, Counted
    <3>. QED BY <1>2, <3>1, ContextFacts DEF RtmpUSBNullFrameKickOut, DataOK, resetVars, envVars, histVars
  <2>3. ClaimOK' /\ UrbOK' /\ ResetOK' /\ MgmtOK'
    BY <1>2 DEF RtmpUSBNullFrameKickOut, ClaimOK, UrbOK, ResetOK, MgmtOK,
       envVars, bounds, histVars, mgmtVars, resetVars
  <2>. QED BY <2>1, <2>2, <2>3, TypeParts
<1>3. CASE PsPollEnqueue(t)
  <2>1. CtlOK'
    BY <1>3, KickTypes, ContextFacts DEF PsPollEnqueue, Starts, Scheduled
  <2>2. DataOK'
    <3>1. jobs' \in 0..MaxJobs
      BY <1>3, BulkOutAssumption DEF PsPollEnqueue, DataOK, Counted
    <3>. QED BY <1>3, <3>1, ContextFacts DEF PsPollEnqueue, DataOK, resetVars, envVars, histVars
  <2>3. ClaimOK' /\ UrbOK' /\ ResetOK' /\ MgmtOK'
    BY <1>3 DEF PsPollEnqueue, ClaimOK, UrbOK, ResetOK, MgmtOK,
       envVars, bounds, histVars, mgmtVars, resetVars
  <2>. QED BY <2>1, <2>2, <2>3, TypeParts
<1>4. CASE MiniportMMRequest(t)
  <2>1. CtlOK'
    BY <1>4, ContextFacts DEF MiniportMMRequest, CtlOK, Goto, PcOf
  <2>2. DataOK'
    <3>1. jobs' \in 0..MaxJobs
      BY <1>4, BulkOutAssumption DEF MiniportMMRequest, DataOK, Counted
    <3>. QED BY <1>4, <3>1, ContextFacts DEF MiniportMMRequest, DataOK, resetVars, envVars, histVars
  <2>3. ClaimOK' /\ UrbOK' /\ ResetOK' /\ MgmtOK'
    BY <1>4 DEF MiniportMMRequest, ClaimOK, UrbOK, ResetOK, MgmtOK,
       envVars, bounds, histVars, mgmtVars, resetVars
  <2>. QED BY <2>1, <2>2, <2>3, TypeParts
<1>. QED BY <1>1, <1>2, <1>3, <1>4 DEF Job

LEMMA TypeTasklet ==
  ASSUME TypeOK, NEW c \in Contexts, TaskletStep(c)
  PROVE  TypeOK'
<1>. CtlOK /\ ClaimOK /\ UrbOK /\ ResetOK /\ DataOK /\ MgmtOK
  BY TypeParts
<1>1. CASE rtusb_dataout_complete(c)
  <2>1. CtlOK'
    BY <1>1, KickTypes, ContextFacts DEF rtusb_dataout_complete, Starts, Scheduled
  <2>2. ClaimOK'
    BY <1>1, FreePipeTypes, ContextFacts DEF rtusb_dataout_complete
  <2>3. UrbOK'
    BY <1>1, FreePipeTypes, ContextFacts DEF rtusb_dataout_complete
  <2>4. ResetOK'
    BY <1>1, RequestResetTypes, ContextFacts DEF rtusb_dataout_complete
  <2>5. DataOK'
    BY <1>1 DEF rtusb_dataout_complete, DataOK, envVars, bounds, histVars
  <2>6. MgmtOK'
    BY <1>1 DEF rtusb_dataout_complete, MgmtOK,
       envVars, bounds, histVars, mgmtVars, resetVars
  <2>. QED BY <2>1, <2>2, <2>3, <2>4, <2>5, <2>6, TypeParts
<1>2. CASE rtusb_ac_dma_done_tasklet(c)
  <2>1. CtlOK'
    BY <1>2, ContextFacts DEF rtusb_ac_dma_done_tasklet, CtlOK, Kick, Goto, PcOf
  <2>2. DataOK'
    <3>1. CASE \E p \in Pipes : PutFrame(p)
      BY <1>2, <3>1, PutFrameTypes DEF rtusb_ac_dma_done_tasklet, DataOK, envVars, histVars
    <3>2. CASE UNCHANGED <<ring, jobs>> /\ BulkFlags' \subseteq Contexts
      BY <1>2, <3>2 DEF rtusb_ac_dma_done_tasklet, DataOK, envVars, histVars
    <3>. QED BY <1>2, <3>1, <3>2, ContextFacts DEF rtusb_ac_dma_done_tasklet, DataOK
  <2>3. ClaimOK' /\ UrbOK' /\ ResetOK' /\ MgmtOK'
    BY <1>2 DEF rtusb_ac_dma_done_tasklet, ClaimOK, UrbOK, ResetOK, MgmtOK,
       envVars, bounds, histVars, mgmtVars, resetVars
  <2>. QED BY <2>1, <2>2, <2>3, TypeParts
<1>3. CASE AcSetNormal(c)
  <2>1. CtlOK'
    BY <1>3, KickTypes, ContextFacts DEF AcSetNormal, Starts, Scheduled
  <2>2. DataOK'
    BY <1>3 DEF AcSetNormal, DataOK, resetVars, envVars, bounds, histVars
  <2>3. ClaimOK' /\ UrbOK' /\ ResetOK' /\ MgmtOK'
    BY <1>3 DEF AcSetNormal, ClaimOK, UrbOK, ResetOK, MgmtOK,
       envVars, bounds, histVars, mgmtVars, resetVars
  <2>. QED BY <2>1, <2>2, <2>3, TypeParts
<1>4. CASE rtusb_null_frame_done_tasklet
  <2>1. CtlOK'
    <3>1. /\ pc' \in [Actors -> PcOf]
          /\ ret' \in [Actors -> {"idle", "kick", "unlock", "acdone", "acnormal", "psfree"}]
          /\ ring' \in [Pipes -> 0..RingCap]
          /\ BulkFlags' \subseteq Contexts /\ jobs' \in 0..MaxJobs
      BY <1>4, DeQueueTypes, ContextFacts DEF rtusb_null_frame_done_tasklet, DataOK, CtlOK, Kick, Goto, PcOf
    <3>. QED BY <1>4, <3>1, ContextFacts DEF rtusb_null_frame_done_tasklet, CtlOK
  <2>2. ClaimOK'
    BY <1>4, FreePipeTypes, ContextFacts DEF rtusb_null_frame_done_tasklet
  <2>3. UrbOK'
    BY <1>4, FreePipeTypes, ContextFacts DEF rtusb_null_frame_done_tasklet
  <2>4. ResetOK'
    BY <1>4, RequestResetTypes, ContextFacts DEF rtusb_null_frame_done_tasklet
  <2>5. DataOK'
    <3>1. /\ pc' \in [Actors -> PcOf]
          /\ ret' \in [Actors -> {"idle", "kick", "unlock", "acdone", "acnormal", "psfree"}]
          /\ ring' \in [Pipes -> 0..RingCap]
          /\ BulkFlags' \subseteq Contexts /\ jobs' \in 0..MaxJobs
      BY <1>4, DeQueueTypes, ContextFacts DEF rtusb_null_frame_done_tasklet, DataOK, CtlOK, Kick, Goto, PcOf
    <3>2. cmds' \in Nat
      BY <1>4 DEF rtusb_null_frame_done_tasklet, EnqueueIfReset, DataOK, resetVars
    <3>. QED BY <1>4, <3>1, <3>2 DEF rtusb_null_frame_done_tasklet, DataOK, envVars, histVars
  <2>6. MgmtOK'
    BY <1>4 DEF rtusb_null_frame_done_tasklet, MgmtOK,
       envVars, bounds, histVars, mgmtVars, resetVars
  <2>. QED BY <2>1, <2>2, <2>3, <2>4, <2>5, <2>6, TypeParts
<1>5. CASE rtusb_pspoll_frame_done_tasklet
  <2>1. CtlOK'
    <3>1. /\ pc' \in [Actors -> PcOf]
          /\ ret' \in [Actors -> {"idle", "kick", "unlock", "acdone", "acnormal", "psfree"}]
          /\ ring' \in [Pipes -> 0..RingCap]
          /\ BulkFlags' \subseteq Contexts /\ jobs' \in 0..MaxJobs
      BY <1>5, DeQueueTypes, ContextFacts DEF rtusb_pspoll_frame_done_tasklet, DataOK, CtlOK, Kick, Goto, PcOf
    <3>. QED BY <1>5, <3>1, ContextFacts DEF rtusb_pspoll_frame_done_tasklet, CtlOK
  <2>2. ResetOK'
    BY <1>5, RequestResetTypes, ContextFacts DEF rtusb_pspoll_frame_done_tasklet
  <2>3. DataOK'
    <3>1. /\ pc' \in [Actors -> PcOf]
          /\ ret' \in [Actors -> {"idle", "kick", "unlock", "acdone", "acnormal", "psfree"}]
          /\ ring' \in [Pipes -> 0..RingCap]
          /\ BulkFlags' \subseteq Contexts /\ jobs' \in 0..MaxJobs
      BY <1>5, DeQueueTypes, ContextFacts DEF rtusb_pspoll_frame_done_tasklet, DataOK, CtlOK, Kick, Goto, PcOf
    <3>2. cmds' \in Nat
      BY <1>5 DEF rtusb_pspoll_frame_done_tasklet, EnqueueIfReset, DataOK, resetVars
    <3>. QED BY <1>5, <3>1, <3>2 DEF rtusb_pspoll_frame_done_tasklet, DataOK, envVars, histVars
  <2>4. ClaimOK' /\ UrbOK' /\ MgmtOK'
    BY <1>5 DEF rtusb_pspoll_frame_done_tasklet, ClaimOK, UrbOK, MgmtOK,
       envVars, bounds, histVars, mgmtVars, resetVars
  <2>. QED BY <2>1, <2>2, <2>3, <2>4, TypeParts
<1>6. CASE PsPollFree
  <2>1. CtlOK'
    BY <1>6, KickTypes, ContextFacts DEF PsPollFree
  <2>2. ClaimOK'
    BY <1>6, FreePipeTypes, ContextFacts DEF PsPollFree
  <2>3. UrbOK'
    BY <1>6, FreePipeTypes, ContextFacts DEF PsPollFree
  <2>4. ResetOK' /\ DataOK' /\ MgmtOK'
    BY <1>6 DEF PsPollFree, ResetOK, DataOK, MgmtOK,
       envVars, bounds, histVars, mgmtVars, resetVars
  <2>. QED BY <2>1, <2>2, <2>3, <2>4, TypeParts
<1>7. CASE rtusb_mgmt_dma_done_tasklet
  <2>1. CtlOK'
    BY <1>7, ContextFacts DEF rtusb_mgmt_dma_done_tasklet, CtlOK, Goto, PcOf
  <2>2. ClaimOK'
    BY <1>7, FreePipeTypes, ContextFacts DEF rtusb_mgmt_dma_done_tasklet
  <2>3. UrbOK'
    BY <1>7, FreePipeTypes, ContextFacts DEF rtusb_mgmt_dma_done_tasklet
  <2>4. ResetOK'
    BY <1>7, RequestResetTypes, ContextFacts DEF rtusb_mgmt_dma_done_tasklet
  <2>5. DataOK'
    BY <1>7 DEF rtusb_mgmt_dma_done_tasklet, DataOK, envVars, bounds, histVars
  <2>6. MgmtOK'
    BY <1>7, ContextFacts DEF rtusb_mgmt_dma_done_tasklet, MgmtOK, mgmtVars, histVars
  <2>. QED BY <2>1, <2>2, <2>3, <2>4, <2>5, <2>6, TypeParts
<1>8. CASE MgmtFree
  <2>1. CtlOK'
    BY <1>8, ContextFacts DEF MgmtFree, CtlOK, Kick, Goto, PcOf
  <2>2. DataOK'
    BY <1>8, ContextFacts DEF MgmtFree, DataOK, envVars, bounds, histVars
  <2>3. MgmtOK'
    BY <1>8, CellFacts DEF MgmtFree, MgmtOK, FreeCells, histVars
  <2>4. ClaimOK' /\ UrbOK' /\ ResetOK'
    BY <1>8 DEF MgmtFree, ClaimOK, UrbOK, ResetOK,
       envVars, bounds, histVars, mgmtVars, resetVars
  <2>. QED BY <2>1, <2>2, <2>3, <2>4, TypeParts
<1>. QED BY <1>1, <1>2, <1>3, <1>4, <1>5, <1>6, <1>7, <1>8 DEF TaskletStep

LEMMA TypeCmd ==
  ASSUME TypeOK, CmdStep
  PROVE  TypeOK'
<1>. CtlOK /\ ClaimOK /\ UrbOK /\ ResetOK /\ DataOK /\ MgmtOK
  BY TypeParts
<1>1. CASE ResetMgmt
  <2>1. CtlOK'
    BY <1>1, KickTypes, ContextFacts DEF ResetMgmt
  <2>2. ResetOK'
    BY <1>1 DEF ResetMgmt, ResetOK
  <2>3. DataOK'
    BY <1>1, ContextFacts DEF ResetMgmt, DataOK, envVars, bounds, histVars
  <2>4. ClaimOK' /\ UrbOK' /\ MgmtOK'
    BY <1>1 DEF ResetMgmt, ClaimOK, UrbOK, MgmtOK,
       envVars, bounds, histVars, mgmtVars, resetVars
  <2>. QED BY <2>1, <2>2, <2>3, <2>4, TypeParts
<1>2. CASE ResetData
  <2>1. CtlOK'
    BY <1>2, ContextFacts DEF ResetData, CtlOK, ResetOK, Goto, PcOf
  <2>2. ClaimOK'
    <3>1. bulkResetPipeid \in Pipes
      BY <1>2 DEF ResetData, ResetOK
    <3>. QED BY <1>2, <3>1, ClaimTypes, ContextFacts DEF ResetData, ClaimOK
  <2>3. ResetOK'
    BY <1>2 DEF ResetData, ResetOK
  <2>4. DataOK'
    BY <1>2, ContextFacts DEF ResetData, DataOK, ResetOK, envVars, bounds, histVars
  <2>5. UrbOK' /\ MgmtOK'
    BY <1>2 DEF ResetData, UrbOK, MgmtOK,
       envVars, bounds, histVars, mgmtVars, resetVars
  <2>. QED BY <2>1, <2>2, <2>3, <2>4, <2>5, TypeParts
<1>3. CASE ResubmitOk
  <2>1. CtlOK'
    BY <1>3, ContextFacts DEF ResubmitOk, CtlOK, Goto, PcOf
  <2>2. ClaimOK'
    BY <1>3, HandOverTypes, ContextFacts DEF ResubmitOk
  <2>3. UrbOK'
    BY <1>3, HandOverTypes, ContextFacts DEF ResubmitOk
  <2>4. ResetOK' /\ DataOK' /\ MgmtOK'
    BY <1>3 DEF ResubmitOk, ResetOK, DataOK, MgmtOK,
       envVars, bounds, histVars, mgmtVars, resetVars
  <2>. QED BY <2>1, <2>2, <2>3, <2>4, TypeParts
<1>4. CASE ResubmitFail
  <2>1. CtlOK'
    BY <1>4, ContextFacts DEF ResubmitFail, CtlOK, Goto, PcOf
  <2>2. ClaimOK'
    BY <1>4 DEF ResubmitFail, ClaimOK
  <2>3. DataOK'
    <3>1. Pipe(hold[Cmd]) \in Pipes
      BY ContextFacts DEF ClaimOK, Pipe, None
    <3>. QED BY <1>4, <3>1 DEF ResubmitFail, DataOK, envVars, bounds, resetVars
  <2>4. MgmtOK'
    BY <1>4 DEF ResubmitFail, MgmtOK, mgmtVars
  <2>5. UrbOK' /\ ResetOK'
    BY <1>4 DEF ResubmitFail, UrbOK, ResetOK,
       envVars, bounds, histVars, mgmtVars, resetVars
  <2>. QED BY <2>1, <2>2, <2>3, <2>4, <2>5, TypeParts
<1>5. CASE ResetDeQueue
  <2>1. CtlOK'
    <3>1. /\ pc' \in [Actors -> PcOf]
          /\ ret' \in [Actors -> {"idle", "kick", "unlock", "acdone", "acnormal", "psfree"}]
          /\ ring' \in [Pipes -> 0..RingCap]
          /\ BulkFlags' \subseteq Contexts /\ jobs' \in 0..MaxJobs
      BY <1>5, DeQueueTypes, ContextFacts DEF ResetDeQueue, DataOK, CtlOK, Kick, Goto, PcOf
    <3>. QED BY <1>5, <3>1, ContextFacts DEF ResetDeQueue, CtlOK
  <2>2. DataOK'
    <3>1. /\ pc' \in [Actors -> PcOf]
          /\ ret' \in [Actors -> {"idle", "kick", "unlock", "acdone", "acnormal", "psfree"}]
          /\ ring' \in [Pipes -> 0..RingCap]
          /\ BulkFlags' \subseteq Contexts /\ jobs' \in 0..MaxJobs
      BY <1>5, DeQueueTypes, ContextFacts DEF ResetDeQueue, DataOK, CtlOK, Kick, Goto, PcOf
    <3>2. cmds' \in Nat
      BY <1>5 DEF ResetDeQueue, EnqueueIfReset, DataOK, resetVars
    <3>. QED BY <1>5, <3>1, <3>2 DEF ResetDeQueue, DataOK, envVars, histVars
  <2>3. ClaimOK' /\ UrbOK' /\ ResetOK' /\ MgmtOK'
    BY <1>5 DEF ResetDeQueue, ClaimOK, UrbOK, ResetOK, MgmtOK,
       envVars, bounds, histVars, mgmtVars, resetVars
  <2>. QED BY <2>1, <2>2, <2>3, TypeParts
<1>. QED BY <1>1, <1>2, <1>3, <1>4, <1>5 DEF CmdStep

LEMMA TypeHost ==
  ASSUME TypeOK, NEW c \in Contexts, Transferred(c) \/ TransferFailed(c)
  PROVE  TypeOK'
<1>. CtlOK /\ ClaimOK /\ UrbOK /\ ResetOK /\ DataOK /\ MgmtOK
  BY TypeParts
<1>1. CASE Transferred(c)
  <2>1. UrbOK'
    BY <1>1 DEF Transferred, UrbOK
  <2>2. DataOK'
    BY <1>1 DEF Transferred, DataOK, envVars, bounds, resetVars
  <2>3. MgmtOK'
    BY <1>1 DEF Transferred, MgmtOK, mgmtVars
  <2>4. CtlOK' /\ ClaimOK' /\ ResetOK'
    BY <1>1 DEF Transferred, CtlOK, ClaimOK, ResetOK,
       envVars, bounds, histVars, mgmtVars, resetVars
  <2>. QED BY <2>1, <2>2, <2>3, <2>4, TypeParts
<1>2. CASE TransferFailed(c)
  <2>1. UrbOK'
    BY <1>2 DEF TransferFailed, UrbOK
  <2>2. DataOK'
    BY <1>2, BulkOutAssumption DEF TransferFailed, DataOK, Fault, resetVars, histVars
  <2>3. CtlOK' /\ ClaimOK' /\ ResetOK' /\ MgmtOK'
    BY <1>2 DEF TransferFailed, CtlOK, ClaimOK, ResetOK, MgmtOK,
       envVars, bounds, histVars, mgmtVars, resetVars
  <2>. QED BY <2>1, <2>2, <2>3, TypeParts
<1>. QED BY <1>1, <1>2

LEMMA TypeInit == Init => TypeOK
<1>. SUFFICES ASSUME Init PROVE TypeOK
  OBVIOUS
<1>1. CtlOK /\ ClaimOK /\ UrbOK /\ ResetOK
  BY ContextFacts DEF Init, CtlOK, ClaimOK, UrbOK, ResetOK, PcOf
<1>2. MgmtOK
  BY CellFacts DEF Init, MgmtOK
<1>3. 0 \in 0..RingCap /\ 0 \in 0..MaxJobs /\ 0 \in 0..MaxFaults
  BY BulkOutAssumption
<1>4. ring \in [Pipes -> 0..RingCap] /\ delivered \in [Pipes -> {"no", "once", "twice"}]
  BY <1>3 DEF Init
<1>5. DataOK
  BY <1>3, <1>4 DEF Init, DataOK
<1>. QED BY <1>1, <1>2, <1>5 DEF TypeOK, CtlOK, ClaimOK, UrbOK, ResetOK, MgmtOK, DataOK

LEMMA TypeNext == TypeOK /\ [Next]_vars => TypeOK'
<1>. SUFFICES ASSUME TypeOK, [Next]_vars PROVE TypeOK'
  OBVIOUS
<1>1. CASE \E t \in {"task"} \X Tasks : Job(t)
  BY <1>1, TypeJob
<1>2. CASE \E a \in Actors : Step(a)
  BY <1>2, TypeKick, TypeTasklet, TypeCmd DEF Step
<1>3. CASE \E c \in Contexts : Transferred(c) \/ TransferFailed(c)
  BY <1>3, TypeHost
<1>4. CASE Scan
  BY <1>4 DEF Scan, TypeOK, mgmtVars, resetVars, bounds, histVars
<1>5. CASE UNCHANGED vars
  BY <1>5 DEF vars, TypeOK, mgmtVars, resetVars, envVars, bounds, histVars
<1>. QED BY <1>1, <1>2, <1>3, <1>4, <1>5 DEF Next

\* TypeOK of BulkOut: every variable keeps its type.
THEOREM TypeCorrect == Spec => []TypeOK
BY TypeInit, TypeNext, PTL DEF Spec

----------------------------------------------------------------------------
(* Who uses a pipe.  The inductive invariant says, pointwise, that a pipe   *)
(* has one user and is pending for it (UsersOK), that an actor holds a      *)
(* claim exactly between taking it and handing it on (HoldsOK), that the    *)
(* PS-Poll tasklet keeps pipe 0 while it fetches packets (PsPollOK), and    *)
(* that bulkResetPipeid can change under the reset command only to a pipe   *)
(* nobody uses (ResubmitOK).                                                *)

Same(c, d) == Pipe(c) = Pipe(d)

UsersOK ==
  /\ \A a, b \in Actors :
       hold[a] # None /\ hold[b] # None /\ Same(hold[a], hold[b]) => a = b
  /\ \A c, d \in Contexts : urb[c] # "idle" /\ urb[d] # "idle" /\ Same(c, d) => c = d
  /\ \A a \in Actors, c \in Contexts :
       hold[a] # None /\ urb[c] # "idle" => ~Same(hold[a], c)
  /\ \A a \in Actors : hold[a] # None => BulkOutPending[Pipe(hold[a])]
  /\ \A c \in Contexts : urb[c] # "idle" => BulkOutPending[Pipe(c)]
  /\ \A p \in Pipes : BulkOutPending[p] =>
       \/ \E a \in Actors : hold[a] # None /\ Pipe(hold[a]) = p
       \/ \E c \in Contexts : urb[c] # "idle" /\ Pipe(c) = p
       \/ p \in orphaned

HoldsOK ==
  \A a \in Actors : hold[a] # None <=> pc[a] \in {"ring", "empty", "submit", "resubmit"}

PsPollOK == pc[PsPoll] = "psfree" \/ ret[PsPoll] = "psfree" => urb[PsPoll] = "closing"

ResubmitOK ==
  pc[Cmd] = "resubmit" /\ bulkResetPipeid # Pipe(hold[Cmd]) =>
    /\ BULKOUT_RESET
    /\ bulkResetPipeid \in Pipes => ~BulkOutPending[bulkResetPipeid]

IInv == TypeOK /\ UsersOK /\ HoldsOK /\ PsPollOK /\ ResubmitOK

----------------------------------------------------------------------------
(* What the shared steps do to the users of the pipes. *)

LEMMA ClaimUsers ==
  ASSUME TypeOK, UsersOK, NEW a \in Actors, NEW c \in Contexts, hold[a] = None,
         ~BulkOutPending[Pipe(c)], Claim(a, c), UNCHANGED <<urb, orphaned>>
  PROVE  UsersOK'
<1>1. Pipe(c) \in Pipes /\ c # None
  BY ContextFacts
<1>2. /\ BulkOutPending' = [p \in Pipes |-> IF p = Pipe(c) THEN TRUE ELSE BulkOutPending[p]]
      /\ hold' = [b \in Actors |-> IF b = a THEN c ELSE hold[b]]
  BY <1>1 DEF TypeOK, Claim
<1>3. /\ \A b \in Actors : hold[b] # None => Pipe(hold[b]) # Pipe(c)
      /\ \A d \in Contexts : urb[d] # "idle" => Pipe(d) # Pipe(c)
  BY DEF UsersOK
<1>. QED BY <1>1, <1>2, <1>3, ContextFacts DEF UsersOK, TypeOK, Same

LEMMA ReleaseUsers ==
  ASSUME TypeOK, UsersOK, NEW a \in Actors, hold[a] # None, Release(a),
         UNCHANGED <<urb, orphaned>>
  PROVE  UsersOK'
<1>1. Pipe(hold[a]) \in Pipes
  BY ContextFacts DEF TypeOK
<1>2. /\ BulkOutPending' = [p \in Pipes |-> IF p = Pipe(hold[a]) THEN FALSE
                                            ELSE BulkOutPending[p]]
      /\ hold' = [b \in Actors |-> IF b = a THEN None ELSE hold[b]]
  BY <1>1 DEF TypeOK, Release
<1>. QED BY <1>1, <1>2, ContextFacts DEF UsersOK, TypeOK, Same

LEMMA HandOverUsers ==
  ASSUME TypeOK, UsersOK, NEW a \in Actors, hold[a] # None, HandOver(a),
         UNCHANGED <<BulkOutPending, orphaned>>
  PROVE  UsersOK'
<1>1. hold[a] \in Contexts
  BY DEF TypeOK
<1>2. /\ urb' = [c \in Contexts |-> IF c = hold[a] THEN "flying" ELSE urb[c]]
      /\ hold' = [b \in Actors |-> IF b = a THEN None ELSE hold[b]]
  BY <1>1 DEF TypeOK, HandOver
<1>. QED BY <1>1, <1>2, ContextFacts, SMTT(60) DEF UsersOK, TypeOK, Same

LEMMA FreePipeUsers ==
  ASSUME TypeOK, UsersOK, NEW c \in Contexts, urb[c] # "idle", FreePipe(c),
         UNCHANGED <<hold, orphaned>>
  PROVE  UsersOK'
<1>1. Pipe(c) \in Pipes
  BY ContextFacts
<1>2. /\ BulkOutPending' = [p \in Pipes |-> IF p = Pipe(c) THEN FALSE ELSE BulkOutPending[p]]
      /\ urb' = [d \in Contexts |-> IF d = c THEN "idle" ELSE urb[d]]
  BY <1>1 DEF TypeOK, FreePipe
<1>. QED BY <1>1, <1>2, ContextFacts DEF UsersOK, TypeOK, Same

LEMMA SameUsers ==
  ASSUME UsersOK, UNCHANGED <<BulkOutPending, hold, orphaned>>,
         \A c \in Contexts : urb'[c] = "idle" <=> urb[c] = "idle"
  PROVE  UsersOK'
BY DEF UsersOK, Same

----------------------------------------------------------------------------
(* The actions. *)

LEMMA UserKick ==
  ASSUME IInv, NEW a \in Actors, KickStep(a)
  PROVE  UsersOK' /\ HoldsOK' /\ PsPollOK' /\ ResubmitOK'
<1>. TypeOK /\ UsersOK /\ HoldsOK /\ PsPollOK /\ ResubmitOK
  BY DEF IInv
<1>1. CASE RTUSBKickBulkOut(a)
  <2>1. UsersOK'
    BY <1>1, SameUsers DEF RTUSBKickBulkOut, histVars
  <2>2. HoldsOK'
    BY <1>1, ContextFacts DEF RTUSBKickBulkOut, HoldsOK, TypeOK, Goto, Kick, Leave, Past, ToData
  <2>3. PsPollOK'
    BY <1>1, ContextFacts DEF RTUSBKickBulkOut, PsPollOK, TypeOK, Goto, Kick, Leave, Past, ToData
  <2>4. ResubmitOK'
    BY <1>1, ContextFacts DEF RTUSBKickBulkOut, ResubmitOK, HoldsOK, TypeOK, resetVars, Goto, Kick, Leave, Past, ToData
  <2>. QED BY <2>1, <2>2, <2>3, <2>4
<1>2. CASE KickData(a)
  <2>1. UsersOK'
    BY <1>2, SameUsers DEF KickData, histVars
  <2>2. HoldsOK'
    BY <1>2, ContextFacts DEF KickData, HoldsOK, TypeOK, Goto, Kick, Leave, Past, ToData
  <2>3. PsPollOK'
    BY <1>2, ContextFacts DEF KickData, PsPollOK, TypeOK, Goto, Kick, Leave, Past, ToData
  <2>4. ResubmitOK'
    BY <1>2, ContextFacts DEF KickData, ResubmitOK, HoldsOK, TypeOK, resetVars, Goto, Kick, Leave, Past, ToData
  <2>. QED BY <2>1, <2>2, <2>3, <2>4
<1>3. CASE RTUSBBulkOutDataPacket(a)
  <2>1. UsersOK'
    BY <1>3, ClaimUsers, SameUsers, ContextFacts DEF RTUSBBulkOutDataPacket, HoldsOK, TypeOK, Refused, histVars
  <2>2. HoldsOK'
    BY <1>3, ContextFacts DEF RTUSBBulkOutDataPacket, HoldsOK, TypeOK, Goto, Kick, Leave, Past, ToData, Claim, Refused
  <2>3. PsPollOK'
    BY <1>3, ContextFacts DEF RTUSBBulkOutDataPacket, PsPollOK, TypeOK, Goto, Kick, Leave, Past, ToData, Claim, Refused
  <2>4. ResubmitOK'
    BY <1>3, ContextFacts DEF RTUSBBulkOutDataPacket, ResubmitOK, HoldsOK, TypeOK, resetVars, Goto, Kick, Leave, Past, ToData, Claim, Refused
  <2>. QED BY <2>1, <2>2, <2>3, <2>4
<1>4. CASE BulkOutRing(a)
  <2>1. UsersOK'
    BY <1>4, SameUsers DEF BulkOutRing, histVars
  <2>2. HoldsOK'
    BY <1>4, ContextFacts DEF BulkOutRing, HoldsOK, TypeOK, Goto, Kick, Leave, Past, ToData
  <2>3. PsPollOK'
    BY <1>4, ContextFacts DEF BulkOutRing, PsPollOK, TypeOK, Goto, Kick, Leave, Past, ToData
  <2>4. ResubmitOK'
    BY <1>4, ContextFacts DEF BulkOutRing, ResubmitOK, HoldsOK, TypeOK, resetVars, Goto, Kick, Leave, Past, ToData
  <2>. QED BY <2>1, <2>2, <2>3, <2>4
<1>5. CASE BulkOutEmpty(a)
  <2>1. UsersOK'
    BY <1>5, ReleaseUsers DEF BulkOutEmpty, HoldsOK, histVars
  <2>2. HoldsOK'
    BY <1>5, ContextFacts DEF BulkOutEmpty, HoldsOK, TypeOK, Goto, Kick, Leave, Past, ToData, Release
  <2>3. PsPollOK'
    BY <1>5, ContextFacts DEF BulkOutEmpty, PsPollOK, TypeOK, Goto, Kick, Leave, Past, ToData, Release
  <2>4. ResubmitOK'
    BY <1>5, ContextFacts DEF BulkOutEmpty, ResubmitOK, HoldsOK, TypeOK, resetVars, Goto, Kick, Leave, Past, ToData, Release
  <2>. QED BY <2>1, <2>2, <2>3, <2>4
<1>6. CASE RTUSBBulkOutPsPoll(a)
  <2>1. UsersOK'
    BY <1>6, ClaimUsers, SameUsers, ContextFacts DEF RTUSBBulkOutPsPoll, HoldsOK, TypeOK, Refused, histVars
  <2>2. HoldsOK'
    BY <1>6, ContextFacts DEF RTUSBBulkOutPsPoll, HoldsOK, TypeOK, Goto, Kick, Leave, Past, ToData, Claim, Refused
  <2>3. PsPollOK'
    BY <1>6, ContextFacts DEF RTUSBBulkOutPsPoll, PsPollOK, TypeOK, Goto, Kick, Leave, Past, ToData, Claim, Refused
  <2>4. ResubmitOK'
    BY <1>6, ContextFacts DEF RTUSBBulkOutPsPoll, ResubmitOK, HoldsOK, TypeOK, resetVars, Goto, Kick, Leave, Past, ToData, Claim, Refused
  <2>. QED BY <2>1, <2>2, <2>3, <2>4
<1>7. CASE RTUSBBulkOutNullFrame(a)
  <2>1. UsersOK'
    BY <1>7, ClaimUsers, SameUsers, ContextFacts DEF RTUSBBulkOutNullFrame, HoldsOK, TypeOK, Refused, histVars
  <2>2. HoldsOK'
    BY <1>7, ContextFacts DEF RTUSBBulkOutNullFrame, HoldsOK, TypeOK, Goto, Kick, Leave, Past, ToData, Claim, Refused
  <2>3. PsPollOK'
    BY <1>7, ContextFacts DEF RTUSBBulkOutNullFrame, PsPollOK, TypeOK, Goto, Kick, Leave, Past, ToData, Claim, Refused
  <2>4. ResubmitOK'
    BY <1>7, ContextFacts DEF RTUSBBulkOutNullFrame, ResubmitOK, HoldsOK, TypeOK, resetVars, Goto, Kick, Leave, Past, ToData, Claim, Refused
  <2>. QED BY <2>1, <2>2, <2>3, <2>4
<1>8. CASE RTUSBBulkOutMLMEPacket(a)
  <2>1. UsersOK'
    BY <1>8, SameUsers DEF RTUSBBulkOutMLMEPacket, histVars
  <2>2. HoldsOK'
    BY <1>8, ContextFacts DEF RTUSBBulkOutMLMEPacket, HoldsOK, TypeOK, Goto, Kick, Leave, Past, ToData
  <2>3. PsPollOK'
    BY <1>8, ContextFacts DEF RTUSBBulkOutMLMEPacket, PsPollOK, TypeOK, Goto, Kick, Leave, Past, ToData
  <2>4. ResubmitOK'
    BY <1>8, ContextFacts DEF RTUSBBulkOutMLMEPacket, ResubmitOK, HoldsOK, TypeOK, resetVars, Goto, Kick, Leave, Past, ToData
  <2>. QED BY <2>1, <2>2, <2>3, <2>4
<1>9. CASE BulkOutMLMEClaim(a)
  <2>1. UsersOK'
    BY <1>9, ClaimUsers, SameUsers, ContextFacts DEF BulkOutMLMEClaim, HoldsOK, TypeOK, Refused, histVars
  <2>2. HoldsOK'
    BY <1>9, ContextFacts DEF BulkOutMLMEClaim, HoldsOK, TypeOK, Goto, Kick, Leave, Past, ToData, Claim, Refused
  <2>3. PsPollOK'
    BY <1>9, ContextFacts DEF BulkOutMLMEClaim, PsPollOK, TypeOK, Goto, Kick, Leave, Past, ToData, Claim, Refused
  <2>4. ResubmitOK'
    BY <1>9, ContextFacts DEF BulkOutMLMEClaim, ResubmitOK, HoldsOK, TypeOK, resetVars, Goto, Kick, Leave, Past, ToData, Claim, Refused
  <2>. QED BY <2>1, <2>2, <2>3, <2>4
<1>10. CASE SubmitOk(a)
  <2>1. UsersOK'
    BY <1>10, HandOverUsers DEF SubmitOk, HoldsOK, histVars
  <2>2. HoldsOK'
    BY <1>10, ContextFacts DEF SubmitOk, HoldsOK, TypeOK, Goto, Kick, Leave, Past, ToData, HandOver, AfterSubmit
  <2>3. PsPollOK'
    <3>1. hold[a] # None
      BY <1>10 DEF SubmitOk, HoldsOK
    <3>2. urb[PsPoll] = "closing" => urb'[PsPoll] = "closing"
      <4>1. urb[PsPoll] = "closing" => hold[a] # PsPoll
        BY <3>1, ContextFacts DEF UsersOK, Same
      <4>. QED BY <1>10, <4>1, ContextFacts DEF SubmitOk, HandOver, TypeOK
    <3>3. (pc'[PsPoll] = "psfree" \/ ret'[PsPoll] = "psfree") => (pc[PsPoll] = "psfree" \/ ret[PsPoll] = "psfree")
      BY <1>10, ContextFacts DEF SubmitOk, TypeOK, Goto, Leave, Past, ToData, AfterSubmit
    <3>. QED BY <3>2, <3>3 DEF PsPollOK
  <2>4. ResubmitOK'
    BY <1>10, ContextFacts DEF SubmitOk, ResubmitOK, HoldsOK, TypeOK, resetVars, Goto, Kick, Leave, Past, ToData, HandOver, AfterSubmit
  <2>. QED BY <2>1, <2>2, <2>3, <2>4
<1>11. CASE SubmitFail(a)
  <2>1. UsersOK'
    BY <1>11, ReleaseUsers DEF SubmitFail, HoldsOK, histVars
  <2>2. HoldsOK'
    BY <1>11, ContextFacts DEF SubmitFail, HoldsOK, TypeOK, Goto, Kick, Leave, Past, ToData, Release, AfterSubmit
  <2>3. PsPollOK'
    BY <1>11, ContextFacts DEF SubmitFail, PsPollOK, TypeOK, Goto, Kick, Leave, Past, ToData, Release, AfterSubmit
  <2>4. ResubmitOK'
    BY <1>11, ContextFacts DEF SubmitFail, ResubmitOK, HoldsOK, TypeOK, resetVars, Goto, Kick, Leave, Past, ToData, Release, AfterSubmit
  <2>. QED BY <2>1, <2>2, <2>3, <2>4
<1>12. CASE RtmpUSBMgmtKickOut(a)
  <2>1. UsersOK'
    BY <1>12, SameUsers DEF RtmpUSBMgmtKickOut, histVars
  <2>2. HoldsOK'
    BY <1>12, ContextFacts DEF RtmpUSBMgmtKickOut, HoldsOK, TypeOK, Goto, Kick, Leave, Past, ToData
  <2>3. PsPollOK'
    BY <1>12, ContextFacts DEF RtmpUSBMgmtKickOut, PsPollOK, TypeOK, Goto, Kick, Leave, Past, ToData
  <2>4. ResubmitOK'
    BY <1>12, ContextFacts DEF RtmpUSBMgmtKickOut, ResubmitOK, HoldsOK, TypeOK, resetVars, Goto, Kick, Leave, Past, ToData
  <2>. QED BY <2>1, <2>2, <2>3, <2>4
<1>. QED BY <1>1, <1>2, <1>3, <1>4, <1>5, <1>6, <1>7, <1>8, <1>9, <1>10, <1>11, <1>12 DEF KickStep

LEMMA UserJob ==
  ASSUME IInv, NEW t \in {"task"} \X Tasks, Job(t)
  PROVE  UsersOK' /\ HoldsOK' /\ PsPollOK' /\ ResubmitOK'
<1>. TypeOK /\ UsersOK /\ HoldsOK /\ PsPollOK /\ ResubmitOK
  BY DEF IInv
<1>1. CASE DataKickOut(t)
  <2>1. UsersOK'
    BY <1>1, SameUsers DEF DataKickOut, histVars
  <2>2. HoldsOK'
    BY <1>1, ContextFacts DEF DataKickOut, HoldsOK, TypeOK, Goto, Kick, Leave, Past, ToData, Starts
  <2>3. PsPollOK'
    BY <1>1, ContextFacts DEF DataKickOut, PsPollOK, TypeOK, Goto, Kick, Leave, Past, ToData, Starts
  <2>4. ResubmitOK'
    BY <1>1, ContextFacts DEF DataKickOut, ResubmitOK, HoldsOK, TypeOK, resetVars, Goto, Kick, Leave, Past, ToData, Starts
  <2>. QED BY <2>1, <2>2, <2>3, <2>4
<1>2. CASE RtmpUSBNullFrameKickOut(t)
  <2>1. UsersOK'
    BY <1>2, SameUsers DEF RtmpUSBNullFrameKickOut, histVars
  <2>2. HoldsOK'
    BY <1>2, ContextFacts DEF RtmpUSBNullFrameKickOut, HoldsOK, TypeOK, Goto, Kick, Leave, Past, ToData, Starts
  <2>3. PsPollOK'
    BY <1>2, ContextFacts DEF RtmpUSBNullFrameKickOut, PsPollOK, TypeOK, Goto, Kick, Leave, Past, ToData, Starts
  <2>4. ResubmitOK'
    BY <1>2, ContextFacts DEF RtmpUSBNullFrameKickOut, ResubmitOK, HoldsOK, TypeOK, resetVars, Goto, Kick, Leave, Past, ToData, Starts
  <2>. QED BY <2>1, <2>2, <2>3, <2>4
<1>3. CASE PsPollEnqueue(t)
  <2>1. UsersOK'
    BY <1>3, SameUsers DEF PsPollEnqueue, histVars
  <2>2. HoldsOK'
    BY <1>3, ContextFacts DEF PsPollEnqueue, HoldsOK, TypeOK, Goto, Kick, Leave, Past, ToData, Starts
  <2>3. PsPollOK'
    BY <1>3, ContextFacts DEF PsPollEnqueue, PsPollOK, TypeOK, Goto, Kick, Leave, Past, ToData, Starts
  <2>4. ResubmitOK'
    BY <1>3, ContextFacts DEF PsPollEnqueue, ResubmitOK, HoldsOK, TypeOK, resetVars, Goto, Kick, Leave, Past, ToData, Starts
  <2>. QED BY <2>1, <2>2, <2>3, <2>4
<1>4. CASE MiniportMMRequest(t)
  <2>1. UsersOK'
    BY <1>4, SameUsers DEF MiniportMMRequest, histVars
  <2>2. HoldsOK'
    BY <1>4, ContextFacts DEF MiniportMMRequest, HoldsOK, TypeOK, Goto, Kick, Leave, Past, ToData, Starts
  <2>3. PsPollOK'
    BY <1>4, ContextFacts DEF MiniportMMRequest, PsPollOK, TypeOK, Goto, Kick, Leave, Past, ToData, Starts
  <2>4. ResubmitOK'
    BY <1>4, ContextFacts DEF MiniportMMRequest, ResubmitOK, HoldsOK, TypeOK, resetVars, Goto, Kick, Leave, Past, ToData, Starts
  <2>. QED BY <2>1, <2>2, <2>3, <2>4
<1>. QED BY <1>1, <1>2, <1>3, <1>4 DEF Job

LEMMA UserTasklet ==
  ASSUME IInv, NEW c \in Contexts, TaskletStep(c)
  PROVE  UsersOK' /\ HoldsOK' /\ PsPollOK' /\ ResubmitOK'
<1>. TypeOK /\ UsersOK /\ HoldsOK /\ PsPollOK /\ ResubmitOK
  BY DEF IInv
<1>1. CASE rtusb_dataout_complete(c)
  <2>1. UsersOK'
    BY <1>1, FreePipeUsers, ContextFacts DEF rtusb_dataout_complete, Scheduled, histVars
  <2>2. HoldsOK'
    BY <1>1, ContextFacts DEF rtusb_dataout_complete, HoldsOK, TypeOK, Goto, Kick, Leave, Past, ToData, Scheduled, RequestReset, FreePipe, UsersOK
  <2>3. PsPollOK'
    BY <1>1, ContextFacts DEF rtusb_dataout_complete, PsPollOK, TypeOK, Goto, Kick, Leave, Past, ToData, Scheduled, RequestReset, FreePipe, UsersOK
  <2>4. ResubmitOK'
    BY <1>1, ContextFacts DEF rtusb_dataout_complete, ResubmitOK, HoldsOK, TypeOK, resetVars, Goto, Kick, Leave, Past, ToData, Scheduled, RequestReset, FreePipe, UsersOK
  <2>. QED BY <2>1, <2>2, <2>3, <2>4
<1>2. CASE rtusb_ac_dma_done_tasklet(c)
  <2>1. UsersOK'
    BY <1>2, SameUsers DEF rtusb_ac_dma_done_tasklet, histVars
  <2>2. HoldsOK'
    BY <1>2, ContextFacts DEF rtusb_ac_dma_done_tasklet, HoldsOK, TypeOK, Goto, Kick, Leave, Past, ToData
  <2>3. PsPollOK'
    BY <1>2, ContextFacts DEF rtusb_ac_dma_done_tasklet, PsPollOK, TypeOK, Goto, Kick, Leave, Past, ToData
  <2>4. ResubmitOK'
    BY <1>2, ContextFacts DEF rtusb_ac_dma_done_tasklet, ResubmitOK, HoldsOK, TypeOK, resetVars, Goto, Kick, Leave, Past, ToData
  <2>. QED BY <2>1, <2>2, <2>3, <2>4
<1>3. CASE AcSetNormal(c)
  <2>1. UsersOK'
    BY <1>3, SameUsers DEF AcSetNormal, histVars
  <2>2. HoldsOK'
    BY <1>3, ContextFacts DEF AcSetNormal, HoldsOK, TypeOK, Goto, Kick, Leave, Past, ToData
  <2>3. PsPollOK'
    BY <1>3, ContextFacts DEF AcSetNormal, PsPollOK, TypeOK, Goto, Kick, Leave, Past, ToData
  <2>4. ResubmitOK'
    BY <1>3, ContextFacts DEF AcSetNormal, ResubmitOK, HoldsOK, TypeOK, resetVars, Goto, Kick, Leave, Past, ToData
  <2>. QED BY <2>1, <2>2, <2>3, <2>4
<1>4. CASE rtusb_null_frame_done_tasklet
  <2>1. UsersOK'
    BY <1>4, FreePipeUsers, ContextFacts DEF rtusb_null_frame_done_tasklet, Scheduled, histVars
  <2>2. HoldsOK'
    BY <1>4, ContextFacts DEF rtusb_null_frame_done_tasklet, HoldsOK, TypeOK, Goto, Kick, Leave, Past, ToData, Scheduled, RequestReset, FreePipe, RTMPDeQueuePacket
  <2>3. PsPollOK'
    BY <1>4, ContextFacts DEF rtusb_null_frame_done_tasklet, PsPollOK, TypeOK, Goto, Kick, Leave, Past, ToData, Scheduled, RequestReset, FreePipe, RTMPDeQueuePacket
  <2>4. ResubmitOK'
    BY <1>4, ContextFacts DEF rtusb_null_frame_done_tasklet, ResubmitOK, HoldsOK, TypeOK, resetVars, Goto, Kick, Leave, Past, ToData, Scheduled, RequestReset, FreePipe, RTMPDeQueuePacket
  <2>. QED BY <2>1, <2>2, <2>3, <2>4
<1>5. CASE rtusb_pspoll_frame_done_tasklet
  <2>1. UsersOK'
    BY <1>5, SameUsers, ContextFacts DEF rtusb_pspoll_frame_done_tasklet, Scheduled, TypeOK, histVars
  <2>2. HoldsOK'
    BY <1>5, ContextFacts DEF rtusb_pspoll_frame_done_tasklet, HoldsOK, TypeOK, Goto, Kick, Leave, Past, ToData, Scheduled, RequestReset, FreePipe, RTMPDeQueuePacket
  <2>3. PsPollOK'
    BY <1>5, ContextFacts DEF rtusb_pspoll_frame_done_tasklet, PsPollOK, TypeOK, Goto, Kick, Leave, Past, ToData, Scheduled, RequestReset, FreePipe, RTMPDeQueuePacket
  <2>4. ResubmitOK'
    BY <1>5, ContextFacts DEF rtusb_pspoll_frame_done_tasklet, ResubmitOK, HoldsOK, TypeOK, resetVars, Goto, Kick, Leave, Past, ToData, Scheduled, RequestReset, FreePipe, RTMPDeQueuePacket
  <2>. QED BY <2>1, <2>2, <2>3, <2>4
<1>6. CASE PsPollFree
  <2>1. UsersOK'
    BY <1>6, FreePipeUsers, ContextFacts DEF PsPollFree, PsPollOK, histVars
  <2>2. HoldsOK'
    BY <1>6, ContextFacts DEF PsPollFree, HoldsOK, TypeOK, Goto, Kick, Leave, Past, ToData, FreePipe
  <2>3. PsPollOK'
    BY <1>6, ContextFacts DEF PsPollFree, PsPollOK, TypeOK, Goto, Kick, Leave, Past, ToData, FreePipe
  <2>4. ResubmitOK'
    BY <1>6, ContextFacts DEF PsPollFree, ResubmitOK, HoldsOK, TypeOK, resetVars, Goto, Kick, Leave, Past, ToData, FreePipe
  <2>. QED BY <2>1, <2>2, <2>3, <2>4
<1>7. CASE rtusb_mgmt_dma_done_tasklet
  <2>1. UsersOK'
    BY <1>7, FreePipeUsers, ContextFacts DEF rtusb_mgmt_dma_done_tasklet, Scheduled, histVars
  <2>2. HoldsOK'
    BY <1>7, ContextFacts DEF rtusb_mgmt_dma_done_tasklet, HoldsOK, TypeOK, Goto, Kick, Leave, Past, ToData, Scheduled, RequestReset, FreePipe, RTMPDeQueuePacket
  <2>3. PsPollOK'
    BY <1>7, ContextFacts DEF rtusb_mgmt_dma_done_tasklet, PsPollOK, TypeOK, Goto, Kick, Leave, Past, ToData, Scheduled, RequestReset, FreePipe, RTMPDeQueuePacket
  <2>4. ResubmitOK'
    BY <1>7, ContextFacts DEF rtusb_mgmt_dma_done_tasklet, ResubmitOK, HoldsOK, TypeOK, resetVars, Goto, Kick, Leave, Past, ToData, Scheduled, RequestReset, FreePipe, RTMPDeQueuePacket
  <2>. QED BY <2>1, <2>2, <2>3, <2>4
<1>8. CASE MgmtFree
  <2>1. UsersOK'
    BY <1>8, SameUsers DEF MgmtFree, histVars
  <2>2. HoldsOK'
    BY <1>8, ContextFacts DEF MgmtFree, HoldsOK, TypeOK, Goto, Kick, Leave, Past, ToData
  <2>3. PsPollOK'
    BY <1>8, ContextFacts DEF MgmtFree, PsPollOK, TypeOK, Goto, Kick, Leave, Past, ToData
  <2>4. ResubmitOK'
    BY <1>8, ContextFacts DEF MgmtFree, ResubmitOK, HoldsOK, TypeOK, resetVars, Goto, Kick, Leave, Past, ToData
  <2>. QED BY <2>1, <2>2, <2>3, <2>4
<1>. QED BY <1>1, <1>2, <1>3, <1>4, <1>5, <1>6, <1>7, <1>8 DEF TaskletStep

LEMMA UserCmd ==
  ASSUME IInv, CmdStep
  PROVE  UsersOK' /\ HoldsOK' /\ PsPollOK' /\ ResubmitOK'
<1>. TypeOK /\ UsersOK /\ HoldsOK /\ PsPollOK /\ ResubmitOK
  BY DEF IInv
<1>1. CASE ResetMgmt
  <2>1. UsersOK'
    BY <1>1, SameUsers DEF ResetMgmt, histVars
  <2>2. HoldsOK'
    BY <1>1, ContextFacts DEF ResetMgmt, HoldsOK, TypeOK, Goto, Kick, Leave, Past, ToData
  <2>3. PsPollOK'
    BY <1>1, ContextFacts DEF ResetMgmt, PsPollOK, TypeOK, Goto, Kick, Leave, Past, ToData
  <2>4. ResubmitOK'
    BY <1>1, ContextFacts DEF ResetMgmt, ResubmitOK, HoldsOK, TypeOK, resetVars, Goto, Kick, Leave, Past, ToData
  <2>. QED BY <2>1, <2>2, <2>3, <2>4
<1>2. CASE ResetData
  <2>1. UsersOK'
    <3>1. bulkResetPipeid \in Pipes
      BY <1>2 DEF ResetData, TypeOK
    <3>. QED BY <1>2, <3>1, ClaimUsers, SameUsers, ContextFacts DEF ResetData, HoldsOK, histVars
  <2>2. HoldsOK'
    BY <1>2, ContextFacts DEF ResetData, HoldsOK, TypeOK, Goto, Kick, Leave, Past, ToData, Claim
  <2>3. PsPollOK'
    BY <1>2, ContextFacts DEF ResetData, PsPollOK, TypeOK, Goto, Kick, Leave, Past, ToData, Claim
  <2>4. ResubmitOK'
    BY <1>2, ContextFacts DEF ResetData, ResubmitOK, HoldsOK, TypeOK, resetVars, Goto, Kick, Leave, Past, ToData, Claim
  <2>. QED BY <2>1, <2>2, <2>3, <2>4
<1>3. CASE ResubmitOk
  <2>1. UsersOK'
    BY <1>3, HandOverUsers, ContextFacts DEF ResubmitOk, HoldsOK, histVars
  <2>2. HoldsOK'
    BY <1>3, ContextFacts DEF ResubmitOk, HoldsOK, TypeOK, Goto, Kick, Leave, Past, ToData, HandOver
  <2>3. PsPollOK'
    <3>1. urb[PsPoll] = "closing" => hold[Cmd] # PsPoll
      BY <1>3, ContextFacts DEF ResubmitOk, UsersOK, HoldsOK, Same
    <3>. QED BY <1>3, <3>1, ContextFacts DEF ResubmitOk, PsPollOK, TypeOK, Goto, HandOver
  <2>4. ResubmitOK'
    BY <1>3, ContextFacts DEF ResubmitOk, ResubmitOK, HoldsOK, TypeOK, resetVars, Goto, Kick, Leave, Past, ToData, HandOver
  <2>. QED BY <2>1, <2>2, <2>3, <2>4
<1>4. CASE ResubmitFail
  <2>1. UsersOK'
    <3>. DEFINE p == Pipe(hold[Cmd])
    <3>1. hold[Cmd] \in Contexts /\ p \in Pipes /\ Cmd \in Actors
      BY <1>4, ContextFacts DEF ResubmitFail, HoldsOK, TypeOK
    <3>2. hold' = [a \in Actors |-> IF a = Cmd THEN None ELSE hold[a]] /\ urb' = urb
      BY <1>4 DEF ResubmitFail, TypeOK
    <3>3. CASE bulkResetPipeid = p
      <4>1. BulkOutPending' = [q \in Pipes |-> IF q = p THEN FALSE ELSE BulkOutPending[q]]
        BY <1>4, <3>1, <3>3 DEF ResubmitFail, TypeOK
      <4>2. orphaned' = orphaned
        BY <1>4, <3>3 DEF ResubmitFail
      <4>. QED BY <3>1, <3>2, <4>1, <4>2, ContextFacts, ZenonT(60) DEF UsersOK, TypeOK, Same
    <3>4. CASE bulkResetPipeid # p
      <4>1. bulkResetPipeid \in Pipes => ~BulkOutPending[bulkResetPipeid]
        BY <1>4, <3>4 DEF ResubmitFail, ResubmitOK
      <4>2. BulkOutPending' = BulkOutPending
        BY <1>4, <4>1 DEF ResubmitFail, TypeOK
      <4>3. orphaned' = orphaned \cup {p}
        BY <1>4, <3>4 DEF ResubmitFail
      <4>. QED BY <3>1, <3>2, <4>2, <4>3, ContextFacts DEF UsersOK, TypeOK, Same
    <3>. QED BY <3>3, <3>4
  <2>2. HoldsOK'
    BY <1>4, ContextFacts DEF ResubmitFail, HoldsOK, TypeOK, Goto, Kick, Leave, Past, ToData
  <2>3. PsPollOK'
    BY <1>4, ContextFacts DEF ResubmitFail, PsPollOK, TypeOK, Goto, Kick, Leave, Past, ToData
  <2>4. ResubmitOK'
    BY <1>4, ContextFacts DEF ResubmitFail, ResubmitOK, HoldsOK, TypeOK, resetVars, Goto, Kick, Leave, Past, ToData
  <2>. QED BY <2>1, <2>2, <2>3, <2>4
<1>5. CASE ResetDeQueue
  <2>1. UsersOK'
    BY <1>5, SameUsers DEF ResetDeQueue, histVars
  <2>2. HoldsOK'
    BY <1>5, ContextFacts DEF ResetDeQueue, HoldsOK, TypeOK, Goto, Kick, Leave, Past, ToData, RTMPDeQueuePacket
  <2>3. PsPollOK'
    BY <1>5, ContextFacts DEF ResetDeQueue, PsPollOK, TypeOK, Goto, Kick, Leave, Past, ToData, RTMPDeQueuePacket
  <2>4. ResubmitOK'
    BY <1>5, ContextFacts DEF ResetDeQueue, ResubmitOK, HoldsOK, TypeOK, resetVars, Goto, Kick, Leave, Past, ToData, RTMPDeQueuePacket
  <2>. QED BY <2>1, <2>2, <2>3, <2>4
<1>. QED BY <1>1, <1>2, <1>3, <1>4, <1>5 DEF CmdStep

LEMMA UserHost ==
  ASSUME IInv, NEW c \in Contexts, Transferred(c) \/ TransferFailed(c)
  PROVE  UsersOK' /\ HoldsOK' /\ PsPollOK' /\ ResubmitOK'
<1>1. /\ UNCHANGED <<BulkOutPending, hold, orphaned, pc, ret, BULKOUT_RESET, bulkResetPipeid>>
      /\ urb' = [urb EXCEPT ![c] = urb'[c]] /\ urb'[c] \in {"ok", "error"} /\ urb[c] = "flying"
  BY DEF IInv, TypeOK, Transferred, TransferFailed, resetVars, histVars
<1>2. UsersOK'
  BY <1>1, SameUsers DEF IInv, TypeOK
<1>3. HoldsOK' /\ PsPollOK' /\ ResubmitOK'
  BY <1>1, ContextFacts DEF IInv, TypeOK, HoldsOK, PsPollOK, ResubmitOK
<1>. QED BY <1>2, <1>3

LEMMA Inductive ==
  /\ Init => IInv
  /\ IInv /\ [Next]_vars => IInv'
<1>1. ASSUME Init PROVE IInv
  <2>1. UsersOK /\ HoldsOK /\ PsPollOK /\ ResubmitOK
    BY <1>1, ContextFacts DEF Init, UsersOK, HoldsOK, PsPollOK, ResubmitOK
  <2>. QED BY <1>1, <2>1, TypeInit DEF IInv
<1>2. ASSUME IInv, [Next]_vars PROVE IInv'
  <2>. TypeOK'
    BY <1>2, TypeNext DEF IInv
  <2>1. CASE \E t \in {"task"} \X Tasks : Job(t)
    BY <1>2, <2>1, UserJob DEF IInv
  <2>2. CASE \E a \in Actors : Step(a)
    BY <1>2, <2>2, UserKick, UserTasklet, UserCmd DEF IInv, Step
  <2>3. CASE \E c \in Contexts : Transferred(c) \/ TransferFailed(c)
    BY <1>2, <2>3, UserHost DEF IInv
  <2>4. CASE Scan \/ UNCHANGED vars
    <3>1. UNCHANGED <<BulkOutPending, urb, hold, orphaned, pc, ret, BULKOUT_RESET,
                      bulkResetPipeid>>
      BY <2>4 DEF Scan, vars, resetVars, histVars
    <3>. QED BY <1>2, <3>1 DEF IInv, UsersOK, HoldsOK, PsPollOK, ResubmitOK, Same
  <2>. QED BY <1>2, <2>1, <2>2, <2>3, <2>4 DEF Next
<1>. QED BY <1>1, <1>2

----------------------------------------------------------------------------
\* OneUserPerPipe of BulkOut: a pipe never has two users, and is marked pending
\* while it has one.
THEOREM PipeHasOneUser == Spec => []OneUserPerPipe
<1>1. IInv => OneUserPerPipe
  BY ContextFacts DEF IInv, UsersOK, Same, OneUserPerPipe, Claimants, Outstanding
<1>. QED BY <1>1, Inductive, PTL DEF Spec

\* PendingHasUser of BulkOut: a pending pipe has a user, or was left by a
\* refused resubmission after bulkResetPipeid had moved on.
THEOREM PendingPipeHasUser == Spec => []PendingHasUser
<1>1. IInv => PendingHasUser
  BY DEF IInv, UsersOK, PendingHasUser, Claimants, Outstanding
<1>. QED BY <1>1, Inductive, PTL DEF Spec
----------------------------------------------------------------------------
(* The management ring.  Until a cell is claimed or filled out of turn, the *)
(* cells in use are an arc of the ring, and a management frame that is on   *)
(* its way is the first of them (OneOut): whoever has claimed the pipe for  *)
(* it, its URB, or the tasklet that frees the cell after the pipe.          *)

\* The n cells from d on.
Arc(d, n) == {(d + i) % MGMT_RING_SIZE : i \in 0..(n - 1)}

Freeing == pc[Mlme] = "mgmtfree"
OneOut ==
  /\ \A a \in Actors : hold[a] = Mlme => idx[a] = TxDmaIdx /\ SelfIdx = TxDmaIdx
  /\ urb[Mlme] # "idle" => SelfIdx = TxDmaIdx
  /\ Freeing => /\ idx[Mlme] = TxDmaIdx /\ urb[Mlme] = "idle"
                /\ \A a \in Actors : hold[a] # Mlme
  /\ Freeing \/ urb[Mlme] # "idle" \/ (\E a \in Actors : hold[a] = Mlme)
       => TxDmaIdx \in InUse \ bWaitingBulkOut
RingInv == IInv /\ (stale \/ (MgmtRingConsistent /\ OneOut))
LEMMA Remainder ==
  ASSUME NEW n \in Nat \ {0}, NEW x \in Nat, x < n + n
  PROVE  x % n = IF x < n THEN x ELSE x - n
<1>1. CASE x < n
  BY <1>1
<1>2. CASE n <= x
  <2>1. PICK y \in Nat : x = n + y /\ y < n
    BY <1>2
  <2>2. (n + y) % n = y
    BY <2>1
  <2> QED BY <1>2, <2>1, <2>2
<1> QED BY <1>1, <1>2

\* Growing an arc at its end, and taking its first cell away.
LEMMA ArcGrows ==
  ASSUME NEW d, NEW n \in Nat
  PROVE  Arc(d, n + 1) = Arc(d, n) \cup {(d + n) % MGMT_RING_SIZE}
<1>1. 0..((n + 1) - 1) = 0..(n - 1) \cup {n}
  OBVIOUS
<1> QED BY <1>1 DEF Arc

LEMMA ArcShrinks ==
  ASSUME NEW d \in Cells, NEW n \in 1..MGMT_RING_SIZE
  PROVE  /\ d \in Arc(d, n)
         /\ Arc(Inc(d), n - 1) = Arc(d, n) \ {d}
         /\ (Inc(d) + (n - 1)) % MGMT_RING_SIZE = (d + n) % MGMT_RING_SIZE
<1> PICK S \in Nat \ {0} : S = MGMT_RING_SIZE
  BY BulkOutAssumption
<1>0. d \in 0..(S - 1) /\ n \in 1..S
  BY DEF Cells
<1>1. \A i \in 0..S : (d + i) % S = IF d + i < S THEN d + i ELSE d + i - S
  <2> TAKE i \in 0..S
  <2> PICK x \in Nat : x = d + i /\ x < S + S
    BY <1>0
  <2>1. x % S = IF x < S THEN x ELSE x - S
    BY Remainder
  <2> QED BY <1>0, <2>1
<1>2. Inc(d) = IF d + 1 < S THEN d + 1 ELSE 0
  BY <1>0, <1>1 DEF Inc
<1>3. \A i \in 0..(S - 1) : (Inc(d) + i) % S = (d + (i + 1)) % S
  <2> TAKE i \in 0..(S - 1)
  <2>1. Inc(d) \in Nat /\ Inc(d) + i < S + S
    BY <1>0, <1>2
  <2>2. (Inc(d) + i) % S = IF Inc(d) + i < S THEN Inc(d) + i ELSE Inc(d) + i - S
    BY <2>1, Remainder
  <2>3. i + 1 \in 0..S
    OBVIOUS
  <2>4. (d + (i + 1)) % S = IF d + (i + 1) < S THEN d + (i + 1) ELSE d + (i + 1) - S
    BY <1>1, <2>3
  <2> HIDE DEF Inc
  <2> QED BY <1>0, <1>2, <2>2, <2>4
<1>4. d % S = d /\ \A i \in 1..(S - 1) : (d + i) % S # d
  BY <1>0, <1>1
<1>5. d \in Arc(d, n)
  <2>1. 0 \in 0..(n - 1) /\ (d + 0) % S = d
    BY <1>0, <1>4
  <2> QED BY <2>1 DEF Arc
<1>6. Arc(Inc(d), n - 1) = {(d + (i + 1)) % S : i \in 0..(n - 2)}
  <2>1. \A i \in 0..(n - 2) : (Inc(d) + i) % S = (d + (i + 1)) % S
    <3>1. \A i \in 0..(n - 2) : i \in 0..(S - 1)
      BY <1>0
    <3> QED BY <1>3, <3>1
  <2>2. 0..((n - 1) - 1) = 0..(n - 2)
    BY <1>0
  <2> QED BY <2>1, <2>2 DEF Arc
<1>7. ASSUME NEW x \in Arc(Inc(d), n - 1) PROVE x \in Arc(d, n) \ {d}
  <2>1. PICK i \in 0..(n - 2) : x = (d + (i + 1)) % S
    BY <1>6, <1>7
  <2>2. i + 1 \in 1..(n - 1) /\ i + 1 \in 1..(S - 1)
    BY <1>0
  <2>3. x # d
    BY <1>4, <2>1, <2>2
  <2>4. i + 1 \in 0..(n - 1)
    BY <2>2
  <2> QED BY <2>1, <2>3, <2>4 DEF Arc
<1>8. ASSUME NEW x \in Arc(d, n) \ {d} PROVE x \in Arc(Inc(d), n - 1)
  <2>1. PICK i \in 0..(n - 1) : x = (d + i) % S
    BY <1>8 DEF Arc
  <2>2. i # 0
    BY <1>0, <1>4, <1>8, <2>1
  <2>3. i - 1 \in 0..(n - 2) /\ (i - 1) + 1 = i
    BY <1>0, <2>2
  <2> QED BY <1>6, <2>1, <2>3
<1>9. (Inc(d) + (n - 1)) % S = (d + n) % S
  <2>1. n - 1 \in 0..(S - 1) /\ (n - 1) + 1 = n
    BY <1>0
  <2> QED BY <1>3, <2>1
<1> QED BY <1>5, <1>7, <1>8, <1>9

\* MgmtRingConsistent with the cells in use as an arc.
LEMMA RingAsArc ==
  ASSUME TypeOK
  PROVE  MgmtRingConsistent <=>
           (~stale =>
             /\ TxSwFreeIdx <= MGMT_RING_SIZE
             /\ TxCpuIdx = (TxDmaIdx + (MGMT_RING_SIZE - TxSwFreeIdx)) % MGMT_RING_SIZE
             /\ InUse = Arc(TxDmaIdx, MGMT_RING_SIZE - TxSwFreeIdx)
             /\ bWaitingBulkOut \subseteq InUse /\ InUse \subseteq bWaitingBulkOut \cup {TxDmaIdx})
BY DEF MgmtRingConsistent, Arc
\* A step that leaves the cells alone keeps the account of them, and keeps OneOut if no
\* management frame is handed on in it.
LEMMA CellsSame ==
  ASSUME MgmtRingConsistent, UNCHANGED <<mgmtVars, stale>>
  PROVE  MgmtRingConsistent'
BY DEF MgmtRingConsistent, mgmtVars

LEMMA OutSame ==
  ASSUME OneOut, UNCHANGED <<mgmtVars, SelfIdx>>,
         \A a \in Actors : hold'[a] = Mlme => hold[a] = Mlme /\ idx'[a] = idx[a],
         urb'[Mlme] # "idle" => urb[Mlme] # "idle",
         Freeing' => Freeing /\ idx'[Mlme] = idx[Mlme]
  PROVE  OneOut'
BY DEF OneOut, mgmtVars, Freeing

\* A management frame goes from the hand of its sender to the USB core.
LEMMA OutHandOver ==
  ASSUME TypeOK, UsersOK, OneOut, NEW a \in Actors, hold[a] # None, HandOver(a),
         UNCHANGED <<mgmtVars, SelfIdx>>,
         \A b \in Actors \ {a} : idx'[b] = idx[b],
         Freeing' => Freeing /\ a # Mlme
  PROVE  OneOut'
<1>0. Mlme \in Contexts /\ Mlme \in Actors /\ Mlme # None
  BY ContextFacts
<1>1. /\ urb' = [c \in Contexts |-> IF c = hold[a] THEN "flying" ELSE urb[c]]
      /\ hold' = [b \in Actors |-> IF b = a THEN None ELSE hold[b]]
  BY DEF TypeOK, HandOver
<1>2. CASE hold[a] = Mlme
  <2>1. /\ ~Freeing /\ SelfIdx = TxDmaIdx /\ TxDmaIdx \in InUse \ bWaitingBulkOut
        /\ \A b \in Actors \ {a} : hold[b] # Mlme
    BY <1>0, <1>2 DEF OneOut, UsersOK, Same
  <2>2. \A b \in Actors : hold'[b] # Mlme
    BY <1>0, <1>1, <2>1
  <2> QED BY <2>1, <2>2 DEF OneOut, mgmtVars
<1>3. CASE hold[a] # Mlme
  <2>1. urb'[Mlme] = urb[Mlme]
    BY <1>0, <1>1, <1>3
  <2>2. \A b \in Actors : hold'[b] = Mlme => hold[b] = Mlme /\ idx'[b] = idx[b]
    BY <1>0, <1>1
  <2>3. Freeing' => Freeing /\ idx'[Mlme] = idx[Mlme]
    BY <1>0
  <2> QED BY <2>1, <2>2, <2>3, OutSame
<1> QED BY <1>2, <1>3

LEMMA RingClaim ==
  ASSUME RingInv, ~stale, NEW a \in Actors, BulkOutMLMEClaim(a), ~stale'
  PROVE  MgmtRingConsistent' /\ OneOut'
<1>0. Mlme \in Contexts /\ Mlme \in Actors /\ Mlme # None /\ Pipe(Mlme) = 0
  BY ContextFacts
<1>1. TypeOK /\ UsersOK /\ HoldsOK /\ MgmtRingConsistent /\ OneOut
  BY DEF RingInv, IInv
<1>2. hold[a] = None /\ (Freeing' => Freeing /\ a # Mlme)
  BY <1>0, <1>1 DEF BulkOutMLMEClaim, HoldsOK, TypeOK, Freeing, Goto, ToData
<1>3. CASE Refused(0)
  <2>1. /\ UNCHANGED <<mgmtVars, SelfIdx, stale, hold, urb>>
        /\ \A b \in Actors \ {a} : idx'[b] = idx[b]
    BY <1>1, <1>3 DEF BulkOutMLMEClaim, mgmtVars, TypeOK
  <2>2. \A b \in Actors : hold'[b] = Mlme => hold[b] = Mlme /\ idx'[b] = idx[b]
    BY <1>0, <1>2, <2>1
  <2>3. Freeing' => Freeing /\ idx'[Mlme] = idx[Mlme]
    BY <1>0, <1>2, <2>1
  <2>4. MgmtRingConsistent'
    BY <1>1, <2>1, CellsSame
  <2> QED BY <1>1, <2>1, <2>2, <2>3, <2>4, OutSame
<1>4. CASE ~Refused(0)
  <2>1. /\ hold' = [b \in Actors |-> IF b = a THEN Mlme ELSE hold[b]]
        /\ bWaitingBulkOut' = bWaitingBulkOut \ {idx[a]} /\ SelfIdx' = idx[a]
        /\ idx[a] = TxDmaIdx /\ idx[a] \in bWaitingBulkOut
        /\ UNCHANGED <<idx, urb, InUse, TxCpuIdx, TxDmaIdx, TxSwFreeIdx>>
    BY <1>1, <1>4 DEF BulkOutMLMEClaim, Claim, TypeOK
  <2>2. /\ ~Freeing /\ urb[Mlme] = "idle" /\ \A b \in Actors : hold[b] # Mlme
    BY <1>1, <2>1 DEF OneOut
  <2>3. TxDmaIdx \in InUse
    BY <1>1, <2>1 DEF MgmtRingConsistent, RingInv
  <2>4. MgmtRingConsistent'
    BY <1>1, <2>1, <2>3 DEF MgmtRingConsistent
  <2>5. OneOut'
    BY <1>2, <2>1, <2>2, <2>3 DEF OneOut
  <2> QED BY <2>4, <2>5
<1> QED BY <1>3, <1>4

\* A management frame is put into the cell behind those in use.
LEMMA RingPut ==
  ASSUME RingInv, ~stale, NEW a \in Actors, RtmpUSBMgmtKickOut(a), ~stale'
  PROVE  MgmtRingConsistent' /\ OneOut'
<1>1. TypeOK /\ HoldsOK /\ MgmtRingConsistent /\ OneOut
  BY DEF RingInv, IInv
<1> PICK S \in Nat \ {0} : S = MGMT_RING_SIZE /\ S < UintMod /\ UintMod \in Nat
  BY BulkOutAssumption
<1>2. /\ InUse' = InUse \cup {TxCpuIdx} /\ bWaitingBulkOut' = bWaitingBulkOut \cup {TxCpuIdx}
      /\ TxSwFreeIdx' = (TxSwFreeIdx - 1) % UintMod /\ TxCpuIdx' = (TxCpuIdx + 1) % S
      /\ TxCpuIdx \notin InUse /\ UNCHANGED <<TxDmaIdx, SelfIdx, hold, urb, idx>>
  BY DEF RtmpUSBMgmtKickOut, Inc
<1> PICK u \in Int, d \in Int : u = S - TxSwFreeIdx /\ d = TxDmaIdx
  BY <1>1 DEF TypeOK, Cells
<1>3. /\ u \in 0..S /\ TxCpuIdx = (d + u) % S /\ InUse = Arc(d, u) /\ d \in 0..(S - 1)
      /\ TxSwFreeIdx = S - u
  BY <1>1, RingAsArc DEF TypeOK, Cells
<1>4. u # S
  <2>1. ASSUME u = S PROVE FALSE
    <3>1. (d + S) % S = d
      <4>1. d + S \in Nat /\ d + S < S + S /\ ~(d + S < S)
        BY <1>3
      <4> QED BY <4>1, Remainder
    <3>2. d \in Arc(d, S)
      BY <1>3, ArcShrinks DEF Cells
    <3> QED BY <1>2, <1>3, <2>1, <3>1, <3>2
  <2> QED BY <2>1
<1>5. u + 1 \in 1..S /\ TxSwFreeIdx' = S - (u + 1)
  <2>1. S - u - 1 \in Nat /\ S - u - 1 < UintMod
    BY <1>3, <1>4
  <2>2. (S - u - 1) % UintMod = S - u - 1
    BY <2>1
  <2> QED BY <1>2, <1>3, <1>4, <2>2
<1>6. InUse' = Arc(d, u + 1)
  BY <1>2, <1>3, ArcGrows
<1>7. TxCpuIdx' = (d + (u + 1)) % S
  <2> PICK x \in Nat : x = d + u /\ x < S + S /\ x + 1 < S + S
    BY <1>3, <1>4
  <2>1. x % S = IF x < S THEN x ELSE x - S
    BY Remainder
  <2>2. (x + 1) % S = IF x + 1 < S THEN x + 1 ELSE x + 1 - S
    BY Remainder
  <2>3. ((x % S) + 1) % S = (x + 1) % S
    <3>1. CASE x < S
      BY <2>1, <3>1
    <3>2. CASE ~(x < S)
      <4>1. (x % S) + 1 \in Nat /\ (x % S) + 1 < S
        BY <2>1, <3>2
      <4>2. ((x % S) + 1) % S = (x % S) + 1
        BY <4>1
      <4> QED BY <2>1, <2>2, <3>2, <4>2
    <3> QED BY <3>1, <3>2
  <2>4. d + (u + 1) = x + 1
    BY <1>3
  <2> QED BY <1>2, <1>3, <2>3, <2>4
<1>8. /\ bWaitingBulkOut \subseteq InUse /\ InUse \subseteq bWaitingBulkOut \cup {d}
  BY <1>1, RingAsArc
<1>9. MgmtRingConsistent'
  <2>1. u + 1 = S - TxSwFreeIdx' /\ TxSwFreeIdx' <= S
    BY <1>3, <1>5
  <2>2. Arc(d, u + 1) = {(d + i) % S : i \in 0..((u + 1) - 1)}
    BY DEF Arc
  <2> HIDE DEF Arc
  <2> QED BY <1>2, <1>6, <1>7, <1>8, <2>1, <2>2 DEF MgmtRingConsistent
<1>10. Freeing' => Freeing
  BY <1>1, ContextFacts DEF RtmpUSBMgmtKickOut, Freeing, Kick, Goto, TypeOK
<1>11. OneOut'
  BY <1>1, <1>2, <1>10 DEF OneOut
<1> QED BY <1>9, <1>11

\* The first cell is freed.
LEMMA RingFree ==
  ASSUME RingInv, ~stale, MgmtFree
  PROVE  MgmtRingConsistent' /\ OneOut'
<1>0. Mlme \in Contexts /\ Mlme \in Actors /\ Mlme # None
  BY ContextFacts
<1>1. TypeOK /\ HoldsOK /\ MgmtRingConsistent /\ OneOut /\ Freeing
  BY DEF RingInv, IInv, MgmtFree, Freeing
<1> PICK S \in Nat \ {0} : S = MGMT_RING_SIZE /\ S < UintMod /\ UintMod \in Nat
  BY BulkOutAssumption
<1> PICK u \in Int, d \in Int : u = S - TxSwFreeIdx /\ d = TxDmaIdx
  BY <1>1 DEF TypeOK, Cells
<1>2. /\ idx[Mlme] = d /\ urb[Mlme] = "idle" /\ (\A a \in Actors : hold[a] # Mlme)
      /\ d \in InUse \ bWaitingBulkOut
  BY <1>1 DEF OneOut
<1>3. /\ InUse' = InUse \ {d} /\ bWaitingBulkOut' = bWaitingBulkOut \ {d}
      /\ TxDmaIdx' = Inc(d) /\ TxSwFreeIdx' = (TxSwFreeIdx + 1) % UintMod
      /\ UNCHANGED <<TxCpuIdx, SelfIdx, hold, urb, stale>>
  BY <1>2 DEF MgmtFree, FreeCells, histVars
<1>4. /\ u \in 0..S /\ TxCpuIdx = (d + u) % S /\ InUse = Arc(d, u) /\ d \in 0..(S - 1)
      /\ TxSwFreeIdx = S - u /\ d \in Cells
      /\ bWaitingBulkOut \subseteq InUse /\ InUse \subseteq bWaitingBulkOut \cup {d}
  BY <1>1, RingAsArc DEF TypeOK, Cells
<1>5. u # 0
  <2>1. Arc(d, 0) = {}
    BY DEF Arc
  <2> QED BY <1>2, <1>4, <2>1
<1>6. u \in 1..S
  BY <1>4, <1>5
<1>7. /\ InUse' = Arc(Inc(d), u - 1)
      /\ TxCpuIdx' = (Inc(d) + (u - 1)) % S
  BY <1>3, <1>4, <1>6, ArcShrinks
<1>8. TxSwFreeIdx' = S - (u - 1)
  <2>1. S - u + 1 \in Nat /\ S - u + 1 < UintMod
    BY <1>6
  <2>2. (S - u + 1) % UintMod = S - u + 1
    BY <2>1
  <2> QED BY <1>3, <1>4, <2>2
<1>9. MgmtRingConsistent'
  <2>1. u - 1 = S - TxSwFreeIdx' /\ TxSwFreeIdx' <= S
    BY <1>6, <1>8
  <2>2. PICK e : e = Inc(d)
    OBVIOUS
  <2>3. Arc(e, u - 1) = {(e + i) % S : i \in 0..((u - 1) - 1)}
    BY DEF Arc
  <2>4. bWaitingBulkOut' \subseteq InUse' /\ InUse' \subseteq bWaitingBulkOut'
    BY <1>3, <1>4
  <2> HIDE DEF Arc, Inc
  <2> QED BY <1>3, <1>7, <2>1, <2>2, <2>3, <2>4 DEF MgmtRingConsistent
<1>10. ~Freeing'
  BY <1>0, <1>1 DEF MgmtFree, Freeing, Kick, Goto, TypeOK
<1>11. OneOut'
  BY <1>2, <1>3, <1>10 DEF OneOut
<1> QED BY <1>9, <1>11
LEMMA RingKick ==
  ASSUME RingInv, ~stale, NEW a \in Actors, KickStep(a), ~stale'
  PROVE  MgmtRingConsistent' /\ OneOut'
<1> TypeOK /\ UsersOK /\ HoldsOK /\ MgmtRingConsistent /\ OneOut
  BY DEF RingInv, IInv
<1>1. CASE RTUSBKickBulkOut(a)
  <2>1. UNCHANGED <<mgmtVars, SelfIdx, stale>>
    BY <1>1 DEF RTUSBKickBulkOut, mgmtVars, histVars
  <2>2. /\ \A b \in Actors : hold'[b] = Mlme => hold[b] = Mlme /\ idx'[b] = idx[b]
        /\ urb'[Mlme] # "idle" => urb[Mlme] # "idle"
        /\ Freeing' => Freeing /\ idx'[Mlme] = idx[Mlme]
    BY <1>1, ContextFacts DEF RTUSBKickBulkOut, HoldsOK, TypeOK, Freeing, Goto, Kick, Leave, Past, ToData
  <2> QED BY <2>1, <2>2, CellsSame, OutSame
<1>2. CASE KickData(a)
  <2>1. UNCHANGED <<mgmtVars, SelfIdx, stale>>
    BY <1>2 DEF KickData, mgmtVars, histVars
  <2>2. /\ \A b \in Actors : hold'[b] = Mlme => hold[b] = Mlme /\ idx'[b] = idx[b]
        /\ urb'[Mlme] # "idle" => urb[Mlme] # "idle"
        /\ Freeing' => Freeing /\ idx'[Mlme] = idx[Mlme]
    BY <1>2, ContextFacts DEF KickData, HoldsOK, TypeOK, Freeing, Goto, Kick, Leave, Past, ToData
  <2> QED BY <2>1, <2>2, CellsSame, OutSame
<1>3. CASE RTUSBBulkOutDataPacket(a)
  <2>1. UNCHANGED <<mgmtVars, SelfIdx, stale>>
    BY <1>3 DEF RTUSBBulkOutDataPacket, mgmtVars, histVars
  <2>2. /\ \A b \in Actors : hold'[b] = Mlme => hold[b] = Mlme /\ idx'[b] = idx[b]
        /\ urb'[Mlme] # "idle" => urb[Mlme] # "idle"
        /\ Freeing' => Freeing /\ idx'[Mlme] = idx[Mlme]
    <3>1. <<"data", at[a]>> # Mlme
      BY DEF Mlme
    <3> HIDE DEF Mlme
    <3> QED BY <1>3, <3>1, ContextFacts
            DEF RTUSBBulkOutDataPacket, HoldsOK, TypeOK, Freeing, Goto, Kick, Leave, Past, ToData, Claim, Refused
  <2> QED BY <2>1, <2>2, CellsSame, OutSame
<1>4. CASE BulkOutRing(a)
  <2>1. UNCHANGED <<mgmtVars, SelfIdx, stale>>
    BY <1>4 DEF BulkOutRing, mgmtVars, histVars
  <2>2. /\ \A b \in Actors : hold'[b] = Mlme => hold[b] = Mlme /\ idx'[b] = idx[b]
        /\ urb'[Mlme] # "idle" => urb[Mlme] # "idle"
        /\ Freeing' => Freeing /\ idx'[Mlme] = idx[Mlme]
    BY <1>4, ContextFacts DEF BulkOutRing, HoldsOK, TypeOK, Freeing, Goto, Kick, Leave, Past, ToData
  <2> QED BY <2>1, <2>2, CellsSame, OutSame
<1>5. CASE BulkOutEmpty(a)
  <2>1. UNCHANGED <<mgmtVars, SelfIdx, stale>>
    BY <1>5 DEF BulkOutEmpty, mgmtVars, histVars
  <2>2. /\ \A b \in Actors : hold'[b] = Mlme => hold[b] = Mlme /\ idx'[b] = idx[b]
        /\ urb'[Mlme] # "idle" => urb[Mlme] # "idle"
        /\ Freeing' => Freeing /\ idx'[Mlme] = idx[Mlme]
    BY <1>5, ContextFacts DEF BulkOutEmpty, HoldsOK, TypeOK, Freeing, Goto, Kick, Leave, Past, ToData, Release
  <2> QED BY <2>1, <2>2, CellsSame, OutSame
<1>6. CASE RTUSBBulkOutPsPoll(a)
  <2>1. UNCHANGED <<mgmtVars, SelfIdx, stale>>
    BY <1>6 DEF RTUSBBulkOutPsPoll, mgmtVars, histVars
  <2>2. /\ \A b \in Actors : hold'[b] = Mlme => hold[b] = Mlme /\ idx'[b] = idx[b]
        /\ urb'[Mlme] # "idle" => urb[Mlme] # "idle"
        /\ Freeing' => Freeing /\ idx'[Mlme] = idx[Mlme]
    BY <1>6, ContextFacts DEF RTUSBBulkOutPsPoll, HoldsOK, TypeOK, Freeing, Goto, Kick, Leave, Past, ToData, Claim, Refused
  <2> QED BY <2>1, <2>2, CellsSame, OutSame
<1>7. CASE RTUSBBulkOutNullFrame(a)
  <2>1. UNCHANGED <<mgmtVars, SelfIdx, stale>>
    BY <1>7 DEF RTUSBBulkOutNullFrame, mgmtVars, histVars
  <2>2. /\ \A b \in Actors : hold'[b] = Mlme => hold[b] = Mlme /\ idx'[b] = idx[b]
        /\ urb'[Mlme] # "idle" => urb[Mlme] # "idle"
        /\ Freeing' => Freeing /\ idx'[Mlme] = idx[Mlme]
    BY <1>7, ContextFacts DEF RTUSBBulkOutNullFrame, HoldsOK, TypeOK, Freeing, Goto, Kick, Leave, Past, ToData, Claim, Refused
  <2> QED BY <2>1, <2>2, CellsSame, OutSame
<1>8. CASE RTUSBBulkOutMLMEPacket(a)
  <2>1. UNCHANGED <<mgmtVars, SelfIdx, stale>>
    BY <1>8 DEF RTUSBBulkOutMLMEPacket, mgmtVars, histVars
  <2>2. /\ \A b \in Actors : hold'[b] = Mlme => hold[b] = Mlme /\ idx'[b] = idx[b]
        /\ urb'[Mlme] # "idle" => urb[Mlme] # "idle"
        /\ Freeing' => Freeing /\ idx'[Mlme] = idx[Mlme]
    BY <1>8, ContextFacts DEF RTUSBBulkOutMLMEPacket, HoldsOK, TypeOK, Freeing, Goto, Kick, Leave, Past, ToData
  <2> QED BY <2>1, <2>2, CellsSame, OutSame
<1>9. CASE BulkOutMLMEClaim(a)
  BY <1>9, RingClaim
<1>10. CASE SubmitOk(a)
  <2>1. UNCHANGED <<mgmtVars, SelfIdx, stale>> /\ HandOver(a) /\ hold[a] # None
    BY <1>10, ContextFacts DEF SubmitOk, HoldsOK, mgmtVars, histVars
  <2>2. /\ \A b \in Actors \ {a} : idx'[b] = idx[b]
        /\ Freeing' => Freeing /\ a # Mlme
    BY <1>10, ContextFacts DEF SubmitOk, TypeOK, Freeing, Goto, Kick, Leave, Past, ToData, AfterSubmit
  <2>3. a \in Actors
    OBVIOUS
  <2> QED BY <2>1, <2>2, <2>3, CellsSame, OutHandOver
<1>11. CASE SubmitFail(a)
  <2>0. Mlme \in Contexts /\ Mlme \in Actors /\ Mlme # None
    BY ContextFacts
  <2>1. /\ hold[a] # None /\ hold' = [b \in Actors |-> IF b = a THEN None ELSE hold[b]]
        /\ \A b \in Actors \ {a} : idx'[b] = idx[b]
        /\ UNCHANGED <<urb, InUse, TxCpuIdx, TxDmaIdx, TxSwFreeIdx, SelfIdx, stale>>
        /\ bWaitingBulkOut' = IF hold[a] = Mlme THEN bWaitingBulkOut \cup {idx[a]}
                                                ELSE bWaitingBulkOut
    BY <1>11 DEF SubmitFail, Release, HoldsOK, TypeOK, histVars
  <2>2. Freeing' => Freeing /\ a # Mlme
    BY <1>11, ContextFacts
       DEF SubmitFail, TypeOK, Freeing, AfterSubmit, Goto, Leave, Past, ToData
  <2>3. CASE hold[a] = Mlme
    <3>1. /\ idx[a] = TxDmaIdx /\ TxDmaIdx \in InUse /\ ~Freeing /\ urb[Mlme] = "idle"
          /\ \A b \in Actors \ {a} : hold[b] # Mlme
      BY <2>0, <2>3 DEF OneOut, UsersOK, Same
    <3>2. OneOut'
      BY <2>0, <2>1, <2>2, <3>1 DEF OneOut
    <3>3. bWaitingBulkOut' = bWaitingBulkOut \cup {TxDmaIdx}
      BY <2>1, <2>3, <3>1
    <3> QED BY <2>1, <3>1, <3>2, <3>3 DEF MgmtRingConsistent
  <2>4. CASE hold[a] # Mlme
    <3>1. UNCHANGED <<mgmtVars, SelfIdx, stale>>
      BY <2>1, <2>4 DEF mgmtVars
    <3>2. \A b \in Actors : hold'[b] = Mlme => hold[b] = Mlme /\ idx'[b] = idx[b]
      BY <2>0, <2>1
    <3>3. Freeing' => Freeing /\ idx'[Mlme] = idx[Mlme]
      BY <2>0, <2>1, <2>2
    <3>4. urb'[Mlme] = urb[Mlme]
      BY <2>1
    <3> QED BY <3>1, <3>2, <3>3, <3>4, CellsSame, OutSame
  <2> QED BY <2>3, <2>4
<1>12. CASE RtmpUSBMgmtKickOut(a)
  BY <1>12, RingPut
<1> QED BY <1>1, <1>2, <1>3, <1>4, <1>5, <1>6, <1>7, <1>8, <1>9, <1>10, <1>11, <1>12 DEF KickStep

LEMMA RingJob ==
  ASSUME RingInv, ~stale, NEW t \in {"task"} \X Tasks, Job(t), ~stale'
  PROVE  MgmtRingConsistent' /\ OneOut'
<1> TypeOK /\ UsersOK /\ HoldsOK /\ MgmtRingConsistent /\ OneOut
  BY DEF RingInv, IInv
<1>1. CASE DataKickOut(t)
  <2>1. UNCHANGED <<mgmtVars, SelfIdx, stale>>
    BY <1>1 DEF DataKickOut, mgmtVars, histVars
  <2>2. /\ \A b \in Actors : hold'[b] = Mlme => hold[b] = Mlme /\ idx'[b] = idx[b]
        /\ urb'[Mlme] # "idle" => urb[Mlme] # "idle"
        /\ Freeing' => Freeing /\ idx'[Mlme] = idx[Mlme]
    BY <1>1, ContextFacts DEF DataKickOut, HoldsOK, TypeOK, Freeing, Goto, Kick, Leave, Past, ToData, Starts
  <2> QED BY <2>1, <2>2, CellsSame, OutSame
<1>2. CASE RtmpUSBNullFrameKickOut(t)
  <2>1. UNCHANGED <<mgmtVars, SelfIdx, stale>>
    BY <1>2 DEF RtmpUSBNullFrameKickOut, mgmtVars, histVars
  <2>2. /\ \A b \in Actors : hold'[b] = Mlme => hold[b] = Mlme /\ idx'[b] = idx[b]
        /\ urb'[Mlme] # "idle" => urb[Mlme] # "idle"
        /\ Freeing' => Freeing /\ idx'[Mlme] = idx[Mlme]
    BY <1>2, ContextFacts DEF RtmpUSBNullFrameKickOut, HoldsOK, TypeOK, Freeing, Goto, Kick, Leave, Past, ToData, Starts
  <2> QED BY <2>1, <2>2, CellsSame, OutSame
<1>3. CASE PsPollEnqueue(t)
  <2>1. UNCHANGED <<mgmtVars, SelfIdx, stale>>
    BY <1>3 DEF PsPollEnqueue, mgmtVars, histVars
  <2>2. /\ \A b \in Actors : hold'[b] = Mlme => hold[b] = Mlme /\ idx'[b] = idx[b]
        /\ urb'[Mlme] # "idle" => urb[Mlme] # "idle"
        /\ Freeing' => Freeing /\ idx'[Mlme] = idx[Mlme]
    BY <1>3, ContextFacts DEF PsPollEnqueue, HoldsOK, TypeOK, Freeing, Goto, Kick, Leave, Past, ToData, Starts
  <2> QED BY <2>1, <2>2, CellsSame, OutSame
<1>4. CASE MiniportMMRequest(t)
  <2>1. UNCHANGED <<mgmtVars, SelfIdx, stale>>
    BY <1>4 DEF MiniportMMRequest, mgmtVars, histVars
  <2>2. /\ \A b \in Actors : hold'[b] = Mlme => hold[b] = Mlme /\ idx'[b] = idx[b]
        /\ urb'[Mlme] # "idle" => urb[Mlme] # "idle"
        /\ Freeing' => Freeing /\ idx'[Mlme] = idx[Mlme]
    BY <1>4, ContextFacts DEF MiniportMMRequest, HoldsOK, TypeOK, Freeing, Goto, Kick, Leave, Past, ToData, Starts
  <2> QED BY <2>1, <2>2, CellsSame, OutSame
<1> QED BY <1>1, <1>2, <1>3, <1>4 DEF Job

LEMMA RingTasklet ==
  ASSUME RingInv, ~stale, NEW c \in Contexts, TaskletStep(c), ~stale'
  PROVE  MgmtRingConsistent' /\ OneOut'
<1> TypeOK /\ UsersOK /\ HoldsOK /\ MgmtRingConsistent /\ OneOut
  BY DEF RingInv, IInv
<1>1. CASE rtusb_dataout_complete(c)
  <2>1. UNCHANGED <<mgmtVars, SelfIdx, stale>>
    BY <1>1 DEF rtusb_dataout_complete, mgmtVars, histVars
  <2>2. /\ \A b \in Actors : hold'[b] = Mlme => hold[b] = Mlme /\ idx'[b] = idx[b]
        /\ urb'[Mlme] # "idle" => urb[Mlme] # "idle"
        /\ Freeing' => Freeing /\ idx'[Mlme] = idx[Mlme]
    BY <1>1, ContextFacts DEF rtusb_dataout_complete, HoldsOK, TypeOK, Freeing, Goto, Kick, Leave, Past, ToData, Scheduled, FreePipe
  <2> QED BY <2>1, <2>2, CellsSame, OutSame
<1>2. CASE rtusb_ac_dma_done_tasklet(c)
  <2>1. UNCHANGED <<mgmtVars, SelfIdx, stale>>
    BY <1>2 DEF rtusb_ac_dma_done_tasklet, mgmtVars, histVars
  <2>2. /\ \A b \in Actors : hold'[b] = Mlme => hold[b] = Mlme /\ idx'[b] = idx[b]
        /\ urb'[Mlme] # "idle" => urb[Mlme] # "idle"
        /\ Freeing' => Freeing /\ idx'[Mlme] = idx[Mlme]
    BY <1>2, ContextFacts DEF rtusb_ac_dma_done_tasklet, HoldsOK, TypeOK, Freeing, Goto, Kick, Leave, Past, ToData
  <2> QED BY <2>1, <2>2, CellsSame, OutSame
<1>3. CASE AcSetNormal(c)
  <2>1. UNCHANGED <<mgmtVars, SelfIdx, stale>>
    BY <1>3 DEF AcSetNormal, mgmtVars, histVars
  <2>2. /\ \A b \in Actors : hold'[b] = Mlme => hold[b] = Mlme /\ idx'[b] = idx[b]
        /\ urb'[Mlme] # "idle" => urb[Mlme] # "idle"
        /\ Freeing' => Freeing /\ idx'[Mlme] = idx[Mlme]
    BY <1>3, ContextFacts DEF AcSetNormal, HoldsOK, TypeOK, Freeing, Goto, Kick, Leave, Past, ToData
  <2> QED BY <2>1, <2>2, CellsSame, OutSame
<1>4. CASE rtusb_null_frame_done_tasklet
  <2>1. UNCHANGED <<mgmtVars, SelfIdx, stale>>
    BY <1>4 DEF rtusb_null_frame_done_tasklet, mgmtVars, histVars
  <2>2. /\ \A b \in Actors : hold'[b] = Mlme => hold[b] = Mlme /\ idx'[b] = idx[b]
        /\ urb'[Mlme] # "idle" => urb[Mlme] # "idle"
        /\ Freeing' => Freeing /\ idx'[Mlme] = idx[Mlme]
    BY <1>4, ContextFacts DEF rtusb_null_frame_done_tasklet, HoldsOK, TypeOK, Freeing, Goto, Kick, Leave, Past, ToData, Scheduled, FreePipe, RTMPDeQueuePacket
  <2> QED BY <2>1, <2>2, CellsSame, OutSame
<1>5. CASE rtusb_pspoll_frame_done_tasklet
  <2>1. UNCHANGED <<mgmtVars, SelfIdx, stale>>
    BY <1>5 DEF rtusb_pspoll_frame_done_tasklet, mgmtVars, histVars
  <2>2. /\ \A b \in Actors : hold'[b] = Mlme => hold[b] = Mlme /\ idx'[b] = idx[b]
        /\ urb'[Mlme] # "idle" => urb[Mlme] # "idle"
        /\ Freeing' => Freeing /\ idx'[Mlme] = idx[Mlme]
    BY <1>5, ContextFacts DEF rtusb_pspoll_frame_done_tasklet, HoldsOK, TypeOK, Freeing, Goto, Kick, Leave, Past, ToData, Scheduled, RTMPDeQueuePacket
  <2> QED BY <2>1, <2>2, CellsSame, OutSame
<1>6. CASE PsPollFree
  <2>1. UNCHANGED <<mgmtVars, SelfIdx, stale>>
    BY <1>6 DEF PsPollFree, mgmtVars, histVars
  <2>2. /\ \A b \in Actors : hold'[b] = Mlme => hold[b] = Mlme /\ idx'[b] = idx[b]
        /\ urb'[Mlme] # "idle" => urb[Mlme] # "idle"
        /\ Freeing' => Freeing /\ idx'[Mlme] = idx[Mlme]
    BY <1>6, ContextFacts DEF PsPollFree, HoldsOK, TypeOK, Freeing, Goto, Kick, Leave, Past, ToData, FreePipe
  <2> QED BY <2>1, <2>2, CellsSame, OutSame
<1>7. CASE rtusb_mgmt_dma_done_tasklet
  <2>0. Mlme \in Contexts /\ Mlme \in Actors /\ Mlme # None
    BY ContextFacts
  <2>1. /\ UNCHANGED <<mgmtVars, SelfIdx, stale, hold>> /\ urb[Mlme] # "idle"
        /\ idx' = [a \in Actors |-> IF a = Mlme THEN SelfIdx ELSE idx[a]]
        /\ urb' = [d \in Contexts |-> IF d = Mlme THEN "idle" ELSE urb[d]]
    BY <1>7 DEF rtusb_mgmt_dma_done_tasklet, Scheduled, FreePipe, TypeOK, mgmtVars, histVars
  <2>2. \A a \in Actors : hold[a] # Mlme
    BY <2>0, <2>1 DEF UsersOK, Same
  <2>3. SelfIdx = TxDmaIdx /\ TxDmaIdx \in InUse \ bWaitingBulkOut
    BY <2>1 DEF OneOut
  <2>4. OneOut'
    BY <2>0, <2>1, <2>2, <2>3 DEF OneOut, mgmtVars
  <2> QED BY <2>1, <2>4, CellsSame
<1>8. CASE MgmtFree
  BY <1>8, RingFree
<1> QED BY <1>1, <1>2, <1>3, <1>4, <1>5, <1>6, <1>7, <1>8 DEF TaskletStep

LEMMA RingCmd ==
  ASSUME RingInv, ~stale, CmdStep, ~stale'
  PROVE  MgmtRingConsistent' /\ OneOut'
<1> TypeOK /\ UsersOK /\ HoldsOK /\ MgmtRingConsistent /\ OneOut
  BY DEF RingInv, IInv
<1>1. CASE ResetMgmt
  <2>1. UNCHANGED <<mgmtVars, SelfIdx, stale>>
    BY <1>1 DEF ResetMgmt, mgmtVars, histVars
  <2>2. /\ \A b \in Actors : hold'[b] = Mlme => hold[b] = Mlme /\ idx'[b] = idx[b]
        /\ urb'[Mlme] # "idle" => urb[Mlme] # "idle"
        /\ Freeing' => Freeing /\ idx'[Mlme] = idx[Mlme]
    BY <1>1, ContextFacts DEF ResetMgmt, HoldsOK, TypeOK, Freeing, Goto, Kick, Leave, Past, ToData
  <2> QED BY <2>1, <2>2, CellsSame, OutSame
<1>2. CASE ResetData
  <2>1. UNCHANGED <<mgmtVars, SelfIdx, stale>>
    BY <1>2 DEF ResetData, mgmtVars, histVars
  <2>2. /\ \A b \in Actors : hold'[b] = Mlme => hold[b] = Mlme /\ idx'[b] = idx[b]
        /\ urb'[Mlme] # "idle" => urb[Mlme] # "idle"
        /\ Freeing' => Freeing /\ idx'[Mlme] = idx[Mlme]
    <3>1. <<"data", bulkResetPipeid>> # Mlme
      BY DEF Mlme
    <3> HIDE DEF Mlme
    <3> QED BY <1>2, <3>1, ContextFacts
            DEF ResetData, HoldsOK, TypeOK, Freeing, Goto, Kick, Leave, Past, ToData, Claim
  <2> QED BY <2>1, <2>2, CellsSame, OutSame
<1>3. CASE ResubmitOk
  <2>1. UNCHANGED <<mgmtVars, SelfIdx, stale>> /\ HandOver(Cmd) /\ hold[Cmd] # None
    BY <1>3, ContextFacts DEF ResubmitOk, HoldsOK, mgmtVars, histVars
  <2>2. /\ \A b \in Actors \ {Cmd} : idx'[b] = idx[b]
        /\ Freeing' => Freeing /\ Cmd # Mlme
    BY <1>3, ContextFacts DEF ResubmitOk, TypeOK, Freeing, Goto, Kick, Leave, Past, ToData
  <2>3. Cmd \in Actors
    BY ContextFacts
  <2> QED BY <2>1, <2>2, <2>3, CellsSame, OutHandOver
<1>4. CASE ResubmitFail
  <2>1. UNCHANGED <<mgmtVars, SelfIdx, stale>>
    BY <1>4 DEF ResubmitFail, mgmtVars, histVars
  <2>2. /\ \A b \in Actors : hold'[b] = Mlme => hold[b] = Mlme /\ idx'[b] = idx[b]
        /\ urb'[Mlme] # "idle" => urb[Mlme] # "idle"
        /\ Freeing' => Freeing /\ idx'[Mlme] = idx[Mlme]
    BY <1>4, ContextFacts DEF ResubmitFail, HoldsOK, TypeOK, Freeing, Goto, Kick, Leave, Past, ToData
  <2> QED BY <2>1, <2>2, CellsSame, OutSame
<1>5. CASE ResetDeQueue
  <2>1. UNCHANGED <<mgmtVars, SelfIdx, stale>>
    BY <1>5 DEF ResetDeQueue, mgmtVars, histVars
  <2>2. /\ \A b \in Actors : hold'[b] = Mlme => hold[b] = Mlme /\ idx'[b] = idx[b]
        /\ urb'[Mlme] # "idle" => urb[Mlme] # "idle"
        /\ Freeing' => Freeing /\ idx'[Mlme] = idx[Mlme]
    BY <1>5, ContextFacts DEF ResetDeQueue, HoldsOK, TypeOK, Freeing, Goto, Kick, Leave, Past, ToData, RTMPDeQueuePacket
  <2> QED BY <2>1, <2>2, CellsSame, OutSame
<1> QED BY <1>1, <1>2, <1>3, <1>4, <1>5 DEF CmdStep

LEMMA RingHost ==
  ASSUME RingInv, ~stale, NEW c \in Contexts, Transferred(c) \/ TransferFailed(c)
  PROVE  MgmtRingConsistent' /\ OneOut'
<1> TypeOK /\ MgmtRingConsistent /\ OneOut
  BY DEF RingInv, IInv
<1>1. /\ UNCHANGED <<mgmtVars, SelfIdx, stale, hold, idx, pc>>
      /\ \A d \in Contexts : urb'[d] # "idle" => urb[d] # "idle"
  BY DEF TypeOK, Transferred, TransferFailed, histVars
<1> QED BY <1>1, ContextFacts, CellsSame, OutSame DEF Freeing

LEMMA RingInductive ==
  /\ Init => RingInv
  /\ RingInv /\ [Next]_vars => RingInv'
<1>1. ASSUME Init PROVE RingInv
  <2>1. IInv
    BY <1>1, Inductive
  <2>2. OneOut
    BY <1>1, ContextFacts DEF Init, OneOut, Freeing
  <2>3. MgmtRingConsistent
    <3> PICK S \in Nat \ {0} : S = MGMT_RING_SIZE
      BY BulkOutAssumption
    <3>1. (0 + (S - S)) % S = 0 /\ 0..(S - S - 1) = {}
      OBVIOUS
    <3> QED BY <1>1, <3>1 DEF Init, MgmtRingConsistent
  <2> QED BY <2>1, <2>2, <2>3 DEF RingInv
<1>2. ASSUME RingInv, [Next]_vars PROVE RingInv'
  <2>1. IInv'
    BY <1>2, Inductive DEF RingInv
  <2>2. ASSUME ~stale' PROVE MgmtRingConsistent' /\ OneOut'
    <3>1. ~stale
      BY <1>2, <2>2, ZenonT(60) DEF Next, vars, histVars, Job, Step, KickStep, TaskletStep, CmdStep,
         Transferred, TransferFailed, Scan,
         DataKickOut, RtmpUSBNullFrameKickOut, PsPollEnqueue, MiniportMMRequest,
         RTUSBKickBulkOut, KickData, RTUSBBulkOutDataPacket, BulkOutRing, BulkOutEmpty,
         RTUSBBulkOutPsPoll, RTUSBBulkOutNullFrame, RTUSBBulkOutMLMEPacket,
         BulkOutMLMEClaim, SubmitOk, SubmitFail, RtmpUSBMgmtKickOut,
         rtusb_dataout_complete, rtusb_ac_dma_done_tasklet, AcSetNormal,
         rtusb_null_frame_done_tasklet, rtusb_pspoll_frame_done_tasklet, PsPollFree,
         rtusb_mgmt_dma_done_tasklet, MgmtFree,
         ResetMgmt, ResetData, ResubmitOk, ResubmitFail, ResetDeQueue
    <3>2. CASE \E t \in {"task"} \X Tasks : Job(t)
      BY <1>2, <2>2, <3>1, <3>2, RingJob
    <3>3. CASE \E a \in Actors : Step(a)
      BY <1>2, <2>2, <3>1, <3>3, RingKick, RingTasklet, RingCmd DEF Step
    <3>4. CASE \E c \in Contexts : Transferred(c) \/ TransferFailed(c)
      BY <1>2, <2>2, <3>1, <3>4, RingHost
    <3>5. CASE Scan \/ UNCHANGED vars
      <4>1. UNCHANGED <<mgmtVars, SelfIdx, stale, hold, idx, urb, pc>>
        BY <3>5 DEF Scan, vars, histVars
      <4>2. MgmtRingConsistent /\ OneOut
        BY <1>2, <3>1 DEF RingInv
      <4> QED BY <4>1, <4>2, CellsSame, OutSame DEF Freeing
    <3> QED BY <1>2, <3>2, <3>3, <3>4, <3>5 DEF Next
  <2> QED BY <2>1, <2>2 DEF RingInv
<1> QED BY <1>1, <1>2

\* MgmtRingConsistent of BulkOut: the counters of the management ring agree with
\* its cells, until one is claimed or filled out of turn.
THEOREM MgmtRingAgrees == Spec => []MgmtRingConsistent
<1>1. RingInv => MgmtRingConsistent
  BY DEF RingInv, MgmtRingConsistent
<1> QED BY <1>1, RingInductive, PTL DEF Spec
=============================================================================

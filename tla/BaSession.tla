----------------------------- MODULE BaSession ------------------------------
(***************************************************************************)
(* The table of block acknowledgement agreements of a station and its       *)
(* access point: originator entries set up from the transmit path or by a    *)
(* user, retried by the timer task, answered, refused and deleted by the     *)
(* peer, torn down by the periodic work, a user, or with the peer's entry of *)
(* the MAC table; recipient entries beside them.  BATabLock covers only the  *)
(* counters and the choice of a free entry: each operation is cut where it   *)
(* leaves an entry to look at it, or to change it, again.                    *)
(***************************************************************************)
EXTENDS Integers, FiniteSets, FiniteSetsExt

CONSTANTS
  TID,          \* traffic classes
  NOri, NRec,   \* entries 1..NOri of BAOriEntry, 1..NRec of BARecEntry
  MaxOri,       \* MAX_LEN_OF_BA_ORI_TABLE, above the entries in use
  MaxRec,       \* MAX_BARECI_SESSION
  MaxRetry,     \* ORI_SESSION_MAX_RETRY
  Tasks,        \* of "mlme", "timer", "tx", "user"
  MaxEvents     \* bound: requests, frames of the peer of its own accord, failed
                \* allocations and tear-downs in one behaviour

ASSUME BaSessionAssumption ==
  /\ IsFiniteSet(TID) /\ TID # {}
  /\ NOri \in Nat \ {0} /\ NRec \in Nat \ {0} /\ MaxOri \in Nat /\ MaxRec \in Nat
  /\ MaxRetry \in Nat \ {0} /\ Tasks \subseteq {"mlme", "timer", "tx", "user"}
  /\ MaxRec <= NRec /\ MaxEvents \in Nat

VARIABLES
  ht,                        \* the peer has its entry in the MAC table
  oriIdx, recIdx,            \* BAOriWcidArray, BARecWcidArray: 0 is none
  TXBAbitmap, BADeclineBitmap,
  ori, armed,                \* BAOriEntry, and the entries whose ORIBATimer is armed
  rec,                       \* BARecEntry
  numAsOriginator, numDoneOriginator, numAsRecipient,
  addba,                     \* MT2_MLME_ADD_BA_CATE in the message queue
  asked,                     \* ADDBA requests the peer has still to answer
  pc,                        \* what each task is about to do, with the entry in hand
  deleting, left,            \* MacTableDeleteEntry runs; the sides it has still to tear down
  events,
  met                        \* two tasks have had one entry or one TID in hand at once

peerVars == <<ht, oriIdx, recIdx, TXBAbitmap, BADeclineBitmap>>
oriVars == <<ori, armed, numAsOriginator, numDoneOriginator>>
recVars == <<rec, numAsRecipient>>
msgVars == <<addba, asked>>
delVars == <<deleting, left>>
stepVars == <<peerVars, oriVars, recVars, msgVars, pc, deleting, left, events>>
vars == <<stepVars, met>>

Oris == 1..NOri
Recs == 1..NRec

Idle == [at |-> "idle", tab |-> "none", i |-> 0, tid |-> 0]
At(p, step) == pc[p].at = step
Go(p, step, tab, i, tid) ==
  pc' = [pc EXCEPT ![p] = [at |-> step, tab |-> tab, i |-> i, tid |-> tid]]
Done(p) == pc' = [pc EXCEPT ![p] = Idle]
Free(p) == p \in Tasks /\ At(p, "idle")
Begin(p) == Free(p) /\ (p = "mlme" => ~deleting)

Event == events < MaxEvents /\ events' = events + 1
NoEvent == UNCHANGED events

NoOri == [st |-> "NONE", tid |-> 0, token |-> 0]
NoRec == [st |-> "NONE", tid |-> 0]

\* The station has associated (LinkUp) and no agreement is asked for yet.
Init ==
  /\ ht = TRUE
  /\ oriIdx = [t \in TID |-> 0] /\ recIdx = [t \in TID |-> 0]
  /\ TXBAbitmap = {} /\ BADeclineBitmap = {}
  /\ ori = [i \in Oris |-> NoOri] /\ armed = {}
  /\ rec = [i \in Recs |-> NoRec]
  /\ numAsOriginator = 0 /\ numDoneOriginator = 0 /\ numAsRecipient = 0
  /\ addba = {} /\ asked = {}
  /\ pc = [p \in Tasks |-> Idle] /\ deleting = FALSE /\ left = {}
  /\ events = 0 /\ met = FALSE

----------------------------------------------------------------------------
(* Setting up an agreement as originator, BAOriSessionSetUp. *)

FreeOris == {i \in Oris : ori[i].st = "NONE"}

CountIn == numAsOriginator' = numAsOriginator + 1

\* BATableAllocOriEntry; the entry of the TID is taken again if it has one.
SetUpEntry(p, tid) ==
  /\ Begin(p) /\ ht
  /\ IF oriIdx[tid] # 0
     THEN Go(p, "setup", "ori", oriIdx[tid], tid) /\ UNCHANGED oriVars
     ELSE /\ numAsOriginator < MaxOri /\ FreeOris # {}
          /\ ori' = [ori EXCEPT ![Min(FreeOris)].st = "USED"]
          /\ CountIn
          /\ Go(p, "setup", "ori", Min(FreeOris), tid)
          /\ UNCHANGED <<armed, numDoneOriginator>>
  /\ UNCHANGED <<peerVars, recVars, msgVars, delVars>>

\* STASendPacket, for a frame of the TID.
TxSetUp(tid) == tid \notin TXBAbitmap \cup BADeclineBitmap /\ Event /\ SetUpEntry("tx", tid)
UserSetUp(tid) == Event /\ SetUpEntry("user", tid)

\* An entry being asked for, or agreed, is left alone.
SetUpFill(p) ==
  LET i == pc[p].i IN
  /\ At(p, "setup")
  /\ IF ori[i].st \in {"WaitRes", "Done"}
     THEN Done(p) /\ UNCHANGED <<oriIdx, oriVars>>
     ELSE /\ oriIdx' = [oriIdx EXCEPT ![pc[p].tid] = i]
          /\ ori' = [ori EXCEPT ![i] = [st |-> "WaitRes", tid |-> pc[p].tid, token |-> 1]]
          /\ armed' = armed \ {i}
          /\ Go(p, "set", "ori", i, pc[p].tid)
          /\ UNCHANGED <<numAsOriginator, numDoneOriginator>>
  /\ UNCHANGED <<ht, recIdx, TXBAbitmap, BADeclineBitmap, recVars, msgVars, delVars, events>>

SetUpTimer(p) ==
  /\ At(p, "set") /\ armed' = armed \cup {pc[p].i} /\ Done(p)
  /\ UNCHANGED <<peerVars, ori, numAsOriginator, numDoneOriginator, recVars, msgVars, delVars,
                 events>>

----------------------------------------------------------------------------
(* Retrying: BAOriSessionSetupTimeout in the timer task. *)

TakeTimer(i) ==
  /\ Begin("timer") /\ i \in armed /\ armed' = armed \ {i}
  /\ Go("timer", "late", "ori", i, ori[i].tid)
  /\ UNCHANGED <<peerVars, ori, numAsOriginator, numDoneOriginator, recVars, msgVars, delVars,
                 events>>

\* Mutant of Again: one retry too many.
OnceMore(e) == e.st = "WaitRes" /\ e.token <= MaxRetry
Again(e) == e.st = "WaitRes" /\ e.token < MaxRetry

\* The entry is asked for again (the message queue may be full) or its TID's is freed.
Timeout ==
  LET i == pc["timer"].i
      other == oriIdx[pc["timer"].tid] IN
  /\ "timer" \in Tasks /\ At("timer", "late")
  /\ IF Again(ori[i])
     THEN addba' \in {addba, addba \cup {ori[i].tid}} /\ Go("timer", "retry", "ori", i, ori[i].tid)
     ELSE /\ IF other = 0 THEN Done("timer") ELSE Go("timer", "free", "ori", other, pc["timer"].tid)
          /\ UNCHANGED addba
  /\ UNCHANGED <<peerVars, oriVars, recVars, asked, delVars, events>>

\* Mutant of Tried: the retries are not counted.
TriedAnyway(e) == e
Tried(e) == [e EXCEPT !.token = @ + 1]

Retry ==
  LET i == pc["timer"].i IN
  /\ "timer" \in Tasks /\ At("timer", "retry")
  /\ ori' = [ori EXCEPT ![i] = Tried(@)] /\ armed' = armed \cup {i} /\ Done("timer")
  /\ UNCHANGED <<peerVars, numAsOriginator, numDoneOriginator, recVars, msgVars, delVars, events>>

\* The request is sent only while the TID has its entry.
MlmeADDBAAction(tid) ==
  /\ Begin("mlme") /\ tid \in addba /\ addba' = addba \ {tid}
  /\ asked' = IF oriIdx[tid] # 0 THEN asked \cup {tid} ELSE asked
  /\ UNCHANGED <<peerVars, oriVars, recVars, pc, delVars, events>>

----------------------------------------------------------------------------
(* The peer's answer: PeerAddBARspAction. *)

BAOriSessionAdd(tid) ==
  LET i == oriIdx[tid] IN
  /\ Begin("mlme") /\ tid \in asked /\ asked' = asked \ {tid}
  /\ IF i # 0 /\ ori[i].tid = tid /\ ori[i].st = "WaitRes"
     THEN /\ ori' = [ori EXCEPT ![i].st = "Done"]
          /\ numDoneOriginator' = numDoneOriginator + 1
          /\ Go("mlme", "add", "ori", i, tid)
     ELSE UNCHANGED <<ori, numDoneOriginator, pc>>
  /\ UNCHANGED <<peerVars, armed, numAsOriginator, recVars, addba, delVars, events>>

\* Mutant of StopTimer: the retries go on.
StopNothing(i) == UNCHANGED armed
StopTimer(i) == armed' = armed \ {i}

AddDone ==
  /\ "mlme" \in Tasks /\ At("mlme", "add")
  /\ TXBAbitmap' = TXBAbitmap \cup {pc["mlme"].tid}
  /\ StopTimer(pc["mlme"].i) /\ Done("mlme")
  /\ UNCHANGED <<ht, oriIdx, recIdx, BADeclineBitmap, ori, numAsOriginator, numDoneOriginator,
                 recVars, msgVars, delVars, events>>

----------------------------------------------------------------------------
(* Tearing down as originator: BAOriSessionTearDown and BATableFreeOriEntry. *)

\* No memory for the DELBA: the agreement stays.
Forget(p, tid, passive) ==
  ~passive /\ ori[oriIdx[tid]].st = "Done" /\ ori[oriIdx[tid]].tid = tid /\ Event

TearOri(p, tid, passive) ==
  \/ oriIdx[tid] = 0 /\ NoEvent /\ UNCHANGED pc
  \/ oriIdx[tid] # 0 /\ Forget(p, tid, passive) /\ UNCHANGED pc
  \/ oriIdx[tid] # 0 /\ NoEvent /\ Go(p, "stop", "ori", oriIdx[tid], tid)

StopOri(p) ==
  LET i == pc[p].i IN
  /\ At(p, "stop") /\ armed' = armed \ {i} /\ Go(p, "free", "ori", i, pc[p].tid)
  /\ UNCHANGED <<peerVars, ori, numAsOriginator, numDoneOriginator, recVars, msgVars, delVars,
                 events>>

\* BATableFreeOriEntry looks at the entry outside the lock.
FreeOri(p) ==
  LET i == pc[p].i IN
  /\ At(p, "free")
  /\ IF ori[i].st # "NONE"
     THEN oriIdx' = [oriIdx EXCEPT ![ori[i].tid] = 0] /\ Go(p, "freed", "ori", i, pc[p].tid)
     ELSE Done(p) /\ UNCHANGED oriIdx
  /\ UNCHANGED <<ht, recIdx, TXBAbitmap, BADeclineBitmap, oriVars, recVars, msgVars, delVars, events>>

\* Mutant of Unmark: the transmit path goes on with the agreement.
KeepMark(t) == UNCHANGED TXBAbitmap
Unmark(t) == TXBAbitmap' = TXBAbitmap \ {t}

FreedOri(p) ==
  LET i == pc[p].i IN
  /\ At(p, "freed")
  /\ IF ori[i].st = "Done"
     THEN numDoneOriginator' = numDoneOriginator - 1 /\ Unmark(ori[i].tid)
     ELSE UNCHANGED <<numDoneOriginator, TXBAbitmap>>
  /\ numAsOriginator' = numAsOriginator - 1
  /\ ori' = [ori EXCEPT ![i].st = "NONE", ![i].token = 0]
  /\ Done(p)
  /\ UNCHANGED <<ht, oriIdx, recIdx, BADeclineBitmap, armed, recVars, msgVars, delVars, events>>

----------------------------------------------------------------------------
(* The recipient's side: BARecSessionAdd, BARecSessionTearDown and the table. *)

FreeRecs == {i \in Recs : rec[i].st = "NONE"}

PeerAddBAReqAction(tid) ==
  /\ Begin("mlme") /\ ht /\ Event
  /\ IF recIdx[tid] # 0
     THEN Go("mlme", "accept", "rec", recIdx[tid], tid) /\ UNCHANGED recVars
     ELSE IF numAsRecipient >= MaxRec
     THEN UNCHANGED <<pc, recVars>>  \* refused with status 38
     ELSE /\ rec' = [rec EXCEPT ![Min(FreeRecs)].st = "USED"]
          /\ numAsRecipient' = numAsRecipient + 1
          /\ Go("mlme", "accept", "rec", Min(FreeRecs), tid)
  /\ UNCHANGED <<peerVars, oriVars, msgVars, delVars>>

AcceptRec ==
  LET i == pc["mlme"].i  t == pc["mlme"].tid IN
  /\ "mlme" \in Tasks /\ At("mlme", "accept")
  /\ rec' = [rec EXCEPT ![i] = [st |-> "Accept", tid |-> t]]
  /\ recIdx' = [recIdx EXCEPT ![t] = i]
  /\ BADeclineBitmap' = BADeclineBitmap \ {t}
  /\ Done("mlme")
  /\ UNCHANGED <<ht, oriIdx, TXBAbitmap, oriVars, numAsRecipient, msgVars, delVars, events>>

\* No memory for the DELBA: the agreement stays.
TearRec(p, tid, passive) ==
  LET i == recIdx[tid] IN
  \/ i = 0 /\ NoEvent /\ UNCHANGED pc
  \/ i # 0 /\ ~passive /\ rec[i] = [st |-> "Accept", tid |-> tid] /\ Event /\ UNCHANGED pc
  \/ i # 0 /\ NoEvent /\ Go(p, "flush", "rec", i, tid)

\* The entry is flushed and unmapped, if it is still that of the TID.
FlushRec(p) ==
  LET i == pc[p].i IN
  /\ At(p, "flush")
  /\ recIdx' = IF rec[i] = [st |-> "Accept", tid |-> pc[p].tid]
               THEN [recIdx EXCEPT ![pc[p].tid] = 0] ELSE recIdx
  /\ Go(p, "freeRec", "rec", i, pc[p].tid)
  /\ UNCHANGED <<ht, oriIdx, TXBAbitmap, BADeclineBitmap, oriVars, recVars, msgVars, delVars, events>>

FreeRec(p) ==
  LET i == pc[p].i IN
  /\ At(p, "freeRec")
  /\ IF rec[i].st # "NONE"
     THEN recIdx' = [recIdx EXCEPT ![rec[i].tid] = 0] /\ Go(p, "freedRec", "rec", i, pc[p].tid)
     ELSE Done(p) /\ UNCHANGED recIdx
  /\ UNCHANGED <<ht, oriIdx, TXBAbitmap, BADeclineBitmap, oriVars, recVars, msgVars, delVars, events>>

\* Mutant of CountOut: the entry is free and still counted.
StillCounted == UNCHANGED numAsRecipient
CountOut == numAsRecipient' = numAsRecipient - 1

FreedRec(p) ==
  LET i == pc[p].i IN
  /\ At(p, "freedRec") /\ rec' = [rec EXCEPT ![i].st = "NONE"] /\ CountOut /\ Done(p)
  /\ UNCHANGED <<peerVars, oriVars, msgVars, delVars, events>>

----------------------------------------------------------------------------
(* Who tears down. *)

TearFrame == UNCHANGED <<peerVars, oriVars, recVars, delVars>>

\* A status other than 0; after 37 the transmit path does not ask again.
PeerAddBARspRefuses(tid) ==
  /\ Begin("mlme") /\ tid \in asked /\ asked' = asked \ {tid}
  /\ TearOri("mlme", tid, TRUE)
  /\ BADeclineBitmap' \in {BADeclineBitmap, BADeclineBitmap \cup {tid}}
  /\ UNCHANGED <<ht, oriIdx, recIdx, TXBAbitmap, oriVars, recVars, addba, delVars>>

PeerDelBAAction(tid) ==
  /\ Begin("mlme") /\ events < MaxEvents /\ events' = events + 1
  /\ \/ oriIdx[tid] # 0 /\ Go("mlme", "stop", "ori", oriIdx[tid], tid)
     \/ recIdx[tid] # 0 /\ Go("mlme", "flush", "rec", recIdx[tid], tid)
  /\ TearFrame /\ UNCHANGED msgVars

\* NICUpdateFifoStaCounters, after a frame failed: each TID that has an agreement
\* (a step stands for one of them; no memory for a DELBA spares it).
FifoFails(tid) ==
  /\ Begin("timer") /\ events < MaxEvents /\ events' = events + 1
  /\ oriIdx[tid] # 0 /\ Go("timer", "stop", "ori", oriIdx[tid], tid)
  /\ TearFrame /\ UNCHANGED msgVars

UserTearDown(tid) ==
  /\ Begin("user") /\ events < MaxEvents /\ events' = events + 1
  /\ \/ oriIdx[tid] # 0 /\ Go("user", "stop", "ori", oriIdx[tid], tid)
     \/ recIdx[tid] # 0 /\ Go("user", "flush", "rec", recIdx[tid], tid)
  /\ TearFrame /\ UNCHANGED msgVars

\* MacTableDeleteEntry: BASessionTearDownALL, then the MAC table entry is zeroed.
Delete ==
  /\ Begin("mlme") /\ ht /\ Event
  /\ deleting' = TRUE /\ left' = {"ori", "rec"} \X TID
  /\ UNCHANGED <<peerVars, oriVars, recVars, msgVars, pc>>

TearNext(side, tid) ==
  /\ Free("mlme") /\ <<side, tid>> \in left
  /\ left' = left \ {<<side, tid>>}
  /\ IF side = "ori" THEN TearOri("mlme", tid, FALSE) ELSE TearRec("mlme", tid, FALSE)
  /\ UNCHANGED <<peerVars, oriVars, recVars, msgVars, deleting>>

Zero ==
  /\ Free("mlme") /\ deleting /\ left = {}
  /\ ht' = FALSE /\ TXBAbitmap' = {} /\ BADeclineBitmap' = {}
  /\ oriIdx' = [t \in TID |-> 0] /\ recIdx' = [t \in TID |-> 0]
  /\ deleting' = FALSE
  /\ UNCHANGED <<oriVars, recVars, msgVars, pc, left, events>>

\* LinkUp.
Connect ==
  /\ Begin("mlme") /\ ~ht /\ NoEvent /\ ht' = TRUE
  /\ UNCHANGED <<oriIdx, recIdx, TXBAbitmap, BADeclineBitmap, oriVars, recVars, msgVars, pc, delVars>>

----------------------------------------------------------------------------
InHand(p) == pc[p].at # "idle"
Overlap ==
  \E p, q \in Tasks :
    /\ p # q /\ InHand(p) /\ InHand(q) /\ pc[p].tab = pc[q].tab
    /\ pc[p].i = pc[q].i \/ pc[p].tid = pc[q].tid

TaskStep(p) ==
  \/ SetUpFill(p) \/ SetUpTimer(p)
  \/ StopOri(p) \/ FreeOri(p) \/ FreedOri(p)
  \/ FlushRec(p) \/ FreeRec(p) \/ FreedRec(p)

Step ==
  \/ \E tid \in TID :
       \/ TxSetUp(tid) \/ UserSetUp(tid) \/ MlmeADDBAAction(tid)
       \/ BAOriSessionAdd(tid) \/ PeerAddBARspRefuses(tid) \/ PeerAddBAReqAction(tid)
       \/ PeerDelBAAction(tid) \/ FifoFails(tid) \/ UserTearDown(tid)
       \/ \E side \in {"ori", "rec"} : TearNext(side, tid)
  \/ \E i \in Oris : TakeTimer(i)
  \/ Timeout \/ Retry \/ AddDone \/ AcceptRec \/ Delete \/ Zero \/ Connect
  \/ \E p \in Tasks : TaskStep(p)

Next == Step /\ met' = (met \/ Overlap')

\* A task goes on with what it has in hand, and the timer task takes timers that expire.
GoesOn(p) ==
  \/ TaskStep(p)
  \/ p = "mlme" /\ (AddDone \/ AcceptRec \/ Zero)
  \/ p = "timer" /\ (Timeout \/ Retry \/ \E i \in Oris : TakeTimer(i))

Fairness == \A p \in Tasks : WF_stepVars(GoesOn(p))

Spec == Init /\ [][Next]_vars /\ Fairness

\* Runs stop where every property is excused.
NotMet == ~met

----------------------------------------------------------------------------
(* Properties *)

Steps == {"idle", "setup", "set", "late", "retry", "add", "stop", "free", "freed", "accept",
          "flush", "freeRec", "freedRec"}

\* Types; an agreement is retried at most ORI_SESSION_MAX_RETRY times.
TypeOK ==
  /\ ht \in BOOLEAN /\ met \in BOOLEAN /\ deleting \in BOOLEAN
  /\ oriIdx \in [TID -> 0..NOri] /\ recIdx \in [TID -> 0..NRec]
  /\ TXBAbitmap \subseteq TID /\ BADeclineBitmap \subseteq TID
  /\ \A i \in Oris : /\ ori[i].st \in {"NONE", "USED", "WaitRes", "Done"}
                     /\ ori[i].tid \in TID \cup {0} /\ ori[i].token \in 0..MaxRetry
  /\ \A i \in Recs : rec[i].st \in {"NONE", "USED", "Accept"} /\ rec[i].tid \in TID \cup {0}
  /\ armed \subseteq Oris /\ addba \subseteq TID /\ asked \subseteq TID
  /\ \A p \in Tasks : pc[p].at \in Steps
  /\ left \subseteq {"ori", "rec"} \X TID /\ events \in 0..MaxEvents

Handled(i) == \E p \in Tasks : InHand(p) /\ pc[p].tab = "ori" /\ pc[p].i = i
TidHandled(tab, t) == \E p \in Tasks : InHand(p) /\ pc[p].tab = tab /\ pc[p].tid = t

\* Entries of agreements that no TID of the peer leads to any more.
Orphans == {i \in Oris : ori[i].st \in {"WaitRes", "Done"} /\ ~Handled(i) /\ oriIdx[ori[i].tid] # i}

\* The counters that bound the two tables, kept under BATabLock by every path
\* that takes or frees an entry, agree with the entries.
Counted ==
  met \/ /\ numAsOriginator = Cardinality({i \in Oris : ori[i].st # "NONE"})
         /\ numAsRecipient = Cardinality({i \in Recs : rec[i].st # "NONE"})
         /\ \A i \in Oris : ori[i].st = "Done" => numDoneOriginator > 0

\* The transmit path aggregates a TID exactly while the peer has agreed to it.
TxAgreed ==
  met \/ Orphans # {} \/
  \A t \in TID : ~TidHandled("ori", t) =>
    (t \in TXBAbitmap <=> oriIdx[t] # 0 /\ ori[oriIdx[t]] = [ori[oriIdx[t]] EXCEPT !.st = "Done", !.tid = t])

\* An unanswered agreement has its timer armed, and the timer of any other
\* entry is off, so a timeout never frees an entry that has been set up since.
WaitingIffTimed ==
  met \/ Orphans # {} \/
  \A i \in Oris : ~Handled(i) => (ori[i].st = "WaitRes" <=> i \in armed)

\* "ASSERT(pAd->BATable.numAsOriginator != 0)" (ba_action.c:813) where an entry is freed.
FreesCounted == \A p \in Tasks : At(p, "freed") => numAsOriginator # 0

\* An agreement asked for is answered or given up: it does not wait for ever.
SetupEnds ==
  \A t \in TID : (oriIdx[t] # 0 /\ ori[oriIdx[t]].st = "WaitRes")
                 ~> (oriIdx[t] = 0 \/ ori[oriIdx[t]].st # "WaitRes" \/ met)
=============================================================================

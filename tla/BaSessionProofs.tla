--------------------------- MODULE BaSessionProofs ----------------------------
(***************************************************************************)
(* The table of agreements, for every number of TIDs, entries and retries,   *)
(* up to the point where two tasks have had one entry or one TID in hand at   *)
(* once: the counters agree with the entries, the transmit path aggregates    *)
(* what the peer has agreed to, and an unanswered agreement has its timer.    *)
(***************************************************************************)
EXTENDS BaSession, FiniteSetTheorems, TLAPS

OriSteps == {"setup", "set", "late", "retry", "add", "stop", "free", "freed"}
RecSteps == {"accept", "flush", "freeRec", "freedRec"}
Hand == [at : Steps, tab : {"none", "ori", "rec"}, i : Nat, tid : TID \cup {0}]

OriHand(p) == pc[p].at \in OriSteps
RecHand(p) == pc[p].at \in RecSteps

\* What a task has in hand; the timer task alone retries, the MLME thread alone
\* takes the peer's answers and requests.
HandOK(p) ==
  /\ OriHand(p) => pc[p].tab = "ori" /\ pc[p].i \in Oris /\ pc[p].tid \in TID
  /\ RecHand(p) => pc[p].tab = "rec" /\ pc[p].i \in Recs /\ pc[p].tid \in TID
  /\ pc[p].at \in {"late", "retry"} => p = "timer"
  /\ pc[p].at \in {"add", "accept"} => p = "mlme"
Hands == pc \in [Tasks -> Hand] /\ \A p \in Tasks : HandOK(p)

\* No two tasks have an entry or a TID in hand at once.
Apart ==
  \A p, q \in Tasks : p # q =>
    /\ OriHand(p) /\ OriHand(q) => pc[p].i # pc[q].i /\ pc[p].tid # pc[q].tid
    /\ RecHand(p) /\ RecHand(q) => pc[p].i # pc[q].i /\ pc[p].tid # pc[q].tid

OriEntry == [st : {"NONE", "USED", "WaitRes", "Done"}, tid : TID \cup {0}, token : 0..MaxRetry]
RecEntry == [st : {"NONE", "USED", "Accept"}, tid : TID \cup {0}]

Types ==
  /\ ht \in BOOLEAN /\ deleting \in BOOLEAN
  /\ oriIdx \in [TID -> 0..NOri] /\ recIdx \in [TID -> 0..NRec]
  /\ TXBAbitmap \subseteq TID /\ BADeclineBitmap \subseteq TID
  /\ ori \in [Oris -> OriEntry] /\ rec \in [Recs -> RecEntry]
  /\ armed \subseteq Oris /\ addba \subseteq TID /\ asked \subseteq TID
  /\ left \subseteq {"ori", "rec"} \X TID /\ events \in 0..MaxEvents
  /\ \A i \in Oris : i \in armed \/ ori[i].st \in {"WaitRes", "Done"} => ori[i].tid \in TID

\* A TID leads to an entry of its own.
OriMap(t) == oriIdx[t] # 0 => ori[oriIdx[t]].tid = t /\ ori[oriIdx[t]].st \in {"WaitRes", "Done"}
RecMap(t) == recIdx[t] # 0 => rec[recIdx[t]].tid = t /\ rec[recIdx[t]].st = "Accept"

\* A task's originator entry, at each step.
OriOwn(p) ==
  LET e == ori[pc[p].i]
      to == oriIdx[pc[p].tid] IN
  OriHand(p) =>
    /\ pc[p].at # "setup" \/ e.st \in {"WaitRes", "Done"} => e.tid = pc[p].tid
    /\ pc[p].at = "setup" => e.st # "NONE"
    /\ pc[p].at \in {"setup", "stop", "free"} => to \in {0, pc[p].i}
    /\ pc[p].at = "set" => e.st = "WaitRes"
    /\ pc[p].at = "retry" => e.st = "WaitRes" /\ e.token < MaxRetry
    /\ pc[p].at = "add" => e.st = "Done" /\ to = pc[p].i
    /\ pc[p].at = "freed" => /\ e.st # "NONE" /\ to = 0
                             /\ pc[p].tid \in TXBAbitmap => e.st = "Done"

\* A task's recipient entry: one being freed is nobody's, and one being accepted no other TID's.
RecOwn(p) ==
  /\ pc[p].at = "accept" => /\ rec[pc[p].i].st # "NONE"
                            /\ \A t \in TID : recIdx[t] = pc[p].i => t = pc[p].tid
  /\ pc[p].at = "freedRec" => /\ rec[pc[p].i].st # "NONE"
                              /\ \A t \in TID : recIdx[t] # pc[p].i

\* The transmit path and the table agree on a TID, but between the two halves of an answer
\* and of freeing the entry.
Amid(t) == \E p \in Tasks : pc[p].at \in {"add", "freed"} /\ pc[p].tid = t
OriAgreed(t) ==
  ~Amid(t) => (t \in TXBAbitmap <=> oriIdx[t] # 0 /\ ori[oriIdx[t]].st = "Done")

OriUsed == {i \in Oris : ori[i].st # "NONE"}
OriDone == {i \in Oris : ori[i].st = "Done"}
RecUsed == {i \in Recs : rec[i].st # "NONE"}
OriCounts == numAsOriginator = Cardinality(OriUsed) /\ numDoneOriginator = Cardinality(OriDone)
RecCounts == numAsRecipient = Cardinality(RecUsed)

\* Entries that nothing leads to any more, neither a TID nor a task nor a timer.
Stuck ==
  {i \in Oris : /\ ori[i].st \in {"WaitRes", "Done"} /\ i \notin armed
                /\ oriIdx[ori[i].tid] # i
                /\ \A p \in Tasks : OriHand(p) => pc[p].i # i}

\* Timers, while no entry is stuck: of an entry in hand, and of one that is in no task's hand
\* or has not been looked at yet.
HandTimed(p) ==
  /\ pc[p].at \in {"set", "late", "retry"} => ori[pc[p].i].st = "WaitRes" /\ pc[p].i \notin armed
  /\ pc[p].at \in {"free", "freed"} => pc[p].i \notin armed
EntryTimed(i) ==
  (\A p \in Tasks : OriHand(p) /\ pc[p].i = i => pc[p].at = "setup")
    => (ori[i].st = "WaitRes" <=> i \in armed)
Timed == (\A p \in Tasks : HandTimed(p)) /\ (\A i \in Oris : EntryTimed(i))

OriInv ==
  /\ \A t \in TID : OriMap(t) /\ OriAgreed(t)
  /\ \A p \in Tasks : OriOwn(p)
  /\ Stuck # {} \/ Timed
RecInv == (\A t \in TID : RecMap(t)) /\ (\A p \in Tasks : RecOwn(p))

Inv == Types /\ Hands /\ Apart /\ OriInv /\ OriCounts /\ RecInv /\ RecCounts
IInv == met \in BOOLEAN /\ (met \/ Inv)
\* A step of task p that has entry i and TID t in hand, before it or after it, and
\* touches nothing else of the originator's side.
Touches(p, i, t) ==
  /\ \A q \in Tasks \ {p} : pc'[q] = pc[q] /\ (OriHand(q) => pc[q].i # i /\ pc[q].tid # t)
  /\ OriHand(p) => pc[p].i = i /\ pc[p].tid = t
  /\ OriHand(p)' => pc'[p].i = i /\ pc'[p].tid = t
  /\ \A j \in Oris \ {i} : ori'[j] = ori[j] /\ (j \in armed' <=> j \in armed)
  /\ \A s \in TID \ {t} : /\ oriIdx'[s] = oriIdx[s] /\ oriIdx[s] # i
                          /\ s \in TXBAbitmap' <=> s \in TXBAbitmap
  /\ oriIdx'[t] \in {0, i, oriIdx[t]}
  /\ i \notin Stuck

----------------------------------------------------------------------------
(* What is in the tasks' hands. *)

LEMMA InitHands == Init => Hands /\ \A p \in Tasks : ~OriHand(p) /\ ~RecHand(p)
BY DEF Init, Hands, HandOK, Hand, Idle, Steps, OriHand, RecHand, OriSteps, RecSteps

\* A task takes something in hand, or goes on with it.
LEMMA GoHands ==
  ASSUME Hands, NEW p \in Tasks, NEW step \in Steps \ {"idle"}, NEW tab \in {"ori", "rec"},
         NEW i \in Nat, NEW t \in TID, Go(p, step, tab, i, t),
         step \in OriSteps => tab = "ori" /\ i \in Oris,
         step \in RecSteps => tab = "rec" /\ i \in Recs,
         step \in {"late", "retry"} => p = "timer",
         step \in {"add", "accept"} => p = "mlme"
  PROVE  /\ Hands' /\ \A q \in Tasks \ {p} : pc'[q] = pc[q]
         /\ pc'[p].at = step /\ pc'[p].i = i /\ pc'[p].tid = t
         /\ OriHand(p)' <=> step \in OriSteps
         /\ RecHand(p)' <=> step \in RecSteps
<1> DEFINE c == [at |-> step, tab |-> tab, i |-> i, tid |-> t]
<1>1. pc' = [pc EXCEPT ![p] = c] /\ c \in Hand
  BY DEF Go, Hand
<1>2. c.at = step /\ c.tab = tab /\ c.i = i /\ c.tid = t
  OBVIOUS
<1> HIDE DEF c
<1>3. pc' \in [Tasks -> Hand] /\ pc'[p] = c /\ \A q \in Tasks \ {p} : pc'[q] = pc[q]
  BY <1>1 DEF Hands
<1>4. HandOK(p)'
  BY <1>2, <1>3 DEF HandOK, OriHand, RecHand
<1>5. \A q \in Tasks \ {p} : HandOK(q)'
  BY <1>3 DEF Hands, HandOK, OriHand, RecHand
<1>6. Hands'
  BY <1>3, <1>4, <1>5 DEF Hands
<1> QED BY <1>2, <1>3, <1>6 DEF OriHand, RecHand

\* A task has done with it.
LEMMA DoneHands ==
  ASSUME Hands, NEW p \in Tasks, Done(p)
  PROVE  /\ Hands' /\ \A q \in Tasks \ {p} : pc'[q] = pc[q]
         /\ pc'[p].at = "idle" /\ ~OriHand(p)' /\ ~RecHand(p)'
<1>1. Idle \in Hand /\ Idle.at = "idle"
  BY DEF Idle, Hand, Steps
<1>2. pc' \in [Tasks -> Hand] /\ pc'[p] = Idle /\ \A q \in Tasks \ {p} : pc'[q] = pc[q]
  BY <1>1 DEF Done, Hands
<1>3. pc'[p].at = "idle" /\ ~OriHand(p)' /\ ~RecHand(p)' /\ HandOK(p)'
  BY <1>1, <1>2 DEF OriHand, RecHand, OriSteps, RecSteps, HandOK
<1>4. \A q \in Tasks \ {p} : HandOK(q)'
  BY <1>2 DEF Hands, HandOK, OriHand, RecHand
<1> QED BY <1>2, <1>3, <1>4 DEF Hands

LEMMA StillApart ==
  ASSUME Hands', ~Overlap'
  PROVE  Apart'
<1> SUFFICES ASSUME NEW p \in Tasks, NEW q \in Tasks, p # q,
                    (OriHand(p) /\ OriHand(q))' \/ (RecHand(p) /\ RecHand(q))'
             PROVE  pc'[p].i # pc'[q].i /\ pc'[p].tid # pc'[q].tid
  BY DEF Apart
<1>1. InHand(p)' /\ InHand(q)'
  BY DEF InHand, OriHand, RecHand, OriSteps, RecSteps
<1>2. pc'[p].tab = pc'[q].tab
  BY DEF Hands, HandOK
<1> QED BY <1>1, <1>2 DEF Overlap

----------------------------------------------------------------------------
(* What a step leaves alone. *)

\* The originator's side holds if it holds for what the step touches.
LEMMA OriFrame ==
  ASSUME Types, Types', Hands, Hands', OriInv, NEW p \in Tasks, NEW i \in Oris, NEW t \in TID,
         Touches(p, i, t), OriMap(t)', OriAgreed(t)', OriOwn(p)',
         Stuck' # {} \/ (Timed => HandTimed(p)' /\ EntryTimed(i)')
  PROVE  OriInv'
<1>1. ASSUME NEW s \in TID \ {t} PROVE OriMap(s)'
  <2>1. oriIdx'[s] = oriIdx[s] /\ oriIdx[s] # i /\ oriIdx[s] \in 0..NOri
    BY DEF Touches, Types
  <2>2. oriIdx[s] # 0 => oriIdx[s] \in Oris \ {i}
    BY <2>1, BaSessionAssumption DEF Oris
  <2>3. oriIdx[s] # 0 => ori'[oriIdx[s]] = ori[oriIdx[s]]
    BY <2>2 DEF Touches
  <2> QED BY <2>1, <2>3 DEF OriInv, OriMap
<1>2. ASSUME NEW s \in TID \ {t} PROVE OriAgreed(s)'
  <2>1. oriIdx'[s] = oriIdx[s] /\ oriIdx[s] # i /\ oriIdx[s] \in 0..NOri
        /\ (s \in TXBAbitmap' <=> s \in TXBAbitmap)
    BY DEF Touches, Types
  <2>2. oriIdx[s] # 0 => oriIdx[s] \in Oris \ {i}
    BY <2>1, BaSessionAssumption DEF Oris
  <2>3. oriIdx[s] # 0 => ori'[oriIdx[s]] = ori[oriIdx[s]]
    BY <2>2 DEF Touches
  <2>4. Amid(s) => Amid(s)'
    BY DEF Touches, Amid, OriHand, OriSteps
  <2> QED BY <2>1, <2>3, <2>4 DEF OriInv, OriAgreed
<1>3. ASSUME NEW q \in Tasks \ {p}, OriHand(q)
      PROVE  /\ pc'[q] = pc[q] /\ pc[q].i \in Oris \ {i} /\ pc[q].tid \in TID \ {t}
             /\ ori'[pc[q].i] = ori[pc[q].i] /\ oriIdx'[pc[q].tid] = oriIdx[pc[q].tid]
             /\ pc[q].tid \in TXBAbitmap' <=> pc[q].tid \in TXBAbitmap
             /\ pc[q].i \in armed' <=> pc[q].i \in armed
  BY <1>3 DEF Touches, Hands, HandOK
<1>4. ASSUME NEW q \in Tasks \ {p} PROVE OriOwn(q)'
  <2>1. OriHand(q)' <=> OriHand(q)
    BY DEF Touches, OriHand
  <2> QED BY <1>3, <2>1 DEF OriInv, OriOwn
<1>5. ASSUME NEW k \in Stuck PROVE k \in Stuck'
  <2>1. k \in Oris \ {i} /\ ori'[k] = ori[k] /\ k \notin armed' /\ ori[k].tid \in TID
    BY DEF Touches, Stuck, Types
  <2>2. oriIdx'[ori[k].tid] # k
    BY <2>1, BaSessionAssumption DEF Touches, Stuck, Oris
  <2>3. \A q \in Tasks : OriHand(q)' => pc'[q].i # k
    BY <2>1 DEF Touches, Stuck, OriHand
  <2> QED BY <2>1, <2>2, <2>3 DEF Stuck
<1>6. ASSUME Timed PROVE Stuck' # {} \/ Timed'
  <2>1. ASSUME NEW q \in Tasks \ {p} PROVE HandTimed(q)'
    <3>1. OriHand(q)' <=> OriHand(q)
      BY DEF Touches, OriHand
    <3> QED BY <1>3, <1>6, <3>1 DEF Timed, HandTimed, OriHand, OriSteps
  <2>2. ASSUME NEW j \in Oris \ {i} PROVE EntryTimed(j)'
    <3>1. ori'[j] = ori[j] /\ (j \in armed' <=> j \in armed)
      BY DEF Touches
    <3>2. (\A q \in Tasks : OriHand(q)' /\ pc'[q].i = j => pc'[q].at = "setup")
            => (\A q \in Tasks : OriHand(q) /\ pc[q].i = j => pc[q].at = "setup")
      BY DEF Touches, OriHand
    <3> QED BY <1>6, <3>1, <3>2 DEF Timed, EntryTimed
  <2> QED BY <1>6, <2>1, <2>2 DEF Timed
<1> QED BY <1>1, <1>2, <1>4, <1>5, <1>6 DEF OriInv

\* Steps of the recipient's side, and those that take nothing in hand.
LEMMA OriQuiet ==
  ASSUME OriInv, OriCounts, UNCHANGED <<oriIdx, TXBAbitmap, oriVars>>,
         \A q \in Tasks : pc'[q] = pc[q] \/ (~OriHand(q) /\ ~OriHand(q)')
  PROVE  OriInv' /\ OriCounts'
<1>1. UNCHANGED <<oriIdx, TXBAbitmap, ori, armed, numAsOriginator, numDoneOriginator>>
  BY DEF oriVars
<1>2. \A q \in Tasks : (OriHand(q)' <=> OriHand(q)) /\ (OriHand(q) => pc'[q] = pc[q])
  BY DEF OriHand
<1>3. \A t \in TID : OriMap(t)'
  BY <1>1 DEF OriInv, OriMap
<1>4. \A t \in TID : OriAgreed(t)'
  <2>1. \A t \in TID : Amid(t) => Amid(t)'
    BY <1>2 DEF Amid, OriHand, OriSteps
  <2> QED BY <1>1, <2>1 DEF OriInv, OriAgreed
<1>5. \A q \in Tasks : OriOwn(q)'
  BY <1>1, <1>2 DEF OriInv, OriOwn
<1>6. Stuck' = Stuck
  BY <1>1, <1>2 DEF Stuck
<1>7. Timed => Timed'
  <2>1. ASSUME Timed, NEW q \in Tasks PROVE HandTimed(q)'
    BY <1>1, <1>2, <2>1 DEF Timed, HandTimed, OriHand, OriSteps
  <2>2. ASSUME Timed, NEW j \in Oris PROVE EntryTimed(j)'
    BY <1>1, <1>2, <2>2 DEF Timed, EntryTimed
  <2> QED BY <2>1, <2>2 DEF Timed
<1>8. OriCounts'
  BY <1>1 DEF OriCounts, OriUsed, OriDone
<1> QED BY <1>3, <1>4, <1>5, <1>6, <1>7, <1>8 DEF OriInv

LEMMA RecQuiet ==
  ASSUME RecInv, RecCounts, UNCHANGED <<recIdx, recVars>>,
         \A q \in Tasks : pc'[q] = pc[q] \/ (~RecHand(q) /\ ~RecHand(q)')
  PROVE  RecInv' /\ RecCounts'
<1>1. UNCHANGED <<recIdx, rec, numAsRecipient>>
  BY DEF recVars
<1>2. RecInv'
  BY <1>1 DEF RecInv, RecMap, RecOwn, RecHand, RecSteps
<1>3. RecCounts'
  BY <1>1 DEF RecCounts, RecUsed
<1> QED BY <1>2, <1>3

----------------------------------------------------------------------------
(* The counters. *)

\* One more, one fewer.
LEMMA OneMore ==
  ASSUME NEW S, NEW T, NEW n, IsFiniteSet(T), S \subseteq T, NEW e \in T, e \notin S,
         n = Cardinality(S)
  PROVE  n + 1 = Cardinality(S \cup {e})
<1>1. IsFiniteSet(S)
  BY FS_Subset
<1> QED BY <1>1, FS_AddElement

LEMMA OneFewer ==
  ASSUME NEW S, NEW T, NEW n, IsFiniteSet(T), S \subseteq T, NEW e \in S, n = Cardinality(S)
  PROVE  n - 1 = Cardinality(S \ {e})
<1>1. IsFiniteSet(S)
  BY FS_Subset
<1> QED BY <1>1, FS_RemoveElement

LEMMA Tables ==
  /\ IsFiniteSet(Oris) /\ IsFiniteSet(Recs) /\ Cardinality(Recs) = NRec
  /\ Oris \subseteq Nat \ {0} /\ Recs \subseteq Nat \ {0}
<1>1. NOri \in Nat /\ NRec \in Nat
  BY BaSessionAssumption
<1>2. IsFiniteSet(1..NOri) /\ IsFiniteSet(1..NRec) /\ Cardinality(1..NRec) = NRec
  BY <1>1, FS_Interval
<1> QED BY <1>1, <1>2 DEF Oris, Recs

\* A free entry is searched from the first.
LEMMA LeastIn ==
  ASSUME NEW I, I \subseteq Nat, I # {}
  PROVE  Min(I) \in I
<1> DEFINE R == OpToRel(<, Nat)
<1>1. IsWellFoundedOn(R, Nat)
  BY NatLessThanWellFounded
<1> HIDE DEF R
<1>2. PICK x \in I : \A y \in I : ~(<<y, x>> \in R)
  BY <1>1, WFMin
<1>3. ASSUME NEW y \in I PROVE x <= y
  <2>1. ~(y < x)
    BY <1>2, <1>3 DEF R, OpToRel
  <2> QED BY <2>1
<1> QED BY <1>3 DEF Min

LEMMA InitOK == Init => Inv
<1> SUFFICES ASSUME Init PROVE Inv
  OBVIOUS
<1>1. Hands /\ \A p \in Tasks : ~OriHand(p) /\ ~RecHand(p)
  BY InitHands
<1>2. /\ \A i \in Oris : ori[i] = NoOri /\ NoOri.st = "NONE"
      /\ \A i \in Recs : rec[i] = NoRec /\ NoRec.st = "NONE"
      /\ \A t \in TID : oriIdx[t] = 0 /\ recIdx[t] = 0
      /\ armed = {} /\ TXBAbitmap = {} /\ numAsOriginator = 0 /\ numDoneOriginator = 0
      /\ numAsRecipient = 0
  BY DEF Init, NoOri, NoRec
<1>3. Types
  <2>1. NoOri \in OriEntry /\ NoRec \in RecEntry /\ 0 \in 0..NOri /\ 0 \in 0..NRec /\ 0 \in 0..MaxEvents
    BY BaSessionAssumption DEF OriEntry, RecEntry, NoOri, NoRec
  <2>2. /\ ori \in [Oris -> OriEntry] /\ rec \in [Recs -> RecEntry]
        /\ oriIdx \in [TID -> 0..NOri] /\ recIdx \in [TID -> 0..NRec] /\ events \in 0..MaxEvents
    BY <2>1 DEF Init
  <2> QED BY <1>2, <2>2 DEF Init, Types
<1>4. Apart
  BY <1>1 DEF Apart
<1>5. OriInv
  <2>1. \A t \in TID : OriMap(t) /\ OriAgreed(t)
    BY <1>2 DEF OriMap, OriAgreed
  <2>2. \A p \in Tasks : OriOwn(p) /\ HandTimed(p)
    BY <1>1 DEF OriOwn, HandTimed, OriHand, OriSteps
  <2>3. \A i \in Oris : EntryTimed(i)
    BY <1>2 DEF EntryTimed
  <2> QED BY <2>1, <2>2, <2>3 DEF OriInv, Timed
<1>6. RecInv
  BY <1>1, <1>2 DEF RecInv, RecMap, RecOwn, RecHand, RecSteps
<1>7. OriCounts /\ RecCounts
  <2>1. OriUsed = {} /\ OriDone = {} /\ RecUsed = {}
    BY <1>2 DEF OriUsed, OriDone, RecUsed
  <2> QED BY <1>2, <2>1, FS_EmptySet DEF OriCounts, RecCounts
<1> QED BY <1>1, <1>3, <1>4, <1>5, <1>6, <1>7 DEF Inv

----------------------------------------------------------------------------
(* The originator's side, one step after the other. *)

\* A step of the originator's side leaves the recipient's alone.
LEMMA OriSide ==
  ASSUME Inv, Types', Hands', Apart', NEW p \in Tasks, NEW i \in Oris, NEW t \in TID,
         Touches(p, i, t), OriMap(t)', OriAgreed(t)', OriOwn(p)',
         Stuck' # {} \/ (Timed => HandTimed(p)' /\ EntryTimed(i)'), OriCounts',
         UNCHANGED <<recIdx, recVars>>, ~RecHand(p), ~RecHand(p)'
  PROVE  Inv'
<1>1. OriInv'
  BY OriFrame DEF Inv
<1>2. RecInv' /\ RecCounts'
  BY RecQuiet DEF Inv, Touches
<1> QED BY <1>1, <1>2 DEF Inv

\* A task goes on with an entry, takes one in hand, or has done with it.
LEMMA OriGo ==
  ASSUME Hands, ~Overlap', NEW p \in Tasks, NEW step \in OriSteps, NEW i \in Oris, NEW t \in TID,
         Go(p, step, "ori", i, t),
         step \in {"late", "retry"} => p = "timer", step = "add" => p = "mlme"
  PROVE  /\ Hands' /\ Apart'
         /\ \A q \in Tasks \ {p} : pc'[q] = pc[q] /\ (OriHand(q) => pc[q].i # i /\ pc[q].tid # t)
         /\ pc'[p].at = step /\ pc'[p].i = i /\ pc'[p].tid = t /\ OriHand(p)' /\ ~RecHand(p)'
<1>1. step \in Steps \ {"idle"} /\ step \notin RecSteps /\ step # "accept" /\ i \in Nat
  BY Tables DEF OriSteps, RecSteps, Steps
<1>2. /\ Hands' /\ \A q \in Tasks \ {p} : pc'[q] = pc[q]
      /\ pc'[p].at = step /\ pc'[p].i = i /\ pc'[p].tid = t /\ OriHand(p)' /\ ~RecHand(p)'
  BY <1>1, GoHands
<1>3. Apart'
  BY <1>2, StillApart
<1>4. \A q \in Tasks \ {p} : OriHand(q) => pc[q].i # i /\ pc[q].tid # t
  BY <1>2, <1>3 DEF Apart, OriHand
<1> QED BY <1>2, <1>3, <1>4

LEMMA OriLeave ==
  ASSUME Hands, Apart, ~Overlap', NEW p \in Tasks, OriHand(p), Done(p)
  PROVE  /\ Hands' /\ Apart'
         /\ \A q \in Tasks \ {p} : pc'[q] = pc[q] /\ (OriHand(q) => pc[q].i # pc[p].i
                                                                  /\ pc[q].tid # pc[p].tid)
         /\ pc'[p].at = "idle" /\ ~OriHand(p)' /\ ~RecHand(p)'
<1>1. /\ Hands' /\ \A q \in Tasks \ {p} : pc'[q] = pc[q]
      /\ pc'[p].at = "idle" /\ ~OriHand(p)' /\ ~RecHand(p)'
  BY DoneHands
<1>2. Apart'
  BY <1>1, StillApart
<1> QED BY <1>1, <1>2 DEF Apart

\* Numbers of entries in use and of agreements, when no entry changes between the two.
LEMMA SameCounts ==
  ASSUME OriCounts, UNCHANGED <<numAsOriginator, numDoneOriginator>>,
         \A j \in Oris : /\ ori'[j].st = "NONE" <=> ori[j].st = "NONE"
                         /\ ori'[j].st = "Done" <=> ori[j].st = "Done"
  PROVE  OriCounts'
<1>1. OriUsed' = OriUsed /\ OriDone' = OriDone
  BY DEF OriUsed, OriDone
<1> QED BY <1>1 DEF OriCounts

\* The TID's entry is taken in hand, by a task that had none: to set it up again or to
\* tear it down.
LEMMA TakeKeeps ==
  ASSUME Inv, Types', ~Overlap', NEW p \in Tasks, pc[p].at = "idle", NEW t \in TID, oriIdx[t] # 0,
         NEW step \in {"setup", "stop"}, Go(p, step, "ori", oriIdx[t], t),
         UNCHANGED <<oriIdx, recIdx, TXBAbitmap, oriVars, recVars>>
  PROVE  Inv'
<1> PICK i : i = oriIdx[t]
  OBVIOUS
<1>1. i \in Oris /\ ori[i].tid = t /\ ori[i].st \in {"WaitRes", "Done"}
  BY BaSessionAssumption DEF Inv, Types, OriInv, OriMap, Oris
<1>2. UNCHANGED <<ori, armed, numAsOriginator, numDoneOriginator>>
  BY DEF oriVars
<1>3. ~OriHand(p) /\ ~RecHand(p)
  BY DEF OriHand, RecHand, OriSteps, RecSteps
<1>4. /\ Hands' /\ Apart'
      /\ \A q \in Tasks \ {p} : pc'[q] = pc[q] /\ (OriHand(q) => pc[q].i # i /\ pc[q].tid # t)
      /\ pc'[p].at = step /\ pc'[p].i = i /\ pc'[p].tid = t /\ OriHand(p)' /\ ~RecHand(p)'
  <2>1. step \in OriSteps /\ step \notin {"late", "retry", "add"} /\ Hands
    BY DEF OriSteps, Inv
  <2> QED BY <1>1, <2>1, OriGo
<1>5. /\ pc[p].at \notin {"add", "freed"} /\ pc'[p].at \notin {"add", "freed"}
      /\ Amid(t) => Amid(t)'
  BY <1>4 DEF Amid
<1>6. Touches(p, i, t)
  BY <1>1, <1>2, <1>3, <1>4 DEF Touches, Stuck, Inv, OriInv, OriMap
<1>7. OriMap(t)' /\ OriOwn(p)'
  BY <1>1, <1>2, <1>4 DEF OriMap, OriOwn
<1>8. OriAgreed(t)'
  BY <1>2, <1>5 DEF Inv, OriInv, OriAgreed
<1>9. Timed => HandTimed(p)' /\ EntryTimed(i)'
  BY <1>1, <1>2, <1>3, <1>4 DEF Timed, HandTimed, EntryTimed
<1>10. OriCounts'
  BY <1>2, SameCounts DEF Inv
<1> QED BY <1>1, <1>3, <1>4, <1>6, <1>7, <1>8, <1>9, <1>10, OriSide

\* An entry is taken in hand, of the TID that has one or else a free one, and counted.
LEMMA SetUpEntryKeeps ==
  ASSUME Inv, ~Overlap', NEW p \in Tasks \ {"mlme"}, NEW t \in TID, SetUpEntry(p, t), Event
  PROVE  Inv'
<1>1. /\ pc[p].at = "idle" /\ ~OriHand(p) /\ ~RecHand(p)
      /\ UNCHANGED <<peerVars, recVars, msgVars, delVars>>
  BY DEF SetUpEntry, Begin, Free, At, OriHand, RecHand, OriSteps, RecSteps
<1>2. UNCHANGED <<ht, oriIdx, recIdx, TXBAbitmap, BADeclineBitmap, rec, numAsRecipient, addba, asked,
                  deleting, left>> /\ events' \in 0..MaxEvents
  BY <1>1, BaSessionAssumption DEF peerVars, recVars, msgVars, delVars, Event, Inv, Types
<1>3. CASE oriIdx[t] # 0
  <2>1. Go(p, "setup", "ori", oriIdx[t], t) /\ UNCHANGED <<oriVars, recVars>>
    BY <1>1, <1>3 DEF SetUpEntry
  <2>2. Types'
    BY <1>2, <2>1 DEF Inv, Types, oriVars
  <2> QED BY <1>1, <1>2, <1>3, <2>1, <2>2, TakeKeeps
<1>4. CASE oriIdx[t] = 0
  <2> PICK i : i = Min(FreeOris)
    OBVIOUS
  <2>1. /\ FreeOris # {} /\ ori' = [ori EXCEPT ![i].st = "USED"]
        /\ numAsOriginator' = numAsOriginator + 1 /\ Go(p, "setup", "ori", i, t)
        /\ UNCHANGED <<armed, numDoneOriginator>>
    BY <1>4 DEF SetUpEntry, CountIn
  <2>2. i \in Oris /\ ori[i].st = "NONE"
    <3>1. FreeOris \subseteq Nat
      BY Tables DEF FreeOris
    <3>2. i \in FreeOris
      BY <2>1, <3>1, LeastIn
    <3> QED BY <3>2 DEF FreeOris
  <2>3. /\ ori' \in [Oris -> OriEntry] /\ ori'[i].st = "USED" /\ ori'[i].tid = ori[i].tid
        /\ \A j \in Oris \ {i} : ori'[j] = ori[j]
    BY <2>1, <2>2 DEF Inv, Types, OriEntry
  <2>4. Types'
    BY <1>2, <2>1, <2>3 DEF Inv, Types
  <2>5. /\ Hands' /\ Apart'
        /\ \A q \in Tasks \ {p} : pc'[q] = pc[q] /\ (OriHand(q) => pc[q].i # i /\ pc[q].tid # t)
        /\ pc'[p].at = "setup" /\ pc'[p].i = i /\ pc'[p].tid = t /\ OriHand(p)' /\ ~RecHand(p)'
    BY <2>1, <2>2, OriGo DEF Inv, OriSteps
  <2>8. \A s \in TID : oriIdx[s] # i
    BY <2>2, Tables DEF Inv, OriInv, OriMap
  <2>9. Touches(p, i, t)
    BY <1>1, <1>2, <2>1, <2>2, <2>3, <2>5, <2>8 DEF Touches, Stuck
  <2>10. OriMap(t)' /\ OriOwn(p)'
    BY <1>2, <1>4, <2>3, <2>5 DEF OriMap, OriOwn
  <2>11. OriAgreed(t)'
    <3>1. Amid(t) => Amid(t)'
      BY <1>1, <2>5 DEF Amid, OriHand, OriSteps
    <3> QED BY <1>2, <1>4, <3>1 DEF Inv, OriInv, OriAgreed
  <2>12. Timed => HandTimed(p)' /\ EntryTimed(i)'
    <3>1. Timed => i \notin armed
      BY <1>1, <2>2, <2>5 DEF Timed, EntryTimed
    <3> QED BY <2>1, <2>3, <2>5, <3>1 DEF HandTimed, EntryTimed
  <2>13. OriCounts'
    <3>1. OriUsed' = OriUsed \cup {i} /\ i \notin OriUsed /\ OriUsed \subseteq Oris
      BY <2>2, <2>3 DEF OriUsed
    <3>2. OriDone' = OriDone
      BY <2>2, <2>3 DEF OriDone
    <3>3. numAsOriginator + 1 = Cardinality(OriUsed \cup {i})
      BY <2>2, <3>1, Tables, OneMore DEF OriCounts, Inv
    <3> QED BY <2>1, <3>1, <3>2, <3>3 DEF OriCounts, Inv
  <2> QED BY <1>1, <1>2, <2>2, <2>4, <2>5, <2>9, <2>10, <2>11, <2>12, <2>13, OriSide
           DEF recVars
<1> QED BY <1>3, <1>4
\* Facts of a task's entry in hand that each of its steps uses.
LEMMA InHandFacts ==
  ASSUME Inv, NEW p \in Tasks, OriHand(p), NEW i, i = pc[p].i, NEW t, t = pc[p].tid
  PROVE  /\ i \in Oris /\ t \in TID /\ ori[i] \in OriEntry /\ oriIdx[t] \in 0..NOri
         /\ OriOwn(p) /\ OriMap(t) /\ OriAgreed(t) /\ ~RecHand(p) /\ i \notin Stuck
         /\ pc[p].at \notin {"add", "freed"} => ~Amid(t)
         /\ \A s \in TID : oriIdx[s] = i => s = ori[i].tid /\ ori[i].st \in {"WaitRes", "Done"}
<1>1. i \in Oris /\ t \in TID
  BY DEF Inv, Hands, HandOK
<1>2. ori[i] \in OriEntry /\ oriIdx[t] \in 0..NOri
  BY <1>1 DEF Inv, Types
<1>3. OriOwn(p) /\ OriMap(t) /\ OriAgreed(t)
  BY <1>1 DEF Inv, OriInv
<1>4. ~RecHand(p) /\ i \notin Stuck
  BY DEF OriHand, RecHand, OriSteps, RecSteps, Stuck
<1>5. pc[p].at \notin {"add", "freed"} => ~Amid(t)
  BY DEF Inv, Apart, Amid, OriHand, OriSteps
<1>6. \A s \in TID : oriIdx[s] = i => s = ori[i].tid /\ ori[i].st \in {"WaitRes", "Done"}
  BY <1>1, Tables DEF Inv, OriInv, OriMap
<1> QED BY <1>1, <1>2, <1>3, <1>4, <1>5, <1>6

LEMMA SetUpFillKeeps ==
  ASSUME Inv, ~Overlap', NEW p \in Tasks, SetUpFill(p)
  PROVE  Inv'
<1> PICK i, t : i = pc[p].i /\ t = pc[p].tid
  OBVIOUS
<1>1. /\ pc[p].at = "setup" /\ OriHand(p)
      /\ UNCHANGED <<ht, recIdx, TXBAbitmap, BADeclineBitmap, rec, numAsRecipient, addba, asked,
                     deleting, left, events, recVars>>
  BY DEF SetUpFill, At, OriHand, OriSteps, recVars, msgVars, delVars
<1>2. /\ i \in Oris /\ t \in TID /\ ori[i] \in OriEntry /\ oriIdx[t] \in 0..NOri
      /\ OriOwn(p) /\ OriMap(t) /\ OriAgreed(t) /\ ~RecHand(p) /\ i \notin Stuck /\ ~Amid(t)
      /\ \A s \in TID : oriIdx[s] = i => s = ori[i].tid /\ ori[i].st \in {"WaitRes", "Done"}
  BY <1>1, InHandFacts
<1>3. /\ ori[i].st # "NONE" /\ oriIdx[t] \in {0, i}
      /\ Timed => (ori[i].st = "WaitRes" <=> i \in armed)
  <2>1. \A q \in Tasks : OriHand(q) /\ pc[q].i = i => q = p
    BY <1>1 DEF Inv, Apart
  <2> QED BY <1>1, <1>2, <2>1 DEF OriOwn, Timed, EntryTimed
<1>4. CASE ori[i].st \in {"WaitRes", "Done"}
  <2>1. Done(p) /\ UNCHANGED <<oriIdx, ori, armed, numAsOriginator, numDoneOriginator>>
    BY <1>4 DEF SetUpFill, oriVars
  <2>2. /\ Hands' /\ Apart' /\ pc'[p].at = "idle" /\ ~OriHand(p)' /\ ~RecHand(p)'
        /\ \A q \in Tasks \ {p} : pc'[q] = pc[q] /\ (OriHand(q) => pc[q].i # i /\ pc[q].tid # t)
    BY <1>1, <2>1, OriLeave DEF Inv
  <2>3. Types' /\ OriCounts'
    BY <1>1, <2>1, SameCounts DEF Inv, Types
  <2>4. Touches(p, i, t)
    <3>1. ori[i].tid = t
      BY <1>1, <1>2, <1>4 DEF OriOwn
    <3> QED BY <1>1, <1>2, <1>3, <2>1, <2>2, <3>1 DEF Touches
  <2>5. OriMap(t)' /\ OriAgreed(t)' /\ OriOwn(p)'
    BY <1>1, <1>2, <2>1, <2>2 DEF OriMap, OriAgreed, OriOwn
  <2>6. Timed => HandTimed(p)' /\ EntryTimed(i)'
    BY <1>3, <2>1, <2>2 DEF HandTimed, EntryTimed
  <2> QED BY <1>1, <1>2, <2>2, <2>3, <2>4, <2>5, <2>6, OriSide
<1>5. CASE ori[i].st \notin {"WaitRes", "Done"}
  <2>1. /\ oriIdx' = [oriIdx EXCEPT ![t] = i] /\ armed' = armed \ {i}
        /\ ori' = [ori EXCEPT ![i] = [st |-> "WaitRes", tid |-> t, token |-> 1]]
        /\ Go(p, "set", "ori", i, t) /\ UNCHANGED <<numAsOriginator, numDoneOriginator>>
    BY <1>5 DEF SetUpFill
  <2>2. /\ Hands' /\ Apart' /\ pc'[p].at = "set" /\ pc'[p].i = i /\ pc'[p].tid = t
        /\ OriHand(p)' /\ ~RecHand(p)'
        /\ \A q \in Tasks \ {p} : pc'[q] = pc[q] /\ (OriHand(q) => pc[q].i # i /\ pc[q].tid # t)
    BY <1>2, <2>1, OriGo DEF Inv, OriSteps
  <2>3. [st |-> "WaitRes", tid |-> t, token |-> 1] \in OriEntry
    BY <1>2, BaSessionAssumption DEF OriEntry
  <2>4. /\ ori' \in [Oris -> OriEntry] /\ ori'[i].st = "WaitRes" /\ ori'[i].tid = t
        /\ \A j \in Oris \ {i} : ori'[j] = ori[j]
        /\ oriIdx' \in [TID -> 0..NOri] /\ oriIdx'[t] = i /\ i # 0
        /\ \A s \in TID \ {t} : oriIdx'[s] = oriIdx[s] /\ oriIdx[s] # i
    BY <1>2, <1>5, <2>1, <2>3, BaSessionAssumption, SMTT(60) DEF Inv, Types, Oris
  <2>5. Types'
    BY <1>1, <1>2, <2>1, <2>4 DEF Inv, Types
  <2>6. ori[i].st = "USED"
    BY <1>2, <1>3, <1>5 DEF OriEntry
  <2>7. OriCounts'
    BY <2>1, <2>4, <2>6, SameCounts DEF Inv
  <2>8. Touches(p, i, t)
    BY <1>1, <1>2, <2>1, <2>2, <2>4 DEF Touches
  <2>9. t \notin TXBAbitmap
    BY <1>2, <1>3, <2>6 DEF OriAgreed
  <2>10. OriMap(t)' /\ OriAgreed(t)' /\ OriOwn(p)'
    BY <1>1, <2>2, <2>4, <2>9 DEF OriMap, OriAgreed, OriOwn
  <2>11. HandTimed(p)' /\ EntryTimed(i)'
    BY <2>1, <2>2, <2>4 DEF HandTimed, EntryTimed
  <2> QED BY <1>1, <1>2, <2>2, <2>5, <2>7, <2>8, <2>10, <2>11, OriSide
<1> QED BY <1>4, <1>5

LEMMA SetUpTimerKeeps ==
  ASSUME Inv, ~Overlap', NEW p \in Tasks, SetUpTimer(p)
  PROVE  Inv'
<1> PICK i, t : i = pc[p].i /\ t = pc[p].tid
  OBVIOUS
<1>1. /\ pc[p].at = "set" /\ OriHand(p) /\ armed' = armed \cup {i} /\ Done(p)
      /\ UNCHANGED <<ht, oriIdx, recIdx, TXBAbitmap, BADeclineBitmap, ori, numAsOriginator,
                     numDoneOriginator, rec, addba, asked, deleting, left, events, recVars>>
  BY DEF SetUpTimer, At, OriHand, OriSteps, peerVars, recVars, msgVars, delVars
<1>2. /\ i \in Oris /\ t \in TID /\ ori[i] \in OriEntry /\ oriIdx[t] \in 0..NOri
      /\ OriOwn(p) /\ OriMap(t) /\ OriAgreed(t) /\ ~RecHand(p) /\ i \notin Stuck /\ ~Amid(t)
      /\ \A s \in TID : oriIdx[s] = i => s = ori[i].tid /\ ori[i].st \in {"WaitRes", "Done"}
  BY <1>1, InHandFacts
<1>3. ori[i].st = "WaitRes" /\ ori[i].tid = t
  BY <1>1 , <1>2 DEF OriOwn
<1>4. /\ Hands' /\ Apart' /\ pc'[p].at = "idle" /\ ~OriHand(p)' /\ ~RecHand(p)'
      /\ \A q \in Tasks \ {p} : pc'[q] = pc[q] /\ (OriHand(q) => pc[q].i # i /\ pc[q].tid # t)
  BY <1>1, OriLeave DEF Inv
<1>5. Types' /\ OriCounts'
  BY <1>1, <1>2, <1>3, SameCounts DEF Inv, Types
<1>6. Touches(p, i, t)
  BY <1>1, <1>2, <1>3, <1>4 DEF Touches
<1>7. OriMap(t)' /\ OriAgreed(t)' /\ OriOwn(p)'
  BY <1>1, <1>2, <1>4 DEF OriMap, OriAgreed, OriOwn
<1>8. HandTimed(p)' /\ EntryTimed(i)'
  BY <1>1, <1>3, <1>4 DEF HandTimed, EntryTimed
<1> QED BY <1>1, <1>2, <1>4, <1>5, <1>6, <1>7, <1>8, OriSide

LEMMA TakeTimerKeeps ==
  ASSUME Inv, ~Overlap', NEW i \in Oris, TakeTimer(i)
  PROVE  Inv'
<1> DEFINE p == "timer"
<1> PICK t : t = ori[i].tid
  OBVIOUS
<1>1. /\ p \in Tasks /\ pc[p].at = "idle" /\ ~OriHand(p) /\ ~RecHand(p)
      /\ i \in armed /\ armed' = armed \ {i} /\ Go(p, "late", "ori", i, t)
      /\ UNCHANGED <<ht, oriIdx, recIdx, TXBAbitmap, BADeclineBitmap, ori, numAsOriginator,
                     numDoneOriginator, rec, addba, asked, deleting, left, events, recVars>>
  BY DEF TakeTimer, Begin, Free, At, OriHand, RecHand, OriSteps, RecSteps, peerVars, recVars,
         msgVars, delVars
<1>2. t \in TID /\ i \notin Stuck /\ \A s \in TID : oriIdx[s] = i => s = t
  BY <1>1, Tables DEF Inv, Types, OriInv, OriMap, Stuck
<1>3. /\ Hands' /\ Apart' /\ pc'[p].at = "late" /\ pc'[p].i = i /\ pc'[p].tid = t
      /\ OriHand(p)' /\ ~RecHand(p)'
      /\ \A q \in Tasks \ {p} : pc'[q] = pc[q] /\ (OriHand(q) => pc[q].i # i /\ pc[q].tid # t)
  BY <1>1, <1>2, OriGo DEF Inv, OriSteps
<1>4. Types' /\ OriCounts'
  BY <1>1, SameCounts DEF Inv, Types
<1>5. Touches(p, i, t)
  BY <1>1, <1>2, <1>3 DEF Touches
<1>6. OriMap(t)' /\ OriAgreed(t)' /\ OriOwn(p)'
  <2>1. Amid(t) => Amid(t)'
    BY <1>1, <1>3 DEF Amid
  <2> QED BY <1>1, <1>2, <1>3, <2>1 DEF Inv, OriInv, OriMap, OriAgreed, OriOwn
<1>7. Timed => HandTimed(p)' /\ EntryTimed(i)'
  <2>1. Timed => ori[i].st = "WaitRes"
    BY <1>1, <1>3 DEF Timed, EntryTimed
  <2> QED BY <1>1, <1>3, <2>1 DEF HandTimed, EntryTimed
<1> QED BY <1>1, <1>2, <1>3, <1>4, <1>5, <1>6, <1>7, OriSide
\* The request is sent again; or the entry of the TID is freed, which is the one that
\* timed out unless that one is stuck from now on.
LEMMA TimeoutKeeps ==
  ASSUME Inv, ~Overlap', Timeout
  PROVE  Inv'
<1> DEFINE p == "timer"
<1> PICK i, t, other : i = pc[p].i /\ t = pc[p].tid /\ other = oriIdx[t]
  OBVIOUS
<1>1. /\ p \in Tasks /\ pc[p].at = "late" /\ OriHand(p)
      /\ UNCHANGED <<ht, oriIdx, recIdx, TXBAbitmap, BADeclineBitmap, ori, armed, numAsOriginator,
                     numDoneOriginator, rec, asked, deleting, left, events, recVars>>
  BY DEF Timeout, At, OriHand, OriSteps, peerVars, oriVars, recVars, delVars
<1>2. /\ i \in Oris /\ t \in TID /\ ori[i] \in OriEntry /\ other \in 0..NOri
      /\ OriOwn(p) /\ OriMap(t) /\ OriAgreed(t) /\ ~RecHand(p) /\ i \notin Stuck /\ ~Amid(t)
      /\ \A s \in TID : oriIdx[s] = i => s = ori[i].tid /\ ori[i].st \in {"WaitRes", "Done"}
  BY <1>1, InHandFacts
<1>3. ori[i].tid = t /\ (Timed => ori[i].st = "WaitRes" /\ i \notin armed)
  BY <1>1, <1>2 DEF OriOwn, Timed, HandTimed
<1>4. Types' /\ OriCounts'
  <2>1. addba' \subseteq TID
    BY <1>2, <1>3 DEF Timeout, Inv, Types
  <2> QED BY <1>1, <2>1, SameCounts DEF Inv, Types
<1>5. CASE Again(ori[i])
  <2>1. Go(p, "retry", "ori", i, t) /\ ori[i].st = "WaitRes" /\ ori[i].token < MaxRetry
    BY <1>3, <1>5 DEF Timeout, Again
  <2>2. /\ Hands' /\ Apart' /\ pc'[p].at = "retry" /\ pc'[p].i = i /\ pc'[p].tid = t
        /\ OriHand(p)' /\ ~RecHand(p)'
        /\ \A q \in Tasks \ {p} : pc'[q] = pc[q] /\ (OriHand(q) => pc[q].i # i /\ pc[q].tid # t)
    BY <1>1, <1>2, <2>1, OriGo DEF Inv, OriSteps
  <2>3. Touches(p, i, t)
    BY <1>1, <1>2, <1>3, <2>2 DEF Touches
  <2>4. OriMap(t)' /\ OriAgreed(t)' /\ OriOwn(p)'
    BY <1>1, <1>2, <1>3, <2>1, <2>2 DEF OriMap, OriAgreed, OriOwn
  <2>5. Timed => HandTimed(p)' /\ EntryTimed(i)'
    BY <1>1, <1>3, <2>1, <2>2 DEF HandTimed, EntryTimed
  <2> QED BY <1>1, <1>2, <1>4, <2>2, <2>3, <2>4, <2>5, OriSide
<1>6. CASE ~Again(ori[i]) /\ other = 0
  <2>1. Done(p)
    BY <1>6 DEF Timeout
  <2>2. /\ Hands' /\ Apart' /\ pc'[p].at = "idle" /\ ~OriHand(p)' /\ ~RecHand(p)'
        /\ \A q \in Tasks \ {p} : pc'[q] = pc[q] /\ (OriHand(q) => pc[q].i # i /\ pc[q].tid # t)
    BY <1>1, <2>1, OriLeave DEF Inv
  <2>3. Touches(p, i, t)
    BY <1>1, <1>2, <1>3, <2>2 DEF Touches
  <2>4. OriMap(t)' /\ OriAgreed(t)' /\ OriOwn(p)'
    BY <1>1, <1>2, <1>3, <2>2 DEF OriMap, OriAgreed, OriOwn
  <2>5. Timed => i \in Stuck'
    <3>1. i # 0 /\ \A q \in Tasks : OriHand(q)' => pc'[q].i # i
      BY <1>2, <2>2, Tables DEF OriHand
    <3> QED BY <1>1, <1>2, <1>3, <1>6, <3>1 DEF Stuck
  <2> QED BY <1>1, <1>2, <1>4, <2>2, <2>3, <2>4, <2>5, OriSide
<1>7. CASE ~Again(ori[i]) /\ other # 0
  <2>1. other \in Oris /\ ori[other].tid = t /\ ori[other].st \in {"WaitRes", "Done"}
    BY <1>2, <1>7, BaSessionAssumption DEF Oris, OriMap
  <2>2. Go(p, "free", "ori", other, t)
    BY <1>7 DEF Timeout
  <2>3. /\ Hands' /\ Apart' /\ pc'[p].at = "free" /\ pc'[p].i = other /\ pc'[p].tid = t
        /\ OriHand(p)' /\ ~RecHand(p)'
        /\ \A q \in Tasks \ {p} : pc'[q] = pc[q] /\ (OriHand(q) => pc[q].i # other /\ pc[q].tid # t)
    BY <1>1, <1>2, <2>1, <2>2, OriGo, SMTT(60) DEF Inv, OriSteps
  <2>4. OriOwn(p)' /\ OriMap(t)' /\ OriAgreed(t)'
    BY <1>1, <1>2, <2>1, <2>3 DEF OriOwn, OriMap, OriAgreed
  <2>5. CASE other = i
    <3>1. Touches(p, i, t)
      BY <1>1, <1>2, <1>3, <2>3, <2>5 DEF Touches
    <3>2. Timed => HandTimed(p)' /\ EntryTimed(i)'
      BY <1>1, <1>3, <2>3, <2>5 DEF HandTimed, EntryTimed
    <3> QED BY <1>1, <1>2, <1>4, <2>3, <2>4, <3>1, <3>2, OriSide
  <2>6. CASE other # i
    <3>1. \A s \in TID : OriMap(s)' /\ OriAgreed(s)'
      <4>1. \A s \in TID : Amid(s) => Amid(s)'
        BY <1>1, <2>3 DEF Amid
      <4> QED BY <1>1, <4>1 DEF Inv, OriInv, OriMap, OriAgreed
    <3>2. \A q \in Tasks : OriOwn(q)'
      BY <1>1, <2>3, <2>4 DEF Inv, OriInv, OriOwn, OriHand
    <3>3. Stuck' # {}
      <4>1. Timed => i \in Stuck'
        <5>1. \A q \in Tasks \ {p} : OriHand(q) => pc[q].i # i
          BY <1>1 DEF Inv, Apart
        <5> QED BY <1>1, <1>2, <1>3, <2>3, <2>6, <5>1 DEF Stuck, OriHand
      <4>2. ASSUME NEW k \in Stuck PROVE k \in Stuck'
        <5>1. k # other
          BY <1>1, <2>1 DEF Stuck
        <5> QED BY <1>1, <2>3, <5>1 DEF Stuck, OriHand
      <4> QED BY <4>1, <4>2 DEF Inv, OriInv
    <3>4. RecInv' /\ RecCounts'
      BY <1>1, <1>2, <2>3, RecQuiet DEF Inv
    <3> QED BY <1>4, <2>3, <3>1, <3>2, <3>3, <3>4 DEF Inv, OriInv
  <2> QED BY <2>5, <2>6
<1> QED BY <1>5, <1>6, <1>7

LEMMA RetryKeeps ==
  ASSUME Inv, ~Overlap', Retry
  PROVE  Inv'
<1> DEFINE p == "timer"
<1> PICK i, t : i = pc[p].i /\ t = pc[p].tid
  OBVIOUS
<1>1. /\ p \in Tasks /\ pc[p].at = "retry" /\ OriHand(p) /\ armed' = armed \cup {i} /\ Done(p)
      /\ ori' = [ori EXCEPT ![i] = [ori[i] EXCEPT !.token = ori[i].token + 1]]
      /\ UNCHANGED <<ht, oriIdx, recIdx, TXBAbitmap, BADeclineBitmap, numAsOriginator,
                     numDoneOriginator, rec, addba, asked, deleting, left, events, recVars>>
  BY DEF Retry, Tried, At, OriHand, OriSteps, peerVars, recVars, msgVars, delVars
<1>2. /\ i \in Oris /\ t \in TID /\ ori[i] \in OriEntry /\ oriIdx[t] \in 0..NOri
      /\ OriOwn(p) /\ OriMap(t) /\ OriAgreed(t) /\ ~RecHand(p) /\ i \notin Stuck /\ ~Amid(t)
      /\ \A s \in TID : oriIdx[s] = i => s = ori[i].tid /\ ori[i].st \in {"WaitRes", "Done"}
  BY <1>1, InHandFacts
<1>3. ori[i].st = "WaitRes" /\ ori[i].tid = t /\ ori[i].token < MaxRetry
  BY <1>1, <1>2 DEF OriOwn
<1>4. /\ ori' \in [Oris -> OriEntry] /\ ori'[i].st = "WaitRes" /\ ori'[i].tid = t
      /\ \A j \in Oris \ {i} : ori'[j] = ori[j]
  <2>1. ori[i].token + 1 \in 0..MaxRetry
    BY <1>2, <1>3, BaSessionAssumption DEF OriEntry
  <2> DEFINE e == [ori[i] EXCEPT !.token = ori[i].token + 1]
  <2>2. e \in OriEntry /\ e.st = ori[i].st /\ e.tid = ori[i].tid
    BY <1>2, <2>1 DEF OriEntry
  <2> HIDE DEF e
  <2>3. ori' = [ori EXCEPT ![i] = e]
    BY <1>1 DEF e
  <2> QED BY <1>2, <1>3, <2>2, <2>3 DEF Inv, Types
<1>5. /\ Hands' /\ Apart' /\ pc'[p].at = "idle" /\ ~OriHand(p)' /\ ~RecHand(p)'
      /\ \A q \in Tasks \ {p} : pc'[q] = pc[q] /\ (OriHand(q) => pc[q].i # i /\ pc[q].tid # t)
  BY <1>1, OriLeave DEF Inv
<1>6. Types' /\ OriCounts'
  BY <1>1, <1>2, <1>3, <1>4, SameCounts DEF Inv, Types
<1>7. Touches(p, i, t)
  BY <1>1, <1>2, <1>3, <1>4, <1>5 DEF Touches
<1>8. OriMap(t)' /\ OriAgreed(t)' /\ OriOwn(p)'
  <2>1. oriIdx[t] # i => ori'[oriIdx[t]] = ori[oriIdx[t]] \/ oriIdx[t] = 0
    BY <1>2, <1>4, BaSessionAssumption DEF Oris
  <2> QED BY <1>1, <1>2, <1>3, <1>4, <1>5, <2>1, ZenonT(60) DEF OriMap, OriAgreed, OriOwn
<1>9. HandTimed(p)' /\ EntryTimed(i)'
  BY <1>1, <1>4, <1>5 DEF HandTimed, EntryTimed
<1> QED BY <1>1, <1>2, <1>5, <1>6, <1>7, <1>8, <1>9, OriSide
\* The peer agrees to the TID's entry, or answers for none that waits.
LEMMA BAOriSessionAddKeeps ==
  ASSUME Inv, ~Overlap', NEW t \in TID, BAOriSessionAdd(t)
  PROVE  Inv'
<1> DEFINE p == "mlme"
<1> PICK i : i = oriIdx[t]
  OBVIOUS
<1>1. /\ p \in Tasks /\ pc[p].at = "idle" /\ ~OriHand(p) /\ ~RecHand(p) /\ asked' \subseteq asked
      /\ UNCHANGED <<ht, oriIdx, recIdx, TXBAbitmap, BADeclineBitmap, armed, numAsOriginator,
                     rec, addba, deleting, left, events, recVars>>
  BY DEF BAOriSessionAdd, Begin, Free, At, OriHand, RecHand, OriSteps, RecSteps, peerVars,
         recVars, delVars
<1>2. CASE i # 0 /\ ori[i].tid = t /\ ori[i].st = "WaitRes"
  <2>1. /\ ori' = [ori EXCEPT ![i].st = "Done"] /\ numDoneOriginator' = numDoneOriginator + 1
        /\ Go(p, "add", "ori", i, t)
    BY <1>2 DEF BAOriSessionAdd
  <2>2. i \in Oris /\ i \notin Stuck /\ \A s \in TID : oriIdx[s] = i => s = t
    <3>1. i \in Oris
      BY <1>2, BaSessionAssumption DEF Inv, Types, Oris
    <3>2. \A s \in TID : oriIdx[s] = i => s = t
      BY <1>2 DEF Inv, OriInv, OriMap
    <3> QED BY <1>2, <3>1, <3>2 DEF Stuck
  <2>3. /\ ori' \in [Oris -> OriEntry] /\ ori'[i].st = "Done" /\ ori'[i].tid = t
        /\ \A j \in Oris \ {i} : ori'[j] = ori[j]
    BY <1>2, <2>1, <2>2 DEF Inv, Types, OriEntry
  <2>4. Types'
    BY <1>1, <2>2, <2>3 DEF Inv, Types
  <2>5. /\ Hands' /\ Apart' /\ pc'[p].at = "add" /\ pc'[p].i = i /\ pc'[p].tid = t
        /\ OriHand(p)' /\ ~RecHand(p)'
        /\ \A q \in Tasks \ {p} : pc'[q] = pc[q] /\ (OriHand(q) => pc[q].i # i /\ pc[q].tid # t)
    BY <1>1, <2>1, <2>2, OriGo DEF Inv, OriSteps
  <2>6. Touches(p, i, t)
    BY <1>1, <2>2, <2>3, <2>5 DEF Touches
  <2>7. OriMap(t)' /\ OriAgreed(t)' /\ OriOwn(p)'
    BY <1>1, <2>2, <2>3, <2>5 DEF OriMap, OriAgreed, OriOwn, Amid
  <2>8. HandTimed(p)' /\ EntryTimed(i)'
    BY <1>1, <2>3, <2>5 DEF HandTimed, EntryTimed
  <2>9. OriCounts'
    <3>1. OriUsed' = OriUsed
      BY <1>2, <2>2, <2>3 DEF OriUsed
    <3>2. OriDone' = OriDone \cup {i} /\ i \notin OriDone /\ OriDone \subseteq Oris
      BY <1>2, <2>2, <2>3 DEF OriDone
    <3>3. numDoneOriginator + 1 = Cardinality(OriDone \cup {i})
      BY <2>2, <3>2, Tables, OneMore DEF OriCounts, Inv
    <3> QED BY <1>1, <2>1, <3>1, <3>2, <3>3 DEF OriCounts, Inv
  <2> QED BY <1>1, <2>2, <2>4, <2>5, <2>6, <2>7, <2>8, <2>9, OriSide
<1>3. CASE ~(i # 0 /\ ori[i].tid = t /\ ori[i].st = "WaitRes")
  <2>1. UNCHANGED <<ori, numDoneOriginator, pc, oriVars>>
    BY <1>1, <1>3 DEF BAOriSessionAdd, oriVars
  <2>2. Types' /\ Hands' /\ Apart'
    BY <1>1, <2>1 DEF Inv, Types, Hands, HandOK, OriHand, RecHand, Apart
  <2> QED BY <1>1, <2>1, <2>2, OriQuiet, RecQuiet DEF Inv
<1> QED BY <1>2, <1>3

LEMMA AddDoneKeeps ==
  ASSUME Inv, ~Overlap', AddDone
  PROVE  Inv'
<1> DEFINE p == "mlme"
<1> PICK i, t : i = pc[p].i /\ t = pc[p].tid
  OBVIOUS
<1>1. /\ p \in Tasks /\ pc[p].at = "add" /\ OriHand(p) /\ armed' = armed \ {i} /\ Done(p)
      /\ TXBAbitmap' = TXBAbitmap \cup {t}
      /\ UNCHANGED <<ht, oriIdx, recIdx, BADeclineBitmap, ori, numAsOriginator,
                     numDoneOriginator, rec, addba, asked, deleting, left, events, recVars>>
  BY DEF AddDone, StopTimer, At, OriHand, OriSteps, recVars, msgVars, delVars
<1>2. /\ i \in Oris /\ t \in TID /\ ori[i] \in OriEntry /\ oriIdx[t] \in 0..NOri
      /\ OriOwn(p) /\ OriMap(t) /\ OriAgreed(t) /\ ~RecHand(p) /\ i \notin Stuck
      /\ \A s \in TID : oriIdx[s] = i => s = ori[i].tid /\ ori[i].st \in {"WaitRes", "Done"}
  BY <1>1, InHandFacts
<1>3. ori[i].st = "Done" /\ ori[i].tid = t /\ oriIdx[t] = i /\ i # 0
  BY <1>1, <1>2, Tables DEF OriOwn
<1>4. /\ Hands' /\ Apart' /\ pc'[p].at = "idle" /\ ~OriHand(p)' /\ ~RecHand(p)'
      /\ \A q \in Tasks \ {p} : pc'[q] = pc[q] /\ (OriHand(q) => pc[q].i # i /\ pc[q].tid # t)
  BY <1>1, OriLeave DEF Inv
<1>5. Types' /\ OriCounts'
  BY <1>1, <1>2, SameCounts DEF Inv, Types
<1>6. Touches(p, i, t)
  BY <1>1, <1>2, <1>3, <1>4 DEF Touches
<1>7. OriMap(t)' /\ OriAgreed(t)' /\ OriOwn(p)'
  BY <1>1, <1>2, <1>3, <1>4 DEF OriMap, OriAgreed, OriOwn
<1>8. HandTimed(p)' /\ EntryTimed(i)'
  BY <1>1, <1>3, <1>4 DEF HandTimed, EntryTimed
<1> QED BY <1>1, <1>2, <1>4, <1>5, <1>6, <1>7, <1>8, OriSide

LEMMA StopOriKeeps ==
  ASSUME Inv, ~Overlap', NEW p \in Tasks, StopOri(p)
  PROVE  Inv'
<1> PICK i, t : i = pc[p].i /\ t = pc[p].tid
  OBVIOUS
<1>1. /\ pc[p].at = "stop" /\ OriHand(p) /\ armed' = armed \ {i} /\ Go(p, "free", "ori", i, t)
      /\ UNCHANGED <<ht, oriIdx, recIdx, TXBAbitmap, BADeclineBitmap, ori, numAsOriginator,
                     numDoneOriginator, rec, addba, asked, deleting, left, events, recVars>>
  BY DEF StopOri, At, OriHand, OriSteps, peerVars, recVars, msgVars, delVars
<1>2. /\ i \in Oris /\ t \in TID /\ ori[i] \in OriEntry /\ oriIdx[t] \in 0..NOri
      /\ OriOwn(p) /\ OriMap(t) /\ OriAgreed(t) /\ ~RecHand(p) /\ i \notin Stuck /\ ~Amid(t)
      /\ \A s \in TID : oriIdx[s] = i => s = ori[i].tid /\ ori[i].st \in {"WaitRes", "Done"}
  BY <1>1, InHandFacts
<1>3. ori[i].tid = t /\ oriIdx[t] \in {0, i}
  BY <1>1, <1>2 DEF OriOwn
<1>4. /\ Hands' /\ Apart' /\ pc'[p].at = "free" /\ pc'[p].i = i /\ pc'[p].tid = t
      /\ OriHand(p)' /\ ~RecHand(p)'
      /\ \A q \in Tasks \ {p} : pc'[q] = pc[q] /\ (OriHand(q) => pc[q].i # i /\ pc[q].tid # t)
  BY <1>1, <1>2, OriGo DEF Inv, OriSteps
<1>5. Types' /\ OriCounts'
  BY <1>1, <1>2, SameCounts DEF Inv, Types
<1>6. Touches(p, i, t)
  BY <1>1, <1>2, <1>3, <1>4 DEF Touches
<1>7. OriMap(t)' /\ OriAgreed(t)' /\ OriOwn(p)'
  BY <1>1, <1>2, <1>3, <1>4 DEF OriMap, OriAgreed, OriOwn
<1>8. HandTimed(p)' /\ EntryTimed(i)'
  BY <1>1, <1>4 DEF HandTimed, EntryTimed
<1> QED BY <1>1, <1>2, <1>4, <1>5, <1>6, <1>7, <1>8, OriSide

LEMMA FreeOriKeeps ==
  ASSUME Inv, ~Overlap', NEW p \in Tasks, FreeOri(p)
  PROVE  Inv'
<1> PICK i, t : i = pc[p].i /\ t = pc[p].tid
  OBVIOUS
<1>1. /\ pc[p].at = "free" /\ OriHand(p)
      /\ UNCHANGED <<ht, recIdx, TXBAbitmap, BADeclineBitmap, ori, armed, numAsOriginator,
                     numDoneOriginator, rec, addba, asked, deleting, left, events, recVars>>
  BY DEF FreeOri, At, OriHand, OriSteps, oriVars, recVars, msgVars, delVars
<1>2. /\ i \in Oris /\ t \in TID /\ ori[i] \in OriEntry /\ oriIdx[t] \in 0..NOri
      /\ OriOwn(p) /\ OriMap(t) /\ OriAgreed(t) /\ ~RecHand(p) /\ i \notin Stuck /\ ~Amid(t)
      /\ \A s \in TID : oriIdx[s] = i => s = ori[i].tid /\ ori[i].st \in {"WaitRes", "Done"}
  BY <1>1, InHandFacts
<1>3. ori[i].tid = t /\ oriIdx[t] \in {0, i} /\ (Timed => i \notin armed)
  BY <1>1, <1>2 DEF OriOwn, Timed, HandTimed
<1>4. CASE ori[i].st # "NONE"
  <2>1. oriIdx' = [oriIdx EXCEPT ![t] = 0] /\ Go(p, "freed", "ori", i, t)
    BY <1>3, <1>4 DEF FreeOri
  <2>2. /\ Hands' /\ Apart' /\ pc'[p].at = "freed" /\ pc'[p].i = i /\ pc'[p].tid = t
        /\ OriHand(p)' /\ ~RecHand(p)'
        /\ \A q \in Tasks \ {p} : pc'[q] = pc[q] /\ (OriHand(q) => pc[q].i # i /\ pc[q].tid # t)
    BY <1>1, <1>2, <2>1, OriGo DEF Inv, OriSteps
  <2>3. oriIdx' \in [TID -> 0..NOri] /\ oriIdx'[t] = 0 /\ \A s \in TID \ {t} : oriIdx'[s] = oriIdx[s]
    BY <1>2, <2>1, BaSessionAssumption DEF Inv, Types
  <2>4. Types' /\ OriCounts'
    BY <1>1, <2>3, SameCounts DEF Inv, Types
  <2>5. Touches(p, i, t)
    BY <1>1, <1>2, <1>3, <2>2, <2>3 DEF Touches
  <2>6. t \in TXBAbitmap => ori[i].st = "Done"
    BY <1>2, <1>3 DEF OriAgreed
  <2>7. OriMap(t)' /\ OriAgreed(t)' /\ OriOwn(p)'
    BY <1>1, <1>3, <1>4, <2>2, <2>3, <2>6 DEF OriMap, OriAgreed, OriOwn, Amid
  <2>8. Timed => HandTimed(p)' /\ EntryTimed(i)'
    BY <1>1, <1>3, <2>2 DEF HandTimed, EntryTimed
  <2> QED BY <1>1, <1>2, <2>2, <2>4, <2>5, <2>7, <2>8, OriSide
<1>5. CASE ori[i].st = "NONE"
  <2>1. Done(p) /\ UNCHANGED oriIdx
    BY <1>5 DEF FreeOri
  <2>2. /\ Hands' /\ Apart' /\ pc'[p].at = "idle" /\ ~OriHand(p)' /\ ~RecHand(p)'
        /\ \A q \in Tasks \ {p} : pc'[q] = pc[q] /\ (OriHand(q) => pc[q].i # i /\ pc[q].tid # t)
    BY <1>1, <2>1, OriLeave DEF Inv
  <2>3. Types' /\ OriCounts'
    BY <1>1, <2>1, SameCounts DEF Inv, Types
  <2>4. Touches(p, i, t)
    BY <1>1, <1>2, <1>3, <2>1, <2>2 DEF Touches
  <2>5. OriMap(t)' /\ OriAgreed(t)' /\ OriOwn(p)'
    BY <1>1, <1>2, <1>3, <2>1, <2>2 DEF OriMap, OriAgreed, OriOwn
  <2>6. Timed => HandTimed(p)' /\ EntryTimed(i)'
    BY <1>1, <1>3, <1>5, <2>2 DEF HandTimed, EntryTimed
  <2> QED BY <1>1, <1>2, <2>2, <2>3, <2>4, <2>5, <2>6, OriSide
<1> QED BY <1>4, <1>5

LEMMA FreedOriKeeps ==
  ASSUME Inv, ~Overlap', NEW p \in Tasks, FreedOri(p)
  PROVE  Inv'
<1> PICK i, t : i = pc[p].i /\ t = pc[p].tid
  OBVIOUS
<1>1. /\ pc[p].at = "freed" /\ OriHand(p) /\ Done(p)
      /\ numAsOriginator' = numAsOriginator - 1
      /\ ori' = [ori EXCEPT ![i].st = "NONE", ![i].token = 0]
      /\ UNCHANGED <<ht, oriIdx, recIdx, BADeclineBitmap, armed, rec, addba, asked, deleting, left,
                     events, recVars>>
  BY DEF FreedOri, At, OriHand, OriSteps, recVars, msgVars, delVars
<1>2. /\ i \in Oris /\ t \in TID /\ ori[i] \in OriEntry /\ oriIdx[t] \in 0..NOri
      /\ OriOwn(p) /\ OriMap(t) /\ OriAgreed(t) /\ ~RecHand(p) /\ i \notin Stuck
      /\ \A s \in TID : oriIdx[s] = i => s = ori[i].tid /\ ori[i].st \in {"WaitRes", "Done"}
  BY <1>1, InHandFacts
<1>3. /\ ori[i].tid = t /\ ori[i].st # "NONE" /\ oriIdx[t] = 0
      /\ t \in TXBAbitmap => ori[i].st = "Done"
      /\ Timed => i \notin armed
  BY <1>1, <1>2 DEF OriOwn, Timed, HandTimed
<1>4. /\ ori[i].st = "Done" => numDoneOriginator' = numDoneOriginator - 1
                               /\ TXBAbitmap' = TXBAbitmap \ {t}
      /\ ori[i].st # "Done" => UNCHANGED <<numDoneOriginator, TXBAbitmap>>
  BY <1>3 DEF FreedOri, Unmark
<1>5. /\ ori' \in [Oris -> OriEntry] /\ ori'[i].st = "NONE" /\ ori'[i].tid = t
      /\ \A j \in Oris \ {i} : ori'[j] = ori[j]
  <2>1. 0 \in 0..MaxRetry
    BY BaSessionAssumption
  <2> QED BY <1>1, <1>2, <1>3, <2>1 DEF Inv, Types, OriEntry
<1>6. /\ Hands' /\ Apart' /\ pc'[p].at = "idle" /\ ~OriHand(p)' /\ ~RecHand(p)'
      /\ \A q \in Tasks \ {p} : pc'[q] = pc[q] /\ (OriHand(q) => pc[q].i # i /\ pc[q].tid # t)
  BY <1>1, OriLeave DEF Inv
<1>7. Types'
  BY <1>1, <1>2, <1>4, <1>5 DEF Inv, Types
<1>8. Touches(p, i, t)
  BY <1>1, <1>2, <1>3, <1>4, <1>5, <1>6 DEF Touches
<1>9. OriMap(t)' /\ OriAgreed(t)' /\ OriOwn(p)'
  BY <1>1, <1>3, <1>4, <1>6 DEF OriMap, OriAgreed, OriOwn
<1>10. Timed => HandTimed(p)' /\ EntryTimed(i)'
  BY <1>1, <1>3, <1>5, <1>6 DEF HandTimed, EntryTimed
<1>11. OriCounts'
  <2>1. OriUsed' = OriUsed \ {i} /\ i \in OriUsed /\ OriUsed \subseteq Oris
    BY <1>2, <1>3, <1>5 DEF OriUsed
  <2>2. numAsOriginator - 1 = Cardinality(OriUsed \ {i})
    BY <2>1, Tables, OneFewer DEF OriCounts, Inv
  <2>3. OriDone' = OriDone \ {i} /\ OriDone \subseteq Oris
    BY <1>2, <1>5 DEF OriDone
  <2>4. CASE ori[i].st = "Done"
    <3>1. i \in OriDone
      BY <1>2, <2>4 DEF OriDone
    <3>2. numDoneOriginator - 1 = Cardinality(OriDone \ {i})
      BY <2>3, <3>1, Tables, OneFewer DEF OriCounts, Inv
    <3> QED BY <1>1, <1>4, <2>1, <2>2, <2>3, <2>4, <3>2 DEF OriCounts
  <2>5. CASE ori[i].st # "Done"
    <3>1. OriDone' = OriDone
      BY <2>3, <2>5 DEF OriDone
    <3> QED BY <1>1, <1>4, <2>1, <2>2, <2>5, <3>1 DEF OriCounts, Inv
  <2> QED BY <2>4, <2>5
<1> QED BY <1>1, <1>2, <1>6, <1>7, <1>8, <1>9, <1>10, <1>11, OriSide
----------------------------------------------------------------------------
(* The recipient's side. *)

\* A step of the recipient's side leaves the originator's alone.
LEMMA RecSide ==
  ASSUME Inv, Types', Hands', Apart', NEW p \in Tasks, ~OriHand(p), ~OriHand(p)',
         \A q \in Tasks \ {p} : pc'[q] = pc[q],
         UNCHANGED <<oriIdx, TXBAbitmap, oriVars>>,
         \A t \in TID : RecMap(t)', \A q \in Tasks : RecOwn(q)', RecCounts'
  PROVE  Inv'
<1>1. OriInv' /\ OriCounts'
  BY OriQuiet DEF Inv
<1> QED BY <1>1 DEF Inv, RecInv

\* TIDs that are no longer mapped, and nothing else but what task p does.
LEMMA Unmapped ==
  ASSUME Inv, NEW p \in Tasks, \A q \in Tasks \ {p} : pc'[q] = pc[q], UNCHANGED rec,
         \A t \in TID : recIdx'[t] \in {0, recIdx[t]}
  PROVE  /\ \A t \in TID : RecMap(t)'
         /\ \A q \in Tasks \ {p} : RecOwn(q)'
<1>1. \A t \in TID : RecMap(t)'
  BY DEF Inv, RecInv, RecMap
<1>2. ASSUME NEW q \in Tasks \ {p} PROVE RecOwn(q)'
  <2>1. RecHand(q) => pc[q].i # 0
    BY Tables DEF Inv, Hands, HandOK
  <2> QED BY <2>1 DEF Inv, RecInv, RecOwn, RecHand, RecSteps
<1> QED BY <1>1, <1>2

\* A task goes on with a recipient entry, or takes it in hand.
LEMMA RecGo ==
  ASSUME Hands, ~Overlap', NEW p \in Tasks, NEW step \in RecSteps, NEW i \in Recs, NEW t \in TID,
         Go(p, step, "rec", i, t), step = "accept" => p = "mlme"
  PROVE  /\ Hands' /\ Apart'
         /\ \A q \in Tasks \ {p} : pc'[q] = pc[q] /\ (RecHand(q) => pc[q].i # i /\ pc[q].tid # t)
         /\ pc'[p].at = step /\ pc'[p].i = i /\ pc'[p].tid = t /\ RecHand(p)' /\ ~OriHand(p)'
<1>1. step \in Steps \ {"idle"} /\ step \notin OriSteps /\ step \notin {"late", "retry", "add"}
      /\ i \in Nat
  BY Tables DEF OriSteps, RecSteps, Steps
<1>2. /\ Hands' /\ \A q \in Tasks \ {p} : pc'[q] = pc[q]
      /\ pc'[p].at = step /\ pc'[p].i = i /\ pc'[p].tid = t /\ RecHand(p)' /\ ~OriHand(p)'
  BY <1>1, GoHands
<1>3. Apart'
  BY <1>2, StillApart
<1>4. \A q \in Tasks \ {p} : RecHand(q) => pc[q].i # i /\ pc[q].tid # t
  BY <1>2, <1>3 DEF Apart, RecHand
<1> QED BY <1>2, <1>3, <1>4

LEMMA RecLeave ==
  ASSUME Hands, Apart, ~Overlap', NEW p \in Tasks, RecHand(p), Done(p)
  PROVE  /\ Hands' /\ Apart'
         /\ \A q \in Tasks \ {p} : pc'[q] = pc[q] /\ (RecHand(q) => pc[q].i # pc[p].i
                                                                  /\ pc[q].tid # pc[p].tid)
         /\ pc'[p].at = "idle" /\ ~OriHand(p)' /\ ~RecHand(p)'
<1>1. /\ Hands' /\ \A q \in Tasks \ {p} : pc'[q] = pc[q]
      /\ pc'[p].at = "idle" /\ ~OriHand(p)' /\ ~RecHand(p)'
  BY DoneHands
<1>2. Apart'
  BY <1>1, StillApart
<1> QED BY <1>1, <1>2 DEF Apart

\* Facts of a task's recipient entry in hand.
LEMMA RecInHand ==
  ASSUME Inv, NEW p \in Tasks, RecHand(p), NEW i, i = pc[p].i, NEW t, t = pc[p].tid
  PROVE  /\ i \in Recs /\ i # 0 /\ t \in TID /\ rec[i] \in RecEntry /\ RecOwn(p) /\ ~OriHand(p)
         /\ \A s \in TID : recIdx[s] = i => s = rec[i].tid /\ rec[i].st = "Accept"
<1>1. i \in Recs /\ i # 0 /\ t \in TID
  BY Tables DEF Inv, Hands, HandOK
<1>2. rec[i] \in RecEntry /\ RecOwn(p)
  BY <1>1 DEF Inv, Types, RecInv
<1>3. ~OriHand(p)
  BY DEF OriHand, RecHand, OriSteps, RecSteps
<1> QED BY <1>1, <1>2, <1>3 DEF Inv, RecInv, RecMap

\* The TID's entry is taken in hand, to be torn down.
LEMMA FlushKeeps ==
  ASSUME Inv, Types', ~Overlap', NEW p \in Tasks, pc[p].at = "idle", NEW t \in TID, recIdx[t] # 0,
         Go(p, "flush", "rec", recIdx[t], t), UNCHANGED <<oriIdx, recIdx, TXBAbitmap, oriVars, recVars>>
  PROVE  Inv'
<1> PICK i : i = recIdx[t]
  OBVIOUS
<1>1. i \in Recs
  BY BaSessionAssumption DEF Inv, Types, Recs
<1>2. ~OriHand(p) /\ ~RecHand(p) /\ UNCHANGED <<rec, numAsRecipient>>
  BY DEF OriHand, RecHand, OriSteps, RecSteps, recVars
<1>3. /\ Hands' /\ Apart' /\ \A q \in Tasks \ {p} : pc'[q] = pc[q]
      /\ pc'[p].at = "flush" /\ ~OriHand(p)'
  BY <1>1, RecGo DEF Inv, RecSteps
<1>4. /\ \A s \in TID : RecMap(s)'
      /\ \A q \in Tasks \ {p} : RecOwn(q)'
  BY <1>2, <1>3, Unmapped
<1>5. RecOwn(p)'
  BY <1>3 DEF RecOwn
<1>6. RecCounts'
  BY <1>2 DEF Inv, RecCounts, RecUsed
<1> QED BY <1>2, <1>3, <1>4, <1>5, <1>6, RecSide

\* The peer asks for an agreement: of a TID that has one, refused, or of a new entry.
LEMMA PeerAddBAReqActionKeeps ==
  ASSUME Inv, ~Overlap', NEW t \in TID, PeerAddBAReqAction(t)
  PROVE  Inv'
<1> DEFINE p == "mlme"
<1>1. /\ p \in Tasks /\ pc[p].at = "idle" /\ ~OriHand(p) /\ ~RecHand(p) /\ events' \in 0..MaxEvents
      /\ UNCHANGED <<ht, oriIdx, recIdx, TXBAbitmap, BADeclineBitmap, ori, armed, numAsOriginator,
                     numDoneOriginator, addba, asked, deleting, left, oriVars>>
  BY BaSessionAssumption
     DEF PeerAddBAReqAction, Begin, Free, At, OriHand, RecHand, OriSteps, RecSteps, peerVars,
         oriVars, msgVars, delVars, Event, Inv, Types
<1>2. CASE recIdx[t] # 0
  <2> PICK i : i = recIdx[t]
    OBVIOUS
  <2>1. Go(p, "accept", "rec", i, t) /\ UNCHANGED <<rec, numAsRecipient>>
    BY <1>2 DEF PeerAddBAReqAction, recVars
  <2>2. i \in Recs
    BY <1>2, BaSessionAssumption DEF Inv, Types, Recs
  <2>3. /\ Hands' /\ Apart' /\ \A q \in Tasks \ {p} : pc'[q] = pc[q]
        /\ pc'[p].at = "accept" /\ pc'[p].i = i /\ pc'[p].tid = t /\ ~OriHand(p)'
    BY <1>1, <2>1, <2>2, RecGo DEF Inv, RecSteps
  <2>4. /\ \A s \in TID : RecMap(s)'
        /\ \A q \in Tasks \ {p} : RecOwn(q)'
    BY <1>1, <2>1, <2>3, Unmapped
  <2>5. RecOwn(p)'
    BY <1>1, <1>2, <2>1, <2>3 DEF RecOwn, Inv, RecInv, RecMap
  <2>6. RecCounts' /\ Types'
    BY <1>1, <2>1 DEF Inv, Types, RecCounts, RecUsed
  <2> QED BY <1>1, <2>3, <2>4, <2>5, <2>6, RecSide
<1>3. CASE recIdx[t] = 0 /\ numAsRecipient >= MaxRec
  <2>1. UNCHANGED <<pc, rec, numAsRecipient, recVars>>
    BY <1>3 DEF PeerAddBAReqAction, recVars
  <2>2. Types' /\ Hands' /\ Apart'
    BY <1>1, <2>1 DEF Inv, Types, Hands, HandOK, OriHand, RecHand, Apart
  <2> QED BY <1>1, <2>1, <2>2, OriQuiet, RecQuiet DEF Inv
<1>4. CASE recIdx[t] = 0 /\ ~(numAsRecipient >= MaxRec)
  <2> PICK i : i = Min(FreeRecs)
    OBVIOUS
  <2>1. /\ rec' = [rec EXCEPT ![i].st = "USED"] /\ numAsRecipient' = numAsRecipient + 1
        /\ Go(p, "accept", "rec", i, t)
    BY <1>4 DEF PeerAddBAReqAction
  <2>2. i \in Recs /\ rec[i].st = "NONE"
    <3>1. FreeRecs \subseteq Nat
      BY Tables DEF FreeRecs
    <3>2. FreeRecs # {}
      <4>1. SUFFICES ASSUME FreeRecs = {} PROVE FALSE
        OBVIOUS
      <4>2. RecUsed = Recs
        BY <4>1 DEF RecUsed, FreeRecs
      <4>3. numAsRecipient = NRec
        BY <4>2, Tables DEF Inv, RecCounts
      <4> QED BY <1>4, <4>3, BaSessionAssumption
    <3>3. i \in FreeRecs
      BY <3>1, <3>2, LeastIn
    <3> QED BY <3>3 DEF FreeRecs
  <2>3. /\ rec' \in [Recs -> RecEntry] /\ rec'[i].st = "USED"
        /\ \A j \in Recs \ {i} : rec'[j] = rec[j]
    BY <2>1, <2>2 DEF Inv, Types, RecEntry
  <2>4. Types'
    BY <1>1, <2>3 DEF Inv, Types
  <2>5. /\ Hands' /\ Apart'
        /\ \A q \in Tasks \ {p} : pc'[q] = pc[q] /\ (RecHand(q) => pc[q].i # i /\ pc[q].tid # t)
        /\ pc'[p].at = "accept" /\ pc'[p].i = i /\ pc'[p].tid = t /\ ~OriHand(p)'
    BY <1>1, <2>1, <2>2, RecGo DEF Inv, RecSteps
  <2>6. \A s \in TID : recIdx[s] # i /\ (recIdx[s] # 0 => recIdx[s] \in Recs)
    BY <2>2, Tables, BaSessionAssumption DEF Inv, RecInv, RecMap, Types, Recs
  <2>7. \A s \in TID : RecMap(s)'
    BY <1>1, <2>3, <2>6 DEF Inv, RecInv, RecMap
  <2>8. ASSUME NEW q \in Tasks \ {p} PROVE RecOwn(q)'
    <3>1. RecHand(q) => pc[q].i \in Recs \ {i}
      BY <2>5 DEF Inv, Hands, HandOK
    <3> QED BY <1>1, <2>3, <2>5, <3>1 DEF Inv, RecInv, RecOwn, RecHand, RecSteps
  <2>9. RecOwn(p)'
    BY <1>1, <2>3, <2>5, <2>6 DEF RecOwn
  <2>10. RecCounts'
    <3>1. RecUsed' = RecUsed \cup {i} /\ i \notin RecUsed /\ RecUsed \subseteq Recs
      BY <2>2, <2>3 DEF RecUsed
    <3>2. numAsRecipient + 1 = Cardinality(RecUsed \cup {i})
      BY <2>2, <3>1, Tables, OneMore DEF RecCounts, Inv
    <3> QED BY <2>1, <3>1, <3>2 DEF RecCounts
  <2> QED BY <1>1, <2>4, <2>5, <2>7, <2>8, <2>9, <2>10, RecSide
<1> QED BY <1>2, <1>3, <1>4

LEMMA AcceptRecKeeps ==
  ASSUME Inv, ~Overlap', AcceptRec
  PROVE  Inv'
<1> DEFINE p == "mlme"
<1> PICK i, t : i = pc[p].i /\ t = pc[p].tid
  OBVIOUS
<1>1. /\ p \in Tasks /\ pc[p].at = "accept" /\ RecHand(p) /\ Done(p)
      /\ rec' = [rec EXCEPT ![i] = [st |-> "Accept", tid |-> t]]
      /\ recIdx' = [recIdx EXCEPT ![t] = i] /\ BADeclineBitmap' \subseteq BADeclineBitmap
      /\ UNCHANGED <<ht, oriIdx, TXBAbitmap, ori, armed, numAsOriginator, numDoneOriginator,
                     numAsRecipient, addba, asked, deleting, left, events, oriVars>>
  BY DEF AcceptRec, At, RecHand, RecSteps, oriVars, msgVars, delVars
<1>2. /\ i \in Recs /\ i # 0 /\ t \in TID /\ rec[i] \in RecEntry /\ RecOwn(p) /\ ~OriHand(p)
      /\ \A s \in TID : recIdx[s] = i => s = rec[i].tid /\ rec[i].st = "Accept"
  BY <1>1, RecInHand
<1>3. /\ rec' \in [Recs -> RecEntry] /\ rec'[i].st = "Accept" /\ rec'[i].tid = t
      /\ \A j \in Recs \ {i} : rec'[j] = rec[j]
  <2>1. [st |-> "Accept", tid |-> t] \in RecEntry
    BY <1>2 DEF RecEntry
  <2> QED BY <1>1, <1>2, <2>1 DEF Inv, Types
<1>4. /\ recIdx' \in [TID -> 0..NRec] /\ recIdx'[t] = i
      /\ \A s \in TID \ {t} : recIdx'[s] = recIdx[s] /\ recIdx[s] # i
                              /\ (recIdx[s] # 0 => recIdx[s] \in Recs)
  BY <1>1, <1>2, BaSessionAssumption, SMTT(60) DEF Inv, Types, Recs, RecOwn
<1>5. Types'
  BY <1>1, <1>3, <1>4 DEF Inv, Types
<1>6. /\ Hands' /\ Apart' /\ pc'[p].at = "idle" /\ ~OriHand(p)'
      /\ \A q \in Tasks \ {p} : pc'[q] = pc[q] /\ (RecHand(q) => pc[q].i # i /\ pc[q].tid # t)
  BY <1>1, RecLeave DEF Inv
<1>7. \A s \in TID : RecMap(s)'
  BY <1>2, <1>3, <1>4 DEF Inv, RecInv, RecMap
<1>8. ASSUME NEW q \in Tasks \ {p} PROVE RecOwn(q)'
  <2>1. RecHand(q) => pc[q].i \in Recs \ {i} /\ pc[q].tid \in TID \ {t}
    BY <1>6 DEF Inv, Hands, HandOK
  <2> QED BY <1>3, <1>4, <1>6, <2>1 DEF Inv, RecInv, RecOwn, RecHand, RecSteps
<1>9. RecOwn(p)'
  BY <1>6 DEF RecOwn
<1>10. RecCounts'
  <2>1. rec[i].st # "NONE"
    BY <1>1, <1>2 DEF RecOwn
  <2>2. RecUsed' = RecUsed
    BY <1>2, <1>3, <2>1 DEF RecUsed
  <2> QED BY <1>1, <2>2 DEF RecCounts, Inv
<1> QED BY <1>1, <1>2, <1>5, <1>6, <1>7, <1>8, <1>9, <1>10, RecSide

\* Steps that unmap, or do nothing to, an entry on its way to being freed.
LEMMA FlushRecKeeps ==
  ASSUME Inv, ~Overlap', NEW p \in Tasks, FlushRec(p)
  PROVE  Inv'
<1> PICK i, t : i = pc[p].i /\ t = pc[p].tid
  OBVIOUS
<1>1. /\ pc[p].at = "flush" /\ RecHand(p) /\ Go(p, "freeRec", "rec", i, t)
      /\ recIdx' = [recIdx EXCEPT ![t] = 0] \/ recIdx' = recIdx
      /\ UNCHANGED <<ht, oriIdx, TXBAbitmap, BADeclineBitmap, ori, armed, numAsOriginator,
                     numDoneOriginator, rec, numAsRecipient, addba, asked, deleting, left, events,
                     oriVars>>
  BY DEF FlushRec, At, RecHand, RecSteps, oriVars, recVars, msgVars, delVars
<1>2. i \in Recs /\ t \in TID /\ ~OriHand(p)
  BY <1>1, RecInHand
<1>3. recIdx' \in [TID -> 0..NRec] /\ \A s \in TID : recIdx'[s] \in {0, recIdx[s]}
  BY <1>1, <1>2, BaSessionAssumption DEF Inv, Types
<1>4. /\ Hands' /\ Apart' /\ \A q \in Tasks \ {p} : pc'[q] = pc[q]
      /\ pc'[p].at = "freeRec" /\ ~OriHand(p)'
  BY <1>1, <1>2, RecGo DEF Inv, RecSteps
<1>5. /\ \A s \in TID : RecMap(s)'
      /\ \A q \in Tasks \ {p} : RecOwn(q)'
  BY <1>1, <1>3, <1>4, Unmapped
<1>6. RecOwn(p)' /\ RecCounts' /\ Types'
  BY <1>1, <1>3, <1>4 DEF RecOwn, Inv, RecCounts, RecUsed, Types
<1> QED BY <1>1, <1>2, <1>4, <1>5, <1>6, RecSide

LEMMA FreeRecKeeps ==
  ASSUME Inv, ~Overlap', NEW p \in Tasks, FreeRec(p)
  PROVE  Inv'
<1> PICK i, t : i = pc[p].i /\ t = pc[p].tid
  OBVIOUS
<1>1. /\ pc[p].at = "freeRec" /\ RecHand(p)
      /\ UNCHANGED <<ht, oriIdx, TXBAbitmap, BADeclineBitmap, ori, armed, numAsOriginator,
                     numDoneOriginator, rec, numAsRecipient, addba, asked, deleting, left, events,
                     oriVars>>
  BY DEF FreeRec, At, RecHand, RecSteps, oriVars, recVars, msgVars, delVars
<1>2. /\ i \in Recs /\ i # 0 /\ t \in TID /\ ~OriHand(p)
      /\ \A s \in TID : recIdx[s] = i => s = rec[i].tid
  BY <1>1, RecInHand
<1>3. CASE rec[i].st # "NONE"
  <2>1. recIdx' = [recIdx EXCEPT ![rec[i].tid] = 0] /\ Go(p, "freedRec", "rec", i, t)
    BY <1>3 DEF FreeRec
  <2>2. /\ recIdx' \in [TID -> 0..NRec]
        /\ \A s \in TID : recIdx'[s] = IF s = rec[i].tid THEN 0 ELSE recIdx[s]
    <3> PICK u : u = rec[i].tid
      OBVIOUS
    <3>1. recIdx' = [recIdx EXCEPT ![u] = 0] /\ recIdx \in [TID -> 0..NRec] /\ 0 \in 0..NRec
      BY <2>1, BaSessionAssumption DEF Inv, Types
    <3> QED BY <3>1
  <2>3. /\ Hands' /\ Apart' /\ \A q \in Tasks \ {p} : pc'[q] = pc[q]
        /\ pc'[p].at = "freedRec" /\ pc'[p].i = i /\ ~OriHand(p)'
    BY <1>2, <2>1, RecGo DEF Inv, RecSteps
  <2>4. /\ \A s \in TID : RecMap(s)'
        /\ \A q \in Tasks \ {p} : RecOwn(q)'
    BY <1>1, <2>2, <2>3, Unmapped
  <2>5. RecOwn(p)'
    BY <1>1, <1>2, <1>3, <2>2, <2>3 DEF RecOwn
  <2>6. RecCounts' /\ Types'
    BY <1>1, <2>2 DEF Inv, RecCounts, RecUsed, Types
  <2> QED BY <1>1, <1>2, <2>3, <2>4, <2>5, <2>6, RecSide
<1>4. CASE rec[i].st = "NONE"
  <2>1. Done(p) /\ UNCHANGED recIdx
    BY <1>4 DEF FreeRec
  <2>2. /\ Hands' /\ Apart' /\ pc'[p].at = "idle" /\ ~OriHand(p)' /\ \A q \in Tasks \ {p} : pc'[q] = pc[q]
    BY <1>1, <2>1, RecLeave DEF Inv
  <2>3. /\ \A s \in TID : RecMap(s)'
        /\ \A q \in Tasks \ {p} : RecOwn(q)'
    BY <1>1, <2>1, <2>2, Unmapped
  <2>4. RecOwn(p)' /\ RecCounts' /\ Types'
    BY <1>1, <2>1, <2>2 DEF RecOwn, Inv, RecCounts, RecUsed, Types
  <2> QED BY <1>1, <1>2, <2>2, <2>3, <2>4, RecSide
<1> QED BY <1>3, <1>4

LEMMA FreedRecKeeps ==
  ASSUME Inv, ~Overlap', NEW p \in Tasks, FreedRec(p)
  PROVE  Inv'
<1> PICK i, t : i = pc[p].i /\ t = pc[p].tid
  OBVIOUS
<1>1. /\ pc[p].at = "freedRec" /\ RecHand(p) /\ Done(p)
      /\ rec' = [rec EXCEPT ![i].st = "NONE"] /\ numAsRecipient' = numAsRecipient - 1
      /\ UNCHANGED <<ht, oriIdx, recIdx, TXBAbitmap, BADeclineBitmap, ori, armed, numAsOriginator,
                     numDoneOriginator, addba, asked, deleting, left, events, oriVars>>
  BY DEF FreedRec, CountOut, At, RecHand, RecSteps, peerVars, oriVars, msgVars, delVars
<1>2. /\ i \in Recs /\ t \in TID /\ rec[i] \in RecEntry /\ RecOwn(p) /\ ~OriHand(p)
  BY <1>1, RecInHand
<1>3. rec[i].st # "NONE" /\ \A s \in TID : recIdx[s] # i /\ (recIdx[s] # 0 => recIdx[s] \in Recs)
  BY <1>1, <1>2, BaSessionAssumption DEF RecOwn, Inv, Types, Recs
<1>4. /\ rec' \in [Recs -> RecEntry] /\ rec'[i].st = "NONE" /\ \A j \in Recs \ {i} : rec'[j] = rec[j]
  BY <1>1, <1>2 DEF Inv, Types, RecEntry
<1>5. Types'
  BY <1>1, <1>4 DEF Inv, Types
<1>6. /\ Hands' /\ Apart' /\ pc'[p].at = "idle" /\ ~OriHand(p)'
      /\ \A q \in Tasks \ {p} : pc'[q] = pc[q] /\ (RecHand(q) => pc[q].i # i)
  BY <1>1, RecLeave DEF Inv
<1>7. \A s \in TID : RecMap(s)'
  BY <1>1, <1>3, <1>4 DEF Inv, RecInv, RecMap
<1>8. ASSUME NEW q \in Tasks \ {p} PROVE RecOwn(q)'
  <2>1. RecHand(q) => pc[q].i \in Recs \ {i}
    BY <1>6 DEF Inv, Hands, HandOK
  <2> QED BY <1>1, <1>4, <1>6, <2>1 DEF Inv, RecInv, RecOwn, RecHand, RecSteps
<1>9. RecOwn(p)'
  BY <1>6 DEF RecOwn
<1>10. RecCounts'
  <2>1. RecUsed' = RecUsed \ {i} /\ i \in RecUsed /\ RecUsed \subseteq Recs
    BY <1>2, <1>3, <1>4 DEF RecUsed
  <2>2. numAsRecipient - 1 = Cardinality(RecUsed \ {i})
    BY <2>1, Tables, OneFewer DEF RecCounts, Inv
  <2> QED BY <1>1, <2>1, <2>2 DEF RecCounts
<1> QED BY <1>1, <1>2, <1>5, <1>6, <1>7, <1>8, <1>9, <1>10, RecSide
----------------------------------------------------------------------------
(* Steps that change no entry, and the entry of the MAC table. *)

LEMMA QuietKeeps ==
  ASSUME Inv, Types', UNCHANGED <<oriIdx, recIdx, TXBAbitmap, oriVars, recVars, pc>>
  PROVE  Inv'
<1>1. Hands' /\ Apart'
  BY DEF Inv, Hands, HandOK, OriHand, RecHand, Apart
<1> QED BY <1>1, OriQuiet, RecQuiet DEF Inv

LEMMA TearOriKeeps ==
  ASSUME Inv, Types', ~Overlap', NEW p \in Tasks, pc[p].at = "idle", NEW t \in TID,
         NEW passive \in BOOLEAN, TearOri(p, t, passive),
         UNCHANGED <<oriIdx, recIdx, TXBAbitmap, oriVars, recVars>>
  PROVE  Inv'
<1>1. CASE UNCHANGED pc
  BY <1>1, QuietKeeps
<1>2. CASE oriIdx[t] # 0 /\ Go(p, "stop", "ori", oriIdx[t], t)
  BY <1>2, TakeKeeps
<1> QED BY <1>1, <1>2 DEF TearOri

LEMMA TearRecKeeps ==
  ASSUME Inv, Types', ~Overlap', NEW p \in Tasks, pc[p].at = "idle", NEW t \in TID,
         NEW passive \in BOOLEAN, TearRec(p, t, passive),
         UNCHANGED <<oriIdx, recIdx, TXBAbitmap, oriVars, recVars>>
  PROVE  Inv'
<1>1. CASE UNCHANGED pc
  BY <1>1, QuietKeeps
<1>2. CASE recIdx[t] # 0 /\ Go(p, "flush", "rec", recIdx[t], t)
  BY <1>2, FlushKeeps
<1> QED BY <1>1, <1>2 DEF TearRec

\* The bound on events.
LEMMA EventsBounded ==
  ASSUME Inv,
         \/ NoEvent \/ Event
         \/ \E p \in Tasks, t \in TID, passive \in BOOLEAN :
              TearOri(p, t, passive) \/ TearRec(p, t, passive)
  PROVE  events' \in 0..MaxEvents
<1>1. events \in 0..MaxEvents
  BY DEF Inv, Types
<1>2. NoEvent \/ Event
  BY DEF TearOri, TearRec, Forget
<1> QED BY <1>1, <1>2, BaSessionAssumption DEF NoEvent, Event

LEMMA PeerAddBARspRefusesKeeps ==
  ASSUME Inv, ~Overlap', NEW t \in TID, PeerAddBARspRefuses(t)
  PROVE  Inv'
<1>1. /\ "mlme" \in Tasks /\ pc["mlme"].at = "idle" /\ TearOri("mlme", t, TRUE)
      /\ asked' \subseteq asked /\ BADeclineBitmap' \subseteq BADeclineBitmap \cup {t}
      /\ UNCHANGED <<ht, oriIdx, recIdx, TXBAbitmap, ori, armed, rec, addba, deleting, left,
                     oriVars, recVars>>
  BY DEF PeerAddBARspRefuses, Begin, Free, At, oriVars, recVars, delVars
<1>2. Types'
  BY <1>1, EventsBounded DEF Inv, Types
<1> QED BY <1>1, <1>2, TearOriKeeps

\* A DELBA of the peer, a failed frame, a user: an agreement of either side.
LEMMA TearDownKeeps ==
  ASSUME Inv, ~Overlap', NEW p \in Tasks, NEW t \in TID, pc[p].at = "idle", Event,
         \/ oriIdx[t] # 0 /\ Go(p, "stop", "ori", oriIdx[t], t)
         \/ recIdx[t] # 0 /\ Go(p, "flush", "rec", recIdx[t], t),
         TearFrame, UNCHANGED msgVars
  PROVE  Inv'
<1>1. UNCHANGED <<ht, oriIdx, recIdx, TXBAbitmap, BADeclineBitmap, ori, armed, rec, addba, asked,
                  deleting, left, oriVars, recVars>>
  BY DEF TearFrame, peerVars, oriVars, recVars, delVars, msgVars
<1>2. Types'
  BY <1>1, EventsBounded DEF Inv, Types
<1> QED BY <1>1, <1>2, TakeKeeps, FlushKeeps

LEMMA TearNextKeeps ==
  ASSUME Inv, ~Overlap', NEW t \in TID, NEW side \in {"ori", "rec"}, TearNext(side, t)
  PROVE  Inv'
<1>1. /\ "mlme" \in Tasks /\ pc["mlme"].at = "idle" /\ left' \subseteq left
      /\ TearOri("mlme", t, FALSE) \/ TearRec("mlme", t, FALSE)
      /\ UNCHANGED <<ht, oriIdx, recIdx, TXBAbitmap, BADeclineBitmap, ori, armed, rec, addba, asked,
                     deleting, oriVars, recVars>>
  BY DEF TearNext, Free, At, peerVars, oriVars, recVars, msgVars
<1>2. Types'
  BY <1>1, EventsBounded DEF Inv, Types
<1> QED BY <1>1, <1>2, TearOriKeeps, TearRecKeeps

LEMMA MessageKeeps ==
  ASSUME Inv, Delete \/ Connect \/ \E t \in TID : MlmeADDBAAction(t)
  PROVE  Inv'
<1>1. UNCHANGED <<oriIdx, recIdx, TXBAbitmap, oriVars, recVars, pc>>
  BY DEF MlmeADDBAAction, Delete, Connect, peerVars
<1>2. UNCHANGED <<BADeclineBitmap, ori, armed, rec>>
  BY DEF MlmeADDBAAction, Delete, Connect, peerVars, oriVars, recVars
<1>3. /\ ht' \in BOOLEAN /\ deleting' \in BOOLEAN /\ addba' \subseteq TID /\ asked' \subseteq TID
      /\ left' \subseteq {"ori", "rec"} \X TID
  <2>1. CASE Delete
    BY <2>1 DEF Delete, peerVars, msgVars, Inv, Types
  <2>2. CASE Connect
    BY <2>2 DEF Connect, msgVars, delVars, Inv, Types
  <2>3. CASE \E t \in TID : MlmeADDBAAction(t)
    BY <2>3 DEF MlmeADDBAAction, peerVars, delVars, Inv, Types
  <2> QED BY <2>1, <2>2, <2>3
<1>4. events' \in 0..MaxEvents
  BY EventsBounded DEF Delete, Connect, MlmeADDBAAction, NoEvent
<1>5. Types'
  BY <1>1, <1>2, <1>3, <1>4 DEF Inv, Types
<1> QED BY <1>1, <1>5, QuietKeeps

\* The entry of the MAC table is zeroed: no TID leads anywhere, and an entry that one led to
\* is stuck unless a task has it or its timer is armed.
LEMMA ZeroKeeps ==
  ASSUME Inv, Zero
  PROVE  Inv'
<1>1. /\ pc["mlme"].at = "idle" /\ ht' = FALSE /\ TXBAbitmap' = {} /\ BADeclineBitmap' = {}
      /\ oriIdx' = [t \in TID |-> 0] /\ recIdx' = [t \in TID |-> 0] /\ deleting' = FALSE
      /\ UNCHANGED <<ori, armed, numAsOriginator, numDoneOriginator, rec, numAsRecipient, addba,
                     asked, pc, left, events>>
  BY DEF Zero, Free, At, oriVars, recVars, msgVars
<1>2. \A t \in TID : oriIdx'[t] = 0 /\ recIdx'[t] = 0
  BY <1>1
<1>3. Types'
  <2>1. oriIdx' \in [TID -> 0..NOri] /\ recIdx' \in [TID -> 0..NRec]
    BY <1>1, BaSessionAssumption
  <2> QED BY <1>1, <2>1 DEF Inv, Types
<1>4. Hands' /\ Apart'
  BY <1>1 DEF Inv, Hands, HandOK, OriHand, RecHand, Apart
<1>5. \A q \in Tasks : pc[q].at \notin {"add", "accept"}
  BY <1>1 DEF Inv, Hands, HandOK
<1>6. OriInv'
  <2>1. \A t \in TID : OriMap(t)' /\ OriAgreed(t)'
    BY <1>1, <1>2 DEF OriMap, OriAgreed
  <2>2. ASSUME NEW q \in Tasks PROVE OriOwn(q)'
    <3>1. OriHand(q) => pc[q].tid \in TID
      BY DEF Inv, Hands, HandOK
    <3> QED BY <1>1, <1>2, <1>5, <3>1 DEF Inv, OriInv, OriOwn, OriHand
  <2>3. Stuck \subseteq Stuck'
    <3>1. ASSUME NEW k \in Stuck PROVE k \in Stuck'
      <4>1. k \in Oris /\ k # 0 /\ ori[k].tid \in TID
        BY Tables DEF Stuck, Inv, Types
      <4> QED BY <1>1, <1>2, <4>1 DEF Stuck, OriHand
    <3> QED BY <3>1
  <2>4. Timed => Timed'
    BY <1>1 DEF Timed, HandTimed, EntryTimed, OriHand
  <2> QED BY <2>1, <2>2, <2>3, <2>4 DEF OriInv, Inv
<1>7. RecInv'
  <2>1. \A t \in TID : RecMap(t)'
    BY <1>2 DEF RecMap
  <2>2. ASSUME NEW q \in Tasks PROVE RecOwn(q)'
    <3>1. RecHand(q) => pc[q].i # 0
      BY Tables DEF Inv, Hands, HandOK
    <3> QED BY <1>1, <1>2, <1>5, <3>1 DEF Inv, RecInv, RecOwn, RecHand, RecSteps
  <2> QED BY <2>1, <2>2 DEF RecInv
<1>8. OriCounts' /\ RecCounts'
  BY <1>1 DEF Inv, OriCounts, OriUsed, OriDone, RecCounts, RecUsed
<1> QED BY <1>3, <1>4, <1>6, <1>7, <1>8 DEF Inv

----------------------------------------------------------------------------
(* Every step, until two tasks meet. *)

LEMMA StepKeeps ==
  ASSUME Inv, ~Overlap', Step
  PROVE  Inv'
<1>1. ASSUME NEW t \in TID, TxSetUp(t) PROVE Inv'
  <2>1. "tx" \in Tasks \ {"mlme"} /\ Event /\ SetUpEntry("tx", t)
    BY <1>1 DEF TxSetUp, SetUpEntry, Begin, Free
  <2> QED BY <2>1, SetUpEntryKeeps
<1>2. ASSUME NEW t \in TID, UserSetUp(t) PROVE Inv'
  <2>1. "user" \in Tasks \ {"mlme"} /\ Event /\ SetUpEntry("user", t)
    BY <1>2 DEF UserSetUp, SetUpEntry, Begin, Free
  <2> QED BY <2>1, SetUpEntryKeeps
<1>3. ASSUME NEW t \in TID, MlmeADDBAAction(t) PROVE Inv'
  BY <1>3, MessageKeeps
<1>4. ASSUME NEW t \in TID, BAOriSessionAdd(t) PROVE Inv'
  BY <1>4, BAOriSessionAddKeeps
<1>5. ASSUME NEW t \in TID, PeerAddBARspRefuses(t) PROVE Inv'
  BY <1>5, PeerAddBARspRefusesKeeps
<1>6. ASSUME NEW t \in TID, PeerAddBAReqAction(t) PROVE Inv'
  BY <1>6, PeerAddBAReqActionKeeps
<1>7. ASSUME NEW t \in TID, PeerDelBAAction(t) PROVE Inv'
  <2>1. /\ "mlme" \in Tasks /\ pc["mlme"].at = "idle" /\ Event /\ TearFrame /\ UNCHANGED msgVars
        /\ \/ oriIdx[t] # 0 /\ Go("mlme", "stop", "ori", oriIdx[t], t)
           \/ recIdx[t] # 0 /\ Go("mlme", "flush", "rec", recIdx[t], t)
    BY <1>7 DEF PeerDelBAAction, Begin, Free, At, Event
  <2> QED BY <2>1, TearDownKeeps
<1>8. ASSUME NEW t \in TID, FifoFails(t) PROVE Inv'
  <2>1. /\ "timer" \in Tasks /\ pc["timer"].at = "idle" /\ Event /\ TearFrame /\ UNCHANGED msgVars
        /\ oriIdx[t] # 0 /\ Go("timer", "stop", "ori", oriIdx[t], t)
    BY <1>8 DEF FifoFails, Begin, Free, At, Event
  <2> QED BY <2>1, TearDownKeeps
<1>9. ASSUME NEW t \in TID, UserTearDown(t) PROVE Inv'
  <2>1. /\ "user" \in Tasks /\ pc["user"].at = "idle" /\ Event /\ TearFrame /\ UNCHANGED msgVars
        /\ \/ oriIdx[t] # 0 /\ Go("user", "stop", "ori", oriIdx[t], t)
           \/ recIdx[t] # 0 /\ Go("user", "flush", "rec", recIdx[t], t)
    BY <1>9 DEF UserTearDown, Begin, Free, At, Event
  <2> QED BY <2>1, TearDownKeeps
<1>10. ASSUME NEW t \in TID, NEW side \in {"ori", "rec"}, TearNext(side, t) PROVE Inv'
  BY <1>10, TearNextKeeps
<1>11. ASSUME NEW i \in Oris, TakeTimer(i) PROVE Inv'
  BY <1>11, TakeTimerKeeps
<1>12. CASE Timeout
  BY <1>12, TimeoutKeeps
<1>13. CASE Retry
  BY <1>13, RetryKeeps
<1>14. CASE AddDone
  BY <1>14, AddDoneKeeps
<1>15. CASE AcceptRec
  BY <1>15, AcceptRecKeeps
<1>16. CASE Delete \/ Connect
  BY <1>16, MessageKeeps
<1>17. CASE Zero
  BY <1>17, ZeroKeeps
<1>18. ASSUME NEW p \in Tasks, TaskStep(p) PROVE Inv'
  BY <1>18, SetUpFillKeeps, SetUpTimerKeeps, StopOriKeeps, FreeOriKeeps, FreedOriKeeps,
     FlushRecKeeps, FreeRecKeeps, FreedRecKeeps DEF TaskStep
<1> QED BY <1>1, <1>2, <1>3, <1>4, <1>5, <1>6, <1>7, <1>8, <1>9, <1>10, <1>11, <1>12, <1>13,
           <1>14, <1>15, <1>16, <1>17, <1>18 DEF Step

LEMMA NextKeeps == IInv /\ [Next]_vars => IInv'
<1> SUFFICES ASSUME IInv, [Next]_vars PROVE IInv'
  OBVIOUS
<1>1. CASE Next
  <2>1. met' = (met \/ Overlap') /\ met \in BOOLEAN
    BY <1>1 DEF Next, IInv
  <2>2. met' \in BOOLEAN
    <3>1. Overlap' \in BOOLEAN
      BY DEF Overlap
    <3> QED BY <2>1, <3>1
  <2>3. CASE met'
    BY <2>2, <2>3 DEF IInv
  <2>4. CASE ~met'
    <3>1. ~met /\ ~Overlap'
      BY <2>1, <2>4
    <3>2. Inv'
      BY <1>1, <3>1, StepKeeps DEF IInv, Next
    <3> QED BY <2>2, <3>2 DEF IInv
  <2> QED BY <2>3, <2>4
<1>2. CASE UNCHANGED vars
  <2>1. UNCHANGED <<ht, oriIdx, recIdx, TXBAbitmap, BADeclineBitmap, ori, armed, numAsOriginator,
                    numDoneOriginator, rec, numAsRecipient, addba, asked, pc, deleting, left,
                    events, met, oriVars, recVars>>
    BY <1>2 DEF vars, stepVars, peerVars, oriVars, recVars, msgVars
  <2>2. CASE met
    BY <2>1, <2>2 DEF IInv
  <2>3. CASE Inv
    <3>1. Types'
      BY <2>1, <2>3 DEF Inv, Types
    <3>2. Inv'
      BY <2>1, <2>3, <3>1, QuietKeeps
    <3> QED BY <2>1, <3>2 DEF IInv
  <2> QED BY <2>2, <2>3 DEF IInv
<1> QED BY <1>1, <1>2

\* The inductive invariant.
LEMMA Invariance == Spec => []IInv
<1>1. Init => IInv
  BY InitOK DEF Init, IInv
<1> QED BY <1>1, NextKeeps, PTL DEF Spec

----------------------------------------------------------------------------
(* What it shows. *)

\* Types, and at most ORI_SESSION_MAX_RETRY retries of BAOriSessionSetupTimeout, while no
\* two tasks have had an entry or a TID in hand at once.
THEOREM AgreementsAreTyped == Spec => [](met \/ TypeOK)
<1>1. IInv => met \/ TypeOK
  <2> SUFFICES ASSUME Inv, met \in BOOLEAN PROVE TypeOK
    BY DEF IInv
  <2>1. \A p \in Tasks : pc[p].at \in Steps
    BY DEF Inv, Hands, Hand
  <2>2. \A i \in Oris : /\ ori[i].st \in {"NONE", "USED", "WaitRes", "Done"}
                        /\ ori[i].tid \in TID \cup {0} /\ ori[i].token \in 0..MaxRetry
    BY DEF Inv, Types, OriEntry
  <2>3. \A i \in Recs : rec[i].st \in {"NONE", "USED", "Accept"} /\ rec[i].tid \in TID \cup {0}
    BY DEF Inv, Types, RecEntry
  <2> QED BY <2>1, <2>2, <2>3 DEF TypeOK, Inv, Types
<1> QED BY <1>1, Invariance, PTL

\* The counters that bound the two tables agree with the entries: BATableAllocOriEntry,
\* BATableFreeOriEntry and their recipient's counterparts.
THEOREM CountersAgree == Spec => []Counted
<1>1. IInv => Counted
  <2> SUFFICES ASSUME Inv PROVE Counted
    BY DEF IInv, Counted
  <2>1. ASSUME NEW i \in Oris, ori[i].st = "Done" PROVE numDoneOriginator > 0
    <3>1. i \in OriDone /\ IsFiniteSet(OriDone)
      <4>1. OriDone \subseteq Oris
        BY DEF OriDone
      <4> QED BY <2>1, <4>1, Tables, FS_Subset DEF OriDone
    <3>2. Cardinality(OriDone) # 0 /\ Cardinality(OriDone) \in Nat
      BY <3>1, FS_EmptySet, FS_CardinalityType
    <3> QED BY <3>2 DEF Inv, OriCounts
  <2> QED BY <2>1 DEF Counted, Inv, OriCounts, RecCounts, OriUsed, RecUsed
<1> QED BY <1>1, Invariance, PTL

\* A stuck entry is an orphan.
LEMMA StuckAreOrphans == Hands => Stuck \subseteq Orphans
<1> SUFFICES ASSUME Hands, NEW k \in Stuck PROVE k \in Orphans
  OBVIOUS
<1>1. ~Handled(k)
  <2> SUFFICES ASSUME NEW p \in Tasks, InHand(p), pc[p].tab = "ori", pc[p].i = k PROVE FALSE
    BY DEF Handled
  <2>1. OriHand(p) \/ RecHand(p)
    BY DEF InHand, OriHand, RecHand, OriSteps, RecSteps, Hands, Hand, Steps
  <2> QED BY <2>1 DEF Stuck, Hands, HandOK
<1> QED BY <1>1 DEF Stuck, Orphans

\* An entry that nobody leads to any more is in no task's hand.
LEMMA OriHandled ==
  ASSUME Hands
  PROVE  /\ \A i \in Oris : Handled(i) <=> \E p \in Tasks : OriHand(p) /\ pc[p].i = i
         /\ \A t \in TID : TidHandled("ori", t) <=> \E p \in Tasks : OriHand(p) /\ pc[p].tid = t
<1>1. \A p \in Tasks : InHand(p) /\ pc[p].tab = "ori" <=> OriHand(p)
  <2> SUFFICES ASSUME NEW p \in Tasks PROVE InHand(p) /\ pc[p].tab = "ori" <=> OriHand(p)
    OBVIOUS
  <2>1. InHand(p) <=> OriHand(p) \/ RecHand(p)
    BY DEF InHand, OriHand, RecHand, OriSteps, RecSteps, Hands, Hand, Steps
  <2> QED BY <2>1 DEF Hands, HandOK
<1> QED BY <1>1 DEF Handled, TidHandled

\* STASendPacket and the transmit path aggregate a TID exactly while the peer has agreed to
\* it: TXBAbitmap against the table.
THEOREM TransmitPathAgrees == Spec => []TxAgreed
<1>1. IInv => TxAgreed
  <2> SUFFICES ASSUME Inv, NEW t \in TID, ~TidHandled("ori", t)
               PROVE  t \in TXBAbitmap <=>
                        oriIdx[t] # 0 /\ ori[oriIdx[t]] = [ori[oriIdx[t]] EXCEPT !.st = "Done", !.tid = t]
    BY DEF IInv, TxAgreed
  <2>1. ~Amid(t)
    BY OriHandled DEF Inv, Amid, OriHand, OriSteps
  <2>2. t \in TXBAbitmap <=> oriIdx[t] # 0 /\ ori[oriIdx[t]].st = "Done"
    BY <2>1 DEF Inv, OriInv, OriAgreed
  <2>3. ASSUME oriIdx[t] # 0
        PROVE  ori[oriIdx[t]].st = "Done"
                 <=> ori[oriIdx[t]] = [ori[oriIdx[t]] EXCEPT !.st = "Done", !.tid = t]
    <3> PICK e : e = ori[oriIdx[t]]
      OBVIOUS
    <3>1. oriIdx[t] \in Oris
      BY <2>3, BaSessionAssumption DEF Inv, Types, Oris
    <3>2. e \in OriEntry /\ e.tid = t
      BY <2>3, <3>1 DEF Inv, Types, OriInv, OriMap
    <3>3. e.st = "Done" <=> e = [e EXCEPT !.st = "Done", !.tid = t]
      BY <3>2 DEF OriEntry
    <3> QED BY <3>3
  <2> QED BY <2>2, <2>3
<1> QED BY <1>1, Invariance, PTL

\* An unanswered agreement has its ORIBATimer armed, and no other entry has, so that
\* BAOriSessionSetupTimeout frees none that has been set up since.
THEOREM TimersAgree == Spec => []WaitingIffTimed
<1>1. IInv => WaitingIffTimed
  <2> SUFFICES ASSUME Inv, Orphans = {}, NEW i \in Oris, ~Handled(i)
               PROVE  ori[i].st = "WaitRes" <=> i \in armed
    BY DEF IInv, WaitingIffTimed
  <2>1. Timed
    BY StuckAreOrphans DEF Inv, OriInv
  <2>2. \A p \in Tasks : OriHand(p) => pc[p].i # i
    BY OriHandled DEF Inv
  <2> QED BY <2>1, <2>2 DEF Timed, EntryTimed
<1> QED BY <1>1, Invariance, PTL
=============================================================================

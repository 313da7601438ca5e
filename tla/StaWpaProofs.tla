---------------------------- MODULE StaWpaProofs -----------------------------
(***************************************************************************)
(* The keys of the station, for every number of associations, repetitions   *)
(* and new handshakes and every size of the MLME queue: a secured port has    *)
(* the keys of its own association, the hardware knows the access point, and  *)
(* the two sides agree on the keys whenever the access point is done.         *)
(***************************************************************************)
EXTENDS StaWpa, SequenceTheorems, FiniteSetTheorems, TLAPS

----------------------------------------------------------------------------
(* What the queue holds. *)

\* What a queue holds after an element is appended.
LEMMA RangeAppend ==
  ASSUME NEW S, NEW q \in Seq(S), NEW e \in S
  PROVE  /\ Append(q, e) \in Seq(S)
         /\ Range(Append(q, e)) = Range(q) \cup {e}
<1> DEFINE r == Append(q, e)
<1>1. /\ r \in Seq(S) /\ Len(r) = Len(q) + 1
      /\ \A i \in 1..Len(q) : r[i] = q[i]
      /\ r[Len(q) + 1] = e
  BY AppendProperties
<1>2. Len(q) \in Nat /\ DOMAIN q = 1..Len(q) /\ DOMAIN r = 1..Len(r)
  BY <1>1, LenProperties
<1> HIDE DEF r
<1>3. \A i \in DOMAIN r : i \in DOMAIN q \/ i = Len(q) + 1
  BY <1>1, <1>2
<1>4. \A i \in DOMAIN q : i \in DOMAIN r
  BY <1>1, <1>2
<1>5. Len(q) + 1 \in DOMAIN r
  BY <1>1, <1>2
<1>6. Range(r) = Range(q) \cup {e}
  BY <1>1, <1>2, <1>3, <1>4, <1>5 DEF Range
<1> QED BY <1>1, <1>6 DEF r

\* What it holds once the head is taken.
LEMMA RangeTail ==
  ASSUME NEW S, NEW q \in Seq(S), q # <<>>
  PROVE  /\ Head(q) \in S /\ Head(q) \in Range(q) /\ Tail(q) \in Seq(S)
         /\ Range(q) = {Head(q)} \cup Range(Tail(q))
<1> DEFINE r == Tail(q)
<1>1. /\ Head(q) \in S /\ r \in Seq(S) /\ Len(r) = Len(q) - 1
      /\ \A i \in 1..Len(r) : r[i] = q[i + 1]
  BY HeadTailProperties
<1>2. Len(q) \in Nat /\ Len(q) # 0 /\ DOMAIN q = 1..Len(q) /\ DOMAIN r = 1..Len(r)
  BY <1>1, LenProperties, EmptySeq
<1>3. Head(q) = q[1] /\ 1 \in DOMAIN q
  BY <1>2
<1> HIDE DEF r
<1>4. \A i \in DOMAIN r : i + 1 \in DOMAIN q /\ r[i] = q[i + 1]
  BY <1>1, <1>2
<1>5. \A i \in DOMAIN q : i = 1 \/ (i - 1 \in DOMAIN r /\ r[i - 1] = q[i])
  <2> TAKE i \in DOMAIN q
  <2>1. CASE i = 1
    BY <2>1
  <2>2. CASE i # 1
    <3>1. i - 1 \in DOMAIN r /\ (i - 1) + 1 = i
      BY <1>1, <1>2, <2>2
    <3> QED BY <1>4, <3>1
  <2> QED BY <2>1, <2>2
<1>6. \A x \in Range(r) : x \in Range(q)
  BY <1>4 DEF Range
<1>7. \A x \in Range(q) : x = Head(q) \/ x \in Range(r)
  BY <1>3, <1>5 DEF Range
<1>8. Head(q) \in Range(q)
  BY <1>3 DEF Range
<1> QED BY <1>1, <1>6, <1>7, <1>8 DEF r

\* An empty queue holds nothing, and only an empty one does.
LEMMA RangeEmpty ==
  ASSUME NEW S, NEW q \in Seq(S)
  PROVE  /\ Range(q) \subseteq S
         /\ Range(q) = {} <=> q = <<>>
<1>1. DOMAIN q = 1..Len(q) /\ Len(q) \in Nat
  BY LenProperties
<1>2. Range(q) \subseteq S
  BY <1>1, ElementOfSeq DEF Range
<1>3. q = <<>> <=> Len(q) = 0
  BY EmptySeq
<1>4. CASE q = <<>>
  <2>1. DOMAIN q = {}
    BY <1>1, <1>3, <1>4
  <2> QED BY <1>2, <1>4, <2>1 DEF Range
<1>5. CASE q # <<>>
  <2>1. 1 \in DOMAIN q
    BY <1>1, <1>3, <1>5
  <2>2. q[1] \in Range(q)
    BY <2>1 DEF Range
  <2> QED BY <1>2, <1>5, <2>2
<1> QED BY <1>4, <1>5

----------------------------------------------------------------------------

Keys == Seq(Nat)
OfLink(k, l) == k # NoKey /\ k[1] = l

ToSta == [type : {"m1", "m3", "g1"}, r : Nat, nonce : Keys, mic : Keys, gtk : Keys, enc : Keys]
ToAp == [type : {"m2", "m4", "g2"}, r : Nat, nonce : Nat, mic : Keys, gtk : Keys, enc : Keys]
Assoc == [type : {"assoc"}, bss : AP, link : Nat \ {0}]
Leave == [type : {"leave"}, link : Nat]
Message == ToSta \cup Assoc \cup Leave

ApState ==
  [st : {"idle", "wait2", "wait4", "waitg", "done"}, bss : AP \cup {NoAP}, link : Nat,
   hs : Nat, group : Nat, r : Nat, ptk : Keys, key : Keys, tries : Nat, rekeys : Nat]

TypeOK ==
  /\ wpa2 \in BOOLEAN /\ link \in Nat
  /\ bssid \in AP \cup {NoAP} /\ addr \in AP \cup {NoAP} /\ wcid \in AP \cup {NoAP}
  /\ R_Counter \in Nat /\ ANonce \in Keys /\ PTK \in Keys
  /\ key \in Keys /\ gtk \in Keys /\ PortSecured \in BOOLEAN
  /\ queue \in Seq(Message) /\ at \in {"idle", "roam", "half", "deleting"}
  /\ ap \in ApState
  /\ toSta \in SUBSET ToSta /\ toAp \in SUBSET ToAp

\* Where the MLME thread is, and the message in its hand.
Thread ==
  /\ at = "idle" => addr = IF link = 0 THEN NoAP ELSE bssid
  /\ at = "half" => addr = NoAP /\ link # 0
  /\ at = "deleting" => link = 0 /\ queue # <<>> /\ queue[1].type = "leave"
  /\ at = "roam" => queue # <<>> /\ queue[1].type = "assoc"

\* An association in the queue is the access point's latest, and the only one; no
\* EAPOL frame is behind it, since the station does not hear that access point yet.
Pending == \E m \in Range(queue) : m.type = "assoc"
AssocLast ==
  \A i, j \in DOMAIN queue : queue[i].type = "assoc" /\ queue[j].type # "leave" => j <= i
Latest ==
  /\ \A m \in Range(queue) : m.type = "assoc" => m.bss = ap.bss /\ m.link = ap.link
  /\ Pending => bssid # ap.bss /\ link # ap.link
  /\ ~Pending /\ link # 0 => link = ap.link
  /\ ap.st # "idle" => ap.link # 0

\* The access point has the keys that its state calls for.
KeysOf(a) ==
  /\ a.ptk = NoKey \/ OfLink(a.ptk, a.link)
  /\ a.st \in {"wait4", "waitg", "done"} => a.ptk # NoKey
  /\ a.st \in {"waitg", "done"} => a.key # NoKey
ApKeys == KeysOf(ap)

\* What a frame to the station carries belongs to the association it was sent in.
Belongs(m, l) ==
  /\ m.type \in {"m1", "m3"} => OfLink(m.nonce, l)
  /\ m.type = "m3" => m.mic # NoKey /\ (wpa2 => OfLink(m.gtk, l))
  /\ m.type = "g1" => OfLink(m.gtk, l) /\ m.enc # NoKey
FramesBelong ==
  /\ \A m \in toSta : Belongs(m, ap.link)
  /\ link # 0 => \A m \in Range(queue) : Belongs(m, link) /\ (m.type = "g1" => key # NoKey)

\* So do the keys of the station.
KeysBelong == link # 0 => \A k \in {PTK, key, gtk} : k = NoKey \/ OfLink(k, link)

IInv ==
  /\ TypeOK /\ Thread /\ AssocLast /\ Latest /\ ApKeys /\ FramesBelong /\ KeysBelong
  /\ SecuredHasKeys /\ WcidTable

\* A frame to the station carries the counter it was sent with, and that of the
\* access point's latest message its group key.
Replay(m) ==
  /\ m.r # 0 /\ m.r <= ap.r
  /\ m.r = ap.r /\ (m.type = "g1" \/ (m.type = "m3" /\ wpa2)) => m.gtk = GroupKeyOf(ap)

Counters ==
  /\ ap.st # "idle" => ap.r # 0
  /\ \A m \in toSta : Replay(m)
  /\ \A m \in Range(queue) : m.type \in {"m1", "m3", "g1"} => m.r # 0
  /\ link # 0 /\ link = ap.link =>
       /\ R_Counter <= ap.r
       /\ \A m \in Range(queue) : m.type \in {"m1", "m3", "g1"} => Replay(m)

\* The latest answer of the station tells what it has installed.
Answers ==
  /\ link # 0 /\ link = ap.link => \A m \in toAp : OfLink(m.mic, link) =>
       /\ m.r <= R_Counter
       /\ m.r = R_Counter /\ m.type = "m4" =>
            key = m.mic /\ PTK = m.mic
            /\ (wpa2 => PortSecured /\ (m.r = ap.r => gtk = GroupKeyOf(ap)))
       /\ m.r = R_Counter /\ m.type = "g2" =>
            key = m.enc /\ PTK = m.mic /\ PortSecured /\ (m.r = ap.r => gtk = GroupKeyOf(ap))
  /\ Pending => ap.st \in {"idle", "wait2"} /\ \A m \in toAp : ~OfLink(m.mic, ap.link)

Done ==
  /\ ap.st \in {"waitg", "done"} => ap.ptk = ap.key
  /\ ap.st = "done" /\ link = ap.link => R_Counter = ap.r

KInv == Counters /\ Answers /\ Done /\ KeysAgree

----------------------------------------------------------------------------
(* Keys, frames and the queue. *)

\* A key derived from a nonce is a key of the nonce's association.
LEMMA Derived ==
  ASSUME NEW n \in Keys, NEW s \in Nat, NEW l, OfLink(n, l)
  PROVE  DerivePTK(n, s) \in Keys /\ OfLink(DerivePTK(n, s), l)
<1>1. /\ Append(n, s) \in Seq(Nat) /\ Append(n, s) # <<>>
      /\ \A i \in 1..Len(n) : Append(n, s)[i] = n[i]
  BY AppendProperties DEF Keys
<1>2. 1 \in 1..Len(n)
  BY EmptySeq DEF Keys, OfLink, NoKey
<1> QED BY <1>1, <1>2 DEF DerivePTK, Keys, OfLink, NoKey

\* Nonces and group keys name the association.
LEMMA Pairs ==
  ASSUME NEW l \in Nat, NEW x \in Nat
  PROVE  <<l, x>> \in Keys /\ OfLink(<<l, x>>, l)
BY DEF Keys, OfLink, NoKey

LEMMA NoKeyIsKey == NoKey \in Keys /\ \A l : ~OfLink(NoKey, l)
BY EmptySeq DEF NoKey, Keys, OfLink

\* The kinds of messages.
LEMMA Kinds ==
  ASSUME NEW m \in Message
  PROVE  /\ m.type \in {"m1", "m3", "g1"} <=> m \in ToSta
         /\ m.type = "assoc" <=> m \in Assoc
         /\ m.type = "leave" <=> m \in Leave
         /\ m.type \in {"m1", "m3", "g1", "assoc", "leave"}
BY DEF Message, ToSta, Assoc, Leave

\* Appending keeps what is in the queue and in which order; what comes behind an
\* association is a leave message.
LEMMA QueueAppend ==
  ASSUME TypeOK, AssocLast, NEW m \in Message, queue' = Append(queue, m),
         m.type = "leave" \/ ~Pending
  PROVE  /\ queue' \in Seq(Message) /\ Range(queue') = Range(queue) \cup {m} /\ AssocLast'
         /\ queue' # <<>> /\ (queue # <<>> => queue'[1] = queue[1])
<1>1. /\ queue' \in Seq(Message) /\ Range(queue') = Range(queue) \cup {m}
  BY RangeAppend DEF TypeOK
<1>2. /\ queue' # <<>> /\ Len(queue') = Len(queue) + 1
      /\ \A i \in 1..Len(queue) : queue'[i] = queue[i]
      /\ queue'[Len(queue) + 1] = m
  BY AppendProperties DEF TypeOK
<1>3. /\ DOMAIN queue = 1..Len(queue) /\ Len(queue) \in Nat
      /\ DOMAIN queue' = 1..(Len(queue) + 1)
  BY <1>1, <1>2, LenProperties DEF TypeOK
<1>4. queue # <<>> => queue'[1] = queue[1]
  <2>1. queue # <<>> => 1 \in 1..Len(queue)
    BY EmptySeq DEF TypeOK
  <2> QED BY <1>2, <2>1
<1>5. AssocLast'
  <2> SUFFICES ASSUME NEW i \in DOMAIN queue', NEW j \in DOMAIN queue',
                      queue'[i].type = "assoc", queue'[j].type # "leave"
               PROVE  j <= i
    BY DEF AssocLast
  <2>1. CASE i \in DOMAIN queue
    <3>1. queue[i].type = "assoc" /\ Pending
      BY <1>2, <1>3, <2>1 DEF Pending, Range
    <3>2. j # Len(queue) + 1
      BY <1>2, <3>1
    <3>3. j \in DOMAIN queue /\ queue[j].type # "leave"
      BY <1>2, <1>3, <3>2
    <3> QED BY <2>1, <3>1, <3>3 DEF AssocLast
  <2>2. CASE i \notin DOMAIN queue
    BY <1>3, <2>2
  <2> QED BY <2>1, <2>2
<1> QED BY <1>1, <1>2, <1>4, <1>5

\* Taking the head keeps the rest; behind an association only leave messages are left.
LEMMA QueueTail ==
  ASSUME TypeOK, AssocLast, queue # <<>>, queue' = Tail(queue)
  PROVE  /\ Head(queue) \in Message /\ Head(queue) = queue[1] /\ queue' \in Seq(Message)
         /\ Range(queue) = {Head(queue)} \cup Range(queue') /\ AssocLast'
         /\ Head(queue).type = "assoc" => \A m \in Range(queue') : m.type = "leave"
<1>1. /\ Head(queue) \in Message /\ queue' \in Seq(Message)
      /\ Range(queue) = {Head(queue)} \cup Range(queue')
  BY RangeTail DEF TypeOK
<1>2. /\ DOMAIN queue = 1..Len(queue) /\ Len(queue) \in Nat /\ Len(queue) # 0
      /\ Head(queue) = queue[1]
  BY LenProperties, EmptySeq DEF TypeOK
<1>3. /\ DOMAIN queue' = 1..(Len(queue) - 1)
      /\ \A i \in DOMAIN queue' : queue'[i] = queue[i + 1]
  <2>1. /\ Len(queue') = Len(queue) - 1
        /\ \A i \in 1..Len(queue') : queue'[i] = queue[i + 1]
    BY HeadTailProperties DEF TypeOK
  <2> QED BY <1>1, <2>1, LenProperties
<1>4. \A i \in DOMAIN queue' : i + 1 \in DOMAIN queue
  BY <1>2, <1>3
<1>5. AssocLast'
  <2> SUFFICES ASSUME NEW i \in DOMAIN queue', NEW j \in DOMAIN queue',
                      queue'[i].type = "assoc", queue'[j].type # "leave"
               PROVE  j <= i
    BY DEF AssocLast
  <2>1. j + 1 <= i + 1
    BY <1>3, <1>4 DEF AssocLast
  <2> QED BY <1>3, <2>1
<1>6. ASSUME Head(queue).type = "assoc", NEW m \in Range(queue') PROVE m.type = "leave"
  <2>1. PICK i \in DOMAIN queue' : m = queue'[i]
    BY DEF Range
  <2>2. 1 \in DOMAIN queue /\ ~(i + 1 <= 1)
    BY <1>2, <1>3
  <2> QED BY <1>2, <1>3, <1>4, <1>6, <2>1, <2>2 DEF AssocLast
<1> QED BY <1>1, <1>2, <1>5, <1>6

LEMMA InitOK == Init => IInv
<1> SUFFICES ASSUME Init PROVE IInv
  OBVIOUS
<1>1. queue = <<>> /\ <<>> \in Seq(Message) /\ Range(queue) = {} /\ DOMAIN queue = {}
  BY EmptySeq, RangeEmpty DEF Init, Range
<1>2. TypeOK
  BY <1>1, NoKeyIsKey DEF Init, TypeOK, ApState
<1>3. Thread /\ AssocLast /\ Latest /\ ApKeys
  BY <1>1 DEF Init, Thread, AssocLast, Latest, Pending, ApKeys, KeysOf
<1>4. FramesBelong /\ KeysBelong /\ SecuredHasKeys /\ WcidTable
  BY <1>1 DEF Init, FramesBelong, KeysBelong, SecuredHasKeys, WcidTable
<1> QED BY <1>2, <1>3, <1>4 DEF IInv

----------------------------------------------------------------------------
(* The access point and the medium. *)

\* What an access point says in a state whose keys it has belongs to its association.
LEMMA SaysBelongs ==
  ASSUME TypeOK, NEW a \in ApState, KeysOf(a), a.st \in {"wait2", "wait4", "waitg"}
  PROVE  Says(a) \in ToSta /\ Belongs(Says(a), a.link)
<1>1. /\ NonceOf(a) \in Keys /\ OfLink(NonceOf(a), a.link)
      /\ GroupKeyOf(a) \in Keys /\ OfLink(GroupKeyOf(a), a.link)
  BY Pairs DEF ApState, NonceOf, GroupKeyOf
<1>2. CASE a.st = "wait2"
  <2>1. Says(a) = Frame("m1", a.r, NonceOf(a), NoKey, NoKey, a.key)
    BY <1>2 DEF Says
  <2> QED BY <1>1, <2>1, NoKeyIsKey DEF Frame, ToSta, ApState, Belongs
<1>3. CASE a.st = "wait4"
  <2>1. Says(a) = Frame("m3", a.r, NonceOf(a), a.ptk,
                        IF wpa2 THEN GroupKeyOf(a) ELSE NoKey, a.key)
    BY <1>3 DEF Says
  <2>2. a.ptk # NoKey
    BY <1>3 DEF KeysOf
  <2> QED BY <1>1, <2>1, <2>2, NoKeyIsKey DEF Frame, ToSta, ApState, Belongs
<1>4. CASE a.st = "waitg"
  <2>1. Says(a) = Frame("g1", a.r, NoKey, a.ptk, GroupKeyOf(a), a.key)
    BY <1>4 DEF Says
  <2>2. a.key # NoKey
    BY <1>4 DEF KeysOf
  <2> QED BY <1>1, <2>1, <2>2, NoKeyIsKey DEF Frame, ToSta, ApState, Belongs
<1> QED BY <1>2, <1>3, <1>4

\* An access point that goes on within its association.
LEMMA GoesKeeps ==
  ASSUME IInv, NEW a \in ApState, KeysOf(a), a.st \in {"wait2", "wait4", "waitg"},
         a.link = ap.link, a.bss = ap.bss, ap.st # "idle", Goes(a), ApFrame, UNCHANGED queue
  PROVE  IInv'
<1>1. Says(a) \in ToSta /\ Belongs(Says(a), ap.link)
  BY SaysBelongs DEF IInv
<1>2. /\ ap' = a /\ toSta' = toSta \cup {Says(a)} /\ toAp' = {}
      /\ UNCHANGED <<wpa2, link, entryVars, keyVars, timerVars, at, hwVars, queue>>
  BY DEF Goes, ApFrame
<1>3. TypeOK'
  BY <1>1, <1>2 DEF IInv, TypeOK, entryVars, keyVars, hwVars
<1>4. Thread' /\ AssocLast' /\ Latest' /\ ApKeys'
  BY <1>2 DEF IInv, Thread, AssocLast, Latest, Pending, ApKeys, entryVars
<1>5. FramesBelong' /\ KeysBelong' /\ SecuredHasKeys' /\ WcidTable'
  BY <1>1, <1>2 DEF IInv, FramesBelong, Belongs, KeysBelong, SecuredHasKeys, WcidTable,
                    entryVars, keyVars, hwVars
<1> QED BY <1>3, <1>4, <1>5 DEF IInv

\* The steps of an access point that say nothing.
LEMMA SilentKeeps ==
  ASSUME IInv, NEW a \in ApState, KeysOf(a), ap' = a, a.link = ap.link, a.bss = ap.bss,
         ap.st # "idle", toAp' \subseteq toAp, ApFrame, UNCHANGED <<queue, toSta>>
  PROVE  IInv'
<1>1. TypeOK'
  BY DEF IInv, TypeOK, ApFrame, entryVars, keyVars, hwVars
<1>2. Thread' /\ AssocLast' /\ Latest' /\ ApKeys'
  BY DEF IInv, Thread, AssocLast, Latest, Pending, ApKeys, ApFrame, entryVars
<1>3. FramesBelong' /\ KeysBelong' /\ SecuredHasKeys' /\ WcidTable'
  BY DEF IInv, FramesBelong, Belongs, KeysBelong, SecuredHasKeys, WcidTable, ApFrame,
         entryVars, keyVars, hwVars
<1> QED BY <1>1, <1>2, <1>3 DEF IInv

\* The next association: the queue held none, so that the link that is up, if any,
\* was that of the access point now left.
LEMMA AssociateKeeps ==
  ASSUME IInv, NEW b \in AP, Associate(b)
  PROVE  IInv'
<1> DEFINE a == [st |-> "wait2", bss |-> b, link |-> ap.link + 1, hs |-> 1, group |-> 1,
                 r |-> FirstR, ptk |-> NoKey, key |-> NoKey, tries |-> 0, rekeys |-> 0]
           m == [type |-> "assoc", bss |-> b, link |-> a.link]
<1>1. /\ at = "idle" /\ b # bssid /\ queue' = Append(queue, m)
      /\ \A i \in 1..Len(queue) : queue[i].type # "assoc"
      /\ ap' = a /\ toSta' = {Says(a)} /\ toAp' = {}
      /\ UNCHANGED <<wpa2, link, entryVars, keyVars, timerVars, at, hwVars>>
  BY DEF Associate
<1>2. ap.link \in Nat /\ a \in ApState /\ KeysOf(a)
  BY StaWpaAssumption, NoKeyIsKey DEF IInv, TypeOK, ApState, KeysOf
<1>3. m \in Assoc /\ m \in Message
  BY <1>2 DEF Assoc, Message, ApState
<1>4. /\ m.type = "assoc" /\ m.bss = b /\ m.link = ap.link + 1
      /\ a.st = "wait2" /\ a.bss = b /\ a.link = ap.link + 1
  OBVIOUS
<1> HIDE DEF a, m
<1>5. ~Pending
  BY <1>1, LenProperties DEF IInv, TypeOK, Pending, Range
<1>6. /\ queue' \in Seq(Message) /\ Range(queue') = Range(queue) \cup {m} /\ AssocLast'
      /\ queue' # <<>>
  BY <1>1, <1>3, <1>5, QueueAppend DEF IInv
<1>7. Says(a) \in ToSta /\ Belongs(Says(a), ap.link + 1)
  BY <1>2, <1>4, SaysBelongs DEF IInv
<1>8. TypeOK'
  BY <1>1, <1>2, <1>6, <1>7 DEF IInv, TypeOK, entryVars, keyVars, hwVars
<1>9. Thread'
  BY <1>1 DEF IInv, Thread, entryVars
<1>10. link # ap.link + 1
  BY <1>2, <1>5 DEF IInv, TypeOK, Latest
<1>11. Latest' /\ ApKeys'
  BY <1>1, <1>2, <1>4, <1>5, <1>6, <1>10 DEF IInv, Latest, Pending, ApKeys, entryVars
<1>12. FramesBelong' /\ KeysBelong' /\ SecuredHasKeys' /\ WcidTable'
  <2>1. \A l : Belongs(m, l)
    BY <1>4 DEF Belongs
  <2> QED BY <1>1, <1>4, <1>6, <1>7, <2>1 DEF IInv, FramesBelong, Belongs, KeysBelong,
               SecuredHasKeys, WcidTable, entryVars, keyVars, hwVars
<1> QED BY <1>6, <1>8, <1>9, <1>11, <1>12 DEF IInv

\* Counting on changes nothing but the counter.
LEMMA NextRKeeps ==
  ASSUME NEW a \in ApState
  PROVE  /\ NextR(a) \in ApState /\ NextR(a).r = a.r + 1 /\ (KeysOf(a) => KeysOf(NextR(a)))
         /\ NextR(a).st = a.st /\ NextR(a).bss = a.bss /\ NextR(a).link = a.link
         /\ NextR(a).ptk = a.ptk /\ NextR(a).key = a.key
         /\ NextR(a).hs = a.hs /\ NextR(a).group = a.group
BY DEF NextR, ApState, KeysOf

\* The other steps of the access point.
LEMMA ApKeeps ==
  ASSUME IInv, (\E m \in toAp : ApReceive(m)) \/ ApRepeat \/ ApRekey \/ ApGivesUp
  PROVE  IInv'
<1>1. ap \in ApState /\ KeysOf(ap)
  BY DEF IInv, TypeOK, ApKeys
<1>2. ASSUME NEW m \in toAp, ApReceive(m) PROVE IInv'
  <2> DEFINE took == [ap EXCEPT !.ptk = DerivePTK(NonceOf(ap), m.nonce), !.st = "wait4"]
             done == [ap EXCEPT !.key = ap.ptk, !.st = IF wpa2 THEN "done" ELSE "waitg"]
  <2>1. m \in ToAp
    BY DEF IInv, TypeOK
  <2>2. CASE ap.st = "wait2" /\ Goes(NextR(took)) /\ ApFrame /\ UNCHANGED queue
    <3>1. /\ DerivePTK(NonceOf(ap), m.nonce) \in Keys
          /\ OfLink(DerivePTK(NonceOf(ap), m.nonce), ap.link)
      <4>1. NonceOf(ap) \in Keys /\ OfLink(NonceOf(ap), ap.link)
        BY <1>1, Pairs DEF NonceOf, ApState
      <4>2. m.nonce \in Nat
        BY <2>1 DEF ToAp
      <4> QED BY <4>1, <4>2, Derived
    <3>2. /\ took \in ApState /\ KeysOf(took) /\ took.st = "wait4"
          /\ took.link = ap.link /\ took.bss = ap.bss
      BY <1>1, <3>1 DEF ApState, KeysOf, OfLink
    <3> HIDE DEF took
    <3> QED BY <2>2, <3>2, NextRKeeps, GoesKeeps
  <2>3. CASE /\ ap.st = "wait4" /\ ApFrame /\ UNCHANGED queue
             /\ IF wpa2 THEN ap' = done /\ toAp' = {} /\ UNCHANGED toSta ELSE Goes(NextR(done))
    <3>1. /\ done \in ApState /\ KeysOf(done)
          /\ done.link = ap.link /\ done.bss = ap.bss
      BY <1>1, <2>3 DEF ApState, KeysOf
    <3>2. CASE wpa2
      BY <2>3, <3>1, <3>2, SilentKeeps
    <3>3. CASE ~wpa2
      <4>1. done.st = "waitg" /\ Goes(NextR(done)) /\ ap.st = "wait4" /\ ApFrame /\ UNCHANGED queue
        BY <1>1, <2>3, <3>3 DEF ApState
      <4> HIDE DEF done
      <4> QED BY <3>1, <4>1, NextRKeeps, GoesKeeps
    <3> QED BY <3>2, <3>3
  <2>4. CASE /\ ap.st = "waitg" /\ ap' = [ap EXCEPT !.st = "done"] /\ toAp' = {}
             /\ UNCHANGED toSta /\ ApFrame /\ UNCHANGED queue
    <3> DEFINE a == [ap EXCEPT !.st = "done"]
    <3>1. a \in ApState /\ KeysOf(a) /\ a.link = ap.link /\ a.bss = ap.bss
      BY <1>1, <2>4 DEF ApState, KeysOf
    <3> QED BY <2>4, <3>1, SilentKeeps
  <2> QED BY <1>2, <2>2, <2>3, <2>4 DEF ApReceive
<1>3. CASE ApRepeat
  <2> DEFINE a == [ap EXCEPT !.tries = @ + 1]
  <2>1. /\ a \in ApState /\ KeysOf(a) /\ a.st = ap.st /\ a.link = ap.link /\ a.bss = ap.bss
    BY <1>1 DEF ApState, KeysOf
  <2>2. ap.st \in {"wait2", "wait4", "waitg"} /\ Goes(NextR(a)) /\ ApFrame /\ UNCHANGED queue
    BY <1>3 DEF ApRepeat, Waits
  <2> HIDE DEF a
  <2> QED BY <2>1, <2>2, NextRKeeps, GoesKeeps
<1>4. CASE ApRekey
  <2> DEFINE a == [ap EXCEPT !.rekeys = @ + 1, !.hs = @ + 1, !.st = "wait2"]
             g == [ap EXCEPT !.rekeys = @ + 1, !.group = @ + 1, !.st = "waitg"]
  <2>1. ap.st = "done" /\ (Goes(NextR(a)) \/ Goes(NextR(g))) /\ ApFrame /\ UNCHANGED queue
    BY <1>4 DEF ApRekey
  <2>2. /\ a \in ApState /\ a.st = "wait2" /\ a.link = ap.link /\ a.bss = ap.bss
        /\ a.ptk = ap.ptk
    <3>1. ap.hs + 1 \in Nat /\ ap.rekeys + 1 \in Nat
      BY <1>1 DEF ApState
    <3>2. a \in ApState
      BY <1>1, <3>1 DEF ApState
    <3>3. a.st = "wait2" /\ a.link = ap.link /\ a.bss = ap.bss /\ a.ptk = ap.ptk
      BY <1>1 DEF ApState
    <3> QED BY <3>2, <3>3
  <2>3. /\ g \in ApState /\ g.st = "waitg" /\ g.link = ap.link /\ g.bss = ap.bss
        /\ g.ptk = ap.ptk /\ g.key = ap.key
    <3>1. ap.group + 1 \in Nat /\ ap.rekeys + 1 \in Nat
      BY <1>1 DEF ApState
    <3>2. g \in ApState
      BY <1>1, <3>1 DEF ApState
    <3>3. /\ g.st = "waitg" /\ g.link = ap.link /\ g.bss = ap.bss
          /\ g.ptk = ap.ptk /\ g.key = ap.key
      BY <1>1 DEF ApState
    <3> QED BY <3>2, <3>3
  <2> HIDE DEF a, g
  <2>4. KeysOf(a) /\ KeysOf(g)
    BY <1>1, <2>1, <2>2, <2>3 DEF KeysOf
  <2>5. CASE Goes(NextR(a))
    BY <2>1, <2>2, <2>4, <2>5, NextRKeeps, GoesKeeps
  <2>6. CASE Goes(NextR(g))
    BY <2>1, <2>3, <2>4, <2>6, NextRKeeps, GoesKeeps
  <2> QED BY <2>1, <2>5, <2>6
<1>5. CASE ApGivesUp
  <2> DEFINE a == [ap EXCEPT !.st = "idle"]
             m == [type |-> "leave", link |-> ap.link]
  <2>1. /\ a \in ApState /\ KeysOf(a) /\ a.st = "idle" /\ a.link = ap.link /\ a.bss = ap.bss
    BY <1>1 DEF ApState, KeysOf
  <2>2. /\ ap.st # "idle" /\ ap' = a /\ ApFrame /\ UNCHANGED <<toSta, toAp>>
        /\ UNCHANGED queue \/ queue' = Append(queue, m)
    BY <1>5 DEF ApGivesUp, Waits
  <2>3. CASE UNCHANGED queue
    BY <2>1, <2>2, <2>3, SilentKeeps
  <2>4. CASE queue' = Append(queue, m)
    <3>1. m \in Message /\ m.type = "leave" /\ \A l : Belongs(m, l)
      BY <1>1 DEF Message, Leave, ApState, Belongs
    <3> HIDE DEF m, a
    <3>2. /\ queue' \in Seq(Message) /\ Range(queue') = Range(queue) \cup {m} /\ AssocLast'
          /\ queue' # <<>> /\ (queue # <<>> => queue'[1] = queue[1])
      BY <2>4, <3>1, QueueAppend DEF IInv
    <3>3. TypeOK'
      BY <2>1, <2>2, <3>2 DEF IInv, TypeOK, ApFrame, entryVars, keyVars, hwVars
    <3>4. Thread' /\ Latest' /\ ApKeys'
      BY <2>1, <2>2, <3>1, <3>2 DEF IInv, Thread, Latest, Pending, ApKeys, ApFrame, entryVars
    <3>5. FramesBelong' /\ KeysBelong' /\ SecuredHasKeys' /\ WcidTable'
      BY <2>1, <2>2, <3>1, <3>2 DEF IInv, FramesBelong, Belongs, KeysBelong, SecuredHasKeys,
           WcidTable, ApFrame, entryVars, keyVars, hwVars
    <3> QED BY <3>2, <3>3, <3>4, <3>5 DEF IInv
  <2> QED BY <2>2, <2>3, <2>4
<1> QED BY <1>2, <1>3, <1>4, <1>5

\* The station hears its own access point alone, so that what it queues belongs to
\* the link that is up, and comes behind no association.
LEMMA ReceiveKeeps ==
  ASSUME IInv, NEW m \in toSta, Receive(m)
  PROVE  IInv'
<1>1. /\ toSta' = toSta \ {m}
      /\ UNCHANGED <<wpa2, link, entryVars, keyVars, timerVars, at, hwVars, ap, toAp>>
      /\ UNCHANGED queue \/ (Hears /\ Deciphered(m) /\ queue' = Append(queue, m))
  BY DEF Receive, MlmeEnqueueForRecv
<1>2. m \in ToSta /\ m \in Message /\ m.type \in {"m1", "m3", "g1"}
  BY DEF IInv, TypeOK, ToSta, Message
<1>3. CASE UNCHANGED queue
  <2>1. TypeOK' /\ Thread' /\ AssocLast' /\ Latest' /\ ApKeys'
    BY <1>1, <1>3 DEF IInv, TypeOK, Thread, AssocLast, Latest, Pending, ApKeys,
                      entryVars, keyVars, hwVars
  <2>2. FramesBelong' /\ KeysBelong' /\ SecuredHasKeys' /\ WcidTable'
    BY <1>1, <1>3 DEF IInv, FramesBelong, Belongs, KeysBelong, SecuredHasKeys,
                      WcidTable, entryVars, keyVars, hwVars
  <2> QED BY <2>1, <2>2 DEF IInv
<1>4. CASE Hears /\ Deciphered(m) /\ queue' = Append(queue, m)
  <2>1. ~Pending /\ link = ap.link /\ link # 0
    BY <1>4 DEF IInv, Hears, Latest
  <2>2. /\ queue' \in Seq(Message) /\ Range(queue') = Range(queue) \cup {m} /\ AssocLast'
        /\ queue' # <<>> /\ (queue # <<>> => queue'[1] = queue[1])
    BY <1>2, <1>4, <2>1, QueueAppend DEF IInv
  <2>3. Belongs(m, link) /\ (m.type = "g1" => key # NoKey)
    BY <1>4, <2>1 DEF IInv, FramesBelong, Belongs, Deciphered
  <2>4. TypeOK'
    BY <1>1, <2>2 DEF IInv, TypeOK, entryVars, keyVars, hwVars
  <2>5. Thread' /\ Latest' /\ ApKeys'
    BY <1>1, <1>2, <2>1, <2>2 DEF IInv, Thread, Latest, Pending, ApKeys, entryVars
  <2>6. FramesBelong' /\ KeysBelong' /\ SecuredHasKeys' /\ WcidTable'
    BY <1>1, <2>2, <2>3 DEF IInv, FramesBelong, Belongs, KeysBelong, SecuredHasKeys,
                            WcidTable, entryVars, keyVars, hwVars
  <2> QED BY <2>2, <2>4, <2>5, <2>6 DEF IInv
<1> QED BY <1>1, <1>3, <1>4

----------------------------------------------------------------------------
(* The station. *)

\* What the supplicant's handlers have in common: they take an EAPOL frame from the
\* queue and leave the link as it is.
LEMMA EapolKeeps ==
  ASSUME IInv, at = "idle", queue # <<>>, queue' = Tail(queue),
         Head(queue).type \in {"m1", "m3", "g1"}, WpaFrame,
         toAp' \in SUBSET ToAp, R_Counter' \in Nat, ANonce' \in Keys, PTK' \in Keys,
         key' \in Keys, gtk' \in Keys, PortSecured' \in BOOLEAN,
         link # 0 /\ key # NoKey => key' # NoKey, KeysBelong', SecuredHasKeys'
  PROVE  IInv'
<1>1. /\ queue' \in Seq(Message) /\ Range(queue) = {Head(queue)} \cup Range(queue') /\ AssocLast'
  BY QueueTail DEF IInv
<1>2. Pending' <=> Pending
  BY <1>1 DEF Pending
<1>3. UNCHANGED <<wpa2, link, bssid, addr, at, wcid, swept, ap, toSta>>
  BY DEF WpaFrame, hwVars
<1>4. TypeOK'
  BY <1>1, <1>3 DEF IInv, TypeOK
<1>5. Thread' /\ Latest' /\ ApKeys'
  BY <1>1, <1>2, <1>3 DEF IInv, Thread, Latest, ApKeys
<1>6. FramesBelong'
  BY <1>1, <1>3 DEF IInv, FramesBelong, Belongs
<1>7. WcidTable'
  BY <1>3 DEF IInv, WcidTable
<1> QED BY <1>1, <1>4, <1>5, <1>6, <1>7 DEF IInv

\* The frame in the supplicant's hand, when it is one of the link that is up.
LEMMA HeadBelongs ==
  ASSUME IInv, at = "idle", queue # <<>>, Head(queue).type \in {"m1", "m3", "g1"}
  PROVE  /\ Head(queue) \in ToSta /\ Head(queue) \in Range(queue)
         /\ EntryOf(Head(queue)) =>
              /\ link # 0 /\ Belongs(Head(queue), link)
              /\ Head(queue).type = "g1" => key # NoKey
<1>1. Head(queue) \in Message /\ Head(queue) \in Range(queue)
  BY RangeTail DEF IInv, TypeOK
<1>2. Head(queue) \in ToSta
  BY <1>1, Kinds
<1>3. EntryOf(Head(queue)) => link # 0
  BY DEF IInv, Thread, EntryOf
<1> QED BY <1>1, <1>2, <1>3 DEF IInv, FramesBelong

\* The supplicant, one handler after the other.
LEMMA SupplicantKeeps ==
  ASSUME IInv, Ignore \/ PeerPairMsg1Action \/ PeerPairMsg3Action \/ PeerGroupMsg1Action
  PROVE  IInv'
<1> DEFINE m == Head(queue)
<1>1. /\ at = "idle" /\ queue # <<>> /\ queue' = Tail(queue) /\ m.type \in {"m1", "m3", "g1"}
      /\ WpaFrame
  BY DEF Ignore, PeerPairMsg1Action, PeerPairMsg3Action, PeerGroupMsg1Action, Takes
<1>2. /\ m \in ToSta /\ m.r \in Nat /\ m.nonce \in Keys /\ m.mic \in Keys /\ m.gtk \in Keys
      /\ EntryOf(m) => link # 0 /\ Belongs(m, link) /\ (m.type = "g1" => key # NoKey)
  BY <1>1, HeadBelongs DEF ToSta
<1>3. /\ link' = link /\ wpa2' = wpa2 /\ wpa2 \in BOOLEAN
      /\ R_Counter \in Nat /\ ANonce \in Keys /\ PTK \in Keys /\ key \in Keys /\ gtk \in Keys
      /\ PortSecured \in BOOLEAN /\ toAp \in SUBSET ToAp
  BY <1>1 DEF WpaFrame, IInv, TypeOK
<1>4. ASSUME NEW type \in {"m2", "m4", "g2"}, NEW r \in Nat, NEW n \in Nat,
             NEW mic \in Keys, NEW enc \in Keys, ConstructEapolMsg(type, r, n, mic, enc)
      PROVE  toAp' \in SUBSET ToAp
  BY <1>3, <1>4, NoKeyIsKey DEF ConstructEapolMsg, Frame, ToAp
<1> HIDE DEF m
<1>5. CASE Ignore
  <2>1. UNCHANGED <<R_Counter, ANonce, PTK, key, gtk, PortSecured, toAp>>
    BY <1>5 DEF Ignore, keyVars
  <2>2. KeysBelong' /\ SecuredHasKeys'
    BY <1>3, <2>1 DEF IInv, KeysBelong, SecuredHasKeys
  <2> QED BY <1>1, <1>3, <2>1, <2>2, EapolKeeps DEF m
<1>6. CASE PeerPairMsg1Action
  <2>1. /\ EntryOf(m) /\ R_Counter' = m.r /\ ANonce' = m.nonce /\ PTK' = DerivePTK(m.nonce, m.r)
        /\ m.type = "m1" /\ ConstructEapolMsg("m2", m.r, m.r, PTK', NoKey)
        /\ UNCHANGED <<key, gtk, PortSecured>>
    BY <1>6 DEF PeerPairMsg1Action, PeerWpaMessageSanity, Takes, keyVars, m
  <2>2. PTK' \in Keys /\ OfLink(PTK', link)
    BY <1>2, <2>1, Derived DEF Belongs
  <2>3. toAp' \in SUBSET ToAp
    BY <1>2, <1>4, <2>1, <2>2, NoKeyIsKey
  <2>4. KeysBelong' /\ SecuredHasKeys'
    BY <1>3, <2>1, <2>2 DEF IInv, KeysBelong, SecuredHasKeys
  <2> QED BY <1>1, <1>2, <1>3, <2>1, <2>2, <2>3, <2>4, EapolKeeps DEF m
<1>7. CASE PeerPairMsg3Action
  <2>1. /\ EntryOf(m) /\ GoodMic(m) /\ R_Counter' = m.r /\ m.type = "m3"
        /\ gtk' = IF wpa2 THEN m.gtk ELSE gtk
        /\ UNCHANGED <<ANonce, PTK>>
    BY <1>7 DEF PeerPairMsg3Action, PeerWpaMessageSanity, RTMPParseEapolKeyData, Takes, m
  <2>2. PTK # NoKey /\ OfLink(PTK, link) /\ link # 0
    BY <1>2, <2>1 DEF GoodMic, Belongs, IInv, KeysBelong
  <2>3. gtk' \in Keys /\ (gtk' = NoKey \/ OfLink(gtk', link)) /\ (wpa2 => OfLink(gtk', link))
        /\ (gtk # NoKey => gtk' # NoKey)
    BY <1>2, <1>3, <2>1, <2>2 DEF Belongs, IInv, KeysBelong, OfLink
  <2>4. CASE m.nonce # ANonce
    <3>1. UNCHANGED <<key, PortSecured, toAp>>
      BY <1>7, <2>4 DEF PeerPairMsg3Action, m
    <3>2. KeysBelong' /\ SecuredHasKeys'
      BY <1>3, <2>1, <2>2, <2>3, <3>1 DEF IInv, KeysBelong, SecuredHasKeys, OfLink
    <3> QED BY <1>1, <1>2, <1>3, <2>1, <2>3, <3>1, <3>2, EapolKeeps DEF m
  <2>5. CASE m.nonce = ANonce
    <3>1. /\ key' = PTK /\ ConstructEapolMsg("m4", m.r, 0, PTK, NoKey)
          /\ PortSecured' = PortSecured \/ (wpa2 /\ PortSecured' = TRUE)
      BY <1>7, <2>5 DEF PeerPairMsg3Action, AsicAddSharedKeyEntry, STA_PORT_SECURED, m
    <3>2. toAp' \in SUBSET ToAp
      BY <1>2, <1>3, <1>4, <3>1, NoKeyIsKey
    <3>3. KeysBelong' /\ SecuredHasKeys'
      BY <1>3, <2>1, <2>2, <2>3, <3>1 DEF IInv, KeysBelong, SecuredHasKeys, OfLink
    <3>4. PortSecured' \in BOOLEAN
      BY <1>3, <3>1
    <3> QED BY <1>1, <1>2, <1>3, <2>1, <2>2, <2>3, <3>1, <3>2, <3>3, <3>4, EapolKeeps DEF m
  <2> QED BY <2>4, <2>5
<1>8. CASE PeerGroupMsg1Action
  <2>1. /\ EntryOf(m) /\ R_Counter' = m.r /\ m.type = "g1" /\ gtk' = m.gtk /\ PortSecured' = TRUE
        /\ ConstructEapolMsg("g2", m.r, 0, PTK, key)
        /\ UNCHANGED <<ANonce, PTK, key>>
    BY <1>8 DEF PeerGroupMsg1Action, PeerWpaMessageSanity, RTMPParseEapolKeyData, Takes,
                STA_PORT_SECURED, m
  <2>2. toAp' \in SUBSET ToAp
    BY <1>2, <1>3, <1>4, <2>1
  <2>3. link # 0 /\ key # NoKey /\ OfLink(gtk', link)
    BY <1>2, <2>1 DEF Belongs
  <2>4. KeysBelong' /\ SecuredHasKeys'
    BY <1>3, <2>1, <2>3 DEF IInv, KeysBelong, SecuredHasKeys, OfLink
  <2> QED BY <1>1, <1>2, <1>3, <2>1, <2>2, <2>3, <2>4, EapolKeeps DEF m
<1> QED BY <1>5, <1>6, <1>7, <1>8

\* An association that waits in the queue names an access point.
LEMMA PendingIsUp ==
  ASSUME IInv, Pending
  PROVE  ap.bss \in AP /\ ap.link # 0
<1>1. PICK n \in Range(queue) : n.type = "assoc"
  BY DEF Pending
<1>2. n \in Message
  BY RangeEmpty DEF IInv, TypeOK
<1>3. n \in Assoc
  BY <1>1, <1>2, Kinds
<1> QED BY <1>1, <1>3 DEF Assoc, IInv, Latest

\* LinkUp and LinkDown.  When the association reaches the head of the queue, no frame
\* of the old link is left behind it, and no new one came in.
LEMMA LinkKeeps ==
  ASSUME IInv, LinkUp \/ LinkUpConnected \/ LinkUpEntry \/ LinkDown \/ LinkDownEnds
  PROVE  IInv'
<1>1. UNCHANGED <<wpa2, ap, toSta, toAp>>
  BY DEF LinkUp, LinkUpConnected, LinkUpEntry, LinkDown, LinkDownEnds, LinkFrame, airVars
<1>2. queue # <<>> => Head(queue) = queue[1] /\ Head(queue) \in Message /\ Head(queue) \in Range(queue)
  BY QueueTail, RangeTail DEF IInv, TypeOK
<1>3. CASE LinkUp
  <2>1. /\ queue # <<>> /\ Head(queue).type = "assoc" /\ at' = "roam"
        /\ UNCHANGED <<link, queue, entryVars, keyVars, wcid, swept>>
    BY <1>3 DEF LinkUp
  <2>2. TypeOK' /\ Thread' /\ AssocLast' /\ Latest' /\ ApKeys'
    BY <1>1, <1>2, <2>1 DEF IInv, TypeOK, Thread, AssocLast, Latest, Pending, ApKeys,
                            entryVars, keyVars
  <2>3. FramesBelong' /\ KeysBelong' /\ SecuredHasKeys' /\ WcidTable'
    BY <1>1, <2>1 DEF IInv, FramesBelong, Belongs, KeysBelong, SecuredHasKeys, WcidTable,
                      entryVars, keyVars
  <2> QED BY <2>2, <2>3 DEF IInv
<1>4. CASE LinkUpConnected
  <2> DEFINE m == Head(queue)
  <2>1. /\ at = "roam" /\ at' = "half" /\ addr' = NoAP /\ R_Counter' = 0
        /\ ANonce' = NoKey /\ PTK' = NoKey /\ key' = NoKey /\ gtk' = NoKey /\ PortSecured' = FALSE
        /\ bssid' = m.bss /\ link' = m.link /\ wcid' = m.bss /\ queue' = Tail(queue)
    BY <1>4 DEF LinkUpConnected, ClearEntry, RTMPWPARemoveAllKeys, Unsecure, AsicUpdateRxWCIDTable
  <2>2. queue # <<>> /\ m.type = "assoc" /\ m \in Range(queue)
    BY <1>2, <2>1 DEF IInv, Thread
  <2>3. m \in Assoc /\ m.bss \in AP /\ m.link \in Nat \ {0} /\ m.link = ap.link /\ m.bss = ap.bss
    <3>1. m \in Assoc
      BY <1>2, <2>2, Kinds
    <3> QED BY <2>2, <3>1 DEF Assoc, IInv, Latest
  <2>4. /\ queue' \in Seq(Message) /\ AssocLast' /\ \A n \in Range(queue') : n.type = "leave"
    BY <2>1, <2>2, QueueTail DEF IInv
  <2> HIDE DEF m
  <2>5. TypeOK'
    BY <1>1, <2>1, <2>3, <2>4, NoKeyIsKey DEF IInv, TypeOK
  <2>6. Thread' /\ Latest' /\ ApKeys'
    BY <1>1, <2>1, <2>3, <2>4 DEF IInv, Thread, Latest, Pending, ApKeys
  <2>7. FramesBelong' /\ KeysBelong' /\ SecuredHasKeys' /\ WcidTable'
    BY <1>1, <2>1, <2>3, <2>4 DEF IInv, FramesBelong, Belongs, KeysBelong, SecuredHasKeys, WcidTable
  <2> QED BY <2>4, <2>5, <2>6, <2>7 DEF IInv
<1>5. CASE LinkUpEntry
  <2>1. /\ at = "half" /\ at' = "idle" /\ addr' = bssid
        /\ UNCHANGED <<link, queue, bssid, R_Counter, ANonce, PTK, keyVars, wcid, swept>>
    BY <1>5 DEF LinkUpEntry, hwVars
  <2>2. link = 0 => bssid = NoAP
    <3>1. at = "half" => link # 0
      BY DEF IInv, Thread
    <3> QED BY <2>1, <3>1
  <2>3. TypeOK' /\ Thread' /\ AssocLast' /\ Latest' /\ ApKeys'
    BY <1>1, <2>1, <2>2 DEF IInv, TypeOK, Thread, AssocLast, Latest, Pending, ApKeys, keyVars
  <2>4. FramesBelong' /\ KeysBelong' /\ SecuredHasKeys' /\ WcidTable'
    BY <1>1, <2>1 DEF IInv, FramesBelong, Belongs, KeysBelong, SecuredHasKeys, WcidTable, keyVars
  <2> QED BY <2>3, <2>4 DEF IInv
<1>6. CASE LinkDown
  <2>1. /\ at = "idle" /\ queue # <<>> /\ Head(queue).type = "leave"
        /\ UNCHANGED <<entryVars, keyVars, wcid, swept>>
    BY <1>6 DEF LinkDown
  <2>2. CASE link' = 0 /\ at' = "deleting" /\ UNCHANGED queue
    <3>1. TypeOK' /\ Thread' /\ AssocLast' /\ ApKeys'
      BY <1>1, <1>2, <2>1, <2>2 DEF IInv, TypeOK, Thread, AssocLast, ApKeys, entryVars, keyVars
    <3>2. Latest'
      BY <1>1, <2>1, <2>2, PendingIsUp DEF IInv, Latest, Pending, entryVars, TypeOK
    <3>3. FramesBelong' /\ KeysBelong' /\ SecuredHasKeys' /\ WcidTable'
      BY <1>1, <2>2 DEF IInv, FramesBelong, Belongs, KeysBelong, SecuredHasKeys, WcidTable
    <3> QED BY <3>1, <3>2, <3>3 DEF IInv
  <2>3. CASE queue' = Tail(queue) /\ UNCHANGED <<link, cmds, at>>
    <3>1. /\ queue' \in Seq(Message) /\ Range(queue) = {Head(queue)} \cup Range(queue') /\ AssocLast'
      BY <2>1, <2>3, QueueTail DEF IInv
    <3>2. Pending' <=> Pending
      BY <2>1, <3>1 DEF Pending
    <3>3. TypeOK' /\ Thread' /\ Latest' /\ ApKeys'
      BY <1>1, <2>1, <2>3, <3>1, <3>2 DEF IInv, TypeOK, Thread, Latest, ApKeys, entryVars, keyVars
    <3>4. FramesBelong' /\ KeysBelong' /\ SecuredHasKeys' /\ WcidTable'
      BY <1>1, <2>1, <2>3, <3>1 DEF IInv, FramesBelong, Belongs, KeysBelong, SecuredHasKeys,
           WcidTable, entryVars, keyVars
    <3> QED BY <3>1, <3>3, <3>4 DEF IInv
  <2> QED BY <1>6, <2>2, <2>3 DEF LinkDown
<1>7. CASE LinkDownEnds
  <2>1. /\ at = "deleting" /\ at' = "idle" /\ addr' = NoAP /\ R_Counter' = 0 /\ ANonce' = NoKey
        /\ PTK' = NoKey /\ bssid' = NoAP /\ queue' = Tail(queue) /\ PortSecured' = FALSE
        /\ UNCHANGED <<key, gtk>> \/ (key' = NoKey /\ gtk' = NoKey)
        /\ UNCHANGED <<link, wcid, swept>>
    BY <1>7 DEF LinkDownEnds, ClearEntry, RTMPWPARemoveAllKeys, hwVars
  <2>2. link = 0 /\ queue # <<>> /\ Head(queue).type = "leave"
    BY <1>2, <2>1 DEF IInv, Thread
  <2>3. /\ queue' \in Seq(Message) /\ Range(queue) = {Head(queue)} \cup Range(queue') /\ AssocLast'
    BY <2>1, <2>2, QueueTail DEF IInv
  <2>4. Pending' <=> Pending
    BY <2>2, <2>3 DEF Pending
  <2>5. Pending => ap.bss \in AP
    BY PendingIsUp
  <2>6. TypeOK'
    BY <1>1, <2>1, <2>3, NoKeyIsKey DEF IInv, TypeOK
  <2>7. Thread' /\ Latest' /\ ApKeys'
    BY <1>1, <2>1, <2>2, <2>3, <2>4, <2>5, StaWpaAssumption DEF IInv, Thread, Latest, ApKeys
  <2>8. FramesBelong' /\ KeysBelong' /\ SecuredHasKeys' /\ WcidTable'
    BY <1>1, <2>1, <2>2 DEF IInv, FramesBelong, Belongs, KeysBelong, SecuredHasKeys, WcidTable
  <2> QED BY <2>3, <2>6, <2>7, <2>8 DEF IInv
<1> QED BY <1>3, <1>4, <1>5, <1>6, <1>7

\* The timer's message and the command thread.
LEMMA BesideKeeps ==
  ASSUME IInv, LinkDownExec \/ LinkDownPost \/ SetAsicWcid
  PROVE  IInv'
<1>1. UNCHANGED <<wpa2, link, entryVars, keyVars, at, ap, toSta, toAp>>
  BY DEF LinkDownExec, LinkDownPost, SetAsicWcid, LinkFrame, airVars
<1>2. CASE UNCHANGED queue
  <2>1. (wcid' = wcid /\ swept' = swept) \/ SetAsicWcid
    BY <1>2 DEF LinkDownExec, LinkDownPost, hwVars
  <2>2. wcid' \in {wcid, addr}
    BY <2>1 DEF SetAsicWcid
  <2>3. TypeOK' /\ Thread' /\ AssocLast' /\ Latest' /\ ApKeys'
    BY <1>1, <1>2, <2>2 DEF IInv, TypeOK, Thread, AssocLast, Latest, Pending, ApKeys,
                            entryVars, keyVars
  <2>4. FramesBelong' /\ KeysBelong' /\ SecuredHasKeys'
    BY <1>1, <1>2 DEF IInv, FramesBelong, Belongs, KeysBelong, SecuredHasKeys, entryVars, keyVars
  <2>5. WcidTable'
    <3>1. CASE SetAsicWcid
      <4>1. wcid' = addr /\ swept' = (swept \/ at = "half")
        BY <3>1 DEF SetAsicWcid
      <4> QED BY <1>1, <4>1 DEF IInv, TypeOK, Thread, WcidTable, entryVars
    <3>2. CASE wcid' = wcid /\ swept' = swept
      BY <1>1, <3>2 DEF IInv, WcidTable, entryVars
    <3> QED BY <2>1, <3>1, <3>2
  <2> QED BY <2>3, <2>4, <2>5 DEF IInv
<1>3. CASE queue' # queue
  <2> DEFINE m == [type |-> "leave", link |-> 0]
  <2>1. queue' = Append(queue, m) /\ UNCHANGED <<wcid, swept>>
    BY <1>3 DEF LinkDownExec, LinkDownPost, SetAsicWcid, hwVars
  <2>2. m \in Message /\ m.type = "leave" /\ \A l : Belongs(m, l)
    BY DEF Message, Leave, Belongs
  <2> HIDE DEF m
  <2>3. /\ queue' \in Seq(Message) /\ Range(queue') = Range(queue) \cup {m} /\ AssocLast'
        /\ queue' # <<>> /\ (queue # <<>> => queue'[1] = queue[1])
    BY <2>1, <2>2, QueueAppend DEF IInv
  <2>4. TypeOK' /\ Thread' /\ Latest' /\ ApKeys'
    BY <1>1, <2>1, <2>2, <2>3 DEF IInv, TypeOK, Thread, Latest, Pending, ApKeys, entryVars, keyVars
  <2>5. FramesBelong' /\ KeysBelong' /\ SecuredHasKeys' /\ WcidTable'
    BY <1>1, <2>1, <2>2, <2>3 DEF IInv, FramesBelong, Belongs, KeysBelong, SecuredHasKeys,
         WcidTable, entryVars, keyVars
  <2> QED BY <2>3, <2>4, <2>5 DEF IInv
<1> QED BY <1>2, <1>3

\* Every step keeps the invariant.
LEMMA StepKeeps == IInv /\ [Next]_vars => IInv'
<1> SUFFICES ASSUME IInv, [Next]_vars PROVE IInv'
  OBVIOUS
<1>1. CASE MlmeThread
  BY <1>1, SupplicantKeeps, LinkKeeps DEF MlmeThread
<1>2. CASE LinkDownExec \/ LinkDownPost \/ SetAsicWcid
  BY <1>2, BesideKeeps
<1>3. CASE \E b \in AP : Associate(b)
  BY <1>3, AssociateKeeps
<1>4. CASE (\E m \in toAp : ApReceive(m)) \/ ApRepeat \/ ApRekey \/ ApGivesUp
  BY <1>4, ApKeeps
<1>5. CASE \E m \in toSta : Receive(m)
  BY <1>5, ReceiveKeeps
<1>6. CASE UNCHANGED vars
  <2>1. UNCHANGED <<wpa2, link, entryVars, keyVars, queue, at, wcid, swept, ap, toSta, toAp>>
    BY <1>6 DEF vars, hwVars, airVars
  <2>2. TypeOK' /\ Thread' /\ AssocLast' /\ Latest' /\ ApKeys'
    BY <2>1 DEF IInv, TypeOK, Thread, AssocLast, Latest, Pending, ApKeys, entryVars, keyVars
  <2>3. FramesBelong' /\ KeysBelong' /\ SecuredHasKeys' /\ WcidTable'
    BY <2>1 DEF IInv, FramesBelong, Belongs, KeysBelong, SecuredHasKeys, WcidTable,
                entryVars, keyVars
  <2> QED BY <2>2, <2>3 DEF IInv
<1> QED BY <1>1, <1>2, <1>3, <1>4, <1>5, <1>6 DEF Next

\* Whatever the medium loses, repeats or delays, and however often the station roams,
\* a port is secured only with keys of the association that is up (LinkUp, LinkDown,
\* PeerPairMsg3Action, PeerGroupMsg1Action).
THEOREM SecuredWithItsKeys == Spec => []SecuredHasKeys
<1>1. Init => IInv
  BY InitOK
<1>2. IInv /\ [Next]_vars => IInv'
  BY StepKeeps
<1>3. IInv => SecuredHasKeys
  BY DEF IInv
<1> QED BY <1>1, <1>2, <1>3, PTL DEF Spec

\* Commands to erase an older entry do not erase the access point of a link that is
\* up, unless one runs between the halves of LinkUp (SetAsicWcid, MacTableDeleteEntry).
THEOREM WcidTableKnowsAp == Spec => []WcidTable
<1>1. Init => IInv
  BY InitOK
<1>2. IInv /\ [Next]_vars => IInv'
  BY StepKeeps
<1>3. IInv => WcidTable
  BY DEF IInv
<1> QED BY <1>1, <1>2, <1>3, PTL DEF Spec
----------------------------------------------------------------------------
(* The agreement on the keys, with an access point that counts from one.       *)
(* No counter is 0 then, and FreshReplay admits each frame once.               *)

LEMMA KInitOK == Init => KInv
<1> SUFFICES ASSUME Init PROVE KInv
  OBVIOUS
<1>1. queue = <<>> /\ link = 0 /\ toSta = {} /\ toAp = {} /\ ap.st = "idle"
  BY DEF Init
<1>2. Range(queue) = {}
  BY <1>1, EmptySeq, RangeEmpty
<1> QED BY <1>1, <1>2 DEF KInv, Counters, Answers, Pending, Done, KeysAgree

\* The steps that take or bring messages and leave both sides' keys and counters alone.
LEMMA QuietKeeps ==
  ASSUME IInv, KInv, UNCHANGED <<wpa2, link, R_Counter, PTK, keyVars, ap, toAp>>,
         toSta' \subseteq toSta, Pending' => Pending,
         \A m \in Range(queue') : m \in Range(queue) \/ m \in toSta \/ m.type = "leave"
  PROVE  KInv'
<1>1. UNCHANGED <<wpa2, link, R_Counter, PTK, key, gtk, PortSecured, ap, toAp>>
  BY DEF keyVars
<1>2. ASSUME NEW m \in toSta PROVE Replay(m) /\ Replay(m)'
  BY <1>1 DEF KInv, Counters, Replay, GroupKeyOf
<1>3. ASSUME NEW m \in Range(queue'), m.type \in {"m1", "m3", "g1"}
      PROVE  m.r # 0 /\ (link # 0 /\ link = ap.link => Replay(m)')
  <2>1. CASE m \in toSta
    BY <1>2, <2>1 DEF Replay
  <2>2. CASE m \in Range(queue)
    BY <1>1, <1>3, <2>2 DEF KInv, Counters, Replay, GroupKeyOf
  <2> QED BY <1>3, <2>1, <2>2
<1>4. Counters'
  BY <1>1, <1>2, <1>3 DEF KInv, Counters
<1>5. Answers' /\ Done' /\ KeysAgree'
  BY <1>1 DEF KInv, Answers, Done, KeysAgree, GroupKeyOf
<1> QED BY <1>4, <1>5 DEF KInv

\* The access point says something new: nothing that is on its way has its counter yet.
LEMMA GoesAgrees ==
  ASSUME IInv, KInv, NEW a \in ApState, a.r = ap.r + 1, a.link = ap.link,
         a.st \in {"wait2", "wait4", "waitg"}, Pending => a.st = "wait2",
         a.st = "waitg" => a.ptk = a.key, Goes(a), ApFrame, UNCHANGED queue
  PROVE  KInv'
<1> PICK s : s = Says(a)
  OBVIOUS
<1>1. /\ ap' = a /\ toSta' = toSta \cup {s} /\ toAp' = {}
      /\ UNCHANGED <<wpa2, link, R_Counter, PTK, key, gtk, PortSecured, queue>>
  BY DEF Goes, ApFrame, entryVars, keyVars
<1>2. ap.r \in Nat /\ a.r \in Nat /\ R_Counter \in Nat
  BY DEF IInv, TypeOK, ApState
<1>3. Replay(s)'
  <2>1. s.r = a.r /\ (s.type = "g1" \/ (s.type = "m3" /\ wpa2) => s.gtk = GroupKeyOf(a))
    BY DEF Says, Frame
  <2> QED BY <1>1, <1>2, <2>1 DEF Replay, GroupKeyOf
<1>4. ASSUME NEW m, m.r \in Nat, Replay(m) PROVE Replay(m)'
  BY <1>1, <1>2, <1>4 DEF Replay
<1>5. \A m \in toSta : Replay(m)'
  <2>1. \A m \in toSta : m.r \in Nat /\ Replay(m)
    BY DEF IInv, TypeOK, ToSta, KInv, Counters
  <2> QED BY <1>4, <2>1
<1>6. ASSUME link # 0, link = ap.link, NEW m \in Range(queue), m.type \in {"m1", "m3", "g1"}
      PROVE  Replay(m)'
  <2>1. m \in Message /\ m \in ToSta
    BY <1>6, Kinds, RangeEmpty DEF IInv, TypeOK
  <2>2. m.r \in Nat /\ Replay(m)
    BY <1>6, <2>1 DEF ToSta, KInv, Counters
  <2> QED BY <1>4, <2>2
<1>7. Counters'
  BY <1>1, <1>2, <1>3, <1>5, <1>6 DEF KInv, Counters
<1>8. Answers' /\ Done' /\ KeysAgree'
  BY <1>1 DEF Answers, Pending, Done, KeysAgree
<1> QED BY <1>7, <1>8 DEF KInv

\* It takes the handshake to be done, with keys that the station has.
LEMMA DoneAgrees ==
  ASSUME IInv, KInv, NEW a \in ApState, ap' = a, a.st = "done", a.r = ap.r, a.link = ap.link,
         a.group = ap.group, a.ptk = a.key, ap.st \in {"wait4", "waitg"}, toAp' = {},
         ApFrame, UNCHANGED <<queue, toSta>>,
         link = ap.link => R_Counter = ap.r /\ PTK = a.key /\ key = a.key
                           /\ gtk = GroupKeyOf(ap) /\ PortSecured
  PROVE  KInv'
<1>1. UNCHANGED <<wpa2, link, R_Counter, PTK, key, gtk, PortSecured, queue>>
  BY DEF ApFrame, entryVars, keyVars
<1>2. GroupKeyOf(a) = GroupKeyOf(ap)
  BY DEF GroupKeyOf
<1>3. Counters'
  BY <1>1, <1>2 DEF KInv, Counters, Replay
<1>4. Answers' /\ Done' /\ KeysAgree'
  BY <1>1, <1>2 DEF KInv, Answers, Pending, Done, KeysAgree
<1> QED BY <1>3, <1>4 DEF KInv

\* The access point takes only an answer to its latest message; by Answers the station
\* has installed then what that message gave it.
LEMMA ApReceiveAgrees ==
  ASSUME IInv, KInv, NEW m \in toAp, ApReceive(m)
  PROVE  KInv'
<1> DEFINE took == [ap EXCEPT !.ptk = DerivePTK(NonceOf(ap), m.nonce), !.st = "wait4"]
           done == [ap EXCEPT !.key = ap.ptk, !.st = IF wpa2 THEN "done" ELSE "waitg"]
<1>1. /\ m \in ToAp /\ m.r = ap.r /\ ap \in ApState /\ KeysOf(ap) /\ ApFrame /\ UNCHANGED queue
      /\ ap.r \in Nat /\ R_Counter \in Nat
  BY DEF IInv, TypeOK, ApReceive, ApKeys, ApState
<1>2. ASSUME m.mic = ap.ptk, ap.st \in {"wait4", "waitg"}
      PROVE  /\ ~Pending /\ ap.link # 0 /\ OfLink(m.mic, ap.link)
             /\ link = ap.link => R_Counter = ap.r
  <2>1. ap.link # 0 /\ OfLink(m.mic, ap.link)
    BY <1>1, <1>2 DEF KeysOf, IInv, Latest
  <2>2. link = ap.link => m.r <= R_Counter /\ R_Counter <= ap.r
    BY <2>1 DEF KInv, Answers, Counters
  <2>3. ~Pending
    BY <1>2 DEF KInv, Answers
  <2> QED BY <1>1, <2>1, <2>2, <2>3
<1>3. CASE m.type = "m2" /\ ap.st = "wait2" /\ m.mic = took.ptk /\ Goes(NextR(took))
  <2>1. /\ m.mic = DerivePTK(NonceOf(ap), m.nonce) /\ OfLink(m.mic, ap.link) /\ m.mic \in Keys
    <3>1. NonceOf(ap) \in Keys /\ OfLink(NonceOf(ap), ap.link) /\ m.nonce \in Nat
      BY <1>1, Pairs DEF NonceOf, ApState, ToAp
    <3> QED BY <1>1, <1>3, <3>1, Derived DEF ApState
  <2>2. took \in ApState /\ took.st = "wait4" /\ took.link = ap.link /\ took.r = ap.r
    BY <1>1, <2>1 DEF ApState
  <2>3. ~Pending
    BY <2>1 DEF KInv, Answers
  <2> HIDE DEF took
  <2> QED BY <1>1, <1>3, <2>2, <2>3, NextRKeeps, GoesAgrees
<1>4. CASE /\ m.type = "m4" /\ ap.st = "wait4" /\ m.mic = ap.ptk
           /\ IF wpa2 THEN ap' = done /\ toAp' = {} /\ UNCHANGED toSta ELSE Goes(NextR(done))
  <2>1. /\ done \in ApState /\ done.link = ap.link /\ done.r = ap.r /\ done.group = ap.group
        /\ done.ptk = done.key /\ done.key = ap.ptk
        /\ done.st = IF wpa2 THEN "done" ELSE "waitg"
    BY <1>1 DEF ApState
  <2>2. CASE wpa2
    <3>1. link = ap.link => /\ key = ap.ptk /\ PTK = ap.ptk /\ PortSecured
                            /\ gtk = GroupKeyOf(ap) /\ R_Counter = ap.r
      BY <1>1, <1>2, <1>4, <2>2 DEF KInv, Answers
    <3> HIDE DEF done
    <3> QED BY <1>1, <1>4, <2>1, <2>2, <3>1, DoneAgrees
  <2>3. CASE ~wpa2
    <3>1. ~Pending /\ Goes(NextR(done)) /\ done.st = "waitg"
      BY <1>2, <1>4, <2>1, <2>3
    <3> HIDE DEF done
    <3> QED BY <1>1, <2>1, <3>1, NextRKeeps, GoesAgrees
  <2> QED BY <2>2, <2>3
<1>5. CASE /\ m.type = "g2" /\ ap.st = "waitg" /\ m.mic = ap.ptk /\ m.enc = ap.key
           /\ ap' = [ap EXCEPT !.st = "done"] /\ toAp' = {} /\ UNCHANGED toSta
  <2> DEFINE a == [ap EXCEPT !.st = "done"]
  <2>1. /\ a \in ApState /\ a.st = "done" /\ a.link = ap.link /\ a.r = ap.r
        /\ a.group = ap.group /\ a.ptk = ap.ptk /\ a.key = ap.key
    BY <1>1 DEF ApState
  <2>2. ap.ptk = ap.key
    BY <1>5 DEF KInv, Done
  <2>3. link = ap.link => /\ key = ap.key /\ PTK = ap.key /\ PortSecured
                          /\ gtk = GroupKeyOf(ap) /\ R_Counter = ap.r
    BY <1>1, <1>2, <1>5, <2>2 DEF KInv, Answers
  <2>4. ap' = a
    BY <1>5
  <2> HIDE DEF a
  <2> QED BY <1>1, <1>5, <2>1, <2>2, <2>3, <2>4, DoneAgrees
<1> QED BY <1>3, <1>4, <1>5 DEF ApReceive

\* It repeats itself, starts another handshake or gives up.
LEMMA ApAgrees ==
  ASSUME IInv, KInv, ApRepeat \/ ApRekey \/ ApGivesUp
  PROVE  KInv'
<1>1. ap \in ApState /\ KeysOf(ap)
  BY DEF IInv, TypeOK, ApKeys
<1>2. CASE ApRepeat
  <2> DEFINE a == [ap EXCEPT !.tries = @ + 1]
  <2>1. /\ a \in ApState /\ a.st = ap.st /\ a.link = ap.link /\ a.r = ap.r
        /\ a.ptk = ap.ptk /\ a.key = ap.key
    BY <1>1 DEF ApState
  <2>2. ap.st \in {"wait2", "wait4", "waitg"} /\ Goes(NextR(a)) /\ ApFrame /\ UNCHANGED queue
    BY <1>2 DEF ApRepeat, Waits
  <2>3. (Pending => ap.st = "wait2") /\ (ap.st = "waitg" => ap.ptk = ap.key)
    BY <2>2 DEF KInv, Answers, Done
  <2> HIDE DEF a
  <2> QED BY <2>1, <2>2, <2>3, NextRKeeps, GoesAgrees
<1>3. CASE ApRekey
  <2> DEFINE a == [ap EXCEPT !.rekeys = @ + 1, !.hs = @ + 1, !.st = "wait2"]
             g == [ap EXCEPT !.rekeys = @ + 1, !.group = @ + 1, !.st = "waitg"]
  <2>1. ap.st = "done" /\ (Goes(NextR(a)) \/ Goes(NextR(g))) /\ ApFrame /\ UNCHANGED queue
    BY <1>3 DEF ApRekey
  <2>2. ap.hs + 1 \in Nat /\ ap.group + 1 \in Nat /\ ap.rekeys + 1 \in Nat
    BY <1>1 DEF ApState
  <2>3. a \in ApState /\ g \in ApState
    BY <1>1, <2>2 DEF ApState
  <2>4. /\ a.st = "wait2" /\ a.link = ap.link /\ a.r = ap.r
        /\ g.st = "waitg" /\ g.link = ap.link /\ g.r = ap.r /\ g.ptk = ap.ptk /\ g.key = ap.key
    BY <1>1 DEF ApState
  <2>5. ~Pending /\ ap.ptk = ap.key
    BY <2>1 DEF KInv, Answers, Done
  <2> HIDE DEF a, g
  <2> QED BY <2>1, <2>3, <2>4, <2>5, NextRKeeps, GoesAgrees
<1>4. CASE ApGivesUp
  <2> DEFINE m == [type |-> "leave", link |-> ap.link]
             a == [ap EXCEPT !.st = "idle"]
  <2>1. /\ a.st = "idle" /\ a.link = ap.link /\ a.r = ap.r /\ a.group = ap.group
        /\ a.ptk = ap.ptk /\ a.key = ap.key /\ m.type = "leave"
    BY <1>1 DEF ApState
  <2>2. /\ ap' = a /\ UNCHANGED <<toSta, toAp>>
        /\ UNCHANGED <<wpa2, link, R_Counter, PTK, key, gtk, PortSecured>>
        /\ UNCHANGED queue \/ queue' = Append(queue, m)
    BY <1>4 DEF ApGivesUp, ApFrame, entryVars, keyVars
  <2>3. m \in Message
    BY <1>1 DEF Message, Leave, ApState
  <2> HIDE DEF m, a
  <2>4. \A n \in Range(queue') : n \in Range(queue) \/ n.type = "leave"
    BY <2>1, <2>2, <2>3, QueueAppend DEF IInv
  <2>5. GroupKeyOf(a) = GroupKeyOf(ap)
    BY <2>1 DEF GroupKeyOf
  <2>6. Pending' => Pending
    BY <2>4 DEF Pending
  <2>7. Counters'
    BY <2>1, <2>2, <2>4, <2>5 DEF KInv, Counters, Replay
  <2>8. Answers' /\ Done' /\ KeysAgree'
    BY <2>1, <2>2, <2>5, <2>6 DEF KInv, Answers, Done, KeysAgree
  <2> QED BY <2>7, <2>8 DEF KInv
<1> QED BY <1>2, <1>3, <1>4

\* A new association: the station is not on it yet, and has answered nothing in it.
LEMMA AssociateAgrees ==
  ASSUME FirstR = 1, IInv, KInv, NEW b \in AP, Associate(b)
  PROVE  KInv'
<1> DEFINE a == [st |-> "wait2", bss |-> b, link |-> ap.link + 1, hs |-> 1, group |-> 1,
                 r |-> FirstR, ptk |-> NoKey, key |-> NoKey, tries |-> 0, rekeys |-> 0]
           m == [type |-> "assoc", bss |-> b, link |-> a.link]
<1>1. /\ \A i \in 1..Len(queue) : queue[i].type # "assoc"
      /\ queue' = Append(queue, m) /\ ap' = a /\ toSta' = {Says(a)} /\ toAp' = {}
      /\ UNCHANGED <<wpa2, link, R_Counter, PTK, key, gtk, PortSecured>>
  BY DEF Associate, entryVars, keyVars
<1>2. ap.link \in Nat
  BY DEF IInv, TypeOK, ApState
<1>3. m \in Message /\ m.type = "assoc" /\ a.st = "wait2" /\ a.link = ap.link + 1 /\ a.r = 1
  BY <1>2 DEF Assoc, Message
<1> HIDE DEF a, m
<1>4. ~Pending
  BY <1>1, LenProperties DEF IInv, TypeOK, Pending, Range
<1>5. link # ap'.link
  BY <1>1, <1>2, <1>3, <1>4 DEF IInv, Latest, TypeOK
<1>6. Range(queue') = Range(queue) \cup {m}
  BY <1>1, <1>3, <1>4, QueueAppend DEF IInv
<1>7. Counters'
  <2>1. Says(a).r = 1 /\ Says(a).type = "m1"
    BY <1>3 DEF Says, Frame
  <2> PICK s : s = Says(a)
    OBVIOUS
  <2>2. toSta' = {s} /\ s.r = 1 /\ s.type = "m1"
    BY <1>1, <2>1
  <2>3. Replay(s)'
    BY <1>1, <1>3, <2>2 DEF Replay
  <2> QED BY <1>1, <1>3, <1>5, <1>6, <2>2, <2>3 DEF KInv, Counters
<1>8. Answers' /\ Done' /\ KeysAgree'
  BY <1>1, <1>3 DEF Answers, Done, KeysAgree
<1> QED BY <1>7, <1>8 DEF KInv
\* What is heard carries no counter the access point has not sent.
LEMMA ReceiveAgrees ==
  ASSUME IInv, KInv, NEW m \in toSta, Receive(m)
  PROVE  KInv'
<1>1. /\ toSta' \subseteq toSta
      /\ UNCHANGED <<wpa2, link, R_Counter, PTK, keyVars, ap, toAp>>
      /\ queue' = queue \/ queue' = Append(queue, m)
  BY DEF Receive, MlmeEnqueueForRecv, entryVars
<1>2. m \in ToSta /\ m \in Message /\ m.type # "assoc"
  BY DEF IInv, TypeOK, ToSta, Message
<1>3. Range(queue') = Range(queue) \/ Range(queue') = Range(queue) \cup {m}
  <2>1. queue \in Seq(Message) /\ Range(Append(queue, m)) = Range(queue) \cup {m}
    BY <1>2, RangeAppend DEF IInv, TypeOK
  <2> QED BY <1>1, <2>1
<1>4. Pending' => Pending
  BY <1>2, <1>3 DEF Pending
<1> QED BY <1>1, <1>3, <1>4, QuietKeeps

\* The supplicant answers a frame newer than every one before: of what it has answered
\* only this frame has its counter, so that this answer alone tells what is installed;
\* and the access point, waiting for it, is not done.
LEMMA AnswerAgrees ==
  ASSUME IInv, KInv, NEW m \in Range(queue), m \in ToSta, NEW f,
         link # 0, FreshReplay(m.r), R_Counter' = m.r,
         UNCHANGED <<wpa2, link, ap, toSta>>,
         Range(queue') \subseteq Range(queue),
         \/ toAp' = toAp
         \/ /\ toAp' = toAp \cup {f} /\ f.r = m.r /\ (f.mic = NoKey \/ OfLink(f.mic, link))
            /\ f.type = "m4" => key' = f.mic /\ PTK' = f.mic
                                /\ (wpa2 => PortSecured' /\ m.type = "m3" /\ gtk' = m.gtk)
            /\ f.type = "g2" => key' = f.enc /\ PTK' = f.mic /\ PortSecured'
                                /\ m.type = "g1" /\ gtk' = m.gtk
  PROVE  KInv'
<1>1. m.type \in {"m1", "m3", "g1"} /\ m.r \in Nat /\ R_Counter \in Nat /\ ap.r \in Nat
  BY DEF ToSta, IInv, TypeOK, ApState
<1>2. m.r > R_Counter
  BY <1>1 DEF FreshReplay, KInv, Counters
<1>3. link = ap.link => Replay(m) /\ m.r <= ap.r
  BY <1>1 DEF KInv, Counters, Replay
<1>4. Counters'
  BY <1>1, <1>3 DEF KInv, Counters, Replay, GroupKeyOf
<1>5. ~(ap.st = "done" /\ link = ap.link)
  BY <1>1, <1>2, <1>3 DEF KInv, Done
<1>6. Done' /\ KeysAgree'
  BY <1>5 DEF KInv, Done, KeysAgree
<1>7. Answers'
  <2>1. Pending' => /\ ap.st \in {"idle", "wait2"} /\ link # ap.link
                    /\ \A g \in toAp : ~OfLink(g.mic, ap.link)
    BY DEF Pending, KInv, Answers, IInv, Latest
  <2>2. ASSUME link = ap.link, NEW g \in toAp, OfLink(g.mic, link) PROVE g.r < m.r
    <3>1. g.r <= R_Counter /\ g.r \in Nat
      BY <2>2 DEF KInv, Answers, IInv, TypeOK, ToAp
    <3> QED BY <1>1, <1>2, <3>1
  <2>3. link = ap.link => \A g \in toAp : OfLink(g.mic, link) => g.r <= m.r /\ g.r # m.r
    <3>1. \A g \in toAp : g.r \in Nat
      BY DEF IInv, TypeOK, ToAp
    <3> QED BY <1>1, <2>2, <3>1
  <2>4. ap' = ap /\ link' = link /\ wpa2' = wpa2 /\ GroupKeyOf(ap)' = GroupKeyOf(ap)
    BY DEF GroupKeyOf
  <2>5. CASE toAp' = toAp
    BY <2>1, <2>3, <2>4, <2>5 DEF Answers
  <2>6. CASE toAp' # toAp
    <3>1. /\ toAp' = toAp \cup {f} /\ f.r = m.r /\ f.r <= m.r
          /\ link # ap.link => ~OfLink(f.mic, ap.link)
      BY <1>1, <2>6 DEF OfLink
    <3>2. link = ap.link =>
            /\ f.type = "m4" => key' = f.mic /\ PTK' = f.mic
                 /\ (wpa2 => PortSecured' /\ (f.r = ap.r => gtk' = GroupKeyOf(ap)))
            /\ f.type = "g2" => key' = f.enc /\ PTK' = f.mic /\ PortSecured'
                 /\ (f.r = ap.r => gtk' = GroupKeyOf(ap))
      BY <1>3, <2>6 DEF Replay
    <3> QED BY <2>1, <2>3, <2>4, <3>1, <3>2 DEF Answers
  <2> QED BY <2>5, <2>6
<1> QED BY <1>4, <1>6, <1>7 DEF KInv

\* The supplicant, one handler after the other.
LEMMA SupplicantAgrees ==
  ASSUME IInv, KInv, Ignore \/ PeerPairMsg1Action \/ PeerPairMsg3Action \/ PeerGroupMsg1Action
  PROVE  KInv'
<1> DEFINE m == Head(queue)
<1>1. /\ at = "idle" /\ queue # <<>> /\ queue' = Tail(queue) /\ m.type \in {"m1", "m3", "g1"}
      /\ UNCHANGED <<wpa2, link, ap, toSta>>
  BY DEF Ignore, PeerPairMsg1Action, PeerPairMsg3Action, PeerGroupMsg1Action, Takes, WpaFrame
<1>2. /\ m \in ToSta /\ m \in Range(queue) /\ m.nonce \in Keys /\ m.r \in Nat
      /\ EntryOf(m) => link # 0 /\ Belongs(m, link)
      /\ Range(queue') \subseteq Range(queue)
  BY <1>1, HeadBelongs, QueueTail DEF IInv, ToSta
<1>3. link # 0 => PTK = NoKey \/ OfLink(PTK, link)
  BY DEF IInv, KeysBelong
<1> HIDE DEF m
<1>4. CASE Ignore
  <2>1. Pending' => Pending
    BY <1>2 DEF Pending
  <2> QED BY <1>1, <1>2, <1>4, <2>1, QuietKeeps DEF Ignore
<1>5. CASE PeerPairMsg1Action
  <2> DEFINE f == Frame("m2", m.r, m.r, DerivePTK(m.nonce, m.r), NoKey, NoKey)
  <2>1. /\ EntryOf(m) /\ FreshReplay(m.r) /\ R_Counter' = m.r /\ m.type = "m1"
        /\ toAp' = toAp \cup {f}
    BY <1>5 DEF PeerPairMsg1Action, PeerWpaMessageSanity, Takes, ConstructEapolMsg, m
  <2>2. OfLink(DerivePTK(m.nonce, m.r), link)
    BY <1>2, <2>1, Derived DEF Belongs
  <2>3. f.type = "m2" /\ f.r = m.r /\ OfLink(f.mic, link)
    BY <2>2 DEF Frame
  <2> HIDE DEF f
  <2> QED BY <1>1, <1>2, <2>1, <2>3, AnswerAgrees
<1>6. CASE PeerPairMsg3Action
  <2> DEFINE f == Frame("m4", m.r, 0, PTK, NoKey, NoKey)
  <2>1. /\ EntryOf(m) /\ FreshReplay(m.r) /\ R_Counter' = m.r /\ m.type = "m3"
        /\ wpa2 => gtk' = m.gtk
        /\ PTK' = PTK
    BY <1>6 DEF PeerPairMsg3Action, PeerWpaMessageSanity, RTMPParseEapolKeyData, Takes, m
  <2>2. CASE m.nonce # ANonce
    <3>1. toAp' = toAp
      BY <1>6, <2>2 DEF PeerPairMsg3Action, m
    <3> QED BY <1>1, <1>2, <2>1, <3>1, AnswerAgrees
  <2>3. CASE m.nonce = ANonce
    <3>1. toAp' = toAp \cup {f} /\ key' = PTK /\ (wpa2 => PortSecured')
      BY <1>6, <2>3 DEF PeerPairMsg3Action, ConstructEapolMsg, AsicAddSharedKeyEntry,
                        STA_PORT_SECURED, m
    <3>2. f.type = "m4" /\ f.r = m.r /\ f.mic = PTK
      BY DEF Frame
    <3> HIDE DEF f
    <3> QED BY <1>1, <1>2, <1>3, <2>1, <3>1, <3>2, AnswerAgrees
  <2> QED BY <2>2, <2>3
<1>7. CASE PeerGroupMsg1Action
  <2> DEFINE f == Frame("g2", m.r, 0, PTK, NoKey, key)
  <2>1. /\ EntryOf(m) /\ FreshReplay(m.r) /\ R_Counter' = m.r /\ m.type = "g1"
        /\ gtk' = m.gtk /\ PortSecured' /\ PTK' = PTK /\ key' = key
        /\ toAp' = toAp \cup {f}
    BY <1>7 DEF PeerGroupMsg1Action, PeerWpaMessageSanity, RTMPParseEapolKeyData, Takes,
                STA_PORT_SECURED, ConstructEapolMsg, m
  <2>2. f.type = "g2" /\ f.r = m.r /\ f.mic = PTK /\ f.enc = key
    BY DEF Frame
  <2> HIDE DEF f
  <2> QED BY <1>1, <1>2, <1>3, <2>1, <2>2, AnswerAgrees
<1> QED BY <1>4, <1>5, <1>6, <1>7
\* LinkUp and LinkDown: when the association is taken from the queue its handshake has not
\* passed the first message, and no answer of the station to it is on its way.
LEMMA LinkAgrees ==
  ASSUME IInv, KInv, LinkUp \/ LinkUpConnected \/ LinkUpEntry \/ LinkDown \/ LinkDownEnds
  PROVE  KInv'
<1>1. UNCHANGED <<wpa2, ap, toSta, toAp>>
  BY DEF LinkUp, LinkUpConnected, LinkUpEntry, LinkDown, LinkDownEnds, LinkFrame, airVars
<1>2. queue # <<>> => Head(queue) = queue[1] /\ Head(queue) \in Message /\ Head(queue) \in Range(queue)
  BY QueueTail, RangeTail DEF IInv, TypeOK
<1>3. CASE LinkUp \/ LinkUpEntry
  <2>1. UNCHANGED <<link, queue, R_Counter, PTK, keyVars>>
    BY <1>3 DEF LinkUp, LinkUpEntry, entryVars
  <2> QED BY <1>1, <2>1, QuietKeeps DEF Pending
<1>4. CASE LinkUpConnected
  <2> DEFINE m == Head(queue)
  <2>1. at = "roam" /\ R_Counter' = 0 /\ link' = m.link /\ queue' = Tail(queue)
    BY <1>4 DEF LinkUpConnected, ClearEntry
  <2>2. queue # <<>> /\ m.type = "assoc" /\ m \in Range(queue)
    BY <1>2, <2>1 DEF IInv, Thread
  <2>3. \A n \in Range(queue') : n.type = "leave"
    BY <2>1, <2>2, QueueTail DEF IInv
  <2>4. /\ link' = ap.link /\ ap.st \in {"idle", "wait2"}
        /\ \A f \in toAp : ~OfLink(f.mic, ap.link)
    BY <2>1, <2>2 DEF IInv, Latest, Pending, KInv, Answers
  <2> HIDE DEF m
  <2>5. ap.r \in Nat
    BY DEF IInv, TypeOK, ApState
  <2>6. \A n \in toSta : Replay(n)'
    BY <1>1 DEF KInv, Counters, Replay, GroupKeyOf
  <2>7. Counters'
    BY <1>1, <2>1, <2>3, <2>5, <2>6 DEF KInv, Counters
  <2>8. Answers' /\ Done' /\ KeysAgree'
    BY <1>1, <2>3, <2>4 DEF Answers, Pending, Done, KeysAgree
  <2> QED BY <2>7, <2>8 DEF KInv
<1>5. CASE LinkDown \/ LinkDownEnds
  <2>1. /\ queue # <<>> /\ Head(queue).type = "leave"
        /\ queue' = queue \/ queue' = Tail(queue)
        /\ link' = 0 \/ UNCHANGED <<link, entryVars, keyVars>>
    BY <1>2, <1>5 DEF LinkDown, LinkDownEnds, IInv, Thread
  <2>2. Range(queue') \subseteq Range(queue)
    BY <2>1, QueueTail DEF IInv
  <2>3. Pending' => Pending
    BY <2>2 DEF Pending
  <2>4. CASE UNCHANGED <<link, entryVars, keyVars>>
    BY <1>1, <2>2, <2>3, <2>4, QuietKeeps DEF entryVars
  <2>5. CASE link' = 0
    <3>1. \A n \in toSta : Replay(n)'
      BY <1>1 DEF KInv, Counters, Replay, GroupKeyOf
    <3>2. Counters'
      BY <1>1, <2>2, <2>5, <3>1 DEF KInv, Counters
    <3>3. ~(ap.st = "done" /\ link' = ap.link)
      BY <2>5 DEF IInv, Latest
    <3>4. Answers' /\ Done' /\ KeysAgree'
      BY <1>1, <2>3, <2>5, <3>3 DEF KInv, Answers, Done, KeysAgree
    <3> QED BY <3>2, <3>4 DEF KInv
  <2> QED BY <2>1, <2>4, <2>5
<1> QED BY <1>3, <1>4, <1>5

LEMMA StepAgrees ==
  ASSUME FirstR = 1, IInv, KInv, [Next]_vars
  PROVE  KInv'
<1>1. CASE MlmeThread
  BY <1>1, SupplicantAgrees, LinkAgrees DEF MlmeThread
<1>2. CASE LinkDownExec \/ LinkDownPost \/ SetAsicWcid
  <2> DEFINE m == [type |-> "leave", link |-> 0]
  <2>1. /\ UNCHANGED <<wpa2, link, R_Counter, PTK, keyVars, ap, toSta, toAp>>
        /\ queue' = queue \/ queue' = Append(queue, m)
    BY <1>2 DEF LinkDownExec, LinkDownPost, SetAsicWcid, LinkFrame, airVars, entryVars
  <2>2. m \in Message /\ m.type = "leave"
    BY DEF Message, Leave
  <2> HIDE DEF m
  <2>3. \A n \in Range(queue') : n \in Range(queue) \/ n.type = "leave"
    <3>1. queue \in Seq(Message) /\ Range(Append(queue, m)) = Range(queue) \cup {m}
      BY <2>2, RangeAppend DEF IInv, TypeOK
    <3> QED BY <2>1, <2>2, <3>1
  <2>4. Pending' => Pending
    BY <2>3 DEF Pending
  <2> QED BY <2>1, <2>3, <2>4, QuietKeeps
<1>3. CASE \E b \in AP : Associate(b)
  BY <1>3, AssociateAgrees
<1>4. CASE \E m \in toAp : ApReceive(m)
  BY <1>4, ApReceiveAgrees
<1>5. CASE ApRepeat \/ ApRekey \/ ApGivesUp
  BY <1>5, ApAgrees
<1>6. CASE \E m \in toSta : Receive(m)
  BY <1>6, ReceiveAgrees
<1>7. CASE UNCHANGED vars
  <2>1. UNCHANGED <<wpa2, link, queue, R_Counter, PTK, keyVars, ap, toSta, toAp>>
    BY <1>7 DEF vars, airVars, entryVars
  <2> QED BY <2>1, QuietKeeps DEF Pending
<1> QED BY <1>1, <1>2, <1>3, <1>4, <1>5, <1>6, <1>7 DEF Next

\* With an access point that counts from one the two sides never disagree on the keys once
\* it takes the handshake to be done, whatever frames are lost, reordered or repeated
\* (FreshReplay in PeerWpaMessageSanity, and the counters of the access point).
THEOREM BothHaveTheKeys == FirstR = 1 => (Spec => []KeysAgree)
<1> SUFFICES ASSUME FirstR = 1 PROVE Spec => []KeysAgree
  OBVIOUS
<1>1. Init => IInv /\ KInv
  BY InitOK, KInitOK
<1>2. IInv /\ KInv /\ [Next]_vars => (IInv /\ KInv)'
  BY StepKeeps, StepAgrees
<1>3. IInv /\ KInv => KeysAgree
  BY DEF KInv
<1> QED BY <1>1, <1>2, <1>3, PTL DEF Spec
=============================================================================

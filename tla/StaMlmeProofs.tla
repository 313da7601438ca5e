---------------------------- MODULE StaMlmeProofs ----------------------------
(***************************************************************************)
(* The station's MLME, for every set of access points and networks, every    *)
(* length of the queue and any number of events: whoever waits has its timer  *)
(* or its answer on the way, the scan flag is lowered, and a link comes up    *)
(* only to the access point that accepted it.                                *)
(***************************************************************************)
EXTENDS StaMlme, SequenceTheorems, FiniteSetTheorems, TLAPS

CntlTypes == Requests \cup
  {"RESET_CONF", "ROAMING_REQ", "SCAN_CONF", "JOIN_CONF", "AUTH_CONF", "ASSOC_CONF",
   "DISASSOC_CONF"}
SyncTypes == {"SCAN_REQ", "JOIN_REQ", "PEER_BEACON", "SCAN_TIMEOUT", "BEACON_TIMEOUT"}
AuthTypes == {"AUTH_REQ", "AUTH_TIMEOUT", "PEER_AUTH_2", "PEER_AUTH_4", "PEER_DEAUTH"}
AssocTypes == {"ASSOC_REQ", "ASSOC_TIMEOUT", "DISASSOC_REQ", "DISASSOC_TIMEOUT",
               "PEER_ASSOC_RSP", "PEER_DISASSOC_REQ"}

Peer == AP \cup {NoAP}
Arg == BOOLEAN \cup Nat \cup {"OPEN", "KEY"} \cup SUBSET Peer
AnyMessage ==
  [machine : {"CNTL"}, type : CntlTypes, ap : Peer, arg : Arg]
    \cup [machine : {"SYNC"}, type : SyncTypes, ap : Peer, arg : Arg]
    \cup [machine : {"AUTH"}, type : AuthTypes, ap : Peer, arg : Arg]
    \cup [machine : {"ASSOC"}, type : AssocTypes, ap : Peer, arg : Arg]

\* What the messages that a handler looks into carry.
Carries(m) ==
  /\ m.type = "OID_SSID" => m.arg \subseteq Peer
  /\ m.type = "ROAMING_REQ" => m.arg \subseteq AP
  /\ m.type = "JOIN_REQ" => m.arg \in Nat
  /\ m.type = "AUTH_REQ" => m.arg \in {"OPEN", "KEY"}
  /\ m.type = "PEER_BEACON" => m.ap \in AP
Message == {m \in AnyMessage : Carries(m)}

\* A message of one of the types T is in the queue q.
Holds(q, T) == \E i \in 1..Len(q) : q[i].type \in T

\* Behind every message of the types S there is one of the types T, or it is one.
Followed(q, S, T) ==
  \A i \in 1..Len(q) : q[i].type \in S => \E j \in i..Len(q) : q[j].type \in T

\* The messages of the types T name the access point a.
AllTo(q, T, a) == \A i \in 1..Len(q) : q[i].type \in T => q[i].ap = a

\* Behind every association that was granted a new one is asked for.
Regranted(q) ==
  \A i \in 1..Len(q) : q[i].type = "ASSOC_CONF" /\ q[i].arg =>
    \E j \in i..Len(q) : q[j].type = "ASSOC_REQ"

----------------------------------------------------------------------------
(* What taking and putting messages does to these. *)

\* The message at the head is taken.
LEMMA Taken ==
  ASSUME NEW q \in Seq(Message), q # <<>>
  PROVE  /\ \A T : Holds(q, T) <=> Head(q).type \in T \/ Holds(Tail(q), T)
         /\ \A S, T : Followed(q, S, T) => Followed(Tail(q), S, T)
         /\ \A T, a : AllTo(q, T, a) => AllTo(Tail(q), T, a)
         /\ Regranted(q) => Regranted(Tail(q))
<1> DEFINE t == Tail(q)
<1>1. /\ t \in Seq(Message) /\ Len(t) = Len(q) - 1 /\ Head(q) = q[1]
      /\ \A i \in 1..Len(t) : t[i] = q[i + 1]
  BY HeadTailProperties
<1>2. Len(q) \in Nat /\ Len(q) # 0
  BY LenProperties, EmptySeq
<1> HIDE DEF t
<1>3. \A i \in 1..Len(t) : i + 1 \in 1..Len(q) /\ t[i] = q[i + 1]
  BY <1>1, <1>2
<1>4. \A i \in 1..Len(q) : i = 1 \/ (i - 1 \in 1..Len(t) /\ t[i - 1] = q[i])
  BY <1>1, <1>2, <1>3
<1>5. ASSUME NEW i \in 1..Len(t), NEW j \in (i + 1)..Len(q)
      PROVE  j - 1 \in i..Len(t) /\ t[j - 1] = q[j]
  BY <1>1, <1>2, <1>4
<1>6. ASSUME NEW T PROVE Holds(q, T) <=> Head(q).type \in T \/ Holds(t, T)
  <2>1. 1 \in 1..Len(q)
    BY <1>2
  <2>2. Holds(q, T) => Head(q).type \in T \/ Holds(t, T)
    BY <1>1, <1>4 DEF Holds
  <2>3. Head(q).type \in T \/ Holds(t, T) => Holds(q, T)
    BY <1>1, <1>3, <2>1 DEF Holds
  <2> QED BY <2>2, <2>3
<1>7. ASSUME NEW S, NEW T, Followed(q, S, T) PROVE Followed(t, S, T)
  <2> SUFFICES ASSUME NEW i \in 1..Len(t), t[i].type \in S
               PROVE  \E j \in i..Len(t) : t[j].type \in T
    BY DEF Followed
  <2>1. PICK j \in (i + 1)..Len(q) : q[j].type \in T
    BY <1>3, <1>7 DEF Followed
  <2> QED BY <1>5, <2>1
<1>8. ASSUME NEW T, NEW a, AllTo(q, T, a) PROVE AllTo(t, T, a)
  BY <1>3, <1>8 DEF AllTo
<1>9. ASSUME Regranted(q) PROVE Regranted(t)
  <2> SUFFICES ASSUME NEW i \in 1..Len(t), t[i].type = "ASSOC_CONF", t[i].arg
               PROVE  \E j \in i..Len(t) : t[j].type = "ASSOC_REQ"
    BY DEF Regranted
  <2>1. PICK j \in (i + 1)..Len(q) : q[j].type = "ASSOC_REQ"
    BY <1>3, <1>9 DEF Regranted
  <2> QED BY <1>5, <2>1
<1> QED BY <1>6, <1>7, <1>8, <1>9 DEF t

\* A message is put behind the others.
LEMMA Put ==
  ASSUME NEW q \in Seq(Message), NEW m \in Message
  PROVE  LET r == q \o <<m>> IN
         /\ r \in Seq(Message)
         /\ \A T : Holds(r, T) <=> Holds(q, T) \/ m.type \in T
         /\ \A S, T : m.type \in T => Followed(r, S, T)
         /\ \A S, T : m.type \notin S /\ Followed(q, S, T) => Followed(r, S, T)
         /\ \A T, a : AllTo(q, T, a) /\ (m.type \in T => m.ap = a) => AllTo(r, T, a)
         /\ m.type = "ASSOC_REQ" => Regranted(r)
         /\ Regranted(q) /\ ~(m.type = "ASSOC_CONF" /\ m.arg) => Regranted(r)
<1> DEFINE r == q \o <<m>>
           n == Len(q)
<1>1. /\ r \in Seq(Message) /\ Len(r) = n + 1
      /\ \A i \in 1..(n + 1) : r[i] = IF i <= n THEN q[i] ELSE <<m>>[i - n]
  BY ConcatProperties
<1>2. n \in Nat
  BY LenProperties
<1> HIDE DEF r, n
<1>3. /\ \A i \in 1..n : i \in 1..Len(r) /\ r[i] = q[i]
      /\ n + 1 \in 1..Len(r) /\ r[n + 1] = m
      /\ \A i \in 1..Len(r) : i \in 1..n \/ i = n + 1
      /\ \A i \in 1..Len(r) : n + 1 \in i..Len(r)
      /\ \A i \in 1..n : \A j \in i..n : j \in i..Len(r) /\ r[j] = q[j]
  BY <1>1, <1>2
<1>4. ASSUME NEW T PROVE Holds(r, T) <=> Holds(q, T) \/ m.type \in T
  BY <1>3 DEF Holds, n
<1>5. ASSUME NEW S, NEW T, m.type \in T PROVE Followed(r, S, T)
  BY <1>3, <1>5 DEF Followed
<1>6. ASSUME NEW S, NEW T, m.type \notin S, Followed(q, S, T) PROVE Followed(r, S, T)
  <2> SUFFICES ASSUME NEW i \in 1..Len(r), r[i].type \in S
               PROVE  \E j \in i..Len(r) : r[j].type \in T
    BY DEF Followed
  <2>1. i \in 1..n /\ q[i].type \in S
    BY <1>3, <1>6
  <2>2. PICK j \in i..n : q[j].type \in T
    BY <1>6, <2>1 DEF Followed, n
  <2> QED BY <1>3, <2>1, <2>2
<1>7. ASSUME NEW T, NEW a, AllTo(q, T, a), m.type \in T => m.ap = a PROVE AllTo(r, T, a)
  BY <1>3, <1>7 DEF AllTo, n
<1>8. ASSUME m.type = "ASSOC_REQ" PROVE Regranted(r)
  BY <1>3, <1>8 DEF Regranted
<1>9. ASSUME Regranted(q), ~(m.type = "ASSOC_CONF" /\ m.arg) PROVE Regranted(r)
  <2> SUFFICES ASSUME NEW i \in 1..Len(r), r[i].type = "ASSOC_CONF", r[i].arg
               PROVE  \E j \in i..Len(r) : r[j].type = "ASSOC_REQ"
    BY DEF Regranted
  <2>1. i \in 1..n /\ q[i].type = "ASSOC_CONF" /\ q[i].arg
    BY <1>3, <1>9
  <2>2. PICK j \in i..n : q[j].type = "ASSOC_REQ"
    BY <1>9, <2>1 DEF Regranted, n
  <2> QED BY <1>3, <2>1, <2>2
<1> QED BY <1>1, <1>4, <1>5, <1>6, <1>7, <1>8, <1>9 DEF r

\* What is not there is followed by anything, and what is followed is followed by
\* something that is there.
LEMMA FollowedHolds ==
  ASSUME NEW q \in Seq(Message)
  PROVE  /\ \A S, T : ~Holds(q, S) => Followed(q, S, T)
         /\ \A S, T : Followed(q, S, T) /\ Holds(q, S) => Holds(q, T)
         /\ \A S, T, U : Followed(q, S, T) /\ U \subseteq S => Followed(q, U, T)
<1>1. Len(q) \in Nat
  BY LenProperties
<1>2. \A i \in 1..Len(q) : \A j \in i..Len(q) : j \in 1..Len(q)
  BY <1>1
<1>3. ASSUME NEW S, NEW T, ~Holds(q, S) PROVE Followed(q, S, T)
  BY <1>3 DEF Holds, Followed
<1>4. ASSUME NEW S, NEW T, Followed(q, S, T), Holds(q, S) PROVE Holds(q, T)
  <2>1. PICK i \in 1..Len(q) : q[i].type \in S
    BY <1>4 DEF Holds
  <2>2. PICK j \in i..Len(q) : q[j].type \in T
    BY <1>4, <2>1 DEF Followed
  <2> QED BY <1>2, <2>1, <2>2 DEF Holds
<1>5. ASSUME NEW S, NEW T, NEW U, Followed(q, S, T), U \subseteq S PROVE Followed(q, U, T)
  BY <1>5 DEF Followed
<1> QED BY <1>3, <1>4, <1>5

----------------------------------------------------------------------------
(* The invariant. *)

Bounded == queue \in Seq(Message) /\ Len(queue) <= QueueLen /\ dropped \in BOOLEAN
MachineTypes ==
  /\ cntl \in CntlStates
  /\ sync \in {"IDLE", "SCAN_LISTEN", "JOIN_WAIT_BEACON"}
  /\ auth \in {"IDLE", "WAIT_SEQ2", "WAIT_SEQ4"}
  /\ assoc \in {"IDLE", "WAIT_RSP", "DISASSOC_WAIT_RSP"}
  /\ armed \subseteq Timers
  /\ task \in Timers \cup {"idle", "WAIT_DISASSOC", "WAIT_OID_LIST_SCAN"}
UserRequest == {m \in Message : m.type \in Requests}
AuxTypes ==
  /\ user \in UserRequest \cup {Nothing}
  /\ bssid \in Peer /\ alg \in {"OPEN", "KEY"}
  /\ tab \in Seq(AP) /\ Len(tab) <= Cardinality(AP)
  /\ idx \in 0..Cardinality(AP)
  /\ cntl \in {"WAIT_JOIN", "WAIT_AUTH", "WAIT_AUTH2", "WAIT_ASSOC"} => idx < Len(tab)
  /\ autoSsid \subseteq Peer /\ accepted \in Peer
LinkTypes ==
  /\ link \in Peer /\ PortSecured \in BOOLEAN
  /\ bConfigChanged \in BOOLEAN /\ CurrReqIsFromNdis \in BOOLEAN
  /\ ScanTab \subseteq AP /\ BSS_SCAN_IN_PROGRESS \in BOOLEAN /\ Channel \in 0..NChan
Types == Bounded /\ MachineTypes /\ AuxTypes /\ LinkTypes

\* A machine that waits has its timer, or the timeout is on its way.
Coming(t, timeout) == t \in armed \/ task = t \/ Holds(queue, {timeout})
Timed ==
  /\ sync = "SCAN_LISTEN" => Coming("Scan", "SCAN_TIMEOUT")
  /\ sync = "JOIN_WAIT_BEACON" => Coming("Beacon", "BEACON_TIMEOUT")
  /\ assoc = "WAIT_RSP" => Coming("Assoc", "ASSOC_TIMEOUT")
  /\ assoc = "DISASSOC_WAIT_RSP" => Misjoined \/ Coming("Disassoc", "DISASSOC_TIMEOUT")

\* What CNTL waits for is requested, under way or confirmed, and no other request
\* in the queue will take the machine away from it.
Pending(req, other) == Holds(queue, {req}) /\ Followed(queue, {other}, {req})
Backed ==
  /\ cntl = "WAIT_JOIN" =>
       \/ Pending("JOIN_REQ", "SCAN_REQ")
       \/ sync = "JOIN_WAIT_BEACON" /\ ~Holds(queue, {"SCAN_REQ"})
       \/ Holds(queue, {"JOIN_CONF"})
  /\ cntl = "WAIT_OID_LIST_SCAN" =>
       \/ Pending("SCAN_REQ", "JOIN_REQ")
       \/ sync = "SCAN_LISTEN" /\ ~Holds(queue, {"JOIN_REQ"})
       \/ Holds(queue, {"SCAN_CONF"})
  /\ cntl \in {"WAIT_AUTH", "WAIT_AUTH2"} =>
       Holds(queue, {"AUTH_REQ"}) \/ auth # "IDLE" \/ Holds(queue, {"AUTH_CONF"})
  /\ cntl = "WAIT_ASSOC" =>
       \/ Pending("ASSOC_REQ", "DISASSOC_REQ")
       \/ assoc = "WAIT_RSP" /\ ~Holds(queue, {"DISASSOC_REQ"})
       \/ Holds(queue, {"ASSOC_CONF"})
  /\ cntl \in {"WAIT_DISASSOC", "WAIT_OID_DISASSOC"} =>
       \/ Pending("DISASSOC_REQ", "ASSOC_REQ")
       \/ assoc = "DISASSOC_WAIT_RSP" /\ ~Holds(queue, {"ASSOC_REQ"})
       \/ Holds(queue, {"DISASSOC_CONF"})

\* Requests left from an attempt that a reset ended are in front of the request to
\* join of the next one, so that behind it no message of the old one is left: from
\* there on all that is asked, and all that is granted, is about MlmeAux.Bssid.
Left == {"DISASSOC_REQ", "ASSOC_REQ", "AUTH_REQ", "JOIN_REQ"}
Joining == cntl = "WAIT_JOIN" => Followed(queue, Left, {"JOIN_REQ"})
Authenticating ==
  cntl \in {"WAIT_AUTH", "WAIT_AUTH2", "WAIT_ASSOC"} =>
    /\ ~Holds(queue, {"JOIN_REQ"}) /\ ~Holds(queue, {"DISASSOC_REQ"})
    /\ AllTo(queue, {"AUTH_REQ"}, bssid) /\ AllTo(queue, {"ASSOC_REQ"}, bssid)
    /\ cntl # "WAIT_ASSOC" => ~Holds(queue, {"ASSOC_REQ"})
Associating ==
  cntl = "WAIT_ASSOC" =>
    /\ assoc # "DISASSOC_WAIT_RSP" \/ Holds(queue, {"ASSOC_REQ"})
    /\ accepted = bssid \/ Regranted(queue)
Joins == Misjoined \/ (Joining /\ Authenticating /\ Associating)

\* A scan is requested or under way only while CNTL waits for its end, and a request
\* to join that would break it off has another request to scan behind it.
ScanAwaited ==
  Holds(queue, {"SCAN_REQ"}) \/ sync = "SCAN_LISTEN" =>
    cntl = "WAIT_OID_LIST_SCAN" /\ Followed(queue, {"JOIN_REQ"}, {"SCAN_REQ"})
FlagAwaited ==
  BSS_SCAN_IN_PROGRESS =>
    \/ Holds(queue, {"SCAN_REQ"}) \/ sync = "SCAN_LISTEN"
    \/ cntl = "WAIT_OID_LIST_SCAN" /\ Holds(queue, {"SCAN_CONF"})
    \/ Holds(queue, {"OID_BSSID_LIST_SCAN"}) \/ user.type = "OID_BSSID_LIST_SCAN"
Scans == Misscanned \/ task = "WAIT_OID_LIST_SCAN" \/ (ScanAwaited /\ FlagAwaited)

Body == Timed /\ Backed /\ Joins /\ Scans
IInv == Types /\ (Excused \/ Body)

----------------------------------------------------------------------------
(* Steps of the queue. *)

\* The queue r is q without its head, of type h, and with the message p behind:
\* "none" and Nothing stand for no message.
Shift(q, r, h, p) ==
  /\ \A T : Holds(r, T) => Holds(q, T) \/ p.type \in T
  /\ \A T : Holds(q, T) => h \in T \/ Holds(r, T)
  /\ p # Nothing => \A T : p.type \in T => Holds(r, T) /\ \A S : Followed(r, S, T)
  /\ \A S, T : Followed(q, S, T) /\ p.type \notin S => Followed(r, S, T)
  /\ \A T, a : AllTo(q, T, a) /\ (p.type \in T => p.ap = a) => AllTo(r, T, a)
  /\ p.type = "ASSOC_REQ" => Regranted(r)
  /\ Regranted(q) /\ ~(p.type = "ASSOC_CONF" /\ p.arg) => Regranted(r)

LEMMA ShiftNone ==
  ASSUME NEW q \in Seq(Message)
  PROVE  /\ Shift(q, q, "none", Nothing)
         /\ q # <<>> => Shift(q, Tail(q), Head(q).type, Nothing)
<1>1. Nothing.type = "none"
  BY DEF Nothing, Msg
<1>2. Shift(q, q, "none", Nothing)
  BY <1>1 DEF Shift
<1>3. ASSUME q # <<>> PROVE Shift(q, Tail(q), Head(q).type, Nothing)
  BY <1>1, <1>3, Taken DEF Shift
<1> QED BY <1>2, <1>3

LEMMA ShiftOne ==
  ASSUME NEW q \in Seq(Message), NEW m \in Message
  PROVE  /\ q \o <<m>> \in Seq(Message)
         /\ Shift(q, q \o <<m>>, "none", m)
         /\ q # <<>> => Shift(q, Tail(q) \o <<m>>, Head(q).type, m)
<1>1. q \o <<m>> \in Seq(Message) /\ Shift(q, q \o <<m>>, "none", m)
  BY Put DEF Shift
<1>2. ASSUME q # <<>> PROVE Shift(q, Tail(q) \o <<m>>, Head(q).type, m)
  <2> DEFINE t == Tail(q)
             r == t \o <<m>>
  <2>1. t \in Seq(Message)
    BY <1>2, HeadTailProperties
  <2>2. /\ \A T : Holds(q, T) <=> Head(q).type \in T \/ Holds(t, T)
        /\ \A S, T : Followed(q, S, T) => Followed(t, S, T)
        /\ \A T, a : AllTo(q, T, a) => AllTo(t, T, a)
        /\ Regranted(q) => Regranted(t)
    BY <1>2, Taken
  <2> HIDE DEF t
  <2>3. /\ \A T : Holds(r, T) <=> Holds(t, T) \/ m.type \in T
        /\ \A S, T : m.type \in T => Followed(r, S, T)
        /\ \A S, T : m.type \notin S /\ Followed(t, S, T) => Followed(r, S, T)
        /\ \A T, a : AllTo(t, T, a) /\ (m.type \in T => m.ap = a) => AllTo(r, T, a)
        /\ m.type = "ASSOC_REQ" => Regranted(r)
        /\ Regranted(t) /\ ~(m.type = "ASSOC_CONF" /\ m.arg) => Regranted(r)
    BY <2>1, Put
  <2> HIDE DEF r
  <2>4. Shift(q, r, Head(q).type, m)
    BY <2>2, <2>3 DEF Shift
  <2> QED BY <2>4 DEF r, t
<1> QED BY <1>1, <1>2

LEMMA PostBounded ==
  ASSUME NEW q \in Seq(Message), NEW ms \in Seq(Message), dropped \in BOOLEAN, Post(q, ms)
  PROVE  /\ Bounded'
         /\ dropped => dropped'
         /\ ~dropped' => queue' = q \o ms
         /\ Len(q) + Len(ms) <= QueueLen => dropped' = dropped
<1> DEFINE r == q \o ms
           n == IF Len(r) > QueueLen THEN QueueLen ELSE Len(r)
<1>1. r \in Seq(Message) /\ Len(r) = Len(q) + Len(ms) /\ Len(r) \in Nat
  BY ConcatProperties, LenProperties
<1>2. /\ queue' = SubSeq(r, 1, n)
      /\ dropped' = (dropped \/ Len(r) > QueueLen)
  BY <1>1 DEF Post
<1> HIDE DEF r
<1>3. QueueLen \in Nat
  BY StaMlmeAssumption
<1>4. n \in Nat /\ n <= Len(r) /\ n <= QueueLen /\ (~(Len(r) > QueueLen) => n = Len(r))
  BY <1>1, <1>3
<1> HIDE DEF n
<1>5. \A i \in 1..n : r[i] \in Message
  BY <1>1, <1>4, ElementOfSeq
<1>6. /\ SubSeq(r, 1, n) \in Seq(Message)
      /\ Len(SubSeq(r, 1, n)) = IF 1 <= n THEN n - 1 + 1 ELSE 0
  BY <1>4, <1>5, SubSeqProperties
<1>7. Len(queue') = n
  BY <1>2, <1>4, <1>6
<1>8. Bounded'
  BY <1>2, <1>4, <1>6, <1>7 DEF Bounded
<1>9. SubSeq(r, 1, Len(r)) = r
  BY <1>1, SubSeqFull
<1>10. ~dropped' => queue' = r
  <2>1. ~dropped' => n = Len(r)
    BY <1>2, <1>4
  <2> QED BY <1>2, <1>9, <2>1
<1>11. dropped => dropped'
  BY <1>2
<1>12. Len(q) + Len(ms) <= QueueLen => dropped' = dropped
  <2>1. Len(q) + Len(ms) <= QueueLen => ~(Len(r) > QueueLen)
    BY <1>1, <1>3
  <2> QED BY <1>2, <2>1
<1> QED BY <1>8, <1>10, <1>11, <1>12 DEF r

\* A message enqueued by the timer task, a user or a peer.
LEMMA Posted ==
  ASSUME Bounded, NEW m \in Message, Post(queue, <<m>>)
  PROVE  /\ Bounded'
         /\ dropped => dropped'
         /\ ~dropped' => Shift(queue, queue', "none", m)
<1>1. <<m>> \in Seq(Message)
  OBVIOUS
<1>2. /\ Bounded'
      /\ dropped => dropped'
      /\ ~dropped' => queue' = queue \o <<m>>
  BY <1>1, PostBounded DEF Bounded
<1>3. Shift(queue, queue \o <<m>>, "none", m)
  BY ShiftOne DEF Bounded
<1> QED BY <1>2, <1>3

\* A handler that posts nothing.
LEMMA RepliedNone ==
  ASSUME Bounded, queue # <<>>, Reply(<<>>)
  PROVE  /\ Bounded' /\ dropped' = dropped
         /\ Shift(queue, queue', Elem.type, Nothing)
<1> DEFINE t == Tail(queue)
<1>1. t \in Seq(Message) /\ Len(t) <= QueueLen
  <2>1. t \in Seq(Message) /\ Len(t) = Len(queue) - 1 /\ Len(queue) \in Nat /\ QueueLen \in Nat
    BY HeadTailProperties, LenProperties, StaMlmeAssumption DEF Bounded
  <2> QED BY <2>1 DEF Bounded
<1>2. Post(t, <<>>)
  BY DEF Reply
<1>3. Shift(queue, t, Elem.type, Nothing)
  BY ShiftNone DEF Bounded, Elem
<1> HIDE DEF t
<1>4. <<>> \in Seq(Message) /\ Len(<<>>) = 0 /\ t \o <<>> = t /\ Len(t) \in Nat
  BY <1>1, ConcatEmptySeq, LenProperties, EmptySeq
<1>5. /\ Bounded'
      /\ ~dropped' => queue' = t \o <<>>
      /\ Len(t) + Len(<<>>) <= QueueLen => dropped' = dropped
  BY <1>1, <1>2, <1>4, PostBounded DEF Bounded
<1>6. dropped' = dropped
  BY <1>1, <1>4, <1>5
<1>7. queue' = t
  <2>1. Len(t \o <<>>) = Len(t)
    BY <1>4
  <2>2. queue' = SubSeq(t \o <<>>, 1, Len(t))
    BY <1>1, <1>2, <1>4, StaMlmeAssumption DEF Post
  <2> QED BY <1>1, <1>4, <2>2, SubSeqFull
<1> QED BY <1>3, <1>5, <1>6, <1>7

\* A handler that posts the message m, once or twice.
LEMMA Replied ==
  ASSUME Bounded, queue # <<>>, NEW m \in Message, Reply(<<m>>) \/ Reply(<<m, m>>)
  PROVE  /\ Bounded'
         /\ dropped => dropped'
         /\ ~dropped' => Shift(queue, queue', Elem.type, m)
<1> DEFINE t == Tail(queue)
           r == t \o <<m>>
<1>1. t \in Seq(Message)
  BY HeadTailProperties DEF Bounded
<1>2. Shift(queue, r, Elem.type, m) /\ r \in Seq(Message)
  BY <1>1, ShiftOne DEF Bounded, Elem
<1>3. CASE Reply(<<m>>)
  <2>1. <<m>> \in Seq(Message) /\ Post(t, <<m>>)
    BY <1>3 DEF Reply
  <2> HIDE DEF t
  <2>2. /\ Bounded'
        /\ dropped => dropped'
        /\ ~dropped' => queue' = t \o <<m>>
    BY <1>1, <2>1, PostBounded DEF Bounded
  <2> QED BY <1>2, <2>2
<1>4. CASE Reply(<<m, m>>)
  <2>1. <<m, m>> \in Seq(Message) /\ Post(t, <<m, m>>)
    BY <1>4 DEF Reply
  <2>2. t \o <<m, m>> = r \o <<m>>
    <3>1. <<m>> \in Seq(Message) /\ <<m, m>> = <<m>> \o <<m>>
      OBVIOUS
    <3> HIDE DEF t
    <3>2. (t \o <<m>>) \o <<m>> = t \o (<<m>> \o <<m>>)
      BY <1>1, <3>1, ConcatAssociative
    <3> QED BY <3>1, <3>2
  <2> HIDE DEF t
  <2>3. /\ Bounded'
        /\ dropped => dropped'
        /\ ~dropped' => queue' = t \o <<m, m>>
    BY <1>1, <2>1, PostBounded DEF Bounded
  <2> HIDE DEF r
  <2>4. LET u == r \o <<m>> IN
        /\ \A T : Holds(u, T) <=> Holds(r, T) \/ m.type \in T
        /\ \A S, T : m.type \in T => Followed(u, S, T)
        /\ \A S, T : m.type \notin S /\ Followed(r, S, T) => Followed(u, S, T)
        /\ \A T, a : AllTo(r, T, a) /\ (m.type \in T => m.ap = a) => AllTo(u, T, a)
        /\ m.type = "ASSOC_REQ" => Regranted(u)
        /\ Regranted(r) /\ ~(m.type = "ASSOC_CONF" /\ m.arg) => Regranted(u)
    BY <1>2, Put
  <2>5. Shift(queue, r \o <<m>>, Elem.type, m)
    BY <1>2, <2>4 DEF Shift
  <2> QED BY <2>2, <2>3, <2>5
<1> QED BY <1>3, <1>4

\* The messages the handlers make.
LEMMA Args == NoAP \in Peer /\ {} \in Arg /\ \A ok \in BOOLEAN : ok \in Arg
BY DEF Peer, Arg

LEMMA Fields ==
  ASSUME NEW machine, NEW type, NEW ap, NEW arg
  PROVE  /\ Msg(machine, type, ap, arg).machine = machine
         /\ Msg(machine, type, ap, arg).type = type
         /\ Msg(machine, type, ap, arg).ap = ap
         /\ Msg(machine, type, ap, arg).arg = arg
BY DEF Msg

LEMMA Messages ==
  ASSUME NEW ap \in Peer, NEW arg \in Arg
  PROVE  /\ \A type \in CntlTypes : Carries(Msg("CNTL", type, ap, arg)) =>
              Msg("CNTL", type, ap, arg) \in Message
         /\ \A type \in SyncTypes : Carries(Msg("SYNC", type, ap, arg)) =>
              Msg("SYNC", type, ap, arg) \in Message
         /\ \A type \in AuthTypes : Carries(Msg("AUTH", type, ap, arg)) =>
              Msg("AUTH", type, ap, arg) \in Message
         /\ \A type \in AssocTypes : Msg("ASSOC", type, ap, arg) \in Message
<1>1. \A type \in AssocTypes : Carries(Msg("ASSOC", type, ap, arg))
  BY Fields DEF Carries, AssocTypes
<1> QED BY <1>1 DEF Msg, Message, AnyMessage

LEMMA Confs ==
  ASSUME NEW type \in CntlTypes, NEW ok \in BOOLEAN
  PROVE  /\ type \in {"SCAN_CONF", "JOIN_CONF", "AUTH_CONF", "ASSOC_CONF", "DISASSOC_CONF"} =>
              Conf(type, ok) \in Message
         /\ Conf(type, ok).type = type /\ Conf(type, ok).arg = ok
BY Args, Messages, Fields DEF Conf, Carries

LEMMA NoMessage == Nothing.type = "none" /\ Nothing \notin Message
<1>1. Nothing.type = "none" /\ Nothing.machine = "none"
  BY DEF Nothing, Msg
<1> QED BY <1>1 DEF Message, AnyMessage

\* The type of a message tells its machine.
LEMMA MachineOfType ==
  ASSUME NEW m \in Message
  PROVE  /\ m.machine = "CNTL" <=> m.type \in CntlTypes
         /\ m.machine = "SYNC" <=> m.type \in SyncTypes
         /\ m.machine = "AUTH" <=> m.type \in AuthTypes
         /\ m.machine = "ASSOC" <=> m.type \in AssocTypes
         /\ m.ap \in Peer /\ m.arg \in Arg /\ Carries(m)
<1>1. m \in AnyMessage /\ Carries(m)
  BY DEF Message
<1>2. CASE m \in [machine : {"CNTL"}, type : CntlTypes, ap : Peer, arg : Arg]
  BY <1>1, <1>2 DEF CntlTypes, SyncTypes, AuthTypes, AssocTypes, Requests
<1>3. CASE m \in [machine : {"SYNC"}, type : SyncTypes, ap : Peer, arg : Arg]
  BY <1>1, <1>3 DEF CntlTypes, SyncTypes, AuthTypes, AssocTypes, Requests
<1>4. CASE m \in [machine : {"AUTH"}, type : AuthTypes, ap : Peer, arg : Arg]
  BY <1>1, <1>4 DEF CntlTypes, SyncTypes, AuthTypes, AssocTypes, Requests
<1>5. CASE m \in [machine : {"ASSOC"}, type : AssocTypes, ap : Peer, arg : Arg]
  BY <1>1, <1>5 DEF CntlTypes, SyncTypes, AuthTypes, AssocTypes, Requests
<1> QED BY <1>1, <1>2, <1>3, <1>4, <1>5 DEF AnyMessage

LEMMA QueuedHolds ==
  ASSUME Bounded
  PROVE  /\ \A type \in CntlTypes : Queued("CNTL", type) <=> Holds(queue, {type})
         /\ \A type \in SyncTypes : Queued("SYNC", type) <=> Holds(queue, {type})
         /\ \A type \in AuthTypes : Queued("AUTH", type) <=> Holds(queue, {type})
         /\ \A type \in AssocTypes : Queued("ASSOC", type) <=> Holds(queue, {type})
<1>1. \A i \in 1..Len(queue) : queue[i] \in Message
  BY ElementOfSeq DEF Bounded
<1>2. \A i \in 1..Len(queue) :
        /\ queue[i].machine = "CNTL" <=> queue[i].type \in CntlTypes
        /\ queue[i].machine = "SYNC" <=> queue[i].type \in SyncTypes
        /\ queue[i].machine = "AUTH" <=> queue[i].type \in AuthTypes
        /\ queue[i].machine = "ASSOC" <=> queue[i].type \in AssocTypes
  BY <1>1, MachineOfType
<1> QED BY <1>2 DEF Queued, Holds

\* The message in hand.
LEMMA InHand ==
  ASSUME Bounded, queue # <<>>
  PROVE  Elem \in Message
BY HeadTailProperties DEF Bounded, Elem

LEMMA Counts ==
  ASSUME Types
  PROVE  Cardinality(AP) \in Nat /\ Len(tab) \in Nat /\ idx \in Nat
BY FS_CardinalityType, StaMlmeAssumption, LenProperties DEF Types, AuxTypes

LEMMA HoldsFacts ==
  ASSUME NEW q \in Seq(Message)
  PROVE  /\ q # <<>> => \A T : Head(q).type \in T => Holds(q, T)
         /\ \A S, T : Holds(q, S) /\ S \subseteq T => Holds(q, T)
         /\ \A T, a : ~Holds(q, T) => AllTo(q, T, a)
<1>1. ASSUME q # <<>>, NEW T, Head(q).type \in T PROVE Holds(q, T)
  BY <1>1, Taken
<1>2. ASSUME NEW S, NEW T, Holds(q, S), S \subseteq T PROVE Holds(q, T)
  BY <1>2 DEF Holds
<1>3. ASSUME NEW T, NEW a, ~Holds(q, T) PROVE AllTo(q, T, a)
  BY <1>3 DEF Holds, AllTo
<1> QED BY <1>1, <1>2, <1>3

\* The head names the access point that all messages of its type do.
LEMMA HeadTo ==
  ASSUME NEW q \in Seq(Message), q # <<>>, NEW T, NEW a, AllTo(q, T, a), Head(q).type \in T
  PROVE  Head(q).ap = a
<1>1. 1 \in 1..Len(q) /\ Head(q) = q[1]
  BY LenProperties, EmptySeq
<1> QED BY <1>1 DEF AllTo

\* A granted association at the head has its request behind it.
LEMMA HeadRegranted ==
  ASSUME NEW q \in Seq(Message), q # <<>>, Regranted(q), Head(q).type = "ASSOC_CONF",
         Head(q).arg
  PROVE  Holds(q, {"ASSOC_REQ"})
<1>1. 1 \in 1..Len(q) /\ Head(q) = q[1] /\ \A j \in 1..Len(q) : j \in 1..Len(q)
  BY LenProperties, EmptySeq
<1> QED BY <1>1 DEF Regranted, Holds

\* The handler posts p, or nothing.
Sends(p) ==
  IF p = Nothing THEN Reply(<<>>) ELSE p \in Message /\ (Reply(<<p>>) \/ Reply(<<p, p>>))

LEMMA Sent ==
  ASSUME Bounded, queue # <<>>, NEW p, Sends(p)
  PROVE  /\ Bounded'
         /\ dropped => dropped'
         /\ ~dropped' => Shift(queue, queue', Elem.type, p)
BY RepliedNone, Replied DEF Sends

----------------------------------------------------------------------------
(* Steps of a kind. *)

Wanted == {"JOIN_REQ", "SCAN_REQ", "AUTH_REQ", "ASSOC_REQ", "DISASSOC_REQ"}

\* Nothing of what the machines wait for comes or goes.
LEMMA QuietStep ==
  ASSUME Body, Timed', UNCHANGED <<cntl, sync, auth, assoc, bssid, misled, accepted>>,
         NEW h, NEW p, Shift(queue, queue', h, p),
         h \notin Wanted, p.type \notin Wanted, p.type # "ASSOC_CONF",
         h = "JOIN_CONF" => cntl # "WAIT_JOIN",
         h = "SCAN_CONF" => cntl # "WAIT_OID_LIST_SCAN",
         h = "AUTH_CONF" => cntl \notin {"WAIT_AUTH", "WAIT_AUTH2"},
         h = "ASSOC_CONF" => cntl # "WAIT_ASSOC",
         h = "DISASSOC_CONF" => cntl \notin {"WAIT_DISASSOC", "WAIT_OID_DISASSOC"},
         h # "OID_BSSID_LIST_SCAN",
         BSS_SCAN_IN_PROGRESS' => BSS_SCAN_IN_PROGRESS \/ user'.type = "OID_BSSID_LIST_SCAN",
         user.type = "OID_BSSID_LIST_SCAN" =>
           p = user \/ user'.type = "OID_BSSID_LIST_SCAN",
         p # Nothing \/ p.type = "none",
         task = "WAIT_OID_LIST_SCAN" => task' = "WAIT_OID_LIST_SCAN"
  PROVE  Body'
<1>1. \A T : Holds(queue, T) => h \in T \/ Holds(queue', T)
  BY DEF Shift
<1>2. \A T : Holds(queue', T) => p.type \in T \/ Holds(queue, T)
  BY DEF Shift
<1>3. \A S, T : Followed(queue, S, T) /\ p.type \notin S => Followed(queue', S, T)
  BY DEF Shift
<1>4. Backed'
  BY <1>1, <1>2, <1>3 DEF Body, Backed, Pending, Wanted
<1>5. Joins'
  <2>1. \A T, a : AllTo(queue, T, a) /\ p.type \notin T => AllTo(queue', T, a)
    BY DEF Shift
  <2>2. Regranted(queue) => Regranted(queue')
    BY DEF Shift
  <2>3. Joining => Joining'
    BY <1>3 DEF Joining, Left, Wanted
  <2>4. Authenticating => Authenticating'
    BY <1>2, <2>1 DEF Authenticating, Wanted
  <2>5. Associating => Associating'
    BY <1>1, <2>2 DEF Associating, Wanted
  <2> QED BY <2>3, <2>4, <2>5 DEF Body, Joins, Misjoined
<1>6. Scans'
  <2>1. ScanAwaited => ScanAwaited'
    BY <1>2, <1>3, <1>1 DEF ScanAwaited, Wanted
  <2>2. ScanAwaited /\ FlagAwaited => FlagAwaited'
    <3>1. p = user /\ user.type = "OID_BSSID_LIST_SCAN" => Holds(queue', {"OID_BSSID_LIST_SCAN"})
      BY NoMessage DEF Shift
    <3> QED BY <1>1, <3>1 DEF FlagAwaited, Wanted
  <2> QED BY <2>1, <2>2 DEF Body, Scans, Misscanned
<1> QED BY <1>4, <1>5, <1>6 DEF Body

\* CNTL, which did not wait for a scan, goes to idle or begins an attempt: it asks
\* to join, to disassociate or to scan.
Begins(p) ==
  \/ cntl' = "IDLE" /\ p = Nothing
  \/ cntl' = "WAIT_JOIN" /\ p # Nothing /\ p.type = "JOIN_REQ"
  \/ cntl' = "WAIT_OID_LIST_SCAN" /\ p # Nothing /\ p.type = "SCAN_REQ"
  \/ cntl' \in {"WAIT_DISASSOC", "WAIT_OID_DISASSOC"} /\ p # Nothing /\ p.type = "DISASSOC_REQ"

LEMMA BeginStep ==
  ASSUME Body, UNCHANGED <<sync, auth, assoc, threadVars>>, misled \subseteq misled',
         NEW h \in CntlTypes, NEW p, Shift(queue, queue', h, p), Begins(p),
         cntl # "WAIT_OID_LIST_SCAN",
         h = "OID_BSSID_LIST_SCAN" => cntl' = "WAIT_OID_LIST_SCAN",
         BSS_SCAN_IN_PROGRESS' => BSS_SCAN_IN_PROGRESS
  PROVE  Body'
<1>1. \A T : Holds(queue, T) => h \in T \/ Holds(queue', T)
  BY DEF Shift
<1>2. \A T : Holds(queue', T) => p.type \in T \/ Holds(queue, T)
  BY DEF Shift
<1>3. p # Nothing => \A T : p.type \in T => Holds(queue', T) /\ \A S : Followed(queue', S, T)
  BY DEF Shift
<1>4. Nothing.type = "none"
  BY NoMessage
<1>5. Timed'
  BY <1>1 DEF Body, Timed, Coming, Misjoined, threadVars, CntlTypes, Requests
<1>6. Backed'
  BY <1>3 DEF Backed, Pending, Begins
<1>7. Joins'
  BY <1>3 DEF Joins, Joining, Authenticating, Associating, Begins
<1>8. Scans'
  <2>1. ScanAwaited => ScanAwaited'
    BY <1>2, <1>3, <1>4 DEF ScanAwaited, Begins
  <2>2. ScanAwaited /\ FlagAwaited => FlagAwaited'
    BY <1>1, <1>3 DEF ScanAwaited, FlagAwaited, Begins, CntlTypes, Requests, threadVars
  <2> QED BY <2>1, <2>2 DEF Body, Scans, Misscanned, threadVars
<1> QED BY <1>5, <1>6, <1>7, <1>8 DEF Body

----------------------------------------------------------------------------
(* The connection machine. *)

LEMMA SomeOrder ==
  ASSUME NEW S, S \subseteq AP, NEW t \in SetToSeqs(S)
  PROVE  t \in Seq(AP) /\ Len(t) <= Cardinality(AP) /\ Len(t) \in Nat
<1>1. IsFiniteSet(S) /\ Cardinality(S) \in Nat /\ Cardinality(S) <= Cardinality(AP)
  BY FS_Subset, FS_CardinalityType, StaMlmeAssumption
<1>2. t \in [1..Cardinality(S) -> S]
  BY DEF SetToSeqs
<1>3. t \in Seq(S) /\ Len(t) = Cardinality(S)
  BY <1>1, <1>2, IsASeq, LenProperties
<1>4. t \in Seq(AP)
  BY <1>2, <1>1, IsASeq
<1> QED BY <1>1, <1>3, <1>4

\* What CNTL posts.
LEMMA CntlMessages ==
  ASSUME Types
  PROVE  /\ \A i \in Nat : /\ Msg("SYNC", "JOIN_REQ", NoAP, i) \in Message
                           /\ Msg("SYNC", "JOIN_REQ", NoAP, i).type = "JOIN_REQ"
         /\ Msg("SYNC", "SCAN_REQ", NoAP, {}) \in Message
         /\ Msg("SYNC", "SCAN_REQ", NoAP, {}).type = "SCAN_REQ"
         /\ Msg("ASSOC", "DISASSOC_REQ", link, {}) \in Message
         /\ Msg("ASSOC", "DISASSOC_REQ", link, {}).type = "DISASSOC_REQ"
         /\ Msg("ASSOC", "ASSOC_REQ", bssid, {}) \in Message
         /\ Msg("ASSOC", "ASSOC_REQ", bssid, {}).type = "ASSOC_REQ"
         /\ Msg("ASSOC", "ASSOC_REQ", bssid, {}).ap = bssid
         /\ \A a \in {"OPEN", "KEY"} : /\ Msg("AUTH", "AUTH_REQ", bssid, a) \in Message
                                       /\ Msg("AUTH", "AUTH_REQ", bssid, a).type = "AUTH_REQ"
                                       /\ Msg("AUTH", "AUTH_REQ", bssid, a).ap = bssid
<1>1. \A i \in Nat : i \in Arg
  BY DEF Arg
<1>2. \A a \in {"OPEN", "KEY"} : a \in Arg
  BY DEF Arg
<1>3. bssid \in Peer /\ link \in Peer
  BY DEF Types, AuxTypes, LinkTypes
<1>4. \A i \in Nat : Carries(Msg("SYNC", "JOIN_REQ", NoAP, i))
  BY Fields DEF Carries
<1>5. Carries(Msg("SYNC", "SCAN_REQ", NoAP, {}))
  BY Fields DEF Carries
<1>6. \A a \in {"OPEN", "KEY"} : Carries(Msg("AUTH", "AUTH_REQ", bssid, a))
  BY Fields DEF Carries
<1> QED BY <1>1, <1>2, <1>3, <1>4, <1>5, <1>6, Args, Messages, Fields
        DEF SyncTypes, AuthTypes, AssocTypes

LEMMA RestartStep ==
  ASSUME IInv, MlmeRestartStateMachine
  PROVE  IInv'
<1>1. /\ queue # <<>> /\ Elem.type = "RESET_CONF" /\ Reply(<<>>)
      /\ cntl' = "IDLE" /\ sync' = "IDLE" /\ auth' = "IDLE" /\ assoc' = "IDLE"
      /\ armed' \subseteq armed /\ BSS_SCAN_IN_PROGRESS' = FALSE
      /\ UNCHANGED <<auxVars, linkVars, ScanTab, Channel, task, user, crossed, accepted>>
      /\ misled' = IF Queued("SYNC", "SCAN_REQ") THEN misled \cup {"RESET_CONF"} ELSE misled
  BY DEF MlmeRestartStateMachine, Handle, Elem, Misled, ResetMachines, CancelTimer
<1>2. /\ Bounded' /\ dropped' = dropped
      /\ Shift(queue, queue', "RESET_CONF", Nothing)
  BY <1>1, RepliedNone DEF IInv, Types
<1>3. Types'
  <2>1. MachineTypes' /\ LinkTypes'
    BY <1>1 DEF IInv, Types, MachineTypes, LinkTypes, linkVars, CntlStates
  <2>2. AuxTypes'
    BY <1>1 DEF IInv, Types, AuxTypes, auxVars
  <2> QED BY <1>2, <2>1, <2>2 DEF Types
<1>4. ASSUME ~Excused' PROVE Body'
  <2>1. Timed' /\ Backed' /\ Joins'
    BY <1>1 DEF Timed, Backed, Joins, Joining, Authenticating, Associating
  <2>2. Scans'
    <3>1. ~Misscanned' => ~Holds(queue, {"SCAN_REQ"})
      BY <1>1, QueuedHolds DEF Misscanned, SyncTypes, IInv, Types
    <3>2. ~Holds(queue, {"SCAN_REQ"}) => ~Holds(queue', {"SCAN_REQ"})
      BY <1>2, NoMessage DEF Shift
    <3> QED BY <1>1, <3>1, <3>2 DEF Scans, ScanAwaited, FlagAwaited
  <2> QED BY <2>1, <2>2 DEF Body
<1> QED BY <1>3, <1>4 DEF IInv

\* What is left to show of a step that begins an attempt or gives one up.
LEMMA BeginsKeeps ==
  ASSUME IInv, queue # <<>>, Elem.machine = "CNTL",
         UNCHANGED <<sync, auth, assoc, threadVars, crossed, accepted>>,
         misled \subseteq misled', cntl # "WAIT_OID_LIST_SCAN",
         NEW p, Sends(p), Begins(p), AuxTypes', LinkTypes',
         Elem.type = "OID_BSSID_LIST_SCAN" => cntl' = "WAIT_OID_LIST_SCAN",
         BSS_SCAN_IN_PROGRESS' => BSS_SCAN_IN_PROGRESS
  PROVE  IInv'
<1>1. /\ Bounded'
      /\ dropped => dropped'
      /\ ~dropped' => Shift(queue, queue', Elem.type, p)
  BY Sent DEF IInv, Types
<1>2. Types'
  <2>1. MachineTypes'
    BY DEF IInv, Types, MachineTypes, threadVars, CntlStates, Begins
  <2> QED BY <1>1, <2>1 DEF Types
<1>3. ASSUME ~Excused' PROVE Body'
  <2>1. ~dropped' /\ Body
    BY <1>1, <1>3 DEF IInv, Excused
  <2>2. Elem.type \in CntlTypes
    BY InHand, MachineOfType DEF IInv, Types
  <2> QED BY <1>1, <2>1, <2>2, BeginStep
<1> QED BY <1>2, <1>3 DEF IInv

LEMMA OidSsidStep ==
  ASSUME IInv, CntlOidSsidProc
  PROVE  IInv'
<1>1. /\ queue # <<>> /\ Elem.machine = "CNTL" /\ Elem.type = "OID_SSID" /\ cntl = "IDLE"
      /\ bssid' = NoAP /\ autoSsid' = Elem.arg
      /\ UNCHANGED <<sync, auth, assoc, alg, link, PortSecured, bConfigChanged,
                     scanVars, threadVars, histVars>>
  BY DEF CntlOidSsidProc, Handle, Elem
<1>2. PICK t \in SsidSort(Elem.arg) :
        /\ tab' = t
        /\ \/ /\ \/ cntl' = "IDLE" /\ Reply(<<>>)
                 \/ DisassocFirst
                 \/ cntl' = "WAIT_OID_LIST_SCAN" /\ Reply(<<Msg("SYNC", "SCAN_REQ", NoAP, {})>>)
              /\ idx' = idx
           \/ IterateOnBssTab(t, 0)
        /\ CurrReqIsFromNdis' \in BOOLEAN
  BY DEF CntlOidSsidProc, IInv, Types, LinkTypes
<1>3. t \in Seq(AP) /\ Len(t) <= Cardinality(AP) /\ Len(t) \in Nat
  BY SomeOrder DEF SsidSort, IInv, Types, LinkTypes
<1>4. Elem.arg \subseteq Peer
  BY <1>1, InHand, MachineOfType DEF IInv, Types, Carries
<1>5. PICK p : Sends(p) /\ Begins(p)
  BY <1>2, CntlMessages, NoMessage DEF IInv, Sends, Begins, IterateOnBssTab, DisassocFirst
<1>6. AuxTypes' /\ LinkTypes'
  BY <1>1, <1>2, <1>3, <1>4, Counts, Args DEF IInv, Types, AuxTypes, LinkTypes, scanVars,
     threadVars, histVars, IterateOnBssTab, DisassocFirst
<1>7. /\ UNCHANGED <<sync, auth, assoc, threadVars, crossed, accepted, misled>>
      /\ BSS_SCAN_IN_PROGRESS' = BSS_SCAN_IN_PROGRESS
  BY <1>1 DEF histVars, scanVars
<1> QED BY <1>1, <1>5, <1>6, <1>7, BeginsKeeps

LEMMA OidBssidStep ==
  ASSUME IInv, CntlOidRTBssidProc
  PROVE  IInv'
<1>1. /\ queue # <<>> /\ Elem.machine = "CNTL" /\ Elem.type = "OID_BSSID" /\ cntl = "IDLE"
      /\ bssid' = Elem.ap
      /\ UNCHANGED <<sync, auth, assoc, alg, linkVars, scanVars, threadVars, histVars>>
  BY DEF CntlOidRTBssidProc, Handle, Elem
<1>2. \/ /\ cntl' = "WAIT_OID_LIST_SCAN" /\ Reply(<<Msg("SYNC", "SCAN_REQ", NoAP, {})>>)
         /\ UNCHANGED <<tab, idx, autoSsid>>
      \/ /\ Elem.ap \in ScanTab /\ autoSsid' = SsidOf(Elem.ap) /\ tab' = <<Elem.ap>>
         /\ (DisassocFirst /\ idx' = 0) \/ IterateOnBssTab(<<Elem.ap>>, 0)
  BY <1>1 DEF CntlOidRTBssidProc
<1>3. Elem.ap \in Peer
  BY <1>1, InHand, MachineOfType DEF IInv, Types
<1>4. Elem.ap \in ScanTab => /\ SsidOf(Elem.ap) \subseteq Peer
                             /\ <<Elem.ap>> \in Seq(AP) /\ Len(<<Elem.ap>>) = 1
                             /\ 1 <= Cardinality(AP)
  <2> SUFFICES ASSUME Elem.ap \in ScanTab
               PROVE  /\ SsidOf(Elem.ap) \subseteq Peer /\ Elem.ap \in AP
                      /\ 1 <= Cardinality(AP)
    OBVIOUS
  <2>1. Elem.ap \in AP
    BY DEF IInv, Types, LinkTypes
  <2>2. \E S \in Ssids : Elem.ap \in S
    BY <2>1, StaMlmeAssumption
  <2>3. SsidOf(Elem.ap) \in Ssids
    BY <2>2 DEF SsidOf
  <2>4. SsidOf(Elem.ap) \subseteq AP
    BY <2>3, StaMlmeAssumption
  <2>5. 1 <= Cardinality(AP)
    <3>1. Cardinality(AP) \in Nat /\ (Cardinality(AP) = 0 <=> AP = {})
      BY FS_CardinalityType, FS_EmptySet, StaMlmeAssumption
    <3> QED BY <2>1, <3>1
  <2> QED BY <2>1, <2>4, <2>5 DEF Peer
<1>5. PICK p : Sends(p) /\ Begins(p)
  BY <1>2, CntlMessages, NoMessage DEF IInv, Sends, Begins, IterateOnBssTab, DisassocFirst
<1>6. AuxTypes'
  <2>1. 0 \in 0..Cardinality(AP)
    BY Counts DEF IInv
  <2>2. /\ tab' \in Seq(AP) /\ Len(tab') <= Cardinality(AP) /\ idx' \in 0..Cardinality(AP)
        /\ autoSsid' \subseteq Peer
        /\ cntl' \in {"WAIT_JOIN", "WAIT_AUTH", "WAIT_AUTH2", "WAIT_ASSOC"} => idx' < Len(tab')
    <3>1. CASE cntl' = "WAIT_OID_LIST_SCAN" /\ UNCHANGED <<tab, idx, autoSsid>>
      BY <3>1 DEF IInv, Types, AuxTypes
    <3>2. CASE /\ Elem.ap \in ScanTab /\ autoSsid' = SsidOf(Elem.ap) /\ tab' = <<Elem.ap>>
               /\ (DisassocFirst /\ idx' = 0) \/ IterateOnBssTab(<<Elem.ap>>, 0)
      <4>1. idx' = 0 /\ cntl' \in {"WAIT_DISASSOC", "WAIT_JOIN", "IDLE"}
        BY <3>2 DEF IterateOnBssTab, DisassocFirst
      <4> QED BY <1>4, <2>1, <3>2, <4>1
    <3> QED BY <1>2, <3>1, <3>2
  <2> QED BY <1>1, <1>3, <2>2 DEF IInv, Types, AuxTypes, threadVars, histVars
<1>7. LinkTypes'
  BY <1>1 DEF IInv, Types, LinkTypes, linkVars, scanVars
<1>8. /\ UNCHANGED <<sync, auth, assoc, threadVars, crossed, accepted, misled>>
      /\ BSS_SCAN_IN_PROGRESS' = BSS_SCAN_IN_PROGRESS
  BY <1>1 DEF histVars, scanVars
<1> QED BY <1>1, <1>5, <1>6, <1>7, <1>8, BeginsKeeps

\* A scan, a disassociation or a new table of candidates that is asked for.
LEMMA OidScanStep ==
  ASSUME IInv, CntlOidScanProc
  PROVE  IInv'
<1>1. /\ queue # <<>> /\ Elem.machine = "CNTL" /\ cntl = "IDLE"
      /\ ScanTab' \subseteq ScanTab
      /\ cntl' = "WAIT_OID_LIST_SCAN"
      /\ Reply(<<Msg("SYNC", "SCAN_REQ", NoAP, {})>>)
      /\ UNCHANGED <<sync, auth, assoc, auxVars, linkVars, BSS_SCAN_IN_PROGRESS, Channel,
                     threadVars, crossed, misled, accepted>>
  BY DEF CntlOidScanProc, Handle, Elem, histVars
<1>2. PICK p : Sends(p) /\ Begins(p)
  BY <1>1, CntlMessages, NoMessage DEF IInv, Sends, Begins
<1>3. AuxTypes' /\ LinkTypes'
  BY <1>1 DEF IInv, Types, AuxTypes, LinkTypes, auxVars, threadVars, linkVars
<1> QED BY <1>1, <1>2, <1>3, BeginsKeeps

LEMMA OidDisassociateStep ==
  ASSUME IInv, CntlOidDisassociate
  PROVE  IInv'
<1>1. /\ queue # <<>> /\ Elem.machine = "CNTL" /\ Elem.type = "OID_DISASSOCIATE"
      /\ cntl = "IDLE" /\ autoSsid' = NoSsid /\ cntl' = "WAIT_OID_DISASSOC"
      /\ Reply(<<Msg("ASSOC", "DISASSOC_REQ", link, {})>>)
      /\ UNCHANGED <<sync, auth, assoc, bssid, alg, tab, idx, linkVars, ScanTab,
                     BSS_SCAN_IN_PROGRESS, Channel, threadVars, crossed, misled, accepted>>
  BY DEF CntlOidDisassociate, Handle, Elem, histVars, scanVars
<1>2. PICK p : Sends(p) /\ Begins(p)
  BY <1>1, CntlMessages, NoMessage DEF IInv, Sends, Begins
<1>3. AuxTypes' /\ LinkTypes'
  BY <1>1 DEF IInv, Types, AuxTypes, LinkTypes, threadVars, linkVars, NoSsid, Peer
<1> QED BY <1>1, <1>2, <1>3, BeginsKeeps

LEMMA RoamingStep ==
  ASSUME IInv, CntlMlmeRoamingProc
  PROVE  IInv'
<1>1. /\ queue # <<>> /\ Elem.machine = "CNTL" /\ Elem.type = "ROAMING_REQ" /\ cntl = "IDLE"
      /\ UNCHANGED <<sync, auth, assoc, bssid, alg, autoSsid, linkVars, ScanTab,
                     BSS_SCAN_IN_PROGRESS, Channel, threadVars, crossed, misled, accepted>>
  BY DEF CntlMlmeRoamingProc, Handle, Elem, histVars, scanVars
<1>2. PICK t \in SetToSeqs(Elem.arg) : tab' = t /\ IterateOnBssTab(t, 0)
  BY DEF CntlMlmeRoamingProc
<1>3. Elem.arg \subseteq AP
  BY <1>1, InHand, MachineOfType DEF IInv, Types, Carries
<1>4. t \in Seq(AP) /\ Len(t) <= Cardinality(AP) /\ Len(t) \in Nat
  BY <1>3, SomeOrder
<1>5. PICK p : Sends(p) /\ Begins(p)
  BY <1>2, CntlMessages, NoMessage DEF IInv, Sends, Begins, IterateOnBssTab
<1>6. AuxTypes' /\ LinkTypes'
  BY <1>1, <1>2, <1>4, Counts DEF IInv, Types, AuxTypes, LinkTypes, threadVars, linkVars,
     IterateOnBssTab
<1> QED BY <1>1, <1>5, <1>6, BeginsKeeps

\* The end of a disassociation.
LEMMA LinkDownTypes ==
  ASSUME LinkTypes, LinkDown
  PROVE  LinkTypes' /\ BSS_SCAN_IN_PROGRESS' = FALSE
BY Args DEF LinkTypes, LinkDown

LEMMA WaitDisassocStep ==
  ASSUME IInv, CntlWaitDisassocProc \/ CntlWaitOidDisassoc
  PROVE  IInv'
<1>1. /\ queue # <<>> /\ Elem.machine = "CNTL" /\ Elem.type = "DISASSOC_CONF"
      /\ cntl \in {"WAIT_DISASSOC", "WAIT_OID_DISASSOC"} /\ LinkDown
      /\ UNCHANGED <<sync, auth, assoc, bssid, alg, tab, autoSsid, threadVars,
                     crossed, misled, accepted>>
      /\ \/ IterateOnBssTab(tab, 0)
         \/ cntl' = "IDLE" /\ Reply(<<>>) /\ idx' = idx
  BY DEF CntlWaitDisassocProc, CntlWaitOidDisassoc, Handle, Elem, histVars, auxVars
<1>2. PICK p : Sends(p) /\ Begins(p)
  BY <1>1, CntlMessages, NoMessage DEF IInv, Sends, Begins, IterateOnBssTab
<1>3. AuxTypes'
  BY <1>1, Counts DEF IInv, Types, AuxTypes, threadVars, IterateOnBssTab
<1>4. LinkTypes' /\ BSS_SCAN_IN_PROGRESS' = FALSE
  BY <1>1, LinkDownTypes DEF IInv, Types
<1> QED BY <1>1, <1>2, <1>3, <1>4, BeginsKeeps

\* A confirmation ends the wait for a scan.
LEMMA WaitScanStep ==
  ASSUME IInv, CntlWaitOidListScan
  PROVE  IInv'
<1>1. /\ queue # <<>> /\ Elem.type = "SCAN_CONF" /\ cntl = "WAIT_OID_LIST_SCAN" /\ cntl' = "IDLE"
      /\ BSS_SCAN_IN_PROGRESS' = FALSE /\ Reply(<<>>)
      /\ misled' = IF sync = "SCAN_LISTEN" \/ Queued("SYNC", "SCAN_REQ")
                   THEN misled \cup {"SCAN_CONF"} ELSE misled
      /\ UNCHANGED <<sync, auth, assoc, auxVars, linkVars, ScanTab, Channel, threadVars,
                     crossed, accepted>>
  BY DEF CntlWaitOidListScan, Handle, Elem, Misled, Resume
<1>2. /\ Bounded' /\ dropped' = dropped
      /\ Shift(queue, queue', "SCAN_CONF", Nothing)
  BY <1>1, RepliedNone DEF IInv, Types
<1>3. Types'
  <2>1. MachineTypes' /\ LinkTypes'
    BY <1>1 DEF IInv, Types, MachineTypes, LinkTypes, linkVars, threadVars, CntlStates
  <2>2. AuxTypes'
    BY <1>1 DEF IInv, Types, AuxTypes, auxVars, threadVars
  <2> QED BY <1>2, <2>1, <2>2 DEF Types
<1>4. ASSUME ~Excused' PROVE Body'
  <2>1. Body
    BY <1>1, <1>2, <1>4 DEF IInv, Excused
  <2>2. Timed'
    BY <1>1, <1>2, <2>1 DEF Shift, Body, Timed, Coming, Misjoined, threadVars
  <2>3. Backed' /\ Joins'
    BY <1>1 DEF Backed, Joins, Joining, Authenticating, Associating
  <2>4. Scans'
    <3>1. ~Misscanned' => ~Holds(queue, {"SCAN_REQ"}) /\ sync # "SCAN_LISTEN"
      BY <1>1, QueuedHolds DEF Misscanned, SyncTypes, IInv, Types
    <3>2. ~Holds(queue, {"SCAN_REQ"}) => ~Holds(queue', {"SCAN_REQ"})
      BY <1>2, NoMessage DEF Shift
    <3> QED BY <1>1, <3>1, <3>2 DEF Scans, ScanAwaited, FlagAwaited
  <2> QED BY <2>2, <2>3, <2>4 DEF Body
<1> QED BY <1>3, <1>4 DEF IInv

\* What is left to show of a step that asks to authenticate or to associate.
LEMMA AsksKeeps ==
  ASSUME IInv, queue # <<>>,
         Elem.type \in {"JOIN_CONF", "AUTH_CONF"},
         cntl \in {"WAIT_JOIN", "WAIT_AUTH", "WAIT_AUTH2"},
         Elem.type = "JOIN_CONF" <=> cntl = "WAIT_JOIN",
         UNCHANGED <<sync, auth, assoc, auxVars, linkVars, scanVars, threadVars, crossed, accepted>>,
         misled' = IF cntl = "WAIT_JOIN" /\ Holds(queue, {"JOIN_REQ"})
                   THEN misled \cup {"JOIN_CONF"} ELSE misled,
         NEW p \in Message, Reply(<<p>>), p.ap = bssid,
         \/ p.type = "AUTH_REQ" /\ cntl' \in {"WAIT_AUTH", "WAIT_AUTH2"}
         \/ p.type = "ASSOC_REQ" /\ cntl' = "WAIT_ASSOC" /\ cntl # "WAIT_JOIN"
  PROVE  IInv'
<1>1. /\ Bounded'
      /\ dropped => dropped'
      /\ ~dropped' => Shift(queue, queue', Elem.type, p)
  BY Replied DEF IInv, Types
<1>2. Types'
  <2>1. MachineTypes' /\ LinkTypes'
    BY DEF IInv, Types, MachineTypes, LinkTypes, linkVars, scanVars, threadVars, CntlStates
  <2>2. AuxTypes'
    BY DEF IInv, Types, AuxTypes, auxVars, threadVars
  <2> QED BY <1>1, <2>1, <2>2 DEF Types
<1>3. ASSUME ~Excused' PROVE Body'
  <2>1. Body /\ Shift(queue, queue', Elem.type, p) /\ p # Nothing
    BY <1>1, <1>3, NoMessage DEF IInv, Excused
  <2>2. \A T : Holds(queue, T) => Elem.type \in T \/ Holds(queue', T)
    BY <2>1 DEF Shift
  <2>3. \A T : Holds(queue', T) => p.type \in T \/ Holds(queue, T)
    BY <2>1 DEF Shift
  <2>4. \A T : p.type \in T => Holds(queue', T) /\ \A S : Followed(queue', S, T)
    BY <2>1 DEF Shift
  <2>5. Timed'
    BY <2>1, <2>2 DEF Body, Timed, Coming, Misjoined, threadVars
  <2>6. Backed'
    BY <2>4 DEF Backed, Pending
  <2>7. Joins'
    <3>1. SUFFICES ASSUME ~Misjoined' PROVE Joining' /\ Authenticating' /\ Associating'
      BY DEF Joins
    <3>2. Joining /\ Authenticating /\ (cntl = "WAIT_JOIN" => ~Holds(queue, {"JOIN_REQ"}))
      BY <2>1, <3>1 DEF Misjoined, Body, Joins
    <3>3. queue \in Seq(Message)
      BY DEF IInv, Types, Bounded
    <3>4. ASSUME cntl = "WAIT_JOIN"
          PROVE  /\ ~Holds(queue, {"JOIN_REQ"}) /\ ~Holds(queue, {"DISASSOC_REQ"})
                 /\ ~Holds(queue, {"ASSOC_REQ"}) /\ ~Holds(queue, {"AUTH_REQ"})
      <4>1. ~Holds(queue, Left)
        BY <3>2, <3>3, <3>4, FollowedHolds DEF Joining
      <4>2. /\ {"JOIN_REQ"} \subseteq Left /\ {"DISASSOC_REQ"} \subseteq Left
            /\ {"ASSOC_REQ"} \subseteq Left /\ {"AUTH_REQ"} \subseteq Left
        BY DEF Left
      <4> QED BY <3>3, <4>1, <4>2, HoldsFacts
    <3>5. /\ ~Holds(queue, {"JOIN_REQ"}) /\ ~Holds(queue, {"DISASSOC_REQ"})
          /\ ~Holds(queue, {"ASSOC_REQ"}) /\ AllTo(queue, {"AUTH_REQ"}, bssid)
      BY <3>2, <3>3, <3>4, HoldsFacts DEF Authenticating
    <3>6. /\ ~Holds(queue', {"JOIN_REQ"}) /\ ~Holds(queue', {"DISASSOC_REQ"})
          /\ p.type # "ASSOC_REQ" => ~Holds(queue', {"ASSOC_REQ"})
      BY <2>3, <3>5
    <3>7. AllTo(queue', {"AUTH_REQ"}, bssid) /\ AllTo(queue', {"ASSOC_REQ"}, bssid)
      <4>1. AllTo(queue, {"ASSOC_REQ"}, bssid)
        BY <3>3, <3>5, HoldsFacts
      <4>2. \A T, a : AllTo(queue, T, a) /\ p.ap = a => AllTo(queue', T, a)
        BY <2>1 DEF Shift
      <4> QED BY <3>5, <4>1, <4>2
    <3>8. p.type = "ASSOC_REQ" => Holds(queue', {"ASSOC_REQ"}) /\ Regranted(queue')
      BY <2>1 DEF Shift
    <3> QED BY <3>6, <3>7, <3>8 DEF Joining, Authenticating, Associating, auxVars
  <2>8. Scans'
    <3>1. ScanAwaited => ScanAwaited'
      BY <2>3 DEF ScanAwaited
    <3>2. ScanAwaited /\ FlagAwaited => FlagAwaited'
      BY <2>2 DEF ScanAwaited, FlagAwaited, threadVars, scanVars
    <3> QED BY <2>1, <3>1, <3>2 DEF Body, Scans, Misscanned, threadVars
  <2> QED BY <2>5, <2>6, <2>7, <2>8 DEF Body
<1> QED BY <1>2, <1>3 DEF IInv


\* The next candidate, or none.
LEMMA IterateTypes ==
  ASSUME Types, cntl \in {"WAIT_JOIN", "WAIT_AUTH", "WAIT_AUTH2", "WAIT_ASSOC"},
         IterateOnBssTab(tab, NextCandidate(idx)),
         UNCHANGED <<bssid, alg, tab, autoSsid, user, accepted>>
  PROVE  AuxTypes' /\ \E p : Sends(p) /\ Begins(p)
<1>1. idx + 1 \in Nat /\ idx + 1 \in 0..Cardinality(AP)
  BY Counts DEF Types, AuxTypes
<1>2. idx' = idx + 1
  BY DEF IterateOnBssTab, NextCandidate
<1>3. \E p : Sends(p) /\ Begins(p)
  BY <1>1, CntlMessages, NoMessage DEF IterateOnBssTab, NextCandidate, Sends, Begins
<1>4. cntl' \in {"WAIT_JOIN", "WAIT_AUTH", "WAIT_AUTH2", "WAIT_ASSOC"} => idx' < Len(tab')
  BY DEF IterateOnBssTab, NextCandidate
<1> QED BY <1>1, <1>2, <1>3, <1>4 DEF Types, AuxTypes

LEMMA JoinProcStep ==
  ASSUME IInv, CntlWaitJoinProc
  PROVE  IInv'
<1>1. /\ queue # <<>> /\ Elem.machine = "CNTL" /\ Elem.type = "JOIN_CONF" /\ cntl = "WAIT_JOIN"
      /\ UNCHANGED <<sync, auth, assoc, bssid, alg, tab, autoSsid, linkVars, scanVars,
                     threadVars, crossed, accepted>>
      /\ misled' = IF Queued("SYNC", "JOIN_REQ") THEN misled \cup {"JOIN_CONF"} ELSE misled
      /\ \/ cntl' = "WAIT_AUTH" /\ Reply(<<Msg("AUTH", "AUTH_REQ", bssid, FirstAlg)>>) /\ idx' = idx
         \/ IterateOnBssTab(tab, NextCandidate(idx))
  BY DEF CntlWaitJoinProc, Handle, Elem, Misled, AskAuth
<1>2. Types
  BY DEF IInv
<1>3. CASE /\ cntl' = "WAIT_AUTH" /\ Reply(<<Msg("AUTH", "AUTH_REQ", bssid, FirstAlg)>>)
           /\ idx' = idx
  <2> DEFINE p == Msg("AUTH", "AUTH_REQ", bssid, FirstAlg)
  <2>1. FirstAlg \in {"OPEN", "KEY"}
    BY DEF FirstAlg
  <2>2. p \in Message /\ p.type = "AUTH_REQ" /\ p.ap = bssid /\ Reply(<<p>>)
    BY <1>2, <1>3, <2>1, CntlMessages
  <2>3. misled' = IF cntl = "WAIT_JOIN" /\ Holds(queue, {"JOIN_REQ"})
                  THEN misled \cup {"JOIN_CONF"} ELSE misled
    BY <1>1, <1>2, QueuedHolds DEF Types, SyncTypes
  <2>4. UNCHANGED auxVars
    BY <1>1, <1>3 DEF auxVars
  <2> HIDE DEF p
  <2> QED BY <1>1, <1>3, <2>2, <2>3, <2>4, AsksKeeps
<1>4. CASE IterateOnBssTab(tab, NextCandidate(idx))
  <2>1. AuxTypes' /\ \E p : Sends(p) /\ Begins(p)
    BY <1>1, <1>2, <1>4, IterateTypes DEF threadVars
  <2>2. LinkTypes' /\ BSS_SCAN_IN_PROGRESS' = BSS_SCAN_IN_PROGRESS
    BY <1>1, <1>2 DEF Types, LinkTypes, linkVars, scanVars
  <2>3. misled \subseteq misled'
    BY <1>1
  <2> QED BY <1>1, <2>1, <2>2, <2>3, BeginsKeeps
<1> QED BY <1>1, <1>3, <1>4

LEMMA AuthProcStep ==
  ASSUME IInv, CntlWaitAuthProc \/ CntlWaitAuthProc2
  PROVE  IInv'
<1>1. /\ queue # <<>> /\ Elem.machine = "CNTL" /\ Elem.type = "AUTH_CONF"
      /\ cntl \in {"WAIT_AUTH", "WAIT_AUTH2"}
      /\ UNCHANGED <<sync, auth, assoc, bssid, alg, tab, autoSsid, linkVars, scanVars,
                     threadVars, crossed, misled, accepted>>
      /\ \/ AskAssoc
         \/ AskAuth(FirstAlg, "WAIT_AUTH2") /\ idx' = idx
         \/ AskAuth("OPEN", "WAIT_AUTH2") /\ idx' = idx
         \/ IterateOnBssTab(tab, NextCandidate(idx))
  BY DEF CntlWaitAuthProc, CntlWaitAuthProc2, Handle, Elem, histVars
<1>2. Types
  BY DEF IInv
<1>3. FirstAlg \in {"OPEN", "KEY"}
  BY DEF FirstAlg
<1>4. CASE \/ AskAssoc
           \/ AskAuth(FirstAlg, "WAIT_AUTH2") /\ idx' = idx
           \/ AskAuth("OPEN", "WAIT_AUTH2") /\ idx' = idx
  <2>1. UNCHANGED auxVars
    BY <1>1, <1>4 DEF auxVars, AskAssoc
  <2>2. PICK p \in Message :
          /\ Reply(<<p>>) /\ p.ap = bssid
          /\ \/ p.type = "AUTH_REQ" /\ cntl' \in {"WAIT_AUTH", "WAIT_AUTH2"}
             \/ p.type = "ASSOC_REQ" /\ cntl' = "WAIT_ASSOC"
    BY <1>2, <1>3, <1>4, CntlMessages DEF AskAssoc, AskAuth
  <2> QED BY <1>1, <2>1, <2>2, AsksKeeps
<1>5. CASE IterateOnBssTab(tab, NextCandidate(idx))
  <2>1. AuxTypes' /\ \E p : Sends(p) /\ Begins(p)
    BY <1>1, <1>2, <1>5, IterateTypes DEF threadVars
  <2>2. LinkTypes' /\ BSS_SCAN_IN_PROGRESS' = BSS_SCAN_IN_PROGRESS
    BY <1>1, <1>2 DEF Types, LinkTypes, linkVars, scanVars
  <2> QED BY <1>1, <2>1, <2>2, BeginsKeeps
<1> QED BY <1>1, <1>4, <1>5

\* The link comes up, or the next candidate is tried.
LEMMA AssocProcStep ==
  ASSUME IInv, CntlWaitAssocProc
  PROVE  IInv'
<1>1. /\ queue # <<>> /\ Elem.machine = "CNTL" /\ Elem.type = "ASSOC_CONF" /\ cntl = "WAIT_ASSOC"
      /\ misled' = IF Queued("ASSOC", "ASSOC_REQ") THEN misled \cup {"ASSOC_CONF"} ELSE misled
      /\ UNCHANGED <<sync, auth, assoc, bssid, alg, tab, autoSsid, task, user, crossed, accepted>>
      /\ \/ LinkUp /\ cntl' = "IDLE" /\ Reply(<<>>) /\ idx' = idx
         \/ IterateOnBssTab(tab, NextCandidate(idx)) /\ UNCHANGED <<linkVars, scanVars, armed>>
  BY DEF CntlWaitAssocProc, Handle, Elem, Misled
<1>2. Types
  BY DEF IInv
<1>3. CASE LinkUp /\ cntl' = "IDLE" /\ Reply(<<>>) /\ idx' = idx
  <2>1. /\ Bounded' /\ dropped' = dropped
        /\ Shift(queue, queue', "ASSOC_CONF", Nothing)
    BY <1>1, <1>2, <1>3, RepliedNone DEF Types
  <2>2. /\ BSS_SCAN_IN_PROGRESS' = FALSE /\ link' = bssid /\ PortSecured' = ~Psk
        /\ bConfigChanged' = FALSE
        /\ armed' = (armed \ {"Disassoc"}) \cup (IF Psk THEN {"LinkDown"} ELSE {})
        /\ UNCHANGED <<CurrReqIsFromNdis, ScanTab, Channel>>
    BY <1>3 DEF LinkUp
  <2>3. Types'
    <3>1. MachineTypes'
      BY <1>1, <1>2, <1>3, <2>2 DEF Types, MachineTypes, CntlStates, Timers
    <3>2. AuxTypes'
      BY <1>1, <1>2, <1>3 DEF Types, AuxTypes
    <3>3. Psk \in BOOLEAN
      BY StaMlmeAssumption
    <3>4. LinkTypes'
      BY <1>2, <2>2, <3>3 DEF Types, LinkTypes, AuxTypes
    <3> QED BY <2>1, <3>1, <3>2, <3>4 DEF Types
  <2>4. ASSUME ~Excused' PROVE Body'
    <3>1. Body
      BY <1>1, <2>1, <2>4 DEF IInv, Excused
    <3>2. \A T : Holds(queue, T) => "ASSOC_CONF" \in T \/ Holds(queue', T)
      BY <2>1 DEF Shift
    <3>3. \A T : Holds(queue', T) => Holds(queue, T) \/ "none" \in T
      BY <2>1, NoMessage DEF Shift
    <3>4. ASSUME assoc = "DISASSOC_WAIT_RSP" PROVE Misjoined'
      <4>1. Misjoined \/ Holds(queue, {"ASSOC_REQ"})
        BY <1>1, <3>1, <3>4 DEF Body, Joins, Associating
      <4>2. Holds(queue, {"ASSOC_REQ"}) <=> Queued("ASSOC", "ASSOC_REQ")
        BY <1>2, QueuedHolds DEF Types, AssocTypes
      <4> QED BY <1>1, <4>1, <4>2 DEF Misjoined
    <3>5. Timed'
      BY <1>1, <2>2, <3>1, <3>2, <3>4 DEF Body, Timed, Coming
    <3>6. Backed' /\ Joins'
      BY <1>3 DEF Backed, Joins, Joining, Authenticating, Associating
    <3>7. Scans'
      <4>1. ScanAwaited => ScanAwaited'
        BY <1>1, <3>3 DEF ScanAwaited
      <4>2. FlagAwaited'
        BY <2>2 DEF FlagAwaited
      <4> QED BY <1>1, <3>1, <4>1, <4>2 DEF Body, Scans, Misscanned
    <3> QED BY <3>5, <3>6, <3>7 DEF Body
  <2> QED BY <2>3, <2>4 DEF IInv
<1>4. CASE IterateOnBssTab(tab, NextCandidate(idx)) /\ UNCHANGED <<linkVars, scanVars, armed>>
  <2>1. AuxTypes' /\ \E p : Sends(p) /\ Begins(p)
    BY <1>1, <1>2, <1>4, IterateTypes
  <2>2. LinkTypes' /\ BSS_SCAN_IN_PROGRESS' = BSS_SCAN_IN_PROGRESS
    BY <1>2, <1>4 DEF Types, LinkTypes, linkVars, scanVars
  <2>3. misled \subseteq misled' /\ UNCHANGED threadVars
    BY <1>1, <1>4 DEF threadVars
  <2> QED BY <1>1, <2>1, <2>2, <2>3, BeginsKeeps
<1> QED BY <1>1, <1>3, <1>4

\* What is left to show of a step of which nobody waits.
LEMMA QuietKeeps ==
  ASSUME IInv, UNCHANGED <<cntl, sync, auth, assoc, bssid, misled, accepted>>,
         Types', dropped => dropped', crossed \subseteq crossed',
         NEW h, NEW p, ~Excused' => Shift(queue, queue', h, p) /\ Timed',
         h \notin Wanted, p.type \notin Wanted, p.type # "ASSOC_CONF",
         h = "JOIN_CONF" => cntl # "WAIT_JOIN",
         h = "SCAN_CONF" => cntl # "WAIT_OID_LIST_SCAN",
         h = "AUTH_CONF" => cntl \notin {"WAIT_AUTH", "WAIT_AUTH2"},
         h = "ASSOC_CONF" => cntl # "WAIT_ASSOC",
         h = "DISASSOC_CONF" => cntl \notin {"WAIT_DISASSOC", "WAIT_OID_DISASSOC"},
         h = "OID_BSSID_LIST_SCAN" => Excused',
         BSS_SCAN_IN_PROGRESS' => BSS_SCAN_IN_PROGRESS \/ user'.type = "OID_BSSID_LIST_SCAN",
         user.type = "OID_BSSID_LIST_SCAN" =>
           p = user \/ user'.type = "OID_BSSID_LIST_SCAN",
         p # Nothing \/ p.type = "none",
         task = "WAIT_OID_LIST_SCAN" => task' = "WAIT_OID_LIST_SCAN"
  PROVE  IInv'
<1>1. ASSUME ~Excused' PROVE Body'
  <2>1. Body
    BY <1>1 DEF IInv, Excused
  <2> QED BY <1>1, <2>1, QuietStep
<1> QED BY <1>1 DEF IInv

LEMMA CntlDropStep ==
  ASSUME IInv, CntlDrop
  PROVE  IInv'
<1>1. /\ queue # <<>> /\ Elem.machine = "CNTL" /\ ~CntlTakes(Elem.type) /\ Reply(<<>>)
      /\ crossed' = IF Elem.type \in Requests THEN crossed \cup {Elem.type} ELSE crossed
      /\ UNCHANGED <<machineVars, auxVars, linkVars, scanVars, threadVars, misled, accepted>>
  BY DEF CntlDrop
<1>2. /\ Bounded' /\ dropped' = dropped
      /\ Shift(queue, queue', Elem.type, Nothing)
  BY <1>1, RepliedNone DEF IInv, Types
<1>3. Types'
  <2>1. MachineTypes' /\ LinkTypes'
    BY <1>1 DEF IInv, Types, MachineTypes, LinkTypes, linkVars, scanVars, machineVars, threadVars
  <2>2. AuxTypes'
    BY <1>1 DEF IInv, Types, AuxTypes, auxVars, threadVars, machineVars
  <2> QED BY <1>2, <2>1, <2>2 DEF Types
<1>4. Elem.type \in CntlTypes
  BY <1>1, InHand, MachineOfType DEF IInv, Types
<1>5. /\ Elem.type = "JOIN_CONF" => cntl # "WAIT_JOIN"
      /\ Elem.type = "SCAN_CONF" => cntl # "WAIT_OID_LIST_SCAN"
      /\ Elem.type = "AUTH_CONF" => cntl \notin {"WAIT_AUTH", "WAIT_AUTH2"}
      /\ Elem.type = "ASSOC_CONF" => cntl # "WAIT_ASSOC"
      /\ Elem.type = "DISASSOC_CONF" => cntl \notin {"WAIT_DISASSOC", "WAIT_OID_DISASSOC"}
  BY <1>1, <1>4 DEF CntlTakes
<1>6. Elem.type = "OID_BSSID_LIST_SCAN" => Excused'
  BY <1>1 DEF Excused, Requests
<1>7. Elem.type \notin Wanted
  BY <1>4 DEF CntlTypes, Requests, Wanted
<1>8. ~Excused' => Timed'
  <2> SUFFICES ASSUME Body PROVE Timed'
    BY <1>1, <1>2 DEF IInv, Excused
  <2>1. \A T : Holds(queue, T) => Elem.type \in T \/ Holds(queue', T)
    BY <1>2 DEF Shift
  <2> QED BY <1>1, <1>4, <2>1 DEF Body, Timed, Coming, Misjoined, threadVars, machineVars,
             CntlTypes, Requests
<1>9. "none" \notin Wanted
  BY DEF Wanted
<1> QED BY <1>1, <1>2, <1>3, <1>5, <1>6, <1>7, <1>8, <1>9, NoMessage, QuietKeeps
        DEF machineVars, auxVars, scanVars, threadVars

LEMMA DropStep ==
  ASSUME IInv, Drop
  PROVE  IInv'
<1>1. /\ queue # <<>> /\ Reply(<<>>)
      /\ \/ Elem.machine = "SYNC" /\ ~SyncTakes(Elem.type)
         \/ Elem.machine = "AUTH" /\ ~AuthTakes(Elem.type)
         \/ Elem.machine = "ASSOC" /\ ~AssocTakes(Elem.type)
      /\ UNCHANGED <<machineVars, auxVars, linkVars, scanVars, threadVars,
                     crossed, misled, accepted>>
  BY DEF Drop, histVars
<1>2. /\ Bounded' /\ dropped' = dropped
      /\ Shift(queue, queue', Elem.type, Nothing)
  BY <1>1, RepliedNone DEF IInv, Types
<1>3. Types'
  <2>1. MachineTypes' /\ LinkTypes'
    BY <1>1 DEF IInv, Types, MachineTypes, LinkTypes, linkVars, scanVars, machineVars, threadVars
  <2>2. AuxTypes'
    BY <1>1 DEF IInv, Types, AuxTypes, auxVars, threadVars, machineVars
  <2> QED BY <1>2, <2>1, <2>2 DEF Types
<1>4. \/ Elem.type \in SyncTypes /\ ~SyncTakes(Elem.type)
      \/ Elem.type \in AuthTypes /\ ~AuthTakes(Elem.type)
      \/ Elem.type \in AssocTypes /\ ~AssocTakes(Elem.type)
  BY <1>1, InHand, MachineOfType DEF IInv, Types
<1>5. /\ Elem.type \notin CntlTypes /\ Elem.type \notin Wanted
      /\ Elem.type = "SCAN_TIMEOUT" => sync # "SCAN_LISTEN"
      /\ Elem.type = "BEACON_TIMEOUT" => sync # "JOIN_WAIT_BEACON"
      /\ Elem.type = "ASSOC_TIMEOUT" => assoc # "WAIT_RSP"
      /\ Elem.type = "DISASSOC_TIMEOUT" => assoc # "DISASSOC_WAIT_RSP"
  <2>1. CASE Elem.type \in SyncTypes /\ ~SyncTakes(Elem.type)
    BY <2>1 DEF SyncTypes, SyncTakes, CntlTypes, Requests, Wanted
  <2>2. CASE Elem.type \in AuthTypes /\ ~AuthTakes(Elem.type)
    BY <2>2 DEF AuthTypes, AuthTakes, CntlTypes, Requests, Wanted
  <2>3. CASE Elem.type \in AssocTypes /\ ~AssocTakes(Elem.type)
    BY <2>3 DEF AssocTypes, AssocTakes, CntlTypes, Requests, Wanted
  <2> QED BY <1>4, <2>1, <2>2, <2>3
<1>6. ~Excused' => Timed'
  <2> SUFFICES ASSUME Body PROVE Timed'
    BY <1>1, <1>2 DEF IInv, Excused
  <2>1. \A T : Holds(queue, T) => Elem.type \in T \/ Holds(queue', T)
    BY <1>2 DEF Shift
  <2> QED BY <1>1, <1>5, <2>1 DEF Body, Timed, Coming, Misjoined, threadVars, machineVars
<1>7. "none" \notin Wanted
  BY DEF Wanted
<1>8. Elem.type \notin Requests /\ Elem.type \notin
        {"JOIN_CONF", "SCAN_CONF", "AUTH_CONF", "ASSOC_CONF", "DISASSOC_CONF",
         "OID_BSSID_LIST_SCAN"}
  BY <1>5 DEF CntlTypes, Requests
<1> QED BY <1>1, <1>2, <1>3, <1>5, <1>6, <1>7, <1>8, NoMessage, QuietKeeps
        DEF machineVars, auxVars, scanVars, threadVars

----------------------------------------------------------------------------
(* The synchronisation machine. *)

LEMMA SomeConf ==
  ASSUME NEW type \in {"SCAN_CONF", "JOIN_CONF", "AUTH_CONF", "ASSOC_CONF", "DISASSOC_CONF"},
         NEW ok \in Arg
  PROVE  /\ Conf(type, ok) \in Message
         /\ Conf(type, ok).type = type /\ Conf(type, ok).arg = ok
         /\ Conf(type, ok) # Nothing
<1>1. type \in CntlTypes /\ Carries(Conf(type, ok))
  BY Fields DEF CntlTypes, Conf, Carries
<1>2. Conf(type, ok) \in Message
  BY <1>1, Args, Messages DEF Conf
<1> QED BY <1>2, Fields, NoMessage DEF Conf

\* A scan is begun, goes on or ends.
LEMMA ScanStep ==
  ASSUME Body, UNCHANGED <<cntl, auth, assoc, bssid, misled, accepted, task, user>>,
         NEW h, NEW p, Shift(queue, queue', h, p),
         h = "SCAN_REQ" \/ (h = "SCAN_TIMEOUT" /\ sync = "SCAN_LISTEN"),
         h = "SCAN_REQ" => Holds(queue, {"SCAN_REQ"}),
         queue' \in Seq(Message), queue \in Seq(Message),
         armed \ {"Scan", "Beacon"} \subseteq armed',
         \/ sync' = "SCAN_LISTEN" /\ "Scan" \in armed' /\ p = Nothing
         \/ sync' = "IDLE" /\ p # Nothing /\ p.type = "SCAN_CONF"
  PROVE  Body'
<1>1. \A T : Holds(queue, T) => h \in T \/ Holds(queue', T)
  BY DEF Shift
<1>2. p.type = "SCAN_CONF" \/ p.type = "none"
  BY NoMessage
<1>3. \A T : Holds(queue', T) => p.type \in T \/ Holds(queue, T)
  BY DEF Shift
<1>4. \A S, T : Followed(queue, S, T) /\ p.type \notin S => Followed(queue', S, T)
  BY DEF Shift
<1>5. p.type = "SCAN_CONF" => Holds(queue', {"SCAN_CONF"})
  BY <1>2, NoMessage DEF Shift
<1>6. \A S, T : Followed(queue', S, T) /\ Holds(queue', S) => Holds(queue', T)
  BY FollowedHolds
<1>7. Timed'
  BY <1>1 DEF Body, Timed, Coming, Misjoined
<1>8. Backed'
  <2>1. (cntl = "WAIT_JOIN" =>
           \/ Pending("JOIN_REQ", "SCAN_REQ")
           \/ sync = "JOIN_WAIT_BEACON" /\ ~Holds(queue, {"SCAN_REQ"})
           \/ Holds(queue, {"JOIN_CONF"}))'
    BY <1>1, <1>2, <1>4 DEF Body, Backed, Pending
  <2>2. (cntl = "WAIT_OID_LIST_SCAN" =>
           \/ Pending("SCAN_REQ", "JOIN_REQ")
           \/ sync = "SCAN_LISTEN" /\ ~Holds(queue, {"JOIN_REQ"})
           \/ Holds(queue, {"SCAN_CONF"}))'
    <3> SUFFICES ASSUME cntl = "WAIT_OID_LIST_SCAN", ~Holds(queue', {"SCAN_CONF"})
                 PROVE  Pending("SCAN_REQ", "JOIN_REQ")'
                          \/ (sync' = "SCAN_LISTEN" /\ ~Holds(queue', {"JOIN_REQ"}))
      OBVIOUS
    <3>1. sync' = "SCAN_LISTEN" /\ p.type = "none"
      BY <1>2, <1>5, NoMessage
    <3>2. CASE Pending("SCAN_REQ", "JOIN_REQ")
      <4>1. Followed(queue', {"JOIN_REQ"}, {"SCAN_REQ"})
        BY <1>4, <3>1, <3>2 DEF Pending
      <4> QED BY <1>6, <3>1, <4>1 DEF Pending
    <3>3. CASE ~Holds(queue, {"JOIN_REQ"})
      BY <1>3, <3>1, <3>3
    <3>4. ~Holds(queue, {"SCAN_CONF"})
      BY <1>1
    <3> QED BY <3>2, <3>3, <3>4 DEF Body, Backed
  <2>3. \A r, o : Pending(r, o) /\ r # h /\ o # p.type => Pending(r, o)'
    BY <1>1, <1>4 DEF Pending
  <2>4. \A t : ~Holds(queue, {t}) /\ t # p.type => ~Holds(queue', {t})
    BY <1>3
  <2> QED BY <1>1, <1>2, <2>1, <2>2, <2>3, <2>4 DEF Body, Backed
<1>9. Joins'
  <2>1. \A T, a : AllTo(queue, T, a) /\ p.type \notin T => AllTo(queue', T, a)
    BY DEF Shift
  <2>2. Regranted(queue) => Regranted(queue')
    BY <1>2 DEF Shift
  <2>3. Joining => Joining'
    BY <1>2, <1>4 DEF Joining, Left
  <2>4. Authenticating => Authenticating'
    BY <1>2, <1>3, <2>1 DEF Authenticating
  <2>5. Associating => Associating'
    BY <1>1, <2>2 DEF Associating
  <2> QED BY <2>3, <2>4, <2>5 DEF Body, Joins, Misjoined
<1>10. Scans'
  <2>1. ScanAwaited => ScanAwaited'
    BY <1>2, <1>3, <1>4 DEF ScanAwaited
  <2>2. ScanAwaited => cntl = "WAIT_OID_LIST_SCAN"
    BY DEF ScanAwaited
  <2>3. ScanAwaited => FlagAwaited'
    BY <1>5, <2>2 DEF FlagAwaited
  <2> QED BY <2>1, <2>3 DEF Body, Scans, Misscanned
<1> QED BY <1>7, <1>8, <1>9, <1>10 DEF Body

\* A handler of the synchronisation machine, with what it does to a scan.
LEMMA ScanKeeps ==
  ASSUME IInv, UNCHANGED <<cntl, auth, assoc, auxVars, linkVars, ScanTab, task, user, histVars>>,
         queue # <<>>,
         Elem.type = "SCAN_REQ" \/ (Elem.type = "SCAN_TIMEOUT" /\ sync = "SCAN_LISTEN"),
         armed \ {"Scan", "Beacon"} \subseteq armed', armed' \subseteq Timers,
         Channel' \in 0..NChan, BSS_SCAN_IN_PROGRESS' \in BOOLEAN,
         \/ sync' = "SCAN_LISTEN" /\ "Scan" \in armed' /\ Reply(<<>>)
         \/ sync' = "IDLE" /\ \E ok \in BOOLEAN : Reply(<<Conf("SCAN_CONF", ok)>>)
  PROVE  IInv'
<1>1. PICK p : /\ Sends(p)
               /\ \/ sync' = "SCAN_LISTEN" /\ "Scan" \in armed' /\ p = Nothing
                  \/ sync' = "IDLE" /\ p # Nothing /\ p.type = "SCAN_CONF"
  <2>1. CASE sync' = "SCAN_LISTEN" /\ "Scan" \in armed' /\ Reply(<<>>)
    BY <2>1 DEF Sends
  <2>2. CASE sync' = "IDLE" /\ \E ok \in BOOLEAN : Reply(<<Conf("SCAN_CONF", ok)>>)
    <3>1. PICK ok \in BOOLEAN : Reply(<<Conf("SCAN_CONF", ok)>>)
      BY <2>2
    <3>2. Conf("SCAN_CONF", ok) \in Message /\ Conf("SCAN_CONF", ok).type = "SCAN_CONF"
          /\ Conf("SCAN_CONF", ok) # Nothing
      BY Args, SomeConf
    <3> QED BY <2>2, <3>1, <3>2 DEF Sends
  <2> QED BY <2>1, <2>2
<1>2. /\ Bounded'
      /\ dropped => dropped'
      /\ ~dropped' => Shift(queue, queue', Elem.type, p)
  BY <1>1, Sent DEF IInv, Types
<1>3. Types'
  <2>1. MachineTypes' /\ LinkTypes'
    BY <1>1 DEF IInv, Types, MachineTypes, LinkTypes, linkVars
  <2>2. AuxTypes'
    BY DEF IInv, Types, AuxTypes, auxVars, histVars
  <2> QED BY <1>2, <2>1, <2>2 DEF Types
<1>4. ASSUME ~Excused' PROVE Body'
  <2>1. Body /\ Shift(queue, queue', Elem.type, p)
    BY <1>2, <1>4 DEF IInv, Excused, histVars
  <2>2. queue \in Seq(Message) /\ queue' \in Seq(Message)
    BY <1>2 DEF IInv, Types, Bounded
  <2>3. Elem.type = "SCAN_REQ" => Holds(queue, {"SCAN_REQ"})
    BY <2>2, HoldsFacts DEF Elem
  <2> QED BY <1>1, <2>1, <2>2, <2>3, ScanStep DEF auxVars, histVars
<1> QED BY <1>3, <1>4 DEF IInv

LEMMA NextChannelTypes ==
  ASSUME NEW c \in 0..NChan, NEW q, ScanNextChannel(c, q), MachineTypes
  PROVE  /\ Channel' \in 0..NChan /\ BSS_SCAN_IN_PROGRESS' \in BOOLEAN
         /\ armed \ {"Scan", "Beacon"} \subseteq armed' /\ armed' \subseteq Timers
         /\ \/ sync' = "SCAN_LISTEN" /\ "Scan" \in armed' /\ Post(q, <<>>)
            \/ sync' = "IDLE" /\ \E ok \in BOOLEAN : Post(q, <<Conf("SCAN_CONF", ok)>>)
BY DEF ScanNextChannel, MachineTypes, SetTimer, Timers

LEMMA ScanReqStep ==
  ASSUME IInv, MlmeScanReqAction \/ ScanTimeoutAction
  PROVE  IInv'
<1>1. PICK c \in 0..NChan :
        /\ ScanNextChannel(c, Tail(queue)) /\ queue # <<>>
        /\ Elem.type = "SCAN_REQ" \/ (Elem.type = "SCAN_TIMEOUT" /\ sync = "SCAN_LISTEN")
        /\ UNCHANGED <<cntl, auth, assoc, auxVars, linkVars, ScanTab, task, user, histVars>>
  <2>1. NChan \in Nat \ {0} /\ Channel \in 0..NChan
    BY StaMlmeAssumption DEF IInv, Types, LinkTypes
  <2>2. 1 \in 0..NChan /\ (Channel + 1) % (NChan + 1) \in 0..NChan
    BY <2>1
  <2> QED BY <2>2 DEF MlmeScanReqAction, ScanTimeoutAction, Handle, Elem
<1>2. /\ Channel' \in 0..NChan /\ BSS_SCAN_IN_PROGRESS' \in BOOLEAN
      /\ armed \ {"Scan", "Beacon"} \subseteq armed' /\ armed' \subseteq Timers
      /\ \/ sync' = "SCAN_LISTEN" /\ "Scan" \in armed' /\ Reply(<<>>)
         \/ sync' = "IDLE" /\ \E ok \in BOOLEAN : Reply(<<Conf("SCAN_CONF", ok)>>)
  BY <1>1, NextChannelTypes DEF IInv, Types, Reply
<1> QED BY <1>1, <1>2, ScanKeeps

\* An access point waits to be joined, or no longer.
LEMMA JoinStep ==
  ASSUME Body, UNCHANGED <<cntl, auth, assoc, misled, accepted, task, user, BSS_SCAN_IN_PROGRESS>>,
         NEW h, NEW p, Shift(queue, queue', h, p),
         h = "JOIN_REQ" \/ (h \in {"BEACON_TIMEOUT", "PEER_BEACON"} /\ sync = "JOIN_WAIT_BEACON"),
         h = "JOIN_REQ" => Holds(queue, {"JOIN_REQ"}),
         h # "JOIN_REQ" => bssid' = bssid,
         queue' \in Seq(Message), queue \in Seq(Message),
         armed \ {"Scan", "Beacon"} \subseteq armed',
         \/ sync' = "JOIN_WAIT_BEACON" /\ "Beacon" \in armed' /\ p = Nothing
         \/ sync' = "IDLE" /\ p # Nothing /\ p.type = "JOIN_CONF"
  PROVE  Body'
<1>1. \A T : Holds(queue, T) => h \in T \/ Holds(queue', T)
  BY DEF Shift
<1>2. p.type = "JOIN_CONF" \/ p.type = "none"
  BY NoMessage
<1>3. \A T : Holds(queue', T) => p.type \in T \/ Holds(queue, T)
  BY DEF Shift
<1>4. \A S, T : Followed(queue, S, T) /\ p.type \notin S => Followed(queue', S, T)
  BY DEF Shift
<1>5. p.type = "JOIN_CONF" => Holds(queue', {"JOIN_CONF"})
  BY <1>2, NoMessage DEF Shift
<1>6. \A S, T : Followed(queue', S, T) /\ Holds(queue', S) => Holds(queue', T)
  BY FollowedHolds
<1>7. Timed'
  BY <1>1 DEF Body, Timed, Coming, Misjoined
<1>8. Backed'
  <2>1. (cntl = "WAIT_OID_LIST_SCAN" =>
           \/ Pending("SCAN_REQ", "JOIN_REQ")
           \/ sync = "SCAN_LISTEN" /\ ~Holds(queue, {"JOIN_REQ"})
           \/ Holds(queue, {"SCAN_CONF"}))'
    BY <1>1, <1>2, <1>4 DEF Body, Backed, Pending
  <2>2. (cntl = "WAIT_JOIN" =>
           \/ Pending("JOIN_REQ", "SCAN_REQ")
           \/ sync = "JOIN_WAIT_BEACON" /\ ~Holds(queue, {"SCAN_REQ"})
           \/ Holds(queue, {"JOIN_CONF"}))'
    <3> SUFFICES ASSUME cntl = "WAIT_JOIN", ~Holds(queue', {"JOIN_CONF"})
                 PROVE  Pending("JOIN_REQ", "SCAN_REQ")'
                          \/ (sync' = "JOIN_WAIT_BEACON" /\ ~Holds(queue', {"SCAN_REQ"}))
      OBVIOUS
    <3>1. sync' = "JOIN_WAIT_BEACON" /\ p.type = "none"
      BY <1>2, <1>5, NoMessage
    <3>2. CASE Pending("JOIN_REQ", "SCAN_REQ")
      <4>1. Followed(queue', {"SCAN_REQ"}, {"JOIN_REQ"})
        BY <1>4, <3>1, <3>2 DEF Pending
      <4> QED BY <1>6, <3>1, <4>1 DEF Pending
    <3>3. CASE ~Holds(queue, {"SCAN_REQ"})
      BY <1>3, <3>1, <3>3
    <3>4. ~Holds(queue, {"JOIN_CONF"})
      BY <1>1
    <3> QED BY <3>2, <3>3, <3>4 DEF Body, Backed
  <2>3. \A r, o : Pending(r, o) /\ r # h /\ o # p.type => Pending(r, o)'
    BY <1>1, <1>4 DEF Pending
  <2>4. \A t : ~Holds(queue, {t}) /\ t # p.type => ~Holds(queue', {t})
    BY <1>3
  <2> QED BY <1>1, <1>2, <2>1, <2>2, <2>3, <2>4 DEF Body, Backed
<1>9. Joins'
  <2>1. \A T, a : AllTo(queue, T, a) /\ p.type \notin T => AllTo(queue', T, a)
    BY DEF Shift
  <2>2. Regranted(queue) => Regranted(queue')
    BY <1>2 DEF Shift
  <2>3. Joining => Joining'
    BY <1>2, <1>4 DEF Joining, Left
  <2>4. Authenticating => Authenticating'
    BY <1>2, <1>3, <2>1 DEF Authenticating
  <2>5. Authenticating /\ Associating => Associating'
    BY <1>1, <2>2 DEF Authenticating, Associating
  <2> QED BY <2>3, <2>4, <2>5 DEF Body, Joins, Misjoined
<1>10. Scans'
  <2>1. ScanAwaited => ScanAwaited'
    BY <1>2, <1>3, <1>4 DEF ScanAwaited
  <2>2. ScanAwaited /\ sync = "SCAN_LISTEN" => Holds(queue, {"SCAN_REQ"})
    BY FollowedHolds DEF ScanAwaited
  <2>3. ScanAwaited /\ FlagAwaited => FlagAwaited'
    BY <1>1, <2>2 DEF FlagAwaited
  <2> QED BY <2>1, <2>3 DEF Body, Scans, Misscanned
<1> QED BY <1>7, <1>8, <1>9, <1>10 DEF Body

LEMMA JoinKeeps ==
  ASSUME IInv, UNCHANGED <<cntl, auth, assoc, alg, tab, idx, autoSsid, linkVars, scanVars, task,
                           user, histVars>>,
         queue # <<>>, bssid' \in Peer, Elem.type # "JOIN_REQ" => bssid' = bssid,
         \/ Elem.type = "JOIN_REQ"
         \/ Elem.type \in {"BEACON_TIMEOUT", "PEER_BEACON"} /\ sync = "JOIN_WAIT_BEACON",
         armed \ {"Scan", "Beacon"} \subseteq armed', armed' \subseteq Timers,
         \/ sync' = "JOIN_WAIT_BEACON" /\ "Beacon" \in armed' /\ Reply(<<>>)
         \/ sync' = "IDLE" /\ \E ok \in BOOLEAN : Reply(<<Conf("JOIN_CONF", ok)>>)
  PROVE  IInv'
<1>1. PICK p : /\ Sends(p)
               /\ \/ sync' = "JOIN_WAIT_BEACON" /\ "Beacon" \in armed' /\ p = Nothing
                  \/ sync' = "IDLE" /\ p # Nothing /\ p.type = "JOIN_CONF"
  <2>1. CASE sync' = "JOIN_WAIT_BEACON" /\ "Beacon" \in armed' /\ Reply(<<>>)
    BY <2>1 DEF Sends
  <2>2. CASE sync' = "IDLE" /\ \E ok \in BOOLEAN : Reply(<<Conf("JOIN_CONF", ok)>>)
    <3>1. PICK ok \in BOOLEAN : Reply(<<Conf("JOIN_CONF", ok)>>)
      BY <2>2
    <3>2. Conf("JOIN_CONF", ok) \in Message /\ Conf("JOIN_CONF", ok).type = "JOIN_CONF"
          /\ Conf("JOIN_CONF", ok) # Nothing
      BY Args, SomeConf
    <3> QED BY <2>2, <3>1, <3>2 DEF Sends
  <2> QED BY <2>1, <2>2
<1>2. /\ Bounded'
      /\ dropped => dropped'
      /\ ~dropped' => Shift(queue, queue', Elem.type, p)
  BY <1>1, Sent DEF IInv, Types
<1>3. Types'
  <2>1. MachineTypes' /\ LinkTypes'
    BY <1>1 DEF IInv, Types, MachineTypes, LinkTypes, linkVars, scanVars
  <2>2. AuxTypes'
    BY DEF IInv, Types, AuxTypes, histVars
  <2> QED BY <1>2, <2>1, <2>2 DEF Types
<1>4. ASSUME ~Excused' PROVE Body'
  <2>1. Body /\ Shift(queue, queue', Elem.type, p)
    BY <1>2, <1>4 DEF IInv, Excused, histVars
  <2>2. queue \in Seq(Message) /\ queue' \in Seq(Message)
    BY <1>2 DEF IInv, Types, Bounded
  <2>3. Elem.type = "JOIN_REQ" => Holds(queue, {"JOIN_REQ"})
    BY <2>2, HoldsFacts DEF Elem
  <2> QED BY <1>1, <2>1, <2>2, <2>3, JoinStep DEF scanVars, histVars
<1> QED BY <1>3, <1>4 DEF IInv

LEMMA JoinReqStep ==
  ASSUME IInv, MlmeJoinReqAction
  PROVE  IInv'
<1>1. /\ queue # <<>> /\ Elem.type = "JOIN_REQ" /\ bssid' = Candidate(tab, Elem.arg)
      /\ armed' = (armed \ {"Scan"}) \cup {"Beacon"}
      /\ sync' = "JOIN_WAIT_BEACON" /\ Reply(<<>>)
      /\ UNCHANGED <<cntl, auth, assoc, alg, tab, idx, autoSsid, linkVars, scanVars,
                     task, user, histVars>>
  BY DEF MlmeJoinReqAction, Handle, Elem, SetTimer
<1>2. bssid' \in Peer
  <2>1. Elem.arg \in Nat
    BY <1>1, InHand, MachineOfType DEF IInv, Types, Carries
  <2>2. Elem.arg < Len(tab) => Elem.arg + 1 \in 1..Len(tab)
    BY <2>1, Counts DEF IInv
  <2>3. \A i \in 1..Len(tab) : tab[i] \in AP
    BY ElementOfSeq DEF IInv, Types, AuxTypes
  <2> QED BY <1>1, <2>2, <2>3 DEF Candidate, Peer
<1>3. armed \ {"Scan", "Beacon"} \subseteq armed' /\ armed' \subseteq Timers /\ "Beacon" \in armed'
  BY <1>1 DEF IInv, Types, MachineTypes, Timers
<1> QED BY <1>1, <1>2, <1>3, JoinKeeps

LEMMA JoinEndStep ==
  ASSUME IInv, \/ BeaconTimeoutAtJoinAction
               \/ PeerBeaconAtJoinAction /\ Elem.ap = bssid
               \/ InvalidStateSync /\ Elem.type = "JOIN_REQ"
  PROVE  IInv'
<1>1. /\ queue # <<>> /\ sync' = "IDLE"
      /\ \/ Elem.type = "JOIN_REQ"
         \/ Elem.type \in {"BEACON_TIMEOUT", "PEER_BEACON"} /\ sync = "JOIN_WAIT_BEACON"
      /\ Reply(<<Conf("JOIN_CONF", TRUE)>>) \/ Reply(<<Conf("JOIN_CONF", FALSE)>>)
      /\ armed \ {"Beacon"} \subseteq armed' /\ armed' \subseteq armed
      /\ UNCHANGED <<cntl, auth, assoc, bssid, alg, tab, idx, autoSsid, linkVars, scanVars,
                     task, user, histVars>>
  BY DEF BeaconTimeoutAtJoinAction, PeerBeaconAtJoinAction, InvalidStateSync, Handle, Elem,
     JoinFails, CancelTimer, auxVars, threadVars
<1>2. bssid' \in Peer /\ armed' \subseteq Timers
  BY <1>1 DEF IInv, Types, MachineTypes, AuxTypes
<1>3. \E ok \in BOOLEAN : Reply(<<Conf("JOIN_CONF", ok)>>)
  BY <1>1
<1>4. armed \ {"Scan", "Beacon"} \subseteq armed'
  BY <1>1
<1> QED BY <1>1, <1>2, <1>3, <1>4, JoinKeeps

LEMMA ScanBrokenStep ==
  ASSUME IInv, InvalidStateSync, Elem.type = "SCAN_REQ"
  PROVE  IInv'
<1>1. /\ queue # <<>> /\ sync' = "IDLE" /\ Reply(<<Conf("SCAN_CONF", FALSE)>>)
      /\ UNCHANGED <<cntl, auth, assoc, auxVars, linkVars, ScanTab, task, user, histVars>>
      /\ UNCHANGED <<armed, Channel, BSS_SCAN_IN_PROGRESS>>
  BY DEF InvalidStateSync, Handle, Elem, threadVars, scanVars
<1>2. /\ Channel \in 0..NChan /\ BSS_SCAN_IN_PROGRESS \in BOOLEAN /\ armed \subseteq Timers
  BY DEF IInv, Types, MachineTypes, LinkTypes
<1>3. \E ok \in BOOLEAN : Reply(<<Conf("SCAN_CONF", ok)>>)
  BY <1>1
<1>4. armed \ {"Scan", "Beacon"} \subseteq armed'
  BY <1>1
<1> QED BY <1>1, <1>2, <1>3, <1>4, ScanKeeps

\* A beacon that is not the one awaited.
LEMMA BeaconStep ==
  ASSUME IInv, \/ PeerBeaconAtScanAction
               \/ PeerBeaconAtJoinAction /\ Elem.ap # bssid
  PROVE  IInv'
<1>1. /\ queue # <<>> /\ Elem.type = "PEER_BEACON" /\ Reply(<<>>)
      /\ ScanTab' = ScanTab \/ ScanTab' = ScanTab \cup {Elem.ap}
      /\ UNCHANGED <<machineVars, auxVars, linkVars, BSS_SCAN_IN_PROGRESS, Channel, threadVars,
                     crossed, misled, accepted>>
  BY DEF PeerBeaconAtScanAction, PeerBeaconAtJoinAction, Handle, Elem, machineVars, threadVars,
     scanVars, histVars
<1>2. /\ Bounded' /\ dropped' = dropped
      /\ Shift(queue, queue', "PEER_BEACON", Nothing)
  BY <1>1, RepliedNone DEF IInv, Types
<1>3. Elem.ap \in AP
  BY <1>1, InHand, MachineOfType DEF IInv, Types, Carries
<1>4. Types'
  <2>1. MachineTypes' /\ LinkTypes'
    BY <1>1, <1>3 DEF IInv, Types, MachineTypes, LinkTypes, linkVars, machineVars, threadVars
  <2>2. AuxTypes'
    BY <1>1 DEF IInv, Types, AuxTypes, auxVars, threadVars, machineVars
  <2> QED BY <1>2, <2>1, <2>2 DEF Types
<1>5. ~Excused' => Timed'
  <2> SUFFICES ASSUME Body PROVE Timed'
    BY <1>1, <1>2 DEF IInv, Excused
  <2>1. \A T : Holds(queue, T) => "PEER_BEACON" \in T \/ Holds(queue', T)
    BY <1>2 DEF Shift
  <2> QED BY <1>1, <2>1 DEF Body, Timed, Coming, Misjoined, threadVars, machineVars
<1>6. "none" \notin Wanted /\ "PEER_BEACON" \notin Wanted
  BY DEF Wanted
<1> QED BY <1>1, <1>2, <1>4, <1>5, <1>6, NoMessage, QuietKeeps
        DEF machineVars, auxVars, threadVars

LEMMA SyncStep ==
  ASSUME IInv, \/ MlmeScanReqAction \/ ScanTimeoutAction \/ PeerBeaconAtScanAction
               \/ MlmeJoinReqAction \/ PeerBeaconAtJoinAction \/ BeaconTimeoutAtJoinAction
               \/ InvalidStateSync
  PROVE  IInv'
<1>1. InvalidStateSync => Elem.type = "SCAN_REQ" \/ Elem.type = "JOIN_REQ"
  BY DEF InvalidStateSync, Handle, Elem
<1> QED BY <1>1, ScanReqStep, JoinReqStep, JoinEndStep, ScanBrokenStep, BeaconStep

----------------------------------------------------------------------------
(* The authentication machine. *)

\* The messages of an attempt that is past its join name MlmeAux.Bssid already.
LEMMA AuthStep ==
  ASSUME Body,
         UNCHANGED <<cntl, sync, assoc, misled, accepted, task, user, BSS_SCAN_IN_PROGRESS>>,
         NEW h \in AuthTypes, NEW p, Shift(queue, queue', h, p),
         p = Nothing \/ p.type = "AUTH_CONF",
         auth' # "IDLE" \/ (p # Nothing /\ p.type = "AUTH_CONF"),
         armed \ {"Auth"} \subseteq armed',
         Authenticating /\ cntl \in {"WAIT_AUTH", "WAIT_AUTH2", "WAIT_ASSOC"} => bssid' = bssid
  PROVE  Body'
<1>1. \A T : Holds(queue, T) => h \in T \/ Holds(queue', T)
  BY DEF Shift
<1>2. p.type = "AUTH_CONF" \/ p.type = "none"
  BY NoMessage
<1>3. \A T : Holds(queue', T) => p.type \in T \/ Holds(queue, T)
  BY DEF Shift
<1>4. \A S, T : Followed(queue, S, T) /\ p.type \notin S => Followed(queue', S, T)
  BY DEF Shift
<1>5. p # Nothing /\ p.type = "AUTH_CONF" => Holds(queue', {"AUTH_CONF"})
  BY DEF Shift
<1>6. Timed'
  BY <1>1 DEF Body, Timed, Coming, Misjoined, AuthTypes
<1>7. Backed'
  <2>1. \A r, o : Pending(r, o) /\ r # h /\ o # p.type => Pending(r, o)'
    BY <1>1, <1>4 DEF Pending
  <2>2. \A t : ~Holds(queue, {t}) /\ t # p.type => ~Holds(queue', {t})
    BY <1>3
  <2>3. \A t : Holds(queue, {t}) /\ t # h => Holds(queue', {t})
    BY <1>1
  <2>4. cntl' \in {"WAIT_AUTH", "WAIT_AUTH2"} => auth' # "IDLE" \/ Holds(queue', {"AUTH_CONF"})
    BY <1>5
  <2> QED BY <1>2, <2>1, <2>2, <2>3, <2>4 DEF Body, Backed, AuthTypes
<1>8. Joins'
  <2>1. \A T, a : AllTo(queue, T, a) /\ p.type \notin T => AllTo(queue', T, a)
    BY DEF Shift
  <2>2. Regranted(queue) => Regranted(queue')
    BY <1>2 DEF Shift
  <2>3. Joining => Joining'
    BY <1>2, <1>4 DEF Joining, Left
  <2>4. Authenticating => Authenticating'
    BY <1>2, <1>3, <2>1 DEF Authenticating
  <2>5. Authenticating /\ Associating => Associating'
    BY <1>1, <2>2 DEF Associating, AuthTypes
  <2> QED BY <2>3, <2>4, <2>5 DEF Body, Joins, Misjoined
<1>9. Scans'
  <2>1. ScanAwaited => ScanAwaited'
    BY <1>2, <1>3, <1>4 DEF ScanAwaited
  <2>2. ScanAwaited /\ FlagAwaited => FlagAwaited'
    BY <1>1 DEF FlagAwaited, AuthTypes
  <2> QED BY <2>1, <2>2 DEF Body, Scans, Misscanned
<1> QED BY <1>6, <1>7, <1>8, <1>9 DEF Body

LEMMA AuthKeeps ==
  ASSUME IInv, queue # <<>>, Elem.machine = "AUTH",
         UNCHANGED <<cntl, sync, assoc, tab, idx, autoSsid, linkVars, scanVars, task, user,
                     histVars>>,
         bssid' = bssid \/ (Elem.type = "AUTH_REQ" /\ bssid' = Elem.ap),
         alg' \in {"OPEN", "KEY"}, auth' \in {"IDLE", "WAIT_SEQ2", "WAIT_SEQ4"},
         armed \ {"Auth"} \subseteq armed', armed' \subseteq Timers,
         \/ auth' # "IDLE" /\ Reply(<<>>)
         \/ \E ok \in Arg : LET c == Conf("AUTH_CONF", ok) IN Reply(<<c>>) \/ Reply(<<c, c>>)
  PROVE  IInv'
<1>1. PICK p : /\ Sends(p)
               /\ p = Nothing \/ p.type = "AUTH_CONF"
               /\ auth' # "IDLE" \/ (p # Nothing /\ p.type = "AUTH_CONF")
  <2>1. CASE auth' # "IDLE" /\ Reply(<<>>)
    BY <2>1 DEF Sends
  <2>2. ASSUME NEW ok \in Arg,
               LET c == Conf("AUTH_CONF", ok) IN Reply(<<c>>) \/ Reply(<<c, c>>)
        PROVE  \E p : /\ Sends(p)
                      /\ p = Nothing \/ p.type = "AUTH_CONF"
                      /\ auth' # "IDLE" \/ (p # Nothing /\ p.type = "AUTH_CONF")
    <3> DEFINE c == Conf("AUTH_CONF", ok)
    <3>1. c \in Message /\ c.type = "AUTH_CONF" /\ c # Nothing
      BY SomeConf
    <3>2. Reply(<<c>>) \/ Reply(<<c, c>>)
      BY <2>2
    <3> HIDE DEF c
    <3> QED BY <3>1, <3>2 DEF Sends
  <2> QED BY <2>1, <2>2
<1>2. /\ Bounded'
      /\ dropped => dropped'
      /\ ~dropped' => Shift(queue, queue', Elem.type, p)
  BY <1>1, Sent DEF IInv, Types
<1>3. Elem.ap \in Peer /\ Elem.type \in AuthTypes
  BY InHand, MachineOfType DEF IInv, Types
<1>4. Types'
  <2>1. MachineTypes' /\ LinkTypes'
    BY DEF IInv, Types, MachineTypes, LinkTypes, linkVars, scanVars
  <2>2. AuxTypes'
    BY <1>3 DEF IInv, Types, AuxTypes, histVars
  <2> QED BY <1>2, <2>1, <2>2 DEF Types
<1>5. ASSUME ~Excused' PROVE Body'
  <2>1. Body /\ Shift(queue, queue', Elem.type, p)
    BY <1>2, <1>5 DEF IInv, Excused, histVars
  <2>2. Authenticating /\ cntl \in {"WAIT_AUTH", "WAIT_AUTH2", "WAIT_ASSOC"} => bssid' = bssid
    <3> SUFFICES ASSUME AllTo(queue, {"AUTH_REQ"}, bssid), Elem.type = "AUTH_REQ"
                 PROVE  Elem.ap = bssid
      BY DEF Authenticating
    <3> QED BY HeadTo DEF Elem, IInv, Types, Bounded
  <2> QED BY <1>1, <1>3, <2>1, <2>2, AuthStep DEF scanVars, histVars
<1> QED BY <1>4, <1>5 DEF IInv

LEMMA AuthReqStep ==
  ASSUME IInv, MlmeAuthReqAction
  PROVE  IInv'
<1>1. /\ queue # <<>> /\ Elem.machine = "AUTH" /\ Elem.type = "AUTH_REQ"
      /\ UNCHANGED <<cntl, sync, assoc, tab, idx, autoSsid, linkVars, scanVars, task, user,
                     histVars>>
      /\ \/ bssid' = bssid /\ alg' = alg
         \/ bssid' = Elem.ap /\ alg' = Elem.arg
      /\ armed \ {"Auth"} \subseteq armed' /\ armed' \subseteq armed \cup {"Auth"}
      /\ \/ auth' = "WAIT_SEQ2" /\ Reply(<<>>)
         \/ /\ auth' \in {"WAIT_SEQ2", "IDLE"}
            /\ LET c == Conf("AUTH_CONF", FALSE) IN Reply(<<c>>) \/ Reply(<<c, c>>)
  BY DEF MlmeAuthReqAction, Handle, Elem, CancelTimer, SetTimer
<1>2. alg' \in {"OPEN", "KEY"}
  <2>1. Elem.arg \in {"OPEN", "KEY"} /\ alg \in {"OPEN", "KEY"}
    BY <1>1, InHand, MachineOfType DEF IInv, Types, AuxTypes, Carries
  <2> QED BY <1>1, <2>1
<1>3. armed' \subseteq Timers
  BY <1>1 DEF IInv, Types, MachineTypes, Timers
<1>4. FALSE \in Arg
  BY Args
<1> QED BY <1>1, <1>2, <1>3, <1>4, AuthKeeps

LEMMA AuthAnswerStep ==
  ASSUME IInv, PeerAuthRspAtSeq2Action \/ PeerAuthRspAtSeq4Action \/ AuthFails
  PROVE  IInv'
<1>1. /\ queue # <<>> /\ Elem.machine = "AUTH"
      /\ UNCHANGED <<cntl, sync, assoc, bssid, alg, tab, idx, autoSsid, linkVars, scanVars,
                     task, user, histVars>>
      /\ armed \ {"Auth"} \subseteq armed' /\ armed' \subseteq armed \cup {"Auth"}
      /\ \/ auth' = "WAIT_SEQ4" /\ Reply(<<>>)
         \/ /\ auth' = "IDLE"
            /\ Reply(<<Conf("AUTH_CONF", Elem.arg)>>) \/ Reply(<<Conf("AUTH_CONF", FALSE)>>)
  BY DEF PeerAuthRspAtSeq2Action, PeerAuthRspAtSeq4Action, AuthFails, Handle, Elem, CancelTimer,
     SetTimer, auxVars, threadVars
<1>2. alg' \in {"OPEN", "KEY"} /\ armed' \subseteq Timers
  BY <1>1 DEF IInv, Types, AuxTypes, MachineTypes, Timers
<1>3. FALSE \in Arg /\ Elem.arg \in Arg
  BY <1>1, Args, InHand, MachineOfType DEF IInv, Types
<1> QED BY <1>1, <1>2, <1>3, AuthKeeps

\* The access point ends the link, and nobody here waits for a disassociation.
LEMMA KickedStep ==
  ASSUME IInv, PeerDeauthAction \/ (PeerDisassocAction /\ assoc = "IDLE")
  PROVE  IInv'
<1>1. /\ queue # <<>> /\ Elem.type \in {"PEER_DEAUTH", "PEER_DISASSOC_REQ"} /\ Reply(<<>>)
      /\ LinkDown
      /\ UNCHANGED <<machineVars, auxVars, threadVars, crossed, misled, accepted>>
  BY DEF PeerDeauthAction, PeerDisassocAction, Handle, Elem, machineVars, histVars
<1>2. /\ Bounded' /\ dropped' = dropped
      /\ Shift(queue, queue', Elem.type, Nothing)
  BY <1>1, RepliedNone DEF IInv, Types
<1>3. LinkTypes' /\ BSS_SCAN_IN_PROGRESS' = FALSE
  BY <1>1, LinkDownTypes DEF IInv, Types
<1>4. Types'
  <2>1. MachineTypes'
    BY <1>1 DEF IInv, Types, MachineTypes, machineVars, threadVars
  <2>2. AuxTypes'
    BY <1>1 DEF IInv, Types, AuxTypes, auxVars, threadVars, machineVars
  <2> QED BY <1>2, <1>3, <2>1, <2>2 DEF Types
<1>5. ~Excused' => Timed'
  <2> SUFFICES ASSUME Body PROVE Timed'
    BY <1>1, <1>2 DEF IInv, Excused
  <2>1. \A T : Holds(queue, T) => Elem.type \in T \/ Holds(queue', T)
    BY <1>2 DEF Shift
  <2> QED BY <1>1, <2>1 DEF Body, Timed, Coming, Misjoined, threadVars, machineVars
<1>6. "none" \notin Wanted /\ Elem.type \notin Wanted
  BY <1>1 DEF Wanted
<1> QED BY <1>1, <1>2, <1>3, <1>4, <1>5, <1>6, NoMessage, QuietKeeps
        DEF machineVars, auxVars, threadVars

----------------------------------------------------------------------------
(* The association machine. *)

LEMMA AssocStep ==
  ASSUME Body,
         UNCHANGED <<cntl, sync, auth, misled, task, user, BSS_SCAN_IN_PROGRESS>>,
         queue \in Seq(Message), queue' \in Seq(Message),
         NEW h, NEW p, Shift(queue, queue', h, p),
         \/ h = "ASSOC_REQ" /\ Holds(queue, {"ASSOC_REQ"})
         \/ h \in {"ASSOC_TIMEOUT", "PEER_ASSOC_RSP"} /\ assoc = "WAIT_RSP",
         \/ assoc' = "WAIT_RSP" /\ "Assoc" \in armed' /\ p = Nothing
         \/ assoc' = "IDLE" /\ p # Nothing /\ p.type = "ASSOC_CONF",
         \/ p = Nothing /\ accepted' = accepted
         \/ ~p.arg /\ accepted' = accepted
         \/ accepted' = bssid',
         armed \ {"Assoc"} \subseteq armed',
         Authenticating /\ cntl \in {"WAIT_AUTH", "WAIT_AUTH2", "WAIT_ASSOC"} => bssid' = bssid
  PROVE  Body'
<1>1. \A T : Holds(queue, T) => h \in T \/ Holds(queue', T)
  BY DEF Shift
<1>2. p.type = "ASSOC_CONF" \/ p.type = "none"
  BY NoMessage
<1>3. \A T : Holds(queue', T) => p.type \in T \/ Holds(queue, T)
  BY DEF Shift
<1>4. \A S, T : Followed(queue, S, T) /\ p.type \notin S => Followed(queue', S, T)
  BY DEF Shift
<1>5. p.type = "ASSOC_CONF" => Holds(queue', {"ASSOC_CONF"})
  BY <1>2, NoMessage DEF Shift
<1>6. \A S, T : Followed(queue', S, T) /\ Holds(queue', S) => Holds(queue', T)
  BY FollowedHolds
<1>7. Timed'
  BY <1>1 DEF Body, Timed, Coming, Misjoined
<1>8. Backed'
  <2>1. \A r, o : Pending(r, o) /\ r # h /\ o # p.type => Pending(r, o)'
    BY <1>1, <1>4 DEF Pending
  <2>2. \A t : ~Holds(queue, {t}) /\ t # p.type => ~Holds(queue', {t})
    BY <1>3
  <2>3. \A t : Holds(queue, {t}) /\ t # h => Holds(queue', {t})
    BY <1>1
  <2>4. (cntl = "WAIT_ASSOC" =>
           \/ Pending("ASSOC_REQ", "DISASSOC_REQ")
           \/ assoc = "WAIT_RSP" /\ ~Holds(queue, {"DISASSOC_REQ"})
           \/ Holds(queue, {"ASSOC_CONF"}))'
    <3> SUFFICES ASSUME cntl = "WAIT_ASSOC", ~Holds(queue', {"ASSOC_CONF"})
                 PROVE  Pending("ASSOC_REQ", "DISASSOC_REQ")'
                          \/ (assoc' = "WAIT_RSP" /\ ~Holds(queue', {"DISASSOC_REQ"}))
      OBVIOUS
    <3>1. assoc' = "WAIT_RSP" /\ p.type = "none"
      BY <1>2, <1>5, NoMessage
    <3>2. CASE Pending("ASSOC_REQ", "DISASSOC_REQ")
      <4>1. Followed(queue', {"DISASSOC_REQ"}, {"ASSOC_REQ"})
        BY <1>4, <3>1, <3>2 DEF Pending
      <4> QED BY <1>6, <3>1, <4>1 DEF Pending
    <3>3. CASE ~Holds(queue, {"DISASSOC_REQ"})
      BY <1>3, <3>1, <3>3
    <3>4. ~Holds(queue, {"ASSOC_CONF"})
      BY <1>1
    <3> QED BY <3>2, <3>3, <3>4 DEF Body, Backed
  <2> QED BY <1>2, <2>1, <2>2, <2>3, <2>4 DEF Body, Backed
<1>9. Joins'
  <2>1. \A T, a : AllTo(queue, T, a) /\ p.type \notin T => AllTo(queue', T, a)
    BY DEF Shift
  <2>2. Joining => Joining'
    BY <1>2, <1>4 DEF Joining, Left
  <2>3. Authenticating => Authenticating'
    BY <1>2, <1>3, <2>1 DEF Authenticating
  <2>4. Authenticating /\ Associating => Associating'
    <3> SUFFICES ASSUME Authenticating, Associating, cntl = "WAIT_ASSOC"
                 PROVE  assoc' # "DISASSOC_WAIT_RSP"
                          /\ (accepted' = bssid' \/ Regranted(queue'))
      BY DEF Associating
    <3>1. bssid' = bssid /\ (accepted = bssid \/ Regranted(queue))
      BY DEF Associating
    <3>2. p = Nothing \/ ~p.arg => (Regranted(queue) => Regranted(queue'))
      BY NoMessage DEF Shift
    <3> QED BY <3>1, <3>2
  <2> QED BY <2>2, <2>3, <2>4 DEF Body, Joins, Misjoined
<1>10. Scans'
  <2>1. ScanAwaited => ScanAwaited'
    BY <1>2, <1>3, <1>4 DEF ScanAwaited
  <2>2. ScanAwaited /\ FlagAwaited => FlagAwaited'
    BY <1>1 DEF FlagAwaited
  <2> QED BY <2>1, <2>2 DEF Body, Scans, Misscanned
<1> QED BY <1>7, <1>8, <1>9, <1>10 DEF Body

LEMMA AssocKeeps ==
  ASSUME IInv, queue # <<>>, Elem.machine = "ASSOC",
         UNCHANGED <<cntl, sync, auth, alg, tab, idx, autoSsid, linkVars, scanVars, task, user,
                     crossed, misled>>,
         bssid' = bssid \/ (Elem.type = "ASSOC_REQ" /\ bssid' = Elem.ap),
         armed \ {"Assoc"} \subseteq armed', armed' \subseteq Timers,
         \/ Elem.type = "ASSOC_REQ"
         \/ Elem.type \in {"ASSOC_TIMEOUT", "PEER_ASSOC_RSP"} /\ assoc = "WAIT_RSP",
         \/ assoc' = "WAIT_RSP" /\ "Assoc" \in armed' /\ Reply(<<>>) /\ accepted' = accepted
         \/ /\ assoc' = "IDLE"
            /\ \E ok \in Arg : /\ Reply(<<Conf("ASSOC_CONF", ok)>>)
                               /\ (~ok /\ accepted' = accepted) \/ accepted' = bssid'
  PROVE  IInv'
<1>1. PICK p : /\ Sends(p)
               /\ \/ assoc' = "WAIT_RSP" /\ "Assoc" \in armed' /\ p = Nothing
                  \/ assoc' = "IDLE" /\ p # Nothing /\ p.type = "ASSOC_CONF"
               /\ \/ p = Nothing /\ accepted' = accepted
                  \/ ~p.arg /\ accepted' = accepted
                  \/ accepted' = bssid'
  <2>1. CASE assoc' = "WAIT_RSP" /\ "Assoc" \in armed' /\ Reply(<<>>) /\ accepted' = accepted
    BY <2>1 DEF Sends
  <2>2. ASSUME assoc' = "IDLE", NEW ok \in Arg, Reply(<<Conf("ASSOC_CONF", ok)>>),
               (~ok /\ accepted' = accepted) \/ accepted' = bssid'
        PROVE  \E p : /\ Sends(p)
                      /\ \/ assoc' = "WAIT_RSP" /\ "Assoc" \in armed' /\ p = Nothing
                         \/ assoc' = "IDLE" /\ p # Nothing /\ p.type = "ASSOC_CONF"
                      /\ \/ p = Nothing /\ accepted' = accepted
                         \/ ~p.arg /\ accepted' = accepted
                         \/ accepted' = bssid'
    <3> DEFINE c == Conf("ASSOC_CONF", ok)
    <3>1. c \in Message /\ c.type = "ASSOC_CONF" /\ c # Nothing /\ c.arg = ok
      BY SomeConf
    <3>2. Reply(<<c>>)
      BY <2>2
    <3> HIDE DEF c
    <3> QED BY <2>2, <3>1, <3>2 DEF Sends
  <2> QED BY <2>1, <2>2
<1>2. /\ Bounded'
      /\ dropped => dropped'
      /\ ~dropped' => Shift(queue, queue', Elem.type, p)
  BY <1>1, Sent DEF IInv, Types
<1>3. Elem.ap \in Peer
  BY InHand, MachineOfType DEF IInv, Types
<1>4. Types'
  <2>1. MachineTypes' /\ LinkTypes'
    BY <1>1 DEF IInv, Types, MachineTypes, LinkTypes, linkVars, scanVars
  <2>2. AuxTypes'
    BY <1>1, <1>3 DEF IInv, Types, AuxTypes
  <2> QED BY <1>2, <2>1, <2>2 DEF Types
<1>5. ASSUME ~Excused' PROVE Body'
  <2>1. Body /\ Shift(queue, queue', Elem.type, p)
    BY <1>2, <1>5 DEF IInv, Excused
  <2>2. queue \in Seq(Message) /\ queue' \in Seq(Message)
    BY <1>2 DEF IInv, Types, Bounded
  <2>3. Elem.type = "ASSOC_REQ" => Holds(queue, {"ASSOC_REQ"})
    BY <2>2, HoldsFacts DEF Elem
  <2>4. Authenticating /\ cntl \in {"WAIT_AUTH", "WAIT_AUTH2", "WAIT_ASSOC"} => bssid' = bssid
    <3> SUFFICES ASSUME AllTo(queue, {"ASSOC_REQ"}, bssid), Elem.type = "ASSOC_REQ"
                 PROVE  Elem.ap = bssid
      BY DEF Authenticating
    <3> QED BY <2>2, HeadTo DEF Elem
  <2> QED BY <1>1, <2>1, <2>2, <2>3, <2>4, AssocStep DEF scanVars
<1> QED BY <1>4, <1>5 DEF IInv

LEMMA AssocReqStep ==
  ASSUME IInv, MlmeAssocReqAction \/ AssocFails
  PROVE  IInv'
<1>1. /\ queue # <<>> /\ Elem.machine = "ASSOC"
      /\ UNCHANGED <<cntl, sync, auth, alg, tab, idx, autoSsid, linkVars, scanVars, task, user,
                     crossed, misled, accepted>>
      /\ bssid' = bssid \/ (Elem.type = "ASSOC_REQ" /\ bssid' = Elem.ap)
      /\ armed \ {"Assoc"} \subseteq armed' /\ armed' \subseteq armed \cup {"Assoc"}
      /\ \/ Elem.type = "ASSOC_REQ"
         \/ Elem.type = "ASSOC_TIMEOUT" /\ assoc = "WAIT_RSP"
      /\ \/ assoc' = "WAIT_RSP" /\ "Assoc" \in armed' /\ Reply(<<>>)
         \/ assoc' = "IDLE" /\ Reply(<<Conf("ASSOC_CONF", FALSE)>>)
  BY DEF MlmeAssocReqAction, AssocFails, Handle, Elem, CancelTimer, SetTimer, auxVars, threadVars,
     histVars
<1>2. armed' \subseteq Timers
  BY <1>1 DEF IInv, Types, MachineTypes, Timers
<1>3. FALSE \in Arg
  BY Args
<1> QED BY <1>1, <1>2, <1>3, AssocKeeps

LEMMA AssocRspStep ==
  ASSUME IInv, PeerAssocRspAction
  PROVE  IInv'
<1>1. /\ queue # <<>> /\ Elem.machine = "ASSOC" /\ Elem.type = "PEER_ASSOC_RSP"
      /\ assoc = "WAIT_RSP" /\ Elem.ap = bssid
      /\ UNCHANGED <<cntl, sync, auth, bssid, alg, tab, idx, autoSsid, linkVars, scanVars, task,
                     user, crossed, misled>>
      /\ armed' = armed \ {"Assoc"}
      /\ accepted' = IF Elem.arg THEN Elem.ap ELSE accepted
      /\ assoc' = "IDLE" /\ Reply(<<Conf("ASSOC_CONF", Elem.arg)>>)
  BY DEF PeerAssocRspAction, MyAnswer, Handle, Elem, CancelTimer, auxVars
<1>2. armed' \subseteq Timers
  BY <1>1 DEF IInv, Types, MachineTypes
<1>3. Elem.arg \in Arg
  BY <1>1, InHand, MachineOfType DEF IInv, Types
<1>4. (~Elem.arg /\ accepted' = accepted) \/ accepted' = bssid'
  BY <1>1
<1>5. armed \ {"Assoc"} \subseteq armed'
  BY <1>1
<1>6. bssid' = bssid
  BY <1>1
<1>7. \E ok \in Arg : /\ Reply(<<Conf("ASSOC_CONF", ok)>>)
                      /\ (~ok /\ accepted' = accepted) \/ accepted' = bssid'
  BY <1>1, <1>3, <1>4
<1> QED BY <1>1, <1>2, <1>5, <1>6, <1>7, AssocKeeps

LEMMA DisassocStep ==
  ASSUME Body,
         UNCHANGED <<cntl, sync, auth, bssid, misled, accepted, task, user,
                     BSS_SCAN_IN_PROGRESS>>,
         queue \in Seq(Message), queue' \in Seq(Message),
         NEW h, NEW p, Shift(queue, queue', h, p),
         \/ h = "DISASSOC_REQ" /\ Holds(queue, {"DISASSOC_REQ"})
         \/ h = "DISASSOC_TIMEOUT" /\ assoc = "DISASSOC_WAIT_RSP",
         \/ assoc' = "DISASSOC_WAIT_RSP" /\ "Disassoc" \in armed' /\ p = Nothing
              /\ h = "DISASSOC_REQ"
         \/ assoc' = "IDLE" /\ p # Nothing /\ p.type = "DISASSOC_CONF",
         armed \subseteq armed'
  PROVE  Body'
<1>1. \A T : Holds(queue, T) => h \in T \/ Holds(queue', T)
  BY DEF Shift
<1>2. p.type = "DISASSOC_CONF" \/ p.type = "none"
  BY NoMessage
<1>3. \A T : Holds(queue', T) => p.type \in T \/ Holds(queue, T)
  BY DEF Shift
<1>4. \A S, T : Followed(queue, S, T) /\ p.type \notin S => Followed(queue', S, T)
  BY DEF Shift
<1>5. p.type = "DISASSOC_CONF" => Holds(queue', {"DISASSOC_CONF"})
  BY <1>2, NoMessage DEF Shift
<1>6. \A S, T : Followed(queue', S, T) /\ Holds(queue', S) => Holds(queue', T)
  BY FollowedHolds
<1>7. Timed'
  BY <1>1 DEF Body, Timed, Coming, Misjoined
<1>8. Backed'
  <2>1. \A r, o : Pending(r, o) /\ r # h /\ o # p.type => Pending(r, o)'
    BY <1>1, <1>4 DEF Pending
  <2>2. \A t : ~Holds(queue, {t}) /\ t # p.type => ~Holds(queue', {t})
    BY <1>3
  <2>3. \A t : Holds(queue, {t}) /\ t # h => Holds(queue', {t})
    BY <1>1
  <2>4. (cntl \in {"WAIT_DISASSOC", "WAIT_OID_DISASSOC"} =>
           \/ Pending("DISASSOC_REQ", "ASSOC_REQ")
           \/ assoc = "DISASSOC_WAIT_RSP" /\ ~Holds(queue, {"ASSOC_REQ"})
           \/ Holds(queue, {"DISASSOC_CONF"}))'
    <3> SUFFICES ASSUME cntl \in {"WAIT_DISASSOC", "WAIT_OID_DISASSOC"},
                        ~Holds(queue', {"DISASSOC_CONF"})
                 PROVE  Pending("DISASSOC_REQ", "ASSOC_REQ")'
                          \/ (assoc' = "DISASSOC_WAIT_RSP" /\ ~Holds(queue', {"ASSOC_REQ"}))
      OBVIOUS
    <3>1. assoc' = "DISASSOC_WAIT_RSP" /\ p.type = "none"
      BY <1>2, <1>5, NoMessage
    <3>2. CASE Pending("DISASSOC_REQ", "ASSOC_REQ")
      <4>1. Followed(queue', {"ASSOC_REQ"}, {"DISASSOC_REQ"})
        BY <1>4, <3>1, <3>2 DEF Pending
      <4> QED BY <1>6, <3>1, <4>1 DEF Pending
    <3>3. CASE ~Holds(queue, {"ASSOC_REQ"})
      BY <1>3, <3>1, <3>3
    <3>4. ~Holds(queue, {"DISASSOC_CONF"})
      BY <1>1
    <3> QED BY <3>2, <3>3, <3>4 DEF Body, Backed
  <2> QED BY <1>2, <2>1, <2>2, <2>3, <2>4 DEF Body, Backed
<1>9. Joins'
  <2>1. \A T, a : AllTo(queue, T, a) /\ p.type \notin T => AllTo(queue', T, a)
    BY DEF Shift
  <2>2. Joining => Joining'
    BY <1>2, <1>4 DEF Joining, Left
  <2>3. Authenticating => Authenticating'
    BY <1>2, <1>3, <2>1 DEF Authenticating
  <2>4. Authenticating /\ Associating => Associating'
    <3>1. Regranted(queue) => Regranted(queue')
      BY <1>2 DEF Shift
    <3> QED BY <1>1, <3>1 DEF Authenticating, Associating
  <2> QED BY <2>2, <2>3, <2>4 DEF Body, Joins, Misjoined
<1>10. Scans'
  <2>1. ScanAwaited => ScanAwaited'
    BY <1>2, <1>3, <1>4 DEF ScanAwaited
  <2>2. ScanAwaited /\ FlagAwaited => FlagAwaited'
    BY <1>1 DEF FlagAwaited
  <2> QED BY <2>1, <2>2 DEF Body, Scans, Misscanned
<1> QED BY <1>7, <1>8, <1>9, <1>10 DEF Body

LEMMA DisassocReqStep ==
  ASSUME IInv, MlmeDisassocReqAction \/ DisassocEnds
  PROVE  IInv'
<1>1. /\ queue # <<>>
      /\ UNCHANGED <<cntl, sync, auth, auxVars, linkVars, scanVars, task, user,
                     crossed, misled, accepted>>
      /\ armed \subseteq armed' /\ armed' \subseteq armed \cup {"Disassoc"}
      /\ \/ Elem.type = "DISASSOC_REQ"
         \/ Elem.type = "DISASSOC_TIMEOUT" /\ assoc = "DISASSOC_WAIT_RSP"
      /\ \/ assoc' = "DISASSOC_WAIT_RSP" /\ "Disassoc" \in armed' /\ Reply(<<>>)
              /\ Elem.type = "DISASSOC_REQ"
         \/ /\ assoc' = "IDLE"
            /\ Reply(<<Conf("DISASSOC_CONF", FALSE)>>) \/ Reply(<<Conf("DISASSOC_CONF", TRUE)>>)
  BY DEF MlmeDisassocReqAction, DisassocEnds, Handle, Elem, SetTimer, threadVars, histVars
<1>2. PICK p : /\ Sends(p)
               /\ \/ assoc' = "DISASSOC_WAIT_RSP" /\ "Disassoc" \in armed' /\ p = Nothing
                       /\ Elem.type = "DISASSOC_REQ"
                  \/ assoc' = "IDLE" /\ p # Nothing /\ p.type = "DISASSOC_CONF"
  <2>1. ASSUME NEW ok \in BOOLEAN
        PROVE  Conf("DISASSOC_CONF", ok) \in Message /\ Conf("DISASSOC_CONF", ok) # Nothing
               /\ Conf("DISASSOC_CONF", ok).type = "DISASSOC_CONF"
    BY Args, SomeConf
  <2> QED BY <1>1, <2>1 DEF Sends
<1>3. /\ Bounded'
      /\ dropped => dropped'
      /\ ~dropped' => Shift(queue, queue', Elem.type, p)
  BY <1>1, <1>2, Sent DEF IInv, Types
<1>4. Types'
  <2>1. MachineTypes' /\ LinkTypes'
    BY <1>1 DEF IInv, Types, MachineTypes, LinkTypes, linkVars, scanVars, Timers
  <2>2. AuxTypes'
    BY <1>1 DEF IInv, Types, AuxTypes, auxVars
  <2> QED BY <1>3, <2>1, <2>2 DEF Types
<1>5. ASSUME ~Excused' PROVE Body'
  <2>1. Body /\ Shift(queue, queue', Elem.type, p)
    BY <1>1, <1>3, <1>5 DEF IInv, Excused
  <2>2. queue \in Seq(Message) /\ queue' \in Seq(Message)
    BY <1>3 DEF IInv, Types, Bounded
  <2>3. Elem.type = "DISASSOC_REQ" => Holds(queue, {"DISASSOC_REQ"})
    BY <1>1, <2>2, HoldsFacts DEF Elem
  <2> QED BY <1>1, <1>2, <2>1, <2>2, <2>3, DisassocStep DEF scanVars, auxVars
<1> QED BY <1>4, <1>5 DEF IInv

LEMMA PeerDisassocStep ==
  ASSUME IInv, PeerDisassocAction, assoc # "IDLE"
  PROVE  IInv'
<1>1. /\ queue # <<>> /\ Reply(<<>>) /\ LinkDown /\ assoc' = "IDLE"
      /\ crossed' = crossed \cup {"PEER_DISASSOC_REQ"}
      /\ UNCHANGED <<cntl, sync, auth, auxVars, threadVars, misled, accepted>>
  BY DEF PeerDisassocAction, Handle
<1>2. Bounded'
  BY <1>1, RepliedNone DEF IInv, Types
<1>3. LinkTypes'
  BY <1>1, LinkDownTypes DEF IInv, Types
<1>4. MachineTypes' /\ AuxTypes'
  BY <1>1 DEF IInv, Types, MachineTypes, AuxTypes, auxVars, threadVars
<1>5. Excused'
  BY <1>1 DEF Excused
<1> QED BY <1>2, <1>3, <1>4, <1>5 DEF IInv, Types

LEMMA AuthAssocStep ==
  ASSUME IInv, \/ MlmeAuthReqAction \/ PeerAuthRspAtSeq2Action \/ PeerAuthRspAtSeq4Action
               \/ AuthFails \/ PeerDeauthAction
               \/ MlmeAssocReqAction \/ PeerAssocRspAction \/ AssocFails
               \/ MlmeDisassocReqAction \/ DisassocEnds \/ PeerDisassocAction
  PROVE  IInv'
BY AuthReqStep, AuthAnswerStep, KickedStep, AssocReqStep, AssocRspStep, DisassocReqStep,
   PeerDisassocStep

----------------------------------------------------------------------------
(* The other threads. *)

TimeoutType == [Scan |-> "SCAN_TIMEOUT", Beacon |-> "BEACON_TIMEOUT",
                Assoc |-> "ASSOC_TIMEOUT", Disassoc |-> "DISASSOC_TIMEOUT"]

\* What is left to show of a step of another thread that asks nothing of a machine:
\* m is what it puts into the queue, Nothing if it puts nothing there.
LEMMA OutsideKeeps ==
  ASSUME IInv, UNCHANGED <<cntl, sync, auth, assoc, bssid, misled, accepted>>,
         AuxTypes', LinkTypes', armed' \subseteq Timers, crossed \subseteq crossed',
         task' \in Timers \cup {"idle", "WAIT_DISASSOC", "WAIT_OID_LIST_SCAN"},
         NEW m, m.type \notin Wanted, m.type # "ASSOC_CONF",
         \/ m = Nothing /\ UNCHANGED <<queue, dropped>>
         \/ m \in Message /\ Post(queue, <<m>>),
         \A t \in {"Scan", "Beacon", "Assoc", "Disassoc"} :
           t \in armed \/ task = t => t \in armed' \/ task' = t \/ m.type = TimeoutType[t],
         BSS_SCAN_IN_PROGRESS' => BSS_SCAN_IN_PROGRESS \/ user'.type = "OID_BSSID_LIST_SCAN",
         user.type = "OID_BSSID_LIST_SCAN" =>
           m = user \/ user'.type = "OID_BSSID_LIST_SCAN",
         task = "WAIT_OID_LIST_SCAN" => task' = "WAIT_OID_LIST_SCAN"
  PROVE  IInv'
<1>1. /\ Bounded' /\ (dropped => dropped')
      /\ ~dropped' => Shift(queue, queue', "none", m)
  <2>1. CASE m = Nothing /\ UNCHANGED <<queue, dropped>>
    BY <2>1, ShiftNone DEF IInv, Types, Bounded
  <2>2. CASE m \in Message /\ Post(queue, <<m>>)
    BY <2>2, Posted DEF IInv, Types
  <2> QED BY <2>1, <2>2
<1>2. Types'
  <2>1. MachineTypes'
    BY DEF IInv, Types, MachineTypes
  <2> QED BY <1>1, <2>1 DEF Types
<1>3. m # Nothing \/ m.type = "none"
  BY NoMessage
<1>4. ASSUME ~Excused' PROVE Shift(queue, queue', "none", m) /\ Timed'
  <2>1. Body /\ Shift(queue, queue', "none", m)
    BY <1>1, <1>4 DEF IInv, Excused
  <2>2. \A T : Holds(queue, T) => "none" \in T \/ Holds(queue', T)
    BY <2>1 DEF Shift
  <2>3. \A t \in {"Scan", "Beacon", "Assoc", "Disassoc"} :
          m.type = TimeoutType[t] => Holds(queue', {TimeoutType[t]})
    BY <1>3, <2>1 DEF Shift, TimeoutType
  <2>4. \A t \in {"Scan", "Beacon", "Assoc", "Disassoc"} :
          Coming(t, TimeoutType[t]) => Coming(t, TimeoutType[t])'
    BY <2>2, <2>3 DEF Coming, TimeoutType
  <2>5. /\ Coming("Scan", "SCAN_TIMEOUT") => Coming("Scan", "SCAN_TIMEOUT")'
        /\ Coming("Beacon", "BEACON_TIMEOUT") => Coming("Beacon", "BEACON_TIMEOUT")'
        /\ Coming("Assoc", "ASSOC_TIMEOUT") => Coming("Assoc", "ASSOC_TIMEOUT")'
        /\ Coming("Disassoc", "DISASSOC_TIMEOUT") => Coming("Disassoc", "DISASSOC_TIMEOUT")'
    BY <2>4 DEF TimeoutType
  <2> QED BY <2>1, <2>5 DEF Body, Timed, Misjoined
<1>5. "none" \notin Wanted
  BY DEF Wanted
<1> QED BY <1>1, <1>2, <1>3, <1>4, <1>5, QuietKeeps

LEMMA TakeTimerStep ==
  ASSUME IInv, NEW t \in Timers, TakeTimer(t)
  PROVE  IInv'
<1>1. /\ task = "idle" /\ t \in armed /\ task' = t /\ armed' = armed \ {t}
      /\ UNCHANGED <<queue, dropped, machineVars, auxVars, linkVars, scanVars, user,
                     crossed, misled, accepted>>
  BY DEF TakeTimer, histVars
<1>2. armed' \subseteq Timers
  BY <1>1 DEF IInv, Types, MachineTypes
<1>3. AuxTypes' /\ LinkTypes'
  BY <1>1 DEF IInv, Types, AuxTypes, LinkTypes, auxVars, linkVars, scanVars, machineVars
<1>4. "none" \notin Wanted
  BY DEF Wanted
<1> QED BY <1>1, <1>2, <1>3, <1>4, NoMessage, OutsideKeeps DEF machineVars, auxVars, scanVars

LEMMA TimeoutMessages ==
  /\ Msg("SYNC", "SCAN_TIMEOUT", NoAP, {}) \in Message
  /\ \A t \in {"Beacon", "Auth", "Assoc", "Disassoc"} :
       /\ TimeoutMsg[t] \in Message
       /\ TimeoutMsg[t].type \notin Wanted /\ TimeoutMsg[t].type # "ASSOC_CONF"
       /\ t # "Auth" => TimeoutMsg[t].type = TimeoutType[t]
<1>1. /\ Carries(Msg("SYNC", "SCAN_TIMEOUT", NoAP, {}))
      /\ Carries(Msg("SYNC", "BEACON_TIMEOUT", NoAP, {}))
      /\ Carries(Msg("AUTH", "AUTH_TIMEOUT", NoAP, {}))
  BY Fields DEF Carries
<1>2. /\ Msg("SYNC", "SCAN_TIMEOUT", NoAP, {}) \in Message
      /\ Msg("SYNC", "BEACON_TIMEOUT", NoAP, {}) \in Message
      /\ Msg("AUTH", "AUTH_TIMEOUT", NoAP, {}) \in Message
      /\ Msg("ASSOC", "ASSOC_TIMEOUT", NoAP, {}) \in Message
      /\ Msg("ASSOC", "DISASSOC_TIMEOUT", NoAP, {}) \in Message
  BY <1>1, Args, Messages DEF SyncTypes, AuthTypes, AssocTypes
<1> QED BY <1>2, Fields DEF TimeoutMsg, TimeoutType, Wanted

LEMMA TimeoutStep ==
  ASSUME IInv, Timeout
  PROVE  IInv'
<1>1. /\ task \in {"Beacon", "Auth", "Assoc", "Disassoc"} /\ task' = "idle"
      /\ Post(queue, <<TimeoutMsg[task]>>)
      /\ UNCHANGED <<machineVars, auxVars, linkVars, scanVars, armed, user,
                     crossed, misled, accepted>>
  BY DEF Timeout, TimeoutMsg, histVars
<1>2. PICK m : m = TimeoutMsg[task]
  OBVIOUS
<1>3. /\ m \in Message /\ m.type \notin Wanted /\ m.type # "ASSOC_CONF"
      /\ task # "Auth" => m.type = TimeoutType[task]
  BY <1>1, <1>2, TimeoutMessages
<1>4. AuxTypes' /\ LinkTypes'
  BY <1>1 DEF IInv, Types, AuxTypes, LinkTypes, auxVars, linkVars, scanVars, machineVars
<1>5. armed' \subseteq Timers
  BY <1>1 DEF IInv, Types, MachineTypes
<1> QED BY <1>1, <1>2, <1>3, <1>4, <1>5, NoMessage, OutsideKeeps
        DEF machineVars, auxVars, scanVars

LEMMA ScanTimeoutStep ==
  ASSUME IInv, ScanTimeout
  PROVE  IInv'
<1>1. /\ task = "Scan" /\ task' = "idle"
      /\ UNCHANGED <<cntl, auth, assoc, auxVars, linkVars, ScanTab, user,
                     crossed, misled, accepted>>
      /\ \/ /\ Len(queue) < QueueLen
            /\ Post(queue, <<Msg("SYNC", "SCAN_TIMEOUT", NoAP, {})>>)
            /\ UNCHANGED <<sync, BSS_SCAN_IN_PROGRESS, Channel, armed>>
         \/ /\ ~(Len(queue) < QueueLen)
            /\ Channel' = 0 /\ sync' = "IDLE" /\ BSS_SCAN_IN_PROGRESS' = FALSE
            /\ Post(queue, <<Conf("SCAN_CONF", TRUE)>>) /\ armed' = armed
  BY DEF ScanTimeout, ScanNextChannel, histVars
<1>2. CASE /\ Post(queue, <<Msg("SYNC", "SCAN_TIMEOUT", NoAP, {})>>)
           /\ UNCHANGED <<sync, BSS_SCAN_IN_PROGRESS, Channel, armed>>
  <2>1. PICK m : m = Msg("SYNC", "SCAN_TIMEOUT", NoAP, {})
    OBVIOUS
  <2>2. m \in Message /\ m.type = "SCAN_TIMEOUT"
    BY <2>1, TimeoutMessages, Fields
  <2>3. AuxTypes' /\ LinkTypes' /\ armed' \subseteq Timers
    BY <1>1, <1>2 DEF IInv, Types, AuxTypes, LinkTypes, MachineTypes, auxVars, linkVars
  <2>4. m.type \notin Wanted /\ TimeoutType["Scan"] = "SCAN_TIMEOUT"
    BY <2>2 DEF Wanted, TimeoutType
  <2> QED BY <1>1, <1>2, <2>1, <2>2, <2>3, <2>4, NoMessage, OutsideKeeps DEF auxVars
<1>3. CASE /\ ~(Len(queue) < QueueLen)
           /\ Channel' = 0 /\ sync' = "IDLE" /\ BSS_SCAN_IN_PROGRESS' = FALSE
           /\ Post(queue, <<Conf("SCAN_CONF", TRUE)>>) /\ armed' = armed
  <2>1. Conf("SCAN_CONF", TRUE) \in Message
    BY Args, SomeConf
  <2>2. Bounded'
    BY <1>3, <2>1, Posted DEF IInv, Types
  <2>3. dropped'
    <3>1. Len(queue) \in Nat /\ QueueLen \in Nat
      BY LenProperties, StaMlmeAssumption DEF IInv, Types, Bounded
    <3>2. Len(<<Conf("SCAN_CONF", TRUE)>>) = 1
      OBVIOUS
    <3>3. dropped' = (dropped \/ Len(queue) + 1 > QueueLen)
      BY <1>3, <3>2 DEF Post
    <3>4. Len(queue) + 1 > QueueLen
      BY <1>3, <3>1
    <3> QED BY <3>3, <3>4
  <2>4. AuxTypes' /\ MachineTypes'
    BY <1>1, <1>3 DEF IInv, Types, AuxTypes, MachineTypes, auxVars
  <2>5. LinkTypes'
    <3>1. 0 \in 0..NChan
      BY StaMlmeAssumption
    <3> QED BY <1>1, <1>3, <3>1 DEF IInv, Types, LinkTypes, linkVars
  <2> QED BY <2>2, <2>3, <2>4, <2>5 DEF IInv, Types, Excused
<1> QED BY <1>1, <1>2, <1>3

\* While CNTL is idle anything may be asked, unless it is a scan that nobody awaits.
LEMMA IdleKeeps ==
  ASSUME IInv, UNCHANGED <<machineVars, auxVars, linkVars, scanVars, armed, user, misled, accepted>>,
         crossed \subseteq crossed', cntl = "IDLE" \/ Excused',
         NEW m \in Message, Post(queue, <<m>>),
         task \in {"idle", "LinkDown"},
         \/ m.type = "DISASSOC_REQ" /\ task' = "WAIT_DISASSOC"
         \/ m.type = "SCAN_REQ" /\ task' = "WAIT_OID_LIST_SCAN"
  PROVE  IInv'
<1>1. /\ Bounded' /\ (dropped => dropped')
      /\ ~dropped' => Shift(queue, queue', "none", m)
  BY Posted DEF IInv, Types
<1>2. Types'
  <2>1. MachineTypes' /\ AuxTypes' /\ LinkTypes'
    BY DEF IInv, Types, MachineTypes, AuxTypes, LinkTypes, machineVars, auxVars, linkVars, scanVars
  <2> QED BY <1>1, <2>1 DEF Types
<1>3. ASSUME ~Excused' PROVE Body'
  <2>1. Body /\ Shift(queue, queue', "none", m) /\ cntl' = "IDLE" /\ cntl = "IDLE"
    BY <1>1, <1>3 DEF IInv, Excused, machineVars
  <2>2. \A T : Holds(queue, T) => "none" \in T \/ Holds(queue', T)
    BY <2>1 DEF Shift
  <2>3. Timed'
    BY <2>1, <2>2 DEF Body, Timed, Coming, Misjoined, machineVars
  <2>4. Backed' /\ Joins'
    BY <2>1 DEF Backed, Joins, Joining, Authenticating, Associating
  <2>5. Scans'
    <3>1. CASE task' = "WAIT_OID_LIST_SCAN"
      BY <3>1 DEF Scans
    <3>2. CASE m.type = "DISASSOC_REQ"
      <4>1. \A T : Holds(queue', T) => "DISASSOC_REQ" \in T \/ Holds(queue, T)
        BY <2>1, <3>2 DEF Shift
      <4>2. ScanAwaited => ScanAwaited'
        BY <2>1, <4>1 DEF ScanAwaited, machineVars
      <4>3. FlagAwaited => FlagAwaited'
        BY <2>1, <2>2 DEF FlagAwaited, machineVars, scanVars
      <4> QED BY <2>1, <4>2, <4>3 DEF Body, Scans, Misscanned
    <3> QED BY <3>1, <3>2
  <2> QED BY <2>3, <2>4, <2>5 DEF Body
<1> QED BY <1>2, <1>3 DEF IInv

LEMMA LinkDownExecStep ==
  ASSUME IInv, LinkDownExec
  PROVE  IInv'
<1>1. /\ task = "LinkDown"
      /\ UNCHANGED <<machineVars, auxVars, linkVars, scanVars, armed, user, misled, accepted>>
      /\ \/ /\ task' = "WAIT_DISASSOC" /\ Post(queue, <<Msg("ASSOC", "DISASSOC_REQ", link, {})>>)
            /\ crossed' = IF cntl = "IDLE" THEN crossed ELSE crossed \cup {"WriteCntl"}
         \/ task' = "idle" /\ UNCHANGED <<queue, dropped, crossed>>
  BY DEF LinkDownExec
<1>2. CASE /\ task' = "WAIT_DISASSOC"
           /\ Post(queue, <<Msg("ASSOC", "DISASSOC_REQ", link, {})>>)
           /\ crossed' = IF cntl = "IDLE" THEN crossed ELSE crossed \cup {"WriteCntl"}
  <2>1. PICK m : m = Msg("ASSOC", "DISASSOC_REQ", link, {})
    OBVIOUS
  <2>2. m \in Message /\ m.type = "DISASSOC_REQ"
    BY <2>1, CntlMessages DEF IInv
  <2>3. crossed \subseteq crossed' /\ (cntl = "IDLE" \/ Excused')
    BY <1>2 DEF Excused
  <2> QED BY <1>1, <1>2, <2>1, <2>2, <2>3, IdleKeeps
<1>3. CASE task' = "idle" /\ UNCHANGED <<queue, dropped, crossed>>
  <2>1. AuxTypes' /\ LinkTypes' /\ armed' \subseteq Timers
    BY <1>1 DEF IInv, Types, AuxTypes, LinkTypes, MachineTypes, auxVars, linkVars, scanVars,
       machineVars
  <2>2. "none" \notin Wanted
    BY DEF Wanted
  <2> QED BY <1>1, <1>3, <2>1, <2>2, NoMessage, OutsideKeeps DEF machineVars, auxVars, scanVars
<1> QED BY <1>1, <1>2, <1>3

LEMMA WriteCntlStep ==
  ASSUME IInv, WriteCntl
  PROVE  IInv'
<1>1. /\ task \in {"WAIT_DISASSOC", "WAIT_OID_LIST_SCAN"} /\ task' = "idle" /\ cntl' = task
      /\ crossed' = IF /\ cntl = "IDLE" /\ Supported(task)
                       /\ ~Queued("SYNC", "JOIN_REQ") /\ ~Queued("ASSOC", "ASSOC_REQ")
                    THEN crossed ELSE crossed \cup {"WriteCntl"}
      /\ UNCHANGED <<queue, dropped, sync, auth, assoc, auxVars, linkVars, scanVars, armed, user,
                     misled, accepted>>
  BY DEF WriteCntl
<1>2. Types'
  <2>1. MachineTypes' /\ AuxTypes' /\ LinkTypes' /\ Bounded'
    BY <1>1 DEF IInv, Types, MachineTypes, AuxTypes, LinkTypes, auxVars, linkVars, scanVars,
       CntlStates, Bounded
  <2> QED BY <2>1 DEF Types
<1>3. ASSUME ~Excused' PROVE Body'
  <2>1. /\ Body /\ cntl = "IDLE" /\ Supported(task)
        /\ ~Queued("SYNC", "JOIN_REQ") /\ ~Queued("ASSOC", "ASSOC_REQ")
    BY <1>1, <1>3 DEF IInv, Excused
  <2>2. ~Holds(queue, {"JOIN_REQ"}) /\ ~Holds(queue, {"ASSOC_REQ"})
    BY <2>1, QueuedHolds DEF IInv, Types, SyncTypes, AssocTypes
  <2>3. /\ task = "WAIT_OID_LIST_SCAN" =>
             Holds(queue, {"SCAN_REQ"}) \/ sync = "SCAN_LISTEN" \/ Holds(queue, {"SCAN_CONF"})
        /\ task = "WAIT_DISASSOC" =>
             \/ Holds(queue, {"DISASSOC_REQ"}) \/ assoc = "DISASSOC_WAIT_RSP"
             \/ Holds(queue, {"DISASSOC_CONF"})
    <3>1. /\ Queued("SYNC", "SCAN_REQ") <=> Holds(queue, {"SCAN_REQ"})
          /\ Queued("CNTL", "SCAN_CONF") <=> Holds(queue, {"SCAN_CONF"})
          /\ Queued("ASSOC", "DISASSOC_REQ") <=> Holds(queue, {"DISASSOC_REQ"})
          /\ Queued("CNTL", "DISASSOC_CONF") <=> Holds(queue, {"DISASSOC_CONF"})
      BY QueuedHolds DEF IInv, Types, SyncTypes, AssocTypes, CntlTypes
    <3>2. CASE task = "WAIT_OID_LIST_SCAN"
      BY <2>1, <3>1, <3>2 DEF Supported
    <3>3. CASE task = "WAIT_DISASSOC"
      BY <2>1, <3>1, <3>3 DEF Supported
    <3> QED BY <1>1, <3>2, <3>3
  <2>4. /\ Followed(queue, {"JOIN_REQ"}, {"SCAN_REQ"})
        /\ Followed(queue, {"ASSOC_REQ"}, {"DISASSOC_REQ"})
    BY <2>2, FollowedHolds DEF IInv, Types, Bounded
  <2>5. Timed'
    BY <1>1, <2>1 DEF Body, Timed, Coming, Misjoined
  <2>6. Backed'
    BY <1>1, <2>2, <2>3, <2>4 DEF Backed, Pending
  <2>7. Joins'
    BY <1>1 DEF Joins, Joining, Authenticating, Associating
  <2>8. Scans'
    <3>1. CASE task = "WAIT_OID_LIST_SCAN"
      <4>1. ScanAwaited' /\ FlagAwaited'
        BY <1>1, <2>3, <2>4, <3>1 DEF ScanAwaited, FlagAwaited
      <4> QED BY <4>1 DEF Scans
    <3>2. CASE task = "WAIT_DISASSOC"
      <4>1. ScanAwaited => ScanAwaited'
        BY <1>1, <2>1 DEF ScanAwaited
      <4>2. FlagAwaited => FlagAwaited'
        BY <1>1, <2>1 DEF FlagAwaited, scanVars
      <4> QED BY <1>1, <2>1, <3>2, <4>1, <4>2 DEF Body, Scans, Misscanned
    <3> QED BY <1>1, <3>1, <3>2
  <2> QED BY <2>5, <2>6, <2>7, <2>8 DEF Body
<1> QED BY <1>2, <1>3 DEF IInv

\* A message of a peer, of a user or of the periodic work.
LEMMA OutsideMessages ==
  ASSUME NEW ap \in Peer
  PROVE  /\ \A ok \in BOOLEAN :
              /\ ap \in AP => Msg("SYNC", "PEER_BEACON", ap, ok) \in Message
              /\ Msg("AUTH", "PEER_AUTH_2", ap, ok) \in Message
              /\ Msg("AUTH", "PEER_AUTH_4", ap, ok) \in Message
              /\ Msg("AUTH", "PEER_DEAUTH", ap, ok) \in Message
              /\ Msg("ASSOC", "PEER_ASSOC_RSP", ap, ok) \in Message
              /\ Msg("ASSOC", "PEER_DISASSOC_REQ", ap, ok) \in Message
         /\ Msg("CNTL", "RESET_CONF", NoAP, {}) \in Message
         /\ Msg("CNTL", "OID_BSSID", ap, {}) \in Message
         /\ Msg("CNTL", "OID_BSSID_LIST_SCAN", NoAP, {}) \in Message
         /\ Msg("CNTL", "OID_DISASSOCIATE", NoAP, {}) \in Message
         /\ \A S \in SUBSET Peer : Msg("CNTL", "OID_SSID", NoAP, S) \in Message
         /\ \A S \in SUBSET AP : Msg("CNTL", "ROAMING_REQ", NoAP, S) \in Message
<1>1. \A ok \in BOOLEAN :
        /\ ap \in AP => Carries(Msg("SYNC", "PEER_BEACON", ap, ok))
        /\ Carries(Msg("AUTH", "PEER_AUTH_2", ap, ok))
        /\ Carries(Msg("AUTH", "PEER_AUTH_4", ap, ok))
        /\ Carries(Msg("AUTH", "PEER_DEAUTH", ap, ok))
  BY Fields DEF Carries
<1>2. /\ Carries(Msg("CNTL", "RESET_CONF", NoAP, {}))
      /\ Carries(Msg("CNTL", "OID_BSSID", ap, {}))
      /\ Carries(Msg("CNTL", "OID_BSSID_LIST_SCAN", NoAP, {}))
      /\ Carries(Msg("CNTL", "OID_DISASSOCIATE", NoAP, {}))
      /\ \A S \in SUBSET Peer : Carries(Msg("CNTL", "OID_SSID", NoAP, S))
      /\ \A S \in SUBSET AP : Carries(Msg("CNTL", "ROAMING_REQ", NoAP, S))
  BY Fields DEF Carries
<1>3. \A ok \in BOOLEAN :
        /\ ap \in AP => Msg("SYNC", "PEER_BEACON", ap, ok) \in Message
        /\ Msg("AUTH", "PEER_AUTH_2", ap, ok) \in Message
        /\ Msg("AUTH", "PEER_AUTH_4", ap, ok) \in Message
        /\ Msg("AUTH", "PEER_DEAUTH", ap, ok) \in Message
        /\ Msg("ASSOC", "PEER_ASSOC_RSP", ap, ok) \in Message
        /\ Msg("ASSOC", "PEER_DISASSOC_REQ", ap, ok) \in Message
  BY <1>1, Args, Messages DEF SyncTypes, AuthTypes, AssocTypes
<1>4. /\ Msg("CNTL", "RESET_CONF", NoAP, {}) \in Message
      /\ Msg("CNTL", "OID_BSSID", ap, {}) \in Message
      /\ Msg("CNTL", "OID_BSSID_LIST_SCAN", NoAP, {}) \in Message
      /\ Msg("CNTL", "OID_DISASSOCIATE", NoAP, {}) \in Message
  BY <1>2, Args, Messages DEF CntlTypes, Requests
<1>5. /\ \A S \in SUBSET Peer : S \in Arg
      /\ \A S \in SUBSET AP : S \in Arg
  BY DEF Arg, Peer
<1>6. /\ \A S \in SUBSET Peer : Msg("CNTL", "OID_SSID", NoAP, S) \in Message
      /\ \A S \in SUBSET AP : Msg("CNTL", "ROAMING_REQ", NoAP, S) \in Message
  BY <1>2, <1>5, Args, Messages DEF CntlTypes, Requests
<1> QED BY <1>3, <1>4, <1>6

\* A frame of a peer, and the end of the handshake.
LEMMA PeersStep ==
  ASSUME IInv, Peers
  PROVE  IInv'
<1>1. CASE Handshake
  <2>1. /\ PortSecured' = TRUE
        /\ UNCHANGED <<queue, dropped, machineVars, auxVars, link, bConfigChanged,
                       CurrReqIsFromNdis, scanVars, threadVars, crossed, misled, accepted>>
    BY <1>1 DEF Handshake, histVars
  <2>2. AuxTypes' /\ LinkTypes' /\ MachineTypes'
    BY <2>1 DEF IInv, Types, AuxTypes, LinkTypes, MachineTypes, auxVars, scanVars, machineVars,
       threadVars
  <2>3. "none" \notin Wanted
    BY DEF Wanted
  <2>4. UNCHANGED <<armed, task, user>>
    BY <2>1 DEF threadVars
  <2>5. armed' \subseteq Timers /\ task' \in Timers \cup {"idle", "WAIT_DISASSOC", "WAIT_OID_LIST_SCAN"}
    BY <2>2 DEF MachineTypes
  <2> QED BY <2>1, <2>2, <2>3, <2>4, <2>5, NoMessage, OutsideKeeps
          DEF machineVars, auxVars, scanVars
<1>2. ASSUME NEW machine, NEW type, NEW ap, NEW ok, Frame(machine, type, ap, ok),
             Msg(machine, type, ap, ok) \in Message,
             type \notin Wanted, type # "ASSOC_CONF"
      PROVE  IInv'
  <2>1. PICK m : m = Msg(machine, type, ap, ok)
    OBVIOUS
  <2>2. m \in Message /\ m.type = type
    BY <1>2, <2>1, Fields
  <2>3. /\ Post(queue, <<m>>)
        /\ UNCHANGED <<machineVars, auxVars, linkVars, scanVars, armed, task, user,
                       crossed, misled, accepted>>
    BY <1>2, <2>1 DEF Frame, threadVars, histVars
  <2>4. AuxTypes' /\ LinkTypes' /\ MachineTypes'
    BY <2>3 DEF IInv, Types, AuxTypes, LinkTypes, MachineTypes, auxVars, linkVars, scanVars,
       machineVars
  <2>5. armed' \subseteq Timers /\ task' \in Timers \cup {"idle", "WAIT_DISASSOC", "WAIT_OID_LIST_SCAN"}
    BY <2>4 DEF MachineTypes
  <2> QED BY <1>2, <2>2, <2>3, <2>4, <2>5, NoMessage, OutsideKeeps
          DEF machineVars, auxVars, scanVars
<1>3. \A ap \in AP : ap \in Peer
  BY DEF Peer
<1>4. /\ "PEER_BEACON" \notin Wanted /\ "PEER_AUTH_2" \notin Wanted /\ "PEER_AUTH_4" \notin Wanted
      /\ "PEER_ASSOC_RSP" \notin Wanted /\ "PEER_DISASSOC_REQ" \notin Wanted
      /\ "PEER_DEAUTH" \notin Wanted
  BY DEF Wanted
<1>5. ASSUME NEW ap \in AP, Beacon(ap) PROVE IInv'
  <2>1. Frame("SYNC", "PEER_BEACON", ap, TRUE) /\ Msg("SYNC", "PEER_BEACON", ap, TRUE) \in Message
    BY <1>3, <1>5, OutsideMessages DEF Beacon
  <2> QED BY <1>2, <1>4, <2>1
<1>6. ASSUME NEW ap \in AP, NEW ok \in BOOLEAN, Answer(ap, ok) PROVE IInv'
  <2>1. /\ Msg("AUTH", "PEER_AUTH_2", ap, ok) \in Message
        /\ Msg("AUTH", "PEER_AUTH_4", ap, ok) \in Message
        /\ Msg("ASSOC", "PEER_ASSOC_RSP", ap, ok) \in Message
    BY <1>3, OutsideMessages
  <2>2. \/ Frame("AUTH", "PEER_AUTH_2", ap, ok) \/ Frame("AUTH", "PEER_AUTH_4", ap, ok)
        \/ Frame("ASSOC", "PEER_ASSOC_RSP", ap, ok)
    BY <1>6 DEF Answer
  <2> QED BY <1>2, <1>4, <2>1, <2>2
<1>7. CASE Kick
  <2>1. link \in Peer
    BY DEF IInv, Types, LinkTypes
  <2>2. /\ Msg("ASSOC", "PEER_DISASSOC_REQ", link, TRUE) \in Message
        /\ Msg("AUTH", "PEER_DEAUTH", link, TRUE) \in Message
    BY <2>1, OutsideMessages
  <2>3. \/ Frame("ASSOC", "PEER_DISASSOC_REQ", link, TRUE)
        \/ Frame("AUTH", "PEER_DEAUTH", link, TRUE)
    BY <1>7 DEF Kick
  <2> QED BY <1>2, <1>4, <2>2, <2>3
<1> QED BY <1>1, <1>5, <1>6, <1>7 DEF Peers

LEMMA UserStep ==
  ASSUME IInv, User
  PROVE  IInv'
<1>1. Types
  BY DEF IInv
<1>2. CASE UserEnqueue
  <2>1. /\ user # Nothing /\ user' = Nothing /\ Post(queue, <<user>>)
        /\ UNCHANGED <<machineVars, auxVars, linkVars, scanVars, armed, task,
                       crossed, misled, accepted>>
    BY <1>2 DEF UserEnqueue, histVars
  <2>2. user \in Message /\ user.type \in Requests
    BY <1>1, <2>1 DEF Types, AuxTypes, UserRequest
  <2>3. user.type \notin Wanted /\ user.type # "ASSOC_CONF"
    BY <2>2 DEF Requests, Wanted
  <2>4. AuxTypes' /\ LinkTypes' /\ MachineTypes'
    BY <1>1, <2>1 DEF Types, AuxTypes, LinkTypes, MachineTypes, auxVars, linkVars, scanVars,
       machineVars
  <2>5. armed' \subseteq Timers /\ task' \in Timers \cup {"idle", "WAIT_DISASSOC", "WAIT_OID_LIST_SCAN"}
    BY <2>4 DEF MachineTypes
  <2> QED BY <2>1, <2>2, <2>3, <2>4, <2>5, OutsideKeeps DEF machineVars, auxVars, scanVars
<1>3. ASSUME NEW r \in Message, r.type \in Requests, Request(r),
             autoSsid' \subseteq Peer, CurrReqIsFromNdis' \in BOOLEAN, bConfigChanged' \in BOOLEAN,
             \/ BSS_SCAN_IN_PROGRESS' = BSS_SCAN_IN_PROGRESS
             \/ BSS_SCAN_IN_PROGRESS' = TRUE /\ r.type = "OID_BSSID_LIST_SCAN"
      PROVE  IInv'
  <2>1. /\ user = Nothing /\ user' = r
        /\ \/ Post(queue, <<Msg("CNTL", "RESET_CONF", NoAP, {})>>)
           \/ UNCHANGED <<queue, dropped>>
        /\ UNCHANGED <<machineVars, bssid, alg, tab, idx, link, PortSecured, ScanTab,
                       Channel, armed, task, crossed, misled, accepted>>
    BY <1>3 DEF Request, histVars
  <2>2. r \in UserRequest
    BY <1>3 DEF UserRequest
  <2>3. AuxTypes'
    BY <1>1, <1>3, <2>1, <2>2 DEF Types, AuxTypes, machineVars
  <2>4. LinkTypes'
    BY <1>1, <1>3, <2>1 DEF Types, LinkTypes
  <2>5. armed' \subseteq Timers /\ task' \in Timers \cup {"idle", "WAIT_DISASSOC", "WAIT_OID_LIST_SCAN"}
    BY <1>1, <2>1 DEF Types, MachineTypes
  <2>6. PICK m : \/ m = Nothing /\ UNCHANGED <<queue, dropped>>
                 \/ m = Msg("CNTL", "RESET_CONF", NoAP, {}) /\ Post(queue, <<m>>)
    BY <2>1
  <2>7. m.type \in {"none", "RESET_CONF"}
    BY <2>6, NoMessage, Fields
  <2>8. m.type \notin Wanted /\ m.type # "ASSOC_CONF" /\ user.type = "none"
    BY <2>1, <2>7, NoMessage DEF Wanted
  <2>9. /\ UNCHANGED <<cntl, sync, auth, assoc, bssid, misled, accepted>>
        /\ crossed \subseteq crossed' /\ armed' = armed /\ task' = task
    BY <2>1 DEF machineVars
  <2>10. BSS_SCAN_IN_PROGRESS' => BSS_SCAN_IN_PROGRESS \/ user'.type = "OID_BSSID_LIST_SCAN"
    BY <1>3, <2>1
  <2>11. \/ m = Nothing /\ UNCHANGED <<queue, dropped>>
         \/ m \in Message /\ Post(queue, <<m>>)
    BY <2>6, Args, OutsideMessages
  <2> QED BY <2>3, <2>4, <2>5, <2>8, <2>9, <2>10, <2>11, OutsideKeeps
<1>4. ASSUME NEW ssid \in Ssids, Set_SSID_Proc(ssid) PROVE IInv'
  <2>1. ssid \in SUBSET Peer
    BY StaMlmeAssumption DEF Peer
  <2>2. PICK r : r = Msg("CNTL", "OID_SSID", NoAP, ssid)
    OBVIOUS
  <2>3. r \in Message /\ r.type = "OID_SSID"
    BY <2>1, <2>2, Args, OutsideMessages, Fields
  <2>4. /\ Request(r) /\ CurrReqIsFromNdis' = TRUE /\ bConfigChanged' = TRUE
        /\ UNCHANGED <<autoSsid, BSS_SCAN_IN_PROGRESS>>
    BY <1>4, <2>2 DEF Set_SSID_Proc
  <2>5. autoSsid \subseteq Peer
    BY <1>1 DEF Types, AuxTypes
  <2> QED BY <1>3, <2>3, <2>4, <2>5 DEF Requests
<1>5. ASSUME NEW ap \in AP, rt_ioctl_siwap(ap) PROVE IInv'
  <2>1. PICK r : r = Msg("CNTL", "OID_BSSID", ap, {})
    OBVIOUS
  <2>2. r \in Message /\ r.type = "OID_BSSID"
    <3>1. ap \in Peer
      BY DEF Peer
    <3> QED BY <2>1, <3>1, OutsideMessages, Fields
  <2>3. /\ Request(r) /\ CurrReqIsFromNdis' = FALSE /\ autoSsid' = NoSsid
        /\ UNCHANGED <<bConfigChanged, BSS_SCAN_IN_PROGRESS>>
    BY <1>5, <2>1 DEF rt_ioctl_siwap
  <2>4. bConfigChanged \in BOOLEAN /\ NoSsid \subseteq Peer
    BY <1>1 DEF Types, LinkTypes, NoSsid, Peer
  <2> QED BY <1>3, <2>2, <2>3, <2>4 DEF Requests
<1>6. CASE UserScan
  <2>1. PICK r : r = Msg("CNTL", "OID_BSSID_LIST_SCAN", NoAP, {})
    OBVIOUS
  <2>2. r \in Message /\ r.type = "OID_BSSID_LIST_SCAN"
    BY <2>1, Args, OutsideMessages, Fields
  <2>3. /\ Request(r) /\ CurrReqIsFromNdis' = FALSE /\ BSS_SCAN_IN_PROGRESS' = TRUE
        /\ UNCHANGED <<autoSsid, bConfigChanged>>
    BY <1>6, <2>1 DEF UserScan
  <2>4. autoSsid \subseteq Peer /\ bConfigChanged \in BOOLEAN
    BY <1>1 DEF Types, LinkTypes, AuxTypes
  <2> QED BY <1>3, <2>2, <2>3, <2>4 DEF Requests
<1>7. CASE UserDisassociate
  <2>1. PICK r : r = Msg("CNTL", "OID_DISASSOCIATE", NoAP, {})
    OBVIOUS
  <2>2. r \in Message /\ r.type = "OID_DISASSOCIATE"
    BY <2>1, Args, OutsideMessages, Fields
  <2>3. /\ Request(r) /\ CurrReqIsFromNdis' = TRUE
        /\ UNCHANGED <<autoSsid, bConfigChanged, BSS_SCAN_IN_PROGRESS>>
    BY <1>7, <2>1 DEF UserDisassociate
  <2>4. autoSsid \subseteq Peer /\ bConfigChanged \in BOOLEAN
    BY <1>1 DEF Types, LinkTypes, AuxTypes
  <2> QED BY <1>3, <2>2, <2>3, <2>4 DEF Requests
<1> QED BY <1>2, <1>4, <1>5, <1>6, <1>7 DEF User

\* The periodic work.
LEMMA PeriodicStep ==
  ASSUME IInv, PeriodicDead \/ PeriodicBad \/ PeriodicRoam \/ PeriodicUnlinked
  PROVE  IInv'
<1>1. Types
  BY DEF IInv
<1>2. /\ task = "idle"
      /\ UNCHANGED <<cntl, sync, auth, assoc, bssid, alg, tab, idx, autoSsid, Channel, armed,
                     user, crossed, misled, accepted>>
  BY DEF PeriodicDead, PeriodicBad, PeriodicRoam, PeriodicUnlinked, Periodic, machineVars, histVars
<1>3. AuxTypes'
  BY <1>1, <1>2 DEF Types, AuxTypes
<1>4. /\ LinkTypes' /\ (BSS_SCAN_IN_PROGRESS' => BSS_SCAN_IN_PROGRESS)
  <2>1. CASE PeriodicDead
    BY <1>1, <2>1, LinkDownTypes DEF PeriodicDead, Types
  <2>2. CASE UNCHANGED <<linkVars, ScanTab, BSS_SCAN_IN_PROGRESS, Channel>>
    BY <1>1, <2>2 DEF Types, LinkTypes, linkVars
  <2>3. PeriodicBad \/ PeriodicRoam \/ PeriodicUnlinked =>
          UNCHANGED <<linkVars, ScanTab, BSS_SCAN_IN_PROGRESS, Channel>>
    BY <1>2 DEF PeriodicBad, PeriodicRoam, PeriodicUnlinked
  <2> QED BY <2>1, <2>2, <2>3
<1>5. \/ UNCHANGED <<queue, dropped, task>>
      \/ /\ UNCHANGED task
         /\ \E r \in Message : /\ r.type \in {"OID_SSID", "OID_BSSID_LIST_SCAN", "ROAMING_REQ"}
                               /\ Post(queue, <<r>>)
      \/ /\ cntl = "IDLE" /\ task' = "WAIT_OID_LIST_SCAN"
         /\ UNCHANGED <<linkVars, ScanTab, BSS_SCAN_IN_PROGRESS>>
         /\ Post(queue, <<Msg("SYNC", "SCAN_REQ", NoAP, {})>>)
  <2>1. \A S \in SUBSET AP : Msg("CNTL", "ROAMING_REQ", NoAP, S) \in Message
    BY Args, OutsideMessages
  <2>2. /\ Msg("CNTL", "OID_SSID", NoAP, autoSsid) \in Message
        /\ Msg("CNTL", "OID_BSSID_LIST_SCAN", NoAP, {}) \in Message
    BY <1>1, Args, OutsideMessages DEF Types, AuxTypes
  <2>3. /\ \A S : Msg("CNTL", "ROAMING_REQ", NoAP, S).type = "ROAMING_REQ"
        /\ Msg("CNTL", "OID_SSID", NoAP, autoSsid).type = "OID_SSID"
        /\ Msg("CNTL", "OID_BSSID_LIST_SCAN", NoAP, {}).type = "OID_BSSID_LIST_SCAN"
    BY Fields
  <2>4. MlmeAutoReconnectLastSSID \/ MlmeAutoScan =>
          \E r \in Message : /\ r.type \in {"OID_SSID", "OID_BSSID_LIST_SCAN", "ROAMING_REQ"}
                             /\ Post(queue, <<r>>)
    BY <2>2, <2>3 DEF MlmeAutoReconnectLastSSID, MlmeAutoScan, CntlPost
  <2>5. CASE PeriodicDead \/ PeriodicBad
    BY <2>4, <2>5 DEF PeriodicDead, PeriodicBad
  <2>6. CASE PeriodicRoam
    <3>1. PICK roamTab \in SUBSET ((ScanTab \cap SsidOf(link)) \ {link}) :
            CntlPost(Msg("CNTL", "ROAMING_REQ", NoAP, roamTab)) \/ MlmeAutoScan
      BY <2>6 DEF PeriodicRoam
    <3>2. roamTab \in SUBSET AP
      BY <1>1, <3>1 DEF Types, LinkTypes
    <3>3. CntlPost(Msg("CNTL", "ROAMING_REQ", NoAP, roamTab)) =>
            \E r \in Message : /\ r.type \in {"OID_SSID", "OID_BSSID_LIST_SCAN", "ROAMING_REQ"}
                               /\ Post(queue, <<r>>)
      BY <2>1, <2>3, <3>2 DEF CntlPost
    <3> QED BY <2>4, <2>6, <3>1, <3>3 DEF PeriodicRoam
  <2>7. CASE PeriodicUnlinked
    BY <2>4, <2>7 DEF PeriodicUnlinked, CntlPost
  <2> QED BY <2>5, <2>6, <2>7
<1>6. armed' \subseteq Timers
  BY <1>1, <1>2 DEF Types, MachineTypes
<1>7. CASE UNCHANGED <<queue, dropped, task>>
  <2>1. "none" \notin Wanted
    BY DEF Wanted
  <2> QED BY <1>2, <1>3, <1>4, <1>6, <1>7, <2>1, NoMessage, OutsideKeeps
<1>8. ASSUME UNCHANGED task, NEW r \in Message,
             r.type \in {"OID_SSID", "OID_BSSID_LIST_SCAN", "ROAMING_REQ"}, Post(queue, <<r>>)
      PROVE  IInv'
  <2>1. r.type \notin Wanted /\ r.type # "ASSOC_CONF"
    BY <1>8 DEF Wanted
  <2> QED BY <1>2, <1>3, <1>4, <1>6, <1>8, <2>1, OutsideKeeps
<1>9. CASE /\ cntl = "IDLE" /\ task' = "WAIT_OID_LIST_SCAN"
           /\ UNCHANGED <<linkVars, ScanTab, BSS_SCAN_IN_PROGRESS>>
           /\ Post(queue, <<Msg("SYNC", "SCAN_REQ", NoAP, {})>>)
  <2>1. PICK m : m = Msg("SYNC", "SCAN_REQ", NoAP, {})
    OBVIOUS
  <2>2. m \in Message /\ m.type = "SCAN_REQ"
    BY <1>1, <2>1, CntlMessages
  <2>3. UNCHANGED <<machineVars, auxVars, linkVars, scanVars, armed, user, misled, accepted>>
    BY <1>2, <1>9 DEF machineVars, auxVars, scanVars
  <2> QED BY <1>2, <1>9, <2>1, <2>2, <2>3, IdleKeeps
<1> QED BY <1>5, <1>7, <1>8, <1>9

----------------------------------------------------------------------------
(* The invariant, and what follows from it. *)

LEMMA InitIInv == Init => IInv
<1> SUFFICES ASSUME Init PROVE IInv
  OBVIOUS
<1>1. Bounded
  <2>1. <<>> \in Seq(Message) /\ Len(<<>>) = 0
    OBVIOUS
  <2>2. 0 <= QueueLen
    BY StaMlmeAssumption
  <2>3. queue = <<>> /\ dropped = FALSE
    BY DEF Init
  <2> QED BY <2>1, <2>2, <2>3 DEF Bounded
<1>2. MachineTypes
  BY DEF Init, MachineTypes, CntlStates
<1>3. AuxTypes
  <2>1. <<>> \in Seq(AP) /\ Len(<<>>) = 0 /\ Cardinality(AP) \in Nat
    BY FS_CardinalityType, StaMlmeAssumption
  <2>2. \A S \in Ssids : S \subseteq Peer
    BY StaMlmeAssumption DEF Peer
  <2> QED BY <2>1, <2>2, Args DEF Init, AuxTypes
<1>4. LinkTypes
  <2>1. 0 \in 0..NChan
    BY StaMlmeAssumption
  <2> QED BY <2>1, Args DEF Init, LinkTypes
<1>5. \A T : ~Holds(queue, T)
  BY DEF Init, Holds
<1>6. Timed /\ Backed
  BY DEF Init, Timed, Backed
<1>7. Joins /\ Scans
  BY <1>5 DEF Init, Joins, Joining, Authenticating, Associating, Scans, ScanAwaited, FlagAwaited
<1> QED BY <1>1, <1>2, <1>3, <1>4, <1>6, <1>7 DEF IInv, Types, Body

LEMMA StutterStep ==
  ASSUME IInv, UNCHANGED vars
  PROVE  IInv'
<1>1. /\ UNCHANGED <<queue, dropped, armed, task, user, accepted, crossed, misled>>
      /\ UNCHANGED <<machineVars, auxVars, linkVars, scanVars>>
  BY DEF vars, threadVars, histVars
<1>2. Types'
  BY <1>1 DEF IInv, Types, Bounded, MachineTypes, AuxTypes, LinkTypes, machineVars, auxVars,
     linkVars, scanVars
<1>3. Excused => Excused'
  BY <1>1 DEF Excused
<1>4. ASSUME Body PROVE Body'
  <2>1. Timed' /\ Backed'
    BY <1>1, <1>4 DEF Body, Timed, Coming, Misjoined, Backed, Pending, machineVars
  <2>2. Joins'
    BY <1>1, <1>4 DEF Body, Joins, Misjoined, Joining, Authenticating, Associating, machineVars,
       auxVars
  <2>3. Scans'
    BY <1>1, <1>4 DEF Body, Scans, Misscanned, ScanAwaited, FlagAwaited, machineVars, scanVars
  <2> QED BY <2>1, <2>2, <2>3 DEF Body
<1> QED BY <1>2, <1>3, <1>4 DEF IInv

LEMMA CntlStep ==
  ASSUME IInv, \/ MlmeRestartStateMachine \/ CntlOidSsidProc \/ CntlOidRTBssidProc
               \/ CntlOidScanProc \/ CntlOidDisassociate \/ CntlMlmeRoamingProc
               \/ CntlWaitDisassocProc \/ CntlWaitOidDisassoc \/ CntlWaitOidListScan
               \/ CntlWaitJoinProc \/ CntlWaitAuthProc \/ CntlWaitAuthProc2
               \/ CntlWaitAssocProc \/ CntlDrop
  PROVE  IInv'
BY RestartStep, OidSsidStep, OidBssidStep, OidScanStep, OidDisassociateStep, RoamingStep,
   WaitDisassocStep, WaitScanStep, JoinProcStep, AuthProcStep, AssocProcStep, CntlDropStep

LEMMA NextStep == IInv /\ [Next]_vars => IInv'
<1> SUFFICES ASSUME IInv, [Next]_vars PROVE IInv'
  OBVIOUS
<1>1. CASE MlmeHandler
  BY <1>1, CntlStep, SyncStep, AuthAssocStep, DropStep DEF MlmeHandler
<1>2. CASE TimerTask
  BY <1>2, TakeTimerStep, TimeoutStep, ScanTimeoutStep, LinkDownExecStep, WriteCntlStep
     DEF TimerTask
<1>3. CASE Peers
  BY <1>3, PeersStep
<1>4. CASE User
  BY <1>4, UserStep
<1>5. CASE PeriodicDead \/ PeriodicBad \/ PeriodicRoam \/ PeriodicUnlinked
  BY <1>5, PeriodicStep
<1>6. CASE UNCHANGED vars
  BY <1>6, StutterStep
<1> QED BY <1>1, <1>2, <1>3, <1>4, <1>5, <1>6 DEF Next

\* The invariant holds all along: unless two threads got in each other's way, every
\* wait has its end on the way, and requests stand in the queue in the order in
\* which the connection machine made them.
THEOREM Invariant == Spec => []IInv
BY InitIInv, NextStep, PTL DEF Spec

\* The variables keep their types, the queue its length and the index of the
\* candidate its range.
THEOREM TypesKept == Spec => []TypeOK
<1>1. ASSUME IInv PROVE TypeOK
  <2>1. \A i \in 1..Len(queue) : queue[i] \in Message
    BY <1>1, ElementOfSeq DEF IInv, Types, Bounded
  <2>2. \A m \in Message : m.machine \in {"CNTL", "SYNC", "AUTH", "ASSOC"}
    BY DEF Message, AnyMessage
  <2>3. \A m \in Message : m.ap \in AP \cup {NoAP}
    BY MachineOfType DEF Peer
  <2>4. \A i \in 1..Len(queue) :
          queue[i].machine \in {"CNTL", "SYNC", "AUTH", "ASSOC"} /\ queue[i].ap \in AP \cup {NoAP}
    BY <2>1, <2>2, <2>3
  <2>5. \A i \in 1..Len(tab) : tab[i] \in AP
    BY <1>1, ElementOfSeq DEF IInv, Types, AuxTypes
  <2> QED BY <1>1, <2>4, <2>5 DEF IInv, Types, Bounded, MachineTypes, AuxTypes, LinkTypes,
             TypeOK, Peer
<1> QED BY <1>1, Invariant, PTL

\* A machine that waits for a peer has its timer armed, or its timeout on the way.
THEOREM TimersRun == Spec => []MachinesEnd
<1>1. ASSUME IInv PROVE MachinesEnd
  <2>1. /\ Queued("SYNC", "SCAN_TIMEOUT") <=> Holds(queue, {"SCAN_TIMEOUT"})
        /\ Queued("SYNC", "BEACON_TIMEOUT") <=> Holds(queue, {"BEACON_TIMEOUT"})
        /\ Queued("ASSOC", "ASSOC_TIMEOUT") <=> Holds(queue, {"ASSOC_TIMEOUT"})
        /\ Queued("ASSOC", "DISASSOC_TIMEOUT") <=> Holds(queue, {"DISASSOC_TIMEOUT"})
    BY <1>1, QueuedHolds DEF IInv, Types, SyncTypes, AssocTypes
  <2> QED BY <1>1, <2>1 DEF IInv, Body, Timed, Coming, MachinesEnd, Running
<1> QED BY <1>1, Invariant, PTL

\* The confirmation that the connection machine waits for is on its way.
THEOREM WaitsEnd == Spec => []WaitSupported
<1>1. ASSUME IInv PROVE WaitSupported
  <2>1. /\ Queued("SYNC", "SCAN_REQ") <=> Holds(queue, {"SCAN_REQ"})
        /\ Queued("SYNC", "JOIN_REQ") <=> Holds(queue, {"JOIN_REQ"})
        /\ Queued("AUTH", "AUTH_REQ") <=> Holds(queue, {"AUTH_REQ"})
        /\ Queued("ASSOC", "ASSOC_REQ") <=> Holds(queue, {"ASSOC_REQ"})
        /\ Queued("ASSOC", "DISASSOC_REQ") <=> Holds(queue, {"DISASSOC_REQ"})
    BY <1>1, QueuedHolds DEF IInv, Types, SyncTypes, AuthTypes, AssocTypes
  <2>2. /\ Queued("CNTL", "SCAN_CONF") <=> Holds(queue, {"SCAN_CONF"})
        /\ Queued("CNTL", "JOIN_CONF") <=> Holds(queue, {"JOIN_CONF"})
        /\ Queued("CNTL", "AUTH_CONF") <=> Holds(queue, {"AUTH_CONF"})
        /\ Queued("CNTL", "ASSOC_CONF") <=> Holds(queue, {"ASSOC_CONF"})
        /\ Queued("CNTL", "DISASSOC_CONF") <=> Holds(queue, {"DISASSOC_CONF"})
    BY <1>1, QueuedHolds DEF IInv, Types, CntlTypes
  <2> SUFFICES ASSUME Backed PROVE Supported(cntl)
    BY <1>1 DEF IInv, Body, WaitSupported
  <2>3. cntl \in CntlStates
    BY <1>1 DEF IInv, Types, MachineTypes
  <2>4. CASE cntl = "IDLE"
    BY <2>4 DEF Supported
  <2>5. CASE cntl = "WAIT_OID_LIST_SCAN"
    BY <2>1, <2>2, <2>5 DEF Backed, Pending, Supported
  <2>6. CASE cntl = "WAIT_JOIN"
    BY <2>1, <2>2, <2>6 DEF Backed, Pending, Supported
  <2>7. CASE cntl \in {"WAIT_AUTH", "WAIT_AUTH2"}
    BY <2>1, <2>2, <2>7 DEF Backed, Pending, Supported
  <2>8. CASE cntl = "WAIT_ASSOC"
    BY <2>1, <2>2, <2>8 DEF Backed, Pending, Supported
  <2>9. CASE cntl \in {"WAIT_DISASSOC", "WAIT_OID_DISASSOC"}
    BY <2>1, <2>2, <2>9 DEF Backed, Pending, Supported
  <2> QED BY <2>3, <2>4, <2>5, <2>6, <2>7, <2>8, <2>9 DEF CntlStates
<1> QED BY <1>1, Invariant, PTL

\* The flag that holds data frames back is lowered with the scan it was raised for.
THEOREM FlagFalls == Spec => []ScanFlagEnds
<1>1. ASSUME IInv PROVE ScanFlagEnds
  <2>1. /\ Queued("SYNC", "SCAN_REQ") <=> Holds(queue, {"SCAN_REQ"})
        /\ Queued("CNTL", "SCAN_CONF") <=> Holds(queue, {"SCAN_CONF"})
        /\ Queued("CNTL", "OID_BSSID_LIST_SCAN") <=> Holds(queue, {"OID_BSSID_LIST_SCAN"})
    BY <1>1, QueuedHolds DEF IInv, Types, SyncTypes, CntlTypes, Requests
  <2> QED BY <1>1, <2>1 DEF IInv, Body, Scans, FlagAwaited, ScanFlagEnds, ScanFlagLowered
<1> QED BY <1>1, Invariant, PTL

\* Only CntlWaitAssocProc raises the link.
LEMMA LinkRaised ==
  ASSUME IInv, [Next]_vars, link' # link, link' # NoAP
  PROVE  CntlWaitAssocProc /\ Elem.arg
<1>1. LinkDown => link' = NoAP
  BY DEF LinkDown
<1>2. CASE MlmeHandler
  <2>1. UNCHANGED linkVars => link' = link
    BY DEF linkVars
  <2>2. \/ UNCHANGED linkVars \/ LinkDown \/ UNCHANGED link \/ (CntlWaitAssocProc /\ Elem.arg)
    <3>1. CASE \/ MlmeRestartStateMachine \/ CntlOidSsidProc \/ CntlOidRTBssidProc
               \/ CntlOidScanProc \/ CntlOidDisassociate \/ CntlMlmeRoamingProc
               \/ CntlWaitDisassocProc \/ CntlWaitOidDisassoc \/ CntlWaitOidListScan
               \/ CntlWaitJoinProc \/ CntlWaitAuthProc \/ CntlWaitAuthProc2 \/ CntlDrop
      BY <3>1 DEF MlmeRestartStateMachine, CntlOidSsidProc, CntlOidRTBssidProc, CntlOidScanProc,
         CntlOidDisassociate, CntlMlmeRoamingProc, CntlWaitDisassocProc, CntlWaitOidDisassoc,
         CntlWaitOidListScan, CntlWaitJoinProc, CntlWaitAuthProc, CntlWaitAuthProc2, CntlDrop
    <3>2. CASE CntlWaitAssocProc
      BY <3>2 DEF CntlWaitAssocProc
    <3>3. CASE \/ MlmeScanReqAction \/ ScanTimeoutAction \/ PeerBeaconAtScanAction
               \/ MlmeJoinReqAction \/ PeerBeaconAtJoinAction \/ BeaconTimeoutAtJoinAction
               \/ InvalidStateSync \/ Drop
      BY <3>3 DEF MlmeScanReqAction, ScanTimeoutAction, PeerBeaconAtScanAction, MlmeJoinReqAction,
         PeerBeaconAtJoinAction, BeaconTimeoutAtJoinAction, InvalidStateSync, Drop
    <3>4. CASE \/ MlmeAuthReqAction \/ PeerAuthRspAtSeq2Action \/ PeerAuthRspAtSeq4Action
               \/ AuthFails \/ PeerDeauthAction
               \/ MlmeAssocReqAction \/ PeerAssocRspAction \/ AssocFails
               \/ MlmeDisassocReqAction \/ DisassocEnds \/ PeerDisassocAction
      BY <3>4 DEF MlmeAuthReqAction, PeerAuthRspAtSeq2Action, PeerAuthRspAtSeq4Action, AuthFails,
         PeerDeauthAction, MlmeAssocReqAction, PeerAssocRspAction, AssocFails,
         MlmeDisassocReqAction, DisassocEnds, PeerDisassocAction
    <3> QED BY <1>2, <3>1, <3>2, <3>3, <3>4 DEF MlmeHandler
  <2> QED BY <1>1, <2>1, <2>2
<1>3. CASE TimerTask
  BY <1>3 DEF TimerTask, TakeTimer, Timeout, ScanTimeout, LinkDownExec, WriteCntl, linkVars
<1>4. CASE Peers
  BY <1>4 DEF Peers, Beacon, Answer, Kick, Frame, Handshake, linkVars
<1>5. CASE User
  BY <1>5 DEF User, Set_SSID_Proc, rt_ioctl_siwap, UserScan, UserDisassociate, UserEnqueue, Request,
     linkVars
<1>6. CASE PeriodicDead \/ PeriodicBad \/ PeriodicRoam \/ PeriodicUnlinked
  BY <1>1, <1>6 DEF PeriodicDead, PeriodicBad, PeriodicRoam, PeriodicUnlinked, linkVars
<1>7. CASE UNCHANGED vars
  BY <1>7 DEF vars, linkVars
<1> QED BY <1>2, <1>3, <1>4, <1>5, <1>6, <1>7 DEF Next

\* The link comes up only to the access point that accepted the association, unless
\* what was left of an attempt that a reset ended was taken for an answer.
THEOREM LinkAccepted == Spec => LinkUpAccepted
<1>1. ASSUME IInv, [Next]_vars, link' # link, link' # NoAP
      PROVE  link' = accepted \/ (Excused \/ Misjoined)'
  <2>1. CntlWaitAssocProc /\ Elem.arg
    BY <1>1, LinkRaised
  <2>2. /\ queue # <<>> /\ Elem.type = "ASSOC_CONF" /\ cntl = "WAIT_ASSOC"
        /\ link' = bssid /\ UNCHANGED crossed /\ Reply(<<>>)
        /\ misled' = IF Queued("ASSOC", "ASSOC_REQ") THEN misled \cup {"ASSOC_CONF"} ELSE misled
    BY <2>1 DEF CntlWaitAssocProc, Handle, Elem, LinkUp, Misled
  <2>3. UNCHANGED dropped
    BY <1>1, <2>2, RepliedNone DEF IInv, Types
  <2>4. SUFFICES ASSUME ~Excused, ~Misjoined, ~Queued("ASSOC", "ASSOC_REQ")
                 PROVE  bssid = accepted
    BY <2>2, <2>3 DEF Excused, Misjoined
  <2>5. ~Holds(queue, {"ASSOC_REQ"})
    BY <1>1, <2>4, QueuedHolds DEF IInv, Types, AssocTypes
  <2>6. accepted = bssid \/ Regranted(queue)
    BY <1>1, <2>2, <2>4 DEF IInv, Body, Joins, Associating
  <2>7. ~Regranted(queue)
    BY <1>1, <2>1, <2>2, <2>5, HeadRegranted DEF IInv, Types, Bounded, Elem
  <2> QED BY <2>6, <2>7
<1>2. IInv /\ [Next]_vars =>
        [link' # link /\ link' # NoAP => link' = accepted \/ (Excused \/ Misjoined)']_vars
  BY <1>1
<1> QED BY <1>2, Invariant, PTL DEF Spec, LinkUpAccepted

=============================================================================

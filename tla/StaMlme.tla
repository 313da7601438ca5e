------------------------------ MODULE StaMlme -------------------------------
(***************************************************************************)
(* The station's MLME in infrastructure mode: the message queue, the thread *)
(* that takes its messages to the connection (CNTL), synchronisation,       *)
(* authentication and association machines, the timer task that runs the    *)
(* timeouts and the periodic work, and the thread of a user's requests.     *)
(* One message is handled in one step; the two other threads put messages   *)
(* into the queue, and write CntlMachine, between those steps.  An SSID is   *)
(* the set of the access points that carry it.                              *)
(***************************************************************************)
EXTENDS Integers, FiniteSets, SequencesExt

CONSTANTS
  AP,           \* access points
  Ssids,        \* the networks a user asks for, disjoint sets of access points
  QueueLen,     \* MAX_LEN_OF_MLME_QUEUE
  AuthMode,     \* StaCfg.AuthMode: "Open" (WPA too), "Shared" or "AutoSwitch"
  Psk,          \* a WPA pre-shared key without a supplicant: handshake in the driver
  NChan,        \* channels of a scan
  MaxEvents     \* bound: user requests, rounds of the periodic work, failed
                \* allocations, refusals, stray frames and kicks in one behaviour

ASSUME StaMlmeAssumption ==
  /\ IsFiniteSet(AP) /\ UNION Ssids = AP
  /\ \A S, T \in Ssids : S # T => S \cap T = {}
  /\ AuthMode \in {"Open", "Shared", "AutoSwitch"} /\ Psk \in BOOLEAN
  /\ QueueLen \in Nat \ {0} /\ NChan \in Nat \ {0}
  /\ MaxEvents \in Nat

NoAP == "NoAP"
NoSsid == {NoAP}  \* 32 zero bytes: MlmeValidateSSID refuses them

VARIABLES
  queue,                   \* Mlme.Queue
  cntl, sync, auth, assoc, \* CurrState of the machines
  armed,                   \* timers armed, or expired and still in the timer queue
  task,                    \* the timer task: "idle", the timer it has taken, or the
                           \* CntlMachine state it is about to write
  user,                    \* what the user's thread is about to enqueue
  bssid, alg, tab, idx,    \* MlmeAux.Bssid, Alg, SsidBssTab, BssIdx
  autoSsid,                \* MlmeAux.AutoReconnectSsid
  link,                    \* CommonCfg.Bssid while INFRA_ON
  PortSecured, bConfigChanged, CurrReqIsFromNdis,
  ScanTab,
  BSS_SCAN_IN_PROGRESS,
  Channel,                 \* of the scan, 0 when there is none left
  events,
  dropped,                 \* a message met a full queue
  crossed,                 \* ways in which two threads got in each other's way
  misled,                  \* confirmations that ended a wait for a later request
  accepted                 \* the access point that accepted the last association

machineVars == <<cntl, sync, auth, assoc>>
auxVars == <<bssid, alg, tab, idx, autoSsid>>
linkVars == <<link, PortSecured, bConfigChanged, CurrReqIsFromNdis>>
scanVars == <<ScanTab, BSS_SCAN_IN_PROGRESS, Channel>>
threadVars == <<armed, task, user>>
histVars == <<crossed, misled, accepted>>
vars == <<queue, dropped, machineVars, auxVars, linkVars, scanVars, threadVars,
          events, histVars>>

Msg(machine, type, ap, arg) == [machine |-> machine, type |-> type, ap |-> ap, arg |-> arg]
Nothing == Msg("none", "none", NoAP, {})

Init ==
  /\ queue = <<>> /\ dropped = FALSE
  /\ cntl = "IDLE" /\ sync = "IDLE" /\ auth = "IDLE" /\ assoc = "IDLE"
  /\ armed = {} /\ task = "idle" /\ user = Nothing
  /\ bssid = NoAP /\ alg = "OPEN" /\ tab = <<>> /\ idx = 0 /\ autoSsid \in Ssids \cup {{}}
  /\ link = NoAP /\ PortSecured = FALSE /\ bConfigChanged = FALSE /\ CurrReqIsFromNdis = FALSE
  /\ ScanTab \in SUBSET AP /\ BSS_SCAN_IN_PROGRESS = FALSE /\ Channel = 0
  /\ events = 0
  /\ crossed = {} /\ misled = {} /\ accepted = NoAP

----------------------------------------------------------------------------
(* The queue. *)

\* MlmeEnqueue of the messages ms, one after the other, to the queue q.
Post(q, ms) ==
  /\ queue' = SubSeq(q \o ms, 1, IF Len(q) + Len(ms) > QueueLen THEN QueueLen
                                 ELSE Len(q) + Len(ms))
  /\ dropped' = (dropped \/ Len(q) + Len(ms) > QueueLen)

Symmetry == Permutations(AP)
NotDropped == ~dropped
NotExcused == ~dropped /\ crossed = {}

\* A handler of the MLME thread: it takes the oldest message and posts others.
Handle(machine, type) ==
  queue # <<>> /\ Head(queue).machine = machine /\ Head(queue).type = type
Reply(ms) == Post(Tail(queue), ms)
Conf(type, ok) == Msg("CNTL", type, NoAP, ok)
Elem == Head(queue)

Queued(machine, type) ==
  \E i \in 1..Len(queue) : queue[i].machine = machine /\ queue[i].type = type

\* CNTL takes a confirmation, or a reset, although a request of this type, which
\* it answers or should have undone, is still queued or under way.
Misled(machine, type, underWay) ==
  /\ misled' = IF underWay \/ Queued(machine, type) THEN misled \cup {Elem.type} ELSE misled
  /\ UNCHANGED <<crossed, accepted>>

Event == events < MaxEvents /\ events' = events + 1
NoEvent == UNCHANGED events

SetTimer(t, cancelled) == armed' = (armed \ cancelled) \cup {t}
CancelTimer(ts) == armed' = armed \ ts

----------------------------------------------------------------------------
(* The link. *)

LinkDown ==
  /\ link' = NoAP /\ PortSecured' = FALSE /\ BSS_SCAN_IN_PROGRESS' = FALSE
  /\ CurrReqIsFromNdis' = FALSE
  /\ ScanTab' = IF CurrReqIsFromNdis THEN ScanTab ELSE ScanTab \ {link}
  /\ UNCHANGED <<bConfigChanged, Channel>>

LinkUp ==
  /\ link' = bssid /\ PortSecured' = ~Psk /\ bConfigChanged' = FALSE
  /\ BSS_SCAN_IN_PROGRESS' = FALSE
  /\ armed' = (armed \ {"Disassoc"}) \cup (IF Psk THEN {"LinkDown"} ELSE {})
  /\ UNCHANGED <<CurrReqIsFromNdis, ScanTab, Channel>>

\* Mutant of NextCandidate: the same access point is tried again.
SameCandidate(i) == i
NextCandidate(i) == i + 1

\* Asks to join the i-th candidate of the table t, or gives up.
IterateOnBssTab(t, i) ==
  /\ idx' = i
  /\ IF i < Len(t)
     THEN cntl' = "WAIT_JOIN" /\ Reply(<<Msg("SYNC", "JOIN_REQ", NoAP, i)>>)
     ELSE cntl' = "IDLE" /\ Reply(<<>>)

DisassocFirst ==
  /\ cntl' = "WAIT_DISASSOC"
  /\ Reply(<<Msg("ASSOC", "DISASSOC_REQ", link, {})>>)

----------------------------------------------------------------------------
(* The connection machine, MlmeCntlMachinePerformAction. *)

\* Mutant of ResetMachines: the association machine keeps its state.
ResetButAssoc == cntl' = "IDLE" /\ sync' = "IDLE" /\ auth' = "IDLE" /\ UNCHANGED assoc
ResetMachines == cntl' = "IDLE" /\ sync' = "IDLE" /\ auth' = "IDLE" /\ assoc' = "IDLE"

\* MT2_RESET_CONF: MlmeRestartStateMachine.
RestartTimers == {"Assoc", "Disassoc", "Auth", "Beacon", "Scan"}
MlmeRestartStateMachine ==
  /\ Handle("CNTL", "RESET_CONF") /\ Reply(<<>>)
  /\ ResetMachines
  /\ CancelTimer(RestartTimers)
  /\ BSS_SCAN_IN_PROGRESS' = FALSE
  /\ Misled("SYNC", "SCAN_REQ", FALSE)
  /\ UNCHANGED <<auxVars, linkVars, ScanTab, Channel, task, user, events>>

\* The orders in which BssTableSsidSort may leave the entries of a network.
SsidSort(ssid) == SetToSeqs(ssid \cap ScanTab)

\* SsidBssTab.BssEntry[i]: behind the last entry all is zero, BssTableInit.
Candidate(t, i) == IF i < Len(t) THEN t[i + 1] ELSE NoAP

CntlOidSsidProc ==
  LET ssid == Elem.arg IN
  /\ Handle("CNTL", "OID_SSID") /\ cntl = "IDLE"
  /\ bssid' = NoAP /\ autoSsid' = ssid
  /\ \E t \in SsidSort(ssid) :
       /\ tab' = t
       /\ \/ /\ link # NoAP /\ link = Candidate(t, 0)
             /\ IF (Psk /\ ~PortSecured) \/ bConfigChanged
                THEN DisassocFirst
                ELSE cntl' = "IDLE" /\ Reply(<<>>)
             /\ UNCHANGED <<idx, CurrReqIsFromNdis>>
          \/ /\ link # NoAP /\ link # Candidate(t, 0)
             /\ CurrReqIsFromNdis' = (CurrReqIsFromNdis \/ link \notin ssid)
             /\ DisassocFirst
             /\ UNCHANGED idx
          \/ /\ link = NoAP /\ t = <<>>
             /\ cntl' = "WAIT_OID_LIST_SCAN"
             /\ Reply(<<Msg("SYNC", "SCAN_REQ", NoAP, {})>>)
             /\ UNCHANGED <<idx, CurrReqIsFromNdis>>
          \/ /\ link = NoAP /\ t # <<>>
             /\ IterateOnBssTab(t, 0)
             /\ UNCHANGED CurrReqIsFromNdis
  /\ UNCHANGED <<sync, auth, assoc, alg, link, PortSecured, bConfigChanged,
                 scanVars, threadVars, events, histVars>>

\* The network of an access point, as its beacon gives it.
SsidOf(ap) == CHOOSE S \in Ssids : ap \in S

CntlOidRTBssidProc ==
  LET ap == Elem.ap IN
  /\ Handle("CNTL", "OID_BSSID") /\ cntl = "IDLE"
  /\ bssid' = ap
  /\ IF ap \notin ScanTab
     THEN /\ cntl' = "WAIT_OID_LIST_SCAN"
          /\ Reply(<<Msg("SYNC", "SCAN_REQ", NoAP, {})>>)
          /\ UNCHANGED <<tab, idx, autoSsid>>
     ELSE /\ autoSsid' = SsidOf(ap) /\ tab' = <<ap>>
          /\ IF link # NoAP THEN DisassocFirst /\ idx' = 0
             ELSE IterateOnBssTab(<<ap>>, 0)
  /\ UNCHANGED <<sync, auth, assoc, alg, linkVars, scanVars, threadVars,
                 events, histVars>>

CntlOidScanProc ==
  /\ Handle("CNTL", "OID_BSSID_LIST_SCAN") /\ cntl = "IDLE"
  /\ ScanTab' = ScanTab \cap {link}
  /\ cntl' = "WAIT_OID_LIST_SCAN"
  /\ Reply(<<Msg("SYNC", "SCAN_REQ", NoAP, {})>>)
  /\ UNCHANGED <<sync, auth, assoc, auxVars, linkVars, BSS_SCAN_IN_PROGRESS, Channel,
                 threadVars, events, histVars>>

CntlOidDisassociate ==
  /\ Handle("CNTL", "OID_DISASSOCIATE") /\ cntl = "IDLE"
  /\ autoSsid' = NoSsid
  /\ cntl' = "WAIT_OID_DISASSOC"
  /\ Reply(<<Msg("ASSOC", "DISASSOC_REQ", link, {})>>)
  /\ UNCHANGED <<sync, auth, assoc, bssid, alg, tab, idx, linkVars, scanVars,
                 threadVars, events, histVars>>

CntlMlmeRoamingProc ==
  /\ Handle("CNTL", "ROAMING_REQ") /\ cntl = "IDLE"
  /\ \E t \in SetToSeqs(Elem.arg) : tab' = t /\ IterateOnBssTab(t, 0)
  /\ UNCHANGED <<sync, auth, assoc, bssid, alg, autoSsid, linkVars, scanVars,
                 threadVars, events, histVars>>

CntlWaitDisassocProc ==
  /\ Handle("CNTL", "DISASSOC_CONF") /\ cntl = "WAIT_DISASSOC"
  /\ LinkDown
  /\ IterateOnBssTab(tab, 0)
  /\ UNCHANGED <<sync, auth, assoc, bssid, alg, tab, autoSsid, threadVars,
                 events, histVars>>

CntlWaitOidDisassoc ==
  /\ Handle("CNTL", "DISASSOC_CONF") /\ cntl = "WAIT_OID_DISASSOC"
  /\ LinkDown
  /\ cntl' = "IDLE" /\ Reply(<<>>)
  /\ UNCHANGED <<sync, auth, assoc, auxVars, threadVars, events, histVars>>

\* Mutant of Resume: only the end of the channel list lifts the flag.
NoResume == UNCHANGED BSS_SCAN_IN_PROGRESS
Resume == BSS_SCAN_IN_PROGRESS' = FALSE  \* RTMPResumeMsduTransmission

CntlWaitOidListScan ==
  /\ Handle("CNTL", "SCAN_CONF") /\ cntl = "WAIT_OID_LIST_SCAN"
  /\ Resume
  /\ cntl' = "IDLE" /\ Reply(<<>>)
  /\ Misled("SYNC", "SCAN_REQ", sync = "SCAN_LISTEN")
  /\ UNCHANGED <<sync, auth, assoc, auxVars, linkVars, ScanTab, Channel, threadVars,
                 events>>

FirstAlg == IF AuthMode = "Open" THEN "OPEN" ELSE "KEY"
AskAuth(a, c) == cntl' = c /\ Reply(<<Msg("AUTH", "AUTH_REQ", bssid, a)>>)
AskAssoc ==
  /\ cntl' = "WAIT_ASSOC" /\ Reply(<<Msg("ASSOC", "ASSOC_REQ", bssid, {})>>)
  /\ UNCHANGED idx

CntlWaitJoinProc ==
  /\ Handle("CNTL", "JOIN_CONF") /\ cntl = "WAIT_JOIN"
  /\ IF Elem.arg THEN AskAuth(FirstAlg, "WAIT_AUTH") /\ UNCHANGED idx
     ELSE IterateOnBssTab(tab, NextCandidate(idx))
  /\ Misled("SYNC", "JOIN_REQ", FALSE)
  /\ UNCHANGED <<sync, auth, assoc, bssid, alg, tab, autoSsid, linkVars, scanVars,
                 threadVars, events>>

CntlWaitAuthProc ==
  /\ Handle("CNTL", "AUTH_CONF") /\ cntl = "WAIT_AUTH"
  /\ IF Elem.arg THEN AskAssoc ELSE AskAuth(FirstAlg, "WAIT_AUTH2") /\ UNCHANGED idx
  /\ UNCHANGED <<sync, auth, assoc, bssid, alg, tab, autoSsid, linkVars, scanVars,
                 threadVars, events, histVars>>

CntlWaitAuthProc2 ==
  /\ Handle("CNTL", "AUTH_CONF") /\ cntl = "WAIT_AUTH2"
  /\ IF Elem.arg THEN AskAssoc
     ELSE IF AuthMode = "AutoSwitch" /\ alg = "KEY"
     THEN AskAuth("OPEN", "WAIT_AUTH2") /\ UNCHANGED idx
     ELSE IterateOnBssTab(tab, NextCandidate(idx))
  /\ UNCHANGED <<sync, auth, assoc, bssid, alg, tab, autoSsid, linkVars, scanVars,
                 threadVars, events, histVars>>

CntlWaitAssocProc ==
  /\ Handle("CNTL", "ASSOC_CONF") /\ cntl = "WAIT_ASSOC"
  /\ IF Elem.arg
     THEN LinkUp /\ cntl' = "IDLE" /\ Reply(<<>>) /\ UNCHANGED idx
     ELSE IterateOnBssTab(tab, NextCandidate(idx)) /\ UNCHANGED <<linkVars, scanVars, armed>>
  /\ Misled("ASSOC", "ASSOC_REQ", FALSE)
  /\ UNCHANGED <<sync, auth, assoc, bssid, alg, tab, autoSsid, task, user, events>>

\* What CNTL does with each type of message, and in which states.
CntlTakes(type) ==
  CASE type = "RESET_CONF" -> TRUE
    [] type \in {"OID_SSID", "OID_BSSID", "OID_BSSID_LIST_SCAN", "OID_DISASSOCIATE",
                 "ROAMING_REQ"} -> cntl = "IDLE"
    [] type = "SCAN_CONF" -> cntl = "WAIT_OID_LIST_SCAN"
    [] type = "DISASSOC_CONF" -> cntl \in {"WAIT_DISASSOC", "WAIT_OID_DISASSOC"}
    [] type = "JOIN_CONF" -> cntl = "WAIT_JOIN"
    [] type = "AUTH_CONF" -> cntl \in {"WAIT_AUTH", "WAIT_AUTH2"}
    [] type = "ASSOC_CONF" -> cntl = "WAIT_ASSOC"

Requests == {"OID_SSID", "OID_BSSID", "OID_BSSID_LIST_SCAN", "OID_DISASSOCIATE"}
CntlStates == {"IDLE", "WAIT_DISASSOC", "WAIT_OID_DISASSOC", "WAIT_OID_LIST_SCAN",
               "WAIT_JOIN", "WAIT_AUTH", "WAIT_AUTH2", "WAIT_ASSOC"}

\* No case of the machine takes the message.
CntlDrop ==
  /\ queue # <<>> /\ Elem.machine = "CNTL" /\ ~CntlTakes(Elem.type) /\ Reply(<<>>)
  /\ crossed' = IF Elem.type \in Requests THEN crossed \cup {Elem.type} ELSE crossed
  /\ UNCHANGED <<machineVars, auxVars, linkVars, scanVars, threadVars, events,
                 misled, accepted>>

----------------------------------------------------------------------------
(* The synchronisation machine. *)

\* Goes to channel c and listens, or, when there is none left, ends the scan.
ScanNextChannel(c, q) ==
  /\ Channel' = c
  /\ \/ /\ c = 0
        /\ sync' = "IDLE" /\ BSS_SCAN_IN_PROGRESS' = FALSE
        /\ Post(q, <<Conf("SCAN_CONF", TRUE)>>)
        /\ UNCHANGED <<armed, events>>
     \/ /\ c # 0
        /\ SetTimer("Scan", {"Beacon"}) /\ BSS_SCAN_IN_PROGRESS' = TRUE
        /\ \/ sync' = "SCAN_LISTEN" /\ Post(q, <<>>) /\ NoEvent
           \/ sync' = "IDLE" /\ Post(q, <<Conf("SCAN_CONF", FALSE)>>) /\ Event

MlmeScanReqAction ==
  /\ Handle("SYNC", "SCAN_REQ") /\ sync = "IDLE"
  /\ ScanNextChannel(1, Tail(queue))
  /\ UNCHANGED <<cntl, auth, assoc, auxVars, linkVars, ScanTab, task, user, histVars>>

ScanTimeoutAction ==
  /\ Handle("SYNC", "SCAN_TIMEOUT") /\ sync = "SCAN_LISTEN"
  /\ ScanNextChannel((Channel + 1) % (NChan + 1), Tail(queue))
  /\ UNCHANGED <<cntl, auth, assoc, auxVars, linkVars, ScanTab, task, user, histVars>>

PeerBeaconAtScanAction ==
  /\ Handle("SYNC", "PEER_BEACON") /\ sync = "SCAN_LISTEN"
  /\ ScanTab' = ScanTab \cup {Elem.ap}
  /\ Reply(<<>>)
  /\ UNCHANGED <<machineVars, auxVars, linkVars, BSS_SCAN_IN_PROGRESS, Channel, threadVars,
                 events, histVars>>

MlmeJoinReqAction ==
  /\ Handle("SYNC", "JOIN_REQ") /\ sync = "IDLE"
  /\ bssid' = Candidate(tab, Elem.arg)
  /\ SetTimer("Beacon", {"Scan"})
  /\ sync' = "JOIN_WAIT_BEACON" /\ Reply(<<>>)
  /\ UNCHANGED <<cntl, auth, assoc, alg, tab, idx, autoSsid, linkVars, scanVars,
                 task, user, events, histVars>>

PeerBeaconAtJoinAction ==
  /\ Handle("SYNC", "PEER_BEACON") /\ sync = "JOIN_WAIT_BEACON"
  /\ IF Elem.ap = bssid
     THEN /\ CancelTimer({"Beacon"}) /\ sync' = "IDLE"
          /\ Reply(<<Conf("JOIN_CONF", TRUE)>>)
     ELSE Reply(<<>>) /\ UNCHANGED <<armed, sync>>
  /\ UNCHANGED <<cntl, auth, assoc, auxVars, linkVars, scanVars, task, user, events,
                 histVars>>

\* Mutant of JoinFails: the connection machine is not told.
FailSilently == Reply(<<>>)
JoinFails == Reply(<<Conf("JOIN_CONF", FALSE)>>)

BeaconTimeoutAtJoinAction ==
  /\ Handle("SYNC", "BEACON_TIMEOUT") /\ sync = "JOIN_WAIT_BEACON"
  /\ sync' = "IDLE" /\ JoinFails
  /\ UNCHANGED <<cntl, auth, assoc, auxVars, linkVars, scanVars, threadVars, events,
                 histVars>>

\* InvalidStateWhenScan, InvalidStateWhenJoin.
InvalidStateSync ==
  /\ sync # "IDLE" /\ sync' = "IDLE"
  /\ \/ Handle("SYNC", "SCAN_REQ") /\ Reply(<<Conf("SCAN_CONF", FALSE)>>)
     \/ Handle("SYNC", "JOIN_REQ") /\ JoinFails
  /\ UNCHANGED <<cntl, auth, assoc, auxVars, linkVars, scanVars, threadVars, events,
                 histVars>>

SyncTakes(type) ==
  \/ type \in {"SCAN_REQ", "JOIN_REQ"}
  \/ type = "PEER_BEACON" /\ sync # "IDLE"
  \/ type = "SCAN_TIMEOUT" /\ sync = "SCAN_LISTEN"
  \/ type = "BEACON_TIMEOUT" /\ sync = "JOIN_WAIT_BEACON"

----------------------------------------------------------------------------
(* The authentication machine. *)

MlmeAuthReqAction ==
  /\ Handle("AUTH", "AUTH_REQ") /\ auth = "IDLE"
  /\ \/ /\ Event  \* bBlockAssoc: TKIP countermeasures
        /\ auth' = "WAIT_SEQ2" /\ Reply(<<Conf("AUTH_CONF", FALSE)>>)
        /\ UNCHANGED <<bssid, alg, armed>>
     \/ /\ Event  \* no memory for the frame
        /\ bssid' = Elem.ap /\ alg' = Elem.arg /\ CancelTimer({"Auth"})
        /\ auth' = "IDLE"
        /\ Reply(<<Conf("AUTH_CONF", FALSE), Conf("AUTH_CONF", FALSE)>>)
     \/ /\ NoEvent
        /\ bssid' = Elem.ap /\ alg' = Elem.arg /\ SetTimer("Auth", {})
        /\ auth' = "WAIT_SEQ2" /\ Reply(<<>>)
  /\ UNCHANGED <<cntl, sync, assoc, tab, idx, autoSsid, linkVars, scanVars, task,
                 user, histVars>>

\* Mutant of MyAnswer: the source of an answer is not compared.
AnyAnswer == TRUE
MyAnswer == Elem.ap = bssid

PeerAuthRspAtSeq2Action ==
  /\ Handle("AUTH", "PEER_AUTH_2") /\ auth = "WAIT_SEQ2" /\ MyAnswer
  /\ \/ /\ ~Elem.arg \/ alg = "OPEN"
        /\ CancelTimer({"Auth"}) /\ NoEvent
        /\ auth' = "IDLE" /\ Reply(<<Conf("AUTH_CONF", Elem.arg)>>)
     \/ /\ Elem.arg /\ alg # "OPEN"
        /\ SetTimer("Auth", {}) /\ NoEvent
        /\ auth' = "WAIT_SEQ4" /\ Reply(<<>>)
     \/ /\ Elem.arg /\ alg # "OPEN"  \* no memory
        /\ CancelTimer({"Auth"}) /\ Event
        /\ auth' = "IDLE" /\ Reply(<<Conf("AUTH_CONF", FALSE)>>)
  /\ UNCHANGED <<cntl, sync, assoc, auxVars, linkVars, scanVars, task, user, histVars>>

PeerAuthRspAtSeq4Action ==
  /\ Handle("AUTH", "PEER_AUTH_4") /\ auth = "WAIT_SEQ4" /\ MyAnswer
  /\ CancelTimer({"Auth"})
  /\ auth' = "IDLE" /\ Reply(<<Conf("AUTH_CONF", Elem.arg)>>)
  /\ UNCHANGED <<cntl, sync, assoc, auxVars, linkVars, scanVars, task, user, events,
                 histVars>>

\* AuthTimeoutAction, and InvalidStateWhenAuth for a request at a busy machine.
AuthFails ==
  /\ auth # "IDLE" /\ (Handle("AUTH", "AUTH_TIMEOUT") \/ Handle("AUTH", "AUTH_REQ"))
  /\ auth' = "IDLE" /\ Reply(<<Conf("AUTH_CONF", FALSE)>>)
  /\ UNCHANGED <<cntl, sync, assoc, auxVars, linkVars, scanVars, threadVars, events,
                 histVars>>

AuthTakes(type) ==
  \/ type = "AUTH_REQ"
  \/ type = "AUTH_TIMEOUT" /\ auth # "IDLE"
  \/ type = "PEER_AUTH_2" /\ auth = "WAIT_SEQ2" /\ MyAnswer
  \/ type = "PEER_AUTH_4" /\ auth = "WAIT_SEQ4" /\ MyAnswer
  \/ type = "PEER_DEAUTH" /\ link # NoAP /\ Elem.ap = link

\* The machine of auth_rsp.c, always idle.
PeerDeauthAction ==
  /\ Handle("AUTH", "PEER_DEAUTH") /\ link # NoAP /\ Elem.ap = link
  /\ LinkDown /\ Reply(<<>>)
  /\ UNCHANGED <<machineVars, auxVars, threadVars, events, histVars>>

----------------------------------------------------------------------------
(* The association machine. *)

MlmeAssocReqAction ==
  /\ Handle("ASSOC", "ASSOC_REQ") /\ assoc = "IDLE"
  /\ \/ /\ Event
        /\ \/ UNCHANGED <<bssid, armed>>  \* bBlockAssoc
           \/ bssid' = Elem.ap /\ CancelTimer({"Assoc"})  \* no memory
        /\ assoc' = "IDLE" /\ Reply(<<Conf("ASSOC_CONF", FALSE)>>)
     \/ /\ NoEvent
        /\ bssid' = Elem.ap /\ SetTimer("Assoc", {})
        /\ assoc' = "WAIT_RSP" /\ Reply(<<>>)
  /\ UNCHANGED <<cntl, sync, auth, alg, tab, idx, autoSsid, linkVars, scanVars, task,
                 user, histVars>>

PeerAssocRspAction ==
  /\ Handle("ASSOC", "PEER_ASSOC_RSP") /\ assoc = "WAIT_RSP" /\ MyAnswer
  /\ CancelTimer({"Assoc"})
  /\ accepted' = IF Elem.arg THEN Elem.ap ELSE accepted
  /\ assoc' = "IDLE" /\ Reply(<<Conf("ASSOC_CONF", Elem.arg)>>)
  /\ UNCHANGED <<cntl, sync, auth, auxVars, linkVars, scanVars, task, user, events,
                 crossed, misled>>

\* AssocTimeoutAction, and InvalidStateWhenAssoc.
AssocFails ==
  /\ \/ assoc = "WAIT_RSP" /\ Handle("ASSOC", "ASSOC_TIMEOUT")
     \/ assoc # "IDLE" /\ Handle("ASSOC", "ASSOC_REQ")
  /\ assoc' = "IDLE" /\ Reply(<<Conf("ASSOC_CONF", FALSE)>>)
  /\ UNCHANGED <<cntl, sync, auth, auxVars, linkVars, scanVars, threadVars, events,
                 histVars>>

MlmeDisassocReqAction ==
  /\ Handle("ASSOC", "DISASSOC_REQ") /\ assoc = "IDLE"
  /\ \/ /\ Event
        /\ assoc' = "IDLE" /\ Reply(<<Conf("DISASSOC_CONF", FALSE)>>) /\ UNCHANGED armed
     \/ /\ NoEvent
        /\ SetTimer("Disassoc", {})
        /\ assoc' = "DISASSOC_WAIT_RSP" /\ Reply(<<>>)
  /\ UNCHANGED <<cntl, sync, auth, auxVars, linkVars, scanVars, task, user, histVars>>

\* DisassocTimeoutAction, and InvalidStateWhenDisassociate.
DisassocEnds ==
  /\ \/ assoc = "DISASSOC_WAIT_RSP" /\ Handle("ASSOC", "DISASSOC_TIMEOUT")
     \/ assoc # "IDLE" /\ Handle("ASSOC", "DISASSOC_REQ")
  /\ assoc' = "IDLE" /\ Reply(<<Conf("DISASSOC_CONF", TRUE)>>)
  /\ UNCHANGED <<cntl, sync, auth, auxVars, linkVars, scanVars, threadVars, events,
                 histVars>>

PeerDisassocAction ==
  /\ Handle("ASSOC", "PEER_DISASSOC_REQ") /\ link # NoAP /\ Elem.ap = link
  /\ LinkDown /\ assoc' = "IDLE" /\ Reply(<<>>)
  /\ crossed' = IF assoc = "IDLE" THEN crossed ELSE crossed \cup {"PEER_DISASSOC_REQ"}
  /\ UNCHANGED <<cntl, sync, auth, auxVars, threadVars, events, misled, accepted>>

AssocTakes(type) ==
  \/ type \in {"ASSOC_REQ", "DISASSOC_REQ"}
  \/ type = "ASSOC_TIMEOUT" /\ assoc = "WAIT_RSP"
  \/ type = "DISASSOC_TIMEOUT" /\ assoc = "DISASSOC_WAIT_RSP"
  \/ type = "PEER_ASSOC_RSP" /\ assoc = "WAIT_RSP" /\ MyAnswer
  \/ type = "PEER_DISASSOC_REQ" /\ link # NoAP /\ Elem.ap = link

\* Drop: the state of the machine has no use for the message.
Drop ==
  /\ queue # <<>>
  /\ \/ Elem.machine = "SYNC" /\ ~SyncTakes(Elem.type)
     \/ Elem.machine = "AUTH" /\ ~AuthTakes(Elem.type)
     \/ Elem.machine = "ASSOC" /\ ~AssocTakes(Elem.type)
  /\ Reply(<<>>)
  /\ UNCHANGED <<machineVars, auxVars, linkVars, scanVars, threadVars, events,
                 histVars>>

----------------------------------------------------------------------------
(* Access points and the handshake. *)

Frame(machine, type, ap, ok) ==
  /\ Post(queue, <<Msg(machine, type, ap, ok)>>)
  /\ UNCHANGED <<machineVars, auxVars, linkVars, scanVars, threadVars,
                 histVars>>

\* A beacon; one that SYNC would drop, or behind another, changes nothing here.
Beacon(ap) ==
  /\ sync # "IDLE" /\ ~Queued("SYNC", "PEER_BEACON")
  /\ Frame("SYNC", "PEER_BEACON", ap, TRUE)
  /\ IF sync = "SCAN_LISTEN" \/ ap = bssid THEN NoEvent ELSE Event

\* An answer, which may be the late answer to an older frame; one that the machine
\* would drop changes nothing here.
Answer(ap, ok) ==
  /\ IF ap = bssid /\ ok THEN NoEvent ELSE Event
  /\ \/ auth = "WAIT_SEQ2" /\ ~Queued("AUTH", "PEER_AUTH_2") /\ Frame("AUTH", "PEER_AUTH_2", ap, ok)
     \/ auth = "WAIT_SEQ4" /\ ~Queued("AUTH", "PEER_AUTH_4") /\ Frame("AUTH", "PEER_AUTH_4", ap, ok)
     \/ assoc = "WAIT_RSP" /\ ~Queued("ASSOC", "PEER_ASSOC_RSP")
        /\ Frame("ASSOC", "PEER_ASSOC_RSP", ap, ok)

\* The access point of the link ends it.
Kick ==
  /\ link # NoAP /\ Event
  /\ \/ Frame("ASSOC", "PEER_DISASSOC_REQ", link, TRUE)
     \/ Frame("AUTH", "PEER_DEAUTH", link, TRUE)

\* The four-way handshake, outside this module.
Handshake ==
  /\ link # NoAP /\ ~PortSecured /\ PortSecured' = TRUE
  /\ UNCHANGED <<queue, dropped, machineVars, auxVars, link, bConfigChanged,
                 CurrReqIsFromNdis, scanVars, threadVars, events, histVars>>

----------------------------------------------------------------------------
(* A user's requests: a reset if CNTL is not idle, then the request. *)

Request(m) ==
  /\ user = Nothing /\ Event
  /\ user' = m
  /\ IF cntl # "IDLE" THEN Post(queue, <<Msg("CNTL", "RESET_CONF", NoAP, {})>>)
     ELSE UNCHANGED <<queue, dropped>>
  /\ UNCHANGED <<machineVars, bssid, alg, tab, idx, link, PortSecured, ScanTab,
                 Channel, armed, task, histVars>>

Set_SSID_Proc(ssid) ==
  /\ Request(Msg("CNTL", "OID_SSID", NoAP, ssid))
  /\ CurrReqIsFromNdis' = TRUE /\ bConfigChanged' = TRUE
  /\ UNCHANGED <<autoSsid, BSS_SCAN_IN_PROGRESS>>

rt_ioctl_siwap(ap) ==
  /\ Request(Msg("CNTL", "OID_BSSID", ap, {}))
  /\ CurrReqIsFromNdis' = FALSE /\ autoSsid' = NoSsid
  /\ UNCHANGED <<bConfigChanged, BSS_SCAN_IN_PROGRESS>>

UserScan ==
  /\ ~BSS_SCAN_IN_PROGRESS /\ ~(Psk /\ link # NoAP /\ ~PortSecured)
  /\ Request(Msg("CNTL", "OID_BSSID_LIST_SCAN", NoAP, {}))
  /\ CurrReqIsFromNdis' = FALSE /\ BSS_SCAN_IN_PROGRESS' = TRUE
  /\ UNCHANGED <<autoSsid, bConfigChanged>>

UserDisassociate ==
  /\ link # NoAP
  /\ Request(Msg("CNTL", "OID_DISASSOCIATE", NoAP, {}))
  /\ CurrReqIsFromNdis' = TRUE
  /\ UNCHANGED <<autoSsid, bConfigChanged, BSS_SCAN_IN_PROGRESS>>

UserEnqueue ==
  /\ user # Nothing /\ user' = Nothing /\ Post(queue, <<user>>)
  /\ UNCHANGED <<machineVars, auxVars, linkVars, scanVars, armed, task, events,
                 histVars>>

----------------------------------------------------------------------------
(* The timer task. *)

\* RtmpTimerQHandle takes an expired timer: a cancel comes too late now.
TakeTimer(t) ==
  /\ task = "idle" /\ t \in armed /\ task' = t /\ armed' = armed \ {t}
  /\ UNCHANGED <<queue, dropped, machineVars, auxVars, linkVars, scanVars, user,
                 events, histVars>>

\* BeaconTimeout, AuthTimeout, AssocTimeout, DisassocTimeout.
TimeoutMsg == [Beacon |-> Msg("SYNC", "BEACON_TIMEOUT", NoAP, {}),
               Auth |-> Msg("AUTH", "AUTH_TIMEOUT", NoAP, {}),
               Assoc |-> Msg("ASSOC", "ASSOC_TIMEOUT", NoAP, {}),
               Disassoc |-> Msg("ASSOC", "DISASSOC_TIMEOUT", NoAP, {})]
Timeout ==
  /\ task \in DOMAIN TimeoutMsg /\ task' = "idle"
  /\ Post(queue, <<TimeoutMsg[task]>>)
  /\ UNCHANGED <<machineVars, auxVars, linkVars, scanVars, armed, user, events,
                 histVars>>

\* With no room in the queue it ends the scan itself.
ScanTimeout ==
  /\ task = "Scan" /\ task' = "idle"
  /\ IF Len(queue) < QueueLen
     THEN Post(queue, <<Msg("SYNC", "SCAN_TIMEOUT", NoAP, {})>>)
          /\ UNCHANGED <<sync, BSS_SCAN_IN_PROGRESS, Channel, armed, events>>
     ELSE ScanNextChannel(0, queue)
  /\ UNCHANGED <<cntl, auth, assoc, auxVars, linkVars, ScanTab, user,
                 histVars>>

LinkDownExec ==
  /\ task = "LinkDown"
  /\ IF link # NoAP /\ ~PortSecured
     THEN /\ task' = "WAIT_DISASSOC" /\ Post(queue, <<Msg("ASSOC", "DISASSOC_REQ", link, {})>>)
          /\ crossed' = IF cntl = "IDLE" THEN crossed ELSE crossed \cup {"WriteCntl"}
     ELSE task' = "idle" /\ UNCHANGED <<queue, dropped, crossed>>
  /\ UNCHANGED <<machineVars, auxVars, linkVars, scanVars, armed, user, events,
                 misled, accepted>>

\* What a machine that is not idle waits for will come.
Running(t, machine, msg) == t \in armed \/ task = t \/ Queued(machine, msg)

\* The confirmation that CNTL waits for in state c is on its way.
Supported(c) ==
  CASE c = "IDLE" -> TRUE
    [] c = "WAIT_OID_LIST_SCAN" ->
         Queued("SYNC", "SCAN_REQ") \/ sync = "SCAN_LISTEN" \/ Queued("CNTL", "SCAN_CONF")
    [] c = "WAIT_JOIN" ->
         Queued("SYNC", "JOIN_REQ") \/ sync = "JOIN_WAIT_BEACON" \/ Queued("CNTL", "JOIN_CONF")
    [] c \in {"WAIT_AUTH", "WAIT_AUTH2"} ->
         Queued("AUTH", "AUTH_REQ") \/ auth # "IDLE" \/ Queued("CNTL", "AUTH_CONF")
    [] c = "WAIT_ASSOC" ->
         Queued("ASSOC", "ASSOC_REQ") \/ assoc = "WAIT_RSP" \/ Queued("CNTL", "ASSOC_CONF")
    [] c \in {"WAIT_DISASSOC", "WAIT_OID_DISASSOC"} ->
         Queued("ASSOC", "DISASSOC_REQ") \/ assoc = "DISASSOC_WAIT_RSP"
           \/ Queued("CNTL", "DISASSOC_CONF")

\* The task enqueued a request itself and now makes CNTL wait for it.  That goes
\* well if CNTL is idle, the answer is still to come and no earlier request, which
\* could disturb this one, is left in the queue.
WriteCntl ==
  /\ task \in {"WAIT_DISASSOC", "WAIT_OID_LIST_SCAN"} /\ task' = "idle"
  /\ cntl' = task
  /\ crossed' = IF /\ cntl = "IDLE" /\ Supported(task)
                   /\ ~Queued("SYNC", "JOIN_REQ") /\ ~Queued("ASSOC", "ASSOC_REQ")
                THEN crossed ELSE crossed \cup {"WriteCntl"}
  /\ UNCHANGED <<queue, dropped, sync, auth, assoc, auxVars, linkVars, scanVars, armed, user,
                 events, misled, accepted>>

\* STAMlmePeriodicExec.
Periodic ==
  /\ task = "idle" /\ Event
  /\ UNCHANGED <<machineVars, bssid, alg, tab, idx, autoSsid, Channel, armed, user,
                 histVars>>

CntlPost(m) == cntl = "IDLE" /\ Post(queue, <<m>>)
MlmeAutoReconnectLastSSID ==
  autoSsid # NoSsid /\ CntlPost(Msg("CNTL", "OID_SSID", NoAP, autoSsid))
MlmeAutoScan == CntlPost(Msg("CNTL", "OID_BSSID_LIST_SCAN", NoAP, {}))

PeriodicDead ==  \* no beacons any more
  /\ link # NoAP /\ Periodic /\ LinkDown
  /\ IF cntl = "IDLE" /\ autoSsid # NoSsid THEN MlmeAutoReconnectLastSSID
     ELSE UNCHANGED <<queue, dropped>>
  /\ UNCHANGED <<task>>

PeriodicBad ==
  /\ link # NoAP /\ Periodic /\ MlmeAutoReconnectLastSSID
  /\ UNCHANGED <<task, linkVars, ScanTab, BSS_SCAN_IN_PROGRESS>>

\* MlmeCheckForFastRoaming, and the scan when there is no candidate.
PeriodicRoam ==
  /\ link # NoAP /\ Periodic /\ ~BSS_SCAN_IN_PROGRESS /\ sync = "IDLE"
  /\ \E roamTab \in SUBSET ((ScanTab \cap SsidOf(link)) \ {link}) :
       IF roamTab # {} THEN CntlPost(Msg("CNTL", "ROAMING_REQ", NoAP, roamTab))
       ELSE MlmeAutoScan
  /\ UNCHANGED <<task, linkVars, ScanTab, BSS_SCAN_IN_PROGRESS>>

PeriodicUnlinked ==
  /\ link = NoAP /\ autoSsid # NoSsid /\ Periodic
  /\ \/ /\ ScanTab = {} /\ CntlPost(Msg("SYNC", "SCAN_REQ", NoAP, {}))
        /\ task' = "WAIT_OID_LIST_SCAN"
     \/ /\ ScanTab # {} /\ (MlmeAutoScan \/ MlmeAutoReconnectLastSSID)
        /\ UNCHANGED task
  /\ UNCHANGED <<linkVars, ScanTab, BSS_SCAN_IN_PROGRESS>>

----------------------------------------------------------------------------
MlmeHandler ==
  \/ MlmeRestartStateMachine \/ CntlOidSsidProc \/ CntlOidRTBssidProc \/ CntlOidScanProc
  \/ CntlOidDisassociate \/ CntlMlmeRoamingProc \/ CntlWaitDisassocProc
  \/ CntlWaitOidDisassoc \/ CntlWaitOidListScan \/ CntlWaitJoinProc \/ CntlWaitAuthProc
  \/ CntlWaitAuthProc2 \/ CntlWaitAssocProc \/ CntlDrop
  \/ MlmeScanReqAction \/ ScanTimeoutAction \/ PeerBeaconAtScanAction \/ MlmeJoinReqAction
  \/ PeerBeaconAtJoinAction \/ BeaconTimeoutAtJoinAction \/ InvalidStateSync
  \/ MlmeAuthReqAction \/ PeerAuthRspAtSeq2Action \/ PeerAuthRspAtSeq4Action \/ AuthFails
  \/ PeerDeauthAction
  \/ MlmeAssocReqAction \/ PeerAssocRspAction \/ AssocFails \/ MlmeDisassocReqAction
  \/ DisassocEnds \/ PeerDisassocAction
  \/ Drop

Timers == {"Scan", "Beacon", "Auth", "Assoc", "Disassoc", "LinkDown"}
TimerTask ==
  \/ \E t \in Timers : TakeTimer(t)
  \/ Timeout \/ ScanTimeout \/ LinkDownExec \/ WriteCntl

Peers ==
  \/ \E ap \in AP : Beacon(ap)
  \/ \E ap \in AP, ok \in BOOLEAN : Answer(ap, ok)
  \/ Kick \/ Handshake

User ==
  \/ \E ssid \in Ssids : Set_SSID_Proc(ssid)
  \/ \E ap \in AP : rt_ioctl_siwap(ap)
  \/ UserScan \/ UserDisassociate \/ UserEnqueue

Next ==
  \/ MlmeHandler \/ TimerTask \/ Peers \/ User
  \/ PeriodicDead \/ PeriodicBad \/ PeriodicRoam \/ PeriodicUnlinked

\* The MLME thread and the timer task run on; so does the thread of a request
\* it has begun.  Access points and users owe nothing.
Spec ==
  /\ Init /\ [][Next]_vars
  /\ WF_vars(MlmeHandler) /\ WF_vars(TimerTask) /\ WF_vars(UserEnqueue)

----------------------------------------------------------------------------
\* The values of the variables.
TypeOK ==
  /\ Len(queue) <= QueueLen /\ dropped \in BOOLEAN
  /\ \A i \in 1..Len(queue) :
       queue[i].machine \in {"CNTL", "SYNC", "AUTH", "ASSOC"} /\ queue[i].ap \in AP \cup {NoAP}
  /\ cntl \in CntlStates
  /\ sync \in {"IDLE", "SCAN_LISTEN", "JOIN_WAIT_BEACON"}
  /\ auth \in {"IDLE", "WAIT_SEQ2", "WAIT_SEQ4"}
  /\ assoc \in {"IDLE", "WAIT_RSP", "DISASSOC_WAIT_RSP"}
  /\ armed \subseteq Timers
  /\ task \in Timers \cup {"idle", "WAIT_DISASSOC", "WAIT_OID_LIST_SCAN"}
  /\ bssid \in AP \cup {NoAP} /\ alg \in {"OPEN", "KEY"}
  /\ \A i \in 1..Len(tab) : tab[i] \in AP
  /\ idx \in 0..Cardinality(AP)
  /\ autoSsid \subseteq AP \cup {NoAP}
  /\ link \in AP \cup {NoAP} /\ PortSecured \in BOOLEAN
  /\ bConfigChanged \in BOOLEAN /\ CurrReqIsFromNdis \in BOOLEAN
  /\ ScanTab \subseteq AP /\ BSS_SCAN_IN_PROGRESS \in BOOLEAN /\ Channel \in 0..NChan
  /\ accepted \in AP \cup {NoAP}

\* Two threads got in each other's way: a full queue lost a message, the
\* connection machine was busy with one request when another came up, the timer
\* task wrote CntlMachine over a request under way, or a disassociation from the
\* access point ended one the station had begun.
Excused == dropped \/ crossed # {}

\* A user's reset ended an attempt whose requests were still queued, and what they
\* led to was later taken for the answer to a new request.
Misjoined == misled \cap {"JOIN_CONF", "ASSOC_CONF"} # {}
Misscanned == misled \cap {"SCAN_CONF", "RESET_CONF"} # {}

\* A synchronisation or association machine that waits for a peer has its timer
\* armed, or the timeout taken by the timer task or in the queue, although resets,
\* cancels and link-ups stop timers of other machines (connect.c, sync.c, assoc.c,
\* mlme.c:5104).  The authentication machine is not among them: refused under
\* bBlockAssoc it waits without a timer, its confirmation already posted (auth.c:432).
MachinesEnd ==
  \/ Excused
  \/ /\ sync = "SCAN_LISTEN" => Running("Scan", "SYNC", "SCAN_TIMEOUT")
     /\ sync = "JOIN_WAIT_BEACON" => Running("Beacon", "SYNC", "BEACON_TIMEOUT")
     /\ assoc = "WAIT_RSP" => Running("Assoc", "ASSOC", "ASSOC_TIMEOUT")
     /\ assoc = "DISASSOC_WAIT_RSP" =>
          Misjoined \/ Running("Disassoc", "ASSOC", "DISASSOC_TIMEOUT")

\* Whatever resets, late answers, timeouts and repeated requests come between,
\* the confirmation the connection machine waits for is still on its way
\* (connect.c, against the machines it asks).
WaitSupported == Excused \/ Supported(cntl)

\* The link never comes up to an access point other than the one whose
\* association response was accepted, although late answers, roaming and new
\* requests rewrite MlmeAux.Bssid in between (connect.c:1113, assoc.c:874).
LinkUpAccepted ==
  [][link' # link /\ link' # NoAP => link' = accepted \/ (Excused \/ Misjoined)']_vars

\* The flag that suspends data frames (rtusb_bulk.c:1001) and refuses further
\* scans (sta_ioctl.c:3400) is up only while a scan is under way, or is on its
\* way to start or to be confirmed.
ScanFlagLowered ==
  \/ Excused \/ task = "WAIT_OID_LIST_SCAN"
  \/ BSS_SCAN_IN_PROGRESS =>
       sync = "SCAN_LISTEN" \/ Queued("SYNC", "SCAN_REQ") \/ Queued("CNTL", "OID_BSSID_LIST_SCAN")
         \/ Queued("CNTL", "SCAN_CONF") \/ user.type = "OID_BSSID_LIST_SCAN"

\* The same, as long as no confirmation of an earlier scan is taken for that of
\* a later one, and no reset leaves a request to scan behind.
ScanFlagEnds == Misscanned \/ ScanFlagLowered

\* An attempt to connect, scan or disconnect ends, whether or not peers answer:
\* the connection machine comes back to idle (connect.c).
AttemptEnds == cntl # "IDLE" ~> cntl = "IDLE" \/ Excused

\* A request to join an access point, which only a user makes, is not lost to one
\* of the driver's own: "check CntlMachine.CurrState to avoid collision with NDIS
\* SetOID request" (mlme.c:1648, 1686).
OidBssidTaken == "OID_BSSID" \notin crossed
=============================================================================

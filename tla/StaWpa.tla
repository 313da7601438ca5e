------------------------------- MODULE StaWpa --------------------------------
(***************************************************************************)
(* The supplicant of the station: the four-way and the group handshake with *)
(* one access point after another, over a medium that loses and reorders     *)
(* frames and through the bounded MLME queue; the keys and the entry of the  *)
(* MAC table that link up, link down and a change of access point make and   *)
(* clear, the command thread that copies the entry's address into the        *)
(* hardware's table, and the timer that ends a link which is not secured.    *)
(***************************************************************************)
EXTENDS Integers, Sequences, SequencesExt

CONSTANTS
  AP,           \* addresses of access points
  NoAP,
  QueueLen,     \* MAX_LEN_OF_MLME_QUEUE
  FirstR,       \* replay counter of the first message of an access point, 0 or 1
  MaxLinks,     \* bound: associations in one behaviour
  MaxTries,     \* bound: times an access point repeats itself in an association
  MaxRekeys     \* bound: times it starts another handshake in an association

ASSUME StaWpaAssumption ==
  /\ NoAP \notin AP /\ QueueLen \in Nat \ {0} /\ FirstR \in {0, 1}
  /\ MaxLinks \in Nat /\ MaxTries \in Nat /\ MaxRekeys \in Nat

VARIABLES
  wpa2,                        \* AuthMode is WPA2PSK, not WPAPSK
  link, bssid,                 \* association the station is up on, 0 is none; CommonCfg.Bssid
  addr, R_Counter, ANonce, PTK,  \* MacTab.Content[BSSID_WCID]
  key, gtk, PortSecured,       \* SharedKey[BSS0][0] and the group key, with the hardware's copies
  LinkDownTimer, posting,      \* armed; LinkDownExec has seen the port unsecured
  queue, at,                   \* MLME messages, and where the thread is in LinkUp or LinkDown
  wcid, cmds,                  \* address in the hardware's WCID table; commands to rewrite it
  swept,                       \* such a command ran between the two halves of LinkUp
  dropped,                     \* LinkDownExec found the queue full
  ap,                          \* the access point of the latest association
  toSta, toAp                  \* EAPOL frames in the air

entryVars == <<bssid, addr, R_Counter, ANonce, PTK>>
keyVars == <<key, gtk, PortSecured>>
timerVars == <<LinkDownTimer, posting, dropped>>
hwVars == <<wcid, cmds, swept>>
airVars == <<ap, toSta, toAp>>
vars == <<wpa2, link, entryVars, keyVars, timerVars, queue, at, hwVars, airVars>>

\* Keys and nonces: <<association, handshake>> is an ANonce, the counter of the message
\* that drew it a SNonce, and the two with each other the key derived from them.
NoKey == <<>>
DerivePTK(anonce, snonce) == Append(anonce, snonce)

Init ==
  /\ wpa2 \in BOOLEAN
  /\ link = 0 /\ bssid = NoAP /\ addr = NoAP /\ R_Counter = 0 /\ ANonce = NoKey /\ PTK = NoKey
  /\ key = NoKey /\ gtk = NoKey /\ PortSecured = FALSE
  /\ LinkDownTimer = FALSE /\ posting = FALSE /\ dropped = FALSE
  /\ queue = <<>> /\ at = "idle"
  /\ wcid = NoAP /\ cmds = 0 /\ swept = FALSE
  /\ ap = [st |-> "idle", bss |-> NoAP, link |-> 0, hs |-> 0, group |-> 0, r |-> 0, ptk |-> NoKey,
           key |-> NoKey, tries |-> 0, rekeys |-> 0]
  /\ toSta = {} /\ toAp = {}

\* Room in the queue; the message in hand stands at its head and no longer counts.
Room == Len(queue) < QueueLen + (IF at \in {"roam", "deleting"} THEN 1 ELSE 0)

----------------------------------------------------------------------------
(* The access point. A frame is lost when nobody takes it from the air. *)

NonceOf(a) == <<a.link, a.hs>>
GroupKeyOf(a) == <<a.link, a.group>>

Frame(type, r, nonce, mic, group, enc) ==
  [type |-> type, r |-> r, nonce |-> nonce, mic |-> mic, gtk |-> group, enc |-> enc]

\* What the access point says in each of its states, encrypted once it has a key.
Says(a) ==
  CASE a.st = "wait2" -> Frame("m1", a.r, NonceOf(a), NoKey, NoKey, a.key)
    [] a.st = "wait4" -> Frame("m3", a.r, NonceOf(a), a.ptk, IF wpa2 THEN GroupKeyOf(a) ELSE NoKey, a.key)
    [] a.st = "waitg" -> Frame("g1", a.r, NoKey, a.ptk, GroupKeyOf(a), a.key)

\* The access point goes on as `a', and no longer listens to answers to what it said before.
Goes(a) == ap' = a /\ toSta' = toSta \cup {Says(a)} /\ toAp' = {}
NextR(a) == [a EXCEPT !.r = @ + 1]

\* The station has asked an access point for an association and got it: its answer waits
\* for the MLME thread. The station is tuned to it, so that no older frame is received.
Associate(b) ==
  LET a == [st |-> "wait2", bss |-> b, link |-> ap.link + 1, hs |-> 1, group |-> 1, r |-> FirstR,
            ptk |-> NoKey, key |-> NoKey, tries |-> 0, rekeys |-> 0] IN
  /\ ap.link < MaxLinks /\ at = "idle" /\ b # bssid
  /\ Room /\ \A i \in 1..Len(queue) : queue[i].type # "assoc"
  /\ queue' = Append(queue, [type |-> "assoc", bss |-> b, link |-> a.link])
  /\ ap' = a /\ toSta' = {Says(a)} /\ toAp' = {}
  /\ UNCHANGED <<wpa2, link, entryVars, keyVars, timerVars, at, hwVars>>

ApFrame == UNCHANGED <<wpa2, link, entryVars, keyVars, timerVars, at, hwVars>>

\* The answers to its latest message.
ApReceive(m) ==
  LET took == [ap EXCEPT !.ptk = DerivePTK(NonceOf(ap), m.nonce), !.st = "wait4"]
      done == [ap EXCEPT !.key = ap.ptk, !.st = IF wpa2 THEN "done" ELSE "waitg"] IN
  /\ m \in toAp /\ m.r = ap.r
  /\ \/ m.type = "m2" /\ ap.st = "wait2" /\ m.mic = took.ptk /\ Goes(NextR(took))
     \/ /\ m.type = "m4" /\ ap.st = "wait4" /\ m.mic = ap.ptk
        /\ IF wpa2 THEN ap' = done /\ toAp' = {} /\ UNCHANGED toSta ELSE Goes(NextR(done))
     \/ /\ m.type = "g2" /\ ap.st = "waitg" /\ m.mic = ap.ptk /\ m.enc = ap.key
        /\ ap' = [ap EXCEPT !.st = "done"] /\ toAp' = {} /\ UNCHANGED toSta
  /\ ApFrame /\ UNCHANGED queue

Waits == ap.st \in {"wait2", "wait4", "waitg"}

ApRepeat ==
  /\ Waits /\ ap.tries < MaxTries
  /\ Goes(NextR([ap EXCEPT !.tries = @ + 1]))
  /\ ApFrame /\ UNCHANGED queue

ApRekey ==
  /\ ap.st = "done" /\ ap.rekeys < MaxRekeys
  /\ \/ Goes(NextR([ap EXCEPT !.rekeys = @ + 1, !.hs = @ + 1, !.st = "wait2"]))
     \/ Goes(NextR([ap EXCEPT !.rekeys = @ + 1, !.group = @ + 1, !.st = "waitg"]))
  /\ ApFrame /\ UNCHANGED queue

\* Its deauthentication reaches the queue or is lost.
ApGivesUp ==
  /\ Waits /\ ap.tries = MaxTries
  /\ ap' = [ap EXCEPT !.st = "idle"]
  /\ \/ UNCHANGED queue
     \/ Room /\ queue' = Append(queue, [type |-> "leave", link |-> ap.link])
  /\ ApFrame /\ UNCHANGED <<toSta, toAp>>

----------------------------------------------------------------------------
(* Receiving: STAHandleRxDataFrame and MlmeEnqueueForRecv. *)

\* The medium is connected, the frame is from Bssid, and the hardware knows its sender.
Hears == link # 0 /\ bssid = ap.bss /\ wcid = bssid

\* By the hardware, or not enciphered at all.
Deciphered(m) == m.enc \in {NoKey, key}
MlmeEnqueueForRecv(m) == IF Room THEN Append(queue, m) ELSE queue

Receive(m) ==
  /\ m \in toSta /\ toSta' = toSta \ {m}
  /\ queue' = IF Hears /\ Deciphered(m) THEN MlmeEnqueueForRecv(m) ELSE queue
  /\ UNCHANGED <<wpa2, link, entryVars, keyVars, timerVars, at, hwVars, ap, toAp>>

----------------------------------------------------------------------------
(* The supplicant: WpaEAPOLKeyAction in the MLME thread. *)

\* Fault: the counter is not compared.
AnyReplay(r) == TRUE
\* "some AP start with all zero replay counter".
FreshReplay(r) == r > R_Counter \/ r = 0

Takes(type) ==
  /\ at = "idle" /\ queue # <<>> /\ Head(queue).type = type /\ queue' = Tail(queue)

\* MacTableLookup(Addr2): frames in the queue are of the association whose entry is there.
EntryOf(m) == addr # NoAP
GoodMic(m) == m.type = "m1" \/ m.mic = PTK
PeerWpaMessageSanity(m) == EntryOf(m) /\ FreshReplay(m.r) /\ GoodMic(m)

ConstructEapolMsg(type, r, nonce, mic, enc) == toAp' = toAp \cup {Frame(type, r, nonce, mic, NoKey, enc)}

STA_PORT_SECURED == PortSecured' = TRUE /\ LinkDownTimer' = FALSE /\ UNCHANGED <<posting, dropped>>

WpaFrame == UNCHANGED <<wpa2, link, bssid, addr, at, hwVars, ap, toSta>>

\* An old counter, a bad MIC, or no entry.
Ignore ==
  /\ at = "idle" /\ queue # <<>> /\ Head(queue).type \in {"m1", "m3", "g1"}
  /\ ~PeerWpaMessageSanity(Head(queue))
  /\ queue' = Tail(queue)
  /\ WpaFrame /\ UNCHANGED <<R_Counter, ANonce, PTK, keyVars, timerVars, toAp>>

\* Every first message draws another SNonce.
PeerPairMsg1Action ==
  LET m == Head(queue) IN
  /\ Takes("m1") /\ PeerWpaMessageSanity(m)
  /\ R_Counter' = m.r /\ ANonce' = m.nonce /\ PTK' = DerivePTK(m.nonce, m.r)
  /\ ConstructEapolMsg("m2", m.r, m.r, PTK', NoKey)
  /\ WpaFrame /\ UNCHANGED <<keyVars, timerVars>>

AsicAddSharedKeyEntry == key' = PTK
RTMPParseEapolKeyData(m) == gtk' = IF m.type = "g1" \/ wpa2 THEN m.gtk ELSE gtk

\* WPA2: the group key has been installed by PeerWpaMessageSanity already.
PeerPairMsg3Action ==
  LET m == Head(queue) IN
  /\ Takes("m3") /\ PeerWpaMessageSanity(m)
  /\ R_Counter' = m.r
  /\ RTMPParseEapolKeyData(m)
  /\ IF m.nonce # ANonce
     THEN UNCHANGED <<key, PortSecured, timerVars, toAp>>
     ELSE /\ AsicAddSharedKeyEntry
          /\ IF wpa2 THEN STA_PORT_SECURED ELSE UNCHANGED <<PortSecured, timerVars>>
          /\ ConstructEapolMsg("m4", m.r, 0, PTK, NoKey)
  /\ WpaFrame /\ UNCHANGED <<ANonce, PTK>>

PeerGroupMsg1Action ==
  LET m == Head(queue) IN
  /\ Takes("g1") /\ PeerWpaMessageSanity(m)
  /\ R_Counter' = m.r /\ RTMPParseEapolKeyData(m)
  /\ STA_PORT_SECURED
  /\ ConstructEapolMsg("g2", m.r, 0, PTK, key)
  /\ WpaFrame /\ UNCHANGED <<ANonce, PTK, key>>

----------------------------------------------------------------------------
(* LinkUp and LinkDown in the MLME thread, cut where the command thread may look at the entry. *)

\* MacTableDeleteEntry: the command is queued before the entry is cleared.
DeleteEntry == cmds' = cmds + (IF addr # NoAP THEN 1 ELSE 0)
ClearEntry == addr' = NoAP /\ R_Counter' = 0 /\ ANonce' = NoKey /\ PTK' = NoKey

LinkFrame == UNCHANGED <<wpa2, airVars>>

\* The old access point is left without a LinkDown when the station roams.
LinkUp ==
  /\ at = "idle" /\ queue # <<>> /\ Head(queue).type = "assoc"
  /\ DeleteEntry /\ at' = "roam"
  /\ UNCHANGED <<link, queue, entryVars, keyVars, timerVars, wcid, swept>> /\ LinkFrame

RTMPWPARemoveAllKeys == key' = NoKey /\ gtk' = NoKey

\* Fault: the keys are removed; the port stays as it was.
StaysSecured == UNCHANGED PortSecured
Unsecure == PortSecured' = FALSE

\* Fault: the table keeps what it has.
KeepWcid(b) == UNCHANGED wcid
AsicUpdateRxWCIDTable(b) == wcid' = b

\* Fault: LinkDownTimer is not set.
SetNoTimer == UNCHANGED LinkDownTimer
SetLinkDownTimer == LinkDownTimer' = TRUE

LinkUpConnected ==
  /\ at = "roam" /\ at' = "half"
  /\ ClearEntry /\ bssid' = Head(queue).bss /\ link' = Head(queue).link /\ queue' = Tail(queue)
  /\ RTMPWPARemoveAllKeys /\ Unsecure
  /\ AsicUpdateRxWCIDTable(Head(queue).bss) /\ swept' = FALSE
  /\ SetLinkDownTimer
  /\ UNCHANGED <<posting, dropped, cmds>> /\ LinkFrame

LinkUpEntry ==
  /\ at = "half" /\ at' = "idle" /\ addr' = bssid
  /\ UNCHANGED <<link, queue, bssid, R_Counter, ANonce, PTK, keyVars, timerVars, hwVars>> /\ LinkFrame

\* A leave message is the access point's, or LinkDownExec's if it names no association.
LinkDown ==
  /\ at = "idle" /\ queue # <<>> /\ Head(queue).type = "leave"
  /\ IF link # 0 /\ Head(queue).link \in {0, link}
     THEN link' = 0 /\ DeleteEntry /\ at' = "deleting" /\ UNCHANGED queue
     ELSE queue' = Tail(queue) /\ UNCHANGED <<link, cmds, at>>
  /\ UNCHANGED <<entryVars, keyVars, timerVars, wcid, swept>> /\ LinkFrame

\* Only at the access point's request are the keys removed at once.
LinkDownEnds ==
  /\ at = "deleting" /\ at' = "idle"
  /\ ClearEntry /\ bssid' = NoAP /\ queue' = Tail(queue)
  /\ PortSecured' = FALSE
  /\ IF Head(queue).link = 0 THEN UNCHANGED <<key, gtk>> ELSE RTMPWPARemoveAllKeys
  /\ UNCHANGED <<link, timerVars, hwVars>> /\ LinkFrame

\* LinkDownExec in the timer task: the test, and the message.
LinkDownExec ==
  /\ LinkDownTimer /\ ~posting /\ LinkDownTimer' = FALSE
  /\ posting' = (~PortSecured /\ link # 0)
  /\ UNCHANGED <<link, dropped, queue, at, entryVars, keyVars, hwVars>> /\ LinkFrame

LinkDownPost ==
  /\ posting /\ posting' = FALSE
  /\ IF Room
     THEN queue' = Append(queue, [type |-> "leave", link |-> 0]) /\ UNCHANGED dropped
     ELSE dropped' = TRUE /\ UNCHANGED queue
  /\ UNCHANGED <<link, LinkDownTimer, at, entryVars, keyVars, hwVars>> /\ LinkFrame

\* CMDTHREAD_SET_ASIC_WCID: the address is read when the command runs.
SetAsicWcid ==
  /\ cmds > 0 /\ cmds' = cmds - 1 /\ wcid' = addr
  /\ swept' = (swept \/ at = "half")
  /\ UNCHANGED <<link, queue, at, entryVars, keyVars, timerVars>> /\ LinkFrame

----------------------------------------------------------------------------
MlmeThread ==
  \/ Ignore \/ PeerPairMsg1Action \/ PeerPairMsg3Action \/ PeerGroupMsg1Action
  \/ LinkUp \/ LinkUpConnected \/ LinkUpEntry \/ LinkDown \/ LinkDownEnds

Next ==
  \/ MlmeThread \/ LinkDownExec \/ LinkDownPost \/ SetAsicWcid
  \/ \E b \in AP : Associate(b)
  \/ \E m \in toAp : ApReceive(m)
  \/ \E m \in toSta : Receive(m)
  \/ ApRepeat \/ ApRekey \/ ApGivesUp

\* The threads run and the timer expires; nothing makes the access point or the medium act.
Fairness ==
  WF_vars(MlmeThread) /\ WF_vars(LinkDownExec) /\ WF_vars(LinkDownPost) /\ WF_vars(SetAsicWcid)

Spec == Init /\ [][Next]_vars /\ Fairness

----------------------------------------------------------------------------
(* Properties *)

\* Whenever the access point takes a handshake to be done the station has the same keys, in
\* its entry and in the hardware, whatever was lost, repeated or is still on its way.
KeysAgree ==
  ap.st = "done" /\ link = ap.link =>
    PTK = ap.key /\ key = ap.key /\ gtk = GroupKeyOf(ap) /\ PortSecured

\* While a link is up its port is secured only with a pairwise and a group key that the
\* access point of this very association has given.
SecuredHasKeys ==
  link # 0 /\ PortSecured => key # NoKey /\ key[1] = link /\ gtk # NoKey /\ gtk[1] = link

\* The hardware knows the access point of a link that is up, although commands to erase
\* an older entry may run at any time; unless one ran between the halves of LinkUp.
WcidTable == link # 0 /\ at # "roam" => wcid = bssid \/ swept

\* A link is secured in the end or given up, through any loss of frames (unless the
\* message that ends it meets a full queue).
HandshakeEnds == link # 0 ~> (PortSecured \/ link = 0 \/ dropped)
=============================================================================

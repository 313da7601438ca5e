# Specifications of the RT3070 USB station driver

This directory holds TLA+ specifications of the Ralink RT3070 Linux driver in
this repository, the TLC configurations that check them, and proofs checked by
TLAPS. The specifications are written from the C source; `PROJECT.json` maps
every definition to the lines it stands for, lists what each run checks, and
lists the hazards the properties are aimed at.

The configuration modelled is the one `os/linux/config.mk` builds: a station on
USB with WMM, 802.11n, A-MSDU and Ralink aggregation, WPA supplicant support,
the timer task (`RTMP_TIMER_TASK_SUPPORT`) and the bulk aggregation ring
(`RTMP_MAC_USB`). ATE, DLS, IDS, DFS, cfg80211 and SNMP are compiled out. `ASSERT`
(`rt_linux.h:553`) prints a warning and goes on.

## Inventory

| Component | State | Operations | Hard behaviour |
|---|---|---|---|
| Transmit ring of a pipe (`cmm_data_usb.c`, `rtusb_bulk.c`, `rtusb_data.c`) | `HT_TX_CONTEXT`: three positions, two flags, `SavedPad`, the buffer | writers (single, fragment, aggregate), composing a transfer | writers and bulk-out interleave outside the lock; the ring turns; pads overwrite headers |
| Bulk-out arbiter (`rtusb_bulk.c`, `rt_usb.c`) | `BulkOutPending`, `BulkFlags`, contexts, management ring | `RTUSBKickBulkOut`, four senders, seven tasklets, `RESET_BULK_OUT` | four sources share pipe 0; failures, duplicate commands, lost kicks |
| Bulk-in (`rtusb_bulk.c`, `rt_usb.c`) | ring of `RX_CONTEXT`, `PendingRx`, two indices | `RTUSBBulkReceive`, `DoBulkIn`, the tasklet, `RESET_BULK_IN` | cancellation beside a claim, a full ring, radio off |
| Command queue (`rtusb_io.c`, `usb_main_dev.c`) | `CmdQ`: list, size, state | enqueue, dequeue, start, stop, drain | stop racing a start, suspension, commands left behind |
| Timer task (`rtmp_timer.c`) | free list, queue, status | insert, cancel, run, exit | handler after cancel, free list empty |
| MLME queue and thread (`mlme.c`, `usb_main_dev.c`) | bounded message ring | enqueue, dispatch, stop | full queue, halt beside the thread |
| Station machines (`sta/*.c`, `mlme.c`, `sta_ioctl.c`) | one state per machine, `MlmeAux`, scan table, link | requests, confirmations, timeouts, link up and down, periodic work | late timers and answers, messages in the wrong state, two threads writing one state |
| WPA handshakes (`cmm_wpa.c`, `cmm_sanity.c`, `connect.c`) | replay counter, PTK, GTK, entry of the access point, WCID table | messages 1 to 4, group 1 and 2, link up, link down | lost, repeated and late messages; roaming; a command that reads an entry later |
| Reordering buffer (`ba_action.c`) | `LastIndSeq`, `BAWinSize`, sorted list, block pool | place or drop a frame, time-outs, BlockAckReq, make, renew, end, release | 12-bit wrap, duplicates, a thread that flushes beside the tasklet, an empty pool |
| Block acknowledgement agreements (`ba_action.c`) | tables of originator and recipient entries, counters, timers | ADDBA, DELBA, set-up time-out, tear-down of one and of all | two tear-downs at once, a full table, late answers |
| Data path, ciphers, register access, regulatory tables, ioctls | see `PROJECT.json` | | mostly I/O and layout |

The parts meet in few places. Packets go from the network stack into
`TxSwQueue`; `RTMPDeQueuePacket` moves them, in whatever context it is called,
into the ring of a pipe; `RTUSBKickBulkOut` hands rings and fixed frames to the
USB core; completions come back as tasklets, which free the pipe, fetch more
packets and kick again. A failed transfer sets a reset flag and queues a command
for the command thread, which is also the only place that clears the flag.
Received buffers are drained by whoever calls `RTUSBBulkReceive`; a frame of an
agreement goes from there, still in the tasklet, through the reordering buffer to
the stack, while the MLME thread makes and ends agreements on another CPU; a
management or EAPOL frame goes into the MLME queue. Expired kernel timers go
through the timer queue to the timer task, whose handlers post MLME messages too,
but also write `CntlMachine` and tear agreements down themselves.

## Modules

| Module | Models | Checked by |
|---|---|---|
| `TxFifo` | what a pipe promises: a queue, transfers that are prefixes of it, one at a time | as a property of `TxRing` |
| `TxRing` | the transmit ring, by position | `MCTxRing` |
| `TxRingProofs` | theorems about `TxRing` | tlapm |
| `BulkOut` | the arbiter, tasklets, reset command and management ring | `MCBulkOut` |
| `BulkOutProofs` | theorems about `BulkOut` | tlapm |
| `BulkIn` | the receive ring, tasklet, reset command, radio, watchdog | `MCBulkIn`, `MCBulkInWrap` |
| `BulkInProofs` | theorems about `BulkIn` | tlapm |
| `BaReorder` | the reordering buffer of one agreement | `MCBaReorder` |
| `BaReorderProofs` | theorems about `BaReorder` | tlapm |
| `BaSession` | the table of agreements, four tasks | `MCBaSession`, `MCBaSessionAssert` |
| `BaSessionProofs` | theorems about `BaSession` | tlapm |
| `StaMlme` | control, sync, authentication and association machines, their queue, timers and users | `MCStaMlme`, `MCStaMlmeLive` |
| `StaMlmeProofs` | theorems about `StaMlme` | tlapm |
| `StaWpa` | the supplicant against an access point, keys and entry, link up and down | `MCStaWpa` |
| `StaWpaProofs` | theorems about `StaWpa` | tlapm |
| `TimerQ`, `CmdQ` | the timer queue and its task; the command queue and its thread | through `MgmtTasks` |
| `MgmtTasks` | the three management tasks composed, and the close that ends them | `MCTimers`, `MCMgmtTasks` |
| `MgmtTasksProofs` | theorems about `MgmtTasks` | tlapm |

Each `.cfg` names the bounds and is run on the module itself
(`tlc -config MCBulkOut.cfg BulkOut.tla`); `MCTimers` is run on `MgmtTasks`. An operator
introduced by the comment "Fault" or "Mutant of X" is not part of the model: it is a
version of `X` with a plausible bug, and the property listed beside it in `PROJECT.json`
fails when it takes the place of `X`.

### TxRing

Positions are counted in cells of eight bytes, the size of `SavedPad` and of the
pad behind a transfer; a frame is one header cell and body cells that carry its
name, so that damage shows. A write has the steps the locks give it: the claim and
header under `TxContextQueueLock`, the copy outside it, the commit under it
again. Bulk-out is cut at the claim, at the start, at each frame of the loop, and at
the sealing of the transfer; the last three hold the lock (`Unlocked` keeps writers
out). `RTMPDeQueuePacket` grants a write once `RTUSBFreeDescriptorRequest` finds
room; the grant and the write are separate steps, as in the code. `Concurrent`
says which kinds of write may be in hand together: with single writes the
properties hold; with aggregates `BatchOwnsRing` fails, because `bCurWriting` has
no owner (see "Known departures"). `BulkCaps` are the sizes at which a transfer ends: the code
takes about 4 or 24 kilobytes by the PHYMODE of the next frame, and tests bits of the size
rather than the size, so that between the least and the greatest the walk may end or go on. Of
TXWI, `MPDUtotalByteCount` is followed only where it leaves the frame: written through a
pointer into `SavedPad`, it lands in the field behind it, `Header_802_3`.

`QueueIntact`, `BulkIntact` and `WalkFindsHeaders` say that no byte of a committed
frame or of a composed transfer is disturbed. `RefinesFifo` says that the ring,
with all its positions, is a queue. Bounds: six frames, sizes of four and five
cells, transfers of one frame or two (`BulkCaps` 4 and 6), a limit of 21 cells, so that the ring turns, fills and is emptied on the
second lap; `HeadRoom` is as large as the largest frame, as 3906 is in the code. The
slack `LocalTxBuf` is nine cells, four more than the largest frame. This is what
single writers that run together need: each is granted with its length and the slack
(`RTUSBFreeDescriptorRequest`), but the second finds the first one's frame in the ring
and is asked for the slack alone (`RtmpUSBCanDoWrite`), which must then hold the frame,
its pad and what is reserved. The proof found this; six frames and a slack of seven do
not show it, more frames do. In the code the slack is 2048 bytes and a single frame of an
Ethernet packet below 1700, so that the condition holds.
`MCTxRingWedge` fills the first lap before any bulk-out; `RefinesFifo`, which constrains steps,
does not see that nothing is sent any more.

### BulkOut

One actor per tasklet, per task that sends, and the command thread; `pc` cuts each
at the points where it takes or drops a lock. The users of a pipe (`Claimants` and
`Outstanding`) are the actors that claimed it and the contexts whose URB is
out. What is abstracted: rings are counted in frames; a writer's commit and its
`DATA_NORMAL` flag are one step; `RTMPDeQueuePacket` moves at most one packet
per call; the medium is connected; of `fRTMP_ADAPTER_NEED_STOP_TX` only
`BULKOUT_RESET` moves (halt, radio off and removal stop everything for good);
`IRPPending` and the watchdog's counters are left out; flag operations are atomic;
`RTUSBEnqueueInternalCmd` always finds memory and an open queue (its callers ignore the
result, `rtusb_io.c:834`; a reset that is not queued leaves its flag up for good, in `BulkIn` as
well); `DATA_FRAG` is never set in this build.
`bulkResetPipeid` is read once per command, except in the error path that reads it
again with visible effect (`ResubmitFail`). `stale`, `orphaned` and `delivered` are
history variables: they only record.

Bounds of `MCBulkOut`: two data pipes (pipe 0 shared with the fixed frames, pipe 1
alone), one sending task, two management cells, two frames, one failure, scans at
will. `MCBulkOutOrder`, `MCBulkOutTwice` and `MCBulkOutKick` each narrow this to the
sources their property needs.

### BulkIn

`RTUSBBulkReceive` is run by the tasklet and by the thread that opens the device
and turns the radio on; `DoBulkIn` by these and, with its own copy of the code, by
the reset command. Each lock region is a step, and so is each test of the flags
between them. A buffer is known by whether it holds bytes (`BulkInOffset`) and whether they
were overwritten (`zeroed`): `DoBulkIn` clears what lies in front of the next transfer, the
reset command's copy of it does not. `ConcatenatesFailed` is about where a transfer is put,
`BytesKept` about the bytes before it (see "Known departures"). The
tasklet's one `data` word is kept: a second completion before it runs replaces
the first. `hasty` records that the reset command cleared `PendingRx`, or went on,
beside a transfer still claimed or out, and `misplaced` that the place of the next
transfer was settled too early or from a buffer yet to be read; the properties say
what holds until then, and `MCBulkInWrap` shows what follows. `MCBulkIn` explores up
to the first hasty reset (`NotHasty`). Bounds: two contexts, two faults (failed
transfers, refusals, alarms, register reads), radio off and on at will, `PendingRx`
modulo four.

### BaReorder

Two actors: the receive tasklet with at most one frame in hand (`rx`), and a thread
that makes, renews or ends the agreement (`mlme`). `RxReRingLock` covers the list and
not `LastIndSeq` or `BAWinSize`, so a step of the tasklet is the code up to the end of
the next region under the lock, and what it decided by `LastIndSeq` it acts on after
the thread may have flushed the list. A frame is its number in the peer's stream and
its sequence number that number modulo `SEQMOD`; the model can thus say which of two
frames is older, which the code has to find out from twelve bits. The peer sends the
frames of a window in any order, any number of times or never, and moves the window
on. The sequence comparison is the code's: a bit of the difference; `LastIndSeq` may
hold 0xFFFF.

Abstracted: time (nothing but a received frame looks at the clock, and by then any
time-out may or may not have passed; a tasklet does not itself take the 100 ms that would
let the second test of the clock, in `Indicate_Legacy_Packet`, fire again for a frame
of the agreement); the single values `LastIndSeq` passes through inside
`ba_refresh_reordering_mpdus`; the conversion to 802.3; frames longer than the driver
accepts, which are dropped as if lost; the table of entries, so that an entry that is
freed under a frame in hand is taken again by the same TID only. A BlockAckReq without
an agreement works on entry 0, which nothing else uses. Only one reader handles frames
at a time: that is `ReaderOwnsBuffer` of `BulkIn`. `BARecSessionIdleTimeout` is never
called: its timer is initialised and never set.

`up` (what the stack was given, with a mark where the numbering starts anew),
`overlapped` (the agreement changed under a frame in hand), `shortcut` and `lost`
are history variables. `FirstCopiesInOrder` is the purpose of the buffer and holds with
losses, repetitions, time-outs, BlockAckReqs and an empty pool; `NoneTwice` holds until a
BlockAckReq or an unheld frame sets `LastIndSeq`, because the code does not walk the
list after either. `BlocksConserved` holds in every interleaving; `MCBaReorderBlock`
shows which blocks it counts as lost, and `MCBaReorderAssert` what the missing lock does.
Bounds: five frames from 30 to 34 around the wrap at 32, so that every comparison meets
the wrap; window three and two blocks, so that the pool runs out before the window does;
one EAPOL frame; six arrivals; two changes of the agreement. The span of the frames and
window stays below half of `SEQMOD`, as it does in the air (64 of 4096).

### BaSession

The originator's side of all agreements with the access point, and the recipient's
entries beside it. `BATabLock` covers the counters and the choice of a free entry, not the
tests before and the writes after, so each operation is cut where it leaves an entry to
look at it again; `pc` holds the entry and TID a task has in hand. Four tasks: the MLME
thread (answers, refusals, DELBA, deletion of the peer's entry), the timer task (set-up
time-out, and the tear-down after failed frames in `NICUpdateFifoStaCounters`), the
transmit path and a user's ioctl. `met` records that two of them have had one entry or TID in
hand at once. What holds until then is what the properties of `MCBaSession` say, and the
run stops there (`NotMet`); `MCBaSessionAssert` goes on and meets the assertion at
`ba_action.c:813`. An agreement whose DELBA finds no memory (`Forget`) and whose peer
entry is then zeroed stays behind as an orphan; two properties except it (`Orphans`).

Abstracted: the model starts when `LinkUp` has made the entry of the access point; only the
MLME thread deletes it; a failed frame tears down one TID per step; a message to a full queue may
be dropped (`Timeout`); `RECBATimer` is never set in the code and has no action. What the
recipient does with frames is `BaReorder`. Bounds: two TIDs, two originator entries, one
recipient entry, which is also the limit, two retries, three events (a request, a tear-down and a
request again, with a late answer in between; a reconnection is not counted).

### StaMlme

The MLME thread handles one message in one step, to the end of the handler and with every
message it posts. The timer task and the user's thread come between: an expired timer is taken (`TakeTimer`, from
where a cancel no longer reaches it) before its handler runs, `LinkDownExec` and the
periodic scan post a request and write `CntlMachine.CurrState` in a second step, and an
ioctl posts a reset, if the machine is busy, before its request. An SSID is the set of
access points that carry it; the order in which `BssTableSsidSort` leaves candidates is
any. Answers of access points may be missing, late, or refuse.

`dropped` records a message lost to a full queue, and `crossed` the ways in which two
threads got in each other's way: a request that came up when the machine was busy again, a
`CntlMachine` written over, and an access point's disassociation in the middle of the
station's own. `Excused` is their disjunction: the driver then depends on the next round of
the periodic task or on the user, so properties hold up to that point, and `MCStaMlme` stops there
(`NotExcused`). `misled` records that a confirmation ended the wait for another request than
the one it answers: confirmations do not name their request, and a user's reset (`MT2_RESET_CONF`)
sets the machines back without emptying the queue. What an abandoned attempt left there is then
taken for the answer to the next: `Misjoined` and `Misscanned` say for which. Neither ends a wait
that has nothing behind it, so `WaitSupported` holds all the same; `LinkUpAccepted`
and the disassociation in `MachinesEnd` except the first, `ScanFlagEnds` the second. `MachinesEnd` is about
the synchronisation and association machines; the authentication machine, refused while
`bBlockAssoc` is set, is left waiting without a timer (`auth.c:432`, with `127`), but its confirmation is
posted, and `AttemptEnds` covers that such an attempt ends. What `Misscanned`
leads to is shown by `MCStaMlmeScanFlag`: the scan flag up for good (one access point, open
system, six messages, three events).

Not modelled: ad hoc networks and START, reassociation (only `IterateOnBssTab2` asks for it, and only in the state it leads to), radio off, halt,
`bAutoConnectByBssid` (never TRUE), `CNTL_WAIT_SCAN_FOR_CONNECT` (never entered) and
`MlmeCheckForRoaming` (never called). Authentication algorithms, capabilities and
rates are not looked at. Bounds of `MCStaMlme`: two access points of one network under
symmetry, shared-key authentication (the longest sequence), a handshake in the driver, five
messages, two events (requests, rounds of the periodic work, refusals, kicks); of
`MCStaMlmeLive`: one access point.

### StaWpa

The supplicant in the driver (`WpaSupplicantUP` disabled) with a pre-shared key, WPA and WPA2. The
access point is external: the authenticator in `cmm_wpa.c` never runs in a station
(`WPAStart4WayHS` returns at once with `pBssid == NULL`), so `Ap*` says what the standard lets
one do: repeat with a new counter, rekey, give up, and answer only to what it said last. The medium is a set of
frames either way: a frame that is never taken is lost, any order is possible, duplicates
come from repetition. Nonces are named by who drew them and for which message, keys by the
two nonces; the driver draws a fresh SNonce for each message 1. A frame is deciphered if it was
encrypted with the installed key, and also if it was not encrypted at all, as in the code.

`LinkUp` and `LinkDown` are cut where the command thread may look at the entry:
`MacTableDeleteEntry` queues `SET_ASIC_WCID` before it zeroes the entry, and the command
copies the address that stands there when it runs. `swept` records that it ran between the
two halves of `LinkUp` (the hardware then no longer knows the access point), `dropped`
that `LinkDownExec` met a full queue. Abstracted: the two register writes of the command
are one step; a message waits in a queue of two with association results and requests to
leave; of the group keys the latest counts; encrypted answers need equal keys. Left out:
the MIC-error countermeasures, the transmit side, key indices and packet numbers, 802.1X
without a pre-shared key. Bounds: two associations, one repetition and one rekeying
each, a queue of two; the first counter is 1.

### TimerQ, CmdQ and MgmtTasks

`TimerQ` follows a timer through its four places: armed, its function in softirq, the queue,
the hand of the task. `RTMPCancelTimer` is four steps since no lock spans them
(`del_timer_sync` waits for a function under way). `hand` keeps `pTimer` through the inner
loop, as the code does, so a cancel that empties the queue between the test and the lock makes the
task run its last timer again. `CmdQ` keeps account of every command: allocated
(`made`), queued, in hand, freed. Linked lists are sequences. The bodies of commands are in
`BulkOut` and `BulkIn` or are register access; a command always runs to its end and is freed
(the two early returns of `CMDHandler` for a WCID out of the table, `rtusb_io.c:1472` and `1506`, are
unreachable: the WCIDs come from `MacTableDeleteEntry`, which tests the bound, from the index of
a loop over the table, and from entries in use); an insertion and the wake-up behind it are
one step, and a semaphore keeps at most `MaxSema` wake-ups, since each empties the queue.

`MgmtTasks` puts the MLME thread between them: a handler of a timer posts a message, and handling a message sets
or cancels a one-shot timer, enqueues a command, or does neither. `rt28xx_close` runs beside all three: `MlmeHalt` cancels
timers, `RtmpMgmtTaskExit` ends the timer queue, kills the MLME thread, the command
thread and the timer task in that order and waits for each. The system may be suspended (`slept` records it:
wake-ups spent while suspended are lost, and the queue is left as it is when a suspended thread leaves). The model
is one life of the adapter, after open; a signal from elsewhere is not modelled. Deadlock is
not checked: a closed adapter stops.

`MCTimers` has a periodic and a one-shot timer, one node in the queue, and no commands, so
that every expiry may meet a full queue; `MCMgmtTasks` has one timer, two commands and one outside event (a message or a
suspension). Both queues are the smallest that can be full and empty; what the properties
speak of are single timers and commands.

## Fairness

Threads, tasklets and the timer task are scheduled by the kernel: weak fairness of every
step of one that is under way (`BulkOut`, `BulkIn`, `BaSession`, `MgmtTasks`), of the MLME
thread and the timer task and of a user's thread that has begun a request (`StaMlme`), and of
the MLME thread, the command thread and `LinkDownTimer` (`StaWpa`). An armed timer
expires where a property needs it (`BaSession`, `StaMlme`, `StaWpa`); in `MgmtTasks` only a
kernel timer's function that has begun is assumed to end. The host
controller completes an URB it was given (in `BulkIn` only one that is killed: nothing
makes data arrive). Nothing is assumed of access points, users, the medium, a task that
might send, a scan, the radio or a suspension. `TxRing` and `BaReorder` state no liveness: the
second has none to state, as nothing releases a held frame until another is received.

## What the runs show

| Run | Properties | What they say of the code |
|---|---|---|
| `MCTxRing` | `QueueIntact`, `BulkIntact`, `WalkFindsHeaders`, `RefinesFifo` | no interleaving of writers and bulk-out damages a frame or a transfer; the ring is a queue |
| `MCBulkOut` | `OneUserPerPipe`, `PendingHasUser`, `MgmtRingConsistent`, `ResetEnds` | a pipe is used by one and freed; the counters of the management ring hold; a reset ends |
| `MCBulkIn` | `ReaderOwnsBuffer`, `ReadInOrder`, `PendingRxCounts`, `ConcatenatesFailed`, `ReceptionResumes` | one reader and one transfer, in order, until a hasty reset; reception goes on |
| `MCBaReorder` | `BlocksConserved`, `HeldInWindow`, `FirstCopiesInOrder`, `NoneTwice`, `AllReleased` | frames go up once, in order and in the window; blocks are neither lost nor freed twice |
| `MCBaSession` | `Counted`, `TxAgreed`, `WaitingIffTimed`, `SetupEnds` | counters, transmit marks and timers agree with the entries until two tasks meet; a set-up ends |
| `MCStaMlme` | `MachinesEnd`, `WaitSupported`, `ScanFlagEnds`, `LinkUpAccepted` | a scan, a join and an association that wait have their timer running, and the control machine its answer on the way; a link comes up where it was accepted |
| `MCStaMlmeLive` | `AttemptEnds` | an attempt ends though nobody answers |
| `MCStaWpa` | `KeysAgree`, `SecuredHasKeys`, `WcidTable`, `HandshakeEnds` | both sides have one pair of keys, of this association; a handshake ends or the link does |
| `MCTimers` | `TimerNotLost`, `CancelReaches` | no expiry is lost to a full queue; a cancel misses only what is in flight |
| `MCMgmtTasks` | `CommandsFreed`, `CommandServed`, `CloseEnds` | each command is run or freed, once; a close ends |
| `MCBulkInWrap` | `PendingRxBounded`, violated | the reset command clears a counter that a claim then wraps |
| `MCBaSessionAssert` | `FreesCounted`, violated | two tasks free one entry, and the counter wraps |

The two violations are under `findings`, with the lines involved.

### Known departures

While modelling, other places were found where the code does not do what its comments
suggest. These configurations each show one, as a violated invariant or property; they are kept to be
run by hand and are not among the listed runs.

| Command | What it shows |
|---|---|
| `tlc -config MCTxRingBatch.cfg TxRing.tla` | `bCurWriting` has no owner: two aggregate writers take it from each other (`mac_usb.h:282`, against `cmm_data_usb.c:447` "It should not happened now") |
| `tlc -config MCTxRingWedge.cfg TxRing.tla` | a first lap that fills up before any bulk-out leaves a ring that looks empty (`rtusb_bulk.c:241`) |
| `tlc -config MCTxRingCount.cfg TxRing.tla` | a bulk-out between the pieces of an aggregate moves its header to `SavedPad`; the byte count is then written behind the saved bytes and not into the frame (`cmm_data_usb.c:532`, against `sta/rtmp_data.c:1994` "TxWI->MPDUtotalByteCount will be updated after final frame was handled") |
| `tlc -config MCBulkOutOrder.cfg BulkOut.tla` | a management frame is picked before the lock and completes out of order (`rtusb_bulk.c:625`, assertion at `rt_usb.c:557`) |
| `tlc -config MCBulkOutTwice.cfg BulkOut.tla` | one failure queues two reset commands; the second sends a delivered transfer (`rt_usb.c:653`) |
| `tlc -config MCBulkOutKick.cfg BulkOut.tla` | a kick that found the ring empty clears the flag of a frame committed since (`rtusb_bulk.c:244`) |
| `tlc -config MCBulkInZeroed.cfg BulkIn.tla` | a tasklet that claims after the reset command has cleared its flag, and before the command's own claim, zeroes the bytes that were kept (`rtusb_bulk.c:811`, against `rtmp.h:2359` "contatenate 2 URB buffer while 1st is bulkin failed URB") |
| `tlc -config MCBaReorderAssert.cfg BaReorder.tla` | a frame in hand is put into the list of an agreement made anew (`ba_action.c:669`) |
| `tlc -config MCBaReorderBlock.cfg BaReorder.tla` | an EAPOL frame out of order loses its block (`ba_action.c:1606`) |
| `tlc -config MCStaMlmeCollide.cfg StaMlme.tla` | the periodic task's request and a user's meet; the user's is dropped (`mlme.c:1648` "to avoid collision") |
| `tlc -config MCStaMlmeScanFlag.cfg StaMlme.tla` | the confirmation of an old scan, queued behind a reset, ends the wait for a new one; the new one finds no memory, its own confirmation is dropped, and the scan flag stays up ("Resume TxRing after SCANING complete", `connect.c:162`; "Still scanning, indicate the caller should try again", `sta_ioctl.c:1143`) |

With `FirstR = 0` in `MCStaWpa.cfg` the invariant `KeysAgree` fails: a message whose
counter is zero is taken even after larger ones ("some AP start with all zero replay
counter", `cmm_sanity.c:1265`), so that a late first message replaces the key.
Without `swept`, `WcidTable` fails: a `SET_ASIC_WCID` left over from the old entry may
erase the new access point from the table that `connect.c:1600` has just written.

## Proofs

Each theorem is `Spec => []P` (an action property, a refinement) for every value of the
constants that the module's assumption admits; two modules name a hypothesis more, on the
constants too (`Fits` in `TxRingProofs`, `FirstR = 1` in `StaWpaProofs`). For each the
inductive invariant was first checked with TLC as an invariant of a run, then proved: `Init`
implies it, each action keeps it (one lemma to an action or to a group that does the same),
and it implies the property. Each module begins with the lemmas on its data that the proofs
need: the elements of a queue after an append, a removal and a `Tail`, when they can be counted by
its length, what follows what in a queue that moves up by one message.

`BulkOutProofs` proves `TypeOK` for any number of pipes, tasks, cells,
frames and faults, one lemma per group of actions, then `OneUserPerPipe` and
`PendingHasUser`. Neither is inductive: that a pipe has one user rests on where each actor is in its code. The
strengthening `IInv` adds `UsersOK` (users of a pipe are unique, and a pipe is
pending exactly while it has a user or was orphaned), `HoldsOK` (an actor holds a
context exactly between its claim and its hand-over, and what it holds fits the place
it is at), `PsPollOK` (the PS-Poll context is closing exactly while its tasklet is
at work) and `ResubmitOK` (the command thread resubmits the context of the pipe it
looks at). `MgmtRingConsistent` rests on these and on `OneOut`: a management frame that is
on its way, in whoever's hand, is the first cell in use and has left `bWaitingBulkOut`.
That two are never on their way is the users' invariant again; the rest is about arcs of
a ring (`ArcGrows`, `ArcShrinks`).

`TxRingProofs` proves `TypeOK`, `QueueIntact`, `BulkIntact`, `WalkFindsHeaders` and
`RefinesFifo`, under `Fits`: either one write is in hand at a time, or several of single packets
are and the slack takes any of them with four cells more (see "TxRing"). The invariant says where
everything lies. `Run(s, i, j, p, q)` is a list of frames one behind another from `p` to `q`; `Lies(t)`
that the committed frames are one run ahead of the newest transfer, or one behind it on the
next lap, or two of which frame `t` ends the first (it alone carries `SwUseLastRound`).
`Carries` places the newest transfer between `NextBulkOutPosition` and its pad, `Writes` the
cells of the writer whose claim `bCurWriting` is, `Saves` the header in `SavedPad`, and `Walks` what
the bulk-out routine has visited while it holds the lock. Everything then follows from three
facts on places: no two frames share a cell (`Apart`), the writer's cells are nobody's (`Room`),
and a step that writes elsewhere disturbs nothing (`CellsStay`). The assumption of `TxRing` asks for
a slack of five cells (256 in the code), a headroom of four (488) and a limit beyond the headroom.
The refinement maps a commit to `Put`, the sealing of a transfer to `Take`, its submission to
`Submit`, its completion to `Complete`, and every other step to a stutter.

`BulkInProofs` proves `TypeOK`, `ReaderOwnsBuffer`, `ReadInOrder`, `PendingRxCounts` and
`ConcatenatesFailed`. The four are one argument: they hold until the reset command is
hasty (`hasty \/ Calm`), and `Calm` has to say at once who has the one transfer
(`OneTransfer`: its holder, its context, its count, the tasklet's word), who reads
(`OneReader`), that the buffers to be read lie behind the bulk-in index without a gap, or are
the whole ring (`InOrder`), what the reset command has found out so far (`Resets`), and
which buffers have bytes and how many (`Bytes`). `Grip`, which holds throughout, says who has a
context at all. Both readings of equal indices, an empty ring and a full one, occur; the
successor modulo the size of the ring is handled in lemmas on numbers.

`BaReorderProofs` proves every property of `MCBaReorder`, for
every window, pool, sequence space and stream of frames and in every interleaving of
the tasklet and the thread. `TypeOK` says that the free blocks number between none and all
of the pool, which is inductive only together with the count of the blocks
(`BlocksConserved`); and that a list of frames stays one needs `InHand`: where the tasklet
uses a frame it has one, and what it keeps of a BlockAckReq is a sequence number. `IInv` is
the conjunction of the three. `HeldInWindow`, `FirstCopiesInOrder`, `NoneTwice` and
`AllReleased` need to know what `LastIndSeq` means. `OInv` says, until a thread changes the
agreement under a frame in hand (`overlapped \/ Orderly`), that the list is sorted, that the
numbering either starts anew (`Fresh`) or has come to a frame `l` of which `LastIndSeq` is the
number (`Numbered(l)`), and at each place of the tasklet what it has found out about `l`, the
list and the stream of frames indicated (`Decided(l)`). The code compares sequence numbers and
the invariant compares frames: `SequenceSmaller`, `SequenceEqual` and `SequenceBetween` show that
this is the same as long as two frames lie within half of the sequence space, and `Near` and
`Compared` that the window keeps them so. `LeSeq`, `InOrderRun` and `Placed` say which frames the
walks over the list take off and where an insertion puts one; `UpGrows` that sorted frames, each
of which is `Ready`, may be added to an ordered stream.

`BaSessionProofs` proves `TypeOK` (until two tasks meet), `Counted`, `TxAgreed` and
`WaitingIffTimed`. The inductive invariant is `met \/ Inv`. `Inv` says where each task stands:
`Hands` gives the entry and TID that belong to each place in the code, `Apart` that no two
tasks have the same, and `OriInv` and `RecInv` what an entry, its TID's index, its
timer and its mark in `TXBAbitmap` look like while nobody has it in hand and at each place of
whoever has. `OriCounts` and `RecCounts` count the entries. Types are not claimed after a
meeting: a second free of the same entry wraps a counter, which is what
`MCBaSessionAssert` shows, and a counter that is wrong lets an entry be looked for in a full table.

`StaWpaProofs` proves `SecuredHasKeys` and `WcidTable`, and, for `FirstR = 1`, `KeysAgree`. The
hypothesis is the run's and cannot be dropped: with `FirstR = 0` `KeysAgree` is false (see
"Known departures"). `IInv` follows every message from its sender: the frames in the air and in
the queue belong to an association no later than the latest (`Latest`, `FramesBelong`), the keys
they carry and the keys that are installed to the association they name (`KeysBelong`, `ApKeys`),
and the MLME thread is at a place that fits the link (`Thread`, `AssocLast`). `KeysAgree` needs more, in
`KInv`: a frame carries the counter it was sent with, and that of the latest message its group
key (`Counters`); the latest answer of the station tells what it has installed (`Answers`);
and at the end of a handshake the two counters are equal, so that nothing still on its way
is taken (`Done`).

`MgmtTasksProofs` proves `CommandsFreed`, `TimerNotLost` and `CancelReaches`. For commands
`OnePlace` says that a command is in the queue, in hand or freed, never twice, and `ClosedBehind`
that a thread that has left, but for a suspension, has emptied its queue and closed it: no
command comes in between its end and the close's. For timers `Handed` says that the task has a
timer in hand where it uses one, `StillPeriodic` that a periodic timer that is owed was never
cancelled (so that the task adds it again), and `CancelledIsGone` that a timer marked as
cancelled, whose cancel has ended and had all of it in reach, is nowhere. `CancelReaches` is a
property of steps, and follows from that invariant at the one step in which a handler runs.

`StaMlmeProofs` proves every safety property of `MCStaMlme`, for any access points, networks,
channels and length of the queue, and `TypeOK` besides: `MachinesEnd`, `WaitSupported`, `ScanFlagEnds` and
`LinkUpAccepted`. None of them is inductive, because whether a wait ends depends on what is
in the queue, and in which order: a confirmation helps only if no reset or second request stands
before it. The invariant is `IInv`: the types, and `Excused \/ Body`. `Timed` says of each machine
that waits for a peer where its timer is. `Backed` says, for each state of the connection machine, what
it waits for: the machine it asked is at work, its request is queued and no other will take that
machine away, or its confirmation is queued. `Joins` and
`Scans` say which messages of one attempt exclude each other and which follow which (`Followed`), as
long as no reset has mixed two attempts (`Misjoined`, `Misscanned`); from the first follows which access
point `accepted` is when the association is confirmed, and thus `LinkUpAccepted`; from the second,
that a raised flag has somebody who lowers it. That four machines share one queue would
make each action a case for each part of it; so the proof goes by what a step does to the queue:
`QuietStep` and `BeginStep` take the cases in which nothing is answered, `ScanStep`, `JoinStep`,
`AuthStep`, `AssocStep` and `DisassocStep` those of one machine each, and an action is shown to be one of them.
Looking for the invariant brought up cases beyond the bounds of `MCStaMlme`, which
`misled` and `crossed` now record: an `ASSOC_REQ` left over from before a reset, a request to join that
stands before the one for which the timer task writes `CntlMachine`, and the scan of `MCStaMlmeScanFlag`. The assumption on the constants is that access points are finitely
many and that each belongs to one network.

Only model-checked, for want of a prover: liveness (`ResetEnds`, `ReceptionResumes`, `SetupEnds`,
`AttemptEnds`, `HandshakeEnds`, `CommandServed`, `CloseEnds`), which rests on fairness and
ENABLED. Every safety property and step property of a passing run is proved; `TypeOK` of `StaMlme`
is proved and has no run of its own.

## Plan

Done: the modules above and the theorems named in "Proofs". Left, in this order:

1. The watchdog and the count of waiting URBs in `BulkOut`: it unlinks a transfer that may have
   completed since it looked (`usb_main_dev.c:759`).
2. Several agreements on one pool of blocks in `BaReorder`: an agreement that holds all of them
   lets the others deliver out of order.
3. MIC failures and their countermeasures beside `StaWpa`.

## Not modelled

Ciphers, register and EEPROM access, frame formatting and parsing, regulatory
tables, ioctl parsing, and the sources this build leaves out, which are most of the
repository's lines. Of the modelled parts: the halt, radio-off and NIC-gone exits of
transmission; the watchdog's unlink; ad hoc mode; reassociation; 802.1X and an external
supplicant; reopening an adapter that was closed. A few paths were read and not modelled: management
threads that survive a failed open (`rtmp_init.c:3639`); `MlmeHalt` destroying the queue
that the MLME thread still uses (`mlme.c:652`); the count of the message queue tested
outside its lock (`mlme.c:4927`).

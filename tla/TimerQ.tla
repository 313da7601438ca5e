------------------------------- MODULE TimerQ -------------------------------
(***************************************************************************)
(* The timer queue of rtmp_timer.c.  An expired kernel timer only puts its   *)
(* RALINK_TIMER_STRUCT into a bounded queue; the timer task takes it out,     *)
(* runs the handler and re-arms a periodic timer.  RTMPCancelTimer works from *)
(* any task: it marks the timer, stops the kernel timer, and removes it from  *)
(* the queue.  Each of these is a step of its own here, since no lock spans   *)
(* them.  A module that EXTENDS this one says who sets and cancels timers,    *)
(* what a handler does, and who ends the task.                               *)
(***************************************************************************)
EXTENDS Integers, Sequences, FiniteSets, SequencesExt

CONSTANTS
  Timer,      \* RALINK_TIMER_STRUCTs of the adapter
  Periodic,   \* those initialised with Repeat TRUE
  QSize,      \* TIMER_QUEUE_SIZE_MAX
  Canceller,  \* tasks that cancel timers
  MaxSema,    \* bound: wake-ups a semaphore keeps; the loops of the tasks empty
              \* their queue on each, so further ones find nothing
  None        \* no timer

ASSUME TimerQAssumption ==
  /\ IsFiniteSet(Timer) /\ Periodic \subseteq Timer /\ None \notin Timer
  /\ QSize \in Nat \ {0} /\ MaxSema \in Nat \ {0}

VARIABLES
  tstatus,     \* TimerQ.status
  tqueue,      \* the timers of the nodes from pQHead to pQTail
  tsema,       \* timerTask.taskSema
  pending,     \* kernel timers that are armed
  firing,      \* kernel timers whose function is running in softirq
  Repeat, State,
  tpc, hand,   \* where the timer task is, and its pTimer
  status,      \* the task was woken by a signal
  cancel,      \* per task: the timer it cancels and the step it is at
  owed,        \* history: set and since then neither run nor cancelled
  escaped      \* history: expiries no cancel could reach were in flight

timerVars == <<tstatus, tqueue, tsema, pending, firing, Repeat, State, tpc, hand,
               status, cancel, owed, escaped>>

NoCancel == [t |-> None, at |-> "no"]
Up(s) == IF s < MaxSema THEN s + 1 ELSE s

\* RtmpTimerQInit, and the periodic timers MlmeInit has set.
TimerInit ==
  /\ tstatus = "INITED" /\ tqueue = <<>> /\ tsema = 0
  /\ pending = Periodic /\ firing = {}
  /\ Repeat = [t \in Timer |-> t \in Periodic]
  /\ State = [t \in Timer |-> FALSE]
  /\ tpc = "wait" /\ hand = None /\ status = FALSE
  /\ cancel = [c \in Canceller |-> NoCancel]
  /\ owed = Periodic /\ escaped = {}

----------------------------------------------------------------------------
(* The kernel's part and RTMPSetTimer. *)

Expire(t) ==
  /\ t \in pending /\ t \notin firing
  /\ pending' = pending \ {t} /\ firing' = firing \cup {t}
  /\ UNCHANGED <<tstatus, tqueue, tsema, Repeat, State, tpc, hand, status, cancel,
                 owed, escaped>>

\* RtmpTimerQInsert, under TimerQLock, with the wake-up behind it.
RtmpTimerQInsert(t) ==
  /\ tqueue' = Append(tqueue, t)
  /\ tsema' = Up(tsema)

\* Fault: the expiry that meets a full queue is dropped.
QueueFullForgets(t) == UNCHANGED <<pending, tqueue, tsema>>
\* With the queue full the kernel timer is set again, for a second.
QueueFull(t) == pending' = pending \cup {t} /\ UNCHANGED <<tqueue, tsema>>

\* rtmp_timer_<func>, in softirq.
rtmp_timer(t) ==
  /\ t \in firing /\ firing' = firing \ {t}
  /\ \/ /\ tstatus = "INITED" /\ Len(tqueue) < QSize
        /\ RtmpTimerQInsert(t) /\ UNCHANGED pending
     \/ /\ tstatus = "INITED" /\ Len(tqueue) = QSize
        /\ QueueFull(t)
     \/ /\ tstatus # "INITED"
        /\ UNCHANGED <<pending, tqueue, tsema>>
  /\ UNCHANGED <<tstatus, Repeat, State, tpc, hand, status, cancel, owed, escaped>>

\* RTMPSetTimer of a one-shot timer; a timer that is armed keeps its time.
RTMPSetTimer(t) ==
  /\ t \notin Periodic
  /\ State' = [State EXCEPT ![t] = FALSE]
  /\ Repeat' = [Repeat EXCEPT ![t] = FALSE]
  /\ pending' = pending \cup {t}
  /\ owed' = owed \cup {t} /\ escaped' = escaped \ {t}
  /\ UNCHANGED <<tstatus, tqueue, tsema, firing, tpc, hand, status, cancel>>

----------------------------------------------------------------------------
(* RTMPCancelTimer. *)

CancelBegin(c, t) ==
  /\ cancel[c].at = "no"
  /\ Repeat' = IF State[t] THEN Repeat ELSE [Repeat EXCEPT ![t] = FALSE]
  /\ cancel' = [cancel EXCEPT ![c] = [t |-> t, at |-> "del"]]
  /\ owed' = owed \ {t}
  /\ UNCHANGED <<tstatus, tqueue, tsema, pending, firing, State, tpc, hand, status, escaped>>

\* RTMP_OS_Del_Timer: a timer that is not pending counts as cancelled.
CancelNotPending(c) ==
  LET t == cancel[c].t IN
  /\ cancel[c].at = "del" /\ t \notin pending
  /\ State' = [State EXCEPT ![t] = TRUE]
  /\ cancel' = [cancel EXCEPT ![c].at = "remove"]
  /\ UNCHANGED <<tstatus, tqueue, tsema, pending, firing, Repeat, tpc, hand, status,
                 owed, escaped>>

CancelPending(c) ==
  /\ cancel[c].at = "del" /\ cancel[c].t \in pending
  /\ cancel' = [cancel EXCEPT ![c].at = "sync"]
  /\ UNCHANGED <<tstatus, tqueue, tsema, pending, firing, Repeat, State, tpc, hand,
                 status, owed, escaped>>

\* del_timer_sync waits for the timer's function, and says whether it was armed.
CancelSync(c) ==
  LET t == cancel[c].t IN
  /\ cancel[c].at = "sync" /\ t \notin firing
  /\ pending' = pending \ {t}
  /\ State' = IF t \in pending THEN [State EXCEPT ![t] = TRUE] ELSE State
  /\ cancel' = [cancel EXCEPT ![c].at = "remove"]
  /\ UNCHANGED <<tstatus, tqueue, tsema, firing, Repeat, tpc, hand, status, owed, escaped>>

InHand(t) == hand = t /\ tpc \in {"run", "add"}

\* What a cancel cannot reach.  pTimer keeps its value through the inner loop of
\* the task, so that a queue emptied behind the test of pQHead runs it again.
InFlight(t) ==
  \/ t \in firing \/ hand = t
  \/ Cardinality({k \in DOMAIN tqueue : tqueue[k] = t}) > 1

\* Fault: only the kernel timer is stopped.
RemoveNothing(t) == UNCHANGED tqueue
\* Under TimerQLock: the first node of the timer.
RtmpTimerQRemove(t) == tqueue' = RemoveFirst(tqueue, t)

\* After Exit the queue is empty, so that the status needs no test here.
CancelEnd(c) ==
  LET t == cancel[c].t IN
  /\ cancel[c].at = "remove"
  /\ RtmpTimerQRemove(t)
  /\ cancel' = [cancel EXCEPT ![c] = NoCancel]
  /\ owed' = owed \ {t}
  /\ escaped' = IF InFlight(t) \/ t \in pending THEN escaped \cup {t} ELSE escaped
  /\ UNCHANGED <<tstatus, tsema, pending, firing, Repeat, State, tpc, hand, status>>

CancelStep(c) == CancelNotPending(c) \/ CancelPending(c) \/ CancelSync(c) \/ CancelEnd(c)

----------------------------------------------------------------------------
(* RtmpTimerQHandle, the loop of the timer task. *)

TimerWake(signalled) ==
  /\ tpc = "wait"
  /\ \/ tsema > 0 /\ tsema' = tsema - 1 /\ status' = FALSE
     \/ tsema = 0 /\ signalled /\ status' = TRUE /\ UNCHANGED tsema
  /\ tpc' = IF tstatus = "STOPED" THEN "gone" ELSE "test"
  /\ UNCHANGED <<tstatus, tqueue, pending, firing, Repeat, State, hand, cancel, owed, escaped>>

\* The test of pQHead, without the lock.
TimerTestMore ==
  /\ tpc = "test" /\ tqueue # <<>>
  /\ tpc' = "take"
  /\ UNCHANGED <<tstatus, tqueue, tsema, pending, firing, Repeat, State, hand, status,
                 cancel, owed, escaped>>

\* The queue is empty: pTimer is forgotten, and only here.
TimerTestDone(killed) ==
  /\ tpc = "test" /\ tqueue = <<>>
  /\ tpc' = IF status \/ killed THEN "gone" ELSE "wait"
  /\ tstatus' = IF status THEN "STOPED" ELSE tstatus
  /\ hand' = None
  /\ UNCHANGED <<tqueue, tsema, pending, firing, Repeat, State, status, cancel, owed, escaped>>

\* Under TimerQLock; a queue emptied since the test leaves the last pTimer.
TimerTake ==
  /\ tpc = "take"
  /\ IF tqueue = <<>> THEN UNCHANGED <<tqueue, hand>>
     ELSE tqueue' = Tail(tqueue) /\ hand' = Head(tqueue)
  /\ tpc' = IF hand' = None THEN "test" ELSE "run"
  /\ UNCHANGED <<tstatus, tsema, pending, firing, Repeat, State, status, cancel, owed, escaped>>

Reruns == Repeat[hand] /\ ~State[hand]

\* The handler has returned (or was left out while suspended): is it periodic?
TimerHandle ==
  /\ tpc = "run"
  /\ tpc' = IF Reruns THEN "add" ELSE "test"
  /\ owed' = IF hand \in Periodic THEN owed ELSE owed \ {hand}
  /\ UNCHANGED <<tstatus, tqueue, tsema, pending, firing, Repeat, State, hand, status,
                 cancel, escaped>>

TimerAdd ==
  /\ tpc = "add"
  /\ pending' = pending \cup {hand}
  /\ tpc' = "test"
  /\ UNCHANGED <<tstatus, tqueue, tsema, firing, Repeat, State, hand, status, cancel,
                 owed, escaped>>

\* RtmpTimerQExit, under TimerQLock.
RtmpTimerQExit ==
  /\ tqueue' = <<>> /\ tstatus' = "STOPED"
  /\ UNCHANGED <<tsema, pending, firing, Repeat, State, tpc, hand, status, cancel,
                 owed, escaped>>

=============================================================================

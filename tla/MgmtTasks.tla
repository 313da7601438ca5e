----------------------------- MODULE MgmtTasks ------------------------------
(***************************************************************************)
(* The three management tasks of an open adapter and its close: the timer     *)
(* task (TimerQ), the command thread (CmdQ) and the MLME thread between        *)
(* them.  Timer handlers post MLME messages; the MLME thread, handling one,    *)
(* sets a timer, cancels one or enqueues a command.  rt28xx_close halts the     *)
(* MLME from the outside while all three still run, and ends them one by one  *)
(* in the order of RtmpMgmtTaskExit.  The system may be suspended meanwhile.   *)
(***************************************************************************)
EXTENDS TimerQ, CmdQ

CONSTANTS
  MaxMsgs,     \* MAX_LEN_OF_MLME_QUEUE
  MaxEvents    \* bound: messages from outside the timers, and suspensions

ASSUME MgmtTasksAssumption ==
  /\ Canceller = {"mlme", "close"}
  /\ MaxMsgs \in Nat \ {0} /\ MaxEvents \in Nat

VARIABLES
  msgs, msema, mpc,  \* Mlme.Queue.Num, mlmeTask.taskSema, where the thread is
  halting,           \* fRTMP_ADAPTER_HALT_IN_PROGRESS
  suspended,         \* PM_FlgSuspend
  killed,            \* tasks with task_killed set and SIGTERM sent
  stage, left,       \* how far the close is, and the timers it has still to cancel
  events,
  slept              \* history: the system has been suspended

mlmeVars == <<msgs, msema, mpc>>
closeVars == <<killed, stage, left>>
sleepVars == <<suspended, events, slept>>
vars == <<timerVars, cmdVars, mlmeVars, halting, closeVars, sleepVars>>

Init ==
  /\ TimerInit /\ CmdInit
  /\ msgs = 0 /\ msema = 0 /\ mpc = "wait"
  /\ halting = FALSE /\ suspended = FALSE /\ slept = FALSE
  /\ killed = {} /\ stage = "open" /\ left = {} /\ events = 0

Event == events < MaxEvents /\ events' = events + 1

\* Fault: a wait no signal ends.
NotSignalled(task) == FALSE
\* RTMP_SEM_EVENT_WAIT is down_interruptible: the SIGTERM of RtmpOSTaskKill ends it.
Signalled(task) == task \in killed
Kill(task) == killed' = killed \cup {task}

\* MlmeEnqueue, with RTMP_MLME_HANDLER behind it.
MlmeEnqueue ==
  IF halting \/ msgs = MaxMsgs THEN UNCHANGED mlmeVars
  ELSE msgs' = msgs + 1 /\ msema' = Up(msema) /\ UNCHANGED mpc

----------------------------------------------------------------------------
(* Kernel timers and the timer task. *)

KernelTimer ==
  /\ \E t \in Timer : Expire(t) \/ rtmp_timer(t)
  /\ UNCHANGED <<cmdVars, mlmeVars, halting, closeVars, sleepVars>>

RtmpTimerQHandle ==
  /\ \/ TimerWake(Signalled("timer"))
     \/ TimerTestMore
     \/ TimerTestDone("timer" \in killed)
     \/ TimerTake
     \/ TimerAdd
  /\ halting' = (halting \/ (tpc = "test" /\ tqueue = <<>> /\ status))
  /\ UNCHANGED <<cmdVars, mlmeVars, closeVars, sleepVars>>

\* A handler posts a message, or finds nothing to do; a suspended one is not run.
RunHandler ==
  /\ TimerHandle
  /\ (~suspended /\ MlmeEnqueue) \/ UNCHANGED mlmeVars
  /\ UNCHANGED <<cmdVars, halting, closeVars, sleepVars>>

----------------------------------------------------------------------------
(* The MLME thread. *)

Busy == cancel["mlme"].at # "no"
Loop == IF "mlme" \in killed THEN "gone" ELSE "wait"

MlmeWake ==
  /\ mpc = "wait" /\ msema > 0 /\ msema' = msema - 1
  /\ mpc' = IF suspended THEN Loop ELSE "handle"
  /\ UNCHANGED <<timerVars, cmdVars, msgs, halting, closeVars, sleepVars>>

MlmeInterrupted ==
  /\ mpc = "wait" /\ msema = 0 /\ Signalled("mlme")
  /\ mpc' = "gone" /\ halting' = TRUE
  /\ UNCHANGED <<timerVars, cmdVars, msgs, msema, closeVars, sleepVars>>

\* MlmeHandler takes messages until there are none or the adapter halts.
MlmeTake ==
  /\ mpc = "handle" /\ ~Busy /\ msgs > 0 /\ ~halting
  /\ msgs' = msgs - 1 /\ mpc' = "act"
  /\ UNCHANGED <<timerVars, cmdVars, msema, halting, closeVars, sleepVars>>

MlmeDone ==
  /\ mpc = "handle" /\ ~Busy /\ (msgs = 0 \/ halting)
  /\ mpc' = Loop
  /\ UNCHANGED <<timerVars, cmdVars, msgs, msema, halting, closeVars, sleepVars>>

MlmeAct ==
  /\ mpc = "act" /\ mpc' = "handle"
  /\ \/ /\ \E t \in Timer \ Periodic : RTMPSetTimer(t) \/ CancelBegin("mlme", t)
        /\ UNCHANGED cmdVars
     \/ \E c \in Cmd : Enqueue(c, Up(csema)) /\ UNCHANGED timerVars
     \/ UNCHANGED <<timerVars, cmdVars>>
  /\ UNCHANGED <<msgs, msema, halting, closeVars, sleepVars>>

Cancelling(c) ==
  /\ CancelStep(c)
  /\ UNCHANGED <<cmdVars, mlmeVars, halting, closeVars, sleepVars>>

----------------------------------------------------------------------------
(* The command thread. *)

RTUSBCmdThread ==
  /\ \/ CmdStart \/ CmdLoop \/ CmdWake(suspended) \/ CmdInterrupted(Signalled("cmd"))
     \/ CmdTake \/ CmdEmpty \/ CmdRun(halting) \/ CmdLeave(suspended)
  /\ halting' = (halting \/ (cpc = "wait" /\ csema = 0))
  /\ UNCHANGED <<timerVars, mlmeVars, closeVars, sleepVars>>

----------------------------------------------------------------------------
(* rt28xx_close: MlmeHalt, then RtmpMgmtTaskExit. *)

CloseBegin ==
  /\ stage = "open" /\ stage' = "cancel"
  /\ halting' = TRUE /\ left' = Timer
  /\ UNCHANGED <<timerVars, cmdVars, mlmeVars, killed, sleepVars>>

CloseCancel(t) ==
  /\ stage = "cancel" /\ t \in left
  /\ CancelBegin("close", t) /\ left' = left \ {t}
  /\ UNCHANGED <<cmdVars, mlmeVars, halting, killed, stage, sleepVars>>

CloseMlmeHalted ==
  /\ stage = "cancel" /\ left = {} /\ cancel["close"].at = "no"
  /\ msgs' = 0 /\ stage' = "exit"
  /\ UNCHANGED <<timerVars, cmdVars, msema, mpc, halting, killed, left, sleepVars>>

CloseTimerQ ==
  /\ stage = "exit" /\ stage' = "mlme"
  /\ RtmpTimerQExit /\ Kill("mlme")
  /\ UNCHANGED <<cmdVars, mlmeVars, halting, left, sleepVars>>

CloseMlmeGone ==
  /\ stage = "mlme" /\ mpc = "gone" /\ stage' = "cmd"
  /\ CmdQStop("STOPED") /\ Kill("cmd")
  /\ UNCHANGED <<timerVars, mlmeVars, halting, left, sleepVars>>

CloseCmdGone ==
  /\ stage = "cmd" /\ cpc = "gone" /\ stage' = "timer"
  /\ CmdQStop("UNKNOWN") /\ Kill("timer")
  /\ UNCHANGED <<timerVars, mlmeVars, halting, left, sleepVars>>

CloseTimerGone ==
  /\ stage = "timer" /\ tpc = "gone" /\ stage' = "closed"
  /\ halting' = FALSE
  /\ UNCHANGED <<timerVars, cmdVars, mlmeVars, killed, left, sleepVars>>

rt28xx_close ==
  \/ \E t \in Timer : CloseCancel(t)
  \/ CloseMlmeHalted \/ CloseTimerQ \/ CloseMlmeGone \/ CloseCmdGone \/ CloseTimerGone

----------------------------------------------------------------------------
(* What comes from outside. *)

\* A process or the receive tasklet posts a message.
OutsideMessage ==
  /\ stage = "open" /\ Event /\ MlmeEnqueue
  /\ UNCHANGED <<timerVars, cmdVars, halting, closeVars, suspended, slept>>

\* A completion tasklet or a process enqueues a command; it may still do so while
\* the adapter closes.
OutsideCommand ==
  /\ stage # "closed"
  /\ \E c \in Cmd : Enqueue(c, Up(csema))
  /\ UNCHANGED <<timerVars, mlmeVars, halting, closeVars, sleepVars>>

rt2870_suspend ==
  /\ stage = "open" /\ ~suspended /\ Event /\ suspended' = TRUE /\ slept' = TRUE
  /\ UNCHANGED <<timerVars, cmdVars, mlmeVars, halting, closeVars>>

rt2870_resume ==
  /\ suspended /\ suspended' = FALSE
  /\ UNCHANGED <<timerVars, cmdVars, mlmeVars, halting, closeVars, events, slept>>

Next ==
  \/ KernelTimer \/ RtmpTimerQHandle \/ RunHandler
  \/ MlmeWake \/ MlmeInterrupted \/ MlmeTake \/ MlmeDone \/ MlmeAct
  \/ \E c \in Canceller : Cancelling(c)
  \/ RTUSBCmdThread
  \/ CloseBegin \/ rt28xx_close
  \/ OutsideMessage \/ OutsideCommand \/ rt2870_suspend \/ rt2870_resume

\* The kernel schedules every task that can run; a close once begun goes on.
Fairness ==
  /\ \A t \in Timer : WF_vars(KernelTimer /\ t \in firing /\ t \notin firing')
  /\ WF_vars(RtmpTimerQHandle \/ RunHandler)
  /\ WF_vars(MlmeWake \/ MlmeInterrupted \/ MlmeTake \/ MlmeDone \/ MlmeAct)
  /\ \A c \in Canceller : WF_vars(Cancelling(c))
  /\ WF_vars(RTUSBCmdThread) /\ WF_vars(rt28xx_close)

Spec == Init /\ [][Next]_vars /\ Fairness

----------------------------------------------------------------------------
(* Properties. *)

\* A timer that was set, and since then neither ran nor was cancelled, is armed,
\* on its way to the queue, in it, or in the hand of the timer task: an expiry
\* that meets a full queue, or a periodic timer between two rounds, is not lost
\* (rtmp_timer_<func>, RtmpTimerQHandle).
TimerNotLost ==
  tstatus = "INITED" => \A t \in owed \ {cancel[c].t : c \in Canceller} :
                          t \in pending \cup firing \cup Range(tqueue) \/ InHand(t)

\* After RTMPCancelTimer a handler runs only for an expiry that was past the
\* cancel's reach when it ended: in softirq, already taken from the queue, put
\* into it a second time, or about to be run again with an emptied queue.
CancelReaches ==
  [][tpc = "run" /\ tpc' # "run" /\ State[hand]
       => hand \in escaped \/ \E c \in Canceller : cancel[c].t = hand]_vars

\* A command that was allocated is in the queue, in the thread's hand or freed,
\* in one of them only, and at the end of a close it is freed, unless the system
\* was suspended (RTUSBCmdThread, CMDHandler, RTUSBEnqueueInternalCmd).
CommandsFreed ==
  /\ made = freed \cup cmd \cup Range(cqueue)
  /\ Cardinality(made) = Cardinality(freed) + Cardinality(cmd) + Len(cqueue)
  /\ stage = "closed" /\ ~slept => made = freed

\* A command in the queue is run or, as the adapter halts, freed: no wake-up of
\* the thread is missed, but those it spends while the system is suspended.
CommandServed == \A c \in Cmd : c \in Range(cqueue) ~> (c \in freed \/ slept)

\* A close that has begun ends: no task waits for another in a circle, and each
\* notices that it is to leave, whatever it is doing (RtmpMgmtTaskExit).
CloseEnds == stage = "cancel" ~> stage = "closed"

=============================================================================

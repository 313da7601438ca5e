-------------------------------- MODULE CmdQ --------------------------------
(***************************************************************************)
(* The command queue of rtusb_io.c and the thread that runs its commands      *)
(* (RTUSBCmdThread).  A command is allocated by whoever enqueues it, and      *)
(* must be freed once: by a refusal, by CMDHandler, or by the thread that      *)
(* empties the queue as it leaves.  A module that EXTENDS this one says who     *)
(* enqueues, and when the thread is stopped.                                 *)
(***************************************************************************)
EXTENDS Integers, Sequences, FiniteSets

CONSTANT Cmd   \* commands that may be enqueued in one behaviour

ASSUME CmdQAssumption == IsFiniteSet(Cmd)

VARIABLES
  CmdQState,
  cqueue,       \* CmdQ from head to tail
  csema,        \* cmdQTask.taskSema
  cpc, cmd,     \* where the thread is, and its cmdqelmt
  made, freed,  \* commands allocated, and released
  ran           \* commands whose body was run

cmdVars == <<CmdQState, cqueue, csema, cpc, cmd, made, freed, ran>>

\* RTUSBInitializeCmdQ; the thread is attached and has not started its loop.
CmdInit ==
  /\ CmdQState = "INITED" /\ cqueue = <<>> /\ csema = 0
  /\ cpc = "attach" /\ cmd = {}
  /\ made = {} /\ freed = {} /\ ran = {}

\* Fault: the state of the queue is not asked.
CanAlwaysInsert == TRUE
\* RTMP_TASK_CAN_DO_INSERT.
CanInsert == CmdQState \in {"INITED", "RUNNING"}

\* RTUSBEnqueueInternalCmd and RTUSBEnqueueCmdFromNdis, with the wake-up.
Enqueue(c, up) ==
  /\ c \notin made /\ made' = made \cup {c}
  /\ IF CanInsert THEN cqueue' = Append(cqueue, c) /\ csema' = up /\ UNCHANGED freed
     ELSE freed' = freed \cup {c} /\ UNCHANGED <<cqueue, csema>>
  /\ UNCHANGED <<CmdQState, cpc, cmd, ran>>

CmdStart ==
  /\ cpc = "attach"
  /\ CmdQState' = "RUNNING" /\ cpc' = "loop"
  /\ UNCHANGED <<cqueue, csema, cmd, made, freed, ran>>

CmdLoop ==
  /\ cpc = "loop"
  /\ cpc' = IF CmdQState = "RUNNING" THEN "wait" ELSE "leave"
  /\ UNCHANGED <<CmdQState, cqueue, csema, cmd, made, freed, ran>>

CmdWake(suspended) ==
  /\ cpc = "wait" /\ csema > 0 /\ csema' = csema - 1
  /\ cpc' = CASE CmdQState = "STOPED" -> "leave"
              [] CmdQState # "STOPED" /\ suspended -> "loop"
              [] OTHER -> "handle"
  /\ UNCHANGED <<CmdQState, cqueue, cmd, made, freed, ran>>

CmdInterrupted(signalled) ==
  /\ cpc = "wait" /\ csema = 0 /\ signalled
  /\ cpc' = "leave"
  /\ UNCHANGED <<CmdQState, cqueue, csema, cmd, made, freed, ran>>

\* CMDHandler: one command after the other, until the queue is empty.
CmdTake ==
  /\ cpc = "handle" /\ cqueue # <<>>
  /\ cqueue' = Tail(cqueue) /\ cmd' = {Head(cqueue)} /\ cpc' = "run"
  /\ UNCHANGED <<CmdQState, csema, made, freed, ran>>

CmdEmpty ==
  /\ cpc = "handle" /\ cqueue = <<>>
  /\ cpc' = "loop"
  /\ UNCHANGED <<CmdQState, cqueue, csema, cmd, made, freed, ran>>

\* The body is left out once the adapter halts; the command is freed all the same.
CmdRun(halting) ==
  /\ cpc = "run"
  /\ ran' = IF halting THEN ran ELSE ran \cup cmd
  /\ freed' = freed \cup cmd /\ cmd' = {} /\ cpc' = "handle"
  /\ UNCHANGED <<CmdQState, cqueue, csema, made>>

\* Fault: one command alone is released.
DrainedFirst == IF cqueue = <<>> THEN freed ELSE freed \cup {Head(cqueue)}
Drained == freed \cup {cqueue[k] : k \in DOMAIN cqueue}

\* The end of RTUSBCmdThread; while suspended it leaves the queue as it is.
CmdLeave(suspended) ==
  /\ cpc = "leave" /\ cpc' = "gone"
  /\ IF suspended THEN UNCHANGED <<CmdQState, cqueue, freed>>
     ELSE CmdQState' = "STOPED" /\ cqueue' = <<>> /\ freed' = Drained
  /\ UNCHANGED <<csema, cmd, made, ran>>

CmdQStop(s) ==
  /\ CmdQState' = s
  /\ UNCHANGED <<cqueue, csema, cpc, cmd, made, freed, ran>>

=============================================================================

------------------------------- MODULE TxFifo -------------------------------
(***************************************************************************)
(* What the transmit ring of one bulk-out pipe promises its callers: frames *)
(* leave in the order in which they were committed, a bulk transfer carries *)
(* a non-empty prefix of what is waiting, and no new transfer is composed   *)
(* while one is outstanding.  A transfer may be submitted again (the reset  *)
(* command does so) or be abandoned, but always as a whole.                 *)
(***************************************************************************)
EXTENDS Naturals, Sequences

VARIABLES
  queue,     \* frames committed by writers and not yet in a bulk transfer
  bulk,      \* frames of the newest bulk transfer
  inFlight   \* the newest bulk transfer is in the hands of the USB core

fifoVars == <<queue, bulk, inFlight>>

Init ==
  /\ queue = <<>>
  /\ bulk = <<>>
  /\ inFlight = FALSE

\* A writer commits a frame, or the fragments of one packet at once.
Put ==
  /\ Len(queue') > Len(queue)
  /\ SubSeq(queue', 1, Len(queue)) = queue
  /\ UNCHANGED <<bulk, inFlight>>

\* A transfer is composed from the oldest waiting frames.
Take ==
  /\ ~inFlight
  /\ \E n \in 1..Len(queue) :
       /\ bulk' = SubSeq(queue, 1, n)
       /\ queue' = SubSeq(queue, n + 1, Len(queue))
  /\ UNCHANGED inFlight

\* The newest transfer is handed to the USB core, for the first time or again.
Submit ==
  /\ ~inFlight
  /\ bulk # <<>>
  /\ inFlight' = TRUE
  /\ UNCHANGED <<queue, bulk>>

\* The USB core hands it back.
Complete ==
  /\ inFlight
  /\ inFlight' = FALSE
  /\ UNCHANGED <<queue, bulk>>

Next == Put \/ Take \/ Submit \/ Complete

Spec == Init /\ [][Next]_fifoVars
=============================================================================

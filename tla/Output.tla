------------------------------- MODULE Output -------------------------------
(***************************************************************************)
(* The way of the solver's output to the file with --timestamp and -O: the *)
(* solver writes to the pipe, the time stamper thread gives what it has    *)
(* stamped to the filter, and after the thread has been joined the         *)
(* destructor of RunSolver flushes the filter.                             *)
(*                                                                         *)
(* What the filter counts as a byte is here a token of the time stamper:   *)
(* the number n in the filter stands for out[n].                           *)
(***************************************************************************)
EXTENDS TimeStamper, OutputFilter

vars == <<stamperVars, filterVars>>

Init == StamperInit /\ FilterInit

(* What the thread has written since the last step goes through            *)
(* CircularBufferFilter::write, which returns when systemWrite has.        *)
ThroughFilter ==
  /\ stage = "open" /\ pending = <<>>
  /\ IF Len(out') > Len(out) THEN Write(Len(out') - Len(out))
     ELSE UNCHANGED filterVars

Stamping == ThreadStep /\ ThroughFilter

Outside == Around /\ stage = "open" /\ UNCHANGED filterVars

Writing ==
  /\ (\E n \in 1..Len(pending) : SystemWrite(n)) \/ WriteFails
  /\ UNCHANGED stamperVars

(* Mutant: runsolver ends without waiting for the thread.                  *)
NotJoined == pending = <<>>

(* pthread_join(timeStamperTID) has returned.                              *)
Joined == thread = "done"

Ending ==
  /\ (Joined /\ Flush) \/ Close
  /\ UNCHANGED stamperVars

Aborted == Killed /\ UNCHANGED stamperVars

Ended == stage \in {"closed", "killed"} /\ UNCHANGED vars

Next == Stamping \/ Outside \/ Writing \/ Ending \/ Aborted \/ Ended

Spec == Init /\ [][Next]_vars

(* The threads of runsolver are scheduled and their system calls return.   *)
FairSpec == Spec /\ WF_vars(Stamping) /\ WF_vars(Writing) /\ WF_vars(Ending)

-----------------------------------------------------------------------------
(* Everything the solver wrote has been stamped, even what was still in    *)
(* the pipe when the solver ended, and is in the file when it fits; and    *)
(* the EOF line is the last one of the file even if the output was cut.    *)
FileComplete ==
  stage = "closed" /\ ~ failed /\ ~ GaveUp =>
    /\ closed /\ Shown(Len(sent))
    /\ total <= maxSize => file = [i \in 1..Len(out) |-> i]
    /\ AddEOF => file # <<>> /\ out[Last(file)] = EOF

(* A process of the solver that is blocked on a full pipe goes on, and     *)
(* runsolver ends when the pipe has been closed, unless the thread gave    *)
(* up or runsolver was killed.                                             *)
Drained ==
  /\ Pipe = PipeSize ~> Pipe < PipeSize \/ GaveUp \/ stage = "killed"
  /\ closed ~> stage \in {"closed", "killed"}
=============================================================================

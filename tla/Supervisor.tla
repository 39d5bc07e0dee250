----------------------------- MODULE Supervisor -----------------------------
(***************************************************************************)
(* What runsolver promises about the processes of a solver: it leaves them *)
(* alone until a stop is asked for; it then warns them (SIGTERM), gives    *)
(* them a delay, and only after the delay dooms them (SIGKILL); and it     *)
(* reports the end of the run only when none of them is left.  How the     *)
(* processes are found, and by which thread, is left open.                 *)
(***************************************************************************)
EXTENDS Integers

CONSTANTS Process, First, Delay

VARIABLES live,    \* the processes that are running
          warned, doomed, \* which of them were sent SIGTERM, and SIGKILL
          asked,   \* has a stop been asked for?
          phase,   \* "watching", "warning" or "waiting"
          waited,  \* ticks since the warning
          over     \* has the end of the run been noticed?

supervisorVars == <<live, warned, doomed, asked, phase, waited, over>>

Init ==
  /\ live = {First} /\ warned = {} /\ doomed = {}
  /\ asked = FALSE /\ phase = "watching" /\ waited = 0 /\ over = FALSE

(* Only a process that runs creates another one.                           *)
Start(p) ==
  /\ live \ doomed # {} /\ p \notin live
  /\ live' = live \cup {p}
  /\ UNCHANGED <<warned, doomed, asked, phase, waited, over>>

Finish(p) ==
  /\ p \in live
  /\ live' = live \ {p} /\ warned' = warned \ {p} /\ doomed' = doomed \ {p}
  /\ UNCHANGED <<asked, phase, waited, over>>

AskToStop ==
  /\ asked' = TRUE
  /\ UNCHANGED <<live, warned, doomed, phase, waited, over>>

BeginWarning ==
  /\ phase = "watching" /\ asked
  /\ phase' = "warning"
  /\ UNCHANGED <<live, warned, doomed, asked, waited, over>>

Warn(p) ==
  /\ phase = "warning" /\ p \in live
  /\ warned' = warned \cup {p}
  /\ UNCHANGED <<live, doomed, asked, phase, waited, over>>

BeginWaiting ==
  /\ phase = "warning"
  /\ phase' = "waiting"
  /\ UNCHANGED <<live, warned, doomed, asked, waited, over>>

Tick ==
  /\ phase = "waiting" /\ waited < Delay
  /\ waited' = waited + 1
  /\ UNCHANGED <<live, warned, doomed, asked, phase, over>>

Doom(p) ==
  /\ phase = "waiting" /\ waited = Delay /\ p \in live
  /\ doomed' = doomed \cup {p}
  /\ UNCHANGED <<live, warned, asked, phase, waited, over>>

Conclude ==
  /\ live = {}
  /\ over' = TRUE
  /\ UNCHANGED <<live, warned, doomed, asked, phase, waited>>

Next ==
  \/ \E p \in Process : Start(p) \/ Finish(p) \/ Warn(p) \/ Doom(p)
  \/ AskToStop \/ BeginWarning \/ BeginWaiting \/ Tick \/ Conclude

Spec == Init /\ [][Next]_supervisorVars
=============================================================================

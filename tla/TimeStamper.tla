----------------------------- MODULE TimeStamper -----------------------------
(***************************************************************************)
(* The thread that puts a time stamp before each line of the solver's      *)
(* output (TimeStamper.hh).  The processes of the solver share the writing *)
(* end of one pipe; the thread waits for data with select, reads a chunk,  *)
(* and writes it line by line.  A signal that is delivered to this thread  *)
(* makes select fail.                                                      *)
(*                                                                         *)
(* A byte of the output is its number; all that is known of it is whether  *)
(* it ends a line and when it was written.  A stamp is the wall clock      *)
(* time; the CPU time next to it is left out.  What is written is a        *)
(* sequence of tokens.                                                     *)
(***************************************************************************)
EXTENDS Integers, Sequences, FiniteSetsExt, SequencesExt

CONSTANTS ChunkSize, \* size of the buffer (1024)
          PipeSize,  \* capacity of the pipe
          MaxErrors, \* failures of select in a row before it gives up (10)
          AddEOF,    \* addEOFLine
          MaxBytes,  \* bound: number of bytes written by the solver
          MaxTime    \* bound: wall clock time

ASSUME StamperAssumption ==
  /\ {ChunkSize, PipeSize, MaxErrors} \subseteq Nat \ {0}
  /\ AddEOF \in BOOLEAN
  /\ MaxBytes \in Nat /\ MaxTime \in Nat

VARIABLES now,
          sent,       \* the bytes the solver has written to the pipe
          closed,     \* has the last process of the solver closed it?
          taken,      \* number of bytes read
          rest,       \* how many of them are still in the buffer
          stamp,      \* tstampbuffer
          eolBefore,  \* EOLBefore
          incompleteLineSent,
          watchDog,   \* failures of select in a row
          thread,     \* "select", "lines", "finish" or "done"
          out         \* what has been written

solverVars == <<sent, closed>>
threadVars == <<taken, rest, stamp, eolBefore, incompleteLineSent, watchDog, thread, out>>
stamperVars == <<now, solverVars, threadVars>>

Byte(n)  == [kind |-> "byte", val |-> n]
Stamp(t) == [kind |-> "stamp", val |-> t]
Newline  == [kind |-> "newline", val |-> 0]
EOF      == [kind |-> "EOF", val |-> 0]

BytesUpTo(n) == [i \in 1..(n - (taken - rest)) |-> Byte(taken - rest + i)]

StamperInit ==
  /\ now = 0 /\ sent = <<>> /\ closed = FALSE
  /\ taken = 0 /\ rest = 0 /\ stamp = 0
  /\ eolBefore = TRUE /\ incompleteLineSent = FALSE
  /\ watchDog = 0 /\ thread = "select" /\ out = <<>>

-----------------------------------------------------------------------------
(* The solver and the clock.                                               *)
Pipe == Len(sent) - taken

SolverWrites(eol) ==
  /\ ~ closed /\ Pipe < PipeSize /\ Len(sent) < MaxBytes
  /\ sent' = Append(sent, [eol |-> eol, at |-> now])
  /\ UNCHANGED <<now, closed, threadVars>>

SolverCloses ==
  /\ ~ closed
  /\ closed' = TRUE
  /\ UNCHANGED <<now, sent, threadVars>>

Clock ==
  /\ now < MaxTime
  /\ now' = now + 1
  /\ UNCHANGED <<solverVars, threadVars>>

-----------------------------------------------------------------------------
(* Mutants of the operators below: the stamp of the chunk before is used   *)
(* again; a stamp is written after every end of line; an incomplete line   *)
(* is not remembered; the line loop does not end.                          *)
StampOfBefore == stamp
AlwaysStamped(n) == <<Stamp(stamp)>>
Forgotten(n) == FALSE
DoesNotEnd == "lines"

(* timeStampLines gives up after too many failures of select.              *)
AfterError(errors) == IF errors < MaxErrors THEN "select" ELSE "finish"

(* timeStampLines: select fails, interrupted by a signal.                  *)
Interrupted ==
  /\ thread = "select"
  /\ watchDog' = watchDog + 1
  /\ thread' = AfterError(watchDog + 1)
  /\ UNCHANGED <<now, solverVars, taken, rest, stamp, eolBefore,
                 incompleteLineSent, out>>

(* prepareTimeStamp                                                        *)
CurrentStamp == now

(* readFrom, up to the loop: one stamp for all the lines of the chunk.     *)
ReadChunk(n) ==
  /\ thread = "select"
  /\ n \in 1..ChunkSize /\ n <= Pipe
  /\ watchDog' = 0
  /\ taken' = taken + n /\ rest' = n
  /\ stamp' = CurrentStamp
  /\ out' = IF eolBefore THEN Append(out, Stamp(CurrentStamp)) ELSE out
  /\ eolBefore' = FALSE
  /\ thread' = "lines"
  /\ UNCHANGED <<now, solverVars, incompleteLineSent>>

LineEnds == {n \in (taken - rest + 1)..taken : sent[n].eol}
FirstLineEnd(n) == \A m \in LineEnds : n <= m

(* What is written after an end of line when n bytes are left.             *)
StampIfMore(n) == IF n > 0 THEN <<Stamp(stamp)>> ELSE <<>>

(* readFrom: one round of the loop.                                        *)
WriteLine ==
  /\ thread = "lines"
  /\ \E n \in LineEnds :
       /\ FirstLineEnd(n)
       /\ rest' = taken - n
       /\ out' = out \o BytesUpTo(n) \o StampIfMore(taken - n)
       /\ eolBefore' = (IF n = taken THEN TRUE ELSE eolBefore)
  /\ UNCHANGED <<now, solverVars, taken, stamp, incompleteLineSent, watchDog, thread>>

Incomplete(n) == n > 0
AfterLines == "select"

(* readFrom: after the loop, the last incomplete line.                     *)
WriteRest ==
  /\ thread = "lines" /\ LineEnds = {}
  /\ out' = out \o BytesUpTo(taken)
  /\ incompleteLineSent' = Incomplete(rest)
  /\ rest' = 0
  /\ thread' = AfterLines
  /\ UNCHANGED <<now, solverVars, taken, stamp, eolBefore, watchDog>>

AtEndOfFile == closed /\ Pipe = 0

(* readFrom returns false: the only stream is erased and the loop ends.    *)
EndOfFile ==
  /\ thread = "select" /\ AtEndOfFile
  /\ watchDog' = 0
  /\ thread' = "finish"
  /\ UNCHANGED <<now, solverVars, taken, rest, stamp, eolBefore,
                 incompleteLineSent, out>>

(* The end of timeStampLines.  After EndOfFile the line is written through *)
(* watched[0], although watched is empty: the storage of the vector still  *)
(* holds the erased element.                                               *)
Finish ==
  /\ thread = "finish"
  /\ out' = IF AddEOF
            THEN out \o (IF incompleteLineSent THEN <<Newline>> ELSE <<>>)
                     \o <<Stamp(now), EOF>>
            ELSE out
  /\ stamp' = IF AddEOF THEN now ELSE stamp
  /\ thread' = "done"
  /\ UNCHANGED <<now, solverVars, taken, rest, eolBefore, incompleteLineSent, watchDog>>

ThreadStep ==
  \/ \E n \in 1..ChunkSize : ReadChunk(n)
  \/ WriteLine \/ WriteRest \/ EndOfFile \/ Finish

Around ==
  \/ \E eol \in BOOLEAN : SolverWrites(eol)
  \/ SolverCloses \/ Clock \/ Interrupted

StamperNext == Around \/ ThreadStep

StamperSpec == StamperInit /\ [][StamperNext]_stamperVars

-----------------------------------------------------------------------------
FirstOfLine(n) == n = 1 \/ sent[n - 1].eol
GaveUp == watchDog = MaxErrors

(* The bytes that have been written are the first n, each once, in order.  *)
Shown(n) ==
  /\ \A i \in DOMAIN out : out[i].kind = "byte" => out[i].val \in 1..n
  /\ \A k \in 1..n : \E i \in DOMAIN out : out[i] = Byte(k)
  /\ \A i, j \in DOMAIN out :
       i < j /\ out[i].kind = "byte" /\ out[j].kind = "byte" => out[i].val < out[j].val

(* However the output is cut into chunks, what is written is the output of *)
(* the solver with a stamp before the first byte of each line and nowhere  *)
(* else, and a stamp is never left without its line.                       *)
LinesStamped ==
  /\ Shown(taken - rest)
  /\ \A i \in DOMAIN out :
       /\ out[i].kind = "byte" =>
            (FirstOfLine(out[i].val) <=> (i > 1 /\ out[i - 1].kind = "stamp"))
       /\ out[i].kind = "stamp" =>
            IF i = Len(out) THEN rest > 0 ELSE out[i + 1].kind \in {"byte", "EOF"}

(* A stamp is never earlier than the first byte of its line, nor than the  *)
(* stamp before: what the solver prints late is never shown as early.      *)
StampsLate ==
  \A i \in DOMAIN out : out[i].kind = "stamp" =>
    /\ i < Len(out) /\ out[i + 1].kind = "byte" =>
         out[i].val >= sent[out[i + 1].val].at
    /\ \A j \in 1..(i - 1) : out[j].kind = "stamp" => out[j].val <= out[i].val

(* The EOF line is the last line, has a stamp, and is a line of its own,   *)
(* even if the solver was killed in the middle of a line.                  *)
EofAlone ==
  thread = "done" /\ AddEOF =>
    LET n == Len(out)
    IN /\ n >= 2 /\ out[n] = EOF /\ out[n - 1].kind = "stamp"
       /\ n > 2 => \/ out[n - 2] = Newline
                   \/ out[n - 2].kind = "byte" /\ sent[out[n - 2].val].eol
=============================================================================

---------------------------- MODULE OutputFilter ----------------------------
(***************************************************************************)
(* The limit on the size of the solver's output (CircularBufferFilter.hh): *)
(* the first activateSize bytes go to the file at once, the others to a    *)
(* circular buffer of maxSize-activateSize bytes, which flush() writes     *)
(* when runsolver ends, after a notice if bytes were lost.                 *)
(*                                                                         *)
(* The bytes are numbered 1, 2, ... in the order the filter receives them; *)
(* the text of the notice is the number 0.  systemWrite is a loop over     *)
(* write(2), which may accept a part of the bytes only, be interrupted     *)
(* (the step is repeated: a stuttering step), or fail.                     *)
(***************************************************************************)
EXTENDS Integers, Sequences, FiniteSetsExt, SequencesExt

CONSTANTS activateSize, maxSize, \* -O, --output-limit
          WritesFail             \* may write(2) fail?

(* main refuses activateSize >= maxSize.                                   *)
ASSUME FilterAssumption == /\ activateSize \in Nat /\ maxSize \in Nat
                           /\ activateSize < maxSize
                           /\ WritesFail \in BOOLEAN

bufferSize == maxSize - activateSize
Slot   == 0..(bufferSize - 1)
Notice == 0

VARIABLES total,    \* number of bytes received
          data,     \* circular buffer
          used,     \* has the buffer been allocated?
          w,        \* position of the next byte in the buffer
          file,     \* bytes written to the file
          pending,  \* bytes systemWrite has still to write
          failed,   \* did a write fail?
          stage     \* "open", "flushing", "closed" or "killed"

filterVars == <<total, data, used, w, file, pending, failed, stage>>

Bytes(first, last) == [i \in 1..(last - first + 1) |-> first + i - 1]

FilterInit ==
  /\ total = 0 /\ used = FALSE /\ w = 0
  /\ data = [x \in Slot |-> 0]
  /\ file = <<>> /\ pending = <<>> /\ failed = FALSE
  /\ stage = "open"

(* Mutants: the part of a chunk that completes the first bytes is not      *)
(* written apart; the bytes of a chunk that wraps around start at 0.       *)
DirectOrNothing(len) == IF total + len < activateSize THEN len ELSE 0
StoredFromZero(m, x) == {k \in 1..m : (k - 1) % bufferSize = x}

(* How many of the next len bytes are among the first activateSize.        *)
Direct(len) ==
  IF total + len < activateSize THEN len
  ELSE IF total < activateSize THEN activateSize - total ELSE 0

(* Which of the m next bytes memcpy stores in slot x.                      *)
Stored(m, x) == {k \in 1..m : (w + k - 1) % bufferSize = x}

Advanced(m) == (w + m) % bufferSize

Write(len) ==
  LET direct == Direct(len)
      rest   == len - direct
      kept   == [x \in Slot |-> Stored(rest, x)]
  IN /\ stage = "open" /\ pending = <<>>
     /\ total' = total + len
     /\ pending' = Bytes(total + 1, total + direct)
     /\ used' = (used \/ total + len >= activateSize)
     /\ data' = [x \in Slot |-> IF kept[x] = {} THEN data[x]
                                ELSE total + direct + Max(kept[x])]
     /\ w' = Advanced(rest)
     /\ UNCHANGED <<file, failed, stage>>

(* One call of write(2) in systemWrite.                                    *)
SystemWrite(n) ==
  /\ n \in 1..Len(pending)
  /\ file' = file \o SubSeq(pending, 1, n)
  /\ pending' = SubSeq(pending, n + 1, Len(pending))
  /\ UNCHANGED <<total, data, used, w, failed, stage>>

WriteFails ==
  /\ WritesFail /\ pending # <<>>
  /\ pending' = <<>>
  /\ failed' = TRUE
  /\ UNCHANGED <<total, data, used, w, file, stage>>

(* The content of a full buffer, the oldest byte first.                    *)
Unrolled == [i \in 1..bufferSize |-> data[(w + i - 1) % bufferSize]]

(* flush, called by the destructor.                                        *)
Flush ==
  /\ stage = "open" /\ pending = <<>>
  /\ pending' = IF ~ used THEN <<>>
                ELSE IF total <= maxSize
                THEN [i \in 1..(total - activateSize) |-> data[i - 1]]
                ELSE <<Notice>> \o Unrolled
  /\ stage' = "flushing"
  /\ UNCHANGED <<total, data, used, w, file, failed>>

Close ==
  /\ stage = "flushing" /\ pending = <<>>
  /\ stage' = "closed"
  /\ UNCHANGED <<total, data, used, w, file, pending, failed>>

(* The watchdog thread sends SIGABRT to runsolver, whose destructors do    *)
(* not run: what is in the buffer is lost.                                 *)
Killed ==
  /\ stage \in {"open", "flushing"}
  /\ stage' = "killed" /\ pending' = <<>>
  /\ UNCHANGED <<total, data, used, w, file, failed>>

FilterNext ==
  \/ \E len \in Nat \ {0} : Write(len)
  \/ \E n \in 1..Len(pending) : SystemWrite(n)
  \/ WriteFails \/ Flush \/ Close \/ Killed

FilterSpec == FilterInit /\ [][FilterNext]_filterVars

-----------------------------------------------------------------------------
(* What the file is for: the whole output when it is within the limit,     *)
(* and otherwise its first activateSize bytes, the notice and its last     *)
(* bufferSize bytes.                                                       *)
Saved == IF total <= maxSize THEN Bytes(1, total)
         ELSE Bytes(1, activateSize) \o <<Notice>>
                \o Bytes(total - bufferSize + 1, total)

(* If no write failed the file ends up with all that it is for, in order   *)
(* and without a byte lost or repeated at the seams.                       *)
FirstAndLastBytes == stage = "closed" /\ ~ failed => file = Saved

(* As long as runsolver has not ended the file holds nothing but a prefix  *)
(* of the output, of at most activateSize bytes; and even if runsolver is  *)
(* killed, while it copies the buffer too, a reader of the file sees no    *)
(* byte out of order.                                                      *)
PrefixBefore ==
  ~ failed =>
    /\ stage = "open" =>
         file \o pending = Bytes(1, IF total < activateSize THEN total ELSE activateSize)
    /\ IsPrefix(file, Saved)
=============================================================================

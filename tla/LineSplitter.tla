---------------------------- MODULE LineSplitter ----------------------------
(***************************************************************************)
(* vlineSplitter: the "v " lines of a solver's output, which hold its      *)
(* answer, are cut into lines of a little more than Limit characters; the  *)
(* other lines are copied.  With --timestamp each line begins with a time  *)
(* stamp, which is repeated on every piece.                                *)
(*                                                                         *)
(* A line is its words, and whether a blank follows the last one (the line *)
(* "stamp TAB" of an empty line, and the line "v ").                       *)
(***************************************************************************)
EXTENDS Integers, Sequences, FiniteSetsExt, SequencesExt

CONSTANTS Inputs, \* sequences of lines
          Limit,  \* 100
          Length  \* number of characters of each word

Word == DOMAIN Length
Line == [words : Seq(Word), blank : BOOLEAN]

ASSUME SplitterAssumption ==
  /\ Limit \in Nat
  /\ Length \in [Word -> Nat \ {0}]
  /\ Inputs \subseteq Seq(Line)

VARIABLES withTimestamp, \* --timestamp
          lines,         \* standard input
          newline,       \* does the last line end with a newline?
          read,          \* number of lines read
          timestamp,     \* the stamp of the current line
          literals,      \* what is left of the current "v " line
          len,           \* characters of literals in the current piece
          at,            \* "read", "split" or "end"
          printed        \* lines written

splitterVars == <<withTimestamp, lines, newline, read, timestamp, literals, len, at, printed>>

SplitterInit ==
  /\ withTimestamp \in BOOLEAN /\ lines \in Inputs /\ newline \in BOOLEAN
  /\ ~ newline => lines # <<>> /\ Last(lines).words # <<>>
  /\ read = 0 /\ timestamp = "" /\ literals = <<>> /\ len = 0
  /\ at = "read" /\ printed = <<>>

(* The line starts with "v ".                                              *)
IsValue(l) == /\ l.words # <<>> /\ Head(l.words) = "v"
              /\ Len(l.words) > 1 \/ l.blank

(* What is left of a line after its first word and the blank after it.     *)
WithoutStamp(l) == [words |-> Tail(l.words), blank |-> l.blank]
OneWord(l) == Len(l.words) = 1 /\ ~ l.blank

Wanted == {i \in (read + 1)..Len(lines) : withTimestamp => lines[i].words # <<>>}

(* The number of the line the stamp is read from, if any, and the number   *)
(* of the line whose end is the body: when the stamp is alone on its line, *)
(* the character that is skipped is the newline.                           *)
FirstWanted == Min(Wanted)
BodyLine == IF withTimestamp /\ OneWord(lines[FirstWanted]) THEN FirstWanted + 1 ELSE FirstWanted
Body == IF withTimestamp /\ BodyLine = FirstWanted THEN WithoutStamp(lines[FirstWanted])
        ELSE lines[BodyLine]

(* Nothing is left, or nothing after the stamp.                            *)
NoMore ==
  Wanted # {} /\ BodyLine <= Len(lines) =>
    BodyLine = Len(lines) /\ ~ newline /\ Body.words = <<>>

ReadLine ==
  /\ at = "read" /\ ~ NoMore
  /\ read' = BodyLine
  /\ timestamp' = IF withTimestamp THEN Head(lines[FirstWanted].words) ELSE ""
  /\ IF IsValue(Body)
     THEN literals' = Tail(Body.words) /\ at' = "split" /\ UNCHANGED printed
     ELSE /\ printed' = Append(printed, [stamp |-> timestamp', words |-> Body.words,
                                         blank |-> Body.blank])
          /\ UNCHANGED <<literals, at>>
  /\ UNCHANGED <<withTimestamp, lines, newline, len>>

(* Mutants: a piece may be one longer; only the first piece is stamped.    *)
FullLater(n) == n > Limit + 1
FirstStamped == IF printed # <<>> /\ IsValue(Last(printed)) THEN "" ELSE timestamp

Full(n) == n > Limit
PieceStamp == timestamp

(* The next literal, on a new piece if the current one is complete.        *)
WriteLiteral ==
  /\ at = "split" /\ literals # <<>>
  /\ literals' = Tail(literals)
  /\ printed' = IF len = 0
                THEN Append(printed, [stamp |-> PieceStamp,
                                      words |-> <<"v", Head(literals)>>, blank |-> FALSE])
                ELSE [printed EXCEPT ![Len(printed)].words = Append(@, Head(literals))]
  /\ LET n == len + Length[Head(literals)]
     IN len' = IF Full(n) THEN 0 ELSE n
  /\ UNCHANGED <<withTimestamp, lines, newline, read, timestamp, at>>

(* The end of the line; len is a local variable of the loop.               *)
EndLine ==
  /\ at = "split" /\ literals = <<>>
  /\ len' = 0 /\ at' = "read"
  /\ UNCHANGED <<withTimestamp, lines, newline, read, timestamp, literals, printed>>

EndOfInput ==
  /\ at = "read" /\ NoMore
  /\ at' = "end"
  /\ UNCHANGED <<withTimestamp, lines, newline, read, timestamp, literals, len, printed>>

SplitterEnded == at = "end" /\ UNCHANGED splitterVars

SplitterNext == ReadLine \/ WriteLiteral \/ EndLine \/ EndOfInput \/ SplitterEnded

SplitterSpec == SplitterInit /\ [][SplitterNext]_splitterVars

-----------------------------------------------------------------------------
(* A line as the reader of the output counts: the literals of a "v " line  *)
(* one by one, with the stamp they carry, another line as a whole.         *)
Content(l) == IF IsValue(l)
              THEN [i \in 1..(Len(l.words) - 1) |-> <<l.stamp, l.words[i + 1]>>]
              ELSE <<<<l.stamp, l.words, l.blank>>>>
AllContent(s) == FlattenSeq([i \in DOMAIN s |-> Content(s[i])])

Stamped(l) == l.words # <<>> /\ ~ OneWord(l)
Given(l) == [stamp |-> IF withTimestamp THEN Head(l.words) ELSE "",
             words |-> IF withTimestamp THEN Tail(l.words) ELSE l.words,
             blank |-> l.blank]

(* No literal of the answer is lost, repeated, moved past another line or  *)
(* given the stamp of another line, whatever the pieces are, provided that *)
(* with --timestamp each line has a stamp; a last line without newline     *)
(* counts too, unless nothing follows its stamp.                           *)
WordsKept ==
  LET given    == [i \in DOMAIN lines |-> Given(lines[i])]
      complete == IF withTimestamp /\ ~ newline /\ Last(given).words = <<>>
                  THEN Front(given) ELSE given
  IN (withTimestamp => \A i \in DOMAIN lines : Stamped(lines[i])) =>
       /\ IsPrefix(AllContent(printed), AllContent(complete))
       /\ at = "end" => AllContent(printed) = AllContent(complete)

(* A piece of a "v " line has at least one literal and is beyond the limit *)
(* by its last literal at most; and a piece that is complete while its     *)
(* line goes on is beyond it: no line is cut without need.                 *)
Characters(words) == SumFunction([i \in DOMAIN words |-> Length[words[i]]])
Begun == Len(literals) < Len(lines[read].words) - (IF withTimestamp THEN 2 ELSE 1)
PiecesFit ==
  /\ \A i \in DOMAIN printed : IsValue(printed[i]) =>
       /\ Len(printed[i].words) > 1
       /\ Characters(SubSeq(printed[i].words, 2, Len(printed[i].words) - 1)) <= Limit
  /\ at = "split" /\ len = 0 /\ literals # <<>> /\ Begun =>
       Characters(Tail(Last(printed).words)) > Limit
=============================================================================

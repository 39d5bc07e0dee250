--------------------------- MODULE ProcessHistory ---------------------------
(***************************************************************************)
(* The samples the watcher thread keeps (ProcessHistory.hh) and the        *)
(* pointers Watcher.hh has to them.  The history has NbCell cells of two   *)
(* samples: a cell that is full passes its older sample to the next cell   *)
(* and deletes its newer one, so that the samples grow sparser with age.   *)
(* The history owns the samples; procTree and lastProcTree are plain       *)
(* pointers to some of them.                                               *)
(*                                                                         *)
(* A sample is known by its number, which stands for its elapsed time:     *)
(* samples are at least one tick apart.  history[c][i] is the code's       *)
(* history[2*c+i].                                                         *)
(***************************************************************************)
EXTENDS Integers, Sequences

CONSTANTS NbCell,    \* nbcell (10)
          MaxSample  \* bound: number of samples taken

ASSUME HistoryAssumption == NbCell \in Nat \ {0} /\ MaxSample \in Nat

Cell   == 0..(NbCell - 1)
Sample == 0..MaxSample
NoTree == -1

VARIABLES nbitem,        \* number of samples in each cell
          history,
          heap,          \* the samples that are allocated
          procTree, lastProcTree,
          lastDisplayed, \* lastDisplayedElapsedTime
          stage,         \* "watching", "ended", "dumped" or "destroyed"
          dump           \* what dumpHistory printed

vars == <<nbitem, history, heap, procTree, lastProcTree, lastDisplayed, stage, dump>>

(* The constructor pushes a first, empty sample.  lastDisplayedElapsedTime *)
(* is not initialised: any value.                                          *)
Init ==
  /\ nbitem  = [c \in Cell |-> IF c = 0 THEN 1 ELSE 0]
  /\ history = [c \in Cell |-> [i \in 0..1 |-> IF c = 0 /\ i = 0 THEN 0 ELSE NoTree]]
  /\ heap = {0}
  /\ procTree = 0 /\ lastProcTree = NoTree
  /\ lastDisplayed \in {-1, MaxSample + 1}
  /\ stage = "watching" /\ dump = <<>>

Uses(c) == 0..(nbitem[c] - 1)
Held    == {history[u[1]][u[2]] : u \in {v \in Cell \X (0..1) : v[2] < nbitem[v[1]]}}

(* Mutant: a full cell passes on its newer sample.                         *)
CarriedNewer(elem, c) == IF c = 0 THEN elem ELSE history[c - 1][1]

(* What a push makes cell c receive: the new sample, or the older sample   *)
(* of the cell before.                                                     *)
Carried(elem, c) == IF c = 0 THEN elem ELSE history[c - 1][0]

HasRoom(c) == nbitem[c] < 2

(* Mutant: a full cell is not emptied.                                     *)
NeverEmptied(full) ==
  [c \in Cell |-> IF c = full THEN nbitem[c] + 1 ELSE nbitem[c]]

(* A full cell is emptied and takes one sample; so does the first cell     *)
(* that has room.                                                          *)
NewNbitem(full) ==
  [c \in Cell |-> IF c < full THEN 1 ELSE IF c = full THEN nbitem[c] + 1 ELSE nbitem[c]]

(* Mutant: what the last cell passes on is forgotten.                      *)
DroppedInside(full) == {history[c][1] : c \in 0..(full - 1)}

(* The samples a push deletes: the newer one of each full cell, and what   *)
(* the last cell passes on.                                                *)
Dropped(full) == {history[c][1] : c \in 0..(full - 1)}
                   \cup (IF full = NbCell THEN {history[NbCell - 1][0]} ELSE {})

(* push: the first cells, as many as "full" says, are full.                *)
Push(elem) ==
  \E full \in 0..NbCell :
    /\ \A c \in 0..(full - 1) : ~ HasRoom(c)
    /\ full < NbCell => HasRoom(full)
    /\ nbitem' = NewNbitem(full)
    /\ history' = [c \in Cell |->
                     IF c < full THEN [history[c] EXCEPT ![0] = Carried(elem, c)]
                     ELSE IF c = full
                     THEN [history[c] EXCEPT ![nbitem[c]] = Carried(elem, c)]
                     ELSE history[c]]
    /\ heap' = (heap \cup {elem}) \ Dropped(full)

(* readProcessData: the new sample becomes procTree and is pushed.  It is  *)
(* displayed if it is the first, and later from time to time.              *)
ReadProcessData ==
  /\ stage = "watching" /\ procTree < MaxSample
  /\ lastProcTree' = procTree
  /\ procTree' = procTree + 1
  /\ Push(procTree + 1)
  /\ \/ lastDisplayed' = procTree + 1
     \/ procTree # 0 /\ UNCHANGED lastDisplayed
  /\ UNCHANGED <<stage, dump>>

(* Mutant: procTree is not set back.                                       *)
DeletedCurrent ==
  /\ stage = "watching"
  /\ lastProcTree' = procTree
  /\ procTree' = procTree + 1
  /\ stage' = "ended"
  /\ UNCHANGED <<nbitem, history, heap, lastDisplayed, dump>>

(* readProcessData finds that the solver has ended: the new sample is      *)
(* deleted at once and procTree is what it was.                            *)
SolverEnded ==
  /\ stage = "watching"
  /\ lastProcTree' = procTree
  /\ stage' = "ended"
  /\ UNCHANGED <<nbitem, history, heap, procTree, lastDisplayed, dump>>

(* The loop ends after a sample.                                           *)
LoopEnds ==
  /\ stage = "watching"
  /\ stage' = "ended"
  /\ UNCHANGED <<nbitem, history, heap, procTree, lastProcTree, lastDisplayed, dump>>

(* dumpHistory, once the watcher thread has ended: the older sample of     *)
(* each cell, from the last cell to the first, if it is more recent than   *)
(* the last one displayed; then the newer sample of the first cell.        *)
OlderSamples ==
  [i \in 1..NbCell |-> IF nbitem[NbCell - i] = 0 THEN NoTree ELSE history[NbCell - i][0]]

(* Mutant: nothing but the older samples is shown.                         *)
NoNewest == <<>>

Newest == IF nbitem[0] = 2 THEN <<history[0][1]>> ELSE <<>>

OlderShown[n \in 0..NbCell] == \* of the last n cells
  IF n = 0 THEN <<>>
  ELSE IF OlderSamples[n] > lastDisplayed THEN Append(OlderShown[n - 1], OlderSamples[n])
  ELSE OlderShown[n - 1]

DumpHistory ==
  /\ stage = "ended"
  /\ dump' = OlderShown[NbCell] \o Newest
  /\ stage' = "dumped"
  /\ UNCHANGED <<nbitem, history, heap, procTree, lastProcTree, lastDisplayed>>

(* The destructor stops at the first empty cell.                           *)
Destroy ==
  /\ stage = "dumped"
  /\ heap' = heap \ {history[u[1]][u[2]] :
                       u \in {v \in Cell \X (0..1) :
                                /\ v[2] < nbitem[v[1]]
                                /\ \A c \in 0..v[1] : nbitem[c] > 0}}
  /\ stage' = "destroyed"
  /\ UNCHANGED <<nbitem, history, procTree, lastProcTree, lastDisplayed, dump>>

Destroyed == stage = "destroyed" /\ UNCHANGED vars

Next == ReadProcessData \/ SolverEnded \/ LoopEnds \/ DumpHistory \/ Destroy \/ Destroyed

Spec == Init /\ [][Next]_vars

-----------------------------------------------------------------------------
(* The types; a cell never holds more than two samples.                    *)
TypeOK ==
  /\ nbitem \in [Cell -> 0..2]
  /\ history \in [Cell -> [0..1 -> Sample \cup {NoTree}]]
  /\ heap \subseteq Sample
  /\ procTree \in Sample
  /\ lastProcTree \in Sample \cup {NoTree}
  /\ lastDisplayed \in -1..(MaxSample + 1)
  /\ stage \in {"watching", "ended", "dumped", "destroyed"}

(* No sample is leaked, deleted twice or used after it was deleted: until  *)
(* the destructor runs the samples allocated are those of the cells, and   *)
(* afterwards there are none.                                              *)
HeapIsHeld == heap = IF stage = "destroyed" THEN {} ELSE Held

(* procTree, which the watcher thread copies, sums and sends signals from, *)
(* is never a deleted sample, although push deletes one at every call.     *)
CurrentAlive == stage # "destroyed" => procTree \in heap

(* Samples grow older from cell to cell and inside a cell, so no sample is *)
(* in two places and the report can be read from top to bottom.            *)
Chronological ==
  /\ \A c \in Cell : nbitem[c] = 2 => history[c][0] < history[c][1]
  /\ \A c, d \in Cell : c < d =>
       \A i \in Uses(c), j \in Uses(d) : history[d][j] < history[c][i]

(* The last sample before the solver ended is always shown to the user:    *)
(* during the run, or at the end of the history.                           *)
LastShown ==
  stage = "dumped" /\ procTree # 0 /\ lastDisplayed # procTree =>
    dump # <<>> /\ dump[Len(dump)] = procTree

(* The samples of cell c are 2^c samples apart and 2^(c+1) samples away    *)
(* from the next cell, however long the run is: the history has no wider   *)
(* hole, and its precision only halves from cell to cell.                  *)
Spaced ==
  /\ \A c \in Cell : nbitem[c] = 2 => history[c][1] - history[c][0] = 2^c
  /\ \A c \in Cell : c + 1 \in Cell /\ nbitem[c + 1] > 0 =>
       history[c][0] - history[c + 1][nbitem[c + 1] - 1] = 2^(c + 1)
=============================================================================

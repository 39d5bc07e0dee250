---------------------------- MODULE HistoryProofs ----------------------------
(***************************************************************************)
(* Proofs about module ProcessHistory, for any number of cells and of      *)
(* samples: the history never leaks a sample, never deletes one twice,     *)
(* never deletes the sample the watcher thread is using, keeps samples     *)
(* spaced by powers of two and always shows the last one.                  *)
(*                                                                         *)
(* The invariant behind them is that the cells in use come first, that     *)
(* the samples grow older from cell to cell (Chronological), and that the  *)
(* most recent one is procTree.  It makes the samples of the cells all     *)
(* different, so that deleting one never deletes another.                  *)
(***************************************************************************)
EXTENDS ProcessHistory, SumTheorems, TLAPS

(* The cells in use come first, so the destructor meets them all.          *)
UsedFirst == \A c, d \in Cell : c < d /\ nbitem[c] = 0 => nbitem[d] = 0

(* The most recent sample of the first cell is procTree.                   *)
CurrentIsNewest == nbitem[0] > 0 /\ procTree = history[0][nbitem[0] - 1]

Ages == TypeOK /\ UsedFirst /\ Chronological /\ CurrentIsNewest

-----------------------------------------------------------------------------
(* The first and the last cell.                                            *)
LEMMA CellFacts == (\A c \in Cell : c \in Nat) /\ 0 \in Cell /\ NbCell - 1 \in Cell
  BY HistoryAssumption DEF Cell

(* The history begins with one sample, procTree.                           *)
LEMMA AgesInit == Init => Ages
<1> SUFFICES ASSUME Init PROVE Ages
  OBVIOUS
<1> USE HistoryAssumption, CellFacts
<1>1. TypeOK
  BY DEF Init, TypeOK, Sample, NoTree, Cell
<1>2. UsedFirst
  BY DEF Init, UsedFirst
<1>3. Chronological
  BY DEF Init, Chronological, Uses
<1>4. CurrentIsNewest
  BY DEF Init, CurrentIsNewest
<1>5. QED
  BY <1>1, <1>2, <1>3, <1>4 DEF Ages

(* What one push does, cell by cell; "full" is the number of full cells.   *)
PushAt(elem, full) ==
  /\ \A c \in Cell : c < full => nbitem[c] = 2
  /\ full \in Cell => nbitem[full] < 2
  /\ nbitem' \in [Cell -> 0..2]
  /\ \A c \in Cell : nbitem'[c] = IF c < full THEN 1
                                  ELSE IF c = full THEN nbitem[c] + 1
                                  ELSE nbitem[c]
  /\ \A c \in Cell : c > full => history'[c] = history[c]
  /\ \A c \in Cell : c < full =>
       /\ history'[c][0] = IF c = 0 THEN elem ELSE history[c - 1][0]
       /\ history'[c][1] = history[c][1]
  /\ \A c \in Cell : c = full =>
       /\ history'[c][nbitem[c]] = IF c = 0 THEN elem ELSE history[c - 1][0]
       /\ nbitem[c] = 1 => history'[c][0] = history[c][0]
  /\ history' \in [Cell -> [0..1 -> Sample \cup {NoTree}]]
  /\ heap' = (heap \cup {elem}) \ Dropped(full)

(* Push, seen cell by cell.                                                *)
LEMMA PushCells ==
  ASSUME TypeOK, NEW elem \in Sample, Push(elem)
  PROVE  \E full \in 0..NbCell : PushAt(elem, full)
<1> USE HistoryAssumption, CellFacts
<1>1. PICK full \in 0..NbCell :
        /\ \A c \in 0..(full - 1) : ~ HasRoom(c)
        /\ full < NbCell => HasRoom(full)
        /\ nbitem' = NewNbitem(full)
        /\ history' = [c \in Cell |->
                         IF c < full THEN [history[c] EXCEPT ![0] = Carried(elem, c)]
                         ELSE IF c = full
                         THEN [history[c] EXCEPT ![nbitem[c]] = Carried(elem, c)]
                         ELSE history[c]]
        /\ heap' = (heap \cup {elem}) \ Dropped(full)
  BY DEF Push
<1>2. nbitem \in [Cell -> 0..2] /\ history \in [Cell -> [0..1 -> Sample \cup {NoTree}]]
  BY DEF TypeOK
<1>3. \A c \in Cell : c < full => nbitem[c] = 2
  <2> SUFFICES ASSUME NEW c \in Cell, c < full PROVE nbitem[c] = 2
    OBVIOUS
  <2>1. c \in 0..(full - 1)
    OBVIOUS
  <2>2. ~ (nbitem[c] < 2)
    BY <2>1, <1>1 DEF HasRoom
  <2>3. nbitem[c] \in 0..2
    BY <1>2
  <2>4. QED
    BY <2>2, <2>3
<1>4. full \in Cell => nbitem[full] \in 0..1
  BY <1>1, <1>2 DEF HasRoom, Cell
<1>5. \A c \in Cell : nbitem'[c] = IF c < full THEN 1
                                   ELSE IF c = full THEN nbitem[c] + 1
                                   ELSE nbitem[c]
  BY <1>1 DEF NewNbitem
<1>6. nbitem' \in [Cell -> 0..2]
  BY <1>1, <1>2, <1>4 DEF NewNbitem
<1>7. \A c \in Cell : c <= full =>
        Carried(elem, c) = (IF c = 0 THEN elem ELSE history[c - 1][0])
  BY DEF Carried
<1>8. \A c \in Cell : c <= full => Carried(elem, c) \in Sample \cup {NoTree}
  <2> SUFFICES ASSUME NEW c \in Cell, c # 0 PROVE history[c - 1][0] \in Sample \cup {NoTree}
    BY <1>7
  <2>1. c - 1 \in Cell
    BY DEF Cell
  <2>2. QED
    BY <2>1, <1>2
<1>9. \A c \in Cell : c > full => history'[c] = history[c]
  BY <1>1
<1>10. \A c \in Cell : c < full =>
         /\ history'[c] = [history[c] EXCEPT ![0] = Carried(elem, c)]
         /\ history'[c][0] = Carried(elem, c)
         /\ history'[c][1] = history[c][1]
  BY <1>1, <1>2
<1>11. \A c \in Cell : c = full =>
         /\ history'[c] = [history[c] EXCEPT ![nbitem[c]] = Carried(elem, c)]
         /\ history'[c][nbitem[c]] = Carried(elem, c)
         /\ nbitem[c] = 1 => history'[c][0] = history[c][0]
  BY <1>1, <1>2, <1>4
<1>12. history' \in [Cell -> [0..1 -> Sample \cup {NoTree}]]
  <2>1. ASSUME NEW c \in Cell
        PROVE  history'[c] \in [0..1 -> Sample \cup {NoTree}]
    <3>1. history[c] \in [0..1 -> Sample \cup {NoTree}]
      BY <1>2
    <3>2. c > full \/ c < full \/ c = full
      OBVIOUS
    <3>3. CASE c > full
      BY <3>1, <3>3, <1>9
    <3>7. ASSUME c <= full PROVE Carried(elem, c) \in Sample \cup {NoTree}
      BY <3>7, <1>8
    <3>4. CASE c < full
      <4>1. history'[c] = [history[c] EXCEPT ![0] = Carried(elem, c)]
        BY <3>4, <1>10
      <4>2. Carried(elem, c) \in Sample \cup {NoTree}
        BY <3>4, <3>7
      <4>3. QED
        BY <3>1, <4>1, <4>2
    <3>5. CASE c = full
      <4>1. history'[c] = [history[c] EXCEPT ![nbitem[c]] = Carried(elem, c)]
        BY <3>5, <1>11
      <4>2. Carried(elem, c) \in Sample \cup {NoTree}
        BY <3>5, <3>7
      <4>3. QED
        BY <3>1, <4>1, <4>2
    <3>6. QED
      BY <3>2, <3>3, <3>4, <3>5
  <2>2. QED
    BY <2>1, <1>1
<1>13. \A c \in Cell : c < full =>
         /\ history'[c][0] = (IF c = 0 THEN elem ELSE history[c - 1][0])
         /\ history'[c][1] = history[c][1]
  <2> SUFFICES ASSUME NEW c \in Cell, c < full
               PROVE  /\ history'[c][0] = (IF c = 0 THEN elem ELSE history[c - 1][0])
                      /\ history'[c][1] = history[c][1]
    OBVIOUS
  <2>1. c <= full
    OBVIOUS
  <2>2. Carried(elem, c) = (IF c = 0 THEN elem ELSE history[c - 1][0])
    BY <2>1, <1>7
  <2>3. QED
    BY <2>2, <1>10
<1>14. \A c \in Cell : c = full =>
         /\ history'[c][nbitem[c]] = (IF c = 0 THEN elem ELSE history[c - 1][0])
         /\ nbitem[c] = 1 => history'[c][0] = history[c][0]
  <2> SUFFICES ASSUME NEW c \in Cell, c = full
               PROVE  /\ history'[c][nbitem[c]]
                           = (IF c = 0 THEN elem ELSE history[c - 1][0])
                      /\ nbitem[c] = 1 => history'[c][0] = history[c][0]
    OBVIOUS
  <2>1. c <= full
    OBVIOUS
  <2>2. Carried(elem, c) = (IF c = 0 THEN elem ELSE history[c - 1][0])
    BY <2>1, <1>7
  <2>3. QED
    BY <2>2, <1>11
<1>15. full \in Cell => nbitem[full] < 2
  BY <1>4
<1>16. PushAt(elem, full)
  BY <1>1, <1>3, <1>15, <1>6, <1>5, <1>9, <1>13, <1>14, <1>12 DEF PushAt
<1>17. QED
  BY <1>16

-----------------------------------------------------------------------------
(* All samples of the cells are at most as recent as procTree.             *)
LEMMA UsedIsOld ==
  ASSUME Ages, NEW c \in Cell, NEW i \in Uses(c)
  PROVE  /\ i \in 0..1
         /\ history[c][i] \in Int
         /\ history[c][i] <= procTree
<1> USE HistoryAssumption, CellFacts
<1>1. /\ nbitem \in [Cell -> 0..2] /\ procTree \in Sample
      /\ history \in [Cell -> [0..1 -> Sample \cup {NoTree}]]
  BY DEF Ages, TypeOK
<1>2. i \in 0..1 /\ c \in Nat
  BY <1>1 DEF Uses
<1>3. /\ history[c][i] \in Int /\ procTree \in Int
      /\ history[0][0] \in Int /\ history[0][1] \in Int
  BY <1>1, <1>2 DEF Sample, NoTree
<1>4. /\ nbitem[0] \in 0..2 /\ nbitem[0] > 0
      /\ procTree = history[0][nbitem[0] - 1] /\ nbitem[0] - 1 \in Uses(0)
  BY <1>1 DEF Ages, CurrentIsNewest, Uses
<1>5. CASE c = 0
  <2>1. nbitem[0] = 2 => history[0][0] < history[0][1]
    BY DEF Ages, Chronological
  <2>2. i = nbitem[0] - 1 \/ (nbitem[0] = 2 /\ i = 0)
    BY <1>4, <1>2, <1>5 DEF Uses
  <2>3. QED
    BY <2>1, <2>2, <1>2, <1>3, <1>4, <1>5
<1>6. CASE c > 0
  <2>1. history[c][i] < history[0][nbitem[0] - 1]
    BY <1>4, <1>6 DEF Ages, Chronological
  <2>2. QED
    BY <2>1, <1>2, <1>3, <1>4
<1>7. QED
  BY <1>2, <1>5, <1>6

(* Where the samples of the cells come from when elem is pushed: one is    *)
(* the sample the cell received, the others it had before.                 *)
Received(elem, c) == IF c = 0 THEN elem ELSE history[c - 1][0]

(* Every sample after a push was received or was there before.             *)
LEMMA Sources ==
  ASSUME TypeOK, NEW elem \in Sample, NEW full \in 0..NbCell, PushAt(elem, full),
         NEW c \in Cell, NEW i \in Uses(c)'
  PROVE  \/ c <= full /\ history'[c][i] = Received(elem, c)
         \/ c >= full /\ i \in Uses(c) /\ history'[c][i] = history[c][i]
<1> USE HistoryAssumption, CellFacts
<1>1. nbitem \in [Cell -> 0..2] /\ nbitem[c] \in 0..2 /\ c \in Nat
  BY DEF TypeOK
<1>2. i \in 0..(nbitem'[c] - 1)
  BY DEF Uses
<1>3. CASE c < full
  <2>1. nbitem'[c] = 1
    BY <1>3 DEF PushAt
  <2>2. i = 0
    BY <1>2, <2>1
  <2>3. history'[c][0] = Received(elem, c)
    BY <1>3 DEF PushAt, Received
  <2>4. QED
    BY <1>1, <1>3, <2>2, <2>3
<1>4. CASE c = full
  <2>1. nbitem'[c] = nbitem[c] + 1 /\ nbitem[c] < 2
    BY <1>4 DEF PushAt
  <2>2. i = nbitem[c] \/ (i = 0 /\ nbitem[c] = 1)
    BY <1>1, <1>2, <2>1
  <2>3. history'[c][nbitem[c]] = Received(elem, c)
    BY <1>4 DEF PushAt, Received
  <2>4. nbitem[c] = 1 => history'[c][0] = history[c][0] /\ 0 \in Uses(c)
    BY <1>4 DEF PushAt, Uses
  <2>5. QED
    BY <1>1, <1>4, <2>2, <2>3, <2>4
<1>5. CASE c > full
  <2>1. nbitem'[c] = nbitem[c] /\ history'[c] = history[c]
    BY <1>1, <1>5 DEF PushAt
  <2>2. QED
    BY <1>1, <1>2, <1>5, <2>1 DEF Uses
<1>6. QED
  BY <1>1, <1>3, <1>4, <1>5

(* What a cell receives is older than elem, and was in use.                *)
LEMMA ReceivedFacts ==
  ASSUME Ages, NEW full \in 0..NbCell, PushAt(procTree + 1, full),
         NEW c \in Cell, c <= full
  PROVE  \/ c = 0 /\ Received(procTree + 1, c) = procTree + 1
         \/ /\ c > 0 /\ c - 1 \in Cell /\ 0 \in Uses(c - 1)
            /\ Received(procTree + 1, c) = history[c - 1][0]
<1> USE HistoryAssumption, CellFacts
<1>1. CASE c = 0
  BY <1>1 DEF Received
<1>2. CASE c > 0
  <2>1. c - 1 \in Cell /\ c - 1 < full
    BY <1>2 DEF Cell
  <2>2. nbitem[c - 1] = 2
    BY <2>1 DEF PushAt
  <2>3. 0 \in Uses(c - 1)
    BY <2>2 DEF Uses
  <2>4. QED
    BY <1>2, <2>1, <2>3 DEF Received
<1>3. QED
  BY <1>1, <1>2

(* A push of the next sample keeps the order of the samples.               *)
LEMMA PushKeepsOrder ==
  ASSUME Ages, NEW full \in 0..NbCell, PushAt(procTree + 1, full),
         procTree + 1 \in Sample
  PROVE  UsedFirst' /\ Chronological'
<1> DEFINE elem == procTree + 1
<1> USE HistoryAssumption, CellFacts
<1>1. /\ nbitem \in [Cell -> 0..2] /\ nbitem' \in [Cell -> 0..2]
      /\ TypeOK /\ procTree \in Int
  BY DEF Ages, TypeOK, PushAt, Sample
<1>2. UsedFirst'
  <2> SUFFICES ASSUME NEW c \in Cell, NEW d \in Cell, c < d, nbitem'[c] = 0
               PROVE  nbitem'[d] = 0
    BY DEF UsedFirst
  <2>1. c > full
    <3>1. nbitem[c] \in 0..2
      BY <1>1
    <3>2. QED
      BY <3>1 DEF PushAt
  <2>2. nbitem[c] = 0 /\ nbitem'[d] = nbitem[d]
    BY <2>1 DEF PushAt
  <2>3. QED
    BY <2>2 DEF Ages, UsedFirst
<1>3. ASSUME NEW c \in Cell, nbitem'[c] = 2 PROVE history'[c][0] < history'[c][1]
  <2>1. nbitem[c] \in 0..2
    BY <1>1
  <2>2. c >= full
    BY <1>3, <2>1 DEF PushAt
  <2>3. CASE c > full
    <3>1. nbitem[c] = 2 /\ history'[c] = history[c]
      BY <1>3, <2>3 DEF PushAt
    <3>2. QED
      BY <3>1 DEF Ages, Chronological
  <2>4. CASE c = full
    <3>1. nbitem[c] = 1
      BY <1>3, <2>1, <2>4 DEF PushAt
    <3>2. history'[c][1] = Received(elem, c) /\ history'[c][0] = history[c][0]
      BY <2>4, <3>1 DEF PushAt, Received
    <3>3. 0 \in Uses(c)
      BY <3>1 DEF Uses
    <3>4. \/ c = 0 /\ Received(elem, c) = elem
          \/ /\ c > 0 /\ c - 1 \in Cell /\ 0 \in Uses(c - 1)
             /\ Received(elem, c) = history[c - 1][0]
      BY <2>4, ReceivedFacts
    <3>5. CASE c = 0 /\ Received(elem, c) = elem
      <4>1. history[c][0] \in Int /\ history[c][0] <= procTree
        BY <3>3, UsedIsOld
      <4>2. QED
        BY <1>1, <3>2, <3>5, <4>1
    <3>6. CASE /\ c > 0 /\ c - 1 \in Cell /\ 0 \in Uses(c - 1)
               /\ Received(elem, c) = history[c - 1][0]
      <4>1. history[c][0] < history[c - 1][0]
        BY <3>3, <3>6 DEF Ages, Chronological
      <4>2. QED
        BY <3>2, <3>6, <4>1
    <3>7. QED
      BY <3>4, <3>5, <3>6
  <2>5. QED
    BY <2>2, <2>3, <2>4
<1>4. ASSUME NEW c \in Cell, NEW d \in Cell, c < d, NEW i \in Uses(c)', NEW j \in Uses(d)'
      PROVE  history'[d][j] < history'[c][i]
  <2>1. \/ c <= full /\ history'[c][i] = Received(elem, c)
        \/ c >= full /\ i \in Uses(c) /\ history'[c][i] = history[c][i]
    BY <1>1, Sources
  <2>2. \/ d <= full /\ history'[d][j] = Received(elem, d)
        \/ d >= full /\ j \in Uses(d) /\ history'[d][j] = history[d][j]
    BY <1>1, Sources
  <2>3. c \in Nat /\ d \in Nat /\ full \in Nat
    OBVIOUS
  <2>4. ASSUME NEW e \in Cell, NEW k \in Uses(e), c - 1 < e, c <= full
        PROVE  history[e][k] < Received(elem, c)
    <3>1. \/ c = 0 /\ Received(elem, c) = elem
          \/ /\ c > 0 /\ c - 1 \in Cell /\ 0 \in Uses(c - 1)
             /\ Received(elem, c) = history[c - 1][0]
      BY <2>4, ReceivedFacts
    <3>2. history[e][k] \in Int /\ history[e][k] <= procTree
      BY UsedIsOld
    <3>3. CASE c = 0 /\ Received(elem, c) = elem
      BY <1>1, <3>2, <3>3
    <3>4. CASE /\ c > 0 /\ c - 1 \in Cell /\ 0 \in Uses(c - 1)
               /\ Received(elem, c) = history[c - 1][0]
      <4>1. history[e][k] < history[c - 1][0]
        BY <2>4, <3>4 DEF Ages, Chronological
      <4>2. QED
        BY <3>4, <4>1
    <3>5. QED
      BY <3>1, <3>3, <3>4
  <2>5. CASE d <= full /\ history'[d][j] = Received(elem, d)
    <3>1. c < full /\ history'[c][i] = Received(elem, c)
      BY <1>4, <2>1, <2>3, <2>5
    <3>2. d > 0 /\ d - 1 \in Cell /\ 0 \in Uses(d - 1)
          /\ Received(elem, d) = history[d - 1][0]
      <4>1. d # 0
        BY <1>4, <2>3
      <4>2. QED
        BY <2>5, <4>1, ReceivedFacts
    <3>3. c - 1 < d - 1 /\ c <= full
      BY <1>4, <2>3, <3>1
    <3>4. history[d - 1][0] < Received(elem, c)
      BY <3>2, <3>3, <2>4
    <3>5. QED
      BY <2>5, <3>1, <3>2, <3>4
  <2>6. CASE d >= full /\ j \in Uses(d) /\ history'[d][j] = history[d][j]
    <3>1. CASE c <= full /\ history'[c][i] = Received(elem, c)
      <4>1. c - 1 < d
        BY <1>4, <2>3
      <4>2. QED
        BY <2>4, <2>6, <3>1, <4>1
    <3>2. CASE c >= full /\ i \in Uses(c) /\ history'[c][i] = history[c][i]
      <4>1. history[d][j] < history[c][i]
        BY <1>4, <2>6, <3>2 DEF Ages, Chronological
      <4>2. QED
        BY <2>6, <3>2, <4>1
    <3>3. QED
      BY <2>1, <3>1, <3>2
  <2>7. QED
    BY <2>2, <2>5, <2>6
<1>5. Chronological'
  BY <1>3, <1>4 DEF Chronological
<1>6. QED
  BY <1>2, <1>5

(* The sample that is pushed is the most recent one of the first cell.     *)
LEMMA PushKeepsNewest ==
  ASSUME Ages, NEW full \in 0..NbCell, PushAt(procTree + 1, full)
  PROVE  nbitem'[0] > 0 /\ history'[0][nbitem'[0] - 1] = procTree + 1
<1> USE HistoryAssumption, CellFacts
<1>1. nbitem[0] \in 0..2
  BY DEF Ages, TypeOK
<1>2. CASE full = 0
  BY <1>1, <1>2 DEF PushAt
<1>3. CASE full > 0
  <2>1. nbitem'[0] = 1 /\ history'[0][0] = procTree + 1
    BY <1>3 DEF PushAt
  <2>2. QED
    BY <2>1
<1>4. QED
  BY <1>2, <1>3

(* A step that takes a sample keeps the invariant.                         *)
LEMMA PushKeepsAges ==
  ASSUME Ages, ReadProcessData
  PROVE  Ages'
<1> USE HistoryAssumption, CellFacts
<1>1. /\ TypeOK /\ procTree' = procTree + 1 /\ procTree + 1 \in Sample
      /\ Push(procTree + 1)
  BY DEF Ages, TypeOK, ReadProcessData, Sample
<1>2. PICK full \in 0..NbCell : PushAt(procTree + 1, full)
  BY <1>1, PushCells
<1>3. UsedFirst' /\ Chronological'
  BY <1>1, <1>2, PushKeepsOrder
<1>4. CurrentIsNewest'
  BY <1>1, <1>2, PushKeepsNewest DEF CurrentIsNewest
<1>5. nbitem' \in [Cell -> 0..2] /\ history' \in [Cell -> [0..1 -> Sample \cup {NoTree}]]
  BY <1>2 DEF PushAt
<1>6. heap' \subseteq Sample
  BY <1>1, <1>2 DEF PushAt, TypeOK
<1>7. lastDisplayed' \in -1..(MaxSample + 1)
  <2>1. lastDisplayed' = procTree + 1 \/ lastDisplayed' = lastDisplayed
    BY DEF ReadProcessData
  <2>2. procTree + 1 \in -1..(MaxSample + 1)
    BY <1>1 DEF Sample
  <2>3. QED
    BY <1>1, <2>1, <2>2 DEF TypeOK
<1>8. procTree' \in Sample /\ lastProcTree' \in Sample \cup {NoTree} /\ stage' = "watching"
  BY <1>1 DEF TypeOK, ReadProcessData
<1>9. TypeOK'
  BY <1>5, <1>6, <1>7, <1>8 DEF TypeOK
<1>10. QED
  BY <1>3, <1>4, <1>9 DEF Ages

(* The other steps leave the cells as they are.                            *)
LEMMA OthersKeepAges ==
  ASSUME Ages,
         SolverEnded \/ LoopEnds \/ DumpHistory \/ Destroy \/ UNCHANGED vars
  PROVE  Ages'
<1>1. /\ UNCHANGED <<nbitem, history, procTree>> /\ heap' \subseteq heap
      /\ lastProcTree' \in {lastProcTree, procTree} /\ lastDisplayed' = lastDisplayed
      /\ stage' \in {stage, "ended", "dumped", "destroyed"}
  BY DEF SolverEnded, LoopEnds, DumpHistory, Destroy, vars
<1>2. TypeOK'
  BY <1>1 DEF Ages, TypeOK
<1>3. UsedFirst' /\ Chronological' /\ CurrentIsNewest'
  BY <1>1 DEF Ages, UsedFirst, Chronological, Uses, CurrentIsNewest
<1>4. QED
  BY <1>2, <1>3 DEF Ages

(* The invariant holds in every behaviour.                                 *)
LEMMA AgesInvariant == Spec => []Ages
<1>1. Ages /\ [Next]_vars => Ages'
  <2> SUFFICES ASSUME Ages, [Next]_vars PROVE Ages'
    OBVIOUS
  <2>1. CASE ReadProcessData
    BY <2>1, PushKeepsAges
  <2>2. CASE SolverEnded \/ LoopEnds \/ DumpHistory \/ Destroy \/ UNCHANGED vars
    BY <2>2, OthersKeepAges
  <2>3. QED
    BY <2>1, <2>2 DEF Next, Destroyed
<1>2. QED
  BY <1>1, AgesInit, PTL DEF Spec

(* The variables keep their types: push never writes beyond a cell, and    *)
(* procTree and lastProcTree are samples that were taken.                  *)
THEOREM TypeCorrect == Spec => []TypeOK
<1>1. Ages => TypeOK
  BY DEF Ages
<1>2. QED
  BY <1>1, AgesInvariant, PTL

(* The samples grow older from cell to cell, however long the run is.      *)
THEOREM HistoryIsChronological == Spec => []Chronological
<1>1. Ages => Chronological
  BY DEF Ages
<1>2. QED
  BY <1>1, AgesInvariant, PTL

-----------------------------------------------------------------------------
(* The samples of the cells, one by one.                                   *)
InCells(x) == \E c \in Cell : \E i \in Uses(c) : x = history[c][i]

HeldIsInCells == nbitem \in [Cell -> 0..2] => \A x : x \in Held <=> InCells(x)

(* A sample is held exactly if it is in a cell.                            *)
LEMMA HeldIs == HeldIsInCells
<1> SUFFICES ASSUME nbitem \in [Cell -> 0..2], NEW x PROVE x \in Held <=> InCells(x)
  BY DEF HeldIsInCells
<1> DEFINE places == {v \in Cell \X (0..1) : v[2] < nbitem[v[1]]}
<1>1. ASSUME NEW c \in Cell, NEW i \in Uses(c) PROVE <<c, i>> \in places
  <2>1. nbitem[c] \in 0..2
    OBVIOUS
  <2>2. i \in 0..1 /\ i < nbitem[c]
    BY <2>1 DEF Uses
  <2>3. QED
    BY <2>2
<1>2. ASSUME NEW u \in places PROVE u[1] \in Cell /\ u[2] \in Uses(u[1])
  <2>1. u[1] \in Cell /\ u[2] \in 0..1 /\ u[2] < nbitem[u[1]] /\ nbitem[u[1]] \in 0..2
    OBVIOUS
  <2>2. QED
    BY <2>1 DEF Uses
<1>3. Held = {history[u[1]][u[2]] : u \in places}
  BY DEF Held
<1>4. ASSUME NEW c \in Cell, NEW i \in Uses(c), x = history[c][i] PROVE x \in Held
  <2>1. history[<<c, i>>[1]][<<c, i>>[2]] = x
    BY <1>4
  <2> HIDE DEF places
  <2>2. QED
    BY <1>1, <1>3, <1>4, <2>1
<1>5. ASSUME x \in Held PROVE InCells(x)
  <2> HIDE DEF places
  <2>1. PICK u \in places : x = history[u[1]][u[2]]
    BY <1>3, <1>5
  <2>2. QED
    BY <1>2, <2>1 DEF InCells
<1>6. QED
  BY <1>4, <1>5 DEF InCells

(* The same after a step.                                                  *)
LEMMA HeldNextIs == nbitem' \in [Cell -> 0..2] => \A x : x \in Held' <=> InCells(x)'
<1>1. HeldIsInCells'
  BY HeldIs, PTL
<1>2. QED
  BY <1>1 DEF HeldIsInCells

(* Chronological makes the samples in use all different.                   *)
LEMMA AllDifferent ==
  ASSUME Ages, NEW c \in Cell, NEW d \in Cell, NEW i \in Uses(c), NEW j \in Uses(d),
         history[c][i] = history[d][j]
  PROVE  c = d /\ i = j
<1> USE HistoryAssumption, CellFacts
<1>1. /\ i \in 0..1 /\ j \in 0..1 /\ history[c][i] \in Int /\ history[d][j] \in Int
      /\ c \in Nat /\ d \in Nat
  BY UsedIsOld
<1>2. ~ (c < d)
  BY <1>1 DEF Ages, Chronological
<1>3. ~ (d < c)
  BY <1>1 DEF Ages, Chronological
<1>4. c = d
  BY <1>1, <1>2, <1>3
<1>5. ASSUME i # j PROVE FALSE
  <2>1. nbitem[c] \in 0..2
    BY DEF Ages, TypeOK
  <2>2. nbitem[c] = 2 /\ {i, j} = {0, 1}
    BY <1>1, <1>4, <1>5, <2>1 DEF Uses
  <2>3. history[c][0] < history[c][1]
    BY <2>2 DEF Ages, Chronological
  <2>4. history[c][0] = history[c][1]
    BY <1>4, <2>2
  <2>5. history[c][0] \in Int
    BY <1>1, <1>4, <2>2
  <2>6. QED
    BY <2>3, <2>4, <2>5
<1>6. QED
  BY <1>4, <1>5

(* What a push deletes was in use before it.                               *)
LEMMA DroppedIs ==
  ASSUME NEW full \in 0..NbCell, NEW elem, Ages, PushAt(elem, full), NEW x \in Dropped(full)
  PROVE  \/ \E k \in Cell : k < full /\ 1 \in Uses(k) /\ x = history[k][1]
         \/ full = NbCell /\ 0 \in Uses(NbCell - 1) /\ x = history[NbCell - 1][0]
<1> USE HistoryAssumption, CellFacts
<1>1. CASE x \in {history[c][1] : c \in 0..(full - 1)}
  <2>1. PICK k \in 0..(full - 1) : x = history[k][1]
    BY <1>1
  <2>2. k \in Cell /\ k < full
    BY DEF Cell
  <2>3. nbitem[k] = 2
    BY <2>2 DEF PushAt
  <2>4. QED
    BY <2>1, <2>2, <2>3 DEF Uses
<1>2. CASE full = NbCell /\ x = history[NbCell - 1][0]
  <2>1. nbitem[NbCell - 1] = 2
    BY <1>2 DEF PushAt
  <2>2. QED
    BY <1>2, <2>1 DEF Uses
<1>3. QED
  BY <1>1, <1>2 DEF Dropped

(* What a push leaves in the cells is not deleted.                         *)
LEMMA KeptIsHeap ==
  ASSUME Ages, heap = Held, NEW full \in 0..NbCell, PushAt(procTree + 1, full),
         procTree + 1 \in Sample, NEW c \in Cell, NEW i \in Uses(c)'
  PROVE  history'[c][i] \in heap'
<1> DEFINE elem == procTree + 1
           x    == history'[c][i]
<1> USE HistoryAssumption, CellFacts
<1>1. TypeOK /\ nbitem \in [Cell -> 0..2] /\ procTree \in Int
  BY DEF Ages, TypeOK, Sample
<1>2. heap' = (heap \cup {elem}) \ Dropped(full)
  BY DEF PushAt
<1>3. ASSUME NEW d \in Cell, NEW j \in Uses(d) PROVE history[d][j] \in heap
  BY <1>1, HeldIs DEF HeldIsInCells, InCells
<1>4. \/ c <= full /\ x = Received(elem, c)
      \/ c >= full /\ i \in Uses(c) /\ x = history[c][i]
  BY <1>1, Sources
<1>5. \/ c = 0 /\ x = elem
      \/ /\ c > 0 /\ c - 1 \in Cell /\ 0 \in Uses(c - 1)
         /\ x = history[c - 1][0]
      \/ c >= full /\ i \in Uses(c) /\ x = history[c][i]
  BY <1>4, ReceivedFacts
<1>6. CASE c = 0 /\ x = elem
  <2>1. ASSUME elem \in Dropped(full) PROVE FALSE
    <3>1. \E k \in Cell : \E j \in Uses(k) : elem = history[k][j]
      BY <2>1, DroppedIs
    <3>2. elem <= procTree
      BY <3>1, UsedIsOld
    <3>3. QED
      BY <1>1, <3>2
  <2>2. QED
    BY <1>2, <1>6, <2>1
<1>7. CASE c > 0 /\ c - 1 \in Cell /\ 0 \in Uses(c - 1) /\ x = history[c - 1][0]
  <2>1. ASSUME x \in Dropped(full) PROVE FALSE
    <3>1. \/ \E k \in Cell : k < full /\ 1 \in Uses(k) /\ x = history[k][1]
          \/ full = NbCell /\ 0 \in Uses(NbCell - 1) /\ x = history[NbCell - 1][0]
      BY <2>1, DroppedIs
    <3>2. ASSUME NEW k \in Cell, 1 \in Uses(k), x = history[k][1] PROVE FALSE
      <4>1. history[c - 1][0] = history[k][1]
        BY <1>7, <3>2
      <4>2. 0 = 1
        BY <1>7, <3>2, <4>1, AllDifferent
      <4>3. QED
        BY <4>2
    <3>3. ASSUME 0 \in Uses(NbCell - 1), x = history[NbCell - 1][0] PROVE FALSE
      <4>1. history[c - 1][0] = history[NbCell - 1][0]
        BY <1>7, <3>3
      <4>2. c - 1 = NbCell - 1
        BY <1>7, <3>3, <4>1, AllDifferent
      <4>3. QED
        BY <4>2 DEF Cell
    <3>4. QED
      BY <3>1, <3>2, <3>3
  <2>2. QED
    BY <1>2, <1>3, <1>7, <2>1
<1>8. CASE c >= full /\ i \in Uses(c) /\ x = history[c][i]
  <2>1. ASSUME x \in Dropped(full) PROVE FALSE
    <3>1. \/ \E k \in Cell : k < full /\ 1 \in Uses(k) /\ x = history[k][1]
          \/ full = NbCell /\ 0 \in Uses(NbCell - 1) /\ x = history[NbCell - 1][0]
      BY <2>1, DroppedIs
    <3>2. ASSUME NEW k \in Cell, k < full, 1 \in Uses(k), x = history[k][1] PROVE FALSE
      <4>1. history[c][i] = history[k][1]
        BY <1>8, <3>2
      <4>2. c = k
        BY <1>8, <3>2, <4>1, AllDifferent
      <4>3. QED
        BY <1>8, <3>2, <4>2
    <3>3. full # NbCell
      BY <1>8 DEF Cell
    <3>4. QED
      BY <3>1, <3>2, <3>3
  <2>2. QED
    BY <1>2, <1>3, <1>8, <2>1
<1>9. QED
  BY <1>5, <1>6, <1>7, <1>8

(* What a push does not delete is in the cells.                            *)
LEMMA HeapIsKept ==
  ASSUME Ages, heap = Held, NEW full \in 0..NbCell, PushAt(procTree + 1, full),
         NEW x \in heap'
  PROVE  \E c \in Cell : \E i \in Uses(c)' : x = history'[c][i]
<1> DEFINE elem == procTree + 1
<1> USE HistoryAssumption, CellFacts
<1>1. TypeOK /\ nbitem \in [Cell -> 0..2]
  BY DEF Ages, TypeOK
<1>2. x \in heap \cup {elem} /\ x \notin Dropped(full)
  BY DEF PushAt
<1>3. ASSUME NEW c \in Cell, c <= full
      PROVE  \E i \in Uses(c)' : Received(elem, c) = history'[c][i]
  <2>1. nbitem[c] \in 0..2
    BY <1>1
  <2>2. CASE c < full
    <3>1. nbitem'[c] = 1 /\ history'[c][0] = Received(elem, c)
      BY <2>2 DEF PushAt, Received
    <3>2. 0 \in Uses(c)'
      BY <3>1 DEF Uses
    <3>3. QED
      BY <3>1, <3>2
  <2>3. CASE c = full
    <3>1. nbitem'[c] = nbitem[c] + 1 /\ history'[c][nbitem[c]] = Received(elem, c)
      BY <2>3 DEF PushAt, Received
    <3>2. nbitem[c] \in Uses(c)'
      BY <2>1, <3>1 DEF Uses
    <3>3. QED
      BY <3>1, <3>2
  <2>4. QED
    BY <1>3, <2>2, <2>3
<1>4. CASE x = elem
  <2>1. 0 <= full /\ Received(elem, 0) = elem
    BY DEF Received
  <2>2. QED
    BY <1>3, <1>4, <2>1
<1>5. CASE x \in heap
  <2>1. PICK c \in Cell : \E i \in 0..(nbitem[c] - 1) : x = history[c][i]
    BY <1>1, <1>5, HeldIs DEF HeldIsInCells, InCells, Uses
  <2>2. PICK i \in 0..(nbitem[c] - 1) : x = history[c][i]
    BY <2>1
  <2>3. nbitem[c] \in 0..2 /\ i \in 0..1 /\ c \in Nat
    BY <1>1
  <2>4. CASE c > full
    <3>1. nbitem'[c] = nbitem[c] /\ history'[c] = history[c]
      BY <2>3, <2>4 DEF PushAt
    <3>2. QED
      BY <2>2, <3>1 DEF Uses
  <2>5. CASE c = full
    <3>1. nbitem[c] < 2 /\ nbitem'[c] = nbitem[c] + 1
      BY <2>5 DEF PushAt
    <3>2. nbitem[c] = 1 /\ i = 0
      BY <2>2, <2>3, <3>1
    <3>3. history'[c][0] = history[c][0]
      BY <2>5, <3>2 DEF PushAt
    <3>4. 0 \in Uses(c)'
      BY <3>1, <3>2 DEF Uses
    <3>5. QED
      BY <2>2, <3>2, <3>3, <3>4
  <2>6. CASE c < full
    <3>1. c \in 0..(full - 1)
      BY <2>3, <2>6
    <3>2. i = 0
      BY <1>2, <2>2, <2>3, <3>1 DEF Dropped
    <3>3. c + 1 \in Cell
      <4>1. c # NbCell - 1
        <5>1. ASSUME c = NbCell - 1 PROVE full = NbCell
          BY <5>1, <2>6
        <5>2. QED
          BY <1>2, <2>2, <3>2, <5>1 DEF Dropped
      <4>2. QED
        BY <4>1 DEF Cell
    <3>4. c + 1 <= full /\ Received(elem, c + 1) = x
      BY <2>2, <2>3, <2>6, <3>2 DEF Received
    <3>5. QED
      BY <1>3, <3>3, <3>4
  <2>7. QED
    BY <2>3, <2>4, <2>5, <2>6
<1>6. QED
  BY <1>2, <1>4, <1>5

(* A push deletes what leaves the cells and nothing else.                  *)
LEMMA PushKeepsHeap ==
  ASSUME Ages, heap = Held, ReadProcessData
  PROVE  heap' = Held'
<1> USE HistoryAssumption, CellFacts
<1>1. /\ TypeOK /\ procTree + 1 \in Sample /\ Push(procTree + 1)
  BY DEF Ages, TypeOK, ReadProcessData, Sample
<1>2. PICK full \in 0..NbCell : PushAt(procTree + 1, full)
  BY <1>1, PushCells
<1>3. nbitem' \in [Cell -> 0..2]
  BY <1>2 DEF PushAt
<1>4. ASSUME NEW x
      PROVE  x \in Held' <=> \E c \in Cell : \E i \in Uses(c)' : x = history'[c][i]
  BY <1>3, HeldNextIs DEF InCells
<1>5. Held' \subseteq heap'
  BY <1>1, <1>2, <1>4, KeptIsHeap
<1>6. heap' \subseteq Held'
  BY <1>2, <1>4, HeapIsKept
<1>7. QED
  BY <1>5, <1>6

(* The destructor meets all samples, because the cells in use come first.  *)
LEMMA DestroyEmpties ==
  ASSUME Ages, heap = Held, Destroy
  PROVE  heap' = {}
<1> USE HistoryAssumption, CellFacts
<1>1. \A v \in Cell \X (0..1) : v[2] < nbitem[v[1]] => \A c \in 0..v[1] : nbitem[c] > 0
  <2> SUFFICES ASSUME NEW d \in Cell, NEW i \in 0..1, i < nbitem[d], NEW c \in 0..d
               PROVE  nbitem[c] > 0
    OBVIOUS
  <2>1. c \in Cell
    BY DEF Cell
  <2>2. nbitem[c] \in 0..2 /\ nbitem[d] \in 0..2
    BY <2>1 DEF Ages, TypeOK
  <2>3. c < d /\ nbitem[c] = 0 => nbitem[d] = 0
    BY <2>1 DEF Ages, UsedFirst
  <2>4. QED
    BY <2>1, <2>2, <2>3
<1>2. {v \in Cell \X (0..1) : v[2] < nbitem[v[1]]}
        = {v \in Cell \X (0..1) :
             v[2] < nbitem[v[1]] /\ \A c \in 0..v[1] : nbitem[c] > 0}
  BY <1>1
<1>3. heap' = heap \ Held
  BY <1>2 DEF Destroy, Held
<1>4. QED
  BY <1>3

(* The heap holds the samples of the cells in every behaviour.             *)
LEMMA HeapInvariant == Spec => [](Ages /\ HeapIsHeld)
<1>1. Init => HeapIsHeld
  <2> SUFFICES ASSUME Init PROVE HeapIsHeld
    OBVIOUS
  <2> USE HistoryAssumption, CellFacts
  <2>1. Ages /\ nbitem \in [Cell -> 0..2]
    BY AgesInit DEF Ages, TypeOK
  <2>2. ASSUME NEW x
        PROVE  x \in Held <=> \E c \in Cell : \E i \in 0..(nbitem[c] - 1) : x = history[c][i]
    BY <2>1, HeldIs DEF HeldIsInCells, InCells, Uses
  <2>3. ASSUME NEW c \in Cell, NEW i \in 0..(nbitem[c] - 1) PROVE history[c][i] = 0
    <3>1. nbitem[c] = IF c = 0 THEN 1 ELSE 0
      BY DEF Init
    <3>2. c = 0 /\ i = 0
      BY <3>1
    <3>3. QED
      BY <3>2 DEF Init
  <2>4. 0 \in 0..(nbitem[0] - 1) /\ history[0][0] = 0
    BY DEF Init
  <2>5. Held = {0}
    BY <2>2, <2>3, <2>4
  <2>6. QED
    BY <2>5 DEF HeapIsHeld, Init
<1>2. Ages /\ HeapIsHeld /\ [Next]_vars => HeapIsHeld'
  <2> SUFFICES ASSUME Ages, HeapIsHeld, [Next]_vars PROVE HeapIsHeld'
    OBVIOUS
  <2>1. CASE ReadProcessData
    <3>1. stage = "watching" /\ stage' = stage
      BY <2>1 DEF ReadProcessData
    <3>2. heap = Held
      BY <3>1 DEF HeapIsHeld
    <3>3. heap' = Held'
      BY <2>1, <3>2, PushKeepsHeap
    <3>4. QED
      BY <3>1, <3>3 DEF HeapIsHeld
  <2>2. CASE SolverEnded \/ LoopEnds \/ DumpHistory
    <3>1. /\ UNCHANGED <<nbitem, history, heap>>
          /\ stage # "destroyed" /\ stage' # "destroyed"
      BY <2>2 DEF SolverEnded, LoopEnds, DumpHistory
    <3>2. QED
      BY <3>1 DEF HeapIsHeld, Held
  <2>3. CASE Destroy
    <3>1. stage = "dumped" /\ stage' = "destroyed"
      BY <2>3 DEF Destroy
    <3>2. heap = Held
      BY <3>1 DEF HeapIsHeld
    <3>3. heap' = {}
      BY <2>3, <3>2, DestroyEmpties
    <3>4. QED
      BY <3>1, <3>3 DEF HeapIsHeld
  <2>4. CASE Destroyed \/ UNCHANGED vars
    BY <2>4 DEF Destroyed, vars, HeapIsHeld, Held
  <2>5. QED
    BY <2>1, <2>2, <2>3, <2>4 DEF Next
<1>3. QED
  BY <1>1, <1>2, AgesInit, AgesInvariant, PTL DEF Spec

(* No sample is leaked, deleted twice or used after it was deleted, for    *)
(* any number of cells and of samples.                                     *)
THEOREM NothingLeaks == Spec => []HeapIsHeld
<1>1. Ages /\ HeapIsHeld => HeapIsHeld
  OBVIOUS
<1>2. QED
  BY <1>1, HeapInvariant, PTL

(* The sample the watcher thread uses is never a deleted one.              *)
THEOREM CurrentIsAlive == Spec => []CurrentAlive
<1>1. Ages /\ HeapIsHeld => CurrentAlive
  <2> SUFFICES ASSUME Ages, HeapIsHeld, stage # "destroyed" PROVE procTree \in heap
    BY DEF CurrentAlive
  <2> USE HistoryAssumption, CellFacts
  <2>1. nbitem \in [Cell -> 0..2] /\ nbitem[0] \in 0..2
    BY DEF Ages, TypeOK
  <2>2. nbitem[0] - 1 \in 0..(nbitem[0] - 1) /\ procTree = history[0][nbitem[0] - 1]
    BY <2>1 DEF Ages, CurrentIsNewest
  <2>3. procTree \in Held
    BY <2>1, <2>2, HeldIs DEF HeldIsInCells, InCells, Uses
  <2>4. QED
    BY <2>3 DEF HeapIsHeld
<1>2. QED
  BY <1>1, HeapInvariant, PTL

-----------------------------------------------------------------------------
(* The powers of two, which the library only knows as the number of        *)
(* subsets of a set.                                                       *)
LEMMA Subsets ==
  ASSUME NEW n \in Nat
  PROVE  /\ IsFiniteSet(SUBSET (1..n))
         /\ Cardinality(SUBSET (1..n)) = 2^n
         /\ 2^n \in Nat
<1>1. IsFiniteSet(1..n) /\ Cardinality(1..n) = n
  BY FS_Interval
<1>2. /\ IsFiniteSet(SUBSET (1..n))
      /\ Cardinality(SUBSET (1..n)) = 2^Cardinality(1..n)
  BY <1>1, FS_SUBSET, Zenon
<1>3. Cardinality(SUBSET (1..n)) \in Nat
  BY <1>2, FS_CardinalityType, Zenon
<1>4. Cardinality(SUBSET (1..n)) = 2^n
  BY <1>1, <1>2, Zenon
<1>5. QED
  BY <1>2, <1>3, <1>4, Zenon

(* A set of one more element has as many subsets with it as without it.    *)
LEMMA PowerDoubles ==
  ASSUME NEW n \in Nat
  PROVE  2^(n + 1) = 2^n + 2^n
<1> DEFINE S == SUBSET (1..n)
           T == {x \cup {n + 1} : x \in S}
           f == [x \in S |-> x \cup {n + 1}]
<1>1. IsFiniteSet(S) /\ Cardinality(S) = 2^n
  BY Subsets, Zenon
<1>2. n + 1 \in Nat /\ n + 1 \notin 1..n /\ 1..(n + 1) = (1..n) \cup {n + 1}
  OBVIOUS
<1>3. f \in Bijection(S, T)
  <2>1. f \in [S -> T] /\ \A t \in T : \E x \in S : f[x] = t
    OBVIOUS
  <2>2. \A x, y \in S : f[x] = f[y] => x = y
    BY <1>2
  <2>3. QED
    BY <2>1, <2>2 DEF Bijection, Injection, Surjection, IsInjective
<1>4. IsFiniteSet(T) /\ Cardinality(T) = 2^n
  BY <1>1, <1>3, FS_Bijection DEF ExistsBijection
<1>5. S \cap T = {}
  BY <1>2
<1>6. SUBSET (1..(n + 1)) = S \cup T
  <2>1. ASSUME NEW x \in SUBSET (1..(n + 1)), n + 1 \in x PROVE x \in T
    <3>1. x \ {n + 1} \in S /\ x = (x \ {n + 1}) \cup {n + 1}
      BY <1>2, <2>1
    <3>2. QED
      BY <3>1
  <2>2. QED
    BY <1>2, <2>1
<1>7. Cardinality(SUBSET (1..(n + 1))) = 2^(n + 1)
  BY <1>2, Subsets, Zenon
<1>8. Cardinality(S \cup T) = Cardinality(S) + Cardinality(T) - Cardinality(S \cap T)
  BY <1>1, <1>4, FS_Union, Zenon
<1>9. Cardinality(S \cap T) = 0
  BY <1>5, FS_EmptySet, Zenon
<1>10. 2^n \in Nat
  BY Subsets, Zenon
<1>11. 2^(n + 1) = 2^n + 2^n - 0
  BY <1>1, <1>4, <1>6, <1>7, <1>8, <1>9, Zenon
<1>12. QED
  BY <1>10, <1>11

(* 2^0 is the number of subsets of the empty set.                          *)
LEMMA PowerOfZero == 2^0 = 1
<1>1. 1..0 = {} /\ SUBSET {} = {{}}
  OBVIOUS
<1>2. Cardinality({{}}) = 1
  BY FS_Singleton, Zenon
<1>3. QED
  BY <1>1, <1>2, Subsets


(* A push keeps the distances: a sample that moves to the next cell leaves *)
(* behind it the sum of two equal distances, that to the newer sample of   *)
(* its cell, which is deleted, and that from this one to the cell before.  *)
LEMMA PushKeepsSpaced ==
  ASSUME Ages, Spaced, NEW full \in 0..NbCell, PushAt(procTree + 1, full),
         procTree + 1 \in Sample
  PROVE  Spaced'
<1> DEFINE elem == procTree + 1
<1> USE HistoryAssumption, CellFacts
<1>1. /\ TypeOK /\ nbitem \in [Cell -> 0..2] /\ nbitem' \in [Cell -> 0..2]
      /\ procTree \in Int
  BY DEF Ages, TypeOK, PushAt, Sample
<1>2. ASSUME NEW c \in Cell, NEW i \in 0..1, i < nbitem[c]
      PROVE  history[c][i] \in Int
  <2>1. i \in Uses(c)
    BY <1>1, <1>2 DEF Uses
  <2>2. QED
    BY <2>1, UsedIsOld
<1>3. \A c \in Cell : c \in Nat /\ 2^c \in Nat /\ 2^(c + 1) = 2^c + 2^c
  BY Subsets, PowerDoubles
<1>4. ASSUME NEW c \in Cell, c <= full
      PROVE  \/ c = 0 /\ Received(elem, c) = elem
             \/ /\ c > 0 /\ c - 1 \in Cell /\ nbitem[c - 1] = 2
                /\ Received(elem, c) = history[c - 1][0]
  <2>1. c > 0 => c - 1 \in Cell /\ c - 1 < full
    BY <1>4 DEF Cell
  <2>2. QED
    BY <1>3, <2>1 DEF Received, PushAt
<1>5. nbitem[0] = 2 => procTree = history[0][1]
  BY DEF Ages, CurrentIsNewest
<1>6. nbitem[0] = 1 => procTree = history[0][0]
  BY DEF Ages, CurrentIsNewest
<1>7. ASSUME NEW c \in Cell, nbitem[c] = 2 PROVE history[c][1] - history[c][0] = 2^c
  BY <1>7 DEF Spaced
<1>8. ASSUME NEW c \in Cell, c + 1 \in Cell, nbitem[c + 1] > 0
      PROVE  history[c][0] - history[c + 1][nbitem[c + 1] - 1] = 2^(c + 1)
  BY <1>8 DEF Spaced
<1>9. ASSUME NEW c \in Cell, nbitem[c] > 0, c <= full
      PROVE  Received(elem, c) - history[c][nbitem[c] - 1] = 2^c
  <2>1. CASE c = 0 /\ Received(elem, c) = elem
    <3>1. nbitem[0] \in {1, 2}
      BY <1>1, <1>9, <2>1
    <3>2. history[0][nbitem[0] - 1] = procTree
      BY <1>5, <1>6, <3>1
    <3>3. Received(elem, c) - history[c][nbitem[c] - 1] = 1
      BY <1>1, <2>1, <3>2
    <3>4. QED
      BY <2>1, <3>3, PowerOfZero, Zenon
  <2>2. CASE /\ c > 0 /\ c - 1 \in Cell /\ nbitem[c - 1] = 2
             /\ Received(elem, c) = history[c - 1][0]
    <3>1. (c - 1) + 1 = c
      BY <1>3
    <3>2. history[c - 1][0] - history[c][nbitem[c] - 1] = 2^c
      BY <1>8, <1>9, <2>2, <3>1
    <3>3. QED
      BY <2>2, <3>2
  <2>3. QED
    BY <1>4, <1>9, <2>1, <2>2
<1>10. ASSUME NEW c \in Cell, nbitem'[c] = 2
       PROVE  history'[c][1] - history'[c][0] = 2^c
  <2>1. nbitem[c] \in 0..2
    BY <1>1
  <2>2. c >= full
    BY <1>3, <1>10, <2>1 DEF PushAt
  <2>3. CASE c > full
    <3>1. nbitem[c] = 2 /\ history'[c] = history[c]
      BY <1>10, <2>3 DEF PushAt
    <3>2. QED
      BY <1>7, <3>1
  <2>4. CASE c = full
    <3>1. nbitem[c] = 1
      BY <1>10, <2>1, <2>4 DEF PushAt
    <3>2. history'[c][1] = Received(elem, c) /\ history'[c][0] = history[c][0]
      BY <2>4, <3>1 DEF PushAt, Received
    <3>3. Received(elem, c) - history[c][0] = 2^c
      BY <1>9, <2>4, <3>1
    <3>4. QED
      BY <3>2, <3>3
  <2>5. QED
    BY <1>3, <2>2, <2>3, <2>4
<1>11. ASSUME NEW c \in Cell, c + 1 \in Cell, nbitem'[c + 1] > 0
       PROVE  history'[c][0] - history'[c + 1][nbitem'[c + 1] - 1] = 2^(c + 1)
  <2>1. nbitem[c] \in 0..2 /\ nbitem[c + 1] \in 0..2
    BY <1>1, <1>11
  <2>2. CASE c < full
    <3>1. nbitem[c] = 2 /\ history'[c][0] = Received(elem, c) /\ c + 1 <= full
      BY <1>3, <2>2 DEF PushAt, Received
    <3>2. Received(elem, c + 1) = history[c][0]
      BY <1>3 DEF Received
    <3>3. history'[c + 1][nbitem'[c + 1] - 1] = Received(elem, c + 1)
      <4>1. CASE c + 1 < full
        BY <1>11, <4>1 DEF PushAt, Received
      <4>2. CASE c + 1 = full
        <5>1. nbitem'[c + 1] = nbitem[c + 1] + 1
          BY <1>11, <4>2 DEF PushAt
        <5>2. nbitem'[c + 1] - 1 = nbitem[c + 1]
          BY <2>1, <5>1
        <5>3. history'[c + 1][nbitem[c + 1]] = Received(elem, c + 1)
          BY <1>11, <4>2 DEF PushAt, Received
        <5>4. QED
          BY <5>2, <5>3
      <4>3. QED
        BY <1>3, <3>1, <4>1, <4>2
    <3>4. Received(elem, c) - history[c][1] = 2^c
      BY <1>9, <3>1
    <3>5. history[c][1] - history[c][0] = 2^c
      BY <1>7, <3>1
    <3>6. history[c][1] \in Int /\ history[c][0] \in Int /\ Received(elem, c) \in Int
      <4>1. Received(elem, c) = elem \/
            /\ c - 1 \in Cell /\ nbitem[c - 1] = 2 /\ Received(elem, c) = history[c - 1][0]
        BY <1>4, <2>2
      <4>2. QED
        BY <1>1, <1>2, <3>1, <4>1
    <3>7. Received(elem, c) - history[c][0] = 2^c + 2^c
      BY <1>3, <3>4, <3>5, <3>6
    <3>8. QED
      BY <1>3, <3>1, <3>2, <3>3, <3>7
  <2>3. CASE c >= full
    <3>1. nbitem'[c + 1] = nbitem[c + 1] /\ history'[c + 1] = history[c + 1]
      BY <1>3, <1>11, <2>3 DEF PushAt
    <3>2. nbitem[c] # 0
      BY <1>3, <1>11, <3>1 DEF Ages, UsedFirst
    <3>3. history'[c][0] = history[c][0]
      <4>1. CASE c > full
        BY <4>1 DEF PushAt
      <4>2. CASE c = full
        BY <2>1, <3>2, <4>2 DEF PushAt
      <4>3. QED
        BY <1>3, <2>3, <4>1, <4>2
    <3>4. history[c][0] - history[c + 1][nbitem[c + 1] - 1] = 2^(c + 1)
      BY <1>8, <1>11, <3>1
    <3>5. QED
      BY <3>1, <3>3, <3>4
  <2>4. QED
    BY <1>3, <2>2, <2>3
<1>12. QED
  BY <1>10, <1>11 DEF Spaced

(* The samples are spaced by powers of two in every behaviour: however     *)
(* long the run is, the history has no hole wider than its cells allow.    *)
THEOREM PrecisionHalves == Spec => []Spaced
<1>1. Init => Spaced
  <2> SUFFICES ASSUME Init PROVE Spaced
    OBVIOUS
  <2>1. \A c \in Cell : nbitem[c] = IF c = 0 THEN 1 ELSE 0
    BY DEF Init
  <2>2. \A c \in Cell : c + 1 # 0
    BY CellFacts
  <2>3. QED
    BY <2>1, <2>2 DEF Spaced
<1>2. Ages /\ Spaced /\ [Next]_vars => Spaced'
  <2> SUFFICES ASSUME Ages, Spaced, [Next]_vars PROVE Spaced'
    OBVIOUS
  <2>1. CASE ReadProcessData
    <3>1. TypeOK /\ procTree + 1 \in Sample /\ Push(procTree + 1)
      BY <2>1, HistoryAssumption DEF Ages, TypeOK, ReadProcessData, Sample
    <3>2. PICK full \in 0..NbCell : PushAt(procTree + 1, full)
      BY <3>1, PushCells
    <3>3. QED
      BY <3>1, <3>2, PushKeepsSpaced
  <2>2. CASE SolverEnded \/ LoopEnds \/ DumpHistory \/ Destroy \/ UNCHANGED vars
    <3>1. UNCHANGED <<nbitem, history>>
      BY <2>2 DEF SolverEnded, LoopEnds, DumpHistory, Destroy, vars
    <3>2. QED
      BY <3>1 DEF Spaced
  <2>3. QED
    BY <2>1, <2>2 DEF Next, Destroyed
<1>3. QED
  BY <1>1, <1>2, AgesInvariant, PTL DEF Spec


-----------------------------------------------------------------------------
(* What dumpHistory prints is built cell by cell.                          *)
ShownNext(shown, n) ==
  IF OlderSamples[n] > lastDisplayed THEN Append(shown, OlderSamples[n]) ELSE shown

(* The partial results of the loop that prints: f is what is shown after   *)
(* each of the first m cells.                                              *)
ShownUpTo(f, m) ==
  f = [n \in 0..m |-> IF n = 0 THEN <<>> ELSE ShownNext(f[n - 1], n)]

(* The loop can be run to its end.                                         *)
LEMMA LoopRuns == \E f : ShownUpTo(f, NbCell)
<1> USE HistoryAssumption
<1> DEFINE Missing == {m \in 0..NbCell : ~ \E f : ShownUpTo(f, m)}
<1> SUFFICES ASSUME NbCell \in Missing PROVE FALSE
  OBVIOUS
<1>1. PICK m \in Missing : \A n \in Missing : m <= n
  <2>1. Missing \in SUBSET Nat /\ Missing # {}
    OBVIOUS
  <2>2. QED
    BY <2>1, LeastNatural, Zenon
<1>2. m \in 0..NbCell /\ ~ \E f : ShownUpTo(f, m)
  OBVIOUS
<1>3. CASE m = 0
  <2>1. ShownUpTo([n \in 0..0 |-> <<>>], 0)
    BY DEF ShownUpTo
  <2>2. QED
    BY <1>2, <1>3, <2>1
<1>4. CASE m > 0
  <2>1. m - 1 \in 0..NbCell /\ m - 1 \notin Missing
    BY <1>1, <1>2, <1>4
  <2>2. PICK f : ShownUpTo(f, m - 1)
    BY <2>1
  <2> DEFINE g == [n \in 0..m |-> IF n = m THEN ShownNext(f[m - 1], m) ELSE f[n]]
  <2>3. ASSUME NEW n \in 0..m
        PROVE  g[n] = IF n = 0 THEN <<>> ELSE ShownNext(g[n - 1], n)
    <3>1. CASE n = 0
      BY <1>4, <2>2, <3>1 DEF ShownUpTo
    <3>2. CASE n > 0 /\ n < m
      <4>1. n \in 0..(m - 1) /\ n - 1 \in 0..m /\ n - 1 # m /\ n # m /\ n # 0
        BY <1>2, <3>2
      <4>2. g[n] = f[n] /\ g[n - 1] = f[n - 1]
        BY <4>1
      <4>3. f[n] = ShownNext(f[n - 1], n)
        BY <2>2, <4>1 DEF ShownUpTo
      <4> HIDE DEF g
      <4>4. QED
        BY <4>1, <4>2, <4>3
    <3>3. CASE n = m
      <4>1. m - 1 \in 0..m /\ m - 1 # m /\ m # 0
        BY <1>2, <1>4
      <4>2. g[m] = ShownNext(f[m - 1], m) /\ g[m - 1] = f[m - 1]
        BY <4>1
      <4> HIDE DEF g
      <4>3. QED
        BY <3>3, <4>1, <4>2
    <3>4. QED
      BY <1>2, <3>1, <3>2, <3>3
  <2>4. ShownUpTo(g, m)
    <3>1. g = [n \in 0..m |-> g[n]]
      OBVIOUS
    <3> HIDE DEF g
    <3>2. QED
      BY <2>3, <3>1 DEF ShownUpTo
  <2>5. QED
    BY <1>2, <2>4
<1>5. QED
  BY <1>2, <1>3, <1>4

(* What is shown after each cell.                                          *)
LEMMA ShownIs ==
  /\ OlderShown[0] = <<>>
  /\ \A n \in 1..NbCell : OlderShown[n] = ShownNext(OlderShown[n - 1], n)
<1> USE HistoryAssumption
<1>1. ShownUpTo(OlderShown, NbCell)
  <2> DEFINE step(f) ==
        [n \in 0..NbCell |->
           IF n = 0 THEN <<>>
           ELSE IF OlderSamples[n] > lastDisplayed THEN Append(f[n - 1], OlderSamples[n])
           ELSE f[n - 1]]
  <2>1. \A f : ShownUpTo(f, NbCell) <=> f = step(f)
    BY DEF ShownUpTo, ShownNext
  <2>2. OlderShown = CHOOSE f : f = step(f)
    BY DEF OlderShown
  <2> HIDE DEF step
  <2>3. QED
    BY <2>1, <2>2, LoopRuns, Zenon
<1>2. \A n \in 0..NbCell :
        OlderShown[n] = IF n = 0 THEN <<>> ELSE ShownNext(OlderShown[n - 1], n)
  BY <1>1 DEF ShownUpTo
<1>3. QED
  BY <1>2


(* The samples that are looked at, one per cell.                           *)
LEMMA OlderSamplesAre ==
  ASSUME TypeOK, NEW n \in 1..NbCell
  PROVE  /\ OlderSamples[n] \in Int
         /\ OlderSamples[n] = IF nbitem[NbCell - n] = 0 THEN NoTree ELSE history[NbCell - n][0]
<1> USE HistoryAssumption
<1>1. NbCell - n \in Cell
  BY DEF Cell
<1>2. history[NbCell - n][0] \in Sample \cup {NoTree}
  BY <1>1 DEF TypeOK
<1>3. QED
  BY <1>2 DEF OlderSamples, Sample, NoTree

(* What is shown is a sequence of samples.                                 *)
LEMMA ShownIsSequence ==
  ASSUME TypeOK
  PROVE  \A n \in 0..NbCell : OlderShown[n] \in Seq(Int)
<1> USE HistoryAssumption
<1> DEFINE Bad == {n \in 0..NbCell : OlderShown[n] \notin Seq(Int)}
<1> SUFFICES ASSUME Bad # {} PROVE FALSE
  OBVIOUS
<1>1. PICK m \in Bad : \A n \in Bad : m <= n
  <2>1. Bad \in SUBSET Nat /\ Bad # {}
    OBVIOUS
  <2>2. QED
    BY <2>1, LeastNatural, Zenon
<1>2. m # 0
  <2>1. <<>> \in Seq(Int)
    OBVIOUS
  <2>2. OlderShown[0] \in Seq(Int)
    BY <2>1, ShownIs, Zenon
  <2>3. QED
    BY <2>2
<1>3. m \in 1..NbCell /\ m - 1 \in 0..NbCell /\ m - 1 \notin Bad
  BY <1>1, <1>2
<1>4. OlderShown[m - 1] \in Seq(Int) /\ OlderSamples[m] \in Int
  BY <1>3, OlderSamplesAre
<1>5. OlderShown[m] = ShownNext(OlderShown[m - 1], m)
  BY <1>3, ShownIs
<1>6. OlderShown[m] \in Seq(Int)
  BY <1>4, <1>5 DEF ShownNext
<1>7. QED
  BY <1>6

(* Until something is taken, lastDisplayed is anything; then it is one of  *)
(* the samples that were taken.                                            *)
DisplayedIsOld == procTree # 0 => lastDisplayed <= procTree

(* What was printed ends with procTree, if that was not displayed.         *)
LEMMA DumpShowsLast ==
  ASSUME Ages, DisplayedIsOld, DumpHistory, procTree # 0, lastDisplayed # procTree
  PROVE  dump' # <<>> /\ dump'[Len(dump')] = procTree
<1> USE HistoryAssumption, CellFacts
<1>1. /\ TypeOK /\ nbitem[0] \in {1, 2} /\ procTree \in Int /\ lastDisplayed \in Int
      /\ lastDisplayed < procTree
  BY DEF Ages, TypeOK, CurrentIsNewest, Sample, DisplayedIsOld
<1>2. dump' = OlderShown[NbCell] \o Newest
  BY DEF DumpHistory
<1>3. OlderShown[NbCell] \in Seq(Int) /\ OlderShown[NbCell - 1] \in Seq(Int)
  BY <1>1, ShownIsSequence
<1>4. CASE nbitem[0] = 2
  <2>1. Newest = <<procTree>>
    BY <1>4 DEF Newest, Ages, CurrentIsNewest
  <2>2. QED
    BY <1>1, <1>2, <1>3, <2>1
<1>5. CASE nbitem[0] = 1
  <2>1. Newest = <<>>
    BY <1>5 DEF Newest
  <2>2. NbCell \in 1..NbCell /\ NbCell - NbCell = 0
    OBVIOUS
  <2>3. OlderSamples[NbCell] = procTree
    BY <1>1, <1>5, <2>2, OlderSamplesAre DEF Ages, CurrentIsNewest
  <2>4. OlderShown[NbCell] = Append(OlderShown[NbCell - 1], procTree)
    BY <1>1, <2>2, <2>3, ShownIs DEF ShownNext
  <2>5. QED
    BY <1>1, <1>2, <1>3, <2>1, <2>4
<1>6. QED
  BY <1>1, <1>4, <1>5

(* The last sample before the solver ended is shown to the user, during    *)
(* the run or at the end of the history, for any number of cells.          *)
THEOREM LastIsShown == Spec => []LastShown
<1>1. Init => DisplayedIsOld /\ LastShown
  BY DEF Init, DisplayedIsOld, LastShown
<1>2. Ages /\ DisplayedIsOld /\ LastShown /\ [Next]_vars => DisplayedIsOld' /\ LastShown'
  <2> SUFFICES ASSUME Ages, DisplayedIsOld, LastShown, [Next]_vars
               PROVE  DisplayedIsOld' /\ LastShown'
    OBVIOUS
  <2>1. procTree \in Nat /\ lastDisplayed \in Int
    BY HistoryAssumption DEF Ages, TypeOK, Sample
  <2>2. CASE ReadProcessData
    <3>1. stage' # "dumped"
      BY <2>2 DEF ReadProcessData
    <3>2. DisplayedIsOld'
      BY <2>1, <2>2 DEF ReadProcessData, DisplayedIsOld
    <3>3. QED
      BY <3>1, <3>2 DEF LastShown
  <2>3. CASE SolverEnded \/ LoopEnds \/ Destroy
    BY <2>3 DEF SolverEnded, LoopEnds, Destroy, DisplayedIsOld, LastShown
  <2>4. CASE DumpHistory
    <3>1. UNCHANGED <<procTree, lastDisplayed>>
      BY <2>4 DEF DumpHistory
    <3>2. LastShown'
      BY <2>4, <3>1, DumpShowsLast DEF LastShown
    <3>3. QED
      BY <3>1, <3>2 DEF DisplayedIsOld
  <2>5. CASE Destroyed \/ UNCHANGED vars
    BY <2>5 DEF Destroyed, vars, DisplayedIsOld, LastShown
  <2>6. QED
    BY <2>2, <2>3, <2>4, <2>5 DEF Next
<1>3. QED
  BY <1>1, <1>2, AgesInvariant, PTL DEF Spec
=============================================================================

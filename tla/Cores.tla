-------------------------------- MODULE Cores --------------------------------
(***************************************************************************)
(* The cores of the machine as runsolver numbers, selects and prints them  *)
(* (Cores.hh, RunSolver::selectCores).  Everything here is a pure          *)
(* function; Options and RunSolver hold the affinity masks.                *)
(*                                                                         *)
(* The kernel gives, for each cpu, the mask of the cpus of its processor   *)
(* as text: hexadecimal digits, with a comma after each group of GroupSize *)
(* cpus (32).  The loop that reads the text counts DigitSize (4) cpus for  *)
(* each character, the commas included.                                    *)
(***************************************************************************)
EXTENDS Integers, FiniteSets, SequencesExt

CONSTANTS NbCpus,     \* number of cpus
          Processor,  \* the processor of each cpu
          GroupSize,  \* cpus between two commas of a mask (32)
          DigitSize   \* cpus of a digit of a mask (4)

Cpu == 0..(NbCpus - 1)

ASSUME CoresAssumption ==
  /\ {NbCpus, GroupSize, DigitSize} \subseteq Nat \ {0}
  /\ Processor \in [Cpu -> Nat]

(* The number under which cpu c is read in the text of a mask.             *)
ReadAs(c) == c + DigitSize * (c \div GroupSize)

(* What is read of the mask of the processor of c.                         *)
Siblings(c) == {ReadAs(d) : d \in {e \in Cpu : Processor[e] = Processor[c]}}
CoreId == Cpu \cup {ReadAs(c) : c \in Cpu}

Ascending(S) ==
  [i \in 1..Cardinality(S) |-> CHOOSE c \in S : Cardinality({d \in S : d < c}) = i - 1]

(* Visit the cpus of a mask in order; one that is not yet in the list adds *)
(* those of its processor that are allowed and not yet in the list.        *)
ByProcessor(mask, allowed) ==
  LET list[n \in 0..NbCpus] ==   \* after the cpus below n
        IF n = 0 THEN <<>>
        ELSE LET old == list[n - 1]
                 new == (Siblings(n - 1) \cap allowed) \ ToSet(old)
             IN IF n - 1 \in mask \ ToSet(old) THEN old \o Ascending(new) ELSE old
  IN list[NbCpus]

(* getExistingCores                                                        *)
LogicalView == ByProcessor(Cpu, CoreId)
ExistingCores(physicalView) == IF physicalView THEN Ascending(Cpu) ELSE LogicalView

(* getAllocatedCoresByProcessorOrder: a core is listed if it is allocated. *)
AllocatedLists == {<<mask, ByProcessor(mask, mask)>> : mask \in SUBSET Cpu}
AllocatedCores(mask) == (CHOOSE entry \in AllocatedLists : entry[1] = mask)[2]

(* Mutant: a run goes on as long as the numbers grow.                      *)
Grows(list, i) == i > 1 /\ list[i] > list[i - 1]

(* printAllocatedCores: the runs of successive numbers, first-last.        *)
Follows(list, i) == i > 1 /\ list[i] = list[i - 1] + 1

Printed(list) ==
  LET begins == Ascending({i \in DOMAIN list : ~ Follows(list, i)})
      end(k) == IF k = Len(begins) THEN Len(list) ELSE begins[k + 1] - 1
  IN [k \in DOMAIN begins |-> <<list[begins[k]], list[end(k)]>>]

-----------------------------------------------------------------------------
(* selectCores.  An element of a list is a number <<a>>, a range <<a, b>>, *)
(* or <<>> for what is neither.                                            *)
Numbers == [1..1 -> Nat] \cup [1..2 -> Nat]
WellFormed(desc) == desc # <<>> /\ \A i \in DOMAIN desc : desc[i] # <<>>

(* Mutant: the end of a range is left out.                                 *)
HalfOpen(x) == x[1]..(x[2] - 1)

(* The bounds of a range may come in either order.                         *)
Span(x) == IF x[1] <= x[2] THEN x[1]..x[2] ELSE x[2]..x[1]

(* Positions of available cores; a range is clipped.                       *)
Positions(x, available) ==
  (IF Len(x) = 2 THEN Span(x) ELSE {x[1]}) \cap 0..(Len(available) - 1)

(* A number that is not part of a range is not compared with the number of *)
(* cores: what is read behind the vector may be anything.                  *)
ReadsBehind(x, available) == Len(x) = 1 /\ x[1] >= Len(available)

(* The masks that may be asked of the kernel.                              *)
Selections(desc, available) ==
  LET chosen == UNION {{available[p + 1] : p \in Positions(desc[i], available)} :
                         i \in DOMAIN desc}
      wild   == {i \in DOMAIN desc : ReadsBehind(desc[i], available)}
  IN {chosen \cup garbage :
        garbage \in {G \in SUBSET CoreId : Cardinality(G) <= Cardinality(wild)}}

(* sched_setaffinity: the kernel keeps the cpus that exist, and refuses a  *)
(* mask without one; the refusal is only reported.                         *)
SetAffinity(old, mask) == IF mask \cap Cpu = {} THEN old ELSE mask \cap Cpu
=============================================================================

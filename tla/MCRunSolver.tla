----------------------------- MODULE MCRunSolver -----------------------------
(* Instances of RunSolver for TLC: four cpus of two processors, numbered   *)
(* alternately, and command lines that combine the options that interact.  *)
EXTENDS RunSolver

MCProcessor == [c \in 0..3 |-> c % 2]
MCStartMasks == {{0, 1, 2, 3}, {1, 2}}

(* Hard limits that refuse some of the limits below.                       *)
MCHardLimits == {[CPU |-> 5, STACK |-> 100, AS |-> 5]}

O(name) == [o |-> name]
N(name, n) == [o |-> name, n |-> n]
Limit(a, m) == [o |-> "output-limit", a |-> a, m |-> m]
List(name, list) == [o |-> name, list |-> list]

(* Where the output goes.                                                  *)
OutputLines ==
  {<<>>, <<O("output")>>, <<O("timestamp"), O("output")>>,
   <<O("use-pty"), O("timestamp"), O("input")>>, <<O("use-pty"), O("output")>>,
   <<Limit(1, 3), O("use-pty")>>, <<O("timestamp"), Limit(2, 7)>>,
   <<O("input"), O("output")>>}

(* Limits on the output that fit, do not fit, and are refused.             *)
FilterLines ==
  {<<Limit(-1, 1)>>, <<Limit(1, 9)>>, <<Limit(8, 16)>>, <<Limit(3, 3)>>,
   <<Limit(1, 2), Limit(2, 5)>>}

(* Limits of the watcher and of the kernel.                                *)
LimitLines ==
  {<<N("cpu-limit", 2), N("vsize-limit", 3)>>, <<N("cpu-limit", 1), N("cpu-limit", 3)>>,
   <<N("cpu-limit", 1), N("stack-limit", 1), N("cpu-limit", 9)>>,
   <<N("cpu-limit", 0), N("wall-clock-limit", 2)>>,
   <<N("wall-clock-limit", 1), N("cpu-limit", 3)>>,
   <<N("rss-swap-limit", 2), N("vsize-limit", 5), N("vsize-limit", 4)>>}

CoreLines ==
  {<<List("cores", list)>> : list \in {<<<<0, 1>>>>, <<<<3, 2>>, <<0>>>>, <<<<5>>>>}}
    \cup {<<List("phys-cores", list)>> : list \in {<<<<2, 9>>>>, <<<<6, 7>>>>, <<<<1>>, <<>>>>}}
    \cup {<<List("cores", <<<<0, 2>>>>), List("phys-cores", <<<<1>>, <<3>>>>)>>,
          <<List("phys-cores", <<<<1>>>>), List("cores", <<<<0, 2>>>>), O("timestamp")>>}

OtherLines ==
  {<<N("watchdog", 1), O("timestamp")>>,
   <<N("watchdog", 0)>>, <<O("timestamp"), O("add-eof")>>, <<O("sig")>>, <<O("unknown")>>}

MCCommandLines ==
  OutputLines \cup FilterLines \cup LimitLines \cup CoreLines \cup OtherLines

(* Two descendants without options, with a pseudo-terminal and with a      *)
(* limit on CPU time; one for the other outputs and limits; none where the *)
(* set-up is the question.                                                 *)
MCForks ==
  [l \in MCCommandLines |->
    IF l \in {<<>>, <<O("use-pty"), O("timestamp"), O("input")>>,
              <<N("cpu-limit", 1), N("cpu-limit", 3)>>}
    THEN {"descendant", "grandchild"}
    ELSE IF l \in OutputLines \cup LimitLines THEN {"descendant"} ELSE {}]
=============================================================================

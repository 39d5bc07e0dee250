--------------------------- MODULE MCLinearDrivers ---------------------------
(***************************************************************************)
(* Files of two statements over two variables: the smallest ones in which  *)
(* a goal and a constraint, or two constraints, interact.  The large       *)
(* coefficient is no double, and gives its row a slack of 1.               *)
(***************************************************************************)
EXTENDS LinearDrivers, TLC

MCCoef == {-1, 2, 9}
MCSmallCoef == {-1, 2}

VarSymmetry == Permutations(Var)
=============================================================================

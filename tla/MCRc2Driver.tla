----------------------------- MODULE MCRc2Driver -----------------------------
(***************************************************************************)
(* Files of two statements over three names: a name may be new in the      *)
(* second constraint, when the first one has used an auxiliary.            *)
(***************************************************************************)
EXTENDS Rc2Driver, TLC

MCCoef == {-1, 2}

VarSymmetry == Permutations(Var)
=============================================================================

SPECIFICATION Spec
CONSTANTS
  Var = {x1, x2}
  Coef <- MCCoef
  Rhs = {1}
  Wrappers = {"scip", "gurobi"}
  MaxStatements = 2
  MaxTerms = 2
  MaxReports = 3
  LastExact = 8
  Tolerance = 6
INVARIANTS
  AnswerTrueUnlessTwiceOrLarge
  ObjectiveShown
SYMMETRY VarSymmetry

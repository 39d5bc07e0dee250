SPECIFICATION Spec
CONSTANTS
  Var = {x1, x2}
  Coef <- MCSmallCoef
  Rhs = {0, 1}
  Wrappers = {"gurobi"}
  MaxStatements = 2
  MaxTerms = 2
  MaxReports = 3
  LastExact = 8
  Tolerance = 6
INVARIANT AnswerTrue
SYMMETRY VarSymmetry

SPECIFICATION Spec
CONSTANTS
  Var = {x1, x2, x3}
  Coef = {1}
  Rhs = {0}
  MaxStatements = 2
  MaxTerms = 2
  LastExact = 4
  AfterLiterals = {TRUE}
INVARIANT AnswerTrue
SYMMETRY VarSymmetry

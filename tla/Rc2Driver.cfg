SPECIFICATION Spec
CONSTANTS
  Var = {x1, x2, x3}
  Coef <- MCCoef
  Rhs = {1}
  MaxStatements = 2
  MaxTerms = 2
  LastExact = 4
  AfterLiterals = {TRUE, FALSE}
INVARIANTS
  AuxiliariesAscend
  AnswerTrueUnlessReusedOrRounded
  OneAnswer
SYMMETRY VarSymmetry

CONSTANTS
  VAR_STORE_SIZE = 2
  MAX_ARGS_SIZE = 4
  x = x
  y = y
  odd = odd
  NULL = NULL
  UNFIT = UNFIT
  Word <- MCWord
  PathWord <- MCPathWord
  Token <- MCToken
  Value <- MCValue
  Arguments <- MCArguments
SPECIFICATION Spec
INVARIANTS TypeOK TableSound
PROPERTY ImplementsVarMap

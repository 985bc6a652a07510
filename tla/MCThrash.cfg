SPECIFICATION FairSpec
CONSTANTS
  FRAME_SIZE = 2
  FRAME_STORE_SIZE = 3
  MAX_FILE_SIZE = 3
  RR_TIMESLICE = 2
  RR30_TIMESLICE = 30
  MaxInputs = 1
  A = A
  B = B
  C = C
  E = E
  N = N
  X = X
  a1 = a1
  a2 = a2
  a3 = a3
  a4 = a4
  NULL = NULL
  WILD = WILD
  Names <- MCNames
  Files <- MCFiles
  Source <- MCSource
  Addr <- MCAddr
  Inputs <- ThrashInputs
PROPERTY LinesFinish

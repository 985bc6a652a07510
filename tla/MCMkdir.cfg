SPECIFICATION Spec
CONSTANTS
  NUM_INODES = 5
  NUM_DATA_BLOCKS = 9
  NDIRECT = 4
  DIRENTS_PER_BLOCK = 2
  DOT = DOT
  DOTDOT = DOTDOT
  NONAME = NONAME
  WILD = WILD
  JUNK = JUNK
  a = a
  b = b
  Name <- MCName
  MkdirPaths <- Made
  RmdirPaths <- Removed
  CdPaths <- Entered
PROPERTY MkdirTells

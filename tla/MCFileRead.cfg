CONSTANTS
  BLOCK_SIZE = 2
  NUM_DATA_BLOCKS = 3
  NUM_INODES = 2
  INODES_PER_BLOCK = 2
  DATA_REGION_START = 4
  NUM_BLOCKS = 7
  NDIRECT = 3
  m1 = m1
  m2 = m2
  ZERO = ZERO
  NONE = NONE
  Mark <- MCMark
  Marks <- MCMarks
SPECIFICATION Spec
INVARIANT StopsAtSize
CHECK_DEADLOCK FALSE

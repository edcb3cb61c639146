SPECIFICATION Spec
CONSTANTS
  BLOCK_SIZE = 2
  BLOCK_NUM = 13
  INODE_NUM = 3
  IPB = 2
  BPB = 32
  NDIRECT = 1
  NINDIRECT = 2
  Sizes = {1, 2, 4, 5}
  Types = {"file"}
INVARIANTS ReadBack BitmapExact

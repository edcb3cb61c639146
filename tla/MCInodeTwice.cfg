SPECIFICATION Spec
CONSTANTS
  Thread = {t1, t2}
  INODE_NUM = 5
  IPB = 3
  MaxCreates = 2
INVARIANTS OneFileEach

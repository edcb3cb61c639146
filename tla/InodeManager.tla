---------------------------- MODULE InodeManager -----------------------------
(***************************************************************************)
(* The extent server's storage: a disk of blocks, a block bitmap, a table  *)
(* of inodes with NDIRECT direct blocks and one indirect block, and the    *)
(* files in them.  Every request runs to its end before the next begins;   *)
(* InodeTable has the interleavings.  A block holds either a piece of a    *)
(* buffer written or a table of block numbers.  The buffer of a given size *)
(* written to a file is always the same; buffers of different sizes or for *)
(* different files have no piece in common.                                *)
(***************************************************************************)
EXTENDS Integers, FiniteSets

CONSTANTS BLOCK_SIZE, BLOCK_NUM, INODE_NUM, IPB, BPB, NDIRECT, NINDIRECT,
          Sizes,        \* sizes of the files written
          Types         \* what create is asked for: T_DIR, T_FILE

ASSUME SizesAssumption ==
  /\ {BLOCK_SIZE, BLOCK_NUM, INODE_NUM, IPB, BPB, NDIRECT, NINDIRECT} \subseteq Nat \ {0}
  /\ Sizes \subseteq 0 .. (NDIRECT + NINDIRECT) * BLOCK_SIZE

CEIL(a, b) == (a \div b) + (IF a % b # 0 THEN 1 ELSE 0)

(* The layout: bitmap blocks from 2, then inode blocks, then data. *)
BBLOCK(b) == (b \div BPB) + 2
IBLOCK(i) == (BLOCK_NUM \div BPB) + (i \div IPB) + 3
FirstData == IBLOCK(INODE_NUM - 1) + 1

Block == 0 .. BLOCK_NUM - 1
Inum == 1 .. INODE_NUM - 1          \* inode 0 is never used
Zero == [k \in 0 .. NINDIRECT - 1 |-> 0]
Nothing == <<>>
Empty == [data |-> Nothing, table |-> Zero]
Kind == {"none", "dir", "file"}

(* The bit of block b: the bitmap block it is looked for in, and where. *)
Bit(b) == <<BBLOCK(b), b - BBLOCK(b)>>

VARIABLES bits,     \* the bits set in the bitmap
          inode,    \* the inode table
          disk,     \* data and indirect blocks
          written   \* the size of what was last written to each inode

vars == <<bits, inode, disk, written>>

TypeOK ==
  /\ bits \subseteq {Bit(b) : b \in Block}
  /\ inode \in [Inum -> [type : Kind, size : Sizes \cup {0},
                         blocks : [0 .. NDIRECT -> Block]]]
  /\ \A b \in Block : disk[b].table \in [0 .. NINDIRECT - 1 -> Block]
  /\ written \in [Inum -> Sizes \cup {0}]

Unused == [type |-> "none", size |-> 0, blocks |-> [k \in 0 .. NDIRECT |-> 0]]

(* A formatted disk, and the root directory in inode 1. *)
Init ==
  /\ bits = {}
  /\ inode = [i \in Inum |-> IF i = 1 THEN [Unused EXCEPT !.type = "dir"] ELSE Unused]
  /\ disk = [b \in Block |-> Empty]
  /\ written = [i \in Inum |-> 0]
-----------------------------------------------------------------------------
(* What the next n calls of alloc_block return: the blocks of the data     *)
(* area with a clear bit, in order, and then 0.                            *)
NthFreeMutant(free, k) ==
  IF free = {} THEN 0 ELSE CHOOSE b \in free : \A x \in free : b <= x

NthFree(free, k) ==
  LET nth == {b \in free : Cardinality({x \in free : x < b}) = k - 1}
  IN  IF nth = {} THEN 0 ELSE CHOOSE b \in nth : TRUE

alloc_blocks(n) ==
  [k \in 1 .. n |->
     NthFree({b \in FirstData .. BLOCK_NUM - 1 : Bit(b) \notin bits}, k)]

(* BLK(ino, ind, i), where ind is the table in the indirect block. *)
BLK(ino, i) ==
  IF i < NDIRECT THEN ino.blocks[i]
  ELSE disk[ino.blocks[NDIRECT]].table[i - NDIRECT]

BlockCount(ino) == CEIL(ino.size, BLOCK_SIZE)
DataBlocks(ino) == {BLK(ino, i) : i \in 0 .. BlockCount(ino) - 1}
IndirectBlocks(ino) ==
  IF BlockCount(ino) > NDIRECT THEN {ino.blocks[NDIRECT]} ELSE {}

(* Clearing the bits of some blocks.  Their contents, which stay on the    *)
(* disk, are forgotten: a read of them returns Nothing.                    *)
free_blockMutant(freed) == UNCHANGED bits

free_block(freed) == bits' = bits \ {Bit(b) : b \in freed}
Forget(freed, contents) == [b \in Block |-> IF b \in freed THEN Empty ELSE contents[b]]

(* The pieces of the buffer of this size for file i. *)
Piece(i, size, k) == <<i, size, k>>

(* The disk after those pieces went, in order, to the blocks blk[0], ...   *)
Filled(i, size, blk) ==
  [b \in Block |->
     LET here == {k \in DOMAIN blk : blk[k] = b}
     IN  IF here = {} THEN disk[b]
         ELSE [Empty EXCEPT !.data = Piece(i, size, CHOOSE k \in here : \A j \in here : j <= k)]]
-----------------------------------------------------------------------------
alloc_inode(type) ==
  /\ \E i \in Inum :
       /\ inode[i].type = "none" /\ \A j \in 1 .. i - 1 : inode[j].type # "none"
       /\ inode' = [inode EXCEPT ![i] = [Unused EXCEPT !.type = type]]
       /\ written' = [written EXCEPT ![i] = 0]
  /\ UNCHANGED <<bits, disk>>

(* write_file of a file that keeps its number of blocks, or loses some. *)
WriteShorter(i, size) ==
  LET ino == inode[i]
      bc == BlockCount(ino)
      bc_new == CEIL(size, BLOCK_SIZE)
      dropIndirect == bc > NDIRECT /\ bc_new <= NDIRECT
      freed == {BLK(ino, k) : k \in bc_new .. bc - 1}
                 \cup (IF dropIndirect THEN {ino.blocks[NDIRECT]} ELSE {})
  IN  /\ ino.type # "none" /\ bc_new <= bc
      /\ free_block(freed)
      /\ disk' = Forget(freed, Filled(i, size, [k \in 0 .. bc_new - 1 |-> BLK(ino, k)]))
      /\ inode' = [inode EXCEPT ![i].size = size,
           ![i].blocks = [k \in 0 .. NDIRECT |->
              IF (k \in bc_new .. bc - 1 /\ k < NDIRECT) \/ (k = NDIRECT /\ dropIndirect)
              THEN 0 ELSE @[k]]]
      /\ written' = [written EXCEPT ![i] = size]

(* write_file of a file that needs more blocks: the indirect block first,  *)
(* if the file had none, then one by one; the table is written last.       *)
WriteLonger(i, size) ==
  LET ino == inode[i]
      bc == BlockCount(ino)
      bc_new == CEIL(size, BLOCK_SIZE)
      needIndirect == bc <= NDIRECT /\ bc_new > NDIRECT
      extra == IF needIndirect THEN 1 ELSE 0
      new == alloc_blocks(bc_new - bc + extra)
      indirect == IF needIndirect THEN new[1] ELSE ino.blocks[NDIRECT]
      blk == [k \in 0 .. bc_new - 1 |->
                IF k < bc THEN BLK(ino, k) ELSE new[k - bc + 1 + extra]]
      table == [k \in DOMAIN Zero |-> IF k + NDIRECT \in DOMAIN blk THEN blk[k + NDIRECT] ELSE 0]
  IN  /\ ino.type # "none" /\ bc_new > bc
      /\ bits' = bits \cup {Bit(b) : b \in {new[k] : k \in DOMAIN new} \ {0}}
      /\ disk' = IF indirect = 0 THEN Filled(i, size, blk)
                 ELSE [Filled(i, size, blk) EXCEPT ![indirect] = [Empty EXCEPT !.table = table]]
      /\ inode' = [inode EXCEPT ![i].size = size,
           ![i].blocks = [k \in 0 .. NDIRECT |->
              IF k = NDIRECT THEN indirect ELSE IF k < bc_new THEN blk[k] ELSE @[k]]]
      /\ written' = [written EXCEPT ![i] = size]

write_file(i, size) == WriteShorter(i, size) \/ WriteLonger(i, size)

(* remove_file, and free_inode: the size and the block numbers stay. *)
remove_file(i) ==
  /\ inode[i].type # "none"
  /\ LET freed == DataBlocks(inode[i]) \cup IndirectBlocks(inode[i])
     IN  free_block(freed) /\ disk' = Forget(freed, disk)
  /\ inode' = [inode EXCEPT ![i].type = "none"]
  /\ UNCHANGED written

(* What read_file copies out: the pieces, in order. *)
read_file(i) == [k \in 0 .. BlockCount(inode[i]) - 1 |-> disk[BLK(inode[i], k)].data]

Next ==
  \/ \E type \in Types : alloc_inode(type)
  \/ \E i \in Inum, size \in Sizes : write_file(i, size)
  \/ \E i \in Inum : remove_file(i)

Spec == Init /\ [][Next]_vars
-----------------------------------------------------------------------------
Existing == {i \in Inum : inode[i].type # "none"}

(* read_file returns what write_file was last given, however the file grew *)
(* and shrank since, and whatever happened to other files.                 *)
ReadBack ==
  \A i \in Existing :
    read_file(i) = [k \in 0 .. CEIL(written[i], BLOCK_SIZE) - 1 |-> Piece(i, written[i], k)]

(* The bitmap has the bits of the blocks the files use and no others:      *)
(* nothing is freed that is in use, nothing leaks.                         *)
BitmapExact ==
  bits = {Bit(b) : b \in UNION {DataBlocks(inode[i]) \cup IndirectBlocks(inode[i]) : i \in Existing}}

(* "|<-sb->|<-free block bitmap->|<-inode table->|<-data->|": the blocks   *)
(* of a file are blocks of the data area.                                  *)
DataInDataArea ==
  \A i \in Existing : DataBlocks(inode[i]) \subseteq FirstData .. BLOCK_NUM - 1

(* "Block containing bit for block b": the bit that alloc_block sets for a *)
(* block of a file is in bitmap block BBLOCK(b), which has BPB bits.       *)
BitInBitmapBlock ==
  \A i \in Existing : \A b \in DataBlocks(inode[i]) : Bit(b)[2] < BPB
=============================================================================

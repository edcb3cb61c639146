----------------------------- MODULE InodeTable ------------------------------
(***************************************************************************)
(* The inode table under concurrent requests.  The extent server's RPC     *)
(* dispatch threads run its handlers without a lock; alloc_inode and       *)
(* put_inode read a block of IPB inodes, change one of them and write the  *)
(* block back, and between the two another thread may run.  Only the type  *)
(* of an inode is kept.                                                    *)
(***************************************************************************)
EXTENDS Naturals

CONSTANTS Thread,      \* dispatch threads of the extent server
          INODE_NUM, IPB,
          MaxCreates   \* creates that a behaviour has

Inum == 1 .. INODE_NUM - 1           \* alloc_inode skips inode 0
InBlock(b) == {i \in Inum : i \div IPB = b}
LastBlock == (INODE_NUM - 1) \div IPB
Kind == {"none", "file"}

VARIABLES table,    \* the types on the disk
          at,       \* where a thread is: before the read, or before the write
          blk,      \* the block it has read
          buf,      \* its copy, of which only that block counts
          put,      \* the inode and the type that put_inode will write
          files,    \* how many files an inode number was given to
          creates   \* creates so far

vars == <<table, at, blk, buf, put, files, creates>>
threadVars == <<at, blk, buf, put>>

TypeOK ==
  /\ table \in [Inum -> Kind]
  /\ at \in [Thread -> {"idle", "alloc", "put"}]
  /\ blk \in [Thread -> 0 .. LastBlock]
  /\ buf \in [Thread -> [Inum -> Kind]]
  /\ put \in [Thread -> Inum \X Kind]
  /\ files \in [Inum -> Nat]
  /\ creates \in 0 .. MaxCreates

Init ==
  /\ table = [i \in Inum |-> IF i = 1 THEN "file" ELSE "none"]    \* root_dir
  /\ at = [t \in Thread |-> "idle"]
  /\ blk = [t \in Thread |-> 0]
  /\ buf = [t \in Thread |-> [i \in Inum |-> "none"]]
  /\ put = [t \in Thread |-> <<1, "file">>]
  /\ files = [i \in Inum |-> IF i = 1 THEN 1 ELSE 0]
  /\ creates = 0

(* read_block of an inode block into the thread's buffer. *)
ReadBlock(t, b) ==
  /\ blk' = [blk EXCEPT ![t] = b]
  /\ buf' = [buf EXCEPT ![t] = [i \in Inum |-> IF i \in InBlock(b) THEN table[i] ELSE "none"]]

(* write_block of the buffer, in which inode i now has this type. *)
WriteBlock(t, i, type) ==
  table' = [j \in Inum |-> IF j = i THEN type
                           ELSE IF j \in InBlock(blk[t]) THEN buf[t][j] ELSE table[j]]

FreeIn(t) == {i \in InBlock(blk[t]) : buf[t][i] = "none"}

(* alloc_inode starts with the first block ... *)
AllocStart(t) ==
  /\ at[t] = "idle" /\ creates < MaxCreates
  /\ at' = [at EXCEPT ![t] = "alloc"]
  /\ creates' = creates + 1
  /\ ReadBlock(t, 0)
  /\ UNCHANGED <<table, put, files>>

(* ... goes on to the next one if every inode in it is taken, or returns 0 *)
AllocNext(t) ==
  /\ at[t] = "alloc" /\ FreeIn(t) = {}
  /\ IF blk[t] < LastBlock
     THEN ReadBlock(t, blk[t] + 1) /\ UNCHANGED at
     ELSE at' = [at EXCEPT ![t] = "idle"] /\ UNCHANGED <<blk, buf>>
  /\ UNCHANGED <<table, put, files, creates>>

(* ... and takes the first free one. *)
AllocWrite(t) ==
  /\ at[t] = "alloc" /\ FreeIn(t) # {}
  /\ LET i == CHOOSE i \in FreeIn(t) : \A j \in FreeIn(t) : i <= j
     IN  WriteBlock(t, i, "file") /\ files' = [files EXCEPT ![i] = @ + 1]
  /\ at' = [at EXCEPT ![t] = "idle"]
  /\ UNCHANGED <<blk, buf, put, creates>>

(* put_inode, for the atime of a get, for a put, and with type 0 for the   *)
(* remove of a file: get_inode found the inode, its block is read ...      *)
PutRead(t, i, type) ==
  /\ at[t] = "idle" /\ table[i] # "none" /\ files[i] > 0
  /\ type = "none" => i # 1
  /\ at' = [at EXCEPT ![t] = "put"]
  /\ put' = [put EXCEPT ![t] = <<i, type>>]
  /\ ReadBlock(t, i \div IPB)
  /\ UNCHANGED <<table, files, creates>>

(* ... and written back. *)
PutWrite(t) ==
  LET i == put[t][1]
      type == put[t][2]
  IN  /\ at[t] = "put"
      /\ WriteBlock(t, i, type)
      /\ files' = [files EXCEPT ![i] = IF type = "none" /\ @ > 0 THEN @ - 1 ELSE @]
      /\ at' = [at EXCEPT ![t] = "idle"]
      /\ UNCHANGED <<blk, buf, put, creates>>

Next ==
  \E t \in Thread :
    \/ AllocStart(t) \/ AllocNext(t) \/ AllocWrite(t)
    \/ \E i \in Inum, type \in Kind : PutRead(t, i, type)
    \/ PutWrite(t)

Spec == Init /\ [][Next]_vars
-----------------------------------------------------------------------------
(* "Create a new file. Return its inum.": no two files get the same inode  *)
(* number from alloc_inode.                                                *)
OneFileEach == \A i \in Inum : files[i] <= 1

(* ... and the inode of a file created and not removed is in use, so that  *)
(* get_inode finds it.                                                     *)
CreatedStays == \A i \in Inum : files[i] > 0 => table[i] # "none"
=============================================================================

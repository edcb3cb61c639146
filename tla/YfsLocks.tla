------------------------------ MODULE YfsLocks -------------------------------
(***************************************************************************)
(* The locks that yfs_client's operations take around the extents they     *)
(* use, in one directory: the directory's own lock and one per file.       *)
(* lock() acquires only what held_lock does not have and says so (lr), and *)
(* the caller unlocks only what its own lock() acquired: create and unlink *)
(* call operations that lock the same extent again.  Each client runs one  *)
(* FUSE request at a time.  The lock of a file is known by its name.       *)
(***************************************************************************)
EXTENDS Naturals, FiniteSets

CONSTANTS Client,       \* the yfs_client processes
          Name,         \* names in the directory
          SubDir,       \* those that are created as directories
          Unlinkers,    \* clients whose users remove files
          Errors        \* calls of the extent client may fail

Dir == "dir"
Nobody == "nobody"

ASSUME NamesAssumption ==
  /\ SubDir \subseteq Name /\ Unlinkers \subseteq Client
  /\ Name # {} /\ Dir \notin Name /\ Nobody \notin Client
  /\ Errors \in BOOLEAN

Locks == {Dir} \cup Name

VARIABLES owner,      \* the client inside each lock (LockService)
          held,       \* held_lock of each client
          files,      \* the names in the directory
          op,         \* the request a client executes, "none" in between
          name,       \* its file
          at,         \* where in it the client is
          lr,         \* the locks whose lock() in create or unlink returned 0
          inner,      \* the same of the operation at "at", once it has locked
          failed      \* the clients that a VERIFY of unlock has ended

lockVars == <<owner, held, failed>>
opVars == <<op, name>>
vars == <<lockVars, files, opVars, at, lr, inner>>

Ops == {"create", "unlink", "lookup", "access"}

(* Operations that lock one extent, work, and unlock it: lookup's readdir, *)
(* isfile, write of the directory, and any use of a file.                  *)
Calls == {"readdir", "isfile", "write", "use"}
Places == Calls \cup {"lock", "file", "done", "undo", "remove"}

TypeOK ==
  /\ owner \in [Locks -> Client \cup {Nobody}]
  /\ held \in [Client -> SUBSET Locks]
  /\ files \subseteq Name
  /\ op \in [Client -> Ops \cup {"none"}]
  /\ name \in [Client -> Name]
  /\ at \in [Client -> Places]
  /\ lr \in [Client -> SUBSET Locks]
  /\ inner \in [Client -> {"out", "locked", "nested"}]
  /\ failed \subseteq Client

Init ==
  /\ owner = [l \in Locks |-> Nobody]
  /\ held = [c \in Client |-> {}]
  /\ files = {}
  /\ op = [c \in Client |-> "none"]
  /\ name \in [Client -> {CHOOSE n \in Name : TRUE}]
  /\ at = [c \in Client |-> "lock"]
  /\ lr = [c \in Client |-> {}]
  /\ inner = [c \in Client |-> "out"]
  /\ failed = {}
-----------------------------------------------------------------------------
(* lock() when it acquires, waiting for the lock; it returns 0.  When the  *)
(* client has the lock, lock() does nothing and returns 1.                 *)
Acquire(c, l) ==
  /\ l \notin held[c] /\ owner[l] = Nobody
  /\ owner' = [owner EXCEPT ![l] = c]
  /\ held' = [held EXCEPT ![c] = @ \cup {l}]
  /\ UNCHANGED failed

(* unlock() of each lock in set; its VERIFY wants them in held_lock. *)
unlock(c, set) ==
  IF set \subseteq held[c]
  THEN /\ owner' = [l \in Locks |-> IF l \in set THEN Nobody ELSE owner[l]]
       /\ held' = [held EXCEPT ![c] = @ \ set]
       /\ UNCHANGED failed
  ELSE failed' = failed \cup {c} /\ UNCHANGED <<owner, held>>

(* The lock of the operation that the client is at. *)
Target(c) == IF at[c] \in {"readdir", "write"} THEN Dir ELSE name[c]

Runs(c, place) == op[c] # "none" /\ c \notin failed /\ at[c] = place
Inside(c, call) == Runs(c, call) /\ inner[c] # "out"
GoTo(c, place) == at' = [at EXCEPT ![c] = place] /\ UNCHANGED opVars

(* The request returns; what it locked and did not unlock stays in         *)
(* held_lock, but no lr remembers it.                                      *)
Return(c) ==
  /\ op' = [op EXCEPT ![c] = "none"]
  /\ at' = [at EXCEPT ![c] = "lock"]
  /\ UNCHANGED name

(* The end of an operation: if (!lr) unlock(...) *)
LeaveMutant(c) ==
  /\ unlock(c, {Target(c)})
  /\ inner' = [inner EXCEPT ![c] = "out"]

Leave(c) ==
  /\ unlock(c, IF inner[c] = "locked" THEN {Target(c)} ELSE {})
  /\ inner' = [inner EXCEPT ![c] = "out"]
-----------------------------------------------------------------------------
(* FUSE calls an operation.  The kernel asks for the removal of a file it  *)
(* has looked up; access is any operation on an open file alone.           *)
Call(c, o, n) ==
  /\ op[c] = "none" /\ c \notin failed
  /\ o = "unlink" => c \in Unlinkers /\ n \in files
  /\ op' = [op EXCEPT ![c] = o]
  /\ name' = [name EXCEPT ![c] = n]
  /\ at' = [at EXCEPT ![c] = IF o = "access" THEN "use"
                             ELSE IF o = "lookup" THEN "readdir" ELSE "lock"]
  /\ UNCHANGED <<lockVars, files, lr, inner>>

(* The lock(parent) of create and unlink, and the lock(ino) of unlink. *)
LockOuter(c, place, l, next) ==
  /\ Runs(c, place)
  /\ \/ Acquire(c, l) /\ lr' = [lr EXCEPT ![c] = @ \cup {l}]
     \/ l \in held[c] /\ UNCHANGED <<lockVars, lr>>
  /\ GoTo(c, next)
  /\ UNCHANGED <<files, inner>>

LockParent(c) == LockOuter(c, "lock", Dir, "readdir")
LockFile(c) == LockOuter(c, "file", name[c], "isfile")

(* The lock() at the start of an operation. *)
Enter(c) ==
  /\ op[c] # "none" /\ c \notin failed
  /\ at[c] \in Calls /\ inner[c] = "out"
  /\ \/ Acquire(c, Target(c)) /\ inner' = [inner EXCEPT ![c] = "locked"]
     \/ /\ Target(c) \in held[c]
        /\ inner' = [inner EXCEPT ![c] = "nested"]
        /\ UNCHANGED lockVars
  /\ UNCHANGED <<files, opVars, at, lr>>

(* lookup: the attributes of what was found are asked for. *)
Lookup(c) ==
  /\ op[c] = "lookup" /\ Inside(c, "readdir")
  /\ Leave(c)
  /\ \/ name[c] \in files /\ GoTo(c, "use")
     \/ (name[c] \notin files \/ Errors) /\ Return(c)
  /\ UNCHANGED <<files, lr>>

(* create goes on when the name is not there and the extent is created; it *)
(* unlocks the parent and returns on EXIST and on an error.                *)
CreateSearchMutant(c) ==
  /\ op[c] = "create" /\ Inside(c, "readdir")
  /\ unlock(c, {Dir})
  /\ inner' = [inner EXCEPT ![c] = "out"]
  /\ lr' = [lr EXCEPT ![c] = {}]
  /\ \/ name[c] \notin files /\ GoTo(c, "write")
     \/ (name[c] \in files \/ Errors) /\ GoTo(c, "undo")
  /\ UNCHANGED files

CreateSearch(c) ==
  /\ op[c] = "create" /\ Inside(c, "readdir")
  /\ Leave(c)
  /\ \/ name[c] \notin files /\ GoTo(c, "write")
     \/ (name[c] \in files \/ Errors) /\ GoTo(c, "undo")
  /\ UNCHANGED <<files, lr>>

(* unlink returns at once when its lookup fails or the name is gone. *)
UnlinkMissed(c) ==
  /\ op[c] = "unlink" /\ Inside(c, "readdir")
  /\ name[c] \notin files \/ Errors
  /\ Leave(c)
  /\ lr' = [lr EXCEPT ![c] = {}]
  /\ Return(c)
  /\ UNCHANGED files

UnlinkFound(c) ==
  /\ op[c] = "unlink" /\ Inside(c, "readdir") /\ name[c] \in files
  /\ Leave(c)
  /\ GoTo(c, "file")
  /\ UNCHANGED <<files, lr>>

(* isdir(ino), or an error of it or of get(parent): nothing is removed. *)
UnlinkIsFileMutant(c) ==
  /\ op[c] = "unlink" /\ Inside(c, "isfile")
  /\ unlock(c, lr[c] \cap {Dir})
  /\ inner' = [inner EXCEPT ![c] = "out"]
  /\ lr' = [lr EXCEPT ![c] = @ \ {Dir}]
  /\ \/ name[c] \notin SubDir /\ GoTo(c, "write")
     \/ (name[c] \in SubDir \/ Errors) /\ GoTo(c, "undo")
  /\ UNCHANGED files

UnlinkIsFile(c) ==
  /\ op[c] = "unlink" /\ Inside(c, "isfile")
  /\ Leave(c)
  /\ \/ name[c] \notin SubDir /\ GoTo(c, "write")
     \/ (name[c] \in SubDir \/ Errors) /\ GoTo(c, "undo")
  /\ UNCHANGED <<files, lr>>

(* write of the parent: the entry comes, or goes.  create returns with the *)
(* error of write, unlink goes on.                                         *)
WriteMutant(c) ==
  /\ Inside(c, "write")
  /\ Leave(c)
  /\ \/ /\ files' = IF op[c] = "create" THEN files \cup {name[c]} ELSE files \ {name[c]}
        /\ GoTo(c, "done")
     \/ Errors /\ GoTo(c, "write") /\ UNCHANGED files
  /\ UNCHANGED lr

Write(c) ==
  /\ Inside(c, "write")
  /\ Leave(c)
  /\ \/ /\ files' = IF op[c] = "create" THEN files \cup {name[c]} ELSE files \ {name[c]}
        /\ GoTo(c, "done")
     \/ /\ Errors
        /\ GoTo(c, IF op[c] = "create" THEN "undo" ELSE "done")
        /\ UNCHANGED files
  /\ UNCHANGED lr

(* The parent is unlocked; next are the attributes of what create made, or *)
(* unlink's ec->remove(ino).                                               *)
Done(c) ==
  /\ Runs(c, "done")
  /\ unlock(c, lr[c] \cap {Dir})
  /\ lr' = [lr EXCEPT ![c] = @ \ {Dir}]
  /\ GoTo(c, IF op[c] = "create" THEN "use" ELSE "remove")
  /\ UNCHANGED <<files, inner>>

(* What the request locked is unlocked, and it returns: the early returns  *)
(* of create, and of unlink after its lookup; unlink's last unlock(ino).   *)
Undo(c) ==
  /\ Runs(c, "undo") \/ Runs(c, "remove")
  /\ unlock(c, lr[c])
  /\ lr' = [lr EXCEPT ![c] = {}]
  /\ Return(c)
  /\ UNCHANGED <<files, inner>>

(* The end of an operation on one file: getattr, setattr, read, write. *)
UseFile(c) ==
  /\ Inside(c, "use")
  /\ Leave(c)
  /\ Return(c)
  /\ UNCHANGED <<files, lr>>

Step(c) ==
  \/ LockParent(c) \/ LockFile(c) \/ Enter(c)
  \/ Lookup(c) \/ CreateSearch(c) \/ UnlinkMissed(c) \/ UnlinkFound(c)
  \/ UnlinkIsFile(c) \/ Write(c) \/ Done(c) \/ Undo(c) \/ UseFile(c)

Next == \E c \in Client : Step(c) \/ \E o \in Ops, n \in Name : Call(c, o, n)

Spec == Init /\ [][Next]_vars

(* Clients run, and the lock service serves every waiter (WaiterServed of  *)
(* LockCache), which is strong fairness of a step that takes a lock.       *)
FairSpec == Spec /\ \A c \in Client : SF_vars(Step(c))
-----------------------------------------------------------------------------
(* VERIFY(it != held_lock.end()): however create and unlink nest the       *)
(* operations that lock the same extent, and whichever call of theirs      *)
(* fails, no unlock releases what was released already.                    *)
VerifyHolds == failed = {}

(* What lookup told create or unlink of the name is still so when they     *)
(* write the directory, several calls that lock and unlock it later.       *)
LookupStands ==
  \A c \in Client :
    /\ op[c] = "create" /\ at[c] = "write" => name[c] \notin files
    /\ op[c] = "unlink" /\ at[c] = "write" => name[c] \in files

(* The client waits in lock() for a lock that another has. *)
Waits(c, l) ==
  /\ op[c] # "none" /\ inner[c] = "out"
  /\ \/ at[c] = "lock" /\ l = Dir
     \/ at[c] = "file" /\ l = name[c]
     \/ at[c] \in Calls /\ l = Target(c)
  /\ owner[l] \notin {c, Nobody}

(* Nobody waits in a circle, whatever fails and whatever unlink keeps: of  *)
(* any clients, one does not wait for another of them.  The parent is      *)
(* locked before the file, and not again while a request has the file.     *)
NoCircle ==
  \A group \in (SUBSET Client) \ {{}} :
    \E c \in group : \A l \in Locks : Waits(c, l) => owner[l] \notin group

(* Between two requests a client is inside of no lock: each lock() has had *)
(* its unlock(), on every path out of an operation.                        *)
NothingHeldAtRest == \A c \in Client : op[c] = "none" => held[c] = {}

(* Every request returns, also when other clients use the same directory   *)
(* and the same files.                                                     *)
RequestsReturn == \A c \in Client : op[c] # "none" ~> op[c] = "none"

(* While no request has returned with a lock (NothingHeldAtRest, which the *)
(* two early returns of unlink break), every request returns, whoever      *)
(* unlinks and whatever fails: each wait ends, and so does each operation. *)
ReturnsUnlessKept == []NothingHeldAtRest => RequestsReturn
=============================================================================

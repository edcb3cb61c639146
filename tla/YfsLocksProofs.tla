--------------------------- MODULE YfsLocksProofs ---------------------------
(***************************************************************************)
(* Proofs about YfsLocks, for every number of clients and names.           *)
(***************************************************************************)
EXTENDS YfsLocks, TLAPS

USE NamesAssumption

(* held_lock of each client is what it is inside of. *)
HeldExact == \A c \in Client : held[c] = {l \in Locks : owner[l] = c}

(* The lock that the operation a client is at acquired itself. *)
Nested(c) == IF inner[c] = "locked" THEN {Target(c)} ELSE {}

(* create and unlink work on the directory. *)
InDir(c) ==
  op[c] \in {"create", "unlink"} /\ at[c] \in {"readdir", "file", "isfile", "write", "done"}

(* What create or unlink may have locked, by where it is. *)
MayLock(c) ==
  IF op[c] \notin {"create", "unlink"} \/ at[c] \in {"lock", "use"} THEN {}
  ELSE IF at[c] = "remove" THEN {name[c]}
  ELSE IF op[c] = "create" \/ at[c] \in {"readdir", "file"} THEN {Dir}
  ELSE {Dir, name[c]}

(* Where each request can be. *)
Placed(c) ==
  /\ op[c] = "none" => at[c] = "lock"
  /\ op[c] = "access" => at[c] = "use"
  /\ op[c] = "lookup" => at[c] \in {"readdir", "use"}
  /\ op[c] = "create" => at[c] \notin {"file", "isfile", "remove"}
  /\ op[c] = "unlink" => at[c] # "use"

(* The locks of a client and what its request will unlock: an operation inside of
   another has acquired nothing that the outer one has, and only the directory is
   ever locked without an lr that says so. *)
Local(c) ==
  /\ Placed(c)
  /\ inner[c] # "out" => at[c] \in Calls
  /\ lr[c] \subseteq MayLock(c) /\ lr[c] \subseteq held[c]
  /\ Nested(c) \subseteq held[c] \ lr[c]
  /\ held[c] \subseteq lr[c] \cup Nested(c) \cup {Dir}
  /\ InDir(c) => Dir \in held[c] \ Nested(c)

(* What lookup told create or unlink is so until the write. *)
Found(c) ==
  /\ op[c] = "create" /\ at[c] = "write" => name[c] \notin files
  /\ op[c] = "unlink" /\ at[c] \in {"file", "isfile", "write"} => name[c] \in files

(* The inductive invariant. *)
LInv ==
  /\ TypeOK
  /\ HeldExact
  /\ failed = {}
  /\ \A c \in Client : Local(c) /\ Found(c)

(* The locks after a step of c that leaves it with the locks h. *)
LocksNow(c, h) ==
  /\ owner' \in [Locks -> Client \cup {Nobody}]
  /\ held' \in [Client -> SUBSET Locks]
  /\ HeldExact' /\ failed' = {}
  /\ held'[c] = h
  /\ \A d \in Client : d # c => held'[d] = held[d]

(* What lock() does when it acquires. *)
LEMMA AcquireKeeps ==
  ASSUME LInv, NEW c \in Client, NEW l \in Locks, Acquire(c, l)
  PROVE  LocksNow(c, held[c] \cup {l})
<1>1. /\ owner[l] = Nobody /\ owner' = [owner EXCEPT ![l] = c]
      /\ held' = [held EXCEPT ![c] = @ \cup {l}] /\ failed' = failed
  BY DEF Acquire
<1>2. HeldExact'
  BY <1>1 DEF LInv, TypeOK, HeldExact
<1> QED BY <1>1, <1>2 DEF LInv, TypeOK, LocksNow

(* What unlock() does to locks that the client has. *)
LEMMA UnlockKeeps ==
  ASSUME LInv, NEW c \in Client, NEW set, set \subseteq held[c], unlock(c, set)
  PROVE  LocksNow(c, held[c] \ set)
<1>1. /\ owner' = [l \in Locks |-> IF l \in set THEN Nobody ELSE owner[l]]
      /\ held' = [held EXCEPT ![c] = @ \ set] /\ failed' = failed
  BY DEF unlock
<1>2. HeldExact'
  <2> SUFFICES ASSUME NEW d \in Client PROVE held'[d] = {l \in Locks : owner'[l] = d}
    BY DEF HeldExact
  <2>1. held[d] = {l \in Locks : owner[l] = d} /\ held[c] = {l \in Locks : owner[l] = c}
    BY DEF LInv, HeldExact
  <2> QED BY <1>1, <2>1 DEF LInv, TypeOK
<1> QED BY <1>1, <1>2 DEF LInv, TypeOK, LocksNow

(* What the end of an operation does. *)
LEMMA LeaveKeeps ==
  ASSUME LInv, NEW c \in Client, Leave(c)
  PROVE  LocksNow(c, held[c] \ Nested(c)) /\ inner' = [inner EXCEPT ![c] = "out"]
<1>1. unlock(c, Nested(c)) /\ inner' = [inner EXCEPT ![c] = "out"]
  BY DEF Leave, Nested
<1>2. Nested(c) \subseteq held[c]
  BY DEF LInv, Local
<1> QED BY <1>1, <1>2, UnlockKeeps

(* A step of c leaves the others' requests alone, and changes files only from
   write. *)
Others(c) ==
  /\ \A d \in Client : d # c => /\ op'[d] = op[d] /\ at'[d] = at[d] /\ name'[d] = name[d]
                                /\ lr'[d] = lr[d] /\ inner'[d] = inner[d]
  /\ files' # files => op[c] \in {"create", "unlink"} /\ at[c] = "write"

(* The types of what the requests keep. *)
Typed ==
  /\ op' \in [Client -> Ops \cup {"none"}] /\ name' \in [Client -> Name]
  /\ at' \in [Client -> Places] /\ files' \subseteq Name
  /\ lr' \in [Client -> SUBSET Locks] /\ inner' \in [Client -> {"out", "locked", "nested"}]

(* The invariant from its parts: the locks, the client that moved, the others. *)
LEMMA Assemble ==
  ASSUME LInv, NEW c \in Client, NEW h, LocksNow(c, h), Typed, Others(c), Local(c)', Found(c)'
  PROVE  LInv'
<1>1. TypeOK'
  BY DEF TypeOK, Typed, LocksNow, LInv
<1>2. ASSUME NEW d \in Client, d # c PROVE Local(d)' /\ Found(d)'
  <2>1. /\ op'[d] = op[d] /\ at'[d] = at[d] /\ name'[d] = name[d]
        /\ lr'[d] = lr[d] /\ inner'[d] = inner[d] /\ held'[d] = held[d]
    BY <1>2 DEF Others, LocksNow
  <2>2. Local(d) /\ Found(d) /\ Local(c)
    BY DEF LInv
  <2>3. Local(d)'
    BY <2>1, <2>2 DEF Local, Nested, Target, InDir, MayLock, Placed
  <2>4. CASE files' = files
    BY <2>1, <2>2, <2>3, <2>4 DEF Found
  <2>5. CASE files' # files
    <3>1. Dir \in held[c]
      BY <2>2, <2>5 DEF Others, Local, InDir
    <3>2. Dir \notin held[d]
      BY <1>2, <3>1 DEF LInv, HeldExact
    <3>3. ~InDir(d)
      BY <2>2, <3>2 DEF Local
    <3> QED BY <2>1, <2>3, <3>3 DEF Found, InDir
  <2> QED BY <2>3, <2>4, <2>5
<1> QED BY <1>1, <1>2 DEF LInv, LocksNow

(* Names and the directory are locks. *)
LEMMA IsLock ==
  ASSUME LInv, NEW c \in Client
  PROVE  /\ Dir \in Locks /\ name[c] \in Locks /\ name[c] # Dir /\ Target(c) \in Locks
BY DEF LInv, TypeOK, Locks, Target

(* Every step of a client leaves the others alone. *)
LEMMA OthersKeep ==
  ASSUME LInv, NEW c \in Client, Step(c) \/ (\E o \in Ops, n \in Name : Call(c, o, n))
  PROVE  Typed /\ Others(c)
<1>1. /\ op \in [Client -> Ops \cup {"none"}] /\ name \in [Client -> Name]
      /\ at \in [Client -> Places] /\ files \subseteq Name
      /\ lr \in [Client -> SUBSET Locks] /\ inner \in [Client -> {"out", "locked", "nested"}]
      /\ Dir \in Locks /\ name[c] \in Locks
  BY IsLock DEF LInv, TypeOK
<1>2. CASE LockParent(c) \/ LockFile(c)
  BY <1>1, <1>2 DEF LockParent, LockFile, LockOuter, GoTo, opVars, Typed, Others, Places, Calls
<1>3. CASE Enter(c)
  BY <1>1, <1>3 DEF Enter, opVars, Typed, Others
<1>4. CASE Lookup(c) \/ CreateSearch(c) \/ UnlinkFound(c) \/ UnlinkIsFile(c) \/ UseFile(c)
  <2>1. inner' = [inner EXCEPT ![c] = "out"] /\ lr' = lr /\ files' = files
    BY <1>4 DEF Lookup, CreateSearch, UnlinkFound, UnlinkIsFile, UseFile, Leave
  <2>2. Return(c) \/ \E p \in Places : GoTo(c, p)
    BY <1>4 DEF Lookup, CreateSearch, UnlinkFound, UnlinkIsFile, UseFile, Places, Calls
  <2> QED BY <1>1, <2>1, <2>2 DEF Return, GoTo, opVars, Typed, Others, Places, Calls
<1>5. CASE UnlinkMissed(c) \/ Undo(c)
  BY <1>1, <1>5 DEF UnlinkMissed, Undo, Leave, Return, Typed, Others, Places
<1>6. CASE Done(c)
  BY <1>1, <1>6 DEF Done, GoTo, opVars, Typed, Others, Places, Calls
<1>7. CASE Write(c)
  <2>1. inner' = [inner EXCEPT ![c] = "out"] /\ lr' = lr /\ files' \subseteq Name
    BY <1>1, <1>7 DEF Write, Leave
  <2>2. \E p \in Places : GoTo(c, p)
    BY <1>7 DEF Write, Places
  <2>3. op[c] \in {"create", "unlink"} /\ at[c] = "write"
    <3>1. Placed(c) /\ at[c] = "write" /\ op[c] # "none"
      BY <1>7 DEF LInv, Local, Write, Inside, Runs
    <3> QED BY <1>1, <3>1 DEF Placed, Ops
  <2> QED BY <1>1, <2>1, <2>2, <2>3 DEF GoTo, opVars, Typed, Others
<1>8. CASE \E o \in Ops, n \in Name : Call(c, o, n)
  BY <1>1, <1>8 DEF Call, Typed, Others, Places, Calls
<1> QED BY <1>2, <1>3, <1>4, <1>5, <1>6, <1>7, <1>8 DEF Step

(* The invariant's facts about the client that moves. *)
LEMMA Mover ==
  ASSUME LInv, NEW c \in Client
  PROVE  /\ op[c] \in Ops \cup {"none"} /\ name[c] \in Name /\ at[c] \in Places
         /\ lr[c] \subseteq Locks /\ inner[c] \in {"out", "locked", "nested"}
         /\ Local(c) /\ Found(c) /\ failed = {}
         /\ Dir \in Locks /\ name[c] \in Locks /\ name[c] # Dir /\ Target(c) \in Locks
BY IsLock DEF LInv, TypeOK

(* The client keeps, without an lr, nothing more than it kept. *)
Kept(c) == held[c] \ (lr[c] \cup Nested(c))

(* lock() of create and unlink. *)
LEMMA OuterStep ==
  ASSUME LInv, NEW c \in Client, LockParent(c) \/ LockFile(c)
  PROVE  LInv' /\ Kept(c)' \subseteq Kept(c)
<1>1. Typed /\ Others(c)
  BY OthersKeep DEF Step
<1>2. PICK l \in {Dir, name[c]}, next \in {"readdir", "isfile"} :
        /\ LockOuter(c, at[c], l, next)
        /\ l = Dir => at[c] = "lock" /\ next = "readdir"
        /\ l = name[c] => at[c] = "file" /\ next = "isfile"
  BY Mover DEF LockParent, LockFile, LockOuter, Runs
<1>3. /\ op' = op /\ name' = name /\ files' = files /\ inner' = inner
      /\ at'[c] = next /\ op[c] # "none" /\ inner[c] = "out"
  BY <1>2, Mover DEF LockOuter, Runs, GoTo, opVars, Local, LInv, TypeOK, Calls
<1>4. op[c] \in {"create", "unlink"} /\ (l = name[c] => op[c] = "unlink")
  BY <1>2, <1>3, Mover DEF Local, Placed, Ops
<1>5. Nested(c) = {} /\ Nested(c)' = {}
  BY <1>3 DEF Nested
<1>6. CASE Acquire(c, l) /\ lr' = [lr EXCEPT ![c] = @ \cup {l}]
  <2>1. LocksNow(c, held[c] \cup {l}) /\ lr'[c] = lr[c] \cup {l} /\ held'[c] = held[c] \cup {l}
    BY <1>2, <1>6, AcquireKeeps, Mover DEF LInv, TypeOK, LocksNow
  <2>2. Local(c)'
    BY <1>2, <1>3, <1>4, <1>5, <2>1, Mover DEF Local, Placed, MayLock, InDir, Calls
  <2>3. Found(c)'
    BY <1>2, <1>3, <1>4, Mover DEF Found
  <2>4. LInv'
    BY <1>1, <2>1, <2>2, <2>3, Assemble
  <2> QED BY <1>5, <2>1, <2>4 DEF Kept
<1>7. CASE l \in held[c] /\ UNCHANGED <<lockVars, lr>>
  <2>1. LocksNow(c, held[c]) /\ lr' = lr /\ held' = held
    BY <1>7 DEF LInv, TypeOK, LocksNow, lockVars, HeldExact
  <2>2. Local(c)'
    BY <1>2, <1>3, <1>4, <1>5, <1>7, <2>1, Mover DEF Local, Placed, MayLock, InDir, Calls
  <2>3. Found(c)'
    BY <1>2, <1>3, <1>4, Mover DEF Found
  <2>4. LInv'
    BY <1>1, <2>1, <2>2, <2>3, Assemble
  <2> QED BY <1>5, <2>1, <2>4 DEF Kept
<1> QED BY <1>2, <1>6, <1>7 DEF LockOuter

(* lock() of the operations, also inside of create and unlink. *)
LEMMA EnterStep ==
  ASSUME LInv, NEW c \in Client, Enter(c)
  PROVE  LInv' /\ Kept(c)' \subseteq Kept(c)
<1>1. Typed /\ Others(c)
  BY OthersKeep DEF Step
<1>2. /\ op' = op /\ name' = name /\ files' = files /\ at' = at /\ lr' = lr
      /\ at[c] \in Calls /\ op[c] # "none" /\ inner[c] = "out" /\ Target(c)' = Target(c)
  BY DEF Enter, opVars, Target
<1>3. Nested(c) = {}
  BY <1>2 DEF Nested
<1>4. CASE Acquire(c, Target(c)) /\ inner' = [inner EXCEPT ![c] = "locked"]
  <2>1. LocksNow(c, held[c] \cup {Target(c)}) /\ held'[c] = held[c] \cup {Target(c)}
    BY <1>4, AcquireKeeps, Mover DEF LocksNow
  <2>2. Nested(c)' = {Target(c)} /\ Target(c) \notin held[c]
    BY <1>2, <1>4 DEF Nested, LInv, TypeOK, Acquire
  <2>3. Local(c)'
    BY <1>2, <1>3, <2>1, <2>2, Mover DEF Local, Placed, MayLock, InDir
  <2>4. Found(c)'
    BY <1>2, Mover DEF Found
  <2>5. LInv'
    BY <1>1, <2>1, <2>3, <2>4, Assemble
  <2> QED BY <1>2, <1>3, <2>1, <2>2, <2>5 DEF Kept
<1>5. CASE inner' = [inner EXCEPT ![c] = "nested"] /\ UNCHANGED lockVars
  <2>1. LocksNow(c, held[c]) /\ held' = held
    BY <1>5 DEF LInv, TypeOK, LocksNow, lockVars, HeldExact
  <2>2. Nested(c)' = {}
    BY <1>5 DEF Nested, LInv, TypeOK
  <2>3. Local(c)'
    BY <1>2, <1>3, <2>1, <2>2, Mover DEF Local, Placed, MayLock, InDir
  <2>4. Found(c)'
    BY <1>2, Mover DEF Found
  <2>5. LInv'
    BY <1>1, <2>1, <2>3, <2>4, Assemble
  <2> QED BY <1>2, <1>3, <2>1, <2>2, <2>5 DEF Kept
<1> QED BY <1>4, <1>5 DEF Enter

(* The steps that end an operation and go on, or return with nothing locked. *)
LEMMA LeaveStep ==
  ASSUME LInv, NEW c \in Client,
         Lookup(c) \/ CreateSearch(c) \/ UnlinkFound(c) \/ UnlinkIsFile(c) \/ UseFile(c) \/ Write(c)
  PROVE  LInv' /\ Kept(c)' \subseteq Kept(c)
<1>1. Typed /\ Others(c)
  BY OthersKeep DEF Step
<1>2. /\ LocksNow(c, held[c] \ Nested(c)) /\ held'[c] = held[c] \ Nested(c)
      /\ inner' = [inner EXCEPT ![c] = "out"] /\ lr' = lr
  BY LeaveKeeps DEF Lookup, CreateSearch, UnlinkFound, UnlinkIsFile, UseFile, Write, LocksNow
<1>3. Nested(c)' = {} /\ inner'[c] = "out" /\ name'[c] = name[c]
  BY <1>2 DEF Nested, LInv, TypeOK, Lookup, CreateSearch, UnlinkFound, UnlinkIsFile, UseFile, Write,
              GoTo, Return, opVars
<1>4. /\ Placed(c) /\ lr[c] \subseteq MayLock(c) /\ lr[c] \subseteq held'[c]
      /\ held'[c] \subseteq lr[c] \cup {Dir} /\ (InDir(c) => Dir \in held'[c])
  BY <1>2, Mover DEF Local
<1>5. CASE Lookup(c) \/ UseFile(c)
  <2>1. /\ lr[c] = {} /\ (op'[c] = "none" => at'[c] = "lock")
        /\ (op'[c] # "none" => op'[c] = "lookup" /\ at'[c] = "use")
    BY <1>4, <1>5, Mover DEF Lookup, UseFile, Inside, Runs, GoTo, Return, opVars, MayLock, LInv, TypeOK
  <2>2. Local(c)' /\ Found(c)'
    BY <1>2, <1>3, <1>4, <2>1 DEF Local, Found, Placed, InDir
  <2> QED BY <1>1, <1>2, <1>3, <2>2, Assemble DEF Kept
<1>6. CASE CreateSearch(c)
  <2>1. /\ op[c] = "create" /\ op'[c] = "create" /\ at[c] = "readdir" /\ at'[c] \in {"write", "undo"}
        /\ files' = files /\ (at'[c] = "write" => name[c] \notin files)
    BY <1>6 DEF CreateSearch, Inside, Runs, GoTo, opVars, LInv, TypeOK
  <2>2. Local(c)'
    BY <1>2, <1>3, <1>4, <2>1 DEF Local, Placed, InDir, MayLock
  <2>3. Found(c)'
    BY <1>3, <2>1 DEF Found
  <2> QED BY <1>1, <1>2, <1>3, <2>2, <2>3, Assemble DEF Kept
<1>7. CASE UnlinkFound(c)
  <2>1. /\ op[c] = "unlink" /\ op'[c] = "unlink" /\ at[c] = "readdir" /\ at'[c] = "file"
        /\ files' = files /\ name[c] \in files
    BY <1>7 DEF UnlinkFound, Inside, Runs, GoTo, opVars, LInv, TypeOK
  <2>2. Local(c)'
    BY <1>2, <1>3, <1>4, <2>1 DEF Local, Placed, InDir, MayLock
  <2>3. Found(c)'
    BY <1>3, <2>1 DEF Found
  <2> QED BY <1>1, <1>2, <1>3, <2>2, <2>3, Assemble DEF Kept
<1>8. CASE UnlinkIsFile(c)
  <2>1. /\ op[c] = "unlink" /\ op'[c] = "unlink" /\ at[c] = "isfile" /\ at'[c] \in {"write", "undo"}
        /\ files' = files
    BY <1>8 DEF UnlinkIsFile, Inside, Runs, GoTo, opVars, LInv, TypeOK
  <2>2. Local(c)'
    BY <1>2, <1>3, <1>4, <2>1 DEF Local, Placed, InDir, MayLock
  <2>3. Found(c)'
    BY <1>3, <2>1, Mover DEF Found
  <2> QED BY <1>1, <1>2, <1>3, <2>2, <2>3, Assemble DEF Kept
<1>9. CASE Write(c)
  <2>1. /\ op[c] \in {"create", "unlink"} /\ op'[c] = op[c] /\ at[c] = "write"
        /\ at'[c] \in {"done", "undo"} /\ (op[c] = "unlink" => at'[c] = "done")
    BY <1>4, <1>9, Mover DEF Write, Inside, Runs, GoTo, opVars, LInv, TypeOK, Placed, Ops
  <2>2. Local(c)'
    BY <1>2, <1>3, <1>4, <2>1 DEF Local, Placed, InDir, MayLock
  <2>3. Found(c)'
    BY <2>1 DEF Found
  <2> QED BY <1>1, <1>2, <1>3, <2>2, <2>3, Assemble DEF Kept
<1> QED BY <1>5, <1>6, <1>7, <1>8, <1>9

(* The early returns of unlink's lookup: the directory may stay locked. *)
LEMMA MissedStep ==
  ASSUME LInv, NEW c \in Client, UnlinkMissed(c)
  PROVE  LInv'
<1>1. Typed /\ Others(c)
  BY OthersKeep DEF Step
<1>2. /\ LocksNow(c, held[c] \ Nested(c)) /\ held'[c] = held[c] \ Nested(c)
      /\ inner' = [inner EXCEPT ![c] = "out"]
  BY LeaveKeeps DEF UnlinkMissed, LocksNow
<1>3. /\ lr'[c] = {} /\ op'[c] = "none" /\ at'[c] = "lock" /\ inner'[c] = "out" /\ Nested(c)' = {}
      /\ op[c] = "unlink" /\ at[c] = "readdir"
  BY <1>2 DEF UnlinkMissed, Inside, Runs, Return, Nested, LInv, TypeOK
<1>4. lr[c] \subseteq {Dir} /\ held'[c] \subseteq {Dir}
  BY <1>2, <1>3, Mover DEF Local, MayLock
<1>5. Local(c)' /\ Found(c)'
  BY <1>3, <1>4 DEF Local, Found, Placed, InDir
<1> QED BY <1>1, <1>2, <1>5, Assemble

(* The unlock()s of create and unlink. *)
LEMMA OuterUnlockStep ==
  ASSUME LInv, NEW c \in Client, Done(c) \/ Undo(c)
  PROVE  LInv' /\ Kept(c)' \subseteq Kept(c)
<1>1. Typed /\ Others(c)
  BY OthersKeep DEF Step
<1>2. /\ inner' = inner /\ inner[c] = "out" /\ Nested(c) = {} /\ Nested(c)' = {} /\ op[c] # "none"
      /\ at[c] \in {"done", "undo", "remove"}
  BY Mover DEF Done, Undo, Runs, Nested, Local, Calls
<1>3. op[c] \in {"create", "unlink"}
  BY <1>2, Mover DEF Local, Placed, Ops
<1>4. CASE Done(c)
  <2>1. LocksNow(c, held[c] \ (lr[c] \cap {Dir})) /\ held'[c] = held[c] \ (lr[c] \cap {Dir})
    BY <1>4, UnlockKeeps, Mover DEF Done, Local, LocksNow
  <2>2. /\ lr'[c] = lr[c] \ {Dir} /\ op'[c] = op[c] /\ name'[c] = name[c] /\ at[c] = "done"
        /\ at'[c] = IF op[c] = "create" THEN "use" ELSE "remove"
    BY <1>4 DEF Done, Runs, GoTo, opVars, LInv, TypeOK
  <2>3. Local(c)'
    BY <1>2, <1>3, <2>1, <2>2, Mover DEF Local, Placed, InDir, MayLock
  <2>4. Found(c)'
    BY <1>3, <2>2 DEF Found
  <2>5. LInv'
    BY <1>1, <2>1, <2>3, <2>4, Assemble
  <2> QED BY <1>2, <2>1, <2>2, <2>5 DEF Kept
<1>5. CASE Undo(c)
  <2>1. LocksNow(c, held[c] \ lr[c]) /\ held'[c] = held[c] \ lr[c]
    BY <1>5, UnlockKeeps, Mover DEF Undo, Local, LocksNow
  <2>2. lr'[c] = {} /\ op'[c] = "none" /\ at'[c] = "lock"
    BY <1>5 DEF Undo, Return, LInv, TypeOK
  <2>3. Local(c)' /\ Found(c)'
    BY <1>2, <2>1, <2>2, Mover DEF Local, Found, Placed, InDir
  <2>4. LInv'
    BY <1>1, <2>1, <2>3, Assemble
  <2> QED BY <1>2, <2>1, <2>2, <2>4 DEF Kept
<1> QED BY <1>4, <1>5

(* A request begins. *)
LEMMA CallStep ==
  ASSUME LInv, NEW c \in Client, \E o \in Ops, n \in Name : Call(c, o, n)
  PROVE  LInv' /\ Kept(c)' \subseteq Kept(c)
<1>1. Typed /\ Others(c)
  BY OthersKeep
<1>2. LocksNow(c, held[c]) /\ held' = held /\ lr' = lr /\ inner' = inner /\ op[c] = "none"
  BY DEF Call, LInv, TypeOK, LocksNow, lockVars, HeldExact
<1>3. lr[c] = {} /\ inner[c] = "out" /\ Nested(c) = {} /\ Nested(c)' = {}
  BY <1>2, Mover DEF Local, MayLock, Nested, Placed, Calls
<1>4. \/ op'[c] = "access" /\ at'[c] = "use"
      \/ op'[c] = "lookup" /\ at'[c] = "readdir"
      \/ op'[c] \in {"create", "unlink"} /\ at'[c] = "lock"
  BY DEF Call, LInv, TypeOK, Ops
<1>5. Local(c)' /\ Found(c)'
  BY <1>2, <1>3, <1>4, Mover DEF Local, Found, Placed, InDir
<1>6. LInv'
  BY <1>1, <1>2, <1>5, Assemble
<1> QED BY <1>2, <1>3, <1>6 DEF Kept

(* LInv is inductive, and only unlink's early returns keep a lock. *)
LEMMA StepLInv ==
  ASSUME LInv, NEW c \in Client, Step(c) \/ (\E o \in Ops, n \in Name : Call(c, o, n))
  PROVE  LInv' /\ (~UnlinkMissed(c) => Kept(c)' \subseteq Kept(c))
BY OuterStep, EnterStep, LeaveStep, MissedStep, OuterUnlockStep, CallStep DEF Step

(* Nor does a step touch the locks of others. *)
LEMMA HeldOfOthers ==
  ASSUME LInv, NEW c \in Client, NEW d \in Client, d # c,
         Step(c) \/ (\E o \in Ops, n \in Name : Call(c, o, n))
  PROVE  held'[d] = held[d]
<1>1. ASSUME NEW l, Acquire(c, l) PROVE held'[d] = held[d]
  BY <1>1 DEF Acquire, LInv, TypeOK
<1>2. ASSUME NEW set, unlock(c, set) PROVE held'[d] = held[d]
  BY <1>2 DEF unlock, LInv, TypeOK
<1>3. CASE \E o \in Ops, n \in Name : Call(c, o, n)
  BY <1>3 DEF Call, lockVars
<1>4. CASE LockParent(c) \/ LockFile(c) \/ Enter(c)
  BY <1>1, <1>4 DEF LockParent, LockFile, LockOuter, Enter, lockVars
<1>5. CASE Leave(c) \/ Done(c) \/ Undo(c)
  BY <1>2, <1>5 DEF Leave, Done, Undo
<1> QED BY <1>3, <1>4, <1>5
       DEF Step, Lookup, CreateSearch, UnlinkFound, UnlinkMissed, UnlinkIsFile, Write, UseFile

(* LInv holds at the start. *)
LEMMA InitLInv == Init => LInv /\ \A c \in Client : Kept(c) = {}
<1> SUFFICES ASSUME Init PROVE LInv /\ \A c \in Client : Kept(c) = {}
  OBVIOUS
<1>1. (CHOOSE n \in Name : TRUE) \in Name
  OBVIOUS
<1>2. TypeOK
  BY <1>1 DEF Init, TypeOK, Ops, Places
<1>3. \A c \in Client : Nested(c) = {} /\ held[c] = {} /\ lr[c] = {}
  BY DEF Init, Nested
<1>4. HeldExact
  BY DEF Init, HeldExact
<1>5. \A c \in Client : Local(c) /\ Found(c)
  BY <1>3 DEF Init, Local, Found, Placed, InDir
<1> QED BY <1>2, <1>3, <1>4, <1>5 DEF Init, LInv, Kept

(* A step that changes nothing keeps the invariant. *)
LEMMA StutterLInv ==
  ASSUME LInv, UNCHANGED vars
  PROVE  LInv' /\ \A c \in Client : Kept(c)' = Kept(c)
<1>1. /\ owner' = owner /\ held' = held /\ failed' = failed /\ files' = files /\ op' = op
      /\ name' = name /\ at' = at /\ lr' = lr /\ inner' = inner
  BY DEF vars, lockVars, opVars
<1>2. TypeOK' /\ HeldExact' /\ failed' = {}
  BY <1>1 DEF LInv, TypeOK, HeldExact
<1>3. \A c \in Client : Nested(c)' = Nested(c) /\ MayLock(c)' = MayLock(c)
  BY <1>1 DEF Nested, Target, MayLock
<1>4. \A c \in Client : Local(c)' /\ Found(c)'
  BY <1>1, <1>3 DEF LInv, Local, Found, Placed, InDir
<1> QED BY <1>1, <1>2, <1>3, <1>4 DEF LInv, Kept

(* The invariant holds of every behaviour. *)
THEOREM Invariant == Spec => []LInv
<1>1. Init => LInv
  BY InitLInv
<1>2. LInv /\ [Next]_vars => LInv'
  BY StepLInv, StutterLInv DEF Next
<1> QED BY <1>1, <1>2, PTL DEF Spec

(* The VERIFY of unlock() never fails: create and unlink call operations that lock
   the same extent, and every unlock(), nested or not, on every path out, meets a
   lock that its client has. *)
THEOREM VerifyNeverFails == Spec => []VerifyHolds
<1>1. LInv => VerifyHolds
  BY DEF LInv, VerifyHolds
<1> QED BY <1>1, Invariant, PTL

(* What lookup found is still so when create or unlink writes the directory. *)
THEOREM LookupStandsHolds == Spec => []LookupStands
<1>1. LInv => LookupStands
  BY DEF LInv, Found, LookupStands
<1> QED BY <1>1, Invariant, PTL

(* A client that is inside of a file's lock waits for nothing, and one that waits
   for the directory is inside of nothing. *)
LEMMA WaitsInOrder ==
  ASSUME LInv, NEW c \in Client, NEW l \in Locks, Waits(c, l)
  PROVE  held[c] \subseteq {Dir} /\ l \notin held[c]
<1>1. op[c] # "none" /\ inner[c] = "out" /\ owner[l] # c
  BY DEF Waits
<1>2. l \notin held[c]
  BY <1>1 DEF LInv, HeldExact
<1>3. held[c] \subseteq lr[c] \cup {Dir} /\ lr[c] \subseteq MayLock(c) /\ Placed(c)
      /\ (InDir(c) => Dir \in held[c]) /\ lr[c] \subseteq held[c]
  BY <1>1, Mover DEF Local, Nested
<1>4. CASE at[c] \in {"lock", "file", "use", "readdir"}
  BY <1>2, <1>3, <1>4, Mover DEF MayLock
<1>5. CASE at[c] = "write"
  <2>1. op[c] \in {"create", "unlink"} /\ l = Dir
    BY <1>1, <1>3, <1>5, Mover DEF Placed, Ops, Waits, Target, Calls
  <2> QED BY <1>2, <1>3, <1>5, <2>1 DEF InDir
<1>6. CASE at[c] = "isfile"
  <2>1. l = name[c] /\ op[c] = "unlink"
    BY <1>1, <1>3, <1>6, Mover DEF Placed, Ops, Waits, Target, Calls
  <2>2. lr[c] \subseteq {Dir, name[c]} /\ name[c] \notin lr[c]
    BY <1>2, <1>3, <1>6, <2>1 DEF MayLock
  <2> QED BY <1>2, <1>3, <2>2
<1> QED BY <1>2, <1>4, <1>5, <1>6 DEF Waits, Calls

(* No clients wait in a circle of parents and files, however many they are. *)
THEOREM NoCircleHolds == Spec => []NoCircle
<1>1. LInv => NoCircle
  <2> SUFFICES ASSUME LInv, NEW group \in (SUBSET Client) \ {{}}
               PROVE  \E c \in group : \A l \in Locks : Waits(c, l) => owner[l] \notin group
    BY DEF NoCircle
  <2> SUFFICES ASSUME \A c \in group : \E l \in Locks : Waits(c, l) /\ owner[l] \in group
               PROVE  FALSE
    OBVIOUS
  <2>1. \A c \in group : held[c] \subseteq {Dir}
    BY WaitsInOrder
  <2>2. ASSUME NEW c \in group PROVE \E d \in group : Dir \in held[d]
    <3>1. PICK l \in Locks : Waits(c, l) /\ owner[l] \in group
      OBVIOUS
    <3>2. l \in held[owner[l]]
      BY <3>1 DEF LInv, HeldExact
    <3> QED BY <2>1, <3>1, <3>2
  <2>3. PICK d \in group : Dir \in held[d]
    BY <2>2
  <2>4. PICK l \in Locks : Waits(d, l) /\ owner[l] \in group
    BY <2>3
  <2>5. l \in held[owner[l]] /\ l \notin held[d]
    BY <2>4, WaitsInOrder DEF LInv, HeldExact
  <2> QED BY <2>1, <2>3, <2>4, <2>5
<1> QED BY <1>1, Invariant, PTL

(* Between two requests a client has no lock of a file: whatever path a request
   takes, it gives back what it locked, but for the directory's lock. *)
THEOREM OnlyDirKept ==
  Spec => [](\A c \in Client : op[c] = "none" => held[c] \subseteq {Dir})
<1>1. LInv => \A c \in Client : op[c] = "none" => held[c] \subseteq {Dir}
  <2> SUFFICES ASSUME LInv, NEW c \in Client, op[c] = "none" PROVE held[c] \subseteq {Dir}
    OBVIOUS
  <2> QED BY Mover DEF Local, Placed, Nested, MayLock, Calls
<1> QED BY <1>1, Invariant, PTL

(* The two early returns of unlink, for a lookup that fails and for a name that is
   gone, are the only steps that keep a lock: without them every lock() has its
   unlock(), on every other path, whatever fails. *)
THEOREM KeptByMissedOnly ==
  Init /\ [][Next /\ \A c \in Client : ~UnlinkMissed(c)]_vars => []NothingHeldAtRest
<1> DEFINE Nothing == \A c \in Client : Kept(c) = {}
           Without == Next /\ \A c \in Client : ~UnlinkMissed(c)
           All == LInv /\ Nothing
<1>1. Init => All
  BY InitLInv
<1>2. All /\ [Without]_vars => All'
  <2>1. ASSUME All, Without PROVE All'
    <3>1. PICK c \in Client : Step(c) \/ \E o \in Ops, n \in Name : Call(c, o, n)
      BY <2>1 DEF Next
    <3>2. LInv' /\ Kept(c)' \subseteq Kept(c)
      BY <2>1, <3>1, StepLInv
    <3>3. ASSUME NEW d \in Client, d # c PROVE Kept(d)' = {}
      <4>1. /\ op'[d] = op[d] /\ at'[d] = at[d] /\ name'[d] = name[d]
            /\ lr'[d] = lr[d] /\ inner'[d] = inner[d]
        BY <2>1, <3>1, <3>3, OthersKeep DEF Others
      <4>2. held'[d] = held[d]
        BY <2>1, <3>1, <3>3, HeldOfOthers
      <4> QED BY <2>1, <4>1, <4>2 DEF Kept, Nested, Target
    <3> QED BY <2>1, <3>2, <3>3
  <2>2. ASSUME All, UNCHANGED vars PROVE All'
    BY <2>2, StutterLInv
  <2> QED BY <2>1, <2>2
<1>3. All => NothingHeldAtRest
  <2> SUFFICES ASSUME All, NEW c \in Client, op[c] = "none" PROVE held[c] = {}
    BY DEF NothingHeldAtRest
  <2>1. lr[c] = {} /\ Nested(c) = {}
    BY Mover DEF Local, Placed, Nested, MayLock, Calls
  <2> QED BY <2>1 DEF Kept
<1> QED BY <1>1, <1>2, <1>3, PTL
=============================================================================

----------------------------- MODULE ExtentCache -----------------------------
(***************************************************************************)
(* YFS clients, the extent server and the locks: a client uses an extent   *)
(* while it holds the lock of that number, keeps the lock cached after an  *)
(* operation (LockCache) and, when it is revoked, flushes the extent       *)
(* before the lock goes back.  FUSE calls a client one operation at a      *)
(* time, so an operation on an extent whose lock the client has is one     *)
(* step: nothing else touches that extent meanwhile.                       *)
(* Extent 1 is the root directory, its buffer the extents linked in it.    *)
(***************************************************************************)
EXTENDS ExtentClient

CONSTANT Kinds       \* what create is called with: files, directories

ASSUME KindsAssumption == Kinds \subseteq {"dir", "file"}

VARIABLES store,     \* the extent server: type and content of every inode
          owner,     \* the client that has the lock of an extent
          flushing,  \* what a revoked client is writing back
          mounted,   \* the clients whose yfs_client is constructed
          step,      \* what is next in the create, lookup or unlink of a client
          target,    \* the extent it creates or has found
          opened,    \* the extents FUSE knows at a client, from lookup or create
          nwrites,   \* numbers the writes
          truth,     \* the content the operations done so far have made
          mixed      \* extents handed out while a buffer of them was dirty

lockVars == <<owner, flushing>>
fuseVars == <<mounted, step, target, opened>>
ghostVars == <<truth, mixed>>
vars == <<cacheVars, store, lockVars, fuseVars, nwrites, ghostVars>>

Root == 1
Nobody == "nobody"

ASSUME ClientAssumption == Nobody \notin Client

Free == [type |-> "none", buf |-> {}]

TypeOK ==
  /\ cacheTypeOK
  /\ store \in [Ext -> [type : Kind, buf : Buffer]]
  /\ owner \in [Ext -> Client \cup {Nobody}]
  /\ IsMap(flushing, {{}} \cup {{x} : x \in Entries})
  /\ mounted \subseteq Client
  /\ step \in [Client -> {"idle", "link", "getattr", "unlink"}]
  /\ target \in [Client -> Ext]
  /\ opened \in [Client -> SUBSET Ext]
  /\ nwrites \in 0 .. MaxWrites
  /\ truth \in [Ext -> Buffer]
  /\ mixed \subseteq Ext

(* The server starts with the root inode and no client. *)
Init ==
  /\ cacheInit
  /\ store = [e \in Ext |-> IF e = Root THEN [Free EXCEPT !.type = "dir"] ELSE Free]
  /\ owner = [e \in Ext |-> Nobody]
  /\ flushing = <<>>
  /\ mounted = {}
  /\ step = [c \in Client |-> "idle"]
  /\ target = [c \in Client |-> Root]
  /\ opened = [c \in Client |-> {Root}]
  /\ nwrites = 0
  /\ truth = [e \in Ext |-> {}]
  /\ mixed = {}

Held(c, e) == owner[e] = c /\ e \notin DOMAIN flushing
Linked == truth[Root]

(* Client c is at the start of an operation on e, and has its lock.  FUSE  *)
(* keeps the number of an extent it knows; nothing tells it of an unlink.  *)
Ready(c, e) == c \in mounted /\ step[c] = "idle" /\ Held(c, e)
Usable(c, e) == Ready(c, e) /\ e \in opened[c]

Value(c, e) == GetValue(c, e, store[e])
AttrSeen(c, e) == GetAttrValue(c, e, store[e])
-----------------------------------------------------------------------------
(* lock(): the lock client gets a lock that nobody caches. *)
Lock(c, e) ==
  /\ \/ step[c] = "idle" /\ e = Root
     \/ step[c] = "idle" /\ c \in mounted /\ e \in opened[c]
     \/ step[c] \in {"getattr", "unlink"} /\ e = target[c]
  /\ owner[e] = Nobody
  /\ owner' = [owner EXCEPT ![e] = c]
  /\ UNCHANGED <<cacheVars, store, flushing, fuseVars, nwrites, ghostVars>>

(* yfs_client's constructor writes an empty root directory. *)
Mount(c) ==
  /\ c \notin mounted
  /\ Held(c, Root)
  /\ put(c, Root, {})
  /\ mounted' = mounted \cup {c}
  /\ truth' = [truth EXCEPT ![Root] = {}]
  /\ UNCHANGED <<store, lockVars, step, target, opened, nwrites, mixed>>

(* read; readdir of the root. *)
Read(c, e) ==
  /\ Usable(c, e)
  /\ get(c, e, store[e])
  /\ UNCHANGED <<acache, store, lockVars, fuseVars, nwrites, ghostVars>>

(* lookup in the root finds e: FUSE's, which is followed by a getattr of   *)
(* what was found, or the one of unlink, which has locked the root before. *)
Find(c, e, next) ==
  /\ Ready(c, Root)
  /\ e \in Value(c, Root)
  /\ get(c, Root, store[Root])
  /\ step' = [step EXCEPT ![c] = next]
  /\ target' = [target EXCEPT ![c] = e]
  /\ UNCHANGED <<acache, store, lockVars, mounted, opened, nwrites, ghostVars>>

(* isfile, getfile and getdir: for FUSE's getattr, and at the end of its   *)
(* lookup and of its create.                                               *)
GetAttr(c, e) ==
  /\ \/ Usable(c, e)
     \/ step[c] = "getattr" /\ e = target[c] /\ Held(c, e)
  /\ getattr(c, e, store[e])
  /\ opened' = [opened EXCEPT ![c] = @ \cup {e}]
  /\ step' = [step EXCEPT ![c] = "idle"]
  /\ UNCHANGED <<bcache, store, lockVars, mounted, target, nwrites, ghostVars>>

(* write: get, replace, put.  FUSE neither writes nor resizes the root. *)
Write(c, e) ==
  /\ Usable(c, e) /\ e # Root
  /\ nwrites < MaxWrites
  /\ nwrites' = nwrites + 1
  /\ put(c, e, Value(c, e) \cup {nwrites'})
  /\ truth' = [truth EXCEPT ![e] = @ \cup {nwrites'}]
  /\ UNCHANGED <<store, lockVars, fuseVars, mixed>>

(* setattr of the size, here to 0. *)
SetAttr(c, e) ==
  /\ Usable(c, e) /\ e # Root
  /\ put(c, e, {})
  /\ truth' = [truth EXCEPT ![e] = {}]
  /\ UNCHANGED <<store, lockVars, fuseVars, nwrites, mixed>>

(* A client has yet to write back what it put into e. *)
Pending(e) ==
  \/ \E c \in Client : Cached(bcache, c, e) /\ bcache[c][e].dirty
  \/ e \in DOMAIN flushing /\ \E entry \in flushing[e] : entry.dirty

(* create up to its write of the parent: the server allocates the first    *)
(* free inode, and a directory is initialised in the cache, without the    *)
(* lock of the new extent.                                                 *)
Create(c, type) ==
  /\ Ready(c, Root)
  /\ \E e \in Ext :
       /\ store[e].type = "none" /\ \A x \in 1 .. e - 1 : store[x].type # "none"
       /\ store' = [store EXCEPT ![e] = [Free EXCEPT !.type = type]]
       /\ target' = [target EXCEPT ![c] = e]
       /\ step' = [step EXCEPT ![c] = "link"]
       /\ truth' = [truth EXCEPT ![e] = {}]
       /\ mixed' = IF Pending(e) THEN mixed \cup {e} ELSE mixed \ {e}
       /\ IF type = "dir" THEN put(c, e, {}) ELSE UNCHANGED cacheVars
  /\ UNCHANGED <<lockVars, mounted, opened, nwrites>>

(* No inode is free: the server answers 0, and OK.  create puts the parent *)
(* with an entry for 0, which readdir passes over as one that is unused.   *)
CreateFull(c) ==
  /\ Ready(c, Root)
  /\ \A e \in Ext : store[e].type # "none"
  /\ put(c, Root, Value(c, Root))
  /\ UNCHANGED <<store, lockVars, fuseVars, nwrites, ghostVars>>

(* The rest of create: the parent gets its entry and is unlocked. *)
Link(c) ==
  /\ step[c] = "link"
  /\ put(c, Root, Value(c, Root) \cup {target[c]})
  /\ truth' = [truth EXCEPT ![Root] = @ \cup {target[c]}]
  /\ step' = [step EXCEPT ![c] = "getattr"]
  /\ UNCHANGED <<store, lockVars, mounted, target, opened, nwrites, mixed>>

(* unlink of a file: under both locks the parent loses the entry and the   *)
(* extent is marked deleted.                                               *)
UnlinkKeepMutant(c, e) ==
  /\ step[c] = "unlink" /\ e = target[c] /\ Held(c, e)
  /\ AttrSeen(c, e).type = "file"
  /\ getattr(c, e, store[e])
  /\ bcache' = [bcache EXCEPT ![c] = Assign(@, e, RemoveEntry(c, e))]
  /\ step' = [step EXCEPT ![c] = "idle"]
  /\ UNCHANGED <<store, lockVars, mounted, target, opened, nwrites, ghostVars>>

Unlink(c, e) ==
  /\ step[c] = "unlink" /\ e = target[c] /\ Held(c, e)
  /\ AttrSeen(c, e).type = "file"
  /\ LET root == Value(c, Root) \ {e}
     IN  /\ acache' = [acache EXCEPT ![c] =
              Assign(Assign(@, e, AttrSeen(c, e)), Root, PutAttr(c, Root, root))]
         /\ bcache' = [bcache EXCEPT ![c] =
              Assign(Assign(@, e, RemoveEntry(c, e)), Root, PutEntry(c, Root, root))]
  /\ truth' = [truth EXCEPT ![Root] = @ \ {e}]
  /\ step' = [step EXCEPT ![c] = "idle"]
  /\ UNCHANGED <<store, lockVars, mounted, target, opened, nwrites, mixed>>

(* What isfile does not call a file is refused. *)
UnlinkRefused(c, e) ==
  /\ step[c] = "unlink" /\ e = target[c] /\ Held(c, e)
  /\ AttrSeen(c, e).type # "file"
  /\ getattr(c, e, store[e])
  /\ step' = [step EXCEPT ![c] = "idle"]
  /\ UNCHANGED <<bcache, store, lockVars, mounted, target, opened, nwrites, ghostVars>>

(* Another client wants the lock: dorelease calls flush, which empties the *)
(* cache ...  The parent stays locked while create or unlink runs.         *)
RevokeEarlyMutant(c, e) ==
  /\ Held(c, e)
  /\ e = Root => step[c] \notin {"link", "unlink"}
  /\ flush(c, e)
  /\ owner' = [owner EXCEPT ![e] = Nobody]
  /\ flushing' = Assign(flushing, e, Copied(c, e))
  /\ UNCHANGED <<store, fuseVars, nwrites, ghostVars>>

Revoke(c, e) ==
  /\ Held(c, e)
  /\ e = Root => step[c] \notin {"link", "unlink"}
  /\ flush(c, e)
  /\ flushing' = Assign(flushing, e, Copied(c, e))
  /\ UNCHANGED <<store, owner, fuseVars, nwrites, ghostVars>>

(* The server after put or remove; put ignores an inode that is free. *)
Stored(e, entry) ==
  IF entry.deleted THEN Free
  ELSE IF entry.dirty /\ store[e].type # "none"
  THEN [store[e] EXCEPT !.buf = entry.buf]
  ELSE store[e]

(* ... and calls the server, after which the lock is given back. *)
WriteBack(e) ==
  /\ e \in DOMAIN flushing
  /\ store' = [x \in Ext |-> IF x = e /\ flushing[e] # {}
                             THEN Stored(e, CHOOSE y \in flushing[e] : TRUE)
                             ELSE store[x]]
  /\ flushing' = Erase(flushing, e)
  /\ owner' = [owner EXCEPT ![e] = Nobody]
  /\ UNCHANGED <<cacheVars, fuseVars, nwrites, ghostVars>>

Use(c, e) ==
  \/ Lock(c, e) \/ Read(c, e) \/ GetAttr(c, e) \/ Write(c, e) \/ SetAttr(c, e)
  \/ Unlink(c, e) \/ UnlinkRefused(c, e) \/ Revoke(c, e)
  \/ \E next \in {"getattr", "unlink"} : Find(c, e, next)

Next ==
  \/ \E c \in Client : Mount(c) \/ Link(c) \/ CreateFull(c)
  \/ \E c \in Client, type \in Kinds : Create(c, type)
  \/ \E c \in Client, e \in Ext : Use(c, e)
  \/ \E e \in Ext : WriteBack(e)

Spec == Init /\ [][Next]_vars
-----------------------------------------------------------------------------
(* What a client that has the lock of a linked extent reads is what the    *)
(* operations of all clients have made of it since its create, whichever   *)
(* caches they went through (get, put, flush, the release order of         *)
(* lock_client_cache), handles that outlived an unlink included: unless    *)
(* create handed the inode out, as it does without the inode's lock, while *)
(* a client still had to write back what it put there before.              *)
ReadFresh ==
  \A c \in Client, e \in ({Root} \cup Linked) \ mixed :
    Held(c, e) => Value(c, e) = truth[e]

(* When nobody has the lock of such an extent, the server has its latest   *)
(* content: dorelease's flush comes before the release RPC.                *)
ServerCurrent ==
  \A e \in ({Root} \cup Linked) \ mixed : owner[e] = Nobody => store[e].buf = truth[e]

(* A buffer that differs from the server's exists only at the client that  *)
(* has the lock, so no two clients ever write back different versions.     *)
DirtyOnlyAtOwner ==
  \A c \in Client, e \in Ext :
    Cached(bcache, c, e) /\ (bcache[c][e].dirty \/ bcache[c][e].deleted)
      => owner[e] = c

(* A linked extent has an inode: a delayed remove (flush of a deleted      *)
(* entry) never frees an inode that create has handed out again.           *)
LinkedAllocated == \A e \in Linked : store[e].type # "none"

(* "Create an empty extent for ino": ReadFresh without its exception; the  *)
(* file that create makes has nothing of the one that had its inode.       *)
CreatedEmpty ==
  \A c \in Client, e \in {Root} \cup Linked : Held(c, e) => Value(c, e) = truth[e]

(* "correct values for file sizes": the size getfile reports to the client *)
(* that has the lock is the file's, with the exception of ReadFresh.       *)
SizeFresh ==
  \A c \in Client, e \in Linked \ mixed :
    Held(c, e) /\ store[e].type = "file" => AttrSeen(c, e).size = Cardinality(truth[e])

(* A linked file is a file to isfile, at every client that has its lock.   *)
FileIsFile ==
  \A c \in Client, e \in Linked :
    Held(c, e) /\ store[e].type = "file" => AttrSeen(c, e).type = "file"

(* "Do *not* allow unlinking of a directory": what unlink takes out of the *)
(* root, which a mount alone may empty otherwise, is no directory.         *)
DirectoriesStay ==
  [][mounted' = mounted => \A e \in Linked \ Linked' : store[e].type # "dir"]_vars
-----------------------------------------------------------------------------
(* A revoked lock is flushed and given back.  Nobody has to ask for a lock *)
(* or call an operation.                                                   *)
FairSpec == Spec /\ \A e \in Ext : WF_vars(WriteBack(e))

(* "Free the file's extent": an extent that was unlinked is freed by the   *)
(* extent server.                                                          *)
UnlinkFrees ==
  \A e \in Ext :
    (\E c \in Client : Cached(bcache, c, e) /\ bcache[c][e].deleted)
      ~> (store[e].type = "none")
=============================================================================

---------------------------- MODULE ExtentClient -----------------------------
(***************************************************************************)
(* extent_client: the write-back cache every YFS client keeps of the       *)
(* extents it has read or written.  A buffer is the set of the things      *)
(* written into it: the entries of a directory, or the writes a file has   *)
(* taken; its size is their number.  Each operator is one method; an RPC   *)
(* it makes is answered by the argument srv, what the server holds.        *)
(***************************************************************************)
EXTENDS Naturals, FiniteSets

CONSTANTS Client,       \* the yfs_client processes
          MaxExt,       \* the number of extents (inodes)
          MaxWrites     \* writes to files, each with a number of its own

ASSUME BoundsAssumption == MaxExt \in Nat \ {0} /\ MaxWrites \in Nat

VARIABLES acache,       \* attributes per client and extent
          bcache        \* buffers per client and extent

cacheVars == <<acache, bcache>>

Ext == 1 .. MaxExt                  \* the extent ids, inode numbers
Buffer == SUBSET (Ext \cup 1 .. MaxWrites)
Kind == {"none", "dir", "file"}    \* the type 0, T_DIR and T_FILE

Attr(type, buf) == [type |-> type, size |-> Cardinality(buf)]

Entries == [buf : Buffer, dirty : BOOLEAN, deleted : BOOLEAN]
Attrs == [type : Kind, size : Nat]

(* A std::map from extent ids: a function on the ids it has. *)
IsMap(map, S) == DOMAIN map \subseteq Ext /\ \A e \in DOMAIN map : map[e] \in S
Assign(map, e, v) == [x \in DOMAIN map \cup {e} |-> IF x = e THEN v ELSE map[x]]
Erase(map, e) == [x \in DOMAIN map \ {e} |-> map[x]]
Cached(cache, c, e) == e \in DOMAIN cache[c]

cacheTypeOK ==
  /\ DOMAIN acache = Client /\ \A c \in Client : IsMap(acache[c], Attrs)
  /\ DOMAIN bcache = Client /\ \A c \in Client : IsMap(bcache[c], Entries)

cacheInit ==
  /\ acache = [c \in Client |-> <<>>]
  /\ bcache = [c \in Client |-> <<>>]

(* What bcache[eid] and acache[eid] denote: the entry, made if missing. *)
Entry(c, e) ==
  IF Cached(bcache, c, e) THEN bcache[c][e]
  ELSE [buf |-> {}, dirty |-> FALSE, deleted |-> FALSE]

AttrEntry(c, e) ==
  IF Cached(acache, c, e) THEN acache[c][e] ELSE [type |-> "none", size |-> 0]

-----------------------------------------------------------------------------
(* What get and getattr return, from the cache or from the server. *)
GetValue(c, e, srv) ==
  IF Cached(bcache, c, e) THEN bcache[c][e].buf ELSE srv.buf

GetAttrValue(c, e, srv) ==
  IF Cached(acache, c, e) THEN acache[c][e] ELSE Attr(srv.type, srv.buf)

get(c, e, srv) ==
  bcache' = [bcache EXCEPT ![c] =
               IF Cached(bcache, c, e) THEN @
               ELSE Assign(@, e, [buf |-> srv.buf, dirty |-> FALSE, deleted |-> FALSE])]

getattr(c, e, srv) ==
  acache' = [acache EXCEPT ![c] = Assign(@, e, GetAttrValue(c, e, srv))]

(* The entries that put leaves for e. *)
PutAttr(c, e, buf) == [AttrEntry(c, e) EXCEPT !.size = Cardinality(buf)]
PutEntry(c, e, buf) == [Entry(c, e) EXCEPT !.buf = buf, !.dirty = TRUE]

put(c, e, buf) ==
  /\ acache' = [acache EXCEPT ![c] = Assign(@, e, PutAttr(c, e, buf))]
  /\ bcache' = [bcache EXCEPT ![c] = Assign(@, e, PutEntry(c, e, buf))]

(* The entry that remove leaves for e. *)
RemoveEntry(c, e) == [Entry(c, e) EXCEPT !.deleted = TRUE]

(* flush up to its RPC: the entry is copied and both maps forget it; an    *)
(* extent without a buffer keeps its attributes.                           *)
flushKeepMutant(c, e) ==
  acache' = [acache EXCEPT ![c] = Erase(@, e)] /\ UNCHANGED bcache

flush(c, e) ==
  IF Cached(bcache, c, e)
  THEN /\ acache' = [acache EXCEPT ![c] = Erase(@, e)]
       /\ bcache' = [bcache EXCEPT ![c] = Erase(@, e)]
  ELSE UNCHANGED cacheVars

(* What flush copied: the entry, if there was one. *)
Copied(c, e) == {bcache[c][x] : x \in DOMAIN bcache[c] \cap {e}}
=============================================================================

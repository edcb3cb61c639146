------------------------- MODULE ExtentCacheProofs -------------------------
(***************************************************************************)
(* Proofs about ExtentCache for any number of clients, extents and writes, *)
(* when create makes files.  (The content of a new directory is put into   *)
(* the cache without its lock, and then the theorems do not hold.)         *)
(***************************************************************************)
EXTENDS ExtentCache, TLAPS

USE BoundsAssumption, KindsAssumption, ClientAssumption

(* The leaves are for the SMT solver, unless they cite Zenon. *)
USE SMTT(30)

(* The types of what the properties depend on. *)
Types ==
  /\ DOMAIN bcache = Client /\ bcache = [c \in Client |-> bcache[c]]
  /\ \A c \in Client : IsMap(bcache[c], Entries)
  /\ store \in [Ext -> [type : Kind, buf : Buffer]]
  /\ owner \in [Ext -> Client \cup {Nobody}]
  /\ IsMap(flushing, {{}} \cup {{x} : x \in Entries})
  /\ step \in [Client -> {"idle", "link", "getattr", "unlink"}]
  /\ target \in [Client -> Ext]
  /\ nwrites \in 0 .. MaxWrites
  /\ truth \in [Ext -> Buffer]

(* What is on its way to the server for e. *)
Sent(e) == IF e \in DOMAIN flushing THEN flushing[e] ELSE {}

(* The copies of e: the cached ones and the one under way. *)
Copies(e) == {bcache[c][e] : c \in {d \in Client : Cached(bcache, d, e)}} \cup Sent(e)

(* The root, what is linked, and what a create is about to link. *)
Live(e) == e = Root \/ e \in Linked \/ \E c \in Client : step[c] = "link" /\ target[c] = e

(* e has an inode, and no copy of it would free that. *)
Present(e) == store[e].type # "none" /\ \A x \in Copies(e) : ~x.deleted

(* e is what the operations have made of it, in its copies or else at the server. *)
Current(e) ==
  /\ \A x \in Copies(e) : x.buf = truth[e] /\ (x.dirty \/ store[e].buf = truth[e])
  /\ Copies(e) = {} => store[e].buf = truth[e]

(* A free inode is empty; handles that outlived it leave copies, which are dirty
   or empty too. *)
Vacant(e) ==
  /\ store[e].buf = {}
  /\ \A x \in Copies(e) : ~x.deleted /\ (x.dirty \/ x.buf = {})

Sound(e) ==
  /\ Live(e) => Present(e) /\ (e \in mixed \/ Current(e))
  /\ store[e].type = "none" => Vacant(e)

(* Where the clients are: create and unlink have the root's lock. *)
Steps ==
  \A c \in Client :
    /\ c \notin mounted => step[c] = "idle"
    /\ step[c] \in {"link", "unlink"} => Held(c, Root)
    /\ step[c] = "link" => target[c] \notin {Root} \cup Linked
    /\ step[c] = "unlink" => target[c] \in Linked

(* The inductive invariant. *)
Frame ==
  /\ Types
  /\ \A c \in Client, e \in Ext : Cached(bcache, c, e) => Held(c, e)
  /\ \A e \in DOMAIN flushing : owner[e] \in Client
  /\ Linked \subseteq Ext \ {Root}
  /\ Root \notin mixed
  /\ Steps

CInv == Frame /\ \A e \in Ext : Sound(e)

-----------------------------------------------------------------------------
(* The root is an extent. *)
LEMMA RootExt == Root \in Ext
BY DEF Root, Ext

(* The cache is as before but that client c has v for e. *)
Became(c, e, v) ==
  /\ DOMAIN bcache' = Client /\ bcache' = [d \in Client |-> bcache'[d]]
  /\ \A d \in Client : IsMap(bcache'[d], Entries)
  /\ \A d \in Client, x \in Ext : Cached(bcache', d, x) <=> Cached(bcache, d, x) \/ (d = c /\ x = e)
  /\ bcache'[c][e] = v
  /\ \A d \in Client, x \in Ext : Cached(bcache, d, x) /\ ~(d = c /\ x = e)
                                    => bcache'[d][x] = bcache[d][x]

(* An assignment to an entry of the map does that. *)
LEMMA Assigned ==
  ASSUME Types, NEW c \in Client, NEW e \in Ext, NEW v \in Entries,
         bcache' = [bcache EXCEPT ![c] = Assign(@, e, v)]
  PROVE  Became(c, e, v)
<1>1. bcache' = [d \in Client |-> IF d = c THEN Assign(bcache[c], e, v) ELSE bcache[d]]
  BY DEF Types
<1>2. \A d \in Client : bcache'[d] = IF d = c THEN Assign(bcache[c], e, v) ELSE bcache[d]
  BY <1>1
<1>3. /\ DOMAIN Assign(bcache[c], e, v) = DOMAIN bcache[c] \cup {e}
      /\ \A x \in DOMAIN bcache[c] \cup {e} :
           Assign(bcache[c], e, v)[x] = IF x = e THEN v ELSE bcache[c][x]
  BY DEF Assign
<1>4. \A d \in Client : IsMap(bcache'[d], Entries)
  BY <1>2, <1>3 DEF Types, IsMap
<1> QED BY <1>1, <1>2, <1>3, <1>4, Zenon DEF Cached, Became

(* A client that has the lock has the only copy, if there is one. *)
LEMMA Alone ==
  ASSUME Frame, NEW c \in Client, NEW e \in Ext, Held(c, e)
  PROVE  /\ Sent(e) = {} /\ \A d \in Client : Cached(bcache, d, e) => d = c
         /\ Copies(e) = IF Cached(bcache, c, e) THEN {bcache[c][e]} ELSE {}
<1>1. Sent(e) = {}
  BY DEF Held, Sent
<1>2. \A d \in Client : Cached(bcache, d, e) => d = c
  BY DEF Frame, Held
<1> QED BY <1>1, <1>2 DEF Copies

(* A step leaves x alone: in its copies and at the server. *)
SameAt(x) ==
  /\ Copies(x)' = Copies(x)
  /\ store'[x] = store[x] /\ truth'[x] = truth[x]
  /\ x \in mixed' <=> x \in mixed

(* Such a step keeps what is known of x. *)
LEMMA SoundKeeps ==
  ASSUME NEW x, SameAt(x), Sound(x), Live(x)' => Live(x)
  PROVE  Sound(x)'
BY DEF SameAt, Sound, Present, Current, Vacant

(* A new entry at the client that has the lock is the only copy of that extent. *)
LEMMA BecameKeeps ==
  ASSUME Frame, NEW c \in Client, NEW e \in Ext, Held(c, e), NEW v, Became(c, e, v),
         UNCHANGED lockVars
  PROVE  /\ Copies(e)' = {v} /\ \A x \in Ext \ {e} : Copies(x)' = Copies(x)
         /\ \A d \in Client, x \in Ext : Cached(bcache', d, x) => Held(d, x)'
<1>1. \A x \in Ext : Sent(x)' = Sent(x)
  BY DEF Sent, lockVars
<1>2. Copies(e)' = {v}
  <2>1. Sent(e)' = {} /\ \A d \in Client : Cached(bcache', d, e) <=> d = c
    BY <1>1, Alone, Zenon DEF Became
  <2> QED BY <2>1 DEF Copies, Became
<1>3. \A x \in Ext \ {e} : Copies(x)' = Copies(x)
  <2> SUFFICES ASSUME NEW x \in Ext \ {e} PROVE Copies(x)' = Copies(x)
    OBVIOUS
  <2>1. \A d \in Client : /\ Cached(bcache', d, x) <=> Cached(bcache, d, x)
                          /\ Cached(bcache, d, x) => bcache'[d][x] = bcache[d][x]
    BY DEF Became
  <2>2. {d \in Client : Cached(bcache', d, x)} = {d \in Client : Cached(bcache, d, x)}
    BY <2>1
  <2>3. {bcache'[d][x] : d \in {y \in Client : Cached(bcache', y, x)}}
          = {bcache[d][x] : d \in {y \in Client : Cached(bcache, y, x)}}
    BY <2>1, <2>2
  <2> QED BY <1>1, <2>3 DEF Copies
<1>4. \A d \in Client, x \in Ext : Held(d, x)' <=> Held(d, x)
  BY DEF Held, lockVars
<1>5. \A d \in Client, x \in Ext : Cached(bcache, d, x) => Held(d, x)
  BY DEF Frame
<1> QED BY <1>2, <1>3, <1>4, <1>5 DEF Became

(* The invariant from its parts: E has the extents that a step changes. *)
LEMMA Assemble ==
  ASSUME CInv, Frame', NEW E \in SUBSET Ext,
         \A x \in Ext \ E : SameAt(x) /\ (Live(x)' => Live(x)),
         \A x \in E : Sound(x)'
  PROVE  CInv'
<1>1. \A x \in Ext : Sound(x)'
  <2> SUFFICES ASSUME NEW x \in Ext, x \notin E PROVE Sound(x)'
    OBVIOUS
  <2>1. Sound(x) /\ SameAt(x) /\ (Live(x)' => Live(x))
    BY DEF CInv
  <2> QED BY <2>1, SoundKeeps
<1> QED BY <1>1 DEF CInv

(* What a client with the lock sees of e is what the operations made of it. *)
LEMMA ValueCurrent ==
  ASSUME CInv, NEW c \in Client, NEW e \in Ext, Held(c, e), Live(e), e \notin mixed
  PROVE  Value(c, e) = truth[e]
<1>1. Current(e) /\ Frame
  BY DEF CInv, Sound
<1>2. Copies(e) = IF Cached(bcache, c, e) THEN {bcache[c][e]} ELSE {}
  BY <1>1, Alone
<1> QED BY <1>1, <1>2 DEF Current, Value, GetValue

(* The root is one of these extents. *)
LEMMA RootValue ==
  ASSUME CInv, NEW c \in Client, Held(c, Root)
  PROVE  /\ Value(c, Root) = Linked /\ Value(c, Root) = truth[Root]
         /\ truth[Root] \in Buffer /\ Linked \subseteq Ext \ {Root}
<1>1. Live(Root) /\ Root \notin mixed /\ Frame
  BY DEF Live, CInv, Frame
<1>2. Value(c, Root) = truth[Root]
  BY <1>1, RootExt, ValueCurrent
<1> QED BY <1>1, <1>2, RootExt DEF Linked, Frame, Types

(* Create and unlink have the root's lock, so there is one of them. *)
LEMMA OneInside ==
  ASSUME Frame, NEW c \in Client, Held(c, Root)
  PROVE  \A d \in Client : step[d] \in {"link", "unlink"} => d = c
BY DEF Frame, Steps, Held

(* What a step that puts b into e, and makes t of it, does to the extents. *)
LEMMA PutKeeps ==
  ASSUME CInv, NEW c \in Client, NEW e \in Ext, Held(c, e), NEW b \in Buffer, NEW t \in Buffer,
         put(c, e, b), truth' = [truth EXCEPT ![e] = t], UNCHANGED <<store, lockVars, mixed>>,
         Live(e)' => Live(e), Live(e) /\ e \notin mixed => b = t
  PROVE  /\ DOMAIN bcache' = Client /\ bcache' = [d \in Client |-> bcache'[d]]
         /\ \A d \in Client : IsMap(bcache'[d], Entries)
         /\ truth' \in [Ext -> Buffer] /\ truth'[e] = t /\ \A x \in Ext \ {e} : truth'[x] = truth[x]
         /\ \A d \in Client, x \in Ext : Cached(bcache', d, x) => Held(d, x)'
         /\ Sound(e)'
         /\ \A x \in Ext \ {e} : SameAt(x)
<1>1. Frame /\ Types /\ Sound(e)
  BY DEF CInv, Frame
<1>2. PICK v \in Entries : v = PutEntry(c, e, b) /\ v.buf = b /\ v.dirty /\ v.deleted = Entry(c, e).deleted
  <2>1. Entry(c, e) \in Entries
    BY <1>1 DEF Types, Entry, IsMap, Cached, Entries, Buffer
  <2>2. /\ PutEntry(c, e, b) \in Entries /\ PutEntry(c, e, b).buf = b
        /\ PutEntry(c, e, b).dirty /\ PutEntry(c, e, b).deleted = Entry(c, e).deleted
    BY <2>1, Zenon DEF PutEntry, Entries
  <2> QED BY <2>2
<1>3. Became(c, e, v)
  <2>1. bcache' = [bcache EXCEPT ![c] = Assign(@, e, v)]
    BY <1>2 DEF put
  <2> QED BY <1>1, <2>1, Assigned, Zenon
<1>4. truth' \in [Ext -> Buffer] /\ truth'[e] = t /\ \A x \in Ext \ {e} : truth'[x] = truth[x]
  BY <1>1 DEF Types
<1>5. /\ Copies(e)' = {v} /\ \A x \in Ext \ {e} : Copies(x)' = Copies(x)
      /\ \A d \in Client, x \in Ext : Cached(bcache', d, x) => Held(d, x)'
  BY <1>1, <1>3, BecameKeeps, Zenon
<1>6. (\A x \in Copies(e) : ~x.deleted) => ~v.deleted
  <2>1. Cached(bcache, c, e) => bcache[c][e] \in Copies(e)
    BY DEF Copies
  <2> QED BY <1>2, <2>1 DEF Entry
<1>7. Sound(e)'
  <2>1. Live(e)' => Present(e)' /\ (e \in mixed' \/ Current(e)')
    <3> SUFFICES ASSUME Live(e)' PROVE Present(e)' /\ (e \in mixed' \/ Current(e)')
      OBVIOUS
    <3>1. Live(e) /\ Present(e)
      BY <1>1 DEF Sound
    <3>2. Present(e)'
      BY <1>5, <1>6, <3>1 DEF Present
    <3>3. e \in mixed' \/ Current(e)'
      BY <1>2, <1>4, <1>5, <3>1 DEF Current
    <3> QED BY <3>2, <3>3
  <2>2. store'[e].type = "none" => Vacant(e)'
    <3> SUFFICES ASSUME store'[e].type = "none" PROVE Vacant(e)'
      OBVIOUS
    <3>1. Vacant(e)
      BY <1>1 DEF Sound
    <3> QED BY <1>2, <1>5, <1>6, <3>1 DEF Vacant
  <2> QED BY <2>1, <2>2 DEF Sound
<1>8. \A x \in Ext \ {e} : SameAt(x)
  BY <1>4, <1>5 DEF SameAt
<1> QED BY <1>3, <1>4, <1>5, <1>7, <1>8 DEF Became

(* A step that changes no copy, nor the server, and puts no client inside. *)
LEMMA QuietStep ==
  ASSUME CInv,
         step' = step \/ \E c \in Client : step' = [step EXCEPT ![c] = "idle"],
         UNCHANGED <<bcache, store, lockVars, target, mounted, nwrites, ghostVars>>
  PROVE  CInv'
<1>1. Frame /\ Types
  BY DEF CInv, Frame
<1>2. UNCHANGED <<bcache, store, owner, flushing, target, mounted, nwrites, truth, mixed>>
  BY DEF lockVars, ghostVars
<1>3. step' \in [Client -> {"idle", "link", "getattr", "unlink"}]
      /\ \A d \in Client : step'[d] = step[d] \/ step'[d] = "idle"
  BY <1>1 DEF Types
<1>4. Types'
  BY <1>1, <1>2, <1>3 DEF Types
<1>5. \A d \in Client, x \in Ext : Held(d, x)' <=> Held(d, x)
  BY <1>2 DEF Held
<1>6. Linked' = Linked
  BY <1>2 DEF Linked, Root
<1>7. Steps'
  BY <1>1, <1>2, <1>3, <1>5, <1>6, RootExt DEF Frame, Steps, Root
<1>8. Frame'
  BY <1>1, <1>2, <1>4, <1>5, <1>6, <1>7 DEF Frame, Root
<1>9. \A x \in Ext : SameAt(x)
  BY <1>2 DEF SameAt, Copies, Sent
<1>10. \A x \in Ext : Live(x)' => Live(x)
  BY <1>2, <1>3, <1>6 DEF Live, Root
<1>11. PICK E \in SUBSET Ext : E = {}
  BY Zenon
<1> QED BY <1>8, <1>9, <1>10, <1>11, Assemble

(* GetAttr changes attributes alone. *)
LEMMA GetAttrStep == ASSUME CInv, NEW c \in Client, NEW e \in Ext, GetAttr(c, e) PROVE CInv'
BY ZenonT(30), QuietStep DEF GetAttr

(* So does an unlink that is refused. *)
LEMMA UnlinkRefusedStep ==
  ASSUME CInv, NEW c \in Client, NEW e \in Ext, UnlinkRefused(c, e) PROVE CInv'
BY ZenonT(30), QuietStep DEF UnlinkRefused

(* Lock preserves the invariant: nobody had the lock. *)
LEMMA LockStep == ASSUME CInv, NEW c \in Client, NEW e \in Ext, Lock(c, e) PROVE CInv'
<1>1. /\ owner[e] = Nobody /\ owner' = [owner EXCEPT ![e] = c]
      /\ UNCHANGED <<bcache, store, flushing, step, target, mounted, nwrites, truth, mixed>>
  BY DEF Lock, cacheVars, fuseVars, ghostVars
<1>2. Frame /\ Types
  BY DEF CInv, Frame
<1>3. Types'
  BY <1>1, <1>2 DEF Types
<1>4. \A d \in Client, x \in Ext : Held(d, x) => Held(d, x)'
  BY <1>1, <1>2 DEF Types, Held
<1>5. \A d \in Client, x \in Ext : Cached(bcache', d, x) => Held(d, x)'
  BY <1>1, <1>2, <1>4 DEF Frame
<1>6. \A x \in DOMAIN flushing' : owner'[x] \in Client
  BY <1>1, <1>2 DEF Frame, Types, IsMap
<1>7. Linked' = Linked
  BY <1>1 DEF Linked, Root
<1>8. Steps'
  BY <1>1, <1>2, <1>4, <1>7, RootExt DEF Frame, Steps, Root
<1>9. Frame'
  BY <1>1, <1>2, <1>3, <1>5, <1>6, <1>7, <1>8 DEF Frame, Root
<1>10. \A x \in Ext : SameAt(x) /\ (Live(x)' => Live(x))
  BY <1>1, <1>7 DEF SameAt, Copies, Sent, Live, Root
<1>11. PICK E \in SUBSET Ext : E = {}
  BY Zenon
<1> QED BY <1>9, <1>10, <1>11, Assemble

(* The frame after a step that keeps the locks: what is left to show of it. *)
LEMMA FrameFrom ==
  ASSUME CInv, DOMAIN bcache' = Client /\ bcache' = [d \in Client |-> bcache'[d]],
         \A d \in Client : IsMap(bcache'[d], Entries),
         store' \in [Ext -> [type : Kind, buf : Buffer]],
         truth' \in [Ext -> Buffer], nwrites' \in 0 .. MaxWrites,
         step' \in [Client -> {"idle", "link", "getattr", "unlink"}], target' \in [Client -> Ext],
         \A d \in Client, x \in Ext : Cached(bcache', d, x) => Held(d, x)',
         UNCHANGED lockVars, Linked' \subseteq Ext \ {Root}, Root \notin mixed', Steps'
  PROVE  Frame'
<1>1. Frame /\ Types
  BY DEF CInv, Frame
<1>2. owner' = owner /\ flushing' = flushing
  BY DEF lockVars
<1>3. Types'
  BY <1>1, <1>2 DEF Types
<1> QED BY <1>1, <1>2, <1>3 DEF Frame, Root

(* get caches what the server has, if nothing is cached. *)
LEMMA GetKeeps ==
  ASSUME CInv, NEW c \in Client, NEW e \in Ext, Held(c, e), get(c, e, store[e]),
         UNCHANGED <<store, lockVars, ghostVars>>, Live(e)' => Live(e)
  PROVE  /\ DOMAIN bcache' = Client /\ bcache' = [d \in Client |-> bcache'[d]]
         /\ \A d \in Client : IsMap(bcache'[d], Entries)
         /\ \A d \in Client, x \in Ext : Cached(bcache', d, x) => Held(d, x)'
         /\ Sound(e)'
         /\ \A x \in Ext \ {e} : SameAt(x)
<1>1. Frame /\ Types /\ Sound(e)
  BY DEF CInv, Frame
<1>2. UNCHANGED <<store, owner, flushing, truth, mixed>>
  BY DEF lockVars, ghostVars
<1>3. CASE Cached(bcache, c, e)
  <2>1. bcache' = bcache
    BY <1>1, <1>3 DEF get, Types
  <2>2. \A x \in Ext : SameAt(x)
    BY <1>2, <2>1 DEF SameAt, Copies, Sent
  <2>3. Sound(e)'
    BY <1>1, <2>2, SoundKeeps
  <2>4. \A d \in Client, x \in Ext : Cached(bcache', d, x) => Held(d, x)'
    BY <1>1, <1>2, <2>1 DEF Frame, Held
  <2> QED BY <1>1, <2>1, <2>2, <2>3, <2>4 DEF Types
<1>4. CASE ~Cached(bcache, c, e)
  <2> DEFINE r == [buf |-> store[e].buf, dirty |-> FALSE, deleted |-> FALSE]
  <2>1. r \in Entries
    BY <1>1 DEF Types, Entries
  <2>2. PICK v \in Entries : v = r
    BY <2>1
  <2>3. bcache' = [bcache EXCEPT ![c] = Assign(@, e, v)]
    BY <1>4, <2>2 DEF get
  <2>4. Became(c, e, v)
    BY <1>1, <2>3, Assigned, Zenon
  <2>5. /\ Copies(e)' = {v} /\ \A x \in Ext \ {e} : Copies(x)' = Copies(x)
        /\ \A d \in Client, x \in Ext : Cached(bcache', d, x) => Held(d, x)'
    BY <1>1, <2>4, BecameKeeps, Zenon
  <2>6. Copies(e) = {}
    BY <1>1, <1>4, Alone
  <2>7. v.buf = store[e].buf /\ ~v.deleted
    BY <2>2
  <2>8. Sound(e)'
    <3>1. Live(e)' => Present(e)' /\ (e \in mixed' \/ Current(e)')
      BY <1>1, <1>2, <2>5, <2>6, <2>7 DEF Sound, Present, Current
    <3>2. store'[e].type = "none" => Vacant(e)'
      BY <1>1, <1>2, <2>5, <2>7 DEF Sound, Vacant
    <3> QED BY <3>1, <3>2 DEF Sound
  <2>9. \A x \in Ext \ {e} : SameAt(x)
    BY <1>2, <2>5 DEF SameAt
  <2> QED BY <2>4, <2>5, <2>8, <2>9 DEF Became
<1> QED BY <1>3, <1>4

(* Read changes no more than that. *)
LEMMA ReadStep == ASSUME CInv, NEW c \in Client, NEW e \in Ext, Read(c, e) PROVE CInv'
<1>1. /\ Held(c, e) /\ get(c, e, store[e])
      /\ UNCHANGED <<store, lockVars, step, target, mounted, nwrites, ghostVars>>
  BY DEF Read, Usable, Ready, fuseVars
<1>2. UNCHANGED <<store, owner, flushing, step, target, mounted, nwrites, truth, mixed>>
  BY <1>1 DEF lockVars, ghostVars
<1>3. Frame /\ Types
  BY DEF CInv, Frame
<1>4. Linked' = Linked /\ \A x \in Ext : Live(x)' <=> Live(x)
  BY <1>2 DEF Linked, Live, Root
<1>5. /\ DOMAIN bcache' = Client /\ bcache' = [d \in Client |-> bcache'[d]]
      /\ \A d \in Client : IsMap(bcache'[d], Entries)
      /\ \A d \in Client, x \in Ext : Cached(bcache', d, x) => Held(d, x)'
      /\ Sound(e)'
      /\ \A x \in Ext \ {e} : SameAt(x)
  BY <1>1, <1>4, GetKeeps
<1>6. Steps'
  BY <1>2, <1>3, <1>4 DEF Frame, Steps, Held, Root
<1>7. Frame'
  BY <1>1, <1>2, <1>3, <1>4, <1>5, <1>6, FrameFrom DEF Frame, Types
<1>8. PICK E \in SUBSET Ext : E = {e}
  BY Zenon
<1> QED BY <1>4, <1>5, <1>7, <1>8, Assemble

(* Find reads the root; what unlink finds there is linked while it has the lock. *)
LEMMA FindStep ==
  ASSUME CInv, NEW c \in Client, NEW e \in Ext, NEW next \in {"getattr", "unlink"}, Find(c, e, next)
  PROVE  CInv'
<1>1. /\ c \in mounted /\ step[c] = "idle" /\ Held(c, Root) /\ e \in Value(c, Root)
      /\ get(c, Root, store[Root])
      /\ step' = [step EXCEPT ![c] = next] /\ target' = [target EXCEPT ![c] = e]
      /\ UNCHANGED <<store, lockVars, mounted, nwrites, ghostVars>>
  BY DEF Find, Ready
<1>2. UNCHANGED <<store, owner, flushing, mounted, nwrites, truth, mixed>>
  BY <1>1 DEF lockVars, ghostVars
<1>3. Frame /\ Types
  BY DEF CInv, Frame
<1>4. /\ step' \in [Client -> {"idle", "link", "getattr", "unlink"}] /\ step'[c] = next
      /\ \A d \in Client \ {c} : step'[d] = step[d] /\ target'[d] = target[d]
      /\ target' \in [Client -> Ext] /\ target'[c] = e
  BY <1>1, <1>3 DEF Types
<1>5. Linked' = Linked /\ e \in Linked
  BY <1>1, <1>2, RootValue DEF Linked, Root
<1>6. \A x \in Ext : Live(x)' => Live(x)
  BY <1>4, <1>5 DEF Live, Root
<1>7. /\ DOMAIN bcache' = Client /\ bcache' = [d \in Client |-> bcache'[d]]
      /\ \A d \in Client : IsMap(bcache'[d], Entries)
      /\ \A d \in Client, x \in Ext : Cached(bcache', d, x) => Held(d, x)'
      /\ Sound(Root)'
      /\ \A x \in Ext \ {Root} : SameAt(x)
  <2>1. PICK x \in Ext : x = Root
    BY RootExt
  <2>2. Sound(x)' /\ \A y \in Ext \ {x} : SameAt(y)
    BY <1>1, <1>6, <2>1, GetKeeps
  <2>3. Sound(Root)'
    BY <2>1, <2>2
  <2> QED BY <1>1, <1>6, <2>1, <2>2, <2>3, GetKeeps
<1>8. Steps'
  <2>1. \A d \in Client : Held(d, Root)' <=> Held(d, Root)
    BY <1>2 DEF Held, Root
  <2> SUFFICES ASSUME NEW d \in Client
               PROVE  /\ d \notin mounted' => step'[d] = "idle"
                      /\ step'[d] \in {"link", "unlink"} => Held(d, Root)'
                      /\ step'[d] = "link" => target'[d] \notin {Root} \cup Linked'
                      /\ step'[d] = "unlink" => target'[d] \in Linked'
    BY DEF Steps, Root
  <2>2. CASE d = c
    BY <1>1, <1>2, <1>4, <1>5, <2>1, <2>2
  <2>3. CASE d # c
    BY <1>2, <1>3, <1>4, <1>5, <2>1, <2>3 DEF Frame, Steps
  <2> QED BY <2>2, <2>3
<1>9. Frame'
  BY <1>1, <1>2, <1>3, <1>4, <1>5, <1>7, <1>8, FrameFrom DEF Frame, Types
<1>10. PICK E \in SUBSET Ext : E = {Root}
  BY RootExt, Zenon
<1> QED BY <1>6, <1>7, <1>9, <1>10, Assemble

(* A put into a file, through whatever handle, under its lock. *)
LEMMA FilePut ==
  ASSUME CInv, NEW c \in Client, NEW e \in Ext, e # Root, Held(c, e), NEW b \in Buffer, NEW t \in Buffer,
         put(c, e, b), truth' = [truth EXCEPT ![e] = t], nwrites' \in 0 .. MaxWrites,
         UNCHANGED <<store, lockVars, fuseVars, mixed>>,
         Live(e) /\ e \notin mixed => b = t
  PROVE  CInv'
<1>1. UNCHANGED <<store, lockVars, mixed>> /\ UNCHANGED <<owner, flushing, step, target, mounted>>
  BY DEF lockVars, fuseVars
<1>2. Frame /\ Types
  BY DEF CInv, Frame
<1>3. Linked' = Linked
  BY <1>2, RootExt DEF Linked, Types, Root
<1>4. \A x \in Ext : Live(x)' <=> Live(x)
  BY <1>1, <1>3 DEF Live, Root
<1>5. /\ DOMAIN bcache' = Client /\ bcache' = [d \in Client |-> bcache'[d]]
      /\ \A d \in Client : IsMap(bcache'[d], Entries)
      /\ truth' \in [Ext -> Buffer]
      /\ \A d \in Client, x \in Ext : Cached(bcache', d, x) => Held(d, x)'
      /\ Sound(e)'
      /\ \A x \in Ext \ {e} : SameAt(x)
  BY ZenonT(30), <1>1, <1>4, PutKeeps
<1>6. Steps'
  BY <1>1, <1>2, <1>3 DEF Frame, Steps, Held, Root
<1>7. Frame'
  BY <1>1, <1>2, <1>3, <1>5, <1>6, FrameFrom DEF Frame, Types
<1>8. PICK E \in SUBSET Ext : E = {e}
  BY Zenon
<1> QED BY <1>4, <1>5, <1>7, <1>8, Assemble

(* SetAttr empties a file. *)
LEMMA SetAttrStep == ASSUME CInv, NEW c \in Client, NEW e \in Ext, SetAttr(c, e) PROVE CInv'
<1>1. PICK b \in Buffer : b = {}
  BY ZenonT(30) DEF Buffer
<1>2. /\ e # Root /\ Held(c, e) /\ put(c, e, b) /\ truth' = [truth EXCEPT ![e] = b]
      /\ UNCHANGED <<store, lockVars, fuseVars, mixed>> /\ nwrites' \in 0 .. MaxWrites
  BY <1>1 DEF SetAttr, Usable, Ready, CInv, Frame, Types
<1> QED BY ZenonT(30), <1>2, FilePut

(* Write adds to what the client sees. *)
LEMMA WriteStep == ASSUME CInv, NEW c \in Client, NEW e \in Ext, Write(c, e) PROVE CInv'
<1>1. /\ e # Root /\ Held(c, e) /\ nwrites' = nwrites + 1 /\ nwrites < MaxWrites
      /\ put(c, e, Value(c, e) \cup {nwrites'}) /\ truth' = [truth EXCEPT ![e] = @ \cup {nwrites'}]
      /\ UNCHANGED <<store, lockVars, fuseVars, mixed>>
  BY DEF Write, Usable, Ready
<1>2. Types
  BY DEF CInv, Frame
<1>3. nwrites' \in 0 .. MaxWrites /\ nwrites' \in 1 .. MaxWrites
  BY <1>1, <1>2 DEF Types
<1>4. truth[e] \in Buffer /\ Value(c, e) \in Buffer
  BY <1>2 DEF Types, Value, GetValue, IsMap, Cached, Entries
<1>5. PICK b \in Buffer : b = Value(c, e) \cup {nwrites'}
  BY <1>3, <1>4, Zenon DEF Buffer
<1>6. PICK t \in Buffer : t = truth[e] \cup {nwrites'}
  BY <1>3, <1>4, Zenon DEF Buffer
<1>7. put(c, e, b) /\ truth' = [truth EXCEPT ![e] = t]
  BY <1>1, <1>5, <1>6
<1>8. Live(e) /\ e \notin mixed => b = t
  BY <1>1, <1>5, <1>6, ValueCurrent
<1> QED BY ZenonT(30), <1>1, <1>3, <1>7, <1>8, FilePut

(* A put into the root, whose entries it makes b. *)
LEMMA RootPut ==
  ASSUME CInv, NEW c \in Client, Held(c, Root), NEW b \in Buffer, b \subseteq Ext \ {Root},
         put(c, Root, b), truth' = [truth EXCEPT ![Root] = b],
         UNCHANGED <<store, lockVars, target, nwrites, mixed>>,
         step' \in [Client -> {"idle", "link", "getattr", "unlink"}],
         \A d \in Client : d \notin mounted' => step'[d] = "idle",
         \A d \in Client : step'[d] \notin {"link", "unlink"},
         \A x \in b \ Linked : Live(x)
  PROVE  CInv'
<1>1. UNCHANGED <<store, lockVars, mixed>> /\ UNCHANGED <<owner, flushing, target, nwrites>>
  BY DEF lockVars
<1>2. Frame /\ Types
  BY DEF CInv, Frame
<1>3. Linked' = b
  BY <1>2, RootExt DEF Linked, Types, Root
<1>4. \A x \in Ext : Live(x)' => Live(x)
  BY <1>1, <1>3 DEF Live, Root
<1>5. /\ DOMAIN bcache' = Client /\ bcache' = [d \in Client |-> bcache'[d]]
      /\ \A d \in Client : IsMap(bcache'[d], Entries)
      /\ truth' \in [Ext -> Buffer]
      /\ \A d \in Client, x \in Ext : Cached(bcache', d, x) => Held(d, x)'
      /\ Sound(Root)'
      /\ \A x \in Ext \ {Root} : SameAt(x)
  <2>1. PICK x \in Ext : x = Root
    BY RootExt
  <2>2. Sound(x)' /\ \A y \in Ext \ {x} : SameAt(y)
    BY ZenonT(30), <1>1, <1>4, <2>1, PutKeeps
  <2>3. Sound(Root)'
    BY <2>1, <2>2
  <2> QED BY ZenonT(30), <1>1, <1>4, <2>1, <2>2, <2>3, PutKeeps
<1>6. Steps'
  BY DEF Steps, Root
<1>7. Frame'
  BY <1>1, <1>2, <1>3, <1>5, <1>6, FrameFrom DEF Frame, Types
<1>8. PICK E \in SUBSET Ext : E = {Root}
  BY RootExt, Zenon
<1> QED BY <1>4, <1>5, <1>7, <1>8, Assemble

(* Mount empties the root, under its lock. *)
LEMMA MountStep == ASSUME CInv, NEW c \in Client, Mount(c) PROVE CInv'
<1>1. PICK b \in Buffer : b = {}
  BY ZenonT(30) DEF Buffer
<1>2. /\ Held(c, Root) /\ put(c, Root, b) /\ truth' = [truth EXCEPT ![Root] = b]
      /\ c \notin mounted /\ mounted' = mounted \cup {c} /\ step' = step
      /\ UNCHANGED <<store, lockVars, target, nwrites, mixed>>
  BY <1>1 DEF Mount
<1>3. Frame /\ Types
  BY DEF CInv, Frame
<1>4. step' \in [Client -> {"idle", "link", "getattr", "unlink"}]
      /\ \A d \in Client : d \notin mounted' => step'[d] = "idle"
  BY <1>2, <1>3 DEF Types, Frame, Steps
<1>5. \A d \in Client : step'[d] \notin {"link", "unlink"}
  BY <1>2, <1>3, OneInside DEF Frame, Steps
<1> QED BY <1>1, <1>2, <1>4, <1>5, RootPut, Zenon

(* With no inode left, create puts the root as it is. *)
LEMMA CreateFullStep == ASSUME CInv, NEW c \in Client, CreateFull(c) PROVE CInv'
<1>1. /\ step[c] = "idle" /\ Held(c, Root) /\ put(c, Root, Value(c, Root))
      /\ UNCHANGED <<store, lockVars, target, nwrites, mixed>>
      /\ UNCHANGED <<step, mounted, truth>>
  BY DEF CreateFull, Ready, fuseVars, ghostVars
<1>2. Frame /\ Types
  BY DEF CInv, Frame
<1>3. PICK b \in Buffer : b = Value(c, Root) /\ b = Linked /\ b = truth[Root] /\ b \subseteq Ext \ {Root}
  BY <1>1, RootValue
<1>4. put(c, Root, b) /\ truth' = [truth EXCEPT ![Root] = b]
  BY <1>1, <1>2, <1>3, RootExt DEF Types
<1>5. /\ step' \in [Client -> {"idle", "link", "getattr", "unlink"}]
      /\ \A d \in Client : d \notin mounted' => step'[d] = "idle"
      /\ \A d \in Client : step'[d] \notin {"link", "unlink"}
  BY <1>1, <1>2, OneInside DEF Types, Frame, Steps
<1> QED BY <1>1, <1>3, <1>4, <1>5, RootPut, Zenon

(* Link adds the extent that its create has allocated. *)
LEMMA LinkStep == ASSUME CInv, NEW c \in Client, Link(c) PROVE CInv'
<1>1. /\ step[c] = "link" /\ put(c, Root, Value(c, Root) \cup {target[c]})
      /\ truth' = [truth EXCEPT ![Root] = @ \cup {target[c]}]
      /\ step' = [step EXCEPT ![c] = "getattr"] /\ mounted' = mounted
      /\ UNCHANGED <<store, lockVars, target, nwrites, mixed>>
  BY DEF Link
<1>2. Frame /\ Types
  BY DEF CInv, Frame
<1>3. Held(c, Root) /\ target[c] \in Ext \ {Root} /\ Live(target[c])
  BY <1>1, <1>2 DEF Types, Frame, Steps, Live
<1>4. /\ Value(c, Root) = Linked /\ Value(c, Root) = truth[Root]
      /\ truth[Root] \in Buffer /\ Linked \subseteq Ext \ {Root}
  BY <1>3, RootValue
<1>5. PICK b \in Buffer : b = truth[Root] \cup {target[c]}
  BY <1>3, <1>4, Zenon DEF Buffer
<1>6. put(c, Root, b) /\ truth' = [truth EXCEPT ![Root] = b]
  BY <1>1, <1>4, <1>5
<1>7. b \subseteq Ext \ {Root} /\ \A x \in b \ Linked : Live(x)
  BY <1>3, <1>4, <1>5
<1>8. /\ step' \in [Client -> {"idle", "link", "getattr", "unlink"}]
      /\ \A d \in Client : d \notin mounted' => step'[d] = "idle"
  BY <1>1, <1>2 DEF Types, Frame, Steps
<1>9. \A d \in Client : step'[d] \notin {"link", "unlink"}
  BY <1>1, <1>2, <1>3, OneInside DEF Types
<1> QED BY <1>1, <1>3, <1>6, <1>7, <1>8, <1>9, RootPut, Zenon

(* Create takes a free inode.  Unless a copy of its former life is dirty, the copies
   that are left are as empty as the new extent. *)
LEMMA CreateStep ==
  ASSUME CInv, NEW c \in Client, Create(c, "file") PROVE CInv'
<1>1. PICK e \in Ext :
        /\ store[e].type = "none"
        /\ store' = [store EXCEPT ![e] = [Free EXCEPT !.type = "file"]]
        /\ target' = [target EXCEPT ![c] = e] /\ step' = [step EXCEPT ![c] = "link"]
        /\ truth' = [truth EXCEPT ![e] = {}]
        /\ mixed' = IF Pending(e) THEN mixed \cup {e} ELSE mixed \ {e}
        /\ UNCHANGED cacheVars
  BY ZenonT(30) DEF Create
<1>2. /\ c \in mounted /\ step[c] = "idle" /\ Held(c, Root)
      /\ UNCHANGED <<bcache, owner, flushing, mounted, nwrites>> /\ UNCHANGED lockVars
  BY <1>1 DEF Create, Ready, cacheVars, lockVars
<1>3. Frame /\ Types /\ Sound(e) /\ Sound(Root)
  BY RootExt DEF CInv, Frame
<1>4. e # Root /\ e \notin Linked /\ Vacant(e)
  BY <1>1, <1>3 DEF Sound, Live, Present
<1>5. /\ store'[e] = [Free EXCEPT !.type = "file"] /\ truth'[e] = {}
      /\ store' \in [Ext -> [type : Kind, buf : Buffer]] /\ truth' \in [Ext -> Buffer]
      /\ \A x \in Ext \ {e} : store'[x] = store[x] /\ truth'[x] = truth[x]
  <2>1. [Free EXCEPT !.type = "file"] \in [type : Kind, buf : Buffer] /\ {} \in Buffer
    BY DEF Free, Kind, Buffer
  <2> QED BY <1>1, <1>3, <2>1 DEF Types
<1>6. /\ step' \in [Client -> {"idle", "link", "getattr", "unlink"}] /\ step'[c] = "link"
      /\ \A d \in Client \ {c} : step'[d] = step[d] /\ target'[d] = target[d]
      /\ target' \in [Client -> Ext] /\ target'[c] = e
  BY <1>1, <1>3 DEF Types
<1>7. Linked' = Linked
  BY <1>4, <1>5, RootExt DEF Linked, Root
<1>8. \A x \in Ext : Copies(x)' = Copies(x)
  BY <1>2 DEF Copies, Sent
<1>9. \A x \in Ext \ {e} : SameAt(x) /\ (Live(x)' => Live(x))
  <2>1. \A x \in Ext \ {e} : SameAt(x)
    BY <1>1, <1>5, <1>8 DEF SameAt
  <2>2. \A x \in Ext \ {e} : Live(x)' => Live(x)
    BY <1>6, <1>7 DEF Live, Root
  <2> QED BY <2>1, <2>2
<1>10. Pending(e) \/ \A x \in Copies(e) : ~x.dirty
  BY DEF Pending, Copies, Sent
<1>11. store'[e].type # "none" /\ store'[e].buf = {}
  BY <1>5 DEF Free
<1>12. Sound(e)'
  <2>1. Present(e)'
    BY <1>4, <1>8, <1>11 DEF Present, Vacant
  <2>2. e \in mixed' \/ Current(e)'
    BY <1>1, <1>4, <1>5, <1>8, <1>10, <1>11 DEF Current, Vacant
  <2> QED BY <1>11, <2>1, <2>2 DEF Sound
<1>13. \A d \in Client, x \in Ext : Held(d, x)' <=> Held(d, x)
  BY <1>2 DEF Held
<1>14. \A d \in Client, x \in Ext : Cached(bcache', d, x) => Held(d, x)'
  BY <1>2, <1>3, <1>13 DEF Frame
<1>15. Steps'
  <2> SUFFICES ASSUME NEW d \in Client
               PROVE  /\ d \notin mounted' => step'[d] = "idle"
                      /\ step'[d] \in {"link", "unlink"} => Held(d, Root)'
                      /\ step'[d] = "link" => target'[d] \notin {Root} \cup Linked'
                      /\ step'[d] = "unlink" => target'[d] \in Linked'
    BY DEF Steps, Root
  <2>1. CASE d = c
    BY <1>2, <1>4, <1>6, <1>7, <1>13, <2>1, RootExt
  <2>2. CASE d # c
    BY <1>2, <1>3, <1>6, <1>7, <1>13, <2>2, RootExt DEF Frame, Steps
  <2> QED BY <2>1, <2>2
<1>16. Root \notin mixed'
  BY <1>1, <1>3, <1>4 DEF Frame
<1>17. nwrites' \in 0 .. MaxWrites /\ Linked' \subseteq Ext \ {Root}
  BY <1>2, <1>3, <1>7 DEF Frame, Types
<1>18. /\ DOMAIN bcache' = Client /\ bcache' = [d \in Client |-> bcache'[d]]
       /\ \A d \in Client : IsMap(bcache'[d], Entries)
  BY <1>2, <1>3 DEF Types
<1>19. Frame'
  BY <1>2, <1>5, <1>6, <1>14, <1>15, <1>16, <1>17, <1>18, FrameFrom
<1>20. PICK E \in SUBSET Ext : E = {e}
  BY Zenon
<1> QED BY <1>9, <1>12, <1>19, <1>20, Assemble

(* Unlink has both locks; what it marks deleted is linked no more. *)
LEMMA UnlinkStep == ASSUME CInv, NEW c \in Client, NEW e \in Ext, Unlink(c, e) PROVE CInv'
<1> DEFINE root == Value(c, Root) \ {e}
           both == Assign(Assign(bcache[c], e, RemoveEntry(c, e)), Root, PutEntry(c, Root, root))
<1>1. /\ step[c] = "unlink" /\ e = target[c] /\ Held(c, e)
      /\ bcache' = [bcache EXCEPT ![c] = both]
      /\ truth' = [truth EXCEPT ![Root] = @ \ {e}]
      /\ step' = [step EXCEPT ![c] = "idle"]
      /\ UNCHANGED <<store, owner, flushing, mounted, target, nwrites, mixed>>
      /\ UNCHANGED lockVars
  BY DEF Unlink, lockVars
<1>2. Frame /\ Types /\ Sound(e) /\ Sound(Root)
  BY RootExt DEF CInv, Frame
<1>3. Held(c, Root) /\ e \in Linked
  BY <1>1, <1>2 DEF Frame, Steps
<1>4. e # Root /\ Present(e) /\ Present(Root)
  BY <1>2, <1>3 DEF Frame, Sound, Live
<1>5. /\ root = truth[Root] \ {e} /\ root \in Buffer
      /\ Linked \subseteq Ext \ {Root} /\ Linked = truth[Root]
  BY <1>3, RootValue DEF Buffer
<1>6. /\ truth' \in [Ext -> Buffer] /\ truth'[Root] = root
      /\ \A x \in Ext \ {Root} : truth'[x] = truth[x]
  BY <1>1, <1>2, <1>5, RootExt, Zenon DEF Types
<1>7. RemoveEntry(c, e) \in Entries
  <2>1. Entry(c, e) \in Entries
    BY <1>2 DEF Types, Entry, IsMap, Cached, Entries, Buffer
  <2> QED BY <2>1, Zenon DEF RemoveEntry, Entries
<1>8. /\ PutEntry(c, Root, root) \in Entries /\ PutEntry(c, Root, root).buf = root
      /\ PutEntry(c, Root, root).dirty /\ ~PutEntry(c, Root, root).deleted
  <2>1. Entry(c, Root) \in Entries
    BY <1>2, RootExt DEF Types, Entry, IsMap, Cached, Entries, Buffer
  <2>2. ~Entry(c, Root).deleted
    <3>1. Cached(bcache, c, Root) => bcache[c][Root] \in Copies(Root)
      BY DEF Copies
    <3> QED BY <1>4, <3>1 DEF Present, Entry
  <2> HIDE DEF root
  <2> QED BY <1>5, <2>1, <2>2, Zenon DEF PutEntry, Entries
<1>9. /\ DOMAIN both = DOMAIN bcache[c] \cup {e, Root}
      /\ both[Root] = PutEntry(c, Root, root) /\ both[e] = RemoveEntry(c, e)
      /\ \A x \in DOMAIN bcache[c] \ {e, Root} : both[x] = bcache[c][x]
  BY <1>4 DEF Assign
<1> HIDE DEF both, root
<1>10. /\ DOMAIN bcache' = Client /\ bcache' = [d \in Client |-> bcache'[d]]
       /\ \A d \in Client : bcache'[d] = IF d = c THEN both ELSE bcache[d]
  BY <1>1, <1>2 DEF Types
<1>11. \A d \in Client : IsMap(bcache'[d], Entries)
  <2>1. IsMap(both, Entries)
    BY <1>2, <1>7, <1>8, <1>9, RootExt DEF Types, IsMap
  <2> QED BY <1>2, <1>10, <2>1 DEF Types
<1>12. \A d \in Client, x \in Ext :
         /\ Cached(bcache', d, x) <=> Cached(bcache, d, x) \/ (d = c /\ x \in {e, Root})
         /\ x \notin {e, Root} /\ Cached(bcache, d, x) => bcache'[d][x] = bcache[d][x]
  BY <1>9, <1>10 DEF Cached
<1>13. \A d \in Client, x \in Ext : Held(d, x)' <=> Held(d, x)
  BY <1>1 DEF Held
<1>14. \A d \in Client, x \in Ext : Cached(bcache', d, x) => Held(d, x)'
  <2>1. \A d \in Client, x \in Ext : Cached(bcache, d, x) => Held(d, x)
    BY <1>2 DEF Frame
  <2> QED BY <1>1, <1>3, <1>12, <1>13, <2>1
<1>15. Linked' = Linked \ {e} /\ Linked' \subseteq Ext \ {Root}
  BY <1>5, <1>6 DEF Linked, Root
<1>16. step' \in [Client -> {"idle", "link", "getattr", "unlink"}]
       /\ \A d \in Client : step'[d] = IF d = c THEN "idle" ELSE step[d]
  BY <1>1, <1>2 DEF Types
<1>17. \A d \in Client : step'[d] \notin {"link", "unlink"}
  BY <1>2, <1>3, <1>16, OneInside
<1>18. Steps'
  <2>1. \A d \in Client : d \notin mounted => step[d] = "idle"
    BY <1>2 DEF Frame, Steps
  <2>2. \A d \in Client : d \notin mounted' => step'[d] = "idle"
    BY ZenonT(30), <1>1, <1>16, <2>1
  <2> QED BY ZenonT(30), <1>17, <2>2 DEF Steps
<1>19. Frame'
  <2>1. target' \in [Client -> Ext] /\ nwrites' \in 0 .. MaxWrites /\ Root \notin mixed'
        /\ store' \in [Ext -> [type : Kind, buf : Buffer]]
    BY <1>1, <1>2 DEF Frame, Types
  <2> QED BY ZenonT(30), <1>1, <1>6, <1>10, <1>11, <1>14, <1>15, <1>16, <1>18, <2>1, FrameFrom
<1>20. \A x \in Ext \ {e, Root} : SameAt(x) /\ (Live(x)' => Live(x))
  <2>1. \A x \in Ext \ {e, Root} : Copies(x)' = Copies(x)
    <3> SUFFICES ASSUME NEW x \in Ext \ {e, Root} PROVE Copies(x)' = Copies(x)
      OBVIOUS
    <3>1. \A d \in Client : /\ Cached(bcache', d, x) <=> Cached(bcache, d, x)
                            /\ Cached(bcache, d, x) => bcache'[d][x] = bcache[d][x]
      BY <1>12
    <3>2. {d \in Client : Cached(bcache', d, x)} = {d \in Client : Cached(bcache, d, x)}
      BY <3>1
    <3>3. {bcache'[d][x] : d \in {y \in Client : Cached(bcache', y, x)}}
            = {bcache[d][x] : d \in {y \in Client : Cached(bcache, y, x)}}
      BY <3>1, <3>2
    <3>4. Sent(x)' = Sent(x)
      BY <1>1 DEF Sent
    <3> QED BY <3>3, <3>4 DEF Copies
  <2>2. \A x \in Ext \ {e, Root} : SameAt(x)
    BY <1>1, <1>6, <2>1 DEF SameAt
  <2>3. \A x \in Ext \ {e, Root} : Live(x)' => Live(x)
    BY <1>15, <1>17 DEF Live, Root
  <2> QED BY <2>2, <2>3
<1>21. Sound(Root)'
  <2>1. Copies(Root)' = {PutEntry(c, Root, root)}
    <3>1. Sent(Root)' = {}
      BY <1>1, <1>3 DEF Sent, Held, Root
    <3>2. \A d \in Client : Cached(bcache', d, Root) <=> d = c
      BY <1>2, <1>3, <1>12, RootExt, Alone
    <3>3. bcache'[c][Root] = PutEntry(c, Root, root)
      BY <1>9, <1>10
    <3> QED BY <3>1, <3>2, <3>3 DEF Copies, Root
  <2>2. store'[Root].type # "none"
    BY <1>1, <1>4 DEF Present
  <2> QED BY <1>6, <1>8, <2>1, <2>2 DEF Sound, Present, Current, Root
<1>22. Sound(e)'
  <2>1. ~Live(e)'
    BY <1>4, <1>15, <1>17 DEF Live, Root
  <2>2. store'[e].type # "none"
    BY <1>1, <1>4 DEF Present
  <2> QED BY <2>1, <2>2 DEF Sound
<1>23. PICK E \in SUBSET Ext : E = {e, Root}
  BY RootExt, Zenon
<1>24. \A x \in E : Sound(x)'
  BY <1>21, <1>22, <1>23
<1> QED BY <1>19, <1>20, <1>23, <1>24, Assemble

(* Revoke moves the copy of its client, the only one, from the cache to the server call. *)
LEMMA RevokeStep == ASSUME CInv, NEW c \in Client, NEW e \in Ext, Revoke(c, e) PROVE CInv'
<1>1. /\ Held(c, e) /\ (e = Root => step[c] \notin {"link", "unlink"}) /\ flush(c, e)
      /\ flushing' = Assign(flushing, e, Copied(c, e))
      /\ UNCHANGED <<store, owner, step, target, mounted, nwrites, truth, mixed>>
  BY DEF Revoke, fuseVars, ghostVars
<1>2. Frame /\ Types
  BY DEF CInv, Frame
<1>3. /\ e \notin DOMAIN flushing /\ owner[e] = c
      /\ DOMAIN flushing' = DOMAIN flushing \cup {e} /\ flushing'[e] = Copied(c, e)
      /\ \A x \in DOMAIN flushing : flushing'[x] = flushing[x]
  BY <1>1 DEF Held, Assign
<1>4. Copied(c, e) = IF Cached(bcache, c, e) THEN {bcache[c][e]} ELSE {}
  BY DEF Copied, Cached
<1>5. /\ DOMAIN bcache' = Client /\ bcache' = [d \in Client |-> bcache'[d]]
      /\ \A d \in Client : IsMap(bcache'[d], Entries)
      /\ \A d \in Client, x \in Ext :
           /\ Cached(bcache', d, x) <=> Cached(bcache, d, x) /\ ~(d = c /\ x = e)
           /\ Cached(bcache', d, x) => bcache'[d][x] = bcache[d][x]
  <2>1. CASE Cached(bcache, c, e)
    <3>1. \A d \in Client : bcache'[d] = IF d = c THEN Erase(bcache[c], e) ELSE bcache[d]
      BY <1>1, <1>2, <2>1 DEF flush, Types
    <3>2. /\ DOMAIN Erase(bcache[c], e) = DOMAIN bcache[c] \ {e}
          /\ \A x \in DOMAIN bcache[c] \ {e} : Erase(bcache[c], e)[x] = bcache[c][x]
      BY DEF Erase
    <3>3. \A d \in Client : IsMap(bcache'[d], Entries)
      BY <1>2, <3>1, <3>2 DEF Types, IsMap
    <3>4. DOMAIN bcache' = Client /\ bcache' = [d \in Client |-> bcache'[d]]
      BY <1>1, <1>2, <2>1 DEF flush, Types
    <3> QED BY <3>1, <3>2, <3>3, <3>4 DEF Cached
  <2>2. CASE ~Cached(bcache, c, e)
    <3>1. bcache' = bcache
      BY <1>1, <2>2 DEF flush, cacheVars
    <3> QED BY <1>2, <2>2, <3>1 DEF Types
  <2> QED BY <2>1, <2>2
<1>6. Types'
  <2>1. Copied(c, e) \in {{}} \cup {{x} : x \in Entries}
    BY <1>2, <1>4 DEF Types, IsMap, Cached
  <2>2. IsMap(flushing', {{}} \cup {{x} : x \in Entries})
    BY <1>2, <1>3, <2>1, Zenon DEF Types, IsMap
  <2> QED BY <1>1, <1>2, <1>5, <2>2 DEF Types
<1>7. \A d \in Client, x \in Ext : x # e => (Held(d, x)' <=> Held(d, x))
  BY <1>1, <1>3 DEF Held
<1>8. \A d \in Client : Cached(bcache, d, e) => d = c
  BY <1>1, <1>2, Alone
<1>9. \A d \in Client, x \in Ext : Cached(bcache', d, x) => Held(d, x)'
  BY <1>2, <1>5, <1>7, <1>8 DEF Frame
<1>10. \A x \in DOMAIN flushing' : owner'[x] \in Client
  BY <1>1, <1>2, <1>3 DEF Frame
<1>11. Linked' = Linked
  BY <1>1 DEF Linked, Root
<1>12. Steps'
  <2>1. \A d \in Client : step[d] \in {"link", "unlink"} => Held(d, Root)'
    <3> SUFFICES ASSUME NEW d \in Client, step[d] \in {"link", "unlink"} PROVE Held(d, Root)'
      OBVIOUS
    <3>1. Held(d, Root)
      BY <1>2 DEF Frame, Steps
    <3>2. e # Root
      BY <1>1, <3>1 DEF Held
    <3> QED BY <1>7, <3>1, <3>2, RootExt
  <2> QED BY ZenonT(30), <1>1, <1>2, <1>11, <2>1 DEF Frame, Steps, Root
<1>13. Frame'
  BY <1>1, <1>2, <1>6, <1>9, <1>10, <1>11, <1>12 DEF Frame, Root
<1>14. \A x \in Ext \ {e} : Copies(x)' = Copies(x)
  <2> SUFFICES ASSUME NEW x \in Ext \ {e} PROVE Copies(x)' = Copies(x)
    OBVIOUS
  <2>1. \A d \in Client : /\ Cached(bcache', d, x) <=> Cached(bcache, d, x)
                          /\ Cached(bcache, d, x) => bcache'[d][x] = bcache[d][x]
    BY <1>5
  <2>2. {d \in Client : Cached(bcache', d, x)} = {d \in Client : Cached(bcache, d, x)}
    BY <2>1
  <2>3. {bcache'[d][x] : d \in {y \in Client : Cached(bcache', y, x)}}
          = {bcache[d][x] : d \in {y \in Client : Cached(bcache, y, x)}}
    BY <2>1, <2>2
  <2>4. Sent(x)' = Sent(x)
    BY <1>3 DEF Sent
  <2> QED BY ZenonT(30), <2>3, <2>4 DEF Copies
<1>15. Copies(e)' = Copies(e)
  <2>1. Sent(e)' = Copied(c, e) /\ \A d \in Client : ~Cached(bcache', d, e)
    BY <1>3, <1>5, <1>8 DEF Sent
  <2>2. Copies(e)' = Copied(c, e)
    BY <2>1 DEF Copies
  <2>3. Copies(e) = Copied(c, e)
    BY <1>1, <1>2, <1>4, Alone
  <2> QED BY <2>2, <2>3
<1>16. \A x \in Ext : SameAt(x) /\ (Live(x)' => Live(x))
  BY <1>1, <1>11, <1>14, <1>15 DEF SameAt, Live, Root
<1>17. PICK E \in SUBSET Ext : E = {}
  BY Zenon
<1> QED BY <1>13, <1>16, <1>17, Assemble

(* WriteBack makes the server current, or frees what is not linked. *)
LEMMA WriteBackStep == ASSUME CInv, NEW e \in Ext, WriteBack(e) PROVE CInv'
<1>1. /\ e \in DOMAIN flushing /\ flushing' = Erase(flushing, e)
      /\ owner' = [owner EXCEPT ![e] = Nobody]
      /\ store' = [x \in Ext |-> IF x = e /\ flushing[e] # {}
                                 THEN Stored(e, CHOOSE y \in flushing[e] : TRUE) ELSE store[x]]
      /\ UNCHANGED <<bcache, step, target, mounted, nwrites, truth, mixed>>
  BY DEF WriteBack, cacheVars, fuseVars, ghostVars
<1>2. Frame /\ Types /\ Sound(e)
  BY DEF CInv, Frame
<1>3. /\ DOMAIN flushing' = DOMAIN flushing \ {e}
      /\ \A x \in DOMAIN flushing \ {e} : flushing'[x] = flushing[x]
  BY <1>1 DEF Erase
<1>4. \A d \in Client, x \in Ext : Held(d, x) => Held(d, x)'
  BY <1>1, <1>2, <1>3 DEF Types, Held
<1>5. \A d \in Client, x \in Ext : Cached(bcache', d, x) => Held(d, x)'
  BY <1>1, <1>2, <1>4, Zenon DEF Frame
<1>6. \A x \in DOMAIN flushing' : owner'[x] \in Client
  BY <1>1, <1>2, <1>3 DEF Frame, Types, IsMap
<1>7. Linked' = Linked
  BY ZenonT(30), <1>1 DEF Linked, Root
<1>8. \A d \in Client : ~Cached(bcache, d, e)
  BY <1>1, <1>2 DEF Frame, Held
<1>9. Copies(e) = flushing[e] /\ Copies(e)' = {}
  <2>1. Sent(e) = flushing[e] /\ Sent(e)' = {}
    BY <1>1, <1>3 DEF Sent
  <2> QED BY <1>1, <1>8, <2>1 DEF Copies
<1>10. flushing[e] = {} \/ \E y \in Entries : flushing[e] = {y}
  BY <1>1, <1>2 DEF Types, IsMap
<1>11. /\ store'[e] \in [type : Kind, buf : Buffer] /\ \A x \in Ext \ {e} : store'[x] = store[x]
       /\ \/ flushing[e] = {} /\ store'[e] = store[e]
          \/ \E y \in Entries : flushing[e] = {y} /\ store'[e] = Stored(e, y)
  <2>1. CASE flushing[e] = {}
    BY <1>1, <1>2, <2>1 DEF Types
  <2>2. ASSUME NEW y \in Entries, flushing[e] = {y}
        PROVE  /\ store'[e] \in [type : Kind, buf : Buffer] /\ \A x \in Ext \ {e} : store'[x] = store[x]
               /\ store'[e] = Stored(e, y)
    <3>1. (CHOOSE z \in flushing[e] : TRUE) = y
      BY <2>2
    <3>2. Stored(e, y) \in [type : Kind, buf : Buffer]
      BY <1>2 DEF Types, Stored, Free, Kind, Buffer, Entries
    <3> QED BY <1>1, <2>2, <3>1, <3>2
  <2> QED BY <1>10, <2>1, <2>2
<1>12. Types'
  <2>1. owner' \in [Ext -> Client \cup {Nobody}] /\ IsMap(flushing', {{}} \cup {{x} : x \in Entries})
    BY <1>1, <1>2, <1>3, Zenon DEF Types, IsMap
  <2>2. store' \in [Ext -> [type : Kind, buf : Buffer]]
    BY <1>1, <1>2, <1>11 DEF Types
  <2> QED BY <1>1, <1>2, <2>1, <2>2 DEF Types
<1>13. Steps'
  BY ZenonT(30), <1>1, <1>2, <1>4, <1>7, RootExt DEF Frame, Steps, Root
<1>14. Frame'
  BY ZenonT(30), <1>1, <1>2, <1>5, <1>6, <1>7, <1>12, <1>13 DEF Frame, Root
<1>15. \A x \in Ext : Live(x)' <=> Live(x)
  BY <1>1, <1>7 DEF Live, Root
<1>16. \A x \in Ext \ {e} : SameAt(x)
  <2>1. \A x \in Ext \ {e} : Sent(x)' = Sent(x)
    BY <1>3 DEF Sent
  <2> QED BY <1>1, <1>11, <2>1 DEF SameAt, Copies
<1>17. Sound(e)'
  <2>1. CASE flushing[e] = {} /\ store'[e] = store[e]
    <3>1. SameAt(e)
      BY <1>1, <1>9, <2>1 DEF SameAt
    <3> QED BY <1>2, <1>15, <3>1, SoundKeeps
  <2>2. ASSUME NEW y \in Entries, flushing[e] = {y}, store'[e] = Stored(e, y) PROVE Sound(e)'
    <3>1. store[e] \in [type : Kind, buf : Buffer] /\ y.dirty \in BOOLEAN /\ y.deleted \in BOOLEAN
      BY <1>2 DEF Types, Entries
    <3>2. Live(e)' => Present(e)' /\ (e \in mixed' \/ Current(e)')
      <4> SUFFICES ASSUME Live(e)' PROVE Present(e)' /\ (e \in mixed' \/ Current(e)')
        OBVIOUS
      <4>1. Present(e) /\ (e \in mixed \/ Current(e))
        BY <1>2, <1>15 DEF Sound
      <4>2. ~y.deleted /\ store[e].type # "none"
        BY <1>9, <2>2, <4>1 DEF Present
      <4>3. store'[e].type # "none" /\ store'[e].buf = IF y.dirty THEN y.buf ELSE store[e].buf
        BY <2>2, <3>1, <4>2 DEF Stored
      <4>4. Present(e)'
        BY <1>9, <4>3 DEF Present
      <4>5. Current(e) => Current(e)'
        BY ZenonT(30), <1>1, <1>9, <2>2, <4>3 DEF Current
      <4> QED BY <1>1, <4>1, <4>4, <4>5
    <3>3. store'[e].type = "none" => Vacant(e)'
      <4> SUFFICES ASSUME store'[e].type = "none" PROVE Vacant(e)'
        OBVIOUS
      <4>1. store'[e].buf = {}
        <5>1. CASE y.deleted
          BY <2>2, <5>1 DEF Stored, Free
        <5>2. CASE ~y.deleted
          <6>1. store[e].type = "none" /\ store'[e] = store[e]
            BY <2>2, <3>1, <5>2 DEF Stored
          <6> QED BY <1>2, <6>1 DEF Sound, Vacant
        <5> QED BY <5>1, <5>2
      <4> QED BY <1>9, <4>1 DEF Vacant
    <3> QED BY <3>2, <3>3 DEF Sound
  <2> QED BY <1>11, <2>1, <2>2
<1>18. PICK E \in SUBSET Ext : E = {e}
  BY Zenon
<1> QED BY <1>14, <1>15, <1>16, <1>17, <1>18, Assemble
-----------------------------------------------------------------------------
(* Nothing is cached at the start. *)
LEMMA InitCInv == Init => CInv
<1> SUFFICES ASSUME Init PROVE CInv
  OBVIOUS
<1>1. \A c \in Client : bcache[c] = <<>> /\ DOMAIN bcache[c] = {}
  BY DEF Init, cacheInit
<1>2. DOMAIN flushing = {}
  BY DEF Init
<1>3. Linked = {} /\ mixed = {}
  BY RootExt DEF Init, Linked
<1>4. Types
  BY <1>1, <1>2, RootExt DEF Init, cacheInit, Types, IsMap, Free, Kind, Buffer
<1>5. \A x \in Ext : Copies(x) = {}
  BY <1>1, <1>2 DEF Copies, Sent, Cached
<1>6. \A c \in Client : step[c] = "idle"
  BY DEF Init
<1>7. Frame
  BY <1>1, <1>2, <1>3, <1>4, <1>6 DEF Frame, Steps, Cached
<1>8. \A x \in Ext : Sound(x)
  <2> SUFFICES ASSUME NEW x \in Ext PROVE Sound(x)
    OBVIOUS
  <2>1. Live(x) <=> x = Root
    BY <1>3, <1>6 DEF Live
  <2>2. store[x].buf = {} /\ truth[x] = {} /\ (x = Root => store[x].type # "none")
    BY DEF Init, Free
  <2> QED BY ZenonT(30), <1>5, <2>1, <2>2 DEF Sound, Present, Current, Vacant
<1> QED BY <1>7, <1>8 DEF CInv

(* The invariant is inductive: one step per action. *)
LEMMA NextCInv ==
  ASSUME Kinds \subseteq {"file"}, CInv, [Next]_vars
  PROVE  CInv'
<1>1. CASE Next
  <2>1. ASSUME NEW c \in Client, Mount(c) \/ Link(c) \/ CreateFull(c) PROVE CInv'
    BY <2>1, MountStep, LinkStep, CreateFullStep
  <2>2. ASSUME NEW c \in Client, NEW type \in Kinds, Create(c, type) PROVE CInv'
    BY <2>2, CreateStep
  <2>3. ASSUME NEW c \in Client, NEW e \in Ext, Use(c, e) PROVE CInv'
    BY ZenonT(30), <2>3, LockStep, ReadStep, FindStep, GetAttrStep, WriteStep, SetAttrStep, UnlinkStep,
       UnlinkRefusedStep, RevokeStep DEF Use
  <2> QED BY <1>1, <2>1, <2>2, <2>3, WriteBackStep DEF Next
<1>2. CASE UNCHANGED vars
  <2>1. UNCHANGED <<bcache, store, lockVars, target, mounted, nwrites, ghostVars>> /\ step' = step
    BY <1>2 DEF vars, cacheVars, fuseVars
  <2> QED BY ZenonT(30), <2>1, QuietStep
<1> QED BY <1>1, <1>2

(* The invariant holds of every behaviour in which files are created. *)
THEOREM CacheInvariant == ASSUME Kinds \subseteq {"file"} PROVE Spec => []CInv
BY InitCInv, NextCInv, PTL DEF Spec

(* Whichever client reads a linked file or the root, with its lock, reads what
   all operations of all clients have made of it since its create, unless create
   reused an inode that a client had yet to write back. *)
THEOREM ReadFreshHolds == ASSUME Kinds \subseteq {"file"} PROVE Spec => []ReadFresh
<1>1. CInv => ReadFresh
  <2> SUFFICES ASSUME CInv, NEW c \in Client, NEW e \in ({Root} \cup Linked) \ mixed, Held(c, e)
               PROVE  Value(c, e) = truth[e]
    BY DEF ReadFresh
  <2>1. e \in Ext /\ Live(e)
    BY ZenonT(30), RootExt DEF CInv, Frame, Live
  <2> QED BY <2>1, ValueCurrent
<1> QED BY <1>1, CacheInvariant, PTL

(* The server has the latest content of whatever nobody has locked, with the same
   exception. *)
THEOREM ServerCurrentHolds == ASSUME Kinds \subseteq {"file"} PROVE Spec => []ServerCurrent
<1>1. CInv => ServerCurrent
  <2> SUFFICES ASSUME CInv, NEW e \in ({Root} \cup Linked) \ mixed, owner[e] = Nobody
               PROVE  store[e].buf = truth[e]
    BY DEF ServerCurrent
  <2>1. e \in Ext /\ Live(e) /\ Frame
    BY RootExt DEF CInv, Frame, Live
  <2>2. Current(e)
    BY <2>1 DEF CInv, Sound
  <2>3. Copies(e) = {}
    BY <2>1 DEF Frame, Held, Copies, Sent
  <2> QED BY <2>2, <2>3 DEF Current
<1> QED BY <1>1, CacheInvariant, PTL

(* Only the owner of a lock has something to write back or to remove. *)
THEOREM DirtyOnlyAtOwnerHolds == ASSUME Kinds \subseteq {"file"} PROVE Spec => []DirtyOnlyAtOwner
<1>1. CInv => DirtyOnlyAtOwner
  BY DEF CInv, Frame, DirtyOnlyAtOwner, Held
<1> QED BY <1>1, CacheInvariant, PTL

(* A delayed remove never frees the inode of a linked file. *)
THEOREM LinkedAllocatedHolds == ASSUME Kinds \subseteq {"file"} PROVE Spec => []LinkedAllocated
<1>1. CInv => LinkedAllocated
  BY DEF CInv, Frame, LinkedAllocated, Sound, Live, Present
<1> QED BY <1>1, CacheInvariant, PTL
=============================================================================

# A TLA+ model of YFS: locks, RPC, connections, extents, files

YFS is a file system for several machines. Each machine runs a FUSE daemon;
files are kept by one extent server, and one lock server orders the daemons.
This directory models the parts of the system that several threads, processes
or messages make hard to test, checks them with TLC on small instances, and
proves with TLAPS, for instances of any size, the caching lock protocol, its use
of the server's thread pool, at-most-once RPC, the framing and the lifetime of
connections, the coherence of the extent caches, the locking of the YFS
operations and the encoding of RPC messages.

## The system

| part | source | what it does |
|---|---|---|
| FUSE daemon | `fuse.cc` | one thread (line 596), turns kernel requests into calls of the YFS client |
| YFS client | `yfs_client.cc` | files and directories over extents; takes the lock of an inode around its use |
| extent client | `extent_client.cc` | write-back cache of extents and attributes; `flush` when a lock is given back |
| caching lock client | `lock_client_cache.cc` | keeps a lock after release until the server revokes it |
| caching lock server | `lock_server_cache.cc` | one holder per lock, a queue of clients, revoke and retry calls |
| extent server | `extent_server.cc` | extents as files of the inode manager, no mutex |
| inode manager | `inode_manager.cc` | blocks, bitmap, inodes with direct and indirect blocks |
| RPC client, server | `rpc/rpc.cc` | calls with retransmission; at-most-once execution through a reply window |
| connections, poll loop | `rpc/connection.cc`, `rpc/pollmgr.cc` | TCP connections with reference counts, one select thread |
| thread pool, queue | `rpc/thr_pool.cc`, `rpc/fifo.h` | six dispatch threads per server |
| marshalling | `rpc/marshall.h`, `rpc/rpc.cc` | buffers, headers, numbers and strings of messages |
| handles | `handle.cc` | cache of bound RPC clients, used by the lock server |
| lock tester | `lock_tester.cc` | five tests of the lock system |
| plain lock server, client | `lock_server.cc`, `lock_client.cc`, `lock_demo.cc` | the uncached version, not started any more |
| the rest | `gettime`, `slock`, `jsl_log`, mains, `test-lab-3-*.c`, `rpctest.cc` | utilities, start-up, tests |

A request goes from FUSE to the YFS client, which acquires the inode's lock
(usually cached), works on the extent client's cache, and releases the lock
locally. When another machine wants the lock, the server calls `revoke`; the
client flushes the extent to the extent server and only then releases the lock.
The server then calls `retry` at the next client in its queue. All calls are
RPCs, and they nest: an acquire handler waits for a revoke handler, which waits
for a release, which waits for a retry handler, which waits for an acquire. The
handlers of a server share the threads of one pool.

## Modules

| module | models | state |
|---|---|---|
| `LockClients` | the parties: clients, threads, `Home` | |
| `LockServerCache` | `lock_server_cache.cc`, one lock id | `srvState`, `holding_client`, `send_rpc`, `waiting_clients` |
| `LockClientCache` | `lock_client_cache.cc`, every client | `state`, `pending`, and `pc` of each thread |
| `LockCache` | both, and the RPCs between them | `acq`, `rel`: how far the acquire and the release RPC of a client are |
| `LockService` | abstract specification: a mutual exclusion lock | |
| `LockTester` | tests 2 to 5 of `lock_tester.cc` on top of `LockCache` | `ct`, `round`, `check` |
| `ThrPool` | the pool of an `rpcs` and its bounded queue | `jobq`, `busy` |
| `LockDispatch` | two locks (`LockCache` twice) whose handlers run on one `ThrPool` | both locks and the pool |
| `RpcParams`, `RpcClient`, `RpcServer`, `Rpc` | `rpcc`, `rpcs`, and connections between them | xids and outstanding calls; reply window, running and sending jobs; messages on live connections |
| `PollMgr` | the select thread, `add_callback`, `del_callback`, `block_remove_fd` | `rfds`, `wfds`, `callbacks`, `pending_change`, where the thread is in its loop |
| `Connection` | both ends of one TCP connection on top of `PollMgr` | `dead`, `wpdu`, `rpdu`, `refno`, where each sender and closer is, the socket |
| `Transport` | the users of a connection: calls, dispatch, replies, the listener's table, reconnection, destructors | `chan`, `listener`, `conns` |
| `Marshall` | growth of a `marshall` buffer; encoding of numbers, strings, headers | `capa`, `ind` |
| `ExtentClient`, `ExtentCache` | the write-back caches; clients, locks and the extent server together | `bcache`, `acache`, `store`, `owner`, `flushing`, what FUSE knows (`opened`), and `truth` (what the operations made of an extent) and `mixed` (inodes handed out too early) |
| `InodeManager` | blocks, bitmap and inodes under sequential requests | disk, bitmap, inode table |
| `InodeTable` | `alloc_inode` and `put_inode` under concurrent requests | inode blocks, one program counter per dispatch thread |
| `Directory` | the directory format: parsing, adding and dropping entries, reuse of room | operators only |
| `YfsClient` | create, unlink, setattr, read, write, lookup and readdir on contents, and FUSE's pages of a listing | `extent`, `dirs`, `listing`; `tree` and `file` (what they should be), `reused` (directories whose room was reused) |
| `YfsLocks` | the locks each YFS operation takes, nested calls, errors and early returns included | `held`, `owner`, `lr`, `op` and where in it the client is |

Proofs are in modules of their own: `LockCacheInv` (the inductive invariant),
`LockCacheProofs`, `LockDispatchProofs`, `RpcInv` (the inductive invariant),
`RpcProofs`, `StreamProofs` (the stream of a connection, and its senders),
`TransportProofs`, `ExtentCacheProofs`, `YfsLocksProofs` and `MarshallProofs`.

The loop at the end of `update_xid_rep` is modelled by what it leaves
(`RpcClient!Compress`), so that it can be reasoned about; `MCRpc` has the loop
itself, and TLC compares the two on all sorted lists of up to five xids.

`MC*.tla` give the instances; a `.cfg` only assigns constants and names the
specification and the properties. Definitions whose names end in `Mutant` are
wrong versions of the definition that follows; each property of a passing run is
violated for one of them.

A step is the code between two points where a mutex is dropped, a call is made
or a message is awaited. Assertions of the code are properties, not guards; where
a `VERIFY` can fail, the failure is a step of its own that ends the process.
The state machines define type invariants; those of `LockCache`, `Rpc` and `YfsLocks` are part
of the proved invariants, the others hold on the instances of the runs.

### What the models assume

- **LockCache**: an RPC between live processes is delivered exactly once (what
  `Rpc` is about). One lock id: locks share no state but a mutex, and the pool,
  which `LockDispatch` adds.
- **LockDispatch**: the queue of the pool is as long as the requests that can be
  outstanding (600 in the code), so that `addJob` refuses nothing. Clients answer
  revoke and retry from pools of their own.
- **Rpc**: one client, one bind outstanding. `retrans_` is true, as everywhere
  in the repository. The server has noticed that a connection is dead by the
  time the client retransmits, a second or more later. A final deadline may end
  a call while it waits (the code may retransmit once more first). Sending a
  freed buffer sends the same reply, another saved reply, or nothing. The wrap
  of the 32-bit xid and the test hook `reachable_` are left out.
- **Transport**: both ends are in one process and share its `PollMgr`, as in
  `rpctest`. Bytes are units, of which the first holds the size. The queue may
  refuse a request (`got_pdu` returns false). `pthread_cond_wait` in
  `block_remove_fd` is assumed not to wake spuriously: the code has no loop
  around it.
- **Marshall**: messages of at most `MAX_PDU` bytes; `RPC_CHECKSUMMING` is not
  defined, so a header takes 24 bytes.
- **ExtentCache**: FUSE is single-threaded, so an operation under its lock is
  one step of its client. `Revoke` is spontaneous: another client asks for the
  lock. A client uses the numbers that `lookup` and `create` have told FUSE, after
  an unlink by itself or by another client too, as the code tests nothing. When no
  inode is free the server answers 0 and OK, and `create` adds an entry for 0;
  what FUSE then does with inode 0 is left out. Content is the set of things
  written.
- **InodeManager**: block contents are identified by inode, size and position;
  the content of a freed block is forgotten. Files are at most `MAXFILE` long.
- **InodeTable**: `get_inode` and the read of `put_inode` are one step.
- **YfsLocks**: one directory; a file's lock goes by its name. Any call of the
  extent client may fail where the code tests it (`Errors`). The kernel asks for
  the removal of files that it has looked up, which may be gone by the time.
- **YfsClient**: one client that has all the locks; directories are counted in
  words of four bytes, files in bytes. Only the names in `NameLen` are used.

## Runs that pass

| run | instance | shows |
|---|---|---|
| `lock_cache` | 3 clients, 4 threads, two of them in one client | mutual exclusion, a cached lock is held, every assert of both sources, one call each, no lost revoke, one nested call at a time, `IInv`, refinement of `LockService`; every RPC is answered even if no application releases the lock, queued clients get the lock, a sleeper that is alone in its client is woken |
| `lock_dispatch` | 2 clients, 2 locks, 3 threads in the pool | nested calls never use the pool up, every request is answered |
| `rpc` | 4 calls, 2 connections, deadlines, `RPC_LOSSY` | at most once, nobody who waits is told "forgotten", exact `xid_rep`, sorted window, `add_reply` finds its entry unless a call has timed out |
| `rpc_live` | 2 calls, 3 connections, 2 server instances, deadlines, cancels, `RPC_LOSSY` | every call returns, OK means executed, at most once across a restart |
| `transport` | 2 calls, PDUs of 4, 2 and 3 units, sockets of 2, server end lossy | PDUs arrive whole and in order, nothing deleted is used, the reference count is that of the holders and of the references that one path of `dispatch` leaks, `readpdu` finds data, a removed descriptor is not called back, senders and closers return |
| `extent_cache` | 2 clients, 2 extents, 2 writes, files only | reads are fresh and the server is current when nobody has the lock, but for inodes handed out while a write to the earlier file was pending; dirty data only at the owner, linked extents have inodes |
| `inode_manager` | 13 blocks of 2, 1 direct and 2 indirect blocks, sizes 1, 2, 4, 5 | files read back as written, bitmap exact |
| `yfs_client` | 5 inodes, 2 directories, names of 1, 2, 6 words, files up to 2 bytes, pages of 20 words | directories parse and list exactly, and a listing in pages misses nothing while nothing is unlinked, where no room was reused; files and holes read back |
| `yfs_locks` | 2 clients, a file and a subdirectory in one directory, both clients unlink, calls may fail | no `unlock` fails its `VERIFY`, what `lookup` said stands at the write, nobody waits in a circle, requests return while no lock is kept |

**Bounds.**

- Three clients are the least with a holder, a reserved next holder and a waiter;
  the second thread in a client is the least with a sleeper beside a caller.
- `lock_dispatch` has one thread more than locks, the least for which the
  property holds: each lock can have one handler that waits for another thread.
- The first call of an RPC client is its bind. A reply that overtakes an
  unfinished call and is then reported to the server needs a bind and three
  calls; a restart while a call is under way needs one call and the bind.
- In `transport` the first request and the replies do not fit into the socket, so
  that `send` waits for `write_cb`; the second request does and queues behind the
  first. A scenario says what dispatch finds each request to be and allows one
  refusal, reconnection or destructor; further scenarios have the requests that
  `dispatch` tells apart: for an old server instance, answered before, forgotten,
  in progress and without a header.
- Two extents are the root and one inode that is reused, which is also the least
  for which no inode is left.
- The disk's sizes put files on both sides of the direct/indirect border with
  full and partial last blocks.
- Two bytes are the least for a hole before a byte, a cut inside a file and
  growth after it. Pages of 20 words hold two entries, so a listing takes several.
  The two short names fit into a dropped entry of the long one, so that both ways
  of adding an entry happen. Where `create` has reused room the directory is
  broken in the code (see below): the properties except it, and only it.
- Two clients, a file and a subdirectory are the least for two requests that want
  the same two locks, with `isdir` going either way.

**Fairness.** Weak fairness of a step means that a runnable thread runs and that
TCP delivers on a live connection. `lock_cache` assumes nothing of the threads
that hold the lock; `WaiterServed` and `SleeperWoken` have it as a hypothesis
(`HoldersRelease`) that they release it. Spurious wakeups of `acquire` are
possible and never assumed. In `LockDispatch` the pool's threads, the handlers
and the clients' handlers run. In `Rpc` strong fairness of `Transmit` stands for
a client that retries for ever while connections come and go; a crashed server is
restarted. In `Transport` the poll thread runs and some thread inside the library
does. In `YfsLocks` strong fairness of a client's step is the first-come queue of
the lock server, which `WaiterServed` supports.

## Where the code and its documentation disagree

Three runs end in a violation of a statement found in the repository, which
PROJECT.json quotes:

| run | what happens |
|---|---|
| `lock_test5_hangs` | `release` gives a revoked lock back without a broadcast; a thread of the same client sleeps for ever |
| `inode_twice` | two dispatch threads in `alloc_inode` return the same inode |
| `directory_reuse` | a short name is created after a long one was unlinked; its entry is written over the dropped one, 12 bytes shorter than the room, and `parsedir` reads the rest as an entry and fails `assert(0)` |

TLC refutes further properties that the modules define. They are not kept as
runs; the instance that shows each is given, with the rest as in the passing run.

| property | instance | what happens |
|---|---|---|
| `Rpc!AddReplyFinds` | 4 calls, 1 connection, 1 instance, `Timeouts`, not `Lossy` | a timed-out call counts as received (rpc.cc:293), the server drops its entry, `add_reply` reaches `assert(false)` |
| `Rpc!ReplyStillSaved` | 4 calls, 2 connections, 1 instance | a saved reply is freed between its lookup and `c->send` (rpc.cc:635) |
| `Transport!RefBalanced` | as the run | a request for an old instance is answered without a `decref` (rpc.cc:533): the connection is never deleted |
| `ExtentCache!CreatedEmpty` | 1 client, `MaxWrites = 1`, files | a client writes to a file that was unlinked and freed; `create` hands the inode out, and the new file has the old bytes (fuse.cc:236 speaks of an empty extent) |
| `ExtentCache!SizeFresh` | `MaxWrites = 1`, files | attributes without a buffer survive `flush` (extent_client.cc:146) |
| `ExtentCache!FileIsFile` | `MaxWrites = 1`, files | `put` makes attributes with a size and no type (extent_client.cc:108) |
| `ExtentCache!ReadFresh` | `Kinds = {"dir"}`, `MaxWrites = 1` | `create` caches a new directory without its lock; the creator later reads that old copy (yfs_client.cc:274) |
| `ExtentCache!DirectoriesStay` | both kinds, `MaxWrites = 0` | with attributes of an earlier file of the same number `unlink` removes a directory |
| `ExtentCache!UnlinkFrees` | `FairSpec`, files, `MaxWrites = 0` | the inode of an unlinked file is freed only if another client asks for its lock |
| `InodeManager!DataInDataArea` | 9 blocks, 2 direct, sizes 0, 2, 4, 6 | on a full disk block 0 becomes file data (inode_manager.cc:332) |
| `InodeManager!BitInBitmapBlock` | 16 blocks, `BPB = 8`, 2 direct, sizes 0, 2, 4, 8 | the bit index is wrong from the second bitmap block on (inode_manager.cc:44) |
| `InodeTable!CreatedStays` | 2 threads, 5 inodes in blocks of 3, 1 create | `put_inode` undoes an allocation in the same block |
| `YfsLocks!NothingHeldAtRest`, `YfsLocks!RequestsReturn` | one name, no subdirectory, no errors | `unlink` of a name that is gone leaves the directory locked (yfs_client.cc:465), and so does one whose lookup fails (462); other clients wait for ever |

Behaviour that the models have and that a property had to be stated around:

- `ListingComplete` excepts listings during which an entry is unlinked: the
  offset of the next page counts entries of a shorter list, so one is skipped. It
  and `ReaddirExact` except directories in which room was reused.
- `ReadFresh` and `ServerCurrent` except the inodes in `mixed`, which `create`
  got from the server while some client had yet to write back what it had put
  there before; `create` does not take the lock of what it creates.
- `RefExact` counts apart the references of `Leaked`, the jobs that answered a
  request for an old instance.
- `LibraryReturns` excepts senders on an end that its owner closes: `closeconn`
  signals neither `send_complete_` nor `send_wait_`, so a reply under way while
  `~rpcs` closes connections waits for ever. It also excepts a peer whose
  `read_cb` has given a connection up without closing the socket.
- `write_cb` may run on a connection that died after `select` returned, where
  `VERIFY(!dead_)` ends the process (`WriteCbAborts`).
- `read` behind the end of a file throws in `substr` (yfs_client.cc; fuse.cc:156
  speaks of zero bytes), and `bytes_written` of a write behind the end counts the
  hole (yfs_client.cc:432). `YfsClient` reads up to the end only.
- `PoolSuffices` has more threads than locks. By the same argument the code's six
  threads (rpc.cc:432) suffice for five locks that change hands at once, while six
  such handovers can use them up until an RPC times out.

The passing runs stay clear of what breaks them: `extent_cache` has files only
and says nothing of attributes, `AddReplyFindsInTime` supposes that no call has
timed out, `SleeperWoken` is about one thread per client, `inode_manager` has a
disk large enough and one request at a time, and `ReturnsUnlessKept` supposes
that no `unlink` has kept a lock. They say what holds within those limits, no
more.

## Proofs

**The lock protocol** (`LockCacheProofs`), for any sets of clients and threads:
`Invariance` (`Spec => []IInv`), and from it `TypeCorrect`,
`MutualExclusionHolds`, `CachedIsHeldHolds`, `NoAssertFails`,
`WaitersUniqueHolds`, `OneCallEachHolds`, `RevokeNotLostHolds`, and `Refinement`:
the protocol implements `LockService`.

None of the safety properties is inductive: whether a thread may enter depends
on RPCs under way. `IInv` (in `LockCacheInv`) says for each client state how far
the client's RPCs are, what the server believes of it and which revoke or retry
may still arrive (`InvClient`), that at most one thread or handler of a client
is in a call (`InvThreads`, `InvRetrying`, `InvRevoking`), that there is one
revoke per hold and one retry per reservation, each finding its addressee in a
state that accepts it (`InvRevoke`, `InvRetry`), and how the server's fields
relate (`InvServer`). There is one lemma per action.

**The thread pool.** `NestedOnceHolds` (`LockCacheProofs`): of the handlers of
one lock at most one waits for a request that no thread has taken. `IInv` does
not say so; `InvFirst` adds that the acquire that revokes is that of the client
which is next. `PoolSufficesHolds` (`LockDispatchProofs`) applies it to both
locks of `LockDispatch`, each of which the composition refines: while a request
waits in the queue, a thread is idle or has a handler that needs no other
thread. Assumed: more threads than locks (`DispatchAssumption`).

**RPC** (`RpcProofs`), for any number of calls, connections and server
instances, with every loss, copy, delay, retransmission, deadline, cancel, crash
and restart of `Rpc`: `AtMostOnceHolds`, `OkMeansExecutedHolds`,
`NeverForgottenHolds`, `FrontierExactHolds`, `WindowSortedHolds` and
`AddReplyFindsInTimeHolds`.

At most once is not inductive: it rests on an agreement between two windows that
only meet through messages that may be old. `IInv` (in `RpcInv`) goes round the
circle. What a client counts as received is answered (`InvWindow`); so what a
request reports as received is over, however late the request arrives
(`InvHdr`); so what the server drops is over, and what it has run has an entry or
comes before the first (`InvEntries`, `InvExecs`); so a copy of a request that is
still waited for is found again, and only calls that are over are told
"forgotten" (`InvMessages`, `InvRet`). That `add_reply` finds its entry needs more: a call
reported as received has been answered by this instance and not merely given up,
which a timeout breaks (`InvReported`, `InvRunning`). The lists are handled by lemmas on what
`update_xid_rep`, `checkduplicate_and_update` and `add_reply` do to a sorted
list: the new list is sorted, and which xids it holds.

**Connections** (`StreamProofs`, `TransportProofs`), for any number of calls, any
sizes of PDUs (of two units at least) and of socket buffers, either end lossy, and
any number of refusals, reconnections and destructions: `FramingHolds`,
`RefExactHolds`, `DeletedUnusedHolds`, `ReadFindsDataHolds`, and the action
property `RemovedForGoodHolds`. `IInv` has six parts.

- `InvWatched`: a live end is registered; a dead one is unknown to the poll
  thread, or the thread that found it dead is on its way through
  `block_remove_fd`. For a thread that has been woken there, the poll thread has
  nothing left to do with the descriptor. A callback is made only of what is
  registered.
- `InvStream`: what is read so far and not yet consumed, followed by what is in
  the socket, is a run of units of the accepted PDUs: it starts where `got_pdu`
  left off, goes to the end of each PDU before the next, and ends where `wpdu_`
  will go on. `Framing` alone is not inductive because it says nothing of units
  under way. The run is given by two functions, position to PDU and position to
  unit (`Traced`), and lemmas say what a partial write adds to it and a partial
  read takes off. It also says who writes: at most one sender of an end is past
  the wait for its turn, and `wpdu_` is its.
- `InvJobs`: a job exists only for a request that was read. A request is
  consumed once, hence no job is made twice.
- `InvRefs`: the counts are exact (a lemma per way to come and go, by the
  cardinality of the set of threads that refer to an end, whether they still use
  it or have leaked their reference), and a deleted end is dead with no
  references.
- `InvPlaces`: only the destructor of an owner closes, and it still has its
  reference while it does. So when the count is zero nobody is in `send`,
  `closeconn` or `block_remove_fd`, and by `InvWatched` the poll thread does not
  know the descriptor.
- `InvReadable`: while the poll thread is on its way from `select` to `read_cb`,
  nobody takes from the socket what it saw.

`StreamProofs` proves the first three kept by each step of the poll thread and of
`send`, and the whole of `IInv` by the threads inside `send` and
`block_remove_fd`, which change no count. `TransportProofs` does the poll thread
and all that take or drop a reference, one lemma per action, and concludes.

**The extent caches** (`ExtentCacheProofs`), for any number of clients, extents
and writes, where files are the only thing created (`Kinds \subseteq {"file"}`,
a hypothesis of each theorem; with directories `ReadFresh` is false):
`ReadFreshHolds`, `ServerCurrentHolds`, `DirtyOnlyAtOwnerHolds`,
`LinkedAllocatedHolds`. Handles that outlive an unlink, and inodes that run
out, are part of it. The invariant `CInv` says that a buffer is cached only by a
client that has the lock; that what is linked, or about to be, has an inode which
no copy would free, and unless it is in `mixed` its copies, or else the server,
have what the operations made of it; that a free inode is empty and what stale
handles have left of it is dirty or empty too, so that an inode handed out with
nothing pending starts empty everywhere; and that `create` and `unlink` have the
root locked between their halves.

**The locks of YFS operations** (`YfsLocksProofs`), for any clients and names,
with or without errors: `VerifyNeverFails`, `LookupStandsHolds` and
`NoCircleHolds`. The invariant `LInv` says what each place of each operation
holds (`Local`: `lr` and the nested operation's own result tell exactly which
locks its `unlock` will find), that owners and held sets agree (`HeldExact`), and
that between its lookup and its write a request has the directory and the name is
as it was found (`Found`). No circle: who waits has no
file's lock (`WaitsInOrder`), so all that wait for each other wait for the
directory; but the one who has it would then wait for a file that none of them
has. `OnlyDirKept`: between two
requests a client keeps at most the directory's lock. `KeptByMissedOnly`: without
the two early returns of `unlink` at its lookup nothing is kept at all, whatever
else fails, so these returns are the only source of the blocking above.

**Messages** (`MarshallProofs`), for all values: `BufferFits` (a `marshall`
object never writes outside its buffer; the invariant is that the buffer is at
most twice what is in it), `RequestHeaderBack`, `ReplyHeaderBack` and
`StringBack` (what was marshalled is what is unmarshalled, at every position of
a message).

Assumptions on constants are the `ASSUME`s of the modules, which TLC evaluates in
the runs: "nobody" and "no client" are not clients, every thread has a home, a
directory is not one of its names, a connection has two ends, and a PDU has a
unit besides its size.

Only model-checked: all liveness (fairness and `ENABLED` are out of the prover's
reach; so `LibraryReturns`, which says that senders and closers return, is not
proved), everything about the inode manager, whose invariants speak of what is
left of nested loops over the blocks of a file, and `YfsClient`, which walks a
directory with a `RECURSIVE` operator: what a recursion computes needs induction
over data, which the prover cannot apply.

## Not modelled

- `handle.cc`: the lock server treats a handle that cannot be bound as an error
  it does not handle, so bindings are taken for granted.
- The uncached lock server and client: `lock_smain.cc` has them commented out.
- `EPollAIO`, which the constructor of `PollMgr` has commented out; the set-up of
  sockets; `connection::compare`.
- The destructor of the thread pool, which no server reaches.
- Marshalling of `bool`, `char`, `short`, `long long`, vectors and maps, which
  repeat the calls that are modelled.
- The 32-bit wrap of xids, `reachable_`, statistics, clients without a nonce.
- Test 1 of the lock tester (one thread), time stamps, the conversion of
  attributes to FUSE structures, files larger than `MAXFILE`.
- Clients that exit: neither server has code for it.
- Start-up code, logging, portability code and test programs.

PROJECT.json lists every part with the reason, and the hazards that no property
of a run covers.

------------------------------ MODULE YfsClient ------------------------------
(***************************************************************************)
(* The operations of yfs_client.cc on the contents of files and            *)
(* directories, as the single-threaded FUSE daemon of fuse.cc calls them.  *)
(* The extents are those of the extent client's cache, where this client   *)
(* has all the locks.  A file is a sequence of bytes, a directory one of   *)
(* words (module Directory).                                               *)
(***************************************************************************)
EXTENDS Directory, FiniteSetsExt

CONSTANTS MaxInum,    \* inodes, the root directory being the first
          MaxDirs,    \* directories, the root included
          MaxSize,    \* the size a file may reach, in bytes
          Byte,       \* what may be written; a hole is filled with 0
          Written,    \* the files that are written to; others stay empty
          PageSize    \* what one readdir of the kernel asks for, in words

(* A reply has room for any one entry. *)
fuse_dirent_size(len) == 6 + len + (len % 2)

ASSUME YfsAssumption ==
  /\ MaxInum \in Nat \ {0} /\ MaxDirs \in Nat /\ MaxSize \in Nat /\ Byte \subseteq Nat
  /\ Written \subseteq 1 .. MaxInum
  /\ \A n \in Name : PageSize >= fuse_dirent_size(NameLen[n])

VARIABLES extent,     \* the content of every inode that exists
          dirs,       \* the inodes that are directories
          last,       \* the last inode number given out
          listing,    \* a program's loop over readdir, which the kernel serves in pages
          tree, file, \* what directories and files should be
          reused      \* the directories in which an entry took the room of another

vars == <<extent, dirs, last, listing, tree, file, reused>>

root == 1
Inum == 1 .. MaxInum
Files == DOMAIN extent \ dirs
NoBytes == [k \in 1 .. MaxSize |-> 0]
NoListing == [dir |-> 0, off |-> 0, seen |-> <<>>, had |-> {}, shifted |-> FALSE]

TypeOK ==
  /\ DOMAIN extent \subseteq Inum /\ dirs \subseteq DOMAIN extent
  /\ last \in Inum
  /\ \A i \in DOMAIN extent : extent[i] \in Seq(Nat)
  /\ \A i \in Files : Len(extent[i]) <= MaxSize
  /\ reused \subseteq dirs
  /\ listing.dir \in 0 .. MaxInum /\ listing.seen \in Seq(Inum) /\ listing.had \subseteq Inum

(* The constructor has put an empty root directory. *)
Init ==
  /\ extent = [i \in {root} |-> newdir]
  /\ dirs = {root} /\ last = root
  /\ listing = NoListing
  /\ tree = [i \in {root} |-> [n \in {} |-> 0]]
  /\ file = [i \in {} |-> 0]
  /\ reused = {}

-----------------------------------------------------------------------------
With(f, x, y) == [z \in DOMAIN f \cup {x} |-> IF z = x THEN y ELSE f[z]]
Without(f, x) == [z \in DOMAIN f \ {x} |-> f[z]]

(* fuseserver_createhelper: yfs_client::create of a name that lookup does not
   find; a new directory has a content before its parent names it. *)
Create(d, n, isdir) ==
  /\ last < MaxInum /\ (isdir => Cardinality(dirs) < MaxDirs)
  /\ d \in dirs /\ Parses(extent[d]) /\ Matches(extent[d], n) = {}
  /\ last' = last + 1
  /\ extent' = With([extent EXCEPT ![d] = AddEntry(@, last', NameWords(n))],
                    last', IF isdir THEN newdir ELSE <<>>)
  /\ dirs' = IF isdir THEN dirs \cup {last'} ELSE dirs
  /\ tree' = LET t == [tree EXCEPT ![d] = With(@, n, last')]
             IN  IF isdir THEN With(t, last', [m \in {} |-> 0]) ELSE t
  /\ file' = IF isdir THEN file ELSE With(file, last', [size |-> 0, byte |-> NoBytes])
  /\ reused' = IF Rooms(extent[d], NameWords(n)) = {} THEN reused ELSE reused \cup {d}
  /\ UNCHANGED listing

(* fuseserver_unlink of a file; that of a directory changes nothing. *)
Unlink(d, n) ==
  /\ d \in dirs /\ Parses(extent[d]) /\ Matches(extent[d], n) # {}
  /\ LET p == FirstOf(Matches(extent[d], n))
         i == extent[d][p + 1]
     IN /\ i \notin dirs
        /\ extent' = Without([extent EXCEPT ![d] = DropEntry(@, p)], i)
        /\ file' = Without(file, i)
        /\ listing' = [listing EXCEPT !.had = @ \ {i}, !.shifted = @ \/ d = listing.dir]
  /\ tree' = [tree EXCEPT ![d] = Without(@, n)]
  /\ UNCHANGED <<dirs, last, reused>>

(* fuseserver_write *)
Write(i, off, size, c) ==
  /\ i \in Files /\ off + size <= MaxSize
  /\ extent' = [extent EXCEPT ![i] = WriteAt(@, off, [k \in 1 .. size |-> c])]
  /\ file' = [file EXCEPT ![i] =
               [size |-> Max({@.size, off + size}),
                byte |-> [k \in 1 .. MaxSize |-> IF k \in off + 1 .. off + size THEN c ELSE @.byte[k]]]]
  /\ UNCHANGED <<dirs, last, listing, tree, reused>>

(* resize(size, '\0') *)
ResizeMutant(b, size) == IF size < Len(b) THEN SubSeq(b, 1, size) ELSE b
Resize(b, size) == [k \in 1 .. size |-> IF k <= Len(b) THEN b[k] ELSE 0]

(* fuseserver_setattr *)
SetAttr(i, size) ==
  /\ i \in Files /\ size <= MaxSize
  /\ extent' = [extent EXCEPT ![i] = Resize(@, size)]
  /\ file' = [file EXCEPT ![i] =
               [size |-> size,
                byte |-> [k \in 1 .. MaxSize |-> IF k <= size THEN @.byte[k] ELSE 0]]]
  /\ UNCHANGED <<dirs, last, listing, tree, reused>>

(* read; off beyond the end makes substr throw. *)
read(i, size, off) == SubSeq(extent[i], off + 1, Min({off + size, Len(extent[i])}))

-----------------------------------------------------------------------------
(* A program lists a directory, with its entries at that time. *)
OpenDir(d) ==
  /\ listing.dir = 0 /\ d \in dirs
  /\ listing' = [NoListing EXCEPT !.dir = d, !.had = {tree[d][n] : n \in DOMAIN tree[d]}]
  /\ UNCHANGED <<extent, dirs, last, tree, file, reused>>

(* dirbuf_add for each entry: the offset at which each one ends. *)
DirbufEnds(list) ==
  LET end[k \in 0 .. Len(list)] ==
        IF k = 0 THEN 0 ELSE end[k - 1] + fuse_dirent_size(Len(list[k].name))
  IN  end

(* reply_buf_limited: the part of the buffer that is sent. *)
reply_buf_limitedMutant(bufsize, off, maxsize) ==
  IF off < bufsize THEN <<off, Min({bufsize, maxsize})>> ELSE <<off, off>>

reply_buf_limited(bufsize, off, maxsize) ==
  IF off < bufsize THEN <<off, off + Min({bufsize - off, maxsize})>> ELSE <<off, off>>

(* The entries of the list that are whole in the next reply: the kernel takes
   these and goes on after the last of them, and none means the end. *)
Whole(list) ==
  LET end  == DirbufEnds(list)
      page == reply_buf_limited(end[Len(list)], listing.off, PageSize)
  IN  {k \in DOMAIN list : page[1] <= end[k - 1] /\ end[k] <= page[2]}

(* fuseserver_readdir, of all entries each time. *)
ReadDir ==
  LET list == readdir(extent[listing.dir])
      took == Whole(list)
  IN /\ listing.dir # 0 /\ Parses(extent[listing.dir])
     /\ took # {}
     /\ listing' = [listing EXCEPT
          !.off = DirbufEnds(list)[Max(took)],
          !.seen = @ \o [k \in 1 .. Cardinality(took) |-> list[Min(took) + k - 1].inum]]
     /\ UNCHANGED <<extent, dirs, last, tree, file, reused>>

AtEnd == Whole(readdir(extent[listing.dir])) = {}

CloseDir ==
  /\ listing.dir # 0 /\ AtEnd
  /\ listing' = NoListing
  /\ UNCHANGED <<extent, dirs, last, tree, file, reused>>

Next ==
  \/ \E d \in dirs, n \in Name : Unlink(d, n) \/ \E isdir \in BOOLEAN : Create(d, n, isdir)
  \/ \E i \in Files \cap Written, off \in 0 .. MaxSize, size \in 1 .. MaxSize, c \in Byte : Write(i, off, size, c)
  \/ \E i \in Files \cap Written, size \in 0 .. MaxSize : SetAttr(i, size)
  \/ \E d \in dirs : OpenDir(d)
  \/ ReadDir \/ CloseDir

Spec == Init /\ [][Next]_vars
-----------------------------------------------------------------------------
(* readdir lists exactly the names that were created and not unlinked,     *)
(* each with the inode that create gave it, after any sequence of creates  *)
(* and unlinks, and other directories' reuse, as long as create has put no *)
(* entry of this directory into the room of an unlinked one.               *)
ReaddirExact ==
  \A d \in dirs \ reused :
    LET list == readdir(extent[d]) IN
    /\ Parses(extent[d])
    /\ {<<list[k].name, list[k].inum>> : k \in DOMAIN list}
         = {<<NameWords(n), tree[d][n]>> : n \in DOMAIN tree[d]}

(* parsedir's asserts hold and its loop ends, on every directory that      *)
(* create and unlink make, those with reused room included.                *)
ParsedirAsserts == \A d \in dirs : Parses(extent[d])

(* A file has the size and the bytes that the writes and the changes of its
   size give it, zeros in the holes included, and read returns any part of it:
   cutting a file and letting it grow again brings no old byte back. *)
FileExact ==
  \A i \in Files :
    /\ Len(extent[i]) = file[i].size
    /\ \A off \in 0 .. file[i].size, size \in 0 .. MaxSize :
         read(i, size, off) = SubSeq(file[i].byte, off + 1, Min({off + size, file[i].size}))

(* "Retrieve all the file names / i-numbers pairs": a program that lists a
   directory page by page gets every entry that was there all the time exactly
   once, if no entry is unlinked meanwhile and none has taken the room of another. *)
ListingComplete ==
  listing.dir # 0 /\ ~listing.shifted /\ listing.dir \notin reused =>
    /\ \A j, k \in DOMAIN listing.seen : listing.seen[j] = listing.seen[k] => j = k
    /\ AtEnd => \A i \in listing.had : \E k \in DOMAIN listing.seen : listing.seen[k] = i
=============================================================================

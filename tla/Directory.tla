------------------------------ MODULE Directory ------------------------------
(***************************************************************************)
(* The content of a directory, as yfs_client lays it out in an extent: one *)
(* entry after another, each an inode number, the length of the name, the  *)
(* name and the length of the entry.  The unit is the 32-bit word, four    *)
(* bytes of the code: a number takes one word, and so do four characters   *)
(* of a name, which as a number are larger than any length.                *)
(***************************************************************************)
EXTENDS Naturals, Sequences

CONSTANT NameLen      \* the length of each name, in words

ASSUME NameAssumption == \A n \in DOMAIN NameLen : NameLen[n] \in Nat \ {0}

Name == DOMAIN NameLen              \* 1 .. n: NameLen is a sequence
Header == 3                         \* inum, namelen, entrylen

(* Word k of name n. *)
Char(n, k) == 100 * n + k
NameWords(n) == [k \in 1 .. NameLen[n] |-> Char(n, k)]

-----------------------------------------------------------------------------
(* filldir's entry: inum, a name and the length of the whole entry. *)
filldir(inum, words, entrylen) == <<inum, Len(words)>> \o words \o <<entrylen>>

newdir == filldir(0, <<>>, Header)

(* parsedir at offset p (from 0): an assert fails if there is no room for  *)
(* the entry; "end" is the end of the buffer.                              *)
Namelen(b, p) == b[p + 2]
Entrylen(b, p) == b[p + Namelen(b, p) + 3]
Room(b, p) == Len(b) - p

ParseAt(b, p) ==
  IF p > Len(b) THEN "assert"
  ELSE IF Room(b, p) < 2 THEN (IF Room(b, p) = 0 THEN "end" ELSE "assert")
  ELSE IF Room(b, p) < Namelen(b, p) + Header THEN "assert"
  ELSE "entry"

EntryName(b, p) == SubSeq(b, p + 3, p + 2 + Namelen(b, p))

(* The loop over parsedir: the offsets of the entries it meets, and "end"  *)
(* or "assert" for how it ends.  An entry of length 0 would be met for     *)
(* ever; the program hangs, which counts as an assert.                     *)
RECURSIVE Walk(_, _)
Walk(b, p) ==
  IF ParseAt(b, p) # "entry" THEN [at |-> <<>>, ends |-> ParseAt(b, p)]
  ELSE IF Entrylen(b, p) = 0 THEN [at |-> <<p>>, ends |-> "assert"]
  ELSE LET rest == Walk(b, p + Entrylen(b, p))
       IN  [at |-> <<p>> \o rest.at, ends |-> rest.ends]

Offsets(b) == LET at == Walk(b, 0).at IN {at[k] : k \in DOMAIN at}
Parses(b) == Walk(b, 0).ends = "end"

(* readdir: the entries with an inode number, in their order. *)
readdir(b) ==
  LET used == SelectSeq(Walk(b, 0).at, LAMBDA p : b[p + 1] # 0)
  IN  [k \in DOMAIN used |-> [name |-> EntryName(b, used[k]), inum |-> b[used[k] + 1]]]

(* lookup: the first entry of that name. *)
Matches(b, n) == {p \in Offsets(b) : b[p + 1] # 0 /\ EntryName(b, p) = NameWords(n)}

(* yfs_client::write at word offset off, padding with zeros. *)
WriteAt(b, off, words) ==
  [k \in 1 .. IF off + Len(words) > Len(b) THEN off + Len(words) ELSE Len(b) |->
     IF k \in off + 1 .. off + Len(words) THEN words[k - off]
     ELSE IF k <= Len(b) THEN b[k] ELSE 0]

(* The entries with room for a second one of this length after their name. *)
HasRoom(b, p, len) == len + Namelen(b, p) + 2 * Header < Entrylen(b, p)

FirstOf(S) == CHOOSE p \in S : \A q \in S : p <= q

(* create's two ways to add an entry: into the room of an unlinked one, or *)
(* at the end.                                                             *)
InjectAt(b, p, inum, words) ==
  WriteAt(b, p - 1,
          <<Namelen(b, p) + Header>>
            \o filldir(inum, words, Entrylen(b, p) - Namelen(b, p) - Header))

AppendEntry(b, inum, words) == b \o filldir(inum, words, Len(words) + Header)

Rooms(b, words) == {p \in Offsets(b) : HasRoom(b, p, Len(words))}

AddEntry(b, inum, words) ==
  IF Rooms(b, words) # {} THEN InjectAt(b, FirstOf(Rooms(b, words)), inum, words)
  ELSE AppendEntry(b, inum, words)

(* unlink overwrites the entry with an empty one of the same length. *)
DropEntryRestMutant(b, p) == SubSeq(b, 1, p)

DropEntry(b, p) == WriteAt(b, p, filldir(0, <<>>, Entrylen(b, p)))
=============================================================================

----------------------------- MODULE RpcProofs ------------------------------
(***************************************************************************)
(* The invariant of Rpc is inductive, and the theorems about Rpc follow    *)
(* from it.  First update_xid_rep and the steps of the client and of the   *)
(* network, then checkduplicate_and_update, add_reply and the steps of the *)
(* server.                                                                 *)
(***************************************************************************)
EXTENDS RpcInv, WellFoundedInduction, TLAPS

(* Sequences *)

(* A sequence is a function on an initial segment. *)
LEMMA SeqMeans == \A S : Seq(S) = UNION {[1..n -> S] : n \in Nat}
OBVIOUS

(* The length and the domain of a sequence. *)
LEMMA SeqLength ==
  ASSUME NEW S, NEW s \in Seq(S)
  PROVE  Len(s) \in Nat /\ DOMAIN s = 1..Len(s) /\ s \in [1..Len(s) -> S]
OBVIOUS

(* The empty sequence, and the others. *)
LEMMA SeqEmpty ==
  ASSUME NEW S
  PROVE  <<>> \in Seq(S) /\ Len(<<>>) = 0 /\ \A s \in Seq(S) : s # <<>> => Len(s) \in Nat \ {0}
OBVIOUS

(* What Head and Tail return. *)
LEMMA SeqTail ==
  ASSUME NEW S, NEW s \in Seq(S), s # <<>>
  PROVE  /\ Head(s) \in S /\ Tail(s) \in Seq(S) /\ Len(Tail(s)) = Len(s) - 1
         /\ \A i \in 1..Len(Tail(s)) : Tail(s)[i] = s[i + 1]
OBVIOUS

(* What a concatenation holds. *)
LEMMA SeqConcat ==
  ASSUME NEW S, NEW s \in Seq(S), NEW r \in Seq(S)
  PROVE  /\ s \o r \in Seq(S) /\ Len(s \o r) = Len(s) + Len(r)
         /\ \A i \in 1..Len(s) + Len(r) :
              (s \o r)[i] = IF i <= Len(s) THEN s[i] ELSE r[i - Len(s)]
OBVIOUS

(* The order of the natural numbers. *)
LEMMA Order ==
  /\ 0 # 1
  /\ \A a \in Nat : ~(a < a) /\ ~(a > a) /\ a <= a
  /\ \A a, b \in Nat : /\ a < b => a <= b /\ ~(a >= b) /\ ~(b <= a)
                       /\ a <= b \/ b < a
OBVIOUS

(* The order is transitive. *)
LEMMA AtMost == \A a, b, c \in Nat : a <= b /\ b <= c => a <= c
OBVIOUS

(* A number below one that is at most c is at most c. *)
LEMMA Below == \A a, b, c \in Nat : a < b /\ b <= c => a <= c
OBVIOUS

-----------------------------------------------------------------------------
(* A set of natural numbers that is not empty has a least element. *)
LEMMA Least ==
  ASSUME NEW T, T \subseteq Nat, T # {}
  PROVE  \E i \in T : \A k \in T : i <= k
<1>1. PICK i \in T : \A k \in T : ~(<<k, i>> \in OpToRel(<, Nat))
  BY NatLessThanWellFounded, WFMin, Zenon
<1>2. \A k \in T : ~(k < i)
  BY <1>1, Zenon DEF OpToRel
<1> QED BY <1>2

(* v is w with e put in at place i; u is v from place f on. *)
WithAt(n, w, i, e, v) ==
  /\ \A k \in 1 .. i - 1 : v[k] = w[k]
  /\ v[i] = e
  /\ \A k \in i .. n : v[k + 1] = w[k]
Suffix(n, v, f, u) == \A k \in 1 .. n - f + 1 : u[k] = v[f + k - 1]

(* What Insert makes of a list, position by position. *)
LEMMA Inserted ==
  ASSUME NEW S, NEW w \in Seq(S), NEW i \in 1 .. Len(w) + 1, NEW e \in S,
         NEW v, v = Insert(w, i, e)
  PROVE  v \in Seq(S) /\ Len(v) = Len(w) + 1 /\ WithAt(Len(w), w, i, e, v)
<1>a. PICK a : a = SubSeq(w, 1, i - 1)
  BY Zenon
<1>b. PICK b : b = SubSeq(w, i, Len(w))
  BY Zenon
<1>1. a \in Seq(S) /\ Len(a) = i - 1 /\ \A k \in 1 .. i - 1 : a[k] = w[k]
  BY <1>a
<1>2. /\ b \in Seq(S) /\ Len(b) = Len(w) - i + 1
      /\ \A k \in 1 .. Len(w) - i + 1 : b[k] = w[i + k - 1]
  BY <1>b
<1>3. v = (a \o <<e>>) \o b
  BY <1>a, <1>b, Zenon DEF Insert
<1>c. PICK c : c = a \o <<e>>
  BY Zenon
<1>4. c \in Seq(S) /\ Len(c) = i /\ c[i] = e /\ \A k \in 1 .. i - 1 : c[k] = w[k]
  BY <1>c, <1>1
<1>d. v = c \o b
  BY <1>3, <1>c, Zenon
<1>e. /\ v \in Seq(S) /\ Len(v) = Len(c) + Len(b)
      /\ \A k \in 1 .. Len(c) + Len(b) :
           v[k] = IF k <= Len(c) THEN c[k] ELSE b[k - Len(c)]
  <2>1. b \in Seq(S) /\ c \in Seq(S)
    BY <1>2, <1>4, Zenon
  <2> QED BY <2>1, <1>d, SeqConcat
<1>5. v \in Seq(S) /\ Len(v) = Len(w) + 1
  BY <1>2, <1>4, <1>e
<1>f. \A k \in 1 .. Len(w) + 1 : v[k] = IF k <= i THEN c[k] ELSE b[k - i]
  BY <1>2, <1>4, <1>5, <1>e
<1>6. (\A k \in 1 .. i : v[k] = c[k]) /\ \A k \in i + 1 .. Len(w) + 1 : v[k] = b[k - i]
  BY <1>f
<1>7. ASSUME NEW k \in i .. Len(w) PROVE v[k + 1] = w[k]
  BY <1>2, <1>6
<1> QED BY <1>4, <1>5, <1>6, <1>7 DEF WithAt

-----------------------------------------------------------------------------
(* update_xid_rep *)

Between(n, w, i, x) == (\A k \in 1 .. i - 1 : w[k] <= x) /\ \A k \in i .. n : x <= w[k]
Adds(v, w, x) == \A y : Has(v, y) <=> y = x \/ Has(w, y)
Closed(v, f) == ~Has(v, v[f] + 1) /\ \A j \in 1 .. f - 1 : Has(v, v[j] + 1)

(* The place of a new xid exists. *)
LEMMA PlaceExists ==
  ASSUME NEW w \in Seq(Nat), NEW x \in Nat
  PROVE  /\ Place(w, x) \in 1 .. Len(w) + 1
         /\ \A k \in 1 .. Place(w, x) - 1 : w[k] <= x
         /\ Place(w, x) <= Len(w) => w[Place(w, x)] > x
<1> DEFINE T == {i \in 1 .. Len(w) + 1 : i <= Len(w) => w[i] > x}
<1>1. Len(w) \in Nat /\ \A k \in 1 .. Len(w) : w[k] \in Nat
  OBVIOUS
<1>2. Len(w) + 1 \in T /\ T \subseteq Nat
  BY <1>1
<1>3. PICK i \in T : \A k \in T : i <= k
  BY <1>2, Least, Zenon
<1>4. \A k \in 1 .. i - 1 : w[k] <= x
  BY <1>1, <1>3
<1>5. i \in 1 .. Len(w) + 1 /\ (i <= Len(w) => w[i] > x)
  BY <1>3, Zenon
<1> QED BY <1>4, <1>5, Zenon DEF Place

(* A list v with x put in at place i of w, in order: v is in order too, and has x
   besides what w has. *)
LEMMA InsertedInOrder ==
  ASSUME NEW N \in Nat, NEW n \in Nat, NEW w \in [1 .. n -> 0 .. N],
         NEW v \in [1 .. n + 1 -> 0 .. N], NEW x \in 0 .. N, NEW i \in 1 .. n + 1,
         Ascending(w), Between(n, w, i, x), WithAt(n, w, i, x, v)
  PROVE  Ascending(v) /\ Adds(v, w, x)
<1> USE DEF Between, WithAt
<1>1. ASSUME NEW k \in 1 .. n + 1, k > i
      PROVE  k - 1 \in i .. n /\ v[k] = w[k - 1] /\ x <= v[k]
  <2>1. k - 1 \in i .. n /\ (k - 1) + 1 = k
    BY <1>1
  <2> QED BY <2>1, Zenon
<1>2. Ascending(v)
  <2> SUFFICES ASSUME NEW a \in 1 .. n + 1, NEW b \in 1 .. n + 1, a < b PROVE v[a] <= v[b]
    BY DEF Ascending
  <2>1. CASE b < i
    BY <2>1 DEF Ascending
  <2>2. CASE b = i
    BY <2>2
  <2>3. CASE b > i /\ a < i
    BY <2>3, <1>1, SMTT(20)
  <2>4. CASE b > i /\ a = i
    BY <2>4, <1>1, Zenon
  <2>5. CASE b > i /\ a > i
    <3>1. v[a] = w[a - 1] /\ v[b] = w[b - 1]
      BY <2>5, <1>1, Zenon
    <3>2. a - 1 \in 1 .. n /\ b - 1 \in 1 .. n /\ a - 1 < b - 1
      BY <2>5
    <3> QED BY <3>1, <3>2 DEF Ascending
  <2> QED BY <2>1, <2>2, <2>3, <2>4, <2>5
<1>3. ASSUME NEW k \in 1 .. n + 1 PROVE v[k] = x \/ Has(w, v[k])
  <2>1. CASE k < i
    BY <2>1 DEF Has
  <2>2. CASE k > i
    BY <2>2, <1>1 DEF Has
  <2> QED BY <2>1, <2>2
<1>4. ASSUME NEW k \in 1 .. n PROVE Has(v, w[k])
  <2>1. CASE k < i
    BY <2>1 DEF Has
  <2>2. CASE k >= i
    <3>1. k + 1 \in DOMAIN v /\ v[k + 1] = w[k]
      BY <2>2
    <3> QED BY <3>1, Zenon DEF Has
  <2> QED BY <2>1, <2>2
<1>5. Has(v, x)
  BY Zenon DEF Has
<1> QED BY <1>2, <1>3, <1>4, <1>5 DEF Has, Adds

(* The front that Compress leaves exists. *)
LEMMA NewFrontExists ==
  ASSUME NEW N \in Nat, NEW n \in Nat \ {0}, NEW v \in [1 .. n -> 0 .. N], Ascending(v)
  PROVE  NewFront(v) \in 1 .. n /\ Closed(v, NewFront(v))
<1> DEFINE T == {i \in 1 .. n : ~Has(v, v[i] + 1)}
<1>1. n \in T /\ T \subseteq Nat
  BY DEF Ascending, Has
<1>2. PICK i \in T : \A k \in T : i <= k
  BY <1>1, Least, Zenon
<1>3. i \in 1 .. n /\ ~Has(v, v[i] + 1)
  BY <1>2, Zenon
<1>4. \A j \in 1 .. i - 1 : Has(v, v[j] + 1)
  BY <1>2
<1> HIDE DEF T
<1> QED BY <1>3, <1>4, Zenon DEF NewFront, Has, Closed

(* What is left of a list in order when its first f - 1 elements go, each of which
   has a successor in it, and the next has none. *)
LEMMA Compressed ==
  ASSUME NEW N \in Nat, NEW n \in Nat \ {0}, NEW v \in [1 .. n -> 0 .. N], Ascending(v),
         NEW f \in 1 .. n, Closed(v, f),
         NEW u \in [1 .. n - f + 1 -> 0 .. N], Suffix(n, v, f, u)
  PROVE  /\ Ascending(u) /\ v[1] <= u[1] /\ ~Has(u, u[1] + 1)
         /\ \A y : Has(u, y) => Has(v, y)
         /\ \A y : Has(v, y) => y <= u[1] \/ Has(u, y)
         /\ \A y \in Nat : v[1] <= y /\ y <= u[1] => Has(v, y)
<1> USE DEF Closed, Suffix
<1>1. u[1] = v[f] /\ v[1] <= v[f]
  BY DEF Ascending
<1>2. Ascending(u)
  BY SMTT(20) DEF Ascending
<1>3. ASSUME NEW y, Has(u, y) PROVE Has(v, y)
  BY <1>3 DEF Has
<1>4. ASSUME NEW k \in 1 .. n PROVE v[k] <= u[1] \/ Has(u, v[k])
  <2>1. CASE k <= f
    BY <2>1, <1>1, Zenon DEF Ascending
  <2>2. CASE k > f
    <3>1. k - f + 1 \in DOMAIN u /\ u[k - f + 1] = v[k]
      BY <2>2
    <3> QED BY <3>1, Zenon DEF Has
  <2> QED BY <2>1, <2>2
<1>5. ASSUME NEW y \in Nat, v[1] <= y, y <= v[f], ~Has(v, y) PROVE FALSE
  <2> DEFINE T == {z \in v[1] .. y : ~Has(v, z)}
  <2>1. y \in T /\ T \subseteq Nat
    BY <1>5
  <2>2. PICK z \in T : \A k \in T : z <= k
    BY <2>1, Least, Zenon
  <2>3. z \in Nat /\ v[1] <= z /\ z <= y /\ ~Has(v, z)
    BY <2>2
  <2>4. z # v[1]
    BY <2>3 DEF Has
  <2>5. z - 1 \in v[1] .. y /\ z - 1 \notin T
    BY <2>2, <2>3, <2>4
  <2>6. PICK j \in 1 .. n : v[j] = z - 1
    BY <2>5, Zenon DEF Has
  <2>7. j < f
    BY <2>3, <2>6, <1>5 DEF Ascending
  <2>8. v[j] + 1 = z
    BY <2>3, <2>6
  <2> QED BY <2>3, <2>7, <2>8
<1>6. ~Has(u, u[1] + 1)
  BY <1>1, <1>3, Zenon
<1> QED BY <1>1, <1>2, <1>3, <1>4, <1>5, <1>6, Zenon DEF Has

(* A list is a function on its positions. *)
LEMMA ListAsFunction ==
  ASSUME NEW S, NEW w \in Seq(S)
  PROVE  /\ Len(w) \in Nat /\ w \in [1 .. Len(w) -> S]
         /\ w # <<>> => Len(w) \in Nat \ {0} /\ Head(w) = w[1]
BY SeqTail, SeqLength, SeqEmpty

(* The rest of a list from place f on is a list, and a function on its positions. *)
LEMMA SuffixAsFunction ==
  ASSUME NEW S, NEW v \in Seq(S), NEW f \in 1 .. Len(v), NEW u, u = SubSeq(v, f, Len(v))
  PROVE  /\ u \in Seq(S) /\ u # <<>> /\ u \in [1 .. Len(v) - f + 1 -> S]
         /\ Suffix(Len(v), v, f, u)
<1>1. Len(v) \in Nat
  BY ListAsFunction, Zenon
<1>2. f \in Nat /\ f - 1 \in Nat /\ f <= Len(v)
  BY <1>1
<1>3. u \in Seq(S) /\ Len(u) = Len(v) - f + 1
  BY <1>1, <1>2
<1>4. Suffix(Len(v), v, f, u)
  BY <1>1, <1>2 DEF Suffix
<1>5. u \in [1 .. Len(v) - f + 1 -> S]
  <2>1. u \in [1 .. Len(u) -> S]
    BY <1>3, ListAsFunction, Zenon
  <2> QED BY <2>1, <1>3, Zenon
<1>6. u # <<>>
  <2>1. Len(u) # 0
    BY <1>1, <1>2, <1>3
  <2> QED BY <2>1, Zenon
<1> QED BY <1>3, <1>4, <1>5, <1>6, Zenon

(* update_xid_rep puts an xid into its place: the list stays in order and keeps its
   front. *)
LEMMA InsertedWindow ==
  ASSUME NEW N \in Nat, NEW w \in Seq(0 .. N), w # <<>>, Ascending(w),
         NEW x \in 0 .. N, Head(w) < x, NEW v, v = Insert(w, Place(w, x), x)
  PROVE  /\ v \in Seq(0 .. N) /\ v # <<>> /\ Ascending(v) /\ Head(v) = Head(w)
         /\ Adds(v, w, x)
<1>n. PICK n \in Nat \ {0} : n = Len(w)
  BY ListAsFunction, Zenon
<1>w. w \in [1 .. n -> 0 .. N] /\ Head(w) = w[1]
  BY <1>n, ListAsFunction, Zenon
<1>0. w \in Seq(Nat)
  OBVIOUS
<1>1. PICK i \in 1 .. n + 1 : i = Place(w, x)
  BY <1>0, <1>n, PlaceExists
<1>2. (\A k \in 1 .. i - 1 : w[k] <= x) /\ (i <= n => w[i] > x)
  <2>1. x \in Nat
    OBVIOUS
  <2> QED BY <2>1, <1>0, <1>1, <1>n, PlaceExists, Zenon
<1>3. i > 1 /\ Between(n, w, i, x)
  <2>1. i > 1
    BY <1>2, <1>w
  <2>2. ASSUME NEW k \in i .. n PROVE x <= w[k]
    <3>1. i \in 1 .. n /\ k \in 1 .. n /\ i <= k
      OBVIOUS
    <3>2. w[i] <= w[k] /\ w[i] \in 0 .. N /\ w[k] \in 0 .. N
      BY <3>1, <1>w, Zenon DEF Ascending
    <3> QED BY <3>1, <3>2, <1>2
  <2> QED BY <2>1, <2>2, <1>2, Zenon DEF Between
<1>4. v \in Seq(0 .. N) /\ Len(v) = n + 1 /\ WithAt(n, w, i, x, v)
  <2>1. v = Insert(w, i, x) /\ i \in 1 .. Len(w) + 1
    BY <1>1, <1>n, Zenon
  <2>2. v \in Seq(0 .. N) /\ Len(v) = Len(w) + 1 /\ WithAt(Len(w), w, i, x, v)
    BY <2>1, Inserted, Zenon
  <2> QED BY <2>2, <1>n, Zenon
<1>5. v \in [1 .. n + 1 -> 0 .. N]
  <2>1. v \in [1 .. Len(v) -> 0 .. N]
    BY <1>4, ListAsFunction, Zenon
  <2> QED BY <2>1, <1>4, Zenon
<1>6. v # <<>>
  BY <1>4, <1>n
<1>7. Head(v) = v[1]
  BY <1>4, <1>6, ListAsFunction, Zenon
<1>8. Ascending(v) /\ Adds(v, w, x)
  <2>1. n \in Nat
    BY Zenon
  <2> QED BY <2>1, <1>3, <1>4, <1>5, <1>w, InsertedInOrder, Zenon
<1>9. v[1] = w[1]
  BY <1>3, <1>4 DEF WithAt
<1> QED BY <1>w, <1>4, <1>6, <1>7, <1>8, <1>9, Zenon

(* The loop of update_xid_rep pops what has a successor in the list, and no more. *)
LEMMA CompressedWindow ==
  ASSUME NEW N \in Nat, NEW v \in Seq(0 .. N), v # <<>>, Ascending(v), NEW u, u = Compress(v)
  PROVE  /\ u \in Seq(0 .. N) /\ u # <<>> /\ Ascending(u)
         /\ ~Has(u, Head(u) + 1) /\ Head(v) <= Head(u)
         /\ \A y : Has(u, y) => Has(v, y)
         /\ \A y : Has(v, y) => y <= Head(u) \/ Has(u, y)
         /\ \A y \in Nat : Head(v) <= y /\ y <= Head(u) => Has(v, y)
<1>n. PICK n \in Nat \ {0} : n = Len(v)
  BY ListAsFunction, Zenon
<1>v. v \in [1 .. n -> 0 .. N] /\ Head(v) = v[1]
  <2>1. v \in [1 .. Len(v) -> 0 .. N] /\ Head(v) = v[1]
    BY ListAsFunction, Zenon
  <2> QED BY <2>1, <1>n, Zenon
<1>1. PICK f \in 1 .. n : f = NewFront(v)
  BY <1>v, NewFrontExists, Zenon
<1>2. Closed(v, f)
  BY <1>1, <1>v, NewFrontExists, Zenon
<1>3. u = SubSeq(v, f, n)
  BY <1>1, <1>n, Zenon DEF Compress
<1>4. /\ u \in Seq(0 .. N) /\ u # <<>> /\ u \in [1 .. n - f + 1 -> 0 .. N]
      /\ Suffix(n, v, f, u)
  <2>1. f \in 1 .. Len(v) /\ u = SubSeq(v, f, Len(v))
    BY <1>3, <1>n, Zenon
  <2>2. /\ u \in Seq(0 .. N) /\ u # <<>> /\ u \in [1 .. Len(v) - f + 1 -> 0 .. N]
        /\ Suffix(Len(v), v, f, u)
    BY <2>1, SuffixAsFunction, Zenon
  <2> QED BY <2>2, <1>n, Zenon
<1>5. Head(u) = u[1]
  BY <1>4, ListAsFunction, Zenon
<1>6. /\ Ascending(u) /\ v[1] <= u[1] /\ ~Has(u, u[1] + 1)
      /\ \A y : Has(u, y) => Has(v, y)
      /\ \A y : Has(v, y) => y <= u[1] \/ Has(u, y)
      /\ \A y \in Nat : v[1] <= y /\ y <= u[1] => Has(v, y)
  BY <1>2, <1>4, <1>v, Compressed, Zenon
<1> QED BY <1>v, <1>4, <1>5, <1>6, Zenon

(* update_xid_rep: the list stays in order, its front never goes back, it keeps
   no successor of its front, and the front passes what was received and
   nothing else. *)
LEMMA UpdatedWindow ==
  ASSUME NEW N \in Nat, NEW w \in Seq(0 .. N), w # <<>>, Ascending(w), ~Has(w, Head(w) + 1),
         NEW x \in 0 .. N, NEW u, u = UpdateXidRep(w, x)
  PROVE  /\ u \in Seq(0 .. N) /\ u # <<>> /\ Ascending(u) /\ ~Has(u, Head(u) + 1)
         /\ Head(w) <= Head(u)
         /\ \A y : Has(u, y) => y = x \/ Has(w, y)
         /\ \A y \in Nat : y <= Head(u) => y <= Head(w) \/ y = x \/ Has(w, y)
         /\ \A y : y = x \/ Has(w, y) => y <= Head(u) \/ Has(u, y)
<1>0. Head(w) \in 0 .. N
  OBVIOUS
<1>1. CASE x <= Head(w)
  BY <1>0, <1>1 DEF UpdateXidRep
<1>2. CASE Head(w) < x
  <2>1. PICK v : v = Insert(w, Place(w, x), x)
    BY Zenon
  <2>2. /\ v \in Seq(0 .. N) /\ v # <<>> /\ Ascending(v) /\ Head(v) = Head(w)
        /\ \A y : Has(v, y) <=> y = x \/ Has(w, y)
    BY <1>2, <2>1, InsertedWindow DEF Adds
  <2>3. u = Compress(v)
    BY <1>0, <1>2, <2>1 DEF UpdateXidRep
  <2>4. /\ u \in Seq(0 .. N) /\ u # <<>> /\ Ascending(u)
        /\ ~Has(u, Head(u) + 1) /\ Head(v) <= Head(u)
        /\ \A y : Has(u, y) => Has(v, y)
        /\ \A y : Has(v, y) => y <= Head(u) \/ Has(u, y)
        /\ \A y \in Nat : Head(v) <= y /\ y <= Head(u) => Has(v, y)
    BY <2>2, <2>3, CompressedWindow, Zenon
  <2>5. Head(u) \in 0 .. N
    BY <2>4, SMTT(20)
  <2>6. \A y \in Nat : y <= Head(u) => y <= Head(w) \/ y = x \/ Has(w, y)
    <3> SUFFICES ASSUME NEW y \in Nat, y <= Head(u), ~(y <= Head(w)) PROVE Has(v, y)
      BY <2>2, Zenon
    <3>1. Head(v) <= y
      BY <2>2, <1>0
    <3> QED BY <3>1, <2>4, Zenon
  <2>7. \A y : y = x \/ Has(w, y) => y <= Head(u) \/ Has(u, y)
    BY <2>2, <2>4, Zenon
  <2>8. \A y : Has(u, y) => y = x \/ Has(w, y)
    BY <2>2, <2>4, Zenon
  <2> QED BY <2>2, <2>4, <2>6, <2>7, <2>8, Zenon
<1> QED BY <1>0, <1>1, <1>2

-----------------------------------------------------------------------------
(* Steps of the client *)

(* The bounds are natural numbers. *)
LEMMA Bounds ==
  /\ MaxCalls \in Nat /\ MaxConns \in Nat /\ MaxInstances \in Nat /\ MaxInstances # 0
  /\ Xid \subseteq Nat /\ Conn \subseteq Nat /\ Instance \subseteq Nat
BY BoundsAssumption DEF Xid, Conn, Instance

(* TypeOK, for the provers. *)
LEMMA Types == TypeOK => Typed
<1> SUFFICES ASSUME TypeOK PROVE Typed
  BY Zenon
<1>1. xid_rep_window \in Seq(0 .. MaxCalls) /\ xid_rep_window # <<>>
  BY Zenon DEF TypeOK, rpccTypeOK
<1>2. XidRep \in 0 .. MaxCalls
  BY <1>1, SeqTail, Zenon DEF XidRep
<1>3. \A x \in Xid : hdr[x].rep \in 0 .. MaxCalls /\ hdr[x].srv \in 0 .. MaxInstances
  BY Zenon DEF TypeOK, rpccTypeOK
<1>4. /\ xid \in Nat /\ srv_nonce \in Nat /\ bind_rep \in Nat /\ XidRep \in Nat
      /\ dup_req \in Nat /\ nonce \in Nat /\ conn \in Nat
  BY <1>2, Bounds DEF TypeOK, rpccTypeOK, rpcsTypeOK
<1>5. \A x \in Xid : x \in Nat /\ hdr[x].rep \in Nat /\ hdr[x].srv \in Nat
  BY <1>3, Bounds
<1> QED BY <1>2, <1>3, <1>4, <1>5, Zenon DEF TypeOK, rpccTypeOK, rpcsTypeOK, Typed

(* What a step of the client leaves alone. *)
LEMMA SameServer ==
  ASSUME IInv, UNCHANGED rpcsVars
  PROVE  /\ WindowSorted' /\ rpcsTypeOK'
         /\ \A x, n : Answered(x, n)' <=> Answered(x, n)
         /\ \A x, n : Settled(x, n)' <=> Settled(x, n)
         /\ \A x : HasEntry(x)' <=> HasEntry(x)
<1>1. WindowSorted'
  BY Zenon DEF IInv, WindowSorted, rpcsVars
<1>2. rpcsTypeOK'
  BY Zenon DEF IInv, TypeOK, rpcsTypeOK, rpcsVars
<1>3. ASSUME NEW x, NEW n PROVE Answered(x, n)' <=> Answered(x, n)
  BY Zenon DEF Answered, rpcsVars
<1>4. ASSUME NEW x, NEW n PROVE Settled(x, n)' <=> Settled(x, n)
  BY <1>3, Zenon DEF Settled, rpcsVars
<1>5. ASSUME NEW x PROVE HasEntry(x)' <=> HasEntry(x)
  BY Zenon DEF HasEntry, rpcsVars
<1> QED BY <1>1, <1>2, <1>3, <1>4, <1>5, Zenon

(* call1's first critical section: a new call reports no more than what is
   received. *)
LEMMA StartStep ==
  ASSUME IInv, Start
  PROVE  IInv'
<1>1. /\ xid' = xid + 1 /\ xid <= MaxCalls /\ ~destroy_wait
      /\ srv_nonce = 0 => \A x \in Xid : ~Outstanding(x)
      /\ UNCHANGED <<ret, ch, srv_nonce, bind_rep, xid_rep_window, dup_req, xid_rep_done,
                     destroy_wait, up, nonce, reply_window, conn, running, sending, execs,
                     chan, alive, reqs, replies>>
  BY Zenon DEF Start, StartCall, rpcsVars, netVars
<1>2. xid \in Xid /\ XidRep' = XidRep
  BY <1>1, Types, Bounds DEF IInv, Typed, Xid, XidRep
<1>3. /\ hdr' = [hdr EXCEPT ![xid] = [rep |-> XidRep, srv |-> srv_nonce]]
      /\ step' = [step EXCEPT ![xid] = "transmit"]
  BY Zenon DEF Start, StartCall, XidRep
<1>4. /\ hdr'[xid].rep = XidRep /\ hdr'[xid].srv = srv_nonce
      /\ \A x \in Xid : x # xid => hdr'[x] = hdr[x]
      /\ \A x \in Xid : step'[x] = IF x = xid THEN "transmit" ELSE step[x]
  BY <1>2, <1>3, Zenon DEF IInv, TypeOK, rpccTypeOK
<1>5. /\ WindowSorted' /\ rpcsTypeOK'
      /\ \A x, n : Answered(x, n)' <=> Answered(x, n)
      /\ \A x, n : Settled(x, n)' <=> Settled(x, n)
      /\ \A x : HasEntry(x)' <=> HasEntry(x)
  BY SameServer, Zenon DEF Start
<1>0. Typed
  BY Types, Zenon DEF IInv
<1> USE Bounds
<1>n. xid \in Nat /\ nonce \in Nat /\ dup_req \in Nat
  BY <1>0, Zenon DEF Typed
<1>t. TypeOK'
  <2>1. hdr' \in [Xid -> [rep : 0 .. MaxCalls, srv : 0 .. MaxInstances]]
    BY <1>0, <1>3, Zenon DEF IInv, TypeOK, rpccTypeOK, Typed
  <2>2. step' \in [Xid -> Steps]
    BY <1>0, <1>3, Zenon DEF Typed, Steps
  <2>3. xid' \in 1 .. MaxCalls + 1
    BY <1>0, <1>1 DEF Typed
  <2>4. rpccTypeOK'
    BY <2>1, <2>2, <2>3, <1>1, Zenon DEF IInv, TypeOK, rpccTypeOK
  <2> QED BY <2>4, <1>1, <1>5, Zenon DEF IInv, TypeOK
<1>6. ASSUME NEW x \in Xid PROVE Unused(x)'
  <2>1. Unused(x)
    BY Zenon DEF IInv, InvUnused
  <2> QED BY <2>1, <1>0, <1>1, <1>4 DEF Typed, Unused
<1>7. InvWindow'
  BY <1>0, <1>1, <1>2, <1>4 DEF IInv, Typed, InvWindow, Received
<1>8. ASSUME NEW x \in Xid PROVE Header(x)'
  BY <1>0, <1>1, <1>2, <1>4 DEF IInv, Typed, InvHdr, Header, InvWindow, Outstanding
<1>9. InvNonces'
  BY <1>1, Zenon DEF IInv, InvNonces
<1>10. ASSUME NEW x \in Xid PROVE Result(x)'
  <2>1. Unused(x) /\ Result(x)
    BY Zenon DEF IInv, InvUnused, InvRet
  <2>2. CASE x = xid
    <3>1. ret[x] = "none"
      BY <2>1, <2>2, <1>n DEF Unused
    <3> QED BY <3>1, <1>1, Zenon DEF Result
  <2>3. CASE x # xid
    BY <2>1, <2>3, <1>1, <1>4, <1>5, Zenon DEF Result, Outstanding
  <2> QED BY <2>2, <2>3, Zenon
<1>11. ASSUME NEW m \in replies PROVE Truthful(m)'
  <2>1. Truthful(m) /\ m.xid \in Xid /\ m.xid \in Nat /\ m.nonce \in Nat
    BY <1>0, Zenon DEF IInv, InvMessages, Typed, Reply
  <2> QED BY <2>1, <1>n, <1>1, <1>4 DEF Truthful, Answered
<1>12. InvMessages'
  <2>1. \A m \in reqs : m.xid \in Nat
    BY <1>0, Zenon DEF Typed, Request
  <2>2. dup_req' < xid' /\ \A m \in reqs' : m.xid < xid'
    BY <2>1, <1>n, <1>1 DEF IInv, InvMessages
  <2> QED BY <2>2, <1>1, <1>11, Zenon DEF InvMessages
<1>13. ASSUME NEW x \in Xid, NEW n \in Instance PROVE Executed(x, n)'
  <2>1. Executed(x, n) /\ Unused(x)
    BY Zenon DEF IInv, InvExecs, InvUnused
  <2> QED BY <2>1, <1>0, <1>1, <1>4, <1>5 DEF Typed, Executed, Unused
<1>14. InvEntries'
  BY <1>1, <1>5, Zenon DEF IInv, InvEntries
<1>15. InvJobs'
  <2>1. \A j \in running : j.xid \in Nat
    BY <1>0, Zenon DEF Typed, Job
  <2> QED BY <2>1, <1>n, <1>1 DEF IInv, InvJobs, Answered
<1>16. InvReported'
  <2> SUFFICES ASSUME InTime, NEW x \in Xid, NEW y \in Xid, x <= hdr'[y].rep
               PROVE  hdr'[y].srv # 0 /\ Settled(x, hdr'[y].srv)
    BY <1>1, <1>5, Zenon DEF InvReported, InTime
  <2>1. CASE y # xid
    BY <2>1, <1>4, Zenon DEF IInv, InvReported
  <2>2. CASE y = xid
    <3>1. x <= XidRep /\ hdr'[y].srv = srv_nonce
      BY <2>2, <1>4, Zenon
    <3>2. ret[x] # "none" /\ Result(x) /\ Header(x) /\ Unused(x)
      BY <3>1, Zenon DEF IInv, InvWindow, Received, InvRet, InvHdr, InvUnused
    <3>3. ret[x] \in {"ok", "oldsrv"}
      BY <3>2, <1>0, <1>1, Zenon DEF InTime, Result, Typed, Returns
    <3>4. CASE ret[x] = "oldsrv"
      BY <3>1, <3>2, <3>4, <1>0 DEF Result, Header, Settled, Typed
    <3>5. CASE ret[x] = "ok"
      <4>1. step[x] # "unused" /\ step[x] \in Steps
        BY <3>2, <3>5, <1>0, Zenon DEF Unused, Typed
      <4>2. Answered(x, srv_nonce)
        BY <4>1, <3>2, <3>5, <1>1, Zenon DEF Result, Header, Outstanding, Steps
      <4>3. srv_nonce \in Instance
        BY <4>2, Zenon DEF Answered
      <4> QED BY <3>1, <4>2, <4>3 DEF Settled, Instance
    <3> QED BY <3>3, <3>4, <3>5, Zenon
  <2> QED BY <2>1, <2>2, Zenon
<1>17. InvRunning'
  BY <1>1, <1>5, Zenon DEF IInv, InvRunning, InTime
<1> QED BY <1>t, <1>5, <1>6, <1>7, <1>8, <1>9, <1>10, <1>12, <1>13, <1>14, <1>15, <1>16, <1>17, Zenon
           DEF IInv, InvUnused, InvHdr, InvRet, InvExecs

(* A step that only sends, loses or delivers to no effect, and that starts and
   ends no call, keeps the invariant if what it sends is true. *)
Quiet ==
  /\ UNCHANGED <<xid, ret, hdr, srv_nonce, bind_rep, xid_rep_window, destroy_wait,
                 up, nonce, reply_window, conn, running, execs>>
  /\ sending' \subseteq sending
  /\ \A x \in Xid : \/ step'[x] = step[x]
                    \/ Outstanding(x) /\ step'[x] \in {"transmit", "waiting"}
  /\ dup_req' < xid
  /\ \A m \in reqs' : m.xid < xid
  /\ \A m \in replies' : Truthful(m)

(* A quiet step keeps the invariant. *)
LEMMA QuietStep ==
  ASSUME IInv, TypeOK', Quiet
  PROVE  IInv'
<1> USE Bounds DEF Quiet
<1>0. Typed
  BY Types, Zenon DEF IInv
<1>1. WindowSorted'
  BY Zenon DEF IInv, WindowSorted
<1>2. /\ XidRep' = XidRep
      /\ \A x \in Xid : /\ Outstanding(x)' <=> Outstanding(x)
                        /\ step'[x] = "returned" <=> step[x] = "returned"
                        /\ step'[x] = "unused" <=> step[x] = "unused"
  BY Zenon DEF XidRep, Outstanding
<1>3. ASSUME NEW x \in Xid PROVE Unused(x)'
  <2>1. Unused(x)
    BY Zenon DEF IInv, InvUnused
  <2> QED BY <2>1, <1>2, Zenon DEF Unused
<1>4. InvWindow'
  BY <1>2, Zenon DEF IInv, InvWindow, Received
<1>5. ASSUME NEW x \in Xid PROVE Header(x)'
  <2>1. Header(x)
    BY Zenon DEF IInv, InvHdr
  <2> QED BY <2>1, <1>2, Zenon DEF Header
<1>6. InvNonces'
  BY Zenon DEF IInv, InvNonces
<1>7. ASSUME NEW x \in Xid PROVE Result(x)'
  <2>1. Result(x)
    BY Zenon DEF IInv, InvRet
  <2> QED BY <2>1, <1>2, Zenon DEF Result, Answered
<1>8. ASSUME NEW m \in replies' PROVE Truthful(m)'
  <2>1. Truthful(m)
    BY <1>8, Zenon
  <2> QED BY <2>1, Zenon DEF Truthful, Answered
<1>9. InvMessages'
  BY <1>8, Zenon DEF InvMessages
<1>10. InvExecs'
  BY Zenon DEF IInv, InvExecs, Executed, HasEntry
<1>11. InvEntries'
  BY Zenon DEF IInv, InvEntries, Answered
<1>12. InvJobs'
  BY Zenon DEF IInv, InvJobs, Answered
<1>13. InvReported'
  BY Zenon DEF IInv, InvReported, InTime, Settled, Answered
<1>14. InvRunning'
  BY Zenon DEF IInv, InvRunning, InTime, HasEntry
<1> QED BY <1>1, <1>3, <1>4, <1>5, <1>6, <1>7, <1>9, <1>10, <1>11, <1>12, <1>13, <1>14, Zenon
           DEF IInv, InvUnused, InvHdr, InvRet

(* A request, and RPC_LOSSY's copy of an old one, are sent. *)
LEMMA TransmitStep ==
  ASSUME IInv, NEW x \in Xid, Transmit(x)
  PROVE  IInv'
<1> USE Bounds
<1>0. Typed
  BY Types, Zenon DEF IInv
<1>1. PICK c : c = IF chan = 0 \/ ~alive THEN chan + 1 ELSE chan
  BY Zenon
<1>2. /\ step[x] = "transmit" /\ step' = [step EXCEPT ![x] = "waiting"]
      /\ ch' = [ch EXCEPT ![x] = c]
      /\ dup_req' \in {0, dup_req} /\ Forgot \subseteq {dup_req} \ {0}
      /\ chan = 0 \/ ~alive => chan < MaxConns
      /\ chan' = c /\ alive' = TRUE
      /\ reqs' = reqs \cup {[xid |-> x, conn |-> c, dup |-> FALSE]}
                      \cup {[xid |-> y, conn |-> c, dup |-> TRUE] : y \in Forgot}
      /\ UNCHANGED <<xid, ret, hdr, srv_nonce, bind_rep, xid_rep_window, xid_rep_done,
                     destroy_wait, up, nonce, reply_window, conn, running, sending, execs,
                     replies>>
  BY <1>1, Zenon DEF Transmit, Transmitted, Forgot, rpcsVars
<1>3. c \in Conn
  BY <1>1, <1>2 DEF IInv, TypeOK, Conn
<1>4. \A y \in Xid : step'[y] = IF y = x THEN "waiting" ELSE step[y]
  BY <1>2, <1>0, Zenon DEF Typed
<1>5. TypeOK'
  <2>1. rpccTypeOK'
    <3>1. step' \in [Xid -> Steps]
      BY <1>2, <1>0, Zenon DEF Typed, Steps
    <3>2. c \in 0 .. MaxConns
      BY <1>3 DEF Conn
    <3>3. ch' \in [Xid -> 0 .. MaxConns]
      BY <1>2, <3>2, Zenon DEF IInv, TypeOK, rpccTypeOK
    <3>4. 0 \in 0 .. MaxCalls
      OBVIOUS
    <3>5. dup_req' \in 0 .. MaxCalls
      BY <1>2, <1>0, <3>4, Zenon DEF Typed
    <3> QED BY <3>1, <3>3, <3>5, <1>2, Zenon DEF IInv, TypeOK, rpccTypeOK
  <2>2. rpcsTypeOK'
    BY <1>2, Zenon DEF IInv, TypeOK, rpcsTypeOK
  <2>3. reqs' \subseteq Request
    <3>1. \A y \in Forgot : y \in Xid
      BY <1>2, <1>0 DEF Typed, Xid
    <3>2. ASSUME NEW m \in reqs' PROVE m \in Request
      <4>1. CASE m \in reqs
        BY <4>1, <1>0, Zenon DEF Typed
      <4>2. CASE m = [xid |-> x, conn |-> c, dup |-> FALSE]
        BY <4>2, <1>3, Zenon DEF Request
      <4>3. CASE \E y \in Forgot : m = [xid |-> y, conn |-> c, dup |-> TRUE]
        BY <4>3, <1>3, <3>1 DEF Request
      <4> QED BY <4>1, <4>2, <4>3, <1>2, Zenon
    <3> QED BY <3>2, Zenon
  <2>4. chan' \in 0 .. MaxConns /\ alive' \in BOOLEAN
    BY <1>2, <1>3 DEF Conn
  <2> QED BY <2>1, <2>2, <2>3, <2>4, <1>2, Zenon DEF IInv, TypeOK
<1>6. /\ dup_req \in Nat /\ dup_req < xid /\ x < xid /\ x \in Nat /\ xid \in Nat
      /\ xid >= 1
  BY <1>0, <1>2 DEF IInv, InvMessages, InvUnused, Unused, Typed
<1>7. \A m \in reqs' : m.xid < xid
  BY <1>2, <1>6 DEF IInv, InvMessages
<1>8. dup_req' < xid
  BY <1>2, <1>6
<1>9. \A y \in Xid : step'[y] = step[y] \/ (Outstanding(y) /\ step'[y] \in {"transmit", "waiting"})
  BY <1>2, <1>4, Zenon DEF Outstanding
<1>10. Quiet
  BY <1>2, <1>7, <1>8, <1>9, Zenon DEF IInv, InvMessages, Quiet
<1> QED BY <1>5, <1>10, QuietStep, Zenon

(* A connection that cannot be opened, and a timer that expires. *)
LEMMA RetryStep ==
  ASSUME IInv, NEW x \in Xid, ConnectFails(x) \/ TimerExpires(x)
  PROVE  IInv'
<1> USE Bounds
<1>0. Typed
  BY Types, Zenon DEF IInv
<1>1. /\ step[x] \in {"transmit", "waiting"}
      /\ step' = [step EXCEPT ![x] = "waiting"] \/ step' = [step EXCEPT ![x] = "transmit"]
      /\ UNCHANGED <<xid, ret, hdr, ch, srv_nonce, bind_rep, xid_rep_window, dup_req,
                     xid_rep_done, destroy_wait, up, nonce, reply_window, conn, running,
                     sending, execs, chan, alive, reqs, replies>>
  BY Zenon DEF ConnectFails, NotTransmitted, TimerExpires, Retransmit, rpcsVars, netVars
<1>2. \A y \in Xid : step'[y] = step[y] \/ (Outstanding(y) /\ step'[y] \in {"transmit", "waiting"})
  BY <1>0, <1>1, Zenon DEF Outstanding, Typed
<1>3. TypeOK'
  <2>1. step' \in [Xid -> Steps]
    BY <1>0, <1>1, Zenon DEF Typed, Steps
  <2> QED BY <2>1, <1>1, Zenon DEF IInv, TypeOK, rpccTypeOK, rpcsTypeOK
<1>4. Quiet
  BY <1>1, <1>2, Zenon DEF IInv, InvMessages, Quiet
<1> QED BY <1>3, <1>4, QuietStep, Zenon

(* Requests and replies that are lost, and the end of a connection. *)
LEMMA LossStep ==
  ASSUME IInv,
         \/ \E m \in replies : LoseReply(m)
         \/ \E m \in reqs : LoseRequest(m)
         \/ ConnectionDies
  PROVE  IInv'
<1>1. /\ reqs' \subseteq reqs /\ replies' \subseteq replies
      /\ chan' = chan /\ alive' \in {alive, FALSE}
      /\ UNCHANGED <<xid, step, ret, hdr, ch, srv_nonce, bind_rep, xid_rep_window, dup_req,
                     xid_rep_done, destroy_wait, up, nonce, reply_window, conn, running,
                     sending, execs>>
  BY Zenon DEF LoseReply, LoseRequest, ConnectionDies, rpccVars, rpcsVars
<1>2. TypeOK'
  BY <1>1, Zenon DEF IInv, TypeOK, rpccTypeOK, rpcsTypeOK
<1>3. Quiet
  BY <1>1, Zenon DEF IInv, InvMessages, Quiet
<1> QED BY <1>2, <1>3, QuietStep, Zenon

(* What update_xid_rep does to what counts as received. *)
LEMMA WindowMoves ==
  ASSUME IInv, NEW x \in Xid, x < xid, xid_rep_window' = UpdateXidRep(xid_rep_window, x)
  PROVE  /\ xid_rep_window' \in Seq(0 .. MaxCalls) /\ xid_rep_window' # <<>>
         /\ Ascending(xid_rep_window') /\ ~Has(xid_rep_window', XidRep' + 1)
         /\ XidRep <= XidRep' /\ XidRep' < xid
         /\ \A y \in 0 .. MaxCalls : Has(xid_rep_window', y) => y < xid
         /\ \A y \in Xid : Received(y)' <=> y = x \/ Received(y)
<1>w. PICK w : w = xid_rep_window
  BY Zenon
<1>u. PICK u : u = xid_rep_window'
  BY Zenon
<1>0. XidRep = Head(w) /\ XidRep' = Head(u)
  BY <1>w, <1>u, Zenon DEF XidRep
<1>1. /\ w \in Seq(0 .. MaxCalls) /\ w # <<>>
      /\ Ascending(w) /\ ~Has(w, Head(w) + 1) /\ u = UpdateXidRep(w, x)
  BY <1>w, <1>u, <1>0, Zenon DEF IInv, TypeOK, rpccTypeOK, InvWindow
<1>2. MaxCalls \in Nat /\ x \in 0 .. MaxCalls
  BY Bounds DEF Xid
<1>3. /\ u \in Seq(0 .. MaxCalls) /\ u # <<>> /\ Ascending(u) /\ ~Has(u, Head(u) + 1)
      /\ Head(w) <= Head(u)
      /\ \A y : Has(u, y) => y = x \/ Has(w, y)
      /\ \A y \in Nat : y <= Head(u) => y <= Head(w) \/ y = x \/ Has(w, y)
      /\ \A y : y = x \/ Has(w, y) => y <= Head(u) \/ Has(u, y)
  BY <1>1, <1>2, UpdatedWindow, Zenon
<1>4. Head(w) \in 0 .. MaxCalls /\ Head(u) \in 0 .. MaxCalls
  BY <1>1, <1>3, SeqTail, Zenon
<1>5. Head(w) < xid /\ \A y \in 0 .. MaxCalls : Has(w, y) => y < xid
  BY <1>0, <1>w, Zenon DEF IInv, InvWindow
<1>6. xid \in Nat
  BY Types, Bounds, Zenon DEF IInv, Typed
<1>7. Head(u) < xid
  BY <1>3, <1>4, <1>5, <1>6, <1>2, SMTT(20)
<1>8. \A y \in 0 .. MaxCalls : Has(u, y) => y < xid
  BY <1>3, <1>5, Zenon
<1>9. ASSUME NEW y \in Xid PROVE Received(y)' <=> y = x \/ Received(y)
  <2>1. y \in Nat /\ y \in 0 .. MaxCalls
    BY Bounds DEF Xid
  <2>2. Received(y) <=> y <= Head(w) \/ Has(w, y)
    BY <1>0, <1>w, Zenon DEF Received
  <2>3. Received(y)' <=> y <= Head(u) \/ Has(u, y)
    BY <1>0, <1>u, Zenon DEF Received
  <2>4. y <= Head(w) => y <= Head(u)
    BY <2>1, <1>3, <1>4
  <2> QED BY <2>1, <2>2, <2>3, <2>4, <1>3, Zenon
<1> QED BY <1>0, <1>u, <1>3, <1>7, <1>8, <1>9, Zenon

(* A step of the client that answers or ends calls: what it cannot disturb. *)
ClientOnly ==
  /\ UNCHANGED <<xid, hdr, up, nonce, reply_window, conn, running, sending, execs, reqs>>
  /\ replies' \subseteq replies
  /\ dup_req' < xid
  /\ \A x \in Xid : ret[x] # "none" => ret'[x] # "none"
  /\ InTime' => InTime

(* Such a step disturbs nothing that is about the server. *)
LEMMA ClientOnlyStep ==
  ASSUME IInv, ClientOnly
  PROVE  /\ WindowSorted' /\ InvMessages' /\ InvExecs' /\ InvEntries' /\ InvJobs'
         /\ InvReported' /\ InvRunning'
<1> USE DEF ClientOnly
<1>0. Typed
  BY Types, Zenon DEF IInv
<1>1. WindowSorted'
  BY Zenon DEF IInv, WindowSorted
<1>2. ASSUME NEW m \in replies' PROVE Truthful(m)'
  <2>1. Truthful(m) /\ m.xid \in Xid
    BY <1>0, Zenon DEF IInv, InvMessages, Typed, Reply
  <2> QED BY <2>1, Zenon DEF Truthful, Answered
<1>3. InvMessages'
  BY <1>2, Zenon DEF IInv, InvMessages
<1>4. InvExecs'
  BY Zenon DEF IInv, InvExecs, Executed, HasEntry
<1>5. InvEntries'
  BY Zenon DEF IInv, InvEntries, Answered
<1>6. InvJobs'
  BY Zenon DEF IInv, InvJobs, Answered
<1>7. InvReported'
  BY Zenon DEF IInv, InvReported, Settled, Answered
<1>8. InvRunning'
  BY Zenon DEF IInv, InvRunning, HasEntry
<1> QED BY <1>1, <1>3, <1>4, <1>5, <1>6, <1>7, <1>8, Zenon

(* cancel makes the outstanding calls fail. *)
LEMMA CancelStep ==
  ASSUME IInv, CancelAll
  PROVE  IInv'
<1> USE Bounds
<1>0. Typed
  BY Types, Zenon DEF IInv
<1>1. /\ ret' = [x \in Xid |-> IF Outstanding(x) THEN "cancel" ELSE ret[x]]
      /\ destroy_wait' = TRUE
      /\ UNCHANGED <<xid, step, hdr, ch, srv_nonce, bind_rep, xid_rep_window, dup_req,
                     xid_rep_done, up, nonce, reply_window, conn, running, sending, execs,
                     chan, alive, reqs, replies>>
  BY Zenon DEF CancelAll, Cancel, rpcsVars, netVars
<1>2. TypeOK'
  <2>1. ret' \in [Xid -> Returns]
    BY <1>0, <1>1, Zenon DEF Typed, Returns
  <2> QED BY <2>1, <1>1, Zenon DEF IInv, TypeOK, rpccTypeOK, rpcsTypeOK
<1>3. /\ XidRep' = XidRep
      /\ \A x \in Xid : /\ ret'[x] = IF Outstanding(x) THEN "cancel" ELSE ret[x]
                        /\ Outstanding(x)' <=> Outstanding(x)
                        /\ Received(x)' <=> Received(x)
  BY <1>1, Zenon DEF XidRep, Outstanding, Received
<1>4. ClientOnly
  <2>1. ASSUME InTime' PROVE InTime
    BY <2>1, <1>3, Zenon DEF InTime, IInv, InvRet, Result, Outstanding
  <2> QED BY <2>1, <1>1, <1>3, Zenon DEF ClientOnly, IInv, InvMessages
<1>5. ASSUME NEW x \in Xid PROVE Unused(x)'
  <2>1. Unused(x)
    BY Zenon DEF IInv, InvUnused
  <2> QED BY <2>1, <1>1, <1>3, Zenon DEF Unused, Outstanding
<1>6. InvWindow'
  BY <1>1, <1>3, Zenon DEF IInv, InvWindow
<1>7. ASSUME NEW x \in Xid PROVE Header(x)'
  <2>1. Header(x)
    BY Zenon DEF IInv, InvHdr
  <2> QED BY <2>1, <1>1, <1>3, Zenon DEF Header
<1>8. InvNonces'
  BY <1>1, Zenon DEF IInv, InvNonces
<1>9. ASSUME NEW x \in Xid PROVE Result(x)'
  <2>1. Result(x)
    BY Zenon DEF IInv, InvRet
  <2> QED BY <2>1, <1>1, <1>3, Zenon DEF Result, Answered
<1> QED BY <1>2, <1>4, <1>5, <1>6, <1>7, <1>8, <1>9, ClientOnlyStep, Zenon
           DEF IInv, InvUnused, InvHdr, InvRet

(* call1 returns: the call counts as received, and a bind stores the nonce. *)
LEMMA EndCallStep ==
  ASSUME IInv, NEW x \in Xid, EndCall(x)
  PROVE  IInv'
<1> USE Bounds
<1>0. Typed
  BY Types, Zenon DEF IInv
<1>1. /\ step[x] = "waiting" /\ ret[x] # "none"
      /\ step' = [step EXCEPT ![x] = "returned"]
      /\ xid_rep_window' = UpdateXidRep(xid_rep_window, x)
      /\ dup_req' \in {x, dup_req}
      /\ xid_rep_done' \in {hdr[x].rep, xid_rep_done}
      /\ srv_nonce' = IF hdr[x].srv = 0 /\ ret[x] = "ok" THEN bind_rep ELSE srv_nonce
      /\ UNCHANGED <<xid, ret, hdr, ch, bind_rep, destroy_wait, up, nonce, reply_window,
                     conn, running, sending, execs, chan, alive, reqs, replies>>
  BY Zenon DEF EndCall, Return, rpcsVars, netVars
<1>2. x < xid /\ Outstanding(x)
  <2>1. Outstanding(x) /\ ~(x >= xid)
    BY <1>1, Zenon DEF IInv, InvUnused, Unused, Outstanding
  <2>2. x \in Nat /\ xid \in Nat
    BY <1>0, Zenon DEF Typed
  <2> QED BY <2>1, <2>2
<1>3. /\ xid_rep_window' \in Seq(0 .. MaxCalls) /\ xid_rep_window' # <<>>
      /\ Ascending(xid_rep_window') /\ ~Has(xid_rep_window', XidRep' + 1)
      /\ XidRep <= XidRep' /\ XidRep' < xid
      /\ \A y \in 0 .. MaxCalls : Has(xid_rep_window', y) => y < xid
      /\ \A y \in Xid : Received(y)' <=> y = x \/ Received(y)
  BY <1>1, <1>2, WindowMoves, Zenon
<1>4. \A y \in Xid : /\ step'[y] = IF y = x THEN "returned" ELSE step[y]
                     /\ Outstanding(y)' <=> Outstanding(y) /\ y # x
  BY <1>0, <1>1, Zenon DEF Typed, Outstanding
<1>5. TypeOK'
  <2>1. step' \in [Xid -> Steps] /\ dup_req' \in 0 .. MaxCalls
    BY <1>0, <1>1 DEF Typed, Steps, Xid
  <2>2. xid_rep_done' \in -1 .. MaxCalls /\ srv_nonce' \in 0 .. MaxInstances
    <3>1. hdr[x].rep \in 0 .. MaxCalls
      BY <1>0, Zenon DEF Typed
    <3>2. hdr[x].rep \in -1 .. MaxCalls
      BY <3>1
    <3>3. xid_rep_done \in -1 .. MaxCalls
      BY Zenon DEF IInv, TypeOK, rpccTypeOK
    <3> QED BY <3>2, <3>3, <1>0, <1>1, Zenon DEF Typed
  <2> QED BY <2>1, <2>2, <1>1, <1>3, Zenon DEF IInv, TypeOK, rpccTypeOK, rpcsTypeOK
<1>6. ClientOnly
  BY <1>1, <1>2, Zenon DEF ClientOnly, IInv, InvMessages, InTime
<1>7. ASSUME NEW y \in Xid PROVE Unused(y)'
  <2>1. Unused(y) /\ y \in Nat /\ xid \in Nat
    BY <1>0, Zenon DEF IInv, InvUnused, Typed
  <2>2. y >= xid => y # x
    BY <2>1, <1>2
  <2>3. CASE y = x
    <3>1. step'[y] = "returned" /\ xid' = xid /\ ~(y >= xid)
      BY <2>2, <2>3, <1>1, <1>4, Zenon
    <3> QED BY <3>1, Zenon DEF Unused
  <2>4. CASE y # x
    BY <2>1, <2>4, <1>1, <1>4, Zenon DEF Unused
  <2> QED BY <2>3, <2>4, Zenon
<1>8. InvWindow'
  BY <1>1, <1>3, <1>4, Zenon DEF IInv, InvWindow
<1>9. ASSUME NEW y \in Xid PROVE Header(y)'
  <2>1. Header(x) /\ Header(y)
    BY Zenon DEF IInv, InvHdr
  <2>2. hdr'[y].rep <= XidRep' /\ hdr'[y].rep < y
    <3>1. hdr[y].rep \in Nat /\ XidRep \in Nat /\ XidRep' \in Nat
      <4>1. XidRep' \in 0 .. MaxCalls
        BY <1>3, SeqTail, Zenon DEF XidRep
      <4>2. XidRep' \in Nat
        BY <4>1
      <4> QED BY <4>2, <1>0, Zenon DEF Typed
    <3> QED BY <2>1, <3>1, <1>1, <1>3 DEF Header
  <2>3. hdr'[y].srv \in {0, srv_nonce'}
    BY <2>1, <1>1, <1>2, Zenon DEF Header
  <2>4. ASSUME Outstanding(y)', hdr'[y].srv = 0 PROVE FALSE
    BY <2>1, <2>4, <1>1, <1>2, <1>4, Zenon DEF Header
  <2> QED BY <2>2, <2>3, <2>4, Zenon DEF Header
<1>10. InvNonces'
  BY <1>1, Zenon DEF IInv, InvNonces
<1>11. ASSUME NEW y \in Xid PROVE Result(y)'
  <2>1. Result(x) /\ Result(y) /\ Header(x)
    BY Zenon DEF IInv, InvRet, InvHdr
  <2>2. ~Answered(y, 0)
    BY DEF Answered, Instance
  <2>3. \A n : Answered(y, n)' <=> Answered(y, n)
    BY <1>1, Zenon DEF Answered
  <2>4. hdr[x].srv = 0 => srv_nonce = 0
    BY <2>1, <1>2, Zenon DEF Header
  <2>5. ASSUME ret[y] = "ok", hdr[y].srv = 0, step'[y] = "returned"
        PROVE  Answered(y, srv_nonce')
    <3>1. CASE y = x
      BY <3>1, <2>1, <2>5, <1>1, <1>2, Zenon DEF Result
    <3>2. CASE y # x
      BY <3>2, <2>1, <2>2, <2>4, <2>5, <1>1, <1>4, Zenon DEF Result
    <3> QED BY <3>1, <3>2, Zenon
  <2>6. ret[y] = "timeout" => step'[y] = "returned"
    BY <2>1, <1>4, Zenon DEF Result
  <2>7. ASSUME ret[y] = "ok", hdr[y].srv = 0, Outstanding(y)' PROVE Answered(y, bind_rep)
    BY <2>1, <2>7, <1>4, Zenon DEF Result
  <2>8. /\ ret'[y] = ret[y] /\ hdr'[y] = hdr[y] /\ bind_rep' = bind_rep /\ nonce' = nonce
        /\ destroy_wait' = destroy_wait
    BY <1>1, Zenon
  <2> QED BY <2>1, <2>3, <2>5, <2>6, <2>7, <2>8, Zenon DEF Result
<1> QED BY <1>5, <1>6, <1>7, <1>8, <1>9, <1>10, <1>11, ClientOnlyStep, Zenon
           DEF IInv, InvUnused, InvHdr, InvRet

(* The final deadline passes: the call counts as received without a reply. *)
LEMMA DeadlineStep ==
  ASSUME IInv, NEW x \in Xid, DeadlinePasses(x)
  PROVE  IInv'
<1> USE Bounds
<1>0. Typed
  BY Types, Zenon DEF IInv
<1>1. /\ step[x] = "waiting" /\ ret[x] = "none"
      /\ step' = [step EXCEPT ![x] = "returned"]
      /\ ret' = [ret EXCEPT ![x] = "timeout"]
      /\ xid_rep_window' = UpdateXidRep(xid_rep_window, x)
      /\ UNCHANGED <<xid, hdr, ch, srv_nonce, bind_rep, dup_req, xid_rep_done, destroy_wait,
                     up, nonce, reply_window, conn, running, sending, execs, chan, alive,
                     reqs, replies>>
  BY Zenon DEF DeadlinePasses, GiveUp, rpcsVars, netVars
<1>2. x < xid /\ Outstanding(x)
  <2>1. Outstanding(x) /\ ~(x >= xid)
    BY <1>1, Zenon DEF IInv, InvUnused, Unused, Outstanding
  <2>2. x \in Nat /\ xid \in Nat
    BY <1>0, Zenon DEF Typed
  <2> QED BY <2>1, <2>2
<1>3. /\ xid_rep_window' \in Seq(0 .. MaxCalls) /\ xid_rep_window' # <<>>
      /\ Ascending(xid_rep_window') /\ ~Has(xid_rep_window', XidRep' + 1)
      /\ XidRep <= XidRep' /\ XidRep' < xid
      /\ \A y \in 0 .. MaxCalls : Has(xid_rep_window', y) => y < xid
      /\ \A y \in Xid : Received(y)' <=> y = x \/ Received(y)
  BY <1>1, <1>2, WindowMoves, Zenon
<1>4. \A y \in Xid : /\ step'[y] = IF y = x THEN "returned" ELSE step[y]
                     /\ ret'[y] = IF y = x THEN "timeout" ELSE ret[y]
                     /\ Outstanding(y)' <=> Outstanding(y) /\ y # x
  BY <1>0, <1>1, Zenon DEF Typed, Outstanding
<1>5. TypeOK'
  <2>1. step' \in [Xid -> Steps] /\ ret' \in [Xid -> Returns]
    BY <1>0, <1>1, Zenon DEF Typed, Steps, Returns
  <2> QED BY <2>1, <1>1, <1>3, Zenon DEF IInv, TypeOK, rpccTypeOK, rpcsTypeOK
<1>6. ClientOnly
  <2>1. ~InTime'
    BY <1>4, Zenon DEF InTime
  <2> QED BY <2>1, <1>1, <1>4, Zenon DEF ClientOnly, IInv, InvMessages
<1>7. ASSUME NEW y \in Xid PROVE Unused(y)'
  <2>1. Unused(y) /\ y \in Nat /\ xid \in Nat
    BY <1>0, Zenon DEF IInv, InvUnused, Typed
  <2>2. y >= xid => y # x
    BY <2>1, <1>2
  <2>3. CASE y = x
    <3>1. step'[y] = "returned" /\ xid' = xid /\ ~(y >= xid)
      BY <2>2, <2>3, <1>1, <1>4, Zenon
    <3> QED BY <3>1, Zenon DEF Unused
  <2>4. CASE y # x
    BY <2>1, <2>4, <1>1, <1>4, Zenon DEF Unused
  <2> QED BY <2>3, <2>4, Zenon
<1>8. InvWindow'
  BY <1>1, <1>3, <1>4 DEF IInv, InvWindow
<1>9. ASSUME NEW y \in Xid PROVE Header(y)'
  <2>1. Header(y)
    BY Zenon DEF IInv, InvHdr
  <2>2. hdr[y].rep \in Nat /\ XidRep \in Nat /\ XidRep' \in Nat
    <3>1. XidRep' \in 0 .. MaxCalls
      BY <1>3, SeqTail, Zenon DEF XidRep
    <3>2. XidRep' \in Nat
      BY <3>1
    <3> QED BY <3>2, <1>0, Zenon DEF Typed
  <2> QED BY <2>1, <2>2, <1>1, <1>3, <1>4, SMTT(20) DEF Header
<1>10. InvNonces'
  BY <1>1, Zenon DEF IInv, InvNonces
<1>11. ASSUME NEW y \in Xid PROVE Result(y)'
  <2>1. Result(y)
    BY Zenon DEF IInv, InvRet
  <2>2. CASE y = x
    BY <2>2, <1>4, Zenon DEF Result
  <2>3. CASE y # x
    <3>1. /\ ret'[y] = ret[y] /\ hdr'[y] = hdr[y] /\ step'[y] = step[y]
          /\ Outstanding(y)' <=> Outstanding(y)
      BY <2>3, <1>1, <1>4, Zenon
    <3>2. \A n : Answered(y, n)' <=> Answered(y, n)
      BY <1>1, Zenon DEF Answered
    <3> QED BY <2>1, <3>1, <3>2, <1>1, Zenon DEF Result
  <2> QED BY <2>2, <2>3, Zenon
<1> QED BY <1>5, <1>6, <1>7, <1>8, <1>9, <1>10, <1>11, ClientOnlyStep, Zenon
           DEF IInv, InvUnused, InvHdr, InvRet

(* got_pdu: a reply that arrives is taken by a call that waits, or by none. *)
LEMMA ReceiveStep ==
  ASSUME IInv, NEW m \in replies, Receive(m)
  PROVE  IInv'
<1> USE Bounds
<1>0. Typed
  BY Types, Zenon DEF IInv
<1>x. PICK x \in Xid : x = m.xid
  BY <1>0, Zenon DEF Typed, Reply
<1>taken. PICK taken \in BOOLEAN : taken <=> Outstanding(x) /\ ret[x] = "none"
  BY Zenon
<1>1. /\ xid_rep_window' = UpdateXidRep(xid_rep_window, x)
      /\ ret' = IF taken THEN [ret EXCEPT ![x] = m.ret] ELSE ret
      /\ bind_rep' = IF taken /\ hdr[x].srv = 0 THEN m.nonce ELSE bind_rep
      /\ replies' = replies \ {m}
      /\ UNCHANGED <<xid, step, hdr, ch, srv_nonce, dup_req, xid_rep_done, destroy_wait,
                     up, nonce, reply_window, conn, running, sending, execs, chan, alive,
                     reqs>>
  BY <1>x, <1>taken, Zenon DEF Receive, GotReply, rpcsVars
<1>2. x < xid /\ x \in Nat /\ xid \in Nat
  <2>1. xid \in Nat
    BY <1>0, Zenon DEF Typed
  <2> QED BY <2>1, <1>x, Zenon DEF IInv, InvMessages, Truthful
<1>3. /\ xid_rep_window' \in Seq(0 .. MaxCalls) /\ xid_rep_window' # <<>>
      /\ Ascending(xid_rep_window') /\ ~Has(xid_rep_window', XidRep' + 1)
      /\ XidRep <= XidRep' /\ XidRep' < xid
      /\ \A y \in 0 .. MaxCalls : Has(xid_rep_window', y) => y < xid
      /\ \A y \in Xid : Received(y)' <=> y = x \/ Received(y)
  BY <1>1, <1>2, WindowMoves, Zenon
<1>4. \A y \in Xid : /\ ret'[y] = IF y = x /\ taken THEN m.ret ELSE ret[y]
                     /\ Outstanding(y)' <=> Outstanding(y)
  BY <1>0, <1>1, Zenon DEF Typed, Outstanding
<1>m. /\ m.ret \in {"ok", "oldsrv", "forgotten"} /\ m.nonce \in Instance /\ m.nonce <= nonce
      /\ m.ret = "ok" => Answered(x, m.nonce)
      /\ m.ret = "oldsrv" => 0 < hdr[x].srv /\ hdr[x].srv < nonce
      /\ m.ret = "forgotten" => ret[x] # "none"
  BY <1>0, <1>x, Zenon DEF IInv, InvMessages, Truthful, Typed, Reply
<1>5. TypeOK'
  <2>1. ret' \in [Xid -> Returns]
    BY <1>0, <1>1, <1>m, Zenon DEF Typed, Returns
  <2>2. bind_rep' \in 0 .. MaxInstances
    BY <1>0, <1>1, <1>m DEF Typed, Instance
  <2> QED BY <2>1, <2>2, <1>1, <1>3, Zenon DEF IInv, TypeOK, rpccTypeOK, rpcsTypeOK
<1>r. ret'[x] # "none"
  <2>1. CASE taken
    BY <2>1, <1>4, <1>m, Zenon
  <2>2. CASE ~taken /\ ~Outstanding(x)
    <3>1. step[x] = "returned"
      BY <2>2, <1>0, <1>2 DEF IInv, InvUnused, Unused, Typed, Steps, Outstanding
    <3> QED BY <3>1, <2>2, <1>4, Zenon DEF IInv, InvWindow
  <2> QED BY <2>1, <2>2, <1>taken, <1>4, Zenon
<1>6. ClientOnly
  <2>1. ASSUME InTime' PROVE InTime
    BY <2>1, <1>taken, <1>4, Zenon DEF InTime
  <2> QED BY <2>1, <1>1, <1>4, <1>m, Zenon DEF ClientOnly, IInv, InvMessages
<1>7. ASSUME NEW y \in Xid PROVE Unused(y)'
  <2>1. Unused(y) /\ y \in Nat
    BY <1>0, Zenon DEF IInv, InvUnused
  <2>2. y >= xid => y # x
    BY <2>1, <1>2
  <2>3. CASE y = x
    <3>1. step'[y] = step[y] /\ xid' = xid /\ ~(y >= xid)
      BY <2>2, <2>3, <1>1, Zenon
    <3> QED BY <2>1, <3>1, Zenon DEF Unused
  <2>4. CASE y # x
    BY <2>1, <2>4, <1>1, <1>4, Zenon DEF Unused
  <2> QED BY <2>3, <2>4, Zenon
<1>8. InvWindow'
  BY <1>1, <1>3, <1>4, <1>r, <1>m, Zenon DEF IInv, InvWindow
<1>9. ASSUME NEW y \in Xid PROVE Header(y)'
  <2>1. Header(y)
    BY Zenon DEF IInv, InvHdr
  <2>2. hdr[y].rep \in Nat /\ XidRep \in Nat /\ XidRep' \in Nat
    <3>1. XidRep' \in 0 .. MaxCalls
      BY <1>3, SeqTail, Zenon DEF XidRep
    <3>2. XidRep' \in Nat
      BY <3>1
    <3> QED BY <3>2, <1>0, Zenon DEF Typed
  <2> QED BY <2>1, <2>2, <1>1, <1>3, <1>4, SMTT(20) DEF Header
<1>10. InvNonces'
  BY <1>1, <1>m, Zenon DEF IInv, InvNonces
<1>11. ASSUME NEW y \in Xid PROVE Result(y)'
  <2>1. Result(y) /\ Header(x)
    BY Zenon DEF IInv, InvRet, InvHdr
  <2>2. \A n : Answered(y, n)' <=> Answered(y, n)
    BY <1>1, Zenon DEF Answered
  <2>3. CASE y = x /\ taken
    <3>1. Outstanding(x) /\ step[x] # "returned"
      BY <2>3, <1>taken, Zenon DEF Outstanding
    <3>2. ASSUME m.ret = "ok", hdr[x].srv # 0 PROVE Answered(x, hdr[x].srv)
      <4>1. Answered(x, m.nonce) /\ execs[<<x, m.nonce>>] # 0
        BY <3>2, <1>m DEF Answered
      <4>2. hdr[x].srv \in {0, m.nonce}
        BY <4>1, <1>m, Zenon DEF IInv, InvExecs, Executed
      <4> QED BY <3>2, <4>1, <4>2, Zenon
    <3>3. ret'[y] = m.ret /\ m.ret # "forgotten"
      BY <2>3, <1>m, <1>taken, <1>4, Zenon
    <3>4. /\ hdr'[y] = hdr[x] /\ nonce' = nonce /\ step'[y] = step[x]
          /\ hdr[x].srv = 0 => bind_rep' = m.nonce
      BY <2>3, <1>1, Zenon
    <3> QED BY <3>1, <3>2, <3>3, <3>4, <2>2, <2>3, <1>m, Zenon DEF Result
  <2>4. CASE y = x /\ ~taken
    BY <2>1, <2>4, <1>1, <1>4, Zenon DEF Result, Answered
  <2>5. CASE y # x
    <3>1. hdr[y].srv = 0 /\ Outstanding(y) => bind_rep' = bind_rep
      <4>1. Header(y)
        BY Zenon DEF IInv, InvHdr
      <4> QED BY <2>1, <2>5, <4>1, <1>1, <1>taken, Zenon DEF Header
    <3>2. /\ ret'[y] = ret[y] /\ hdr'[y] = hdr[y] /\ nonce' = nonce /\ step'[y] = step[y]
          /\ srv_nonce' = srv_nonce /\ destroy_wait' = destroy_wait
          /\ Outstanding(y)' <=> Outstanding(y)
      BY <2>5, <1>1, <1>4, Zenon
    <3> QED BY <2>1, <2>2, <3>1, <3>2, Zenon DEF Result
  <2> QED BY <2>3, <2>4, <2>5, Zenon
<1> QED BY <1>5, <1>6, <1>7, <1>8, <1>9, <1>10, <1>11, ClientOnlyStep, Zenon
           DEF IInv, InvUnused, InvHdr, InvRet

-----------------------------------------------------------------------------
(* checkduplicate_and_update *)

Rising(w) == \A i, k \in DOMAIN w : i < k => w[i].xid < w[k].xid
Splits(n, w, i, x) ==
  (\A k \in 1 .. i - 1 : w[k].xid < x) /\ \A k \in i .. n : x < w[k].xid

(* The place of a request in the window exists. *)
LEMMA LowerExists ==
  ASSUME NEW N \in Nat, NEW w \in Seq(Entries(N)), NEW x \in 0 .. N
  PROVE  /\ Lower(w, x) \in 1 .. Len(w) + 1
         /\ \A k \in 1 .. Lower(w, x) - 1 : w[k].xid < x
         /\ Lower(w, x) <= Len(w) => w[Lower(w, x)].xid >= x
<1> DEFINE T == {i \in 1 .. Len(w) + 1 : i <= Len(w) => w[i].xid >= x}
<1>1. Len(w) \in Nat /\ \A k \in 1 .. Len(w) : w[k].xid \in Nat
  <2>1. Len(w) \in Nat /\ \A k \in 1 .. Len(w) : w[k] \in Entries(N)
    OBVIOUS
  <2> QED BY <2>1 DEF Entries
<1>2. Len(w) + 1 \in T /\ T \subseteq Nat
  BY <1>1
<1>3. PICK i \in T : \A k \in T : i <= k
  BY <1>2, Least, Zenon
<1>4. \A k \in 1 .. i - 1 : w[k].xid < x
  BY <1>1, <1>3
<1>5. i \in 1 .. Len(w) + 1 /\ (i <= Len(w) => w[i].xid >= x)
  BY <1>3, Zenon
<1> QED BY <1>4, <1>5, Zenon DEF Lower

(* An entry put in where it belongs. *)
LEMMA EntryInOrder ==
  ASSUME NEW N \in Nat, NEW n \in Nat, NEW w \in [1 .. n -> Entries(N)],
         NEW v \in [1 .. n + 1 -> Entries(N)], NEW e \in Entries(N), NEW i \in 1 .. n + 1,
         Rising(w), Splits(n, w, i, e.xid), WithAt(n, w, i, e, v)
  PROVE  Rising(v) /\ Adds(v, w, e)
<1> USE DEF Splits, WithAt
<1>0. /\ e.xid \in Nat /\ \A k \in 1 .. n : w[k].xid \in Nat
      /\ \A k \in 1 .. n + 1 : v[k].xid \in Nat
  BY DEF Entries
<1>1. ASSUME NEW k \in 1 .. n + 1, k > i
      PROVE  k - 1 \in i .. n /\ v[k] = w[k - 1] /\ e.xid < v[k].xid
  <2>1. k - 1 \in i .. n /\ (k - 1) + 1 = k
    BY <1>1
  <2> QED BY <2>1, Zenon
<1>2. Rising(v)
  <2> SUFFICES ASSUME NEW a \in 1 .. n + 1, NEW b \in 1 .. n + 1, a < b
               PROVE  v[a].xid < v[b].xid
    BY Zenon DEF Rising
  <2>1. CASE b < i
    BY <2>1 DEF Rising
  <2>2. CASE b = i
    BY <2>2
  <2>3. CASE b > i /\ a < i
    BY <2>3, <1>0, <1>1, SMTT(20)
  <2>4. CASE b > i /\ a = i
    BY <2>4, <1>1, Zenon
  <2>5. CASE b > i /\ a > i
    BY <2>5, <1>1 DEF Rising
  <2> QED BY <2>1, <2>2, <2>3, <2>4, <2>5
<1>3. ASSUME NEW k \in 1 .. n + 1 PROVE v[k] = e \/ Has(w, v[k])
  <2>1. CASE k < i
    BY <2>1 DEF Has
  <2>2. CASE k > i
    BY <2>2, <1>1 DEF Has
  <2> QED BY <2>1, <2>2
<1>4. ASSUME NEW k \in 1 .. n PROVE Has(v, w[k])
  <2>1. CASE k < i
    BY <2>1 DEF Has
  <2>2. CASE k >= i
    <3>1. k + 1 \in DOMAIN v /\ v[k + 1] = w[k]
      BY <2>2
    <3> QED BY <3>1, Zenon DEF Has
  <2> QED BY <2>1, <2>2
<1>5. Has(v, e)
  BY Zenon DEF Has
<1> QED BY <1>2, <1>3, <1>4, <1>5 DEF Has, Adds

(* The entries from place f on. *)
LEMMA EntriesFrom ==
  ASSUME NEW N \in Nat, NEW n \in Nat, NEW w \in [1 .. n -> Entries(N)], Rising(w),
         NEW f \in 1 .. n, NEW u \in [1 .. n - f + 1 -> Entries(N)], Suffix(n, w, f, u)
  PROVE  /\ Rising(u) /\ u[1] = w[f]
         /\ \A e : Has(u, e) => Has(w, e)
         /\ \A e : Has(w, e) => e.xid < w[f].xid \/ Has(u, e)
<1> USE DEF Suffix
<1>1. u[1] = w[f]
  OBVIOUS
<1>2. Rising(u)
  BY DEF Rising
<1>3. ASSUME NEW e, Has(u, e) PROVE Has(w, e)
  BY <1>3 DEF Has
<1>4. ASSUME NEW k \in 1 .. n PROVE w[k].xid < w[f].xid \/ Has(u, w[k])
  <2>1. CASE k < f
    BY <2>1, Zenon DEF Rising
  <2>2. CASE k >= f
    <3>1. k - f + 1 \in DOMAIN u /\ u[k - f + 1] = w[k]
      BY <2>2
    <3> QED BY <3>1, Zenon DEF Has
  <2> QED BY <2>1, <2>2
<1> QED BY <1>1, <1>2, <1>3, <1>4, Zenon DEF Has

(* The entry of a new request has its xid and no reply. *)
LEMMA EntryOfXid ==
  ASSUME NEW N \in Nat, NEW x \in 0 .. N
  PROVE  Entry(x) \in Entries(N) /\ Entry(x).xid = x /\ Entry(x).cb_present = FALSE
BY Zenon DEF Entry, Entries

(* A new request is put in its place. *)
LEMMA Remembered ==
  ASSUME NEW N \in Nat, NEW w \in Seq(Entries(N)), w # <<>>, Rising(w),
         NEW x \in 0 .. N, w[1].xid < x, \A k \in DOMAIN w : w[k].xid # x,
         NEW r, r = Remember(w, x)
  PROVE  r \in Seq(Entries(N)) /\ r # <<>> /\ Rising(r) /\ r[1] = w[1] /\ Adds(r, w, Entry(x))
<1>n. PICK n \in Nat : n = Len(w) /\ n # 0
  BY ListAsFunction, Zenon
<1>w. w \in [1 .. n -> Entries(N)]
  BY <1>n, ListAsFunction, Zenon
<1>e. PICK e \in Entries(N) : e = Entry(x) /\ e.xid = x
  BY EntryOfXid, Zenon
<1>t. \A k \in 1 .. n : w[k].xid \in 0 .. N
  BY <1>w, Zenon DEF Entries
<1>1. PICK i \in 1 .. n + 1 : i = Lower(w, x)
  BY <1>n, LowerExists, Zenon
<1>2. (\A k \in 1 .. i - 1 : w[k].xid < x) /\ (i <= n => w[i].xid >= x)
  BY <1>1, <1>n, LowerExists, Zenon
<1>3. i > 1
  BY <1>2, <1>n, <1>t
<1>4. ASSUME NEW k \in i .. n PROVE x < w[k].xid
  <2>1. i \in 1 .. n /\ k \in 1 .. n
    OBVIOUS
  <2>2. w[i].xid > x
    BY <2>1, <1>2, <1>t, <1>w
  <2>3. k = i \/ w[i].xid < w[k].xid
    BY <2>1, <1>w DEF Rising
  <2> QED BY <2>1, <2>2, <2>3, <1>t
<1>5. Splits(n, w, i, e.xid)
  BY <1>e, <1>2, <1>4, Zenon DEF Splits
<1>6. r \in Seq(Entries(N)) /\ Len(r) = n + 1 /\ WithAt(n, w, i, e, r)
  <2>1. r = Insert(w, i, e) /\ i \in 1 .. Len(w) + 1
    BY <1>1, <1>e, <1>n, Zenon DEF Remember
  <2> QED BY <2>1, <1>n, Inserted
<1>7. r \in [1 .. n + 1 -> Entries(N)]
  <2>1. r \in [1 .. Len(r) -> Entries(N)]
    BY <1>6, ListAsFunction, Zenon
  <2> QED BY <2>1, <1>6, Zenon
<1>8. Rising(r) /\ Adds(r, w, e)
  BY <1>5, <1>6, <1>7, <1>w, EntryInOrder, Zenon
<1>9. r # <<>>
  <2>1. Len(r) # 0
    BY <1>6
  <2> QED BY <2>1, Zenon
<1>10. r[1] = w[1]
  BY <1>3, <1>6 DEF WithAt
<1> QED BY <1>e, <1>6, <1>8, <1>9, <1>10, Zenon

(* k is what Forget leaves of w. *)
Pruned(N, w, rep, k) ==
  /\ k \in Seq(Entries(N)) /\ k # <<>> /\ Rising(k)
  /\ k[1].xid \in {w[1].xid, rep} /\ w[1].xid <= k[1].xid /\ rep <= k[1].xid
  /\ \A e : Has(k, e) => Has(w, e) \/ e = Entry(rep)
  /\ \A e : Has(w, e) => e.xid < rep \/ Has(k, e)

(* What the client has reported as received is dropped, and nothing else. *)
LEMMA Forgotten ==
  ASSUME NEW N \in Nat, NEW w \in Seq(Entries(N)), w # <<>>, Rising(w), NEW rep \in 0 .. N
  PROVE  Pruned(N, w, rep, Forget(w, rep))
<1>n. PICK n \in Nat : n = Len(w) /\ n # 0
  BY ListAsFunction, Zenon
<1>w. w \in [1 .. n -> Entries(N)]
  BY <1>n, ListAsFunction, Zenon
<1>e. PICK e \in Entries(N) : e = Entry(rep) /\ e.xid = rep
  BY EntryOfXid, Zenon
<1>t. (\A k \in 1 .. n : w[k].xid \in 0 .. N) /\ 1 \in 1 .. n
  BY <1>w, <1>n DEF Entries
<1>1. CASE rep <= w[1].xid
  <2>1. Forget(w, rep) = w
    BY <1>1, Zenon DEF Forget
  <2> QED BY <2>1, <1>1, <1>t DEF Pruned
<1>2. CASE w[1].xid < rep
  <2>1. PICK g \in 1 .. n + 1 : g = Lower(w, rep)
    BY <1>n, LowerExists, Zenon
  <2>2. (\A k \in 1 .. g - 1 : w[k].xid < rep) /\ (g <= n => w[g].xid >= rep)
    BY <2>1, <1>n, LowerExists, Zenon
  <2>3. PICK u : u = SubSeq(w, g, n)
    BY Zenon
  <2>4. Forget(w, rep) = IF u # <<>> /\ u[1].xid = rep THEN u ELSE <<e>> \o u
    BY <1>2, <1>e, <1>n, <1>t, <2>1, <2>3 DEF Forget
  <2>5. CASE g = n + 1
    <3>1. u = <<>>
      BY <2>3, <2>5
    <3>2. Forget(w, rep) = <<e>>
      BY <2>4, <3>1
    <3>3. \A d : Has(w, d) => d.xid < rep
      BY <2>2, <2>5, <1>w DEF Has
    <3>4. <<e>> \in Seq(Entries(N)) /\ <<e>> # <<>> /\ Rising(<<e>>) /\ <<e>>[1] = e
      BY DEF Rising
    <3>5. \A d : Has(<<e>>, d) => d = e
      BY DEF Has
    <3> QED BY <3>2, <3>3, <3>4, <3>5, <1>e, <1>2, <1>t DEF Pruned
  <2>6. CASE g <= n
    <3>1. /\ u \in Seq(Entries(N)) /\ u # <<>> /\ u \in [1 .. n - g + 1 -> Entries(N)]
          /\ Suffix(n, w, g, u)
      <4>1. g \in 1 .. Len(w) /\ u = SubSeq(w, g, Len(w))
        BY <2>3, <2>6, <1>n
      <4>2. /\ u \in Seq(Entries(N)) /\ u # <<>> /\ u \in [1 .. Len(w) - g + 1 -> Entries(N)]
            /\ Suffix(Len(w), w, g, u)
        BY <4>1, SuffixAsFunction, Zenon
      <4> QED BY <4>2, <1>n, Zenon
    <3>2. /\ Rising(u) /\ u[1] = w[g]
          /\ \A d : Has(u, d) => Has(w, d)
          /\ \A d : Has(w, d) => d.xid < w[g].xid \/ Has(u, d)
      <4>1. g \in 1 .. n
        BY <2>6
      <4> QED BY <4>1, <3>1, <1>w, EntriesFrom, Zenon
    <3>3. w[g].xid >= rep /\ w[g].xid \in 0 .. N
      BY <2>2, <2>6, <1>t
    <3>4. \A d : Has(w, d) => d.xid < rep \/ Has(u, d)
      <4> SUFFICES ASSUME NEW k \in 1 .. n PROVE w[k].xid < rep \/ Has(u, w[k])
        BY <1>w, Zenon DEF Has
      <4>1. CASE k < g
        BY <4>1, <2>2
      <4>2. CASE k >= g
        <5>1. ~(w[k].xid < w[g].xid)
          BY <4>2, <2>6, <1>w, <1>t DEF Rising
        <5> QED BY <5>1, <3>2, <1>w, Zenon DEF Has
      <4> QED BY <4>1, <4>2
    <3>5. CASE u[1].xid = rep
      <4>1. Forget(w, rep) = u
        BY <3>1, <3>5, <2>4, Zenon
      <4> QED BY <4>1, <3>1, <3>2, <3>4, <3>5, <1>2, <1>t DEF Pruned
    <3>6. CASE u[1].xid # rep
      <4>1. PICK v : v = <<e>> \o u
        BY Zenon
      <4>2. Forget(w, rep) = v
        BY <3>6, <2>4, <4>1, Zenon
      <4>3. PICK m \in Nat : m = n - g + 1
        BY <2>6
      <4>4. Len(u) = m /\ u \in [1 .. m -> Entries(N)]
        BY <3>1, <4>3
      <4>5. v \in Seq(Entries(N)) /\ Len(v) = m + 1
        BY <3>1, <4>1, <4>4
      <4>6. WithAt(m, u, 1, e, v)
        BY <3>1, <4>1, <4>4 DEF WithAt
      <4>7. v \in [1 .. m + 1 -> Entries(N)]
        BY <4>5, ListAsFunction, Zenon
      <4>8. Splits(m, u, 1, e.xid)
        <5> SUFFICES ASSUME NEW k \in 1 .. m PROVE rep < u[k].xid
          BY <1>e DEF Splits
        <5>1. rep < u[1].xid
          BY <3>2, <3>3, <3>6
        <5>2. k = 1 \/ u[1].xid < u[k].xid
          BY <3>2, <4>4 DEF Rising
        <5>3. u[1].xid \in 0 .. N /\ u[k].xid \in 0 .. N
          BY <4>4 DEF Entries
        <5> QED BY <5>1, <5>2, <5>3
      <4>9. Rising(v) /\ Adds(v, u, e)
        <5>1. 1 \in 1 .. m + 1
          BY <4>3
        <5> QED BY <5>1, <3>2, <4>4, <4>6, <4>7, <4>8, EntryInOrder, Zenon
      <4>10. v # <<>> /\ v[1] = e
        BY <4>1, <4>5, <4>6 DEF WithAt
      <4>11. \A d : Has(v, d) => Has(w, d) \/ d = e
        BY <4>9, <3>2, Zenon DEF Adds
      <4>12. \A d : Has(w, d) => d.xid < rep \/ Has(v, d)
        BY <4>9, <3>4, Zenon DEF Adds
      <4> QED BY <4>2, <4>5, <4>9, <4>10, <4>11, <4>12, <1>e, <1>2, <1>t DEF Pruned
    <3> QED BY <3>5, <3>6, Zenon
  <2> QED BY <2>5, <2>6
<1> QED BY <1>1, <1>2, <1>t

(* What the lookup of request x, which reports rep, makes of window w, and what
   its answer says. *)
Looked(N, w, x, rep, stat, win) ==
  /\ stat \in {"NEW", "INPROGRESS", "DONE", "FORGOTTEN"}
  /\ win \in Seq(Entries(N)) /\ win # <<>> /\ Rising(win)
  /\ win[1].xid = rep \/ (w # <<>> /\ win[1].xid = w[1].xid)
  /\ w # <<>> => w[1].xid <= win[1].xid
  /\ \A e : Has(win, e) => Has(w, e) \/ e = Entry(rep) \/ (stat = "NEW" /\ e = Entry(x))
  /\ \A e : Has(w, e) => (e.xid < rep /\ rep <= win[1].xid) \/ Has(win, e)
  /\ stat = "NEW" => /\ w # <<>> => w[1].xid < x
                     /\ \A e : Has(w, e) => e.xid # x
                     /\ Has(win, Entry(x))
  /\ stat = "DONE" => \E e : Has(w, e) /\ e.xid = x /\ e.cb_present
  /\ stat = "FORGOTTEN" => w # <<>> /\ x <= w[1].xid /\ win = w

(* The first request of a client makes the window. *)
LEMMA FirstLookup ==
  ASSUME NEW N \in Nat, NEW x \in 1 .. N, NEW rep \in 0 .. N, rep < x,
         NEW r, r = CheckDuplicate(<<>>, x, rep)
  PROVE  Looked(N, <<>>, x, rep, r.stat, r.win)
<1>1. PICK d \in Entries(N) : d = Entry(rep) /\ d.xid = rep
  BY EntryOfXid, Zenon
<1>2. PICK e \in Entries(N) : e = Entry(x) /\ e.xid = x
  <2>1. x \in 0 .. N
    OBVIOUS
  <2> QED BY <2>1, EntryOfXid, Zenon
<1>3. r = [stat |-> "NEW", win |-> <<d, e>>]
  BY <1>1, <1>2, Zenon DEF CheckDuplicate
<1>4. r.stat = "NEW" /\ r.win = <<d, e>>
  BY <1>3
<1>5. <<d, e>> \in Seq(Entries(N)) /\ <<d, e>> # <<>> /\ <<d, e>>[1] = d
  OBVIOUS
<1>6. Rising(<<d, e>>)
  BY <1>1, <1>2 DEF Rising
<1>7. (\A c : Has(<<d, e>>, c) => c = d \/ c = e) /\ Has(<<d, e>>, e) /\ \A c : ~Has(<<>>, c)
  BY DEF Has
<1>8. Looked(N, <<>>, x, rep, "NEW", <<d, e>>)
  BY <1>1, <1>2, <1>5, <1>6, <1>7, Zenon DEF Looked
<1> QED BY <1>4, <1>8, Zenon

(* checkduplicate_and_update *)
LEMMA LookedUp ==
  ASSUME NEW N \in Nat, NEW w \in Seq(Entries(N)), Rising(w),
         NEW x \in 1 .. N, NEW rep \in 0 .. N, rep < x,
         NEW r, r = CheckDuplicate(w, x, rep)
  PROVE  Looked(N, w, x, rep, r.stat, r.win)
<1>1. CASE w = <<>>
  BY <1>1, FirstLookup, Zenon
<1>2. CASE w # <<>>
  <2>1. w[1].xid \in 0 .. N
    <3>1. w[1] \in Entries(N)
      BY <1>2
    <3> QED BY <3>1, Zenon DEF Entries
  <2>2. CASE x <= w[1].xid
    <3>1. r = [stat |-> "FORGOTTEN", win |-> w]
      BY <1>2, <2>2, Zenon DEF CheckDuplicate
    <3>2. r.stat = "FORGOTTEN" /\ r.win = w
      BY <3>1
    <3>3. Looked(N, w, x, rep, "FORGOTTEN", w)
      BY <1>2, <2>1, <2>2 DEF Looked
    <3> QED BY <3>2, <3>3, Zenon
  <2>3. CASE w[1].xid < x
    <3>1. PICK k : k = Forget(w, rep)
      BY Zenon
    <3>2. /\ k \in Seq(Entries(N)) /\ k # <<>> /\ Rising(k)
          /\ k[1].xid \in {w[1].xid, rep} /\ w[1].xid <= k[1].xid /\ rep <= k[1].xid
          /\ \A e : Has(k, e) => Has(w, e) \/ e = Entry(rep)
          /\ \A e : Has(w, e) => e.xid < rep \/ Has(k, e)
      BY <3>1, <1>2, Forgotten, Zenon DEF Pruned
    <3>3. k[1].xid < x
      BY <3>2, <2>1, <2>3, Zenon
    <3>4. CASE \A i \in DOMAIN k : k[i].xid # x
      <4>1. PICK v : v = Remember(k, x)
        BY Zenon
      <4>2. x \in 0 .. N
        OBVIOUS
      <4>3. /\ v \in Seq(Entries(N)) /\ v # <<>> /\ Rising(v) /\ v[1] = k[1]
            /\ \A e : Has(v, e) <=> e = Entry(x) \/ Has(k, e)
        BY <4>1, <4>2, <3>2, <3>3, <3>4, Remembered, Zenon DEF Adds
      <4>4. r = [stat |-> "NEW", win |-> v]
        <5>1. {i \in DOMAIN k : k[i].xid = x} = {}
          BY <3>4, Zenon
        <5>2. ~(x <= w[1].xid)
          BY <2>1, <2>3
        <5> QED BY <5>1, <5>2, <4>1, <3>1, <1>2, Zenon DEF CheckDuplicate
      <4>5. r.stat = "NEW" /\ r.win = v
        BY <4>4
      <4>6. \A e : Has(w, e) => e.xid # x
        BY <3>2, <3>4 DEF Has
      <4>7. Looked(N, w, x, rep, "NEW", v)
        <5>1. \A e : Has(v, e) => Has(w, e) \/ e = Entry(rep) \/ e = Entry(x)
          BY <4>3, <3>2, Zenon
        <5>2. \A e : Has(w, e) => (e.xid < rep /\ rep <= v[1].xid) \/ Has(v, e)
          BY <4>3, <3>2, Zenon
        <5>3. v[1].xid = rep \/ v[1].xid = w[1].xid
          BY <4>3, <3>2, Zenon
        <5>4. w[1].xid <= v[1].xid /\ Has(v, Entry(x))
          BY <4>3, <3>2, Zenon
        <5> QED BY <5>1, <5>2, <5>3, <5>4, <4>3, <4>6, <1>2, <2>3, Zenon DEF Looked
      <4> QED BY <4>5, <4>7, Zenon
    <3>5. CASE \E i \in DOMAIN k : k[i].xid = x
      <4>0. PICK st : st = IF \E i \in {j \in DOMAIN k : k[j].xid = x} : k[i].cb_present
                           THEN "DONE" ELSE "INPROGRESS"
        BY Zenon
      <4>1. r = [stat |-> st, win |-> k]
        <5>1. {i \in DOMAIN k : k[i].xid = x} # {}
          BY <3>5, Zenon
        <5>2. ~(x <= w[1].xid)
          BY <2>1, <2>3
        <5> QED BY <5>1, <5>2, <4>0, <3>1, <1>2, Zenon DEF CheckDuplicate
      <4>2. r.stat = st /\ r.win = k /\ st \in {"DONE", "INPROGRESS"}
        BY <4>0, <4>1
      <4>3. ASSUME st = "DONE" PROVE \E e : Has(w, e) /\ e.xid = x /\ e.cb_present
        <5>1. PICK i \in DOMAIN k : k[i].xid = x /\ k[i].cb_present
          BY <4>0, <4>3, Zenon
        <5>2. Has(k, k[i])
          BY Zenon DEF Has
        <5>3. k[i] # Entry(rep)
          BY <5>1, EntryOfXid, Zenon
        <5> QED BY <5>1, <5>2, <5>3, <3>2, Zenon
      <4>4. Looked(N, w, x, rep, st, k)
        BY <4>2, <4>3, <3>2, <1>2, Zenon DEF Looked
      <4> QED BY <4>2, <4>4, Zenon
    <3> QED BY <3>4, <3>5, Zenon
  <2> QED BY <2>1, <2>2, <2>3
<1> QED BY <1>1, <1>2, Zenon

(* add_reply marks the entries of x and moves none. *)
Marks(N, w, x, u) ==
  /\ u \in Seq(Entries(N)) /\ Rising(u) /\ DOMAIN u = DOMAIN w
  /\ \A i \in DOMAIN w : u[i].xid = w[i].xid /\ (w[i].xid # x => u[i] = w[i])
  /\ u = <<>> <=> w = <<>>

(* What add_reply makes of the window. *)
LEMMA Marked ==
  ASSUME NEW N \in Nat, NEW w \in Seq(Entries(N)), Rising(w), NEW x, NEW u,
         u = [i \in DOMAIN w |-> IF w[i].xid = x THEN [w[i] EXCEPT !.cb_present = TRUE] ELSE w[i]]
  PROVE  Marks(N, w, x, u)
<1>1. PICK n \in Nat : n = Len(w)
  BY ListAsFunction, Zenon
<1>2. w \in [1 .. n -> Entries(N)]
  BY <1>1, ListAsFunction, Zenon
<1>3. \A i \in 1 .. n : u[i] \in Entries(N) /\ u[i].xid = w[i].xid
  BY <1>2, Zenon DEF Entries
<1>4. DOMAIN w = 1 .. n /\ DOMAIN u = 1 .. n
  BY <1>2, Zenon
<1>5. u \in Seq(Entries(N)) /\ Len(u) = n
  <2>1. u \in [1 .. n -> Entries(N)]
    BY <1>3, <1>4, Zenon
  <2> QED BY <2>1, SeqMeans
<1>6. Rising(u)
  BY <1>3, <1>4 DEF Rising
<1>7. u = <<>> <=> w = <<>>
  <2>1. u = <<>> <=> n = 0
    BY <1>5, SeqEmpty, Zenon
  <2>2. w = <<>> <=> n = 0
    BY <1>1, SeqEmpty, Zenon
  <2> QED BY <2>1, <2>2, Zenon
<1> QED BY <1>3, <1>4, <1>5, <1>6, <1>7, Zenon DEF Marks

-----------------------------------------------------------------------------
(* Steps of the server *)

(* What is sent on a connection, if it is true, is all that is new. *)
Right(x, r) ==
  \/ r = "ok" /\ Answered(x, nonce)
  \/ r = "oldsrv" /\ 0 < hdr[x].srv /\ hdr[x].srv < nonce
  \/ r = "forgotten" /\ ret[x] # "none"

(* A right reply on a connection leaves all replies truthful. *)
LEMMA SentOn ==
  ASSUME IInv, NEW c \in Conn, NEW x \in Xid, NEW r, x < xid, Right(x, r)
  PROVE  SendOn(c, x, r) \subseteq Reply /\ \A m \in SendOn(c, x, r) : Truthful(m)
<1>0. Typed
  BY Types, Zenon DEF IInv
<1>1. CASE Dead(c)
  BY <1>0, <1>1, Zenon DEF IInv, InvMessages, Typed, SendOn
<1>2. CASE ~Dead(c)
  <2>1. PICK m : m = [xid |-> x, ret |-> r, nonce |-> nonce, conn |-> c]
    BY Zenon
  <2>2. m.xid = x /\ m.ret = r /\ m.nonce = nonce
    BY <2>1, Zenon
  <2>3. m \in Reply
    BY <2>1, <1>0, <1>2, Zenon DEF Typed, Reply, Right
  <2>4. Truthful(m)
    BY <2>2, <1>0, Bounds DEF Typed, Truthful, Right
  <2>5. SendOn(c, x, r) = replies \cup {m}
    BY <1>2, <2>1, Zenon DEF SendOn
  <2> QED BY <2>3, <2>4, <2>5, <1>0, Zenon DEF IInv, InvMessages, Typed
<1> QED BY <1>1, <1>2, Zenon

(* A request meant for an earlier instance is told so. *)
LEMMA DispatchOldStep ==
  ASSUME IInv, NEW m \in reqs, DispatchOld(m)
  PROVE  IInv'
<1> USE Bounds
<1>0. Typed
  BY Types, Zenon DEF IInv
<1>1. /\ hdr[m.xid].srv # 0 /\ hdr[m.xid].srv # nonce
      /\ replies' = SendOn(m.conn, m.xid, "oldsrv")
      /\ reqs' = reqs \ {m}
      /\ UNCHANGED <<xid, step, ret, hdr, ch, srv_nonce, bind_rep, xid_rep_window, dup_req,
                     xid_rep_done, destroy_wait, up, nonce, reply_window, conn, running,
                     sending, execs, chan, alive>>
  BY Zenon DEF DispatchOld, OldServer, rpccVars, rpcsVars
<1>2. m.xid \in Xid /\ m.conn \in Conn
  BY <1>0, Zenon DEF Typed, Request
<1>3. m.xid < xid
  BY Zenon DEF IInv, InvMessages
<1>4. 0 < hdr[m.xid].srv /\ hdr[m.xid].srv < nonce
  <2>1. hdr[m.xid].srv \in {0, srv_nonce} /\ srv_nonce <= nonce
    BY <1>2, Zenon DEF IInv, InvHdr, Header, InvNonces
  <2>2. nonce \in Nat /\ \A x \in Xid : hdr[x].srv \in Nat
    BY <1>0, Zenon DEF Typed
  <2>3. hdr[m.xid].srv \in Nat
    BY <2>2, <1>2, Zenon
  <2> QED BY <1>1, <2>1, <2>2, <2>3
<1>5. replies' \subseteq Reply /\ \A r \in replies' : Truthful(r)
  <2>1. Right(m.xid, "oldsrv")
    BY <1>4, Zenon DEF Right
  <2> QED BY <1>1, <1>2, <1>3, <2>1, SentOn, Zenon
<1>6. TypeOK'
  BY <1>1, <1>5, Zenon DEF IInv, TypeOK, rpccTypeOK, rpcsTypeOK
<1>7. Quiet
  BY <1>1, <1>5, Zenon DEF IInv, InvMessages, Quiet
<1> QED BY <1>6, <1>7, QuietStep, Zenon

(* A saved reply is sent; if it has been freed, another saved one or none. *)
LEMMA SendReplyStep ==
  ASSUME IInv, NEW j \in sending, SendReply(j)
  PROVE  IInv'
<1> USE Bounds
<1>0. Typed
  BY Types, Zenon DEF IInv
<1>1. PICK c : c = IF Dead(j.conn) /\ ~j.dup THEN conn ELSE j.conn
  BY Zenon
<1>2. /\ sending' = sending \ {j}
      /\ UNCHANGED <<xid, step, ret, hdr, ch, srv_nonce, bind_rep, xid_rep_window, dup_req,
                     xid_rep_done, destroy_wait, up, nonce, reply_window, conn, running,
                     execs, chan, alive, reqs>>
  BY Zenon DEF SendReply, Sent, rpccVars
<1>3. \/ \E y \in {j.xid} \cup Saved : y # 0 /\ replies' = SendOn(c, y, "ok")
      \/ replies' = replies
  BY <1>1, Zenon DEF SendReply
<1>4. j.xid \in Xid /\ j.conn \in Conn /\ j.conn <= conn /\ Answered(j.xid, nonce)
  BY <1>0, Zenon DEF IInv, InvJobs, Typed, Outgoing
<1>5. c \in Conn
  <2>1. conn \in 0 .. MaxConns /\ j.conn \in 1 .. MaxConns
    BY <1>0, <1>4, Zenon DEF Typed, Conn
  <2> QED BY <1>1, <1>4, <2>1 DEF Conn
<1>6. ASSUME NEW y \in Saved PROVE y \in Xid /\ Answered(y, nonce)
  <2>1. PICK i \in DOMAIN reply_window : reply_window[i].cb_present /\ y = reply_window[i].xid
    BY Zenon DEF Saved
  <2>2. reply_window[i] \in Entries(MaxCalls) /\ Has(reply_window, reply_window[i])
    <3>1. reply_window \in Seq(Entries(MaxCalls))
      BY Zenon DEF IInv, TypeOK, rpcsTypeOK, Entries
    <3> QED BY <3>1 DEF Has
  <2> QED BY <2>1, <2>2, Zenon DEF IInv, InvEntries
<1>7. ASSUME NEW y \in Xid, Answered(y, nonce) PROVE y < xid
  <2>1. nonce \in Instance /\ execs[<<y, nonce>>] = 1
    BY <1>7, Zenon DEF Answered
  <2> QED BY <2>1, <1>0 DEF IInv, InvUnused, Unused, Typed
<1>8. replies' \subseteq Reply /\ \A r \in replies' : Truthful(r)
  <2>1. CASE replies' = replies
    BY <2>1, <1>0, Zenon DEF IInv, InvMessages, Typed
  <2>2. ASSUME NEW y \in {j.xid} \cup Saved, replies' = SendOn(c, y, "ok")
        PROVE  replies' \subseteq Reply /\ \A r \in replies' : Truthful(r)
    <3>1. y \in Xid /\ Answered(y, nonce) /\ y < xid
      BY <1>4, <1>6, <1>7, Zenon
    <3>2. Right(y, "ok")
      BY <3>1, Zenon DEF Right
    <3> QED BY <2>2, <3>1, <3>2, <1>5, SentOn, Zenon
  <2> QED BY <2>1, <2>2, <1>3, Zenon
<1>9. TypeOK'
  BY <1>2, <1>8, Zenon DEF IInv, TypeOK, rpccTypeOK, rpcsTypeOK
<1>10. Quiet
  BY <1>2, <1>8, Zenon DEF IInv, InvMessages, Quiet
<1> QED BY <1>9, <1>10, QuietStep, Zenon

(* A step of the server: what it cannot disturb as long as what has been answered
   stays so. *)
ServerOnly ==
  /\ UNCHANGED <<xid, step, ret, hdr, srv_nonce, bind_rep, xid_rep_window, dup_req,
                 destroy_wait>>
  /\ nonce <= nonce'
  /\ \A x \in Xid, n \in Instance : Answered(x, n) => Answered(x, n)'
  /\ \A x \in Xid, n \in Instance : x >= xid => execs'[<<x, n>>] = 0
  /\ reqs' \subseteq reqs
  /\ \A m \in replies' : Truthful(m)

(* Such a step keeps what the client has been told true. *)
LEMMA ServerOnlyStep ==
  ASSUME IInv, TypeOK', ServerOnly
  PROVE  /\ InvUnused' /\ InvWindow' /\ InvHdr' /\ InvNonces' /\ InvRet' /\ InvMessages'
         /\ InvReported'
<1> USE Bounds DEF ServerOnly
<1>0. Typed
  BY Types, Zenon DEF IInv
<1>1. XidRep' = XidRep /\ nonce \in Nat /\ nonce' \in Nat
  BY <1>0, Zenon DEF XidRep, Typed, TypeOK, rpcsTypeOK
<1>2. ASSUME NEW x \in Xid, NEW n, Answered(x, n) PROVE Answered(x, n)'
  <2>1. n \in Instance
    BY <1>2, Zenon DEF Answered
  <2> QED BY <2>1, <1>2, Zenon
<1>3. \A x \in Xid : Outstanding(x)' <=> Outstanding(x)
  BY Zenon DEF Outstanding
<1>4. ASSUME NEW x \in Xid PROVE Unused(x)'
  <2>1. Unused(x)
    BY Zenon DEF IInv, InvUnused
  <2> QED BY <2>1, Zenon DEF Unused
<1>5. InvWindow'
  BY <1>1, Zenon DEF IInv, InvWindow, Received
<1>6. ASSUME NEW x \in Xid PROVE Header(x)'
  <2>1. Header(x)
    BY Zenon DEF IInv, InvHdr
  <2> QED BY <2>1, <1>1, <1>3, Zenon DEF Header
<1>7. InvNonces'
  BY <1>0, <1>1 DEF IInv, InvNonces, Typed
<1>8. ASSUME NEW x \in Xid PROVE Result(x)'
  <2>1. Result(x) /\ hdr[x].srv \in Nat
    BY <1>0, Zenon DEF IInv, InvRet, Typed
  <2>2. \A n : Answered(x, n) => Answered(x, n)'
    BY <1>2, Zenon
  <2>3. ret[x] = "oldsrv" => 0 < hdr[x].srv /\ hdr[x].srv < nonce'
    BY <2>1, <1>1 DEF Result
  <2> QED BY <2>1, <2>2, <2>3, <1>3, Zenon DEF Result
<1>9. ASSUME NEW m \in replies' PROVE Truthful(m)'
  <2>1. Truthful(m) /\ m.xid \in Xid /\ m.nonce \in Nat
    BY <1>9, Zenon DEF TypeOK, Reply
  <2>2. hdr[m.xid].srv \in Nat
    <3>1. \A x \in Xid : hdr[x].srv \in Nat
      BY <1>0, Zenon DEF Typed
    <3> QED BY <2>1, <3>1, Zenon
  <2>3. m.ret = "ok" => Answered(m.xid, m.nonce)'
    BY <2>1, <1>2, Zenon DEF Truthful
  <2>4. m.nonce <= nonce' /\ m.xid < xid
    BY <2>1, <1>1 DEF Truthful
  <2>5. m.ret = "oldsrv" => 0 < hdr[m.xid].srv /\ hdr[m.xid].srv < nonce'
    BY <2>1, <2>2, <1>1 DEF Truthful
  <2> QED BY <2>1, <2>3, <2>4, <2>5, Zenon DEF Truthful
<1>10. InvMessages'
  BY <1>9, Zenon DEF IInv, InvMessages
<1>11. InvReported'
  <2> SUFFICES ASSUME InTime, NEW x \in Xid, NEW y \in Xid, x <= hdr[y].rep
               PROVE  hdr[y].srv # 0 /\ Settled(x, hdr[y].srv)'
    BY Zenon DEF InvReported, InTime
  <2>1. hdr[y].srv # 0 /\ Settled(x, hdr[y].srv)
    BY Zenon DEF IInv, InvReported
  <2>2. PICK n \in Nat : n = hdr[y].srv
    <3>1. \A z \in Xid : hdr[z].srv \in Nat
      BY <1>0, Zenon DEF Typed
    <3> QED BY <3>1, Zenon
  <2>3. Settled(x, n)'
    <3>1. CASE n < nonce
      BY <3>1, <2>2, <1>1 DEF Settled
    <3>2. CASE Answered(x, n)
      BY <3>2, <1>2, Zenon DEF Settled
    <3> QED BY <3>1, <3>2, <2>1, <2>2, Zenon DEF Settled
  <2> QED BY <2>1, <2>2, <2>3, Zenon
<1> QED BY <1>4, <1>5, <1>6, <1>7, <1>8, <1>10, <1>11, Zenon DEF InvUnused, InvHdr, InvRet

(* The server exits, by a crash or by the assert of add_reply. *)
LEMMA ServerGoneStep ==
  ASSUME IInv, ServerGone
  PROVE  IInv'
<1> USE Bounds
<1>0. Typed
  BY Types, Zenon DEF IInv
<1>1. /\ up' = FALSE /\ reply_window' = <<>> /\ conn' = 0 /\ running' = {} /\ sending' = {}
      /\ alive' = FALSE /\ reqs' = {}
      /\ UNCHANGED <<xid, step, ret, hdr, ch, srv_nonce, bind_rep, xid_rep_window, dup_req,
                     xid_rep_done, destroy_wait, nonce, execs, chan, replies>>
  BY Zenon DEF ServerGone, Exit, rpccVars
<1>2. TypeOK'
  <2>1. reply_window' \in Seq([xid : 0 .. MaxCalls, cb_present : BOOLEAN])
    BY <1>1
  <2>2. rpcsTypeOK'
    <3>1. up' \in BOOLEAN /\ nonce' \in Instance /\ execs' \in [Xid \X Instance -> Nat]
      BY <1>0, <1>1, Zenon DEF Typed
    <3>2. conn' \in 0 .. MaxConns
      BY <1>1
    <3>3. running' \subseteq Job /\ sending' \subseteq Outgoing
      BY <1>1, Zenon
    <3> QED BY <2>1, <3>1, <3>2, <3>3, Zenon DEF rpcsTypeOK
  <2> QED BY <2>2, <1>1, Zenon DEF IInv, TypeOK, rpccTypeOK
<1>3. ServerOnly
  <2>1. \A x \in Xid, n \in Instance : Answered(x, n) => Answered(x, n)'
    BY <1>1, Zenon DEF Answered
  <2>2. nonce <= nonce' /\ \A x \in Xid, n \in Instance : x >= xid => execs'[<<x, n>>] = 0
    BY <1>0, <1>1 DEF IInv, InvUnused, Unused, Typed
  <2> QED BY <2>1, <2>2, <1>1, Zenon DEF IInv, InvMessages, ServerOnly
<1>4. WindowSorted'
  BY <1>1 DEF WindowSorted
<1>5. InvExecs'
  BY <1>1, Zenon DEF IInv, InvExecs, Executed
<1>6. InvEntries'
  BY <1>1 DEF InvEntries, Has
<1>7. InvJobs'
  BY <1>1, Zenon DEF InvJobs
<1>8. InvRunning'
  BY <1>1, Zenon DEF InvRunning
<1> QED BY <1>2, <1>3, <1>4, <1>5, <1>6, <1>7, <1>8, ServerOnlyStep, Zenon DEF IInv

(* Another instance starts, with a larger nonce and nothing remembered. *)
LEMMA RestartStep ==
  ASSUME IInv, RestartServer
  PROVE  IInv'
<1> USE Bounds
<1>0. Typed
  BY Types, Zenon DEF IInv
<1>1. /\ ~up /\ nonce < MaxInstances /\ up' = TRUE /\ nonce' = nonce + 1
      /\ UNCHANGED <<xid, step, ret, hdr, ch, srv_nonce, bind_rep, xid_rep_window, dup_req,
                     xid_rep_done, destroy_wait, reply_window, conn, running, sending, execs,
                     chan, alive, reqs, replies>>
  BY Zenon DEF RestartServer, Restart, rpccVars, netVars
<1>2. reply_window = <<>> /\ running = {} /\ sending = {}
  BY <1>1, Zenon DEF IInv, InvEntries
<1>n. nonce \in Nat /\ nonce' \in Instance /\ \A n \in Instance : n \in Nat
  BY <1>0, <1>1 DEF Typed, Instance
<1>3. TypeOK'
  BY <1>1, <1>n, Zenon DEF IInv, TypeOK, rpccTypeOK, rpcsTypeOK
<1>4. ServerOnly
  <2>1. \A x \in Xid, n \in Instance : Answered(x, n) => Answered(x, n)'
    BY <1>1, <1>2, <1>n DEF Answered
  <2>2. nonce <= nonce' /\ \A x \in Xid, n \in Instance : x >= xid => execs'[<<x, n>>] = 0
    BY <1>1, <1>n DEF IInv, InvUnused, Unused
  <2> QED BY <2>1, <2>2, <1>1, Zenon DEF IInv, InvMessages, ServerOnly
<1>5. WindowSorted'
  BY <1>1, Zenon DEF IInv, WindowSorted
<1>6. InvExecs'
  <2> SUFFICES ASSUME NEW x \in Xid, NEW n \in Instance PROVE Executed(x, n)'
    BY Zenon DEF InvExecs
  <2>1. Executed(x, n)
    BY Zenon DEF IInv, InvExecs
  <2> QED BY <2>1, <1>1, <1>n DEF Executed
<1>7. InvEntries'
  BY <1>1, <1>2 DEF InvEntries, Has
<1>8. InvJobs'
  BY <1>1, <1>2, Zenon DEF InvJobs
<1>9. InvRunning'
  BY <1>1, <1>2, Zenon DEF InvRunning
<1> QED BY <1>3, <1>4, <1>5, <1>6, <1>7, <1>8, <1>9, ServerOnlyStep, Zenon DEF IInv

(* add_reply saves the reply of a handler that returned. *)
LEMMA HandlerReturnsStep ==
  ASSUME IInv, NEW j \in running, HandlerReturns(j)
  PROVE  IInv'
<1> USE Bounds
<1>0. Typed
  BY Types, Zenon DEF IInv
<1>x. PICK x \in Xid : x = j.xid
  BY <1>0, Zenon DEF Typed, Job
<1>1. /\ reply_window' = [i \in DOMAIN reply_window |->
                            IF reply_window[i].xid = x
                            THEN [reply_window[i] EXCEPT !.cb_present = TRUE]
                            ELSE reply_window[i]]
      /\ running' = running \ {j}
      /\ sending' = sending \cup {ToSend(j, FALSE)}
      /\ UNCHANGED <<xid, step, ret, hdr, ch, srv_nonce, bind_rep, xid_rep_window, dup_req,
                     xid_rep_done, destroy_wait, up, nonce, conn, execs, chan, alive, reqs,
                     replies>>
  BY <1>x, Zenon DEF HandlerReturns, AddReply, rpccVars, netVars
<1>w. reply_window \in Seq(Entries(MaxCalls)) /\ Rising(reply_window)
  BY Zenon DEF IInv, TypeOK, rpcsTypeOK, Entries, WindowSorted, Rising
<1>2. /\ reply_window' \in Seq(Entries(MaxCalls)) /\ Rising(reply_window')
      /\ DOMAIN reply_window' = DOMAIN reply_window
      /\ \A i \in DOMAIN reply_window : reply_window'[i].xid = reply_window[i].xid
      /\ \A i \in DOMAIN reply_window : reply_window[i].xid # x =>
                                          reply_window'[i] = reply_window[i]
      /\ reply_window' = <<>> <=> reply_window = <<>>
  <2>1. Marks(MaxCalls, reply_window, x, reply_window')
    BY <1>1, <1>w, Marked, Zenon
  <2> QED BY <2>1, Zenon DEF Marks
<1>3. \A y : HasEntry(y)' <=> HasEntry(y)
  BY <1>2, Zenon DEF HasEntry
<1>4. reply_window # <<>> => reply_window'[1].xid = reply_window[1].xid
  <2>1. reply_window # <<>> => 1 \in DOMAIN reply_window
    BY <1>w, ListAsFunction
  <2> QED BY <2>1, <1>2, Zenon
<1>5. /\ \A y, n : Answered(y, n) => Answered(y, n)'
      /\ \A y : Answered(y, nonce) => Answered(y, nonce)'
  BY <1>1, Zenon DEF Answered
<1>6. Answered(x, nonce)'
  <2>0. nonce \in Instance /\ nonce \in Nat
    BY <1>0, Zenon DEF Typed
  <2>1. nonce <= nonce
    BY <2>0
  <2>2. execs[<<x, nonce>>] = 1 /\ \A k \in running : k.xid = x => k = j
    BY <1>x, Zenon DEF IInv, InvJobs
  <2> QED BY <2>0, <2>1, <2>2, <1>1, Zenon DEF Answered
<1>j. j \in Job /\ j.conn \in Conn
  BY <1>0, Zenon DEF Typed, Job
<1>s. PICK d : d = ToSend(j, FALSE)
  BY Zenon
<1>d. d \in Outgoing /\ d.xid = x /\ d.conn = j.conn
  BY <1>s, <1>x, <1>j, Zenon DEF ToSend, Outgoing
<1>7. TypeOK'
  <2>1. reply_window' \in Seq([xid : 0 .. MaxCalls, cb_present : BOOLEAN])
    BY <1>2, Zenon DEF Entries
  <2>2. running' \subseteq Job /\ sending' \subseteq Outgoing
    BY <1>0, <1>1, <1>s, <1>d, Zenon DEF Typed
  <2>3. rpcsTypeOK'
    BY <2>1, <2>2, <1>1, Zenon DEF IInv, TypeOK, rpcsTypeOK
  <2> QED BY <2>3, <1>1, Zenon DEF IInv, TypeOK, rpccTypeOK
<1>8. ServerOnly
  <2>1. nonce <= nonce' /\ \A y \in Xid, n \in Instance : y >= xid => execs'[<<y, n>>] = 0
    BY <1>0, <1>1 DEF IInv, InvUnused, Unused, Typed
  <2> QED BY <2>1, <1>1, <1>5, Zenon DEF IInv, InvMessages, ServerOnly
<1>9. WindowSorted'
  BY <1>2, Zenon DEF WindowSorted, Rising
<1>10. InvExecs'
  <2> SUFFICES ASSUME NEW y \in Xid, NEW n \in Instance PROVE Executed(y, n)'
    BY Zenon DEF InvExecs
  <2>1. Executed(y, n)
    BY Zenon DEF IInv, InvExecs
  <2> QED BY <2>1, <1>1, <1>2, <1>3, <1>4, Zenon DEF Executed
<1>11. InvEntries'
  <2>1. up
    BY Zenon DEF IInv, InvEntries
  <2>2. reply_window' # <<>> => \A y \in Xid : y <= reply_window'[1].xid => ret'[y] # "none"
    BY <1>1, <1>2, <1>4, Zenon DEF IInv, InvEntries
  <2>3. ASSUME NEW e \in Entries(MaxCalls), Has(reply_window', e), e.cb_present
        PROVE  e.xid \in Xid /\ Answered(e.xid, nonce)'
    <3>1. PICK i \in DOMAIN reply_window : e = reply_window'[i]
      BY <2>3, <1>2, Zenon DEF Has
    <3>2. CASE reply_window[i].xid = x
      BY <3>1, <3>2, <1>2, <1>6, Zenon
    <3>3. CASE reply_window[i].xid # x
      <4>1. Has(reply_window, e)
        BY <3>1, <3>3, <1>2, Zenon DEF Has
      <4>2. e.xid \in Xid /\ Answered(e.xid, nonce)
        BY <4>1, <2>3, Zenon DEF IInv, InvEntries
      <4> QED BY <4>2, <1>5, Zenon
    <3> QED BY <3>2, <3>3, Zenon
  <2>4. nonce' = nonce /\ up' = up
    BY <1>1, Zenon
  <2> QED BY <2>1, <2>2, <2>3, <2>4, Zenon DEF InvEntries
<1>12. InvJobs'
  <2>1. ASSUME NEW k \in sending' PROVE k.conn <= conn /\ Answered(k.xid, nonce)'
    <3>1. CASE k \in sending
      BY <3>1, <1>5, Zenon DEF IInv, InvJobs
    <3>2. CASE k = d
      BY <3>2, <1>d, <1>6, Zenon DEF IInv, InvJobs
    <3> QED BY <3>1, <3>2, <1>1, <1>s, Zenon
  <2>2. nonce' = nonce /\ conn' = conn /\ running' \subseteq running /\ UNCHANGED <<xid, execs>>
    BY <1>1, Zenon
  <2> QED BY <2>1, <2>2, Zenon DEF IInv, InvJobs
<1>13. InvRunning'
  <2>1. running' \subseteq running /\ (InTime' <=> InTime)
    BY <1>1, Zenon DEF InTime
  <2> QED BY <2>1, <1>3, Zenon DEF IInv, InvRunning
<1> QED BY <1>7, <1>8, <1>9, <1>10, <1>11, <1>12, <1>13, ServerOnlyStep, Zenon DEF IInv

(* A request of this instance is looked up: it is new, in progress, done or
   forgotten. *)
LEMMA DispatchStep ==
  ASSUME IInv, NEW m \in reqs, Dispatch(m)
  PROVE  IInv'
<1> USE Bounds
<1>0. Typed
  BY Types, Zenon DEF IInv
<1>x. PICK x \in Xid : x = m.xid
  BY <1>0, Zenon DEF Typed, Request
<1>c. PICK c \in Conn : c = m.conn
  BY <1>0, Zenon DEF Typed, Request
<1>p. PICK rep : rep = hdr[x].rep
  BY Zenon
<1>r. PICK r : r = CheckDuplicate(reply_window, x, rep)
  BY Zenon
<1>s. PICK stat : stat = r.stat
  BY Zenon
<1>v. PICK win : win = r.win
  BY Zenon
<1>j. PICK j : j = [xid |-> x, conn |-> c]
  BY Zenon
<1>d. PICK d : d = ToSend(j, TRUE)
  BY Zenon
<1>1. /\ up /\ (hdr[x].srv = 0 \/ hdr[x].srv = nonce)
      /\ reply_window' = win
      /\ conn' = IF conn < c THEN c ELSE conn
      /\ running' = IF stat = "NEW" THEN running \cup {j} ELSE running
      /\ execs' = IF stat = "NEW" THEN [execs EXCEPT ![<<x, nonce>>] = @ + 1] ELSE execs
      /\ sending' = IF stat = "DONE" THEN sending \cup {d} ELSE sending
      /\ replies' = IF stat = "FORGOTTEN" THEN SendOn(c, x, "forgotten") ELSE replies
      /\ reqs' = reqs \ {m}
      /\ UNCHANGED <<xid, step, ret, hdr, ch, srv_nonce, bind_rep, xid_rep_window, dup_req,
                     xid_rep_done, destroy_wait, up, nonce, chan, alive>>
  BY <1>x, <1>c, <1>p, <1>r, <1>s, <1>v, <1>j, <1>d, Zenon DEF Dispatch, Lookup, OldServer, rpccVars
<1>2. x < xid
  BY <1>x, Zenon DEF IInv, InvMessages
<1>3. rep \in 0 .. MaxCalls /\ rep <= XidRep /\ rep < x
  BY <1>0, <1>p, Zenon DEF IInv, InvHdr, Header, Typed
<1>n. /\ x \in Nat /\ xid \in Nat /\ c \in Nat /\ rep \in Nat /\ nonce \in Nat /\ conn \in Nat
      /\ XidRep \in Nat /\ nonce \in Instance /\ x \in 1 .. MaxCalls
  <2>1. x \in 1 .. MaxCalls
    BY Zenon DEF Xid
  <2>2. x \in Nat /\ c \in Nat
    BY Zenon
  <2>3. xid \in Nat /\ nonce \in Nat /\ conn \in Nat /\ XidRep \in Nat /\ nonce \in Instance
    BY <1>0, Zenon DEF Typed
  <2> QED BY <2>1, <2>2, <2>3, <1>3
<1>w. reply_window \in Seq(Entries(MaxCalls)) /\ Rising(reply_window)
  BY Zenon DEF IInv, TypeOK, rpcsTypeOK, Entries, WindowSorted, Rising
<1>L. Looked(MaxCalls, reply_window, x, rep, stat, win)
  BY <1>n, <1>3, <1>w, <1>r, <1>s, <1>v, LookedUp, Zenon
<1>e. \A e : Has(reply_window, e) => e \in Entries(MaxCalls)
  BY <1>w, ListAsFunction DEF Has
<1>f. /\ win \in Seq(Entries(MaxCalls)) /\ Rising(win) /\ win # <<>> /\ win[1].xid \in Nat
      /\ reply_window # <<>> => reply_window[1].xid \in Nat
  <2>1. win \in Seq(Entries(MaxCalls)) /\ Rising(win) /\ win # <<>>
    BY <1>L, Zenon DEF Looked
  <2>2. \A u : u \in Seq(Entries(MaxCalls)) /\ u # <<>> => u[1].xid \in Nat
    <3> SUFFICES ASSUME NEW u \in Seq(Entries(MaxCalls)), u # <<>> PROVE u[1].xid \in Nat
      BY Zenon
    <3>1. u[1] \in Entries(MaxCalls)
      BY ListAsFunction
    <3> QED BY <3>1 DEF Entries
  <2> QED BY <2>1, <2>2, <1>w, Zenon
<1>h. /\ \A y : HasEntry(y) => \E e : Has(reply_window, e) /\ e.xid = y
      /\ \A e : Has(win, e) => HasEntry(e.xid)'
  BY <1>1, Zenon DEF HasEntry, Has
(* What the status says. *)
<1>4. stat = "NEW" => execs[<<x, nonce>>] = 0 /\ HasEntry(x)'
  <2> SUFFICES ASSUME stat = "NEW" PROVE execs[<<x, nonce>>] = 0 /\ HasEntry(x)'
    BY Zenon
  <2>1. /\ reply_window # <<>> => reply_window[1].xid < x
        /\ \A e : Has(reply_window, e) => e.xid # x
        /\ Has(win, Entry(x))
    BY <1>L, Zenon DEF Looked
  <2>2. HasEntry(x)'
    BY <2>1, <1>h DEF Entry
  <2>3. Executed(x, nonce)
    BY <1>n, Zenon DEF IInv, InvExecs
  <2>4. ~HasEntry(x)
    BY <2>1, <1>h, Zenon
  <2>5. ~(x <= reply_window[1].xid) \/ reply_window = <<>>
    BY <2>1, <1>f, <1>n, Order, Zenon
  <2> QED BY <2>2, <2>3, <2>4, <2>5, <1>1, Zenon DEF Executed
<1>5. stat = "DONE" => Answered(x, nonce)
  <2> SUFFICES ASSUME stat = "DONE" PROVE Answered(x, nonce)
    BY Zenon
  <2>1. PICK e : Has(reply_window, e) /\ e.xid = x /\ e.cb_present
    BY <1>L, Zenon DEF Looked
  <2> QED BY <2>1, <1>e, Zenon DEF IInv, InvEntries
<1>6. stat = "FORGOTTEN" => ret[x] # "none"
  BY <1>L, Zenon DEF Looked, IInv, InvEntries
<1>7. ASSUME NEW y \in Xid, NEW n \in Instance
      PROVE  execs'[<<y, n>>] = IF stat = "NEW" /\ y = x /\ n = nonce THEN 1 ELSE execs[<<y, n>>]
  <2>1. execs \in [Xid \X Instance -> Nat]
    BY <1>0, Zenon DEF Typed
  <2>2. CASE stat = "NEW"
    <3>1. execs' = [execs EXCEPT ![<<x, nonce>>] = execs[<<x, nonce>>] + 1]
      BY <2>2, <1>1, Zenon
    <3>2. execs[<<x, nonce>>] + 1 = 1
      <4>1. execs[<<x, nonce>>] = 0
        BY <2>2, <1>4, Zenon
      <4> QED BY <4>1
    <3>3. execs' = [execs EXCEPT ![<<x, nonce>>] = 1]
      BY <3>1, <3>2, Zenon
    <3>4. <<y, n>> \in Xid \X Instance /\ (<<y, n>> = <<x, nonce>> <=> y = x /\ n = nonce)
      BY Zenon
    <3> QED BY <3>3, <3>4, <2>1, <2>2, Zenon
  <2>3. CASE stat # "NEW"
    BY <2>3, <1>1, Zenon
  <2> QED BY <2>2, <2>3, Zenon
<1>8. j.xid = x /\ j.conn = c /\ j \in Job /\ d \in Outgoing /\ d.xid = x /\ d.conn = c
  BY <1>j, <1>d, Zenon DEF ToSend, Job, Outgoing
<1>9. /\ \A y \in Xid, n \in Instance : Answered(y, n) => Answered(y, n)'
      /\ \A y \in Xid : Answered(y, nonce) => Answered(y, nonce)'
  <2>1. ASSUME NEW y \in Xid, NEW n \in Instance, Answered(y, n)
        PROVE  /\ execs'[<<y, n>>] = 1 /\ n <= nonce'
               /\ n = nonce' => \A k \in running' : k.xid # y
    <3>1. /\ execs[<<y, n>>] = 1 /\ n <= nonce
          /\ n = nonce => \A k \in running : k.xid # y
      BY <2>1, Zenon DEF Answered
    <3>2. execs'[<<y, n>>] = 1
      BY <3>1, <1>7, <1>4, Zenon
    <3>3. ASSUME n = nonce, NEW k \in running' PROVE k.xid # y
      <4>1. CASE k \in running
        BY <4>1, <3>1, <3>3, Zenon
      <4>2. CASE k \notin running
        <5>1. stat = "NEW" /\ k = j
          BY <4>2, <3>3, <1>1, Zenon
        <5>2. execs[<<x, nonce>>] # 1
          BY <5>1, <1>4, Order, Zenon
        <5> QED BY <5>1, <5>2, <3>1, <3>3, <1>8, Zenon
      <4> QED BY <4>1, <4>2, Zenon
    <3> QED BY <3>1, <3>2, <3>3, <1>1, Zenon
  <2>2. \A y \in Xid, n \in Instance : Answered(y, n) => Answered(y, n)'
    BY <2>1, Zenon DEF Answered
  <2>3. \A y \in Xid : Answered(y, nonce) => Answered(y, nonce)'
    <3>1. nonce' = nonce /\ nonce \in Instance
      BY <1>1, <1>n, Zenon
    <3> QED BY <2>1, <3>1, Zenon DEF Answered
  <2> QED BY <2>2, <2>3, Zenon
<1>10. replies' \subseteq Reply /\ \A q \in replies' : Truthful(q)
  <2>1. CASE stat = "FORGOTTEN"
    <3>1. Right(x, "forgotten")
      BY <2>1, <1>6, Zenon DEF Right
    <3> QED BY <2>1, <3>1, <1>1, <1>2, SentOn, Zenon
  <2>2. CASE stat # "FORGOTTEN"
    BY <2>2, <1>0, <1>1, Zenon DEF IInv, InvMessages, Typed
  <2> QED BY <2>1, <2>2, Zenon
<1>11. TypeOK'
  <2>1. reply_window' \in Seq([xid : 0 .. MaxCalls, cb_present : BOOLEAN])
    BY <1>1, <1>f, Zenon DEF Entries
  <2>2. conn' \in 0 .. MaxConns
    <3>1. conn \in 0 .. MaxConns
      BY <1>0, Zenon DEF Typed
    <3>2. \A a \in Conn : a \in 0 .. MaxConns
      BY DEF Conn
    <3>3. conn' = c \/ conn' = conn
      BY <1>1, Zenon
    <3> QED BY <3>1, <3>2, <3>3, Zenon
  <2>3. running' \subseteq Job /\ sending' \subseteq Outgoing
    BY <1>0, <1>1, <1>8, Zenon DEF Typed
  <2>4. execs' \in [Xid \X Instance -> Nat]
    <3>1. execs \in [Xid \X Instance -> Nat] /\ <<x, nonce>> \in Xid \X Instance
      BY <1>0, <1>n, Zenon DEF Typed
    <3>2. execs' = execs \/ execs' = [execs EXCEPT ![<<x, nonce>>] = execs[<<x, nonce>>] + 1]
      BY <1>1, Zenon
    <3>3. execs[<<x, nonce>>] \in Nat
      BY <3>1, Zenon
    <3>4. execs[<<x, nonce>>] + 1 \in Nat
      BY <3>3
    <3> QED BY <3>1, <3>2, <3>4, Zenon
  <2>5. rpcsTypeOK'
    BY <2>1, <2>2, <2>3, <2>4, <1>1, Zenon DEF IInv, TypeOK, rpcsTypeOK
  <2> QED BY <2>5, <1>1, <1>10, Zenon DEF IInv, TypeOK, rpccTypeOK
<1>12. ServerOnly
  <2>1. \A y \in Xid, n \in Instance : y >= xid => execs'[<<y, n>>] = 0
    <3> SUFFICES ASSUME NEW y \in Xid, NEW n \in Instance, y >= xid PROVE execs'[<<y, n>>] = 0
      BY Zenon
    <3>1. y \in Nat
      BY Zenon
    <3>2. y # x
      <4>1. ~(x >= xid)
        BY <1>2, <1>n, Order, Zenon
      <4> QED BY <4>1, Zenon
    <3> QED BY <3>2, <1>7, Zenon DEF IInv, InvUnused, Unused
  <2>2. nonce <= nonce'
    <3>1. nonce' = nonce /\ nonce \in Nat
      BY <1>1, <1>n, Zenon
    <3> QED BY <3>1, Order, Zenon
  <2> QED BY <2>1, <2>2, <1>1, <1>9, <1>10, Zenon DEF ServerOnly
<1>13. WindowSorted'
  BY <1>1, <1>f, Zenon DEF WindowSorted, Rising
<1>14. ASSUME NEW y \in Xid, HasEntry(y) PROVE (y < rep /\ rep <= win[1].xid) \/ HasEntry(y)'
  <2>1. PICK e : Has(reply_window, e) /\ e.xid = y
    BY <1>14, <1>h, Zenon
  <2> QED BY <2>1, <1>h, <1>L, Zenon DEF Looked
<1>15. InvExecs'
  <2> SUFFICES ASSUME NEW y \in Xid, NEW n \in Instance PROVE Executed(y, n)'
    BY Zenon DEF InvExecs
  <2>1. Executed(y, n)
    BY Zenon DEF IInv, InvExecs
  <2>2. /\ n > nonce => execs'[<<y, n>>] = 0
        /\ execs'[<<y, n>>] # 0 => execs'[<<y, n>>] = 1 /\ hdr[y].srv \in {0, n}
    <3>1. CASE stat = "NEW" /\ y = x /\ n = nonce
      <4>1. execs'[<<y, n>>] = 1 /\ hdr[y].srv \in {0, n}
        BY <3>1, <1>1, <1>7, Zenon
      <4>2. ~(n > nonce)
        BY <3>1, <1>n, Order, Zenon
      <4> QED BY <4>1, <4>2, Zenon
    <3>2. CASE ~(stat = "NEW" /\ y = x /\ n = nonce)
      BY <3>2, <2>1, <1>7, Zenon DEF Executed
    <3> QED BY <3>1, <3>2, Zenon
  <2>3. ASSUME n = nonce, execs'[<<y, n>>] # 0 PROVE y <= win[1].xid \/ HasEntry(y)'
    <3>1. CASE stat = "NEW" /\ y = x
      BY <3>1, <1>4, Zenon
    <3>2. CASE ~(stat = "NEW" /\ y = x)
      <4>1. reply_window # <<>> /\ (y <= reply_window[1].xid \/ HasEntry(y))
        BY <3>2, <2>1, <2>3, <1>1, <1>7, Zenon DEF Executed
      <4>2. reply_window[1].xid <= win[1].xid
        BY <4>1, <1>L, Zenon DEF Looked
      <4>3. y \in Nat /\ reply_window[1].xid \in Nat /\ win[1].xid \in Nat
        BY <4>1, <1>f, Zenon
      <4>4. CASE y <= reply_window[1].xid
        <5>1. y <= win[1].xid
          BY <4>2, <4>3, <4>4, AtMost, Zenon
        <5> QED BY <5>1, Zenon
      <4>5. CASE HasEntry(y)
        <5>1. rep \in Nat /\ ((y < rep /\ rep <= win[1].xid) \/ HasEntry(y)')
          BY <4>5, <1>14, <1>n, Zenon
        <5>2. y < rep /\ rep <= win[1].xid => y <= win[1].xid
          BY <5>1, <4>3, Below, Zenon
        <5> QED BY <5>1, <5>2, Zenon
      <4> QED BY <4>1, <4>4, <4>5, Zenon
    <3> QED BY <3>1, <3>2, Zenon
  <2> QED BY <2>2, <2>3, <1>1, <1>f, Zenon DEF Executed
<1>16. InvEntries'
  <2>1. ASSUME NEW y \in Xid, y <= win[1].xid PROVE ret[y] # "none"
    <3>1. CASE win[1].xid = rep
      <4>1. Received(y)
        <5>1. y \in Nat /\ y <= rep
          BY <2>1, <3>1, Zenon
        <5> QED BY <5>1, <1>3, <1>n, AtMost, Zenon DEF Received
      <4> QED BY <4>1, Zenon DEF IInv, InvWindow
    <3>2. CASE reply_window # <<>> /\ win[1].xid = reply_window[1].xid
      BY <2>1, <3>2, Zenon DEF IInv, InvEntries
    <3> QED BY <3>1, <3>2, <1>L, Zenon DEF Looked
  <2>2. ASSUME NEW e \in Entries(MaxCalls), Has(win, e), e.cb_present
        PROVE  e.xid \in Xid /\ Answered(e.xid, nonce)'
    <3>1. Has(reply_window, e)
      BY <2>2, <1>L DEF Looked, Entry
    <3>2. e.xid \in Xid /\ Answered(e.xid, nonce)
      BY <3>1, <2>2, Zenon DEF IInv, InvEntries
    <3> QED BY <3>2, <1>9, Zenon
  <2> QED BY <2>1, <2>2, <1>1, Zenon DEF InvEntries
<1>17. InvJobs'
  <2>1. conn <= conn' /\ c <= conn'
    <3>1. conn' = IF conn < c THEN c ELSE conn
      BY <1>1, Zenon
    <3> QED BY <3>1, <1>n, Order, Zenon
  <2>2. ASSUME NEW k \in running
        PROVE  /\ k.xid < xid /\ k.conn <= conn' /\ execs'[<<k.xid, nonce>>] = 1
               /\ stat = "NEW" => k.xid # x
    <3>1. k.xid < xid /\ k.conn <= conn /\ execs[<<k.xid, nonce>>] = 1
      BY Zenon DEF IInv, InvJobs
    <3>2. k.xid \in Xid /\ k.conn \in Nat /\ conn' \in Nat
      BY <1>0, <1>1, <1>n, Zenon DEF Typed, Job
    <3>3. k.conn <= conn'
      BY <3>1, <3>2, <2>1, <1>n, AtMost, Zenon
    <3>4. stat = "NEW" => k.xid # x
      BY <3>1, <1>4, Order, Zenon
    <3>5. execs'[<<k.xid, nonce>>] = 1
      BY <3>1, <3>2, <3>4, <1>7, <1>n, Zenon
    <3> QED BY <3>1, <3>3, <3>4, <3>5, Zenon
  <2>3. stat = "NEW" => execs'[<<x, nonce>>] = 1
    BY <1>7, <1>n, Zenon
  <2>4. ASSUME NEW k \in sending' PROVE k.conn <= conn' /\ Answered(k.xid, nonce)'
    <3>1. CASE k \in sending
      <4>1. k.conn <= conn /\ Answered(k.xid, nonce)
        BY <3>1, Zenon DEF IInv, InvJobs
      <4>2. k.xid \in Xid /\ k.conn \in Nat /\ conn' \in Nat
        BY <3>1, <1>0, <1>1, <1>n, Zenon DEF Typed, Outgoing
      <4>3. k.conn <= conn'
        BY <4>1, <4>2, <2>1, <1>n, AtMost, Zenon
      <4> QED BY <4>1, <4>2, <4>3, <1>9, Zenon
    <3>2. CASE k \notin sending
      BY <3>2, <2>1, <1>1, <1>5, <1>8, <1>9, Zenon
    <3> QED BY <3>1, <3>2, Zenon
  <2>5. \A k \in running' : k.xid < xid /\ k.conn <= conn' /\ execs'[<<k.xid, nonce>>] = 1
    BY <2>1, <2>2, <2>3, <1>1, <1>2, <1>8, Zenon
  <2>6. \A k, l \in running' : k.xid = l.xid => k = l
    BY <2>2, <1>1, <1>8, Zenon DEF IInv, InvJobs
  <2> QED BY <2>4, <2>5, <2>6, <1>1, Zenon DEF InvJobs
<1>18. InvRunning'
  <2> SUFFICES ASSUME InTime, NEW k \in running' PROVE HasEntry(k.xid)'
    BY <1>1, Zenon DEF InvRunning, InTime
  <2>1. CASE k \in running
    <3>1. HasEntry(k.xid)
      BY <2>1, Zenon DEF IInv, InvRunning
    <3>2. PICK y \in Xid : y = k.xid
      BY <2>1, <1>0, Zenon DEF Typed, Job
    <3>3. ~(y < rep)
      <4> SUFFICES ASSUME y < rep PROVE FALSE
        BY Zenon
      <4>1. y <= hdr[x].rep
        <5>1. y \in Nat
          BY <3>2, Zenon
        <5> QED BY <5>1, <1>p, <1>n, Order, Zenon
      <4>2. hdr[x].srv # 0 /\ Settled(y, hdr[x].srv)
        BY <4>1, <3>2, Zenon DEF IInv, InvReported
      <4>3. Settled(y, nonce)
        BY <4>2, <1>1, Zenon
      <4> QED BY <4>3, <3>2, <2>1, <1>n, Order, Zenon DEF Settled, Answered
    <3> QED BY <3>1, <3>2, <3>3, <1>14, Zenon
  <2>2. CASE k \notin running
    BY <2>2, <1>1, <1>4, <1>8, Zenon
  <2> QED BY <2>1, <2>2, Zenon
<1> QED BY <1>11, <1>12, <1>13, <1>15, <1>16, <1>17, <1>18, ServerOnlyStep, Zenon DEF IInv

-----------------------------------------------------------------------------
(* The invariant holds in every state *)

(* The invariant holds before the first call. *)
LEMMA InitInv == Init => IInv
<1> SUFFICES ASSUME Init PROVE IInv
  BY Zenon
<1> USE Bounds
<1>1. /\ xid = 1 /\ srv_nonce = 0 /\ bind_rep = 0 /\ dup_req = 0 /\ nonce = 1 /\ up
      /\ xid_rep_window = <<0>> /\ reply_window = <<>>
      /\ running = {} /\ sending = {} /\ reqs = {} /\ replies = {}
  BY Zenon DEF Init, rpccInit, rpcsInit
<1>2. /\ \A x \in Xid : /\ step[x] = "unused" /\ ret[x] = "none"
                        /\ hdr[x].rep = 0 /\ hdr[x].srv = 0
                        /\ \A n \in Instance : execs[<<x, n>>] = 0
  BY Zenon DEF Init, rpccInit, rpcsInit
<1>3. XidRep = 0 /\ \A y : Has(xid_rep_window, y) <=> y = 0
  BY <1>1 DEF XidRep, Has
<1>4. \A x \in Xid : x \in Nat /\ x >= 1
  BY DEF Xid
<1>5. TypeOK
  <2>1. rpccTypeOK
    <3>1. hdr \in [Xid -> [rep : 0 .. MaxCalls, srv : 0 .. MaxInstances]]
      BY DEF Init, rpccInit
    <3>2. <<0>> \in Seq(0 .. MaxCalls) /\ <<0>> # <<>>
      OBVIOUS
    <3>3. step \in [Xid -> Steps] /\ ret \in [Xid -> Returns] /\ ch \in [Xid -> 0 .. MaxConns]
      BY DEF Init, rpccInit, Steps, Returns
    <3>4. destroy_wait \in BOOLEAN
      BY Zenon DEF Init, rpccInit
    <3>5. xid_rep_done = -1
      BY Zenon DEF Init, rpccInit
    <3>6. xid_rep_done \in -1 .. MaxCalls
      BY <3>5
    <3> QED BY <3>1, <3>2, <3>3, <3>4, <3>6, <1>1 DEF rpccTypeOK
  <2>2. rpcsTypeOK
    <3>1. nonce \in Instance
      BY <1>1 DEF Instance
    <3>2. execs \in [Xid \X Instance -> Nat]
      BY Zenon DEF Init, rpcsInit
    <3>3. reply_window \in Seq([xid : 0 .. MaxCalls, cb_present : BOOLEAN])
      BY <1>1
    <3>4. conn \in 0 .. MaxConns
      BY DEF Init, rpcsInit
    <3> QED BY <3>1, <3>2, <3>3, <3>4, <1>1, Zenon DEF rpcsTypeOK
  <2>3. alive \in BOOLEAN /\ chan = 0
    BY Zenon DEF Init
  <2>4. chan \in 0 .. MaxConns
    BY <2>3
  <2> QED BY <2>1, <2>2, <2>3, <2>4, <1>1, Zenon DEF TypeOK
<1>6. WindowSorted
  BY <1>1 DEF WindowSorted
<1>7. InvUnused /\ InvHdr /\ InvNonces /\ InvRet
  BY <1>1, <1>2, <1>3, <1>4
  DEF InvUnused, Unused, InvHdr, Header, InvNonces, InvRet, Result, Outstanding
<1>8. InvWindow
  <2>1. Ascending(xid_rep_window)
    BY <1>1 DEF Ascending
  <2> QED BY <2>1, <1>1, <1>2, <1>3, <1>4 DEF InvWindow, Received
<1>9. InvMessages /\ InvExecs /\ InvEntries /\ InvJobs /\ InvReported /\ InvRunning
  <2>1. \A e : ~Has(reply_window, e)
    BY <1>1 DEF Has
  <2>2. InvMessages /\ InvExecs /\ InvJobs /\ InvRunning
    BY <1>1, <1>2 DEF InvMessages, InvExecs, Executed, InvJobs, InvRunning
  <2>3. InvEntries
    BY <1>1, <2>1, Zenon DEF InvEntries
  <2>4. InvReported
    BY <1>2, <1>4 DEF InvReported
  <2> QED BY <2>2, <2>3, <2>4, Zenon
<1> QED BY <1>5, <1>6, <1>7, <1>8, <1>9, Zenon DEF IInv

(* A step that changes nothing. *)
LEMMA SameState ==
  ASSUME IInv, UNCHANGED vars
  PROVE  IInv'
<1>1. UNCHANGED <<xid, step, ret, hdr, ch, srv_nonce, bind_rep, xid_rep_window, dup_req,
                  xid_rep_done, destroy_wait, up, nonce, reply_window, conn, running,
                  sending, execs, chan, alive, reqs, replies>>
  BY Zenon DEF vars, rpccVars, rpcsVars, netVars
<1>2. TypeOK'
  BY <1>1, Zenon DEF IInv, TypeOK, rpccTypeOK, rpcsTypeOK
<1>3. Quiet
  BY <1>1, Zenon DEF IInv, InvMessages, Quiet
<1> QED BY <1>2, <1>3, QuietStep, Zenon

(* Every step keeps the invariant. *)
LEMMA NextStep == IInv /\ [Next]_vars => IInv'
<1> SUFFICES ASSUME IInv, [Next]_vars PROVE IInv'
  BY Zenon
<1>1. CASE Start \/ CancelAll
  BY <1>1, StartStep, CancelStep, Zenon
<1>2. ASSUME NEW x \in Xid, Client(x) PROVE IInv'
  BY <1>2, TransmitStep, RetryStep, EndCallStep, DeadlineStep, Zenon DEF Client
<1>3. ASSUME NEW m \in replies, Receive(m) \/ LoseReply(m) PROVE IInv'
  BY <1>3, ReceiveStep, LossStep, Zenon
<1>4. ASSUME NEW m \in reqs, DispatchOld(m) \/ Dispatch(m) \/ LoseRequest(m) PROVE IInv'
  BY <1>4, DispatchOldStep, DispatchStep, LossStep, Zenon
<1>5. ASSUME NEW j \in running, HandlerReturns(j) \/ AssertFails(j) PROVE IInv'
  BY <1>5, HandlerReturnsStep, ServerGoneStep, Zenon DEF AssertFails
<1>6. ASSUME NEW j \in sending, SendReply(j) PROVE IInv'
  BY <1>6, SendReplyStep, Zenon
<1>7. CASE ConnectionDies \/ Crash \/ RestartServer
  BY <1>7, LossStep, ServerGoneStep, RestartStep, Zenon DEF Crash
<1>8. CASE UNCHANGED vars
  BY <1>8, SameState, Zenon
<1> QED BY <1>1, <1>2, <1>3, <1>4, <1>5, <1>6, <1>7, <1>8, Zenon DEF Next

(* What the client and the server know of each other stays right, whatever is
   lost, copied, delayed or crashes: the invariant behind all that follows. *)
THEOREM Invariance == Spec => []IInv
BY InitInv, NextStep, PTL DEF Spec

-----------------------------------------------------------------------------
(* What follows from it *)

(* checkduplicate_and_update takes a request for new at most once in the life of
   a server, and dispatch only in the instance the client is bound to. *)
THEOREM AtMostOnceHolds == Spec => []AtMostOnce
<1>1. IInv => AtMostOnce
  <2> SUFFICES ASSUME IInv, NEW x \in Xid, NEW n \in Instance
               PROVE  execs[<<x, n>>] <= 1 /\ (execs[<<x, n>>] = 1 => hdr[x].srv \in {0, n})
    BY Zenon DEF AtMostOnce
  <2>1. Executed(x, n)
    BY Zenon DEF IInv, InvExecs
  <2> QED BY <2>1 DEF Executed
<1> QED BY <1>1, Invariance, PTL

(* A call that call1 reports as successful has been run, by the instance it was
   meant for. *)
THEOREM OkMeansExecutedHolds == Spec => []OkMeansExecuted
<1>1. IInv => OkMeansExecuted
  <2> SUFFICES ASSUME IInv, NEW x \in Xid, ret[x] = "ok"
               PROVE  IF hdr[x].srv = 0 THEN \E n \in Instance : execs[<<x, n>>] = 1
                      ELSE execs[<<x, hdr[x].srv>>] = 1
    BY Zenon DEF OkMeansExecuted
  <2>1. Result(x)
    BY Zenon DEF IInv, InvRet
  <2>2. Outstanding(x) \/ step[x] = "returned"
    <3>1. step[x] # "unused"
      BY Zenon DEF IInv, InvUnused, Unused
    <3>2. step[x] \in Steps
      BY Zenon DEF IInv, TypeOK, rpccTypeOK
    <3> QED BY <3>1, <3>2, Zenon DEF Steps, Outstanding
  <2> QED BY <2>1, <2>2, Zenon DEF Result, Answered
<1> QED BY <1>1, Invariance, PTL

(* atmostonce_forgotten reaches no caller that still waits. *)
THEOREM NeverForgottenHolds == Spec => []NeverForgotten
<1>1. IInv => NeverForgotten
  BY Zenon DEF IInv, InvRet, Result, NeverForgotten
<1> QED BY <1>1, Invariance, PTL

(* update_xid_rep: the front of the window passes exactly the calls that are
   over, and a request reports only calls before it. *)
THEOREM FrontierExactHolds == Spec => []FrontierExact
<1>1. IInv => FrontierExact
  <2> SUFFICES ASSUME IInv PROVE FrontierExact
    BY Zenon
  <2> USE Bounds
  <2>0. Typed
    BY Types, Zenon DEF IInv
  <2>1. \A x \in Xid : x <= XidRep => ret[x] # "none"
    BY Zenon DEF IInv, InvWindow, Received
  <2>2. ASSUME NEW x \in Xid, \A y \in 1 .. x : step[y] = "returned" PROVE x <= XidRep
    <3> SUFFICES ASSUME ~(x <= XidRep) PROVE FALSE
      BY Zenon
    <3>1. x \in Nat /\ x <= MaxCalls /\ XidRep \in Nat
      BY <2>0 DEF Typed, Xid
    <3>2. XidRep + 1 \in 1 .. x /\ XidRep + 1 \in Xid
      BY <3>1 DEF Xid
    <3>3. Received(XidRep + 1)
      BY <2>2, <3>2, Zenon DEF IInv, InvWindow
    <3> QED BY <3>1, <3>3 DEF IInv, InvWindow, Received
  <2>3. ASSUME NEW m \in reqs PROVE hdr[m.xid].rep < m.xid
    <3>1. m.xid \in Xid
      BY <2>0, Zenon DEF Typed, Request
    <3> QED BY <3>1, Zenon DEF IInv, InvHdr, Header
  <2> QED BY <2>1, <2>2, <2>3, Zenon DEF FrontierExact, XidRep
<1> QED BY <1>1, Invariance, PTL

(* checkduplicate_and_update keeps reply_window_ sorted by xid, without an xid
   twice, through all it drops and inserts. *)
THEOREM WindowSortedHolds == Spec => []WindowSorted
<1>1. IInv => WindowSorted
  BY Zenon DEF IInv
<1> QED BY <1>1, Invariance, PTL

(* The assert(false) at the end of add_reply is unreachable until a call times
   out. *)
THEOREM AddReplyFindsInTimeHolds == Spec => []AddReplyFindsInTime
<1>1. IInv => AddReplyFindsInTime
  <2> SUFFICES ASSUME IInv, InTime, NEW j \in running PROVE AddReplyAsserts(j.xid)
    BY Zenon DEF AddReplyFindsInTime, AddReplyFinds, InTime
  <2>1. HasEntry(j.xid)
    BY Zenon DEF IInv, InvRunning
  <2>2. ASSUME NEW i \in DOMAIN reply_window, reply_window[i].xid = j.xid,
               reply_window[i].cb_present
        PROVE  FALSE
    <3>1. PICK e : e = reply_window[i]
      BY Zenon
    <3>2. e \in Entries(MaxCalls)
      <4>1. reply_window \in Seq(Entries(MaxCalls))
        BY Zenon DEF IInv, TypeOK, rpcsTypeOK, Entries
      <4> QED BY <3>1, <4>1, ListAsFunction, Zenon
    <3>3. Has(reply_window, e)
      BY <3>1, Zenon DEF Has
    <3>4. Answered(j.xid, nonce)
      BY <2>2, <3>1, <3>2, <3>3, Zenon DEF IInv, InvEntries
    <3> QED BY <3>4, Zenon DEF Answered
  <2> QED BY <2>1, <2>2, Zenon DEF AddReplyAsserts
<1> QED BY <1>1, Invariance, PTL
=============================================================================

---------------------------- MODULE MarshallProofs ----------------------------
(***************************************************************************)
(* Proofs about Marshall: the buffer is large enough for what is written   *)
(* to it, and what was marshalled is what is unmarshalled.  Steps with     *)
(* large numbers ask for the SMT solver alone.                             *)
(***************************************************************************)
EXTENDS Marshall, SequenceTheorems, TLAPS

(* What makes it inductive: the buffer is at most twice what is in it. *)
AtMostTwice ==
  /\ capa \in Nat /\ ind \in Nat
  /\ RPC_HEADER_SZ <= ind /\ ind <= capa /\ ind <= MAX_PDU
  /\ capa <= DEFAULT_RPC_SZ \/ capa <= 2 * ind

(* A marshall object never writes outside its buffer, whatever is put into it
   and in whatever order: rawbytes adds n to a buffer that doubling would leave
   too small. *)
THEOREM BufferFits == Spec => []Fits
<1>1. Init => AtMostTwice
  BY SMT DEF Init, AtMostTwice, DEFAULT_RPC_SZ, RPC_HEADER_SZ, MAX_PDU
<1>2. AtMostTwice /\ [Next]_vars => AtMostTwice'
  <2>1. CASE RawByte
    BY SMT, <2>1 DEF RawByte, AtMostTwice, DEFAULT_RPC_SZ, RPC_HEADER_SZ, MAX_PDU
  <2>2. ASSUME AtMostTwice, NEW n \in Nat, RawBytes(n) PROVE AtMostTwice'
    BY SMT, <2>2 DEF RawBytes, AtMostTwice, DEFAULT_RPC_SZ, RPC_HEADER_SZ, MAX_PDU
  <2>3. CASE UNCHANGED vars
    BY <2>3 DEF vars, AtMostTwice
  <2> QED BY <2>1, <2>2, <2>3 DEF Next
<1>3. AtMostTwice => Fits
  BY SMT DEF AtMostTwice, Fits, DEFAULT_RPC_SZ, RPC_HEADER_SZ, MAX_PDU, INT_MAX
<1> QED BY <1>1, <1>2, <1>3, PTL DEF Spec

(* What fits into 32 bits is not changed by them. *)
LEMMA Unsigned == \A x \in Nat : x < 4294967296 => unsigned(x) = x
BY SMT DEF unsigned

(* The mask undoes the sign of the char. *)
LEMMA MaskedByte ==
  ASSUME NEW b, NEW i \in Nat, b[i + 1] \in Byte PROVE masked(b, i) = b[i + 1]
BY SMT DEF masked, rawbyte, unsigned, Byte

(* The four bytes of a number give it back. *)
LEMMA FourBytes ==
  ASSUME NEW u \in UInt
  PROVE  /\ (u \div 16777216) % 256 \in Byte /\ (u \div 65536) % 256 \in Byte
         /\ (u \div 256) % 256 \in Byte /\ u % 256 \in Byte
         /\ 16777216 * ((u \div 16777216) % 256) + 65536 * ((u \div 65536) % 256)
              + 256 * ((u \div 256) % 256) + (u % 256) = u
<1> DEFINE q == u \div 256
           r == u \div 65536
           t == u \div 16777216
<1>1. q \in Nat /\ r \in Nat /\ t \in Nat /\ t < 256
  BY SMT DEF UInt
<1>2. u = 256 * q + (u % 256)
  BY SMT DEF UInt
<1>3. q \div 256 = r /\ r \div 256 = t
  BY SMT DEF UInt
<1>4. q = 256 * r + (q % 256) /\ r = 256 * t + (r % 256) /\ t % 256 = t
  BY SMT, <1>1, <1>3
<1>5. u % 256 \in Byte /\ q % 256 \in Byte /\ r % 256 \in Byte /\ t % 256 \in Byte
  BY SMT, <1>1 DEF Byte, UInt
<1> HIDE DEF q, r, t
<1>6. 16777216 * (t % 256) + 65536 * (r % 256) + 256 * (q % 256) + (u % 256) = u
  BY SMT, <1>1, <1>2, <1>4, <1>5 DEF UInt, Byte
<1> QED BY SMT, <1>5, <1>6 DEF q, r, t

(* An int survives the trip through an unsigned int. *)
LEMMA Casts ==
  ASSUME NEW x \in SInt PROVE unsigned(x) \in UInt /\ signed(unsigned(x)) = x
BY SMT DEF SInt, UInt, unsigned, signed

(* pack makes four bytes of any number. *)
LEMMA PackedBytes ==
  ASSUME NEW x \in SInt \cup UInt
  PROVE  /\ unsigned(x) \in UInt
         /\ pack(x) \in Seq(Byte) /\ Len(pack(x)) = 4 /\ \A k \in 1 .. 4 : pack(x)[k] \in Byte
<1>1. unsigned(x) \in UInt
  BY SMT DEF unsigned, SInt, UInt
<1> QED BY SMT, <1>1, FourBytes DEF pack

(* A number is read back from wherever its four bytes are. *)
LEMMA NumberBack ==
  ASSUME NEW b, NEW i \in Nat, NEW x \in SInt \cup UInt,
         \A k \in 1 .. 4 : b[i + k] = pack(x)[k]
  PROVE  /\ readUInt(b, i) = unsigned(x)
         /\ x \in SInt => unpack(b, i) = x
<1> DEFINE u == unsigned(x)
<1>1. u \in UInt
  BY PackedBytes
<1>2. /\ b[i + 1] = (u \div 16777216) % 256 /\ b[i + 2] = (u \div 65536) % 256
      /\ b[i + 3] = (u \div 256) % 256 /\ b[i + 4] = u % 256
  BY SMT DEF pack
<1> HIDE DEF u
<1>3. /\ masked(b, i) = b[i + 1] /\ masked(b, i + 1) = b[i + 2]
      /\ masked(b, i + 2) = b[i + 3] /\ masked(b, i + 3) = b[i + 4]
  <2>1. b[i + 1] \in Byte /\ b[i + 2] \in Byte /\ b[i + 3] \in Byte /\ b[i + 4] \in Byte
    BY SMT, <1>1, <1>2, FourBytes
  <2>2. /\ b[(i + 1) + 1] = b[i + 2] /\ b[(i + 2) + 1] = b[i + 3] /\ b[(i + 3) + 1] = b[i + 4]
        /\ i + 1 \in Nat /\ i + 2 \in Nat /\ i + 3 \in Nat
    BY SMT
  <2> QED BY SMT, <2>1, <2>2, MaskedByte
<1>4. readUInt(b, i) = u
  BY SMT, <1>1, <1>2, <1>3, FourBytes DEF readUInt
<1> QED BY SMT, <1>4, Casts DEF u, unpack

-----------------------------------------------------------------------------
(* x is at offset i of the buffer. *)
Holds(b, i, x) == \A k \in 1 .. 4 : b[i + k] = pack(x)[k]

(* What is beyond the header is the same. *)
SameBody(b, w) == Len(w) = Len(b) /\ \A j \in RPC_HEADER_SZ + 1 .. Len(b) : w[j] = b[j]

(* pack puts a field where it should be, and changes no size; *)
LEMMA PackPuts ==
  ASSUME NEW b \in Seq(Byte), NEW i \in Nat, i + 4 <= Len(b), NEW x \in SInt
  PROVE  /\ packAt(b, i, x) \in Seq(Byte) /\ Len(packAt(b, i, x)) = Len(b)
         /\ Holds(packAt(b, i, x), i, x)
<1> DEFINE p == pack(x)
<1>1. p[1] \in Byte /\ p[2] \in Byte /\ p[3] \in Byte /\ p[4] \in Byte
  BY PackedBytes
<1> HIDE DEF p
<1>2. /\ packAt(b, i, x) \in Seq(Byte) /\ Len(packAt(b, i, x)) = Len(b)
      /\ packAt(b, i, x)[i + 1] = p[1] /\ packAt(b, i, x)[i + 2] = p[2]
      /\ packAt(b, i, x)[i + 3] = p[3] /\ packAt(b, i, x)[i + 4] = p[4]
  BY SMT, <1>1 DEF packAt, p
<1> QED BY SMT, <1>2 DEF p, Holds

(* it leaves the fields before it alone, *)
LEMMA PackKeeps ==
  ASSUME NEW b \in Seq(Byte), NEW i \in Nat, i + 4 <= Len(b), NEW x \in SInt
  PROVE  \A j \in Nat, y \in SInt : j + 4 <= i /\ Holds(b, j, y) => Holds(packAt(b, i, x), j, y)
<1>1. \A j \in 1 .. Len(b) : j \notin i + 1 .. i + 4 => packAt(b, i, x)[j] = b[j]
  BY SMT DEF packAt
<1> SUFFICES ASSUME NEW j \in Nat, NEW y \in SInt, j + 4 <= i, Holds(b, j, y),
                    NEW k \in 1 .. 4
             PROVE  packAt(b, i, x)[j + k] = pack(y)[k]
  BY DEF Holds
<1>2. j + k \in 1 .. Len(b) /\ j + k \notin i + 1 .. i + 4
  BY SMT
<1> QED BY <1>1, <1>2 DEF Holds

(* and, inside the header, what comes after the header. *)
LEMMA PackSpares ==
  ASSUME NEW b \in Seq(Byte), NEW i \in Nat, i + 4 <= Len(b), NEW x \in SInt,
         i + 4 <= RPC_HEADER_SZ, NEW a \in Seq(Byte), SameBody(a, b)
  PROVE  SameBody(a, packAt(b, i, x))
<1>1. \A j \in 1 .. Len(b) : j \notin i + 1 .. i + 4 => packAt(b, i, x)[j] = b[j]
  BY SMT DEF packAt
<1>2. Len(packAt(b, i, x)) = Len(a) /\ Len(b) = Len(a)
  BY PackPuts DEF SameBody
<1> SUFFICES ASSUME NEW j \in RPC_HEADER_SZ + 1 .. Len(a) PROVE packAt(b, i, x)[j] = a[j]
  BY <1>2 DEF SameBody
<1>3. j \in 1 .. Len(b) /\ j \notin i + 1 .. i + 4
  BY SMT, <1>2 DEF RPC_HEADER_SZ
<1> QED BY <1>1, <1>3 DEF SameBody

(* Both sides agree on where the fields of a request's header are, and the
   header leaves the arguments alone: dispatch finds the xid, the procedure, the
   nonces and xid_rep that call1 packed, after the arguments were marshalled. *)
THEOREM RequestHeaderBack ==
  ASSUME NEW b \in Seq(Byte), Len(b) >= RPC_HEADER_SZ,
         NEW xid \in SInt, NEW proc \in SInt, NEW clt_nonce \in SInt,
         NEW srv_nonce \in SInt, NEW xid_rep \in SInt
  PROVE  LET w == pack_req_header(b, xid, proc, clt_nonce, srv_nonce, xid_rep) IN
         /\ unpack(w, 4) = xid /\ unpack(w, 8) = proc /\ unpack(w, 12) = clt_nonce
         /\ unpack(w, 16) = srv_nonce /\ unpack(w, 20) = xid_rep
         /\ SameBody(b, w)
<1> DEFINE b1 == packAt(b, 4, xid)
           b2 == packAt(b1, 8, proc)
           b3 == packAt(b2, 12, clt_nonce)
           b4 == packAt(b3, 16, srv_nonce)
           w  == packAt(b4, 20, xid_rep)
           OK(c) == c \in Seq(Byte) /\ Len(c) = Len(b) /\ SameBody(b, c)
<1>0. /\ OK(b)
      /\ \A i \in {4, 8, 12, 16, 20} : i \in Nat /\ i + 4 <= Len(b) /\ i + 4 <= RPC_HEADER_SZ
      /\ 4 + 4 <= 8 /\ 4 + 4 <= 12 /\ 4 + 4 <= 16 /\ 4 + 4 <= 20
      /\ 8 + 4 <= 12 /\ 8 + 4 <= 16 /\ 8 + 4 <= 20
      /\ 12 + 4 <= 16 /\ 12 + 4 <= 20 /\ 16 + 4 <= 20
  BY SMT DEF RPC_HEADER_SZ, SameBody
<1>1. OK(b1) /\ Holds(b1, 4, xid)
  BY <1>0, PackPuts, PackSpares
<1> HIDE DEF b1
<1>2. OK(b2) /\ Holds(b2, 4, xid) /\ Holds(b2, 8, proc)
  BY <1>0, <1>1, PackPuts, PackKeeps, PackSpares
<1> HIDE DEF b2
<1>3. OK(b3) /\ Holds(b3, 4, xid) /\ Holds(b3, 8, proc) /\ Holds(b3, 12, clt_nonce)
  BY <1>0, <1>2, PackPuts, PackKeeps, PackSpares
<1> HIDE DEF b3
<1>4. /\ OK(b4) /\ Holds(b4, 4, xid) /\ Holds(b4, 8, proc) /\ Holds(b4, 12, clt_nonce)
      /\ Holds(b4, 16, srv_nonce)
  BY <1>0, <1>3, PackPuts, PackKeeps, PackSpares
<1> HIDE DEF b4
<1>5. /\ OK(w) /\ Holds(w, 4, xid) /\ Holds(w, 8, proc) /\ Holds(w, 12, clt_nonce)
      /\ Holds(w, 16, srv_nonce) /\ Holds(w, 20, xid_rep)
  BY <1>0, <1>4, PackPuts, PackKeeps, PackSpares
<1> HIDE DEF w
<1>6. \A i \in Nat, x \in SInt : Holds(w, i, x) => unpack(w, i) = x
  BY NumberBack DEF Holds
<1>7. pack_req_header(b, xid, proc, clt_nonce, srv_nonce, xid_rep) = w
  BY DEF pack_req_header, w, b4, b3, b2, b1
<1> QED BY <1>0, <1>5, <1>6, <1>7

(* The same for the xid and the result in a reply. *)
THEOREM ReplyHeaderBack ==
  ASSUME NEW b \in Seq(Byte), Len(b) >= RPC_HEADER_SZ, NEW xid \in SInt, NEW ret \in SInt
  PROVE  LET w == pack_reply_header(b, xid, ret) IN
         unpack(w, 4) = xid /\ unpack(w, 8) = ret /\ SameBody(b, w)
<1> DEFINE b1 == packAt(b, 4, xid)
           w  == packAt(b1, 8, ret)
           OK(c) == c \in Seq(Byte) /\ Len(c) = Len(b) /\ SameBody(b, c)
<1>0. /\ OK(b)
      /\ \A i \in {4, 8} : i \in Nat /\ i + 4 <= Len(b) /\ i + 4 <= RPC_HEADER_SZ
      /\ 4 + 4 <= 8
  BY SMT DEF RPC_HEADER_SZ, SameBody
<1>1. OK(b1) /\ Holds(b1, 4, xid)
  BY <1>0, PackPuts, PackSpares
<1> HIDE DEF b1
<1>2. OK(w) /\ Holds(w, 4, xid) /\ Holds(w, 8, ret)
  BY <1>0, <1>1, PackPuts, PackKeeps, PackSpares
<1> HIDE DEF w
<1>3. \A i \in Nat, x \in SInt : Holds(w, i, x) => unpack(w, i) = x
  BY NumberBack DEF Holds
<1> QED BY <1>0, <1>2, <1>3 DEF pack_reply_header, w, b1

-----------------------------------------------------------------------------
(* What is appended to a buffer moves by its length, and nothing before it
   changes. *)
LEMMA Joined ==
  ASSUME NEW a \in Seq(Byte), NEW c \in Seq(Byte)
  PROVE  /\ a \o c \in Seq(Byte) /\ Len(a \o c) = Len(a) + Len(c)
         /\ \A k \in 1 .. Len(a) : (a \o c)[k] = a[k]
         /\ \A k \in 1 .. Len(c) : (a \o c)[Len(a) + k] = c[k]
<1>1. Len(a) \in Nat /\ Len(c) \in Nat
  OBVIOUS
<1>2. /\ a \o c \in Seq(Byte) /\ Len(a \o c) = Len(a) + Len(c)
      /\ \A i \in 1 .. Len(a) + Len(c) : (a \o c)[i] = IF i <= Len(a) THEN a[i] ELSE c[i - Len(a)]
  BY ConcatProperties
<1> DEFINE j == a \o c
<1> HIDE DEF j
<1>3. \A k \in 1 .. Len(a) : j[k] = a[k]
  BY SMT, <1>1, <1>2 DEF j
<1>4. \A k \in 1 .. Len(c) : j[Len(a) + k] = c[k]
  <2> SUFFICES ASSUME NEW k \in 1 .. Len(c) PROVE j[Len(a) + k] = c[k]
    OBVIOUS
  <2>1. Len(a) + k \in 1 .. Len(a) + Len(c) /\ ~(Len(a) + k <= Len(a)) /\ (Len(a) + k) - Len(a) = k
    BY SMT, <1>1
  <2> QED BY <1>2, <2>1 DEF j
<1> QED BY <1>2, <1>3, <1>4 DEF j

(* A string is read back whole, whatever bytes it has and whatever was
   marshalled before and after it, and what follows it is read next: so okdone
   holds once all of a message is read with the types it was written with. *)
THEOREM StringBack ==
  ASSUME NEW m \in Seq(Byte), NEW s \in Seq(Byte), NEW rest \in Seq(Byte),
         Len(m) + 4 + Len(s) + Len(rest) <= MAX_PDU
  PROVE  getString(m \o putString(s) \o rest, Len(m))
           = [ok |-> TRUE, s |-> s, ind |-> Len(m) + 4 + Len(s)]
<1> DEFINE p == pack(Len(s))
           q == p \o s
           r == m \o q
           b == r \o rest
           i == Len(m)
           n == Len(s)
<1>1. i \in Nat /\ n \in Nat /\ Len(rest) \in Nat
  OBVIOUS
<1>2. n \in UInt
  BY SMT DEF UInt, MAX_PDU
<1>3. p \in Seq(Byte) /\ Len(p) = 4
  BY <1>2, PackedBytes
<1> HIDE DEF p
<1>4. /\ q \in Seq(Byte) /\ Len(q) = Len(p) + n
      /\ \A k \in 1 .. Len(p) : q[k] = p[k]
      /\ \A k \in 1 .. n : q[Len(p) + k] = s[k]
  BY <1>3, Joined
<1> HIDE DEF q
<1>5. r \in Seq(Byte) /\ Len(r) = i + Len(q) /\ \A k \in 1 .. Len(q) : r[i + k] = q[k]
  BY <1>4, Joined
<1> HIDE DEF r
<1>6. b \in Seq(Byte) /\ Len(b) = Len(r) + Len(rest) /\ \A k \in 1 .. Len(r) : b[k] = r[k]
  BY <1>5, Joined
<1> HIDE DEF b, n, i
<1>7. Len(q) = 4 + n /\ Len(r) = i + (4 + n) /\ Len(b) = i + (4 + n) + Len(rest)
  BY <1>3, <1>4, <1>5, <1>6
<1>8. \A k \in 1 .. 4 + n : b[i + k] = q[k]
  <2> SUFFICES ASSUME NEW k \in 1 .. 4 + n PROVE b[i + k] = q[k]
    OBVIOUS
  <2>1. i + k \in 1 .. i + (4 + n)
    BY SMT, <1>1
  <2> QED BY <1>5, <1>6, <1>7, <2>1
<1>9. \A k \in 1 .. 4 : b[i + k] = p[k]
  <2> SUFFICES ASSUME NEW k \in 1 .. 4 PROVE b[i + k] = p[k]
    OBVIOUS
  <2>1. k \in 1 .. 4 + n
    BY SMT, <1>1
  <2> QED BY <1>3, <1>4, <1>8, <2>1
<1>10. \A k \in 1 .. n : b[(i + 5) + k - 1] = s[k]
  <2> SUFFICES ASSUME NEW k \in 1 .. n PROVE b[(i + 5) + k - 1] = s[k]
    OBVIOUS
  <2>1. (i + 5) + k - 1 = i + (4 + k) /\ 4 + k \in 1 .. 4 + n
    BY SMT, <1>1
  <2> QED BY <1>3, <1>4, <1>8, <2>1
<1>11. readUInt(b, i) = n
  <2>1. \A k \in 1 .. 4 : b[i + k] = pack(n)[k]
    BY <1>9 DEF p, n
  <2>2. readUInt(b, i) = unsigned(n)
    BY <1>1, <1>2, <2>1, NumberBack
  <2> QED BY <1>2, <2>2, Unsigned DEF UInt
<1>12. SubSeq(b, i + 5, i + 4 + n) = s
  <2> DEFINE f == i + 5
             l == i + 4 + n
             t == SubSeq(b, f, l)
  <2>1. f \in Int /\ l \in Int /\ l - f + 1 = n /\ (f <= l <=> 1 <= n)
    BY SMT, <1>1
  <2>2. \A k \in f .. l : b[k] \in Byte
    <3> SUFFICES ASSUME NEW k \in f .. l PROVE b[k] \in Byte
      OBVIOUS
    <3>1. k \in 1 .. Len(b)
      BY SMT, <1>1, <1>7
    <3> QED BY <1>6, <3>1, ElementOfSeq
  <2> HIDE DEF f, l
  <2>3. /\ t \in Seq(Byte) /\ Len(t) = (IF f <= l THEN l - f + 1 ELSE 0)
        /\ \A k \in 1 .. l - f + 1 : t[k] = b[f + k - 1]
    BY <2>1, <2>2, SubSeqProperties
  <2> HIDE DEF t
  <2>4. t \in Seq(Byte) /\ Len(t) = n /\ \A k \in 1 .. n : t[k] = b[f + k - 1]
    BY SMT, <1>1, <2>1, <2>3
  <2>5. t = s
    BY <1>10, <2>4, SeqEqual DEF n, f
  <2> QED BY <2>5 DEF t, f, l
<1>13. unsigned(i + 4 + n) = i + 4 + n /\ ~(i + 4 + n > Len(b))
  <2> DEFINE e == i + 4 + n
  <2>1. e \in Nat /\ Len(b) = e + Len(rest)
    BY SMT, <1>1, <1>7
  <2>2. e + Len(rest) <= MAX_PDU
    BY DEF i, n
  <2> HIDE DEF e
  <2>3. unsigned(e) = e
    <3>1. e < 4294967296
      BY SMT, <1>1, <2>1, <2>2 DEF MAX_PDU
    <3> QED BY <2>1, <3>1, Unsigned
  <2>4. ~(e > Len(b))
    BY SMT, <1>1, <2>1
  <2> QED BY <2>3, <2>4 DEF e
<1>14. m \o putString(s) \o rest = b
  BY DEF putString, b, r, q, p
<1> QED BY <1>11, <1>12, <1>13, <1>14 DEF getString, i, n
=============================================================================

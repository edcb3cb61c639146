------------------------------- MODULE Marshall -------------------------------
(***************************************************************************)
(* marshall and unmarshall of rpc/marshall.h and rpc/rpc.cc: the buffer    *)
(* that grows as a request or a reply is put together, and the encoding of *)
(* numbers, strings and headers.  A byte is a number below 256; the powers *)
(* of two are written out.                                                 *)
(***************************************************************************)
EXTENDS Integers, Sequences

DEFAULT_RPC_SZ == 1024
RPC_HEADER_SZ == 24          \* the size of the PDU and a req_header
MAX_PDU == 10485760          \* connection.cc: readpdu refuses more
INT_MAX == 2147483647

VARIABLES capa, ind          \* _capa and _ind of a marshall object

vars == <<capa, ind>>

Init == capa = DEFAULT_RPC_SZ /\ ind = RPC_HEADER_SZ

RawByte ==
  /\ ind < MAX_PDU
  /\ capa' = IF ind >= capa THEN 2 * capa ELSE capa
  /\ ind' = ind + 1

RawBytes(n) ==
  /\ ind + n <= MAX_PDU
  /\ capa' = IF ind + n > capa THEN (IF capa > n THEN 2 * capa ELSE capa + n) ELSE capa
  /\ ind' = ind + n

(* pack_req_header and pack_reply_header write below RPC_HEADER_SZ only, and
   put _ind back. *)
Next == RawByte \/ \E n \in Nat : RawBytes(n)

Spec == Init /\ [][Next]_vars

(* Every byte that rawbyte, rawbytes and the headers write is inside the
   buffer, and no size computed for it overflows an int, as long as the PDU is
   one that the other side takes. *)
Fits ==
  /\ RPC_HEADER_SZ <= ind /\ ind <= capa
  /\ 2 * capa <= INT_MAX

-----------------------------------------------------------------------------
Byte == 0 .. 255
UInt == {x \in Nat : x < 4294967296}
SInt == {x \in Int : -2147483648 <= x /\ x < 2147483648}

unsigned(x) == x % 4294967296
signed(u) == IF u < 2147483648 THEN u ELSE u - 4294967296

(* marshall::pack and operator<< of an int or an unsigned int. *)
pack(x) ==
  <<(unsigned(x) \div 16777216) % 256, (unsigned(x) \div 65536) % 256,
    (unsigned(x) \div 256) % 256, unsigned(x) % 256>>

(* unmarshall::rawbyte at offset i: a char, which has a sign, becomes an
   unsigned int; the callers mask it. *)
rawbyte(b, i) == unsigned(IF b[i + 1] < 128 THEN b[i + 1] ELSE b[i + 1] - 256)
masked(b, i) == rawbyte(b, i) % 256

(* operator>> of an unsigned int, and unpack of an int. *)
readUInt(b, i) ==
  16777216 * masked(b, i) + 65536 * masked(b, i + 1) + 256 * masked(b, i + 2) + masked(b, i + 3)
unpack(b, i) == signed(readUInt(b, i))

(* pack at offset i of the buffer, and the headers, which rpcc::call1 and
   rpcs::dispatch put in front of what has been marshalled. *)
packAt(b, i, x) ==
  [b EXCEPT ![i + 1] = pack(x)[1], ![i + 2] = pack(x)[2],
            ![i + 3] = pack(x)[3], ![i + 4] = pack(x)[4]]

pack_reply_header(b, xid, ret) == packAt(packAt(b, 4, xid), 8, ret)

pack_req_header(b, xid, proc, clt_nonce, srv_nonce, xid_rep) ==
  packAt(packAt(packAt(packAt(packAt(b, 4, xid), 8, proc), 12, clt_nonce), 16, srv_nonce), 20, xid_rep)

(* operator<< of a string. *)
putString(s) == pack(Len(s)) \o s

(* operator>> of a string at offset i, if the length could be read: ok says
   whether unmarshall is still ok, and ind where it goes on. *)
getString(b, i) ==
  LET n == readUInt(b, i) IN
  IF unsigned(i + 4 + n) > Len(b) THEN [ok |-> FALSE, s |-> <<>>, ind |-> i + 4]
  ELSE [ok |-> TRUE, s |-> SubSeq(b, i + 5, i + 4 + n), ind |-> i + 4 + n]
=============================================================================

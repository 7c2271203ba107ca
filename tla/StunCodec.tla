------------------------------ MODULE StunCodec ------------------------------
(***************************************************************************)
(* stun_unpack in hev-stun.c: from the bytes of an answer to the mapping   *)
(* in it.  Each round of its loop is an action, so that what it finds can  *)
(* be proved for any answer.                                               *)
(*                                                                         *)
(* In TCP mode the buffer holds the body of the message, and msg the       *)
(* header that the server has sent back; in UDP mode it holds the whole    *)
(* message, and msg is the request.  The transaction id in msg is then not *)
(* that of the answer if the answer is to an earlier request: a late or a  *)
(* doubled one, which is taken as any other.                               *)
(*                                                                         *)
(* Addresses and ports are the sequences of their bytes in network order,  *)
(* which is how they lie in memory here: four bytes of an IPv4 address, or *)
(* sixteen of an IPv6 address.                                             *)
(***************************************************************************)
EXTENDS Integers, Sequences

CONSTANTS
  Addrs,       \* addresses a server can report
  Ports,       \* ports it can report
  Tids,        \* transaction ids, sequences of bytes
  Prologues,   \* what a server may write before the mapped address
  BigEndian,   \* the machine NATMap runs on
  ExclusiveOr(_, _)  \* exclusive or of two bytes

Byte == 0 .. 255

Magic == <<33, 18, 164, 66>>   \* htonl (0x2112A442)

MAPPED_ADDR == 1
XOR_MAPPED_ADDR == 32

IPV4 == 1
IPV6 == 2

BUFSIZE == 2048   \* what is received at most

ShortAt(s, i) == s[i + 1] * 256 + s[i + 2]

(* The type and the size of the attribute at offset i.                     *)
TypeAt(s, i) == ShortAt(s, i)
SizeAt(s, i) == ShortAt(s, i + 2)

-----------------------------------------------------------------------------
(***************************************************************************)
(* The server (external): how a message is laid out.                       *)
(***************************************************************************)

(* An attribute is filled up to a multiple of four bytes, which its size   *)
(* does not count.                                                         *)
Filled(n) == n + ((4 - (n % 4)) % 4)

(* Any attributes but mapped addresses: their bytes, and the offsets at    *)
(* which they start, the end of the last one included.  There is room for  *)
(* a header before them and a mapped address after them.                   *)
IsPrologue(p) ==
  LET end == Len(p.bytes)
  IN  /\ p.bytes \in Seq(Byte)
      /\ end <= BUFSIZE - 44
      /\ {0, end} \subseteq p.starts
      /\ \A i \in p.starts \ {end} :
           /\ i \in 0 .. end - 4
           /\ TypeAt(p.bytes, i) \notin {MAPPED_ADDR, XOR_MAPPED_ADDR}
           /\ i + 4 + Filled(SizeAt(p.bytes, i)) \in p.starts

Masked(s, key) == [k \in DOMAIN s |-> ExclusiveOr(s[k], key[k])]

MappedAddr(type, addr, port, id) ==
  LET hide(s) == IF type = XOR_MAPPED_ADDR THEN Masked(s, Magic \o id) ELSE s
  IN  <<0, type, 0, 4 + Len(addr), 0, IF Len(addr) = 4 THEN IPV4 ELSE IPV6>>
        \o hide(port) \o hide(addr)

Header(size, id) ==
  <<1, 1, (size \div 256) % 256, size % 256>> \o Magic \o id

ASSUME StunCodecAssumption ==
  /\ \A t \in Tids : t \in Seq(Byte) /\ Len(t) = 12
  /\ \A a \in Addrs : a \in Seq(Byte) /\ Len(a) \in {4, 16}
  /\ \A p \in Ports : p \in Seq(Byte) /\ Len(p) = 2
  /\ \A p \in Prologues : IsPrologue(p)
  /\ BigEndian \in BOOLEAN
  /\ \A x, y \in Byte : /\ ExclusiveOr(x, y) \in Byte
                       /\ ExclusiveOr(ExclusiveOr(x, y), y) = x

VARIABLES
  buf,      \* the answer
  offset,   \* the local i
  tid,      \* msg->tid
  state,    \* "idle", "asked", "search", "found" or "failed" (-1 is returned)
  mapping,  \* *addr and *port
  asked,    \* the requests the server has got
  sent      \* history: what the server wrote, and whether the code can be
            \* expected to read it, see Plain and Legible

cvars == <<buf, offset, tid, state, mapping, asked, sent>>

CodecInit ==
  /\ buf = <<>>
  /\ offset = 0
  /\ tid = <<>>
  /\ state = "idle"
  /\ mapping = <<>>
  /\ asked = {}
  /\ sent = <<>>

-----------------------------------------------------------------------------
(* stun_pack: the request has an id of its own.  An exchange that gets no  *)
(* answer is followed by the next one, with new locals.                    *)
Pack(id) ==
  /\ state # "search"
  /\ state' = "asked"
  /\ tid' = id
  /\ asked' = asked \cup {id}
  /\ buf' = <<>>
  /\ offset' = 0
  /\ mapping' = <<>>
  /\ sent' = <<>>

(* Every attribute of the prologue ends where its size says, and the size  *)
(* is not 0.                                                               *)
Plain(p) ==
  \A i \in p.starts \ {Len(p.bytes)} :
    SizeAt(p.bytes, i) # 0 /\ SizeAt(p.bytes, i) % 4 = 0

(* msg->tid does not matter, or it is the one that masks the address.      *)
Legible(type, addr, id) ==
  type = MAPPED_ADDR \/ Len(addr) = 4 \/ id = tid

(* An answer has come, to one of the requests, and the search starts at    *)
(* its first attribute.  In TCP mode its header has replaced msg.          *)
Receive(type, prologue, addr, port, id) ==
  LET body == prologue.bytes \o MappedAddr(type, addr, port, id)
  IN  /\ state = "asked"
      /\ id \in asked
      /\ \/ buf' = body /\ offset' = 0 /\ tid' = id
         \/ buf' = Header(Len(body), id) \o body /\ offset' = 20
            /\ UNCHANGED tid
      /\ state' = "search"
      /\ sent' = [addr |-> addr, port |-> port, plain |-> Plain(prologue),
                  legible |-> Legible(type, addr, id)']
      /\ UNCHANGED <<mapping, asked>>

(* The search is at an attribute; one of size 0 ends it, and so does a     *)
(* mapped address of another family.                                       *)
AtAttribute ==
  /\ state = "search"
  /\ offset < Len(buf)
  /\ SizeAt(buf, offset) # 0

AtMapping == TypeAt(buf, offset) \in {MAPPED_ADDR, XOR_MAPPED_ADDR}

FamilyKnown == buf[offset + 6] \in {IPV4, IPV6}

(* The filling of an attribute is not stepped over.                        *)
Skip ==
  /\ AtAttribute
  /\ ~AtMapping
  /\ offset' = offset + 4 + SizeAt(buf, offset)
  /\ UNCHANGED <<buf, tid, state, mapping, asked, sent>>

(* n bytes from offset i on.                                               *)
Bytes(s, i, n) == [k \in 1 .. n |-> s[i + k]]

(* m->port ^ msg->magic: the low half of the magic as a number is at its   *)
(* low address on a little-endian machine only.                            *)
MagicLow == IF BigEndian THEN <<164, 66>> ELSE <<33, 18>>

UnpackedPort(s, i) ==
  LET raw == Bytes(s, i + 6, 2)
  IN  IF TypeAt(s, i) = MAPPED_ADDR THEN raw ELSE Masked(raw, MagicLow)

(* Mutant of UnpackedAddr: an IPv6 address is unmasked with the magic only.*)
UnpackedAddrMagic(s, i) ==
  LET raw == Bytes(s, i + 8, IF s[i + 6] = IPV4 THEN 4 ELSE 16)
  IN  IF TypeAt(s, i) = MAPPED_ADDR THEN raw
      ELSE Masked(raw, Magic \o Magic \o Magic \o Magic)

UnpackedAddr(s, i) ==
  LET raw == Bytes(s, i + 8, IF s[i + 6] = IPV4 THEN 4 ELSE 16)
  IN  IF TypeAt(s, i) = MAPPED_ADDR THEN raw ELSE Masked(raw, Magic \o tid)

Unpack ==
  /\ AtAttribute
  /\ AtMapping
  /\ FamilyKnown
  /\ state' = "found"
  /\ mapping' = [addr |-> UnpackedAddr(buf, offset),
                 port |-> UnpackedPort(buf, offset)]
  /\ UNCHANGED <<buf, offset, tid, asked, sent>>

Fail ==
  /\ state = "search"
  /\ AtAttribute => AtMapping /\ ~FamilyKnown
  /\ state' = "failed"
  /\ UNCHANGED <<buf, offset, tid, mapping, asked, sent>>

PackAny == \E id \in Tids : Pack(id)

ReceiveAny ==
  \E type \in {MAPPED_ADDR, XOR_MAPPED_ADDR}, prologue \in Prologues,
     addr \in Addrs, port \in Ports, id \in Tids :
    Receive(type, prologue, addr, port, id)

CodecNext == PackAny \/ ReceiveAny \/ Skip \/ Unpack \/ Fail

CodecSpec == CodecInit /\ [][CodecNext]_cvars

-----------------------------------------------------------------------------
(* What NATMap takes for its mapping is what the server wrote, in either   *)
(* kind of attribute, for IPv4 and IPv6, after any other attributes, in    *)
(* both modes ("Run STUN client to get mapped address", hev-stun.h:20),    *)
(* and it is found.  Provided the machine is little-endian, and no         *)
(* attribute before it was empty or filled up: the search would end there, *)
(* or go on in the filling, and find nothing or anything.  Of an answer to *)
(* another request, in UDP mode, a masked IPv6 address is read wrongly,    *)
(* for its id is not compared with that in msg; the port is still right.   *)
AnswerUnderstood ==
  state \in {"found", "failed"} /\ sent.plain =>
    /\ state = "found"
    /\ mapping.port = sent.port
    /\ sent.legible => mapping.addr = sent.addr

=============================================================================

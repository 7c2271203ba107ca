------------------------------ MODULE MCNotify ------------------------------
(***************************************************************************)
(* Every sequence of answers over three values of each part of the public  *)
(* address, and two of each part of the local one.                         *)
(* Of two requests either may be answered, and the second with an answer   *)
(* to the first.                                                           *)
(* The bytes include 0 and 255 and those that the magic turns into 0, and  *)
(* the IPv6 address has bytes that the transaction id masks.  Of the six   *)
(* prologues the fourth and the fifth are filled up, the fifth with what   *)
(* looks like a mapped address of no known family, and the last is empty.  *)
(***************************************************************************)
EXTENDS StunBind, Bitwise

Xored(x, y) == x ^^ y

TransactionIds ==
  {<<7, 200, 15, 0, 255, 1, 90, 3, 66, 129, 20, 6>>,
   <<7, 200, 15, 0, 255, 1, 90, 3, 66, 129, 20, 7>>}

Addresses ==
  {<<192, 0, 2, 255>>, <<33, 18, 164, 66>>,
   <<32, 1, 13, 184, 0, 200, 0, 0, 255, 0, 0, 9, 8, 7, 6, 5>>}

(* ... and what becomes of them with the id of another request.            *)
Readable ==
  {Masked(Masked(a, Magic \o s), Magic \o t) :
     a \in Addresses, s \in TransactionIds, t \in TransactionIds}

PortNumbers == {<<0, 80>>, <<33, 18>>, <<255, 66>>}

Prologue(bytes, starts) == [bytes |-> bytes, starts |-> starts]

(* Attributes of type 0x8022 (SOFTWARE).                                   *)
Beginnings ==
  {Prologue(<<>>, {0}),
   Prologue(<<128, 34, 0, 4, 97, 98, 99, 100>>, {0, 8}),
   Prologue(<<128, 34, 0, 4, 0, 1, 0, 8,
              128, 34, 0, 8, 0, 32, 0, 8, 0, 1, 2, 3>>, {0, 8, 20}),
   Prologue(<<128, 34, 0, 3, 97, 98, 99, 0>>, {0, 8}),
   Prologue(<<128, 34, 0, 2, 97, 98, 0, 32>>, {0, 8}),
   Prologue(<<128, 34, 0, 0>>, {0, 4})}
=============================================================================

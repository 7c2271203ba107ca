------------------------------ MODULE ConfPort ------------------------------
(***************************************************************************)
(* The bind port of a session: the -b option in hev_conf_init and          *)
(* hev_conf_bport (hev-conf.c).  The keeper asks for a port before every   *)
(* session and for the next one when the last attempt failed.              *)
(***************************************************************************)
EXTENDS Integers

CONSTANTS
  First, Last,  \* bport[0] and bport[1] after parsing, Last = First if one
  Separator,    \* the character between two ports, "" if only one was given
  NoPort        \* the static port buffer before the first call: empty

VARIABLES
  brand,    \* allocate at random
  port,     \* static port: the port of the current session
  bport2    \* bport[2]: the next port of a sequential allocation

pvars == <<brand, port, bport2>>

Range == First .. Last

(* hev_conf_init reads the separator c even when sscanf did not store one; *)
(* c is not initialised, so brand is then anything.                        *)
Init ==
  /\ brand \in IF Separator = "" THEN BOOLEAN ELSE {Separator = "~"}
  /\ port = NoPort
  /\ bport2 = First

(* rand () % n is one of the n ports of the range.                         *)
PickRandom ==
  /\ brand
  /\ bport2' \in Range
  /\ port' = bport2'
  /\ UNCHANGED brand

(* Mutant of PickNext: the range is a port too short.                      *)
PickNextShort ==
  /\ ~brand
  /\ port' = bport2
  /\ bport2' = IF bport2 + 1 >= Last THEN First ELSE bport2 + 1
  /\ UNCHANGED brand

(* The next port of the range, and after the last one the first.           *)
PickNext ==
  /\ ~brand
  /\ port' = bport2
  /\ bport2' = IF bport2 + 1 > Last THEN First ELSE bport2 + 1
  /\ UNCHANGED brand

(* Mutant of Bport: every call takes another port.                         *)
BportAlways(next) ==
  /\ next \in BOOLEAN
  /\ PickRandom \/ PickNext

(* hev_conf_bport (next): another port if the last attempt failed.         *)
Bport(next) ==
  \/ /\ port = NoPort \/ next
     /\ PickRandom \/ PickNext
  \/ /\ port # NoPort
     /\ ~next
     /\ UNCHANGED pvars

-----------------------------------------------------------------------------
TypeOK ==
  /\ brand \in BOOLEAN
  /\ port \in Range \cup {NoPort}
  /\ bport2 \in Range

=============================================================================

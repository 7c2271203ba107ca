-------------------------------- MODULE Conf --------------------------------
(***************************************************************************)
(* The command line (hev_conf_init in hev-conf.c): getopt gives one option *)
(* after the other, in any order and any number of times, and each is      *)
(* stored in the static variables; then they are checked and completed.    *)
(* What the other modules assume of -k, -c, -b and -t is what is accepted  *)
(* here.                                                                   *)
(*                                                                         *)
(* Options that only store their argument (-4, -6, -d, -e, -f, -C, -i) are *)
(* left out, and so are the ports that -s and -h may name.                 *)
(***************************************************************************)
EXTENDS Integers

CONSTANTS
  Intervals,  \* numbers given to -k and -T
  Counts,     \* numbers given to -c
  Binds,      \* arguments of -b: what sscanf finds in them, a port, or a
              \* port and a character, or two ports with one between them
  Second,     \* 1000 milliseconds
  Modulus,    \* 2^32, the number of values of an int
  LongModulus,\* 2^32 or 2^64, that of an unsigned long
  MaxOptions, \* bound: options on the command line
  Absent      \* an option that is not given

ASSUME ConfAssumption ==
  /\ Intervals \subseteq Int
  /\ Counts \subseteq Int
  /\ \A b \in Binds : /\ DOMAIN b = 1 .. 1 \/ DOMAIN b = 1 .. 2
                                          \/ DOMAIN b = 1 .. 3
                      /\ b[1] \in Int
                      /\ 3 \in DOMAIN b => b[3] \in Int
  /\ Second \in Nat \ {0}
  /\ Modulus \in Nat \ {0}
  /\ LongModulus \in Nat /\ LongModulus >= Modulus
  /\ Absent \notin Binds /\ Absent \notin Intervals \cup Counts
  /\ Absent # ""

VARIABLES
  status,  \* "options", "accepted" or "refused" (-1 is returned)
  mode, keep, ucount, tmsec, stun, http, taddr, tport,  \* the statics; of a
           \* string only whether it is there
  bport0, bport1, brand,  \* bport[0], bport[1], brand
  c,       \* the local c, not initialised: the separator of -b
  given,   \* history: the argument of each option that was given, at last
  again,   \* history: an option was given more than once
  count    \* number of options so far

numbers == <<keep, ucount, tmsec>>
names == <<stun, http, taddr, tport>>
ports == <<bport0, bport1, brand, c>>
vars == <<status, mode, numbers, names, ports, given, again, count>>

Letters == {"u", "k", "c", "T", "s", "h", "t", "p", "b"}

Separators == {"~", "-", ":"}

Init ==
  /\ status = "options"
  /\ mode = "tcp"
  /\ keep = 0 /\ ucount = 0 /\ tmsec = 0
  /\ stun = FALSE /\ http = FALSE /\ taddr = FALSE /\ tport = FALSE
  /\ bport0 = 0 /\ bport1 = 0 /\ brand = FALSE
  /\ c \in Separators
  /\ given = [l \in Letters |-> Absent]
  /\ again = FALSE
  /\ count = 0

-----------------------------------------------------------------------------
(* The value of an unsigned long in an int.                                *)
Cut(x) == ((x + Modulus \div 2) % Modulus) - Modulus \div 2

(* strtoul (external): what is too large becomes the largest value, and a  *)
(* minus sign negates in unsigned long.                                    *)
Strtoul(x) ==
  IF x \in 1 - LongModulus .. LongModulus - 1 THEN x % LongModulus
  ELSE LongModulus - 1

(* An unsigned long of seconds, times 1000, in an int.                     *)
Milliseconds(x) == Cut((Strtoul(x) * Second) % LongModulus)

(* %u of sscanf, which reads with strtoul, stores into an int.             *)
Unsigned(x) == Cut(Strtoul(x))

(* getopt returns the letter l with the argument a.                        *)
Option(l, a) ==
  /\ status = "options"
  /\ count < MaxOptions
  /\ count' = count + 1
  /\ given' = [given EXCEPT ![l] = a]
  /\ again' = (again \/ given[l] # Absent)
  /\ UNCHANGED status

OptionUdp ==
  /\ Option("u", "")
  /\ mode' = "udp"
  /\ UNCHANGED <<numbers, names, ports>>

OptionNumber ==
  /\ \/ \E i \in Intervals : /\ Option("k", i)
                             /\ keep' = Milliseconds(i)
                             /\ UNCHANGED <<ucount, tmsec>>
     \/ \E i \in Intervals : /\ Option("T", i)
                             /\ tmsec' = Milliseconds(i)
                             /\ UNCHANGED <<keep, ucount>>
     \/ \E i \in Counts : /\ Option("c", i)
                          /\ ucount' = Strtoul(i) % Modulus
                          /\ UNCHANGED <<keep, tmsec>>
  /\ UNCHANGED <<mode, names, ports>>

OptionName ==
  /\ \/ Option("s", "") /\ stun' = TRUE /\ UNCHANGED <<http, taddr, tport>>
     \/ Option("h", "") /\ http' = TRUE /\ UNCHANGED <<stun, taddr, tport>>
     \/ Option("t", "") /\ taddr' = TRUE /\ UNCHANGED <<stun, http, tport>>
     \/ Option("p", "") /\ tport' = TRUE /\ UNCHANGED <<stun, http, taddr>>
  /\ UNCHANGED <<mode, numbers, ports>>

(* Mutant of OptionBind: the character is read over, not stored.           *)
OptionBindAnyMark ==
  /\ \E b \in Binds :
       /\ Option("b", b)
       /\ bport0' = Unsigned(b[1])
       /\ bport1' = IF 3 \in DOMAIN b THEN Unsigned(b[3]) ELSE bport1
  /\ UNCHANGED <<mode, numbers, names, brand, c>>

(* sscanf stores as many of the two ports and the character between them   *)
(* as it finds; the rest keeps its value.                                  *)
OptionBind ==
  /\ \E b \in Binds :
       /\ Option("b", b)
       /\ bport0' = Unsigned(b[1])
       /\ c' = IF 2 \in DOMAIN b THEN b[2] ELSE c
       /\ bport1' = IF 3 \in DOMAIN b THEN Unsigned(b[3]) ELSE bport1
  /\ UNCHANGED <<mode, numbers, names, brand>>

(* An option that is not known, or without its argument.                   *)
OptionUnknown ==
  /\ status = "options"
  /\ count < MaxOptions
  /\ status' = "refused"
  /\ UNCHANGED <<mode, numbers, names, ports, given, again, count>>

-----------------------------------------------------------------------------
(* Mutant of Default: the mode is not looked at.                           *)
DefaultTcp == 30 * Second

(* Without -k, or with one that does not make a positive int.              *)
Default == (IF mode = "tcp" THEN 30 ELSE 10) * Second

(* Mutant of Lacking: -t needs no -p.                                      *)
LackingLoosely ==
  \/ ~stun
  \/ mode = "tcp" /\ ~http
  \/ ~taddr /\ tport

(* What there must be: a STUN server, in TCP mode an HTTP server, and the  *)
(* address and the port of a target, or neither.                           *)
Lacking ==
  \/ ~stun
  \/ mode = "tcp" /\ ~http
  \/ taddr # tport

(* The last port of the range; one port is a range too.                    *)
Last == IF bport1 = 0 THEN bport0 ELSE bport1

Refuse ==
  /\ status = "options"
  /\ Lacking \/ bport0 > Last
  /\ status' = "refused"
  /\ UNCHANGED <<mode, numbers, names, ports, given, again, count>>

Accept ==
  /\ status = "options"
  /\ ~Lacking
  /\ bport0 <= Last
  /\ status' = "accepted"
  /\ keep' = IF keep <= 0 THEN Default ELSE keep
  /\ ucount' = IF ucount = 0 THEN 10 ELSE ucount
  /\ tmsec' = IF tmsec <= 0 THEN 300 * Second ELSE tmsec
  /\ brand' = (c = "~" \/ brand)
  /\ bport1' = Last
  /\ UNCHANGED <<mode, names, bport0, c, given, again, count>>

(* The n of rand () % n in hev_conf_bport, for what it wraps to.           *)
Choices == Cut(bport1 - bport0 + 1)

Next ==
  \/ OptionUdp
  \/ OptionNumber
  \/ OptionName
  \/ OptionBind
  \/ OptionUnknown
  \/ Refuse
  \/ Accept

Spec == Init /\ [][Next]_vars

-----------------------------------------------------------------------------
IntMin == -(Modulus \div 2)

IntMax == IntMin + Modulus - 1

TypeOK ==
  /\ status \in {"options", "accepted", "refused"}
  /\ mode \in {"tcp", "udp"}
  /\ keep \in Int /\ ucount \in Nat /\ tmsec \in Int
  /\ {stun, http, taddr, tport, brand, again} \subseteq BOOLEAN
  /\ bport0 \in IntMin .. IntMax /\ bport1 \in IntMin .. IntMax

(* Whatever is accepted can be worked with, also after an overflow of -k,  *)
(* -T, -c or -b and with -b given twice: the keepers' sleeps have a        *)
(* length, the UDP keeper's count can be reached, each mode has its        *)
(* servers, and a forwarder its target.  rand () % n in hev_conf_bport has *)
(* an n that is not 0, unless the range is that of all values of an int:   *)
(* -b 2147483648~2147483647 is accepted, and n wraps to 0.                 *)
AcceptedIsUsable ==
  status = "accepted" =>
    /\ keep > 0 /\ tmsec > 0 /\ ucount > 0
    /\ bport0 <= bport1
    /\ Choices = 0 => bport0 = IntMin /\ bport1 = IntMax
    /\ stun /\ (mode = "tcp" => http)
    /\ taddr <=> tport

Seconds(i, otherwise) ==
  IF i = Absent THEN otherwise * Second
  ELSE IF i = 0 THEN otherwise * Second ELSE i * Second

Fits(i) == i = Absent \/ i \in 0 .. (Modulus \div 2 - 1) \div Second

(* The numbers that are used are those of the command line ("seconds       *)
(* between each keep-alive", README.md:71), or the defaults of the mode,   *)
(* whether -u comes before -k or after it.  Provided that an int can hold  *)
(* the milliseconds, and the unsigned int the count: else -k 4294968 is an *)
(* interval of 0.7 s, and -c 4294967296 is 0, so 10.                       *)
NumbersAsGiven ==
  status = "accepted" /\ ~again =>
    /\ Fits(given["k"]) =>
         keep = Seconds(given["k"], IF given["u"] = Absent THEN 30 ELSE 10)
    /\ Fits(given["T"]) => tmsec = Seconds(given["T"], 300)
    /\ given["c"] \in {Absent, 0} => ucount = 10
    /\ given["c"] # Absent /\ given["c"] \in 1 .. Modulus - 1
         => ucount = given["c"]

(* The numbers of -b that come out of an int as they went in.              *)
FitsPorts(b) ==
  \A k \in DOMAIN b \ {2} : b[k] \in 0 .. Modulus \div 2 - 1

(* -b means what the help text says ("<port>: specified", "random          *)
(* allocation within the range", "sequential allocation within the range", *)
(* README.md:81-83): although c is read where nothing has been stored in   *)
(* it, a random choice is made only among the ports of a range with "~".   *)
(* Provided -b is given once: of an earlier one the last port and the      *)
(* separator remain; and with numbers that an int can hold, as ports are.  *)
BindAsGiven ==
  LET b == given["b"]
  IN  status = "accepted" /\ ~again =>
        IF b = Absent THEN bport0 = 0 /\ bport1 = 0
        ELSE FitsPorts(b) =>
               /\ bport0 = b[1]
               /\ bport0 < bport1 => /\ bport1 = b[3]
                                     /\ brand <=> b[2] = "~"
               /\ 3 \in DOMAIN b => bport1 = b[3] \/ b[3] = 0

=============================================================================

----------------------------- MODULE InputProofs -----------------------------
(***************************************************************************)
(* What is read from outside, the command line (module Conf) and the bytes *)
(* of an answer (module StunCodec): what is promised of both, for all      *)
(* arguments and all answers.                                              *)
(***************************************************************************)
EXTENDS Conf, StunCodec, SequenceTheorems, TLAPS

LEMMA Numbers ==
  /\ Intervals \subseteq Int /\ Counts \subseteq Int
  /\ Second \in Nat \ {0} /\ Modulus \in Nat \ {0}
  /\ LongModulus \in Nat \ {0} /\ LongModulus >= Modulus
<1>1. /\ Intervals \subseteq Int /\ Counts \subseteq Int
      /\ Second \in Nat \ {0} /\ Modulus \in Nat \ {0}
      /\ LongModulus \in Nat /\ LongModulus >= Modulus
  BY ConfAssumption, Zenon DEF ConfAssumption
<1>2. LongModulus # 0
  BY <1>1
<1> QED BY <1>1, <1>2

LEMMA Remainder ==
  ASSUME NEW m \in Nat \ {0}, NEW x \in Int
  PROVE  x % m \in 0 .. m - 1
OBVIOUS

LEMMA SmallRemainder ==
  ASSUME NEW m \in Nat \ {0}, NEW x \in Int, 0 <= x, x < m
  PROVE  x % m = x
OBVIOUS

LEMMA RemainderOnce ==
  ASSUME NEW m \in Nat \ {0}, NEW x \in Int, m <= x, x < m + m
  PROVE  x % m = x - m
OBVIOUS

(* An int has its values, whatever is stored in it.                        *)
LEMMA CutInRange ==
  ASSUME NEW x \in Int
  PROVE  Cut(x) \in IntMin .. IntMax
<1> DEFINE h == Modulus \div 2
           y == (x + h) % Modulus
<1>1. h \in Int /\ x + h \in Int
  BY Numbers
<1>2. y \in 0 .. Modulus - 1
  BY <1>1, Numbers, Remainder
<1> HIDE DEF h, y
<1>3. Cut(x) = y - h /\ IntMin = -h /\ IntMax = -h + Modulus - 1
  BY DEF Cut, IntMin, IntMax, h, y
<1> QED BY <1>1, <1>2, <1>3, Numbers

LEMMA StrtoulIsNat ==
  ASSUME NEW x \in Int
  PROVE  Strtoul(x) \in 0 .. LongModulus - 1
<1>1. x % LongModulus \in 0 .. LongModulus - 1
  BY Numbers, Remainder
<1> QED BY <1>1, Numbers DEF Strtoul

LEMMA StoredInRange ==
  ASSUME NEW x \in Int
  PROVE  /\ Milliseconds(x) \in Int
         /\ Unsigned(x) \in IntMin .. IntMax
         /\ Strtoul(x) % Modulus \in Nat
<1>1. Strtoul(x) \in Int
  BY StrtoulIsNat
<1> DEFINE y == Strtoul(x) * Second
<1>2. y \in Int
  BY <1>1, Numbers
<1> HIDE DEF y
<1>3. y % LongModulus \in Int
  BY <1>2, Numbers
<1>4. IntMin .. IntMax \subseteq Int
  OBVIOUS
<1>5. Milliseconds(x) \in Int
  BY <1>3, <1>4, CutInRange DEF Milliseconds, y
<1>6. Unsigned(x) \in IntMin .. IntMax
  BY <1>1, CutInRange DEF Unsigned
<1>7. Strtoul(x) % Modulus \in Nat
  BY <1>1, Numbers, Remainder
<1> QED BY <1>5, <1>6, <1>7

(* What fits comes out of an int as it went in.                            *)
LEMMA CutOfFitting ==
  ASSUME NEW x \in 0 .. Modulus \div 2 - 1
  PROVE  Cut(x) = x
<1> DEFINE h == Modulus \div 2
<1>1. h \in Nat /\ 2 * h <= Modulus
  BY Numbers
<1>2. x \in Nat /\ x < h
  BY <1>1
<1> HIDE DEF h
<1>3. (x + h) % Modulus = x + h
  BY <1>1, <1>2, SmallRemainder, Numbers
<1> QED BY <1>1, <1>2, <1>3 DEF Cut, h

LEMMA StrtoulOfFitting ==
  ASSUME NEW x \in 0 .. LongModulus - 1
  PROVE  Strtoul(x) = x
<1>1. x % LongModulus = x
  BY Numbers, SmallRemainder
<1>2. x \in 1 - LongModulus .. LongModulus - 1
  BY Numbers
<1> QED BY <1>1, <1>2 DEF Strtoul

LEMMA UnsignedOfFitting ==
  ASSUME NEW x \in 0 .. Modulus \div 2 - 1
  PROVE  Unsigned(x) = x
<1>1. x \in 0 .. LongModulus - 1
  BY Numbers
<1> QED BY <1>1, CutOfFitting, StrtoulOfFitting DEF Unsigned

(* n is 0 for the range of all values of an int only.                      *)
LEMMA NoChoices ==
  ASSUME NEW a \in IntMin .. IntMax, NEW b \in IntMin .. IntMax, a <= b,
         Cut(b - a + 1) = 0
  PROVE  a = IntMin /\ b = IntMax
<1> DEFINE h == Modulus \div 2
           d == b - a + 1
<1>1. h \in Nat /\ h + h <= Modulus /\ Modulus \in Nat \ {0}
  BY Numbers
<1>2. a \in Int /\ b \in Int /\ -h <= a /\ b <= -h + Modulus - 1
  BY <1>1 DEF IntMin, IntMax
<1>3. (d + h) % Modulus = h
  <2>1. (d + h) % Modulus \in Int /\ Cut(d) = ((d + h) % Modulus) - h
    BY <1>1, <1>2, Remainder DEF Cut
  <2> HIDE DEF h
  <2> QED BY <1>1, <2>1
<1> HIDE DEF h
<1>4. d \in 1 .. Modulus
  BY <1>1, <1>2
<1> HIDE DEF d
<1>5. d = Modulus
  <2>1. CASE d + h < Modulus
    <3>1. (d + h) % Modulus = d + h
      BY <1>1, <1>4, <2>1, SmallRemainder
    <3> QED BY <1>1, <1>3, <1>4, <3>1
  <2>2. CASE d + h >= Modulus /\ d < Modulus
    <3>1. (d + h) % Modulus = (d + h) - Modulus
      <4>1. Modulus <= d + h /\ d + h < Modulus + Modulus /\ d + h \in Int
        BY <1>1, <1>4, <2>2
      <4> QED BY <1>1, <4>1, RemainderOnce, Zenon
    <3>2. h = (d + h) - Modulus
      BY <1>3, <3>1
    <3> QED BY <1>1, <1>4, <3>2
  <2> QED BY <1>1, <1>4, <2>1, <2>2
<1> QED BY <1>1, <1>2, <1>5 DEF d, h, IntMin, IntMax

(* The argument of an option -b.                                           *)
LEMMA BindArgument ==
  ASSUME NEW b \in Binds
  PROVE  /\ b # Absent
         /\ 1 \in DOMAIN b /\ b[1] \in Int
         /\ 3 \in DOMAIN b => b[3] \in Int /\ 2 \in DOMAIN b
<1>1. /\ DOMAIN b = 1 .. 1 \/ DOMAIN b = 1 .. 2 \/ DOMAIN b = 1 .. 3
      /\ b[1] \in Int
      /\ 3 \in DOMAIN b => b[3] \in Int
  BY ConfAssumption DEF ConfAssumption
<1>2. b # Absent
  BY ConfAssumption DEF ConfAssumption
<1> QED BY <1>1, <1>2

-----------------------------------------------------------------------------
(* The numbers have the types that decide what a comparison with 0 means.  *)
NumbersInv ==
  /\ keep \in Int /\ tmsec \in Int /\ ucount \in Nat
  /\ bport0 \in IntMin .. IntMax /\ bport1 \in IntMin .. IntMax

(* The inductive invariant for what is accepted.                           *)
UsableInv == NumbersInv /\ AcceptedIsUsable

LEMMA UsableInvInit == Init => UsableInv
<1>1. 0 \in IntMin .. IntMax
  BY Numbers DEF IntMin, IntMax
<1> QED BY <1>1 DEF Init, UsableInv, NumbersInv, AcceptedIsUsable

(* One more option: nothing has been accepted yet.                         *)
LEMMA OptionKeepsUsable ==
  ASSUME UsableInv, OptionUdp \/ OptionNumber \/ OptionName \/ OptionBind
  PROVE  UsableInv'
<1>1. status' = "options"
  BY DEF OptionUdp, OptionNumber, OptionName, OptionBind, Option
<1>2. CASE OptionUdp \/ OptionName
  BY <1>1, <1>2 DEF OptionUdp, OptionName, numbers, ports, UsableInv,
                    NumbersInv, AcceptedIsUsable
<1>3. CASE OptionNumber
  <2>1. /\ \A i \in Intervals : Milliseconds(i) \in Int
        /\ \A i \in Counts : Strtoul(i) % Modulus \in Nat
    BY Numbers, StoredInRange
  <2>2. keep' \in Int /\ tmsec' \in Int /\ ucount' \in Nat
    BY <1>3, <2>1, Numbers DEF OptionNumber, UsableInv, NumbersInv
  <2>3. UNCHANGED <<bport0, bport1>>
    BY <1>3 DEF OptionNumber, ports
  <2> QED BY <1>1, <2>2, <2>3 DEF UsableInv, NumbersInv, AcceptedIsUsable
<1>4. CASE OptionBind
  <2>1. PICK b \in Binds :
          /\ bport0' = Unsigned(b[1])
          /\ bport1' = IF 3 \in DOMAIN b THEN Unsigned(b[3]) ELSE bport1
    BY <1>4 DEF OptionBind
  <2>3. bport0' \in IntMin .. IntMax /\ bport1' \in IntMin .. IntMax
    BY <2>1, BindArgument, StoredInRange DEF UsableInv, NumbersInv
  <2>2. UNCHANGED numbers
    BY <1>4 DEF OptionBind
  <2> QED BY <1>1, <2>2, <2>3
          DEF numbers, UsableInv, NumbersInv, AcceptedIsUsable
<1> QED BY <1>2, <1>3, <1>4

(* The checks and the defaults after the last option.                      *)
LEMMA AcceptIsUsable ==
  ASSUME UsableInv, Accept
  PROVE  UsableInv'
<1>1. /\ Default \in Int /\ Default > 0
      /\ 300 * Second \in Int /\ 300 * Second > 0
  BY Numbers DEF Default
<1>2. keep' \in Int /\ keep' > 0 /\ tmsec' \in Int /\ tmsec' > 0
  BY <1>1 DEF Accept, UsableInv, NumbersInv
<1>3. ucount' \in Nat /\ ucount' > 0
  BY DEF Accept, UsableInv, NumbersInv
<1>4. /\ bport0' \in IntMin .. IntMax /\ bport1' \in IntMin .. IntMax
      /\ bport0' <= bport1'
  BY DEF Accept, Last, UsableInv, NumbersInv
<1>5. stun' /\ (mode' = "tcp" => http') /\ taddr' = tport'
  BY Zenon DEF Accept, Lacking, names
<1>6. Choices' = 0 => bport0' = IntMin /\ bport1' = IntMax
  BY <1>4, NoChoices DEF Choices
<1> QED BY <1>2, <1>3, <1>4, <1>5, <1>6
        DEF UsableInv, NumbersInv, AcceptedIsUsable

LEMMA UsableInvStep == UsableInv /\ [Next]_vars => UsableInv'
<1> SUFFICES ASSUME UsableInv, [Next]_vars PROVE UsableInv'
  OBVIOUS
<1>1. CASE OptionUnknown \/ Refuse
  BY <1>1 DEF OptionUnknown, Refuse, numbers, ports, UsableInv, NumbersInv,
              AcceptedIsUsable
<1>2. CASE UNCHANGED vars
  BY <1>2 DEF vars, numbers, names, ports, UsableInv, NumbersInv,
              AcceptedIsUsable, Choices
<1> QED BY <1>1, <1>2, OptionKeepsUsable, AcceptIsUsable DEF Next

(* What the program starts with can be worked with.                        *)
THEOREM AcceptedUsable == Spec => []AcceptedIsUsable
<1>1. UsableInv => AcceptedIsUsable
  BY DEF UsableInv
<1> QED BY <1>1, UsableInvInit, UsableInvStep, PTL DEF Spec

-----------------------------------------------------------------------------
(***************************************************************************)
(* The bind port.                                                          *)
(***************************************************************************)

(* What the statics and c hold of an only -b, before the checks.           *)
BindStored ==
  LET b == given["b"]
  IN  /\ brand = FALSE
      /\ b = Absent => bport0 = 0 /\ bport1 = 0
      /\ b # Absent => /\ b \in Binds
                       /\ bport0 = Unsigned(b[1])
                       /\ 2 \in DOMAIN b => c = b[2]
                       /\ bport1 = IF 3 \in DOMAIN b THEN Unsigned(b[3])
                                                     ELSE 0

(* The inductive invariant.                                                *)
BindInv ==
  /\ DOMAIN given = Letters
  /\ status # "accepted" /\ ~again => BindStored
  /\ BindAsGiven

LEMMA BindInvInit == Init => BindInv
BY DEF Init, BindInv, BindStored, BindAsGiven, Letters

(* The first -b stores its argument; other options leave it alone.         *)
LEMMA OptionKeepsBind ==
  ASSUME BindInv, OptionUdp \/ OptionNumber \/ OptionName \/ OptionBind
  PROVE  BindInv'
<1>1. PICK l \in Letters : \E a : Option(l, a)
  BY DEF OptionUdp, OptionNumber, OptionName, OptionBind, Letters
<1>2. /\ status = "options" /\ status' = "options"
      /\ DOMAIN given' = Letters
  BY <1>1 DEF Option, BindInv
<1>3. BindAsGiven'
  BY <1>2 DEF BindAsGiven
<1>4. CASE OptionUdp \/ OptionNumber \/ OptionName
  <2>1. \E k \in Letters \ {"b"} : \E v : Option(k, v)
    BY <1>4 DEF OptionUdp, OptionNumber, OptionName, Letters
  <2>2. given'["b"] = given["b"]
    BY <2>1 DEF Option, BindInv, Letters
  <2>4. ~again' => ~again
    BY <2>1, Zenon DEF Option
  <2>3. UNCHANGED ports
    BY <1>4 DEF OptionUdp, OptionNumber, OptionName
  <2> QED BY <1>2, <1>3, <2>2, <2>3, <2>4 DEF ports, BindInv, BindStored
<1>5. ASSUME NEW b \in Binds, Option("b", b),
             bport0' = Unsigned(b[1]),
             c' = IF 2 \in DOMAIN b THEN b[2] ELSE c,
             bport1' = IF 3 \in DOMAIN b THEN Unsigned(b[3]) ELSE bport1,
             UNCHANGED brand
      PROVE  BindInv'
  <2>1. given'["b"] = b /\ b # Absent
    BY <1>5, BindArgument DEF Option, BindInv, Letters
  <2>2. ~again' => ~again /\ given["b"] = Absent
    BY <1>5, Zenon DEF Option
  <2>3. ~again' => BindStored'
    BY <1>2, <1>5, <2>1, <2>2 DEF BindInv, BindStored
  <2> QED BY <1>2, <1>3, <2>3 DEF BindInv
<1>6. CASE OptionBind
  BY <1>5, <1>6 DEF OptionBind
<1> QED BY <1>4, <1>6

LEMMA AcceptAsGiven ==
  ASSUME BindInv, Accept
  PROVE  BindInv'
<1> DEFINE b == given["b"]
<1>1. /\ status = "options" /\ status' = "accepted"
      /\ UNCHANGED <<given, again, bport0>>
      /\ bport0 <= Last /\ bport1' = Last
      /\ brand' = (c = "~" \/ brand)
  BY DEF Accept
<1>2. ASSUME ~again, b = Absent PROVE BindAsGiven'
  BY <1>1, <1>2 DEF BindInv, BindStored, BindAsGiven, Last
<1>3. ASSUME ~again, b # Absent, ~FitsPorts(b) PROVE BindAsGiven'
  BY <1>1, <1>3 DEF BindAsGiven
<1>4. ASSUME ~again, b # Absent, FitsPorts(b) PROVE BindAsGiven'
  <2>1. /\ brand = FALSE /\ b \in Binds /\ bport0 = Unsigned(b[1])
        /\ 2 \in DOMAIN b => c = b[2]
        /\ bport1 = IF 3 \in DOMAIN b THEN Unsigned(b[3]) ELSE 0
    BY <1>1, <1>4 DEF BindInv, BindStored
  <2>2. /\ 1 \in DOMAIN b /\ b[1] \in Int
        /\ 3 \in DOMAIN b => b[3] \in Int /\ 2 \in DOMAIN b
    BY <2>1, BindArgument
  <2>3. /\ bport0 = b[1]
        /\ bport1 = IF 3 \in DOMAIN b THEN b[3] ELSE 0
    BY <1>4, <2>1, <2>2, UnsignedOfFitting DEF FitsPorts
  <2>4. 3 \in DOMAIN b => bport1' = b[3] \/ b[3] = 0
    BY <1>1, <2>3 DEF Last
  <2>5. ASSUME bport0' < bport1'
        PROVE  bport1' = b[3] /\ (brand' <=> b[2] = "~")
    <3>1. bport1 # 0 /\ bport1' = bport1
      BY <1>1, <2>2, <2>3, <2>5 DEF Last
    <3>2. 3 \in DOMAIN b /\ 2 \in DOMAIN b
      BY <2>2, <2>3, <3>1
    <3>3. brand' = (b[2] = "~")
      BY <1>1, <2>1, <3>2, Zenon
    <3> QED BY <2>3, <3>1, <3>2, <3>3
  <2> HIDE DEF b
  <2>6. given'["b"] = b
    BY <1>1 DEF b
  <2> QED BY <1>1, <1>4, <2>3, <2>4, <2>5, <2>6 DEF BindAsGiven
<1>5. again => BindAsGiven'
  BY <1>1 DEF BindAsGiven
<1> QED BY <1>1, <1>2, <1>3, <1>4, <1>5 DEF BindInv

LEMMA BindInvStep == BindInv /\ [Next]_vars => BindInv'
<1> SUFFICES ASSUME BindInv, [Next]_vars PROVE BindInv'
  OBVIOUS
<1>1. ASSUME UNCHANGED <<ports, given, again>>,
             status' = "accepted" <=> status = "accepted"
      PROVE  BindInv'
  BY <1>1 DEF ports, BindInv, BindStored, BindAsGiven, FitsPorts
<1>2. CASE OptionUnknown \/ Refuse
  <2>1. /\ UNCHANGED <<ports, given, again>>
        /\ status' = "accepted" <=> status = "accepted"
    BY <1>2 DEF OptionUnknown, Refuse
  <2> QED BY <1>1, <2>1
<1>3. CASE UNCHANGED vars
  <2>1. /\ UNCHANGED <<ports, given, again>>
        /\ status' = "accepted" <=> status = "accepted"
    BY <1>3 DEF vars
  <2> QED BY <1>1, <2>1
<1> QED BY <1>2, <1>3, OptionKeepsBind, AcceptAsGiven DEF Next

(* -b, given once and with numbers that an int can hold, is what the ports *)
(* are taken from, though the separator is read where nothing may have     *)
(* been stored in it.                                                      *)
THEOREM BindPortAsGiven == Spec => []BindAsGiven
<1>1. BindInv => BindAsGiven
  BY DEF BindInv
<1> QED BY <1>1, BindInvInit, BindInvStep, PTL DEF Spec

-----------------------------------------------------------------------------
(***************************************************************************)
(* The numbers.                                                            *)
(***************************************************************************)

LEMMA Absences ==
  Absent \notin Intervals /\ Absent \notin Counts /\ Absent # ""
BY ConfAssumption, Zenon DEF ConfAssumption

LEMMA ProductInRange ==
  ASSUME NEW h \in Int, NEW i \in 0 .. (h - 1) \div Second
  PROVE  /\ i * Second \in Nat /\ i * Second < h /\ i <= i * Second
         /\ i * Second <= 0 <=> i = 0
<1> DEFINE q == (h - 1) \div Second
<1>1. q \in Int /\ q * Second <= h - 1
  BY Numbers
<1>2. i \in Nat /\ i <= q
  BY <1>1
<1> HIDE DEF q
<1>3. i * Second <= q * Second /\ i * Second \in Nat
  BY <1>1, <1>2, Numbers
<1>4. i # 0 => i * Second > 0
  BY <1>2, Numbers
<1>5. i = 0 => i * Second = 0
  BY Numbers
<1>6. q * Second \in Int /\ i <= i * Second
  BY <1>1, <1>2, Numbers
<1> QED BY <1>1, <1>3, <1>4, <1>5, <1>6

(* Milliseconds that an int can hold are those of the seconds given.       *)
LEMMA MillisecondsOfFitting ==
  ASSUME NEW i \in 0 .. (Modulus \div 2 - 1) \div Second
  PROVE  /\ Milliseconds(i) = i * Second
         /\ i * Second <= 0 <=> i = 0
<1> DEFINE h == Modulus \div 2
           x == i * Second
<1>1. h \in Nat /\ h <= Modulus /\ i \in Nat
  BY Numbers
<1>2. x \in Nat /\ x < h /\ i <= x /\ (x <= 0 <=> i = 0)
  BY <1>1, ProductInRange
<1> HIDE DEF h, x
<1>3. /\ x \in 0 .. h - 1 /\ 0 <= x /\ x < LongModulus
      /\ i \in 0 .. LongModulus - 1
  BY <1>1, <1>2, Numbers
<1>4. Strtoul(i) = i /\ x % LongModulus = x
  BY <1>2, <1>3, Numbers, StrtoulOfFitting, SmallRemainder
<1>5. Cut(x) = x
  BY <1>3, CutOfFitting DEF h
<1> QED BY <1>2, <1>4, <1>5 DEF Milliseconds, x

(* What the statics hold of options given once, before the checks.         *)
MillisecondsOf(i) == IF i = Absent THEN 0 ELSE Milliseconds(i)

NumbersStored ==
  /\ given["k"] \in Intervals \cup {Absent}
  /\ given["T"] \in Intervals \cup {Absent}
  /\ keep = MillisecondsOf(given["k"])
  /\ tmsec = MillisecondsOf(given["T"])
  /\ ucount = IF given["c"] = Absent THEN 0
              ELSE Strtoul(given["c"]) % Modulus
  /\ mode = IF given["u"] = Absent THEN "tcp" ELSE "udp"

(* The inductive invariant.                                                *)
GivenInv ==
  /\ DOMAIN given = Letters
  /\ status # "accepted" /\ ~again => NumbersStored
  /\ NumbersAsGiven

LEMMA GivenInvInit == Init => GivenInv
<1> SUFFICES ASSUME Init PROVE GivenInv
  OBVIOUS
<1>1. \A l \in Letters : given[l] = Absent
  BY DEF Init
<1>2. {"k", "T", "c", "u"} \subseteq Letters /\ DOMAIN given = Letters
  BY DEF Init, Letters
<1>3. NumbersStored
  BY <1>1, <1>2 DEF Init, NumbersStored, MillisecondsOf
<1> QED BY <1>2, <1>3 DEF Init, GivenInv, NumbersAsGiven

(* The defaults of hev_conf_init take the place of a number that was not   *)
(* given, and of 0.                                                        *)
LEMMA DefaultOrSeconds ==
  ASSUME NEW i \in Intervals \cup {Absent}, Fits(i),
         NEW d \in Nat, NEW v, v = MillisecondsOf(i)
  PROVE  (IF v <= 0 THEN d * Second ELSE v) = Seconds(i, d)
<1>1. CASE i = Absent
  BY <1>1 DEF MillisecondsOf, Seconds
<1>2. CASE i # Absent
  <2>1. i \in 0 .. (Modulus \div 2 - 1) \div Second
    BY <1>2 DEF Fits
  <2>2. v = i * Second /\ (i * Second <= 0 <=> i = 0)
    BY <1>2, <2>1, MillisecondsOfFitting DEF MillisecondsOf
  <2> QED BY <1>2, <2>2 DEF Seconds
<1> QED BY <1>1, <1>2

(* An option leaves the arguments of the others alone.                     *)
LEMMA OneOption ==
  ASSUME GivenInv, NEW l \in Letters, NEW a, Option(l, a)
  PROVE  /\ status = "options" /\ status' = "options"
         /\ DOMAIN given' = Letters
         /\ given'[l] = a
         /\ \A k \in Letters : k # l => given'[k] = given[k]
         /\ ~again' => ~again
<1>1. ~again' => ~again
  BY Zenon DEF Option
<1> QED BY <1>1 DEF Option, GivenInv

LEMMA OptionKeepsGiven ==
  ASSUME GivenInv, OptionUdp \/ OptionNumber \/ OptionName \/ OptionBind
  PROVE  GivenInv'
<1> USE DEF NumbersStored
<1>1. PICK l \in Letters : \E a : Option(l, a)
  BY DEF OptionUdp, OptionNumber, OptionName, OptionBind, Letters
<1>2. /\ status = "options" /\ status' = "options"
      /\ DOMAIN given' = Letters
      /\ ~again' => ~again
  BY <1>1, OneOption
<1>3. NumbersAsGiven'
  BY <1>2 DEF NumbersAsGiven
<1>4. ~again' => NumbersStored
  BY <1>2 DEF GivenInv
<1>5. {"u", "k", "c", "T", "b", "s", "h", "t", "p"} = Letters
  BY DEF Letters
<1>6. ~again' => NumbersStored'
  <2>1. CASE OptionUdp
    <3>1. /\ given'["u"] = ""
          /\ \A k \in Letters : k # "u" => given'[k] = given[k]
      BY <1>5, <2>1, OneOption DEF OptionUdp
    <3> QED BY <1>4, <1>5, <2>1, <3>1, Absences
            DEF OptionUdp, numbers, MillisecondsOf
  <2>2. CASE OptionName \/ OptionBind
    <3>1. UNCHANGED <<mode, numbers>>
      BY <2>2 DEF OptionName, OptionBind
    <3>2. \E k \in {"s", "h", "t", "p", "b"} : \E a : Option(k, a)
      BY <2>2 DEF OptionName, OptionBind
    <3>3. \A k \in {"u", "k", "c", "T"} : given'[k] = given[k]
      BY <1>5, <3>2, OneOption
    <3> QED BY <1>4, <3>1, <3>3 DEF numbers, MillisecondsOf
  <2>3. ASSUME NEW i \in Intervals, Option("k", i),
               keep' = Milliseconds(i), UNCHANGED <<ucount, tmsec, mode>>
        PROVE  ~again' => NumbersStored'
    <3>1. /\ given'["k"] = i
          /\ \A k \in Letters : k # "k" => given'[k] = given[k]
      BY <1>5, <2>3, OneOption
    <3> QED BY <1>4, <1>5, <2>3, <3>1, Absences DEF MillisecondsOf
  <2>4. ASSUME NEW i \in Intervals, Option("T", i),
               tmsec' = Milliseconds(i), UNCHANGED <<ucount, keep, mode>>
        PROVE  ~again' => NumbersStored'
    <3>1. /\ given'["T"] = i
          /\ \A k \in Letters : k # "T" => given'[k] = given[k]
      BY <1>5, <2>4, OneOption
    <3> QED BY <1>4, <1>5, <2>4, <3>1, Absences DEF MillisecondsOf
  <2>5. ASSUME NEW i \in Counts, Option("c", i),
               ucount' = Strtoul(i) % Modulus, UNCHANGED <<keep, tmsec, mode>>
        PROVE  ~again' => NumbersStored'
    <3>1. /\ given'["c"] = i
          /\ \A k \in Letters : k # "c" => given'[k] = given[k]
      BY <1>5, <2>5, OneOption
    <3> QED BY <1>4, <1>5, <2>5, <3>1, Absences DEF MillisecondsOf
  <2>6. CASE OptionNumber
    BY <2>3, <2>4, <2>5, <2>6 DEF OptionNumber
  <2> QED BY <2>1, <2>2, <2>6
<1> QED BY <1>2, <1>3, <1>6 DEF GivenInv

LEMMA AcceptNumbers ==
  ASSUME GivenInv, Accept
  PROVE  GivenInv'
<1>1. /\ status = "options" /\ status' = "accepted"
      /\ UNCHANGED <<given, again>>
  BY DEF Accept
<1>2. ASSUME ~again PROVE NumbersAsGiven'
  <2>0. NumbersStored
    BY <1>1, <1>2 DEF GivenInv
  <2>1. Fits(given["k"]) =>
          keep' = Seconds(given["k"], IF given["u"] = Absent THEN 30 ELSE 10)
    BY <2>0, DefaultOrSeconds DEF NumbersStored, Accept, Default
  <2>2. Fits(given["T"]) => tmsec' = Seconds(given["T"], 300)
    BY <2>0, DefaultOrSeconds DEF NumbersStored, Accept
  <2>3. given["c"] \in {Absent, 0} => ucount' = 10
    <3>1. given["c"] = 0 => Strtoul(given["c"]) % Modulus = 0
      BY Numbers, StrtoulOfFitting, SmallRemainder
    <3> QED BY <2>0, <3>1 DEF NumbersStored, Accept
  <2>4. given["c"] # Absent /\ given["c"] \in 1 .. Modulus - 1
          => ucount' = given["c"]
    <3>1. SUFFICES ASSUME given["c"] # Absent, given["c"] \in 1 .. Modulus - 1
                   PROVE  ucount' = given["c"]
      OBVIOUS
    <3>2. /\ Strtoul(given["c"]) = given["c"]
          /\ given["c"] % Modulus = given["c"] /\ given["c"] # 0
      BY <3>1, Numbers, StrtoulOfFitting, SmallRemainder
    <3> QED BY <2>0, <3>1, <3>2 DEF NumbersStored, Accept
  <2> QED BY <1>1, <2>1, <2>2, <2>3, <2>4 DEF NumbersAsGiven, Fits, Seconds
<1> QED BY <1>1, <1>2 DEF GivenInv, NumbersAsGiven

LEMMA GivenInvStep == GivenInv /\ [Next]_vars => GivenInv'
<1> SUFFICES ASSUME GivenInv, [Next]_vars PROVE GivenInv'
  OBVIOUS
<1>1. ASSUME UNCHANGED <<mode, numbers, given, again>>,
             status' = "accepted" <=> status = "accepted"
      PROVE  GivenInv'
  BY <1>1 DEF numbers, GivenInv, NumbersStored, NumbersAsGiven,
              MillisecondsOf, Fits, Seconds
<1>2. CASE OptionUnknown \/ Refuse
  <2>1. /\ UNCHANGED <<mode, numbers, given, again>>
        /\ status' = "accepted" <=> status = "accepted"
    BY <1>2 DEF OptionUnknown, Refuse
  <2> QED BY <1>1, <2>1
<1>3. CASE UNCHANGED vars
  <2>1. /\ UNCHANGED <<mode, numbers, given, again>>
        /\ status' = "accepted" <=> status = "accepted"
    BY <1>3 DEF vars
  <2> QED BY <1>1, <2>1
<1> QED BY <1>2, <1>3, OptionKeepsGiven, AcceptNumbers DEF Next

(* With ints of any width, the numbers that an int can hold are used as    *)
(* they were given, or the default of the mode that the whole command line *)
(* selects.                                                                *)
THEOREM NumbersTakenAsGiven == Spec => []NumbersAsGiven
<1>1. GivenInv => NumbersAsGiven
  BY DEF GivenInv
<1> QED BY <1>1, GivenInvInit, GivenInvStep, PTL DEF Spec

-----------------------------------------------------------------------------
(* The rest of the types.                                                  *)
FlagsInv ==
  /\ stun \in BOOLEAN /\ http \in BOOLEAN /\ taddr \in BOOLEAN
  /\ tport \in BOOLEAN /\ brand \in BOOLEAN /\ again \in BOOLEAN

LEMMA FlagsInvInit == Init => FlagsInv
BY Zenon DEF Init, FlagsInv

LEMMA FlagsInvStep == FlagsInv /\ [Next]_vars => FlagsInv'
<1> SUFFICES ASSUME FlagsInv, [Next]_vars PROVE FlagsInv'
  OBVIOUS
<1> USE DEF FlagsInv, names, ports
<1>1. CASE OptionUdp \/ OptionNumber \/ OptionBind
  <2>1. \E l, a : Option(l, a)
    BY <1>1, Zenon DEF OptionUdp, OptionNumber, OptionBind
  <2>2. again' \in BOOLEAN
    BY <2>1, Zenon DEF Option
  <2>3. UNCHANGED <<names, brand>>
    BY <1>1 DEF OptionUdp, OptionNumber, OptionBind
  <2> QED BY <2>2, <2>3, Zenon
<1>2. CASE OptionName
  <2>1. again' \in BOOLEAN
    BY <1>2, Zenon DEF OptionName, Option
  <2>2. /\ stun' \in {stun, TRUE} /\ http' \in {http, TRUE}
        /\ taddr' \in {taddr, TRUE} /\ tport' \in {tport, TRUE}
    BY <1>2, Zenon DEF OptionName
  <2>3. UNCHANGED brand
    BY <1>2, Zenon DEF OptionName
  <2> QED BY <2>1, <2>2, <2>3, Zenon
<1>3. CASE OptionUnknown \/ Refuse
  BY <1>3, Zenon DEF OptionUnknown, Refuse
<1>4. CASE Accept
  BY <1>4, Zenon DEF Accept
<1>5. CASE UNCHANGED vars
  BY <1>5, Zenon DEF vars
<1> QED BY <1>1, <1>2, <1>3, <1>4, <1>5 DEF Next

(* The statics keep their types, an overflow of an int included.           *)
THEOREM ConfTypeCorrect == Spec => []TypeOK
<1> DEFINE Control == /\ status \in {"options", "accepted", "refused"}
                      /\ mode \in {"tcp", "udp"}
<1>1. Init => Control
  BY DEF Init
<1>2. Control /\ [Next]_vars => Control'
  BY DEF Next, OptionUdp, OptionNumber, OptionName, OptionBind, Option,
         OptionUnknown, Refuse, Accept, vars
<1>3. Control /\ UsableInv /\ FlagsInv => TypeOK
  BY DEF UsableInv, NumbersInv, FlagsInv, TypeOK
<1> QED BY <1>1, <1>2, <1>3, UsableInvInit, UsableInvStep, FlagsInvInit,
           FlagsInvStep, PTL DEF Spec

-----------------------------------------------------------------------------
(***************************************************************************)
(* Sequences of bytes, and what stun_unpack reads of them.                 *)
(***************************************************************************)

(* A part that was masked twice is what it was.                            *)
LEMMA MaskedTwice ==
  ASSUME NEW s \in Seq(Byte), NEW key, NEW n \in Nat,
         \A k \in 1 .. n : key[k] \in Byte, Len(s) <= n
  PROVE  /\ Masked(s, key) \in Seq(Byte)
         /\ Len(Masked(s, key)) = Len(s)
         /\ Masked(Masked(s, key), key) = s
<1> DEFINE m == Masked(s, key)
<1>1. s \in [1 .. Len(s) -> Byte] /\ Len(s) \in Nat /\ DOMAIN s = 1 .. Len(s)
  BY LenProperties
<1>2. \A k \in 1 .. Len(s) : /\ s[k] \in Byte /\ key[k] \in Byte
                             /\ ExclusiveOr(s[k], key[k]) \in Byte
                             /\ ExclusiveOr(ExclusiveOr(s[k], key[k]), key[k])
                                  = s[k]
  BY <1>1, StunCodecAssumption
<1>3. m = [k \in 1 .. Len(s) |-> ExclusiveOr(s[k], key[k])]
  BY <1>1 DEF Masked
<1>4. m \in [1 .. Len(s) -> Byte] /\ DOMAIN m = 1 .. Len(s)
  BY <1>2, <1>3
<1>5. m \in Seq(Byte) /\ Len(m) = Len(s)
  BY <1>1, <1>4
<1>6. Masked(m, key) = [k \in 1 .. Len(s) |-> ExclusiveOr(m[k], key[k])]
  BY <1>4 DEF Masked
<1>7. \A k \in 1 .. Len(s) : ExclusiveOr(m[k], key[k]) = s[k]
  BY <1>2, <1>3
<1>8. Masked(m, key) = [k \in 1 .. Len(s) |-> s[k]]
  BY <1>6, <1>7
<1> QED BY <1>1, <1>5, <1>8


(* ConcatProperties, for sequences of bytes.                               *)
LEMMA Concat ==
  ASSUME NEW s \in Seq(Byte), NEW t \in Seq(Byte)
  PROVE  /\ s \o t \in Seq(Byte)
         /\ Len(s \o t) = Len(s) + Len(t)
         /\ \A i \in 1 .. Len(s) : (s \o t)[i] = s[i]
         /\ \A i \in 1 .. Len(t) : (s \o t)[Len(s) + i] = t[i]
<1>1. Len(s) \in Nat /\ Len(t) \in Nat
  BY LenProperties
<1>2. /\ s \o t \in Seq(Byte)
      /\ Len(s \o t) = Len(s) + Len(t)
      /\ \A i \in 1 .. Len(s) + Len(t) :
           (s \o t)[i] = IF i <= Len(s) THEN s[i] ELSE t[i - Len(s)]
  BY ConcatProperties, Zenon
<1> QED BY <1>1, <1>2

LEMMA KeyBytes ==
  ASSUME NEW id \in Tids
  PROVE  LET key == Magic \o id
         IN  /\ \A k \in 1 .. 16 : key[k] \in Byte
             /\ \A k \in 1 .. 4 : key[k] = Magic[k]
             /\ key[1] = 33
             /\ key[2] = 18
<1> DEFINE key == Magic \o id
<1>1. Magic \in Seq(Byte) /\ Len(Magic) = 4 /\ Magic[1] = 33 /\ Magic[2] = 18
  BY DEF Magic, Byte
<1>2. id \in Seq(Byte) /\ Len(id) = 12
  BY StunCodecAssumption
<1>3. /\ key \in Seq(Byte) /\ Len(key) = 16
      /\ \A k \in 1 .. 4 : key[k] = Magic[k]
  <2>1. /\ key \in Seq(Byte)
        /\ Len(key) = Len(Magic) + Len(id)
        /\ \A i \in 1 .. Len(Magic) : key[i] = Magic[i]
    BY <1>1, <1>2, Concat, ZenonT(60)
  <2> QED BY <1>1, <1>2, <2>1
<1> HIDE DEF key
<1>4. \A i \in 1 .. 16 : key[i] \in Byte
  BY <1>3, ElementOfSeq
<1>5. key[1] = 33 /\ key[2] = 18
  BY <1>1, <1>3
<1> QED BY <1>3, <1>4, <1>5 DEF key

(* Of an IPv4 address nothing is masked with the id, and a masked IPv6     *)
(* address comes out with the same id only.                                *)
LEMMA AddressRead ==
  ASSUME NEW type \in {MAPPED_ADDR, XOR_MAPPED_ADDR}, NEW addr \in Addrs,
         NEW id \in Tids, tid \in Tids, Legible(type, addr, id),
         type # MAPPED_ADDR
  PROVE  Masked(Masked(addr, Magic \o id), Magic \o tid) = addr
<1> DEFINE key == Magic \o id
           other == Magic \o tid
<1>1. addr \in Seq(Byte) /\ (Len(addr) = 4 \/ Len(addr) = 16)
  BY StunCodecAssumption
<1>2. \A k \in 1 .. 16 : key[k] \in Byte
  BY KeyBytes
<1>3. ASSUME Len(addr) = 4 PROVE Masked(Masked(addr, key), other) = addr
  <2>1. \A k \in 1 .. 4 : key[k] = other[k]
    <3>1. \A k \in 1 .. 4 : key[k] = Magic[k]
      BY KeyBytes
    <3>2. \A k \in 1 .. 4 : other[k] = Magic[k]
      BY KeyBytes
    <3> QED BY <3>1, <3>2, Zenon
  <2> HIDE DEF key, other
  <2> DEFINE m == Masked(addr, key)
  <2>2. Len(addr) <= 16 /\ 16 \in Nat
    BY <1>3
  <2>3. m \in Seq(Byte) /\ Len(m) = Len(addr) /\ Masked(m, key) = addr
    BY <1>1, <1>2, <2>2, MaskedTwice
  <2> HIDE DEF m
  <2>4. DOMAIN m = 1 .. 4
    BY <1>3, <2>3, LenProperties
  <2>5. Masked(m, other) = Masked(m, key)
    BY <2>1, <2>4 DEF Masked
  <2> QED BY <2>3, <2>5 DEF m
<1>4. ASSUME id = tid PROVE Masked(Masked(addr, key), other) = addr
  <2>1. Len(addr) <= 16 /\ 16 \in Nat
    <3>1. 4 <= 16 /\ 16 <= 16 /\ 16 \in Nat
      OBVIOUS
    <3> QED BY <1>1, <3>1, Zenon
  <2>2. key = other
    BY <1>4
  <2> HIDE DEF key, other
  <2>3. Masked(Masked(addr, key), key) = addr
    BY <1>1, <1>2, <2>1, MaskedTwice
  <2> QED BY <2>2, <2>3
<1> QED BY <1>3, <1>4, Zenon DEF Legible

(* What stun_unpack reads of the second of two parts.                      *)
LEMMA ReadSecond ==
  ASSUME NEW s \in Seq(Byte), NEW t \in Seq(Byte), NEW i \in Nat
  PROVE  /\ i + 4 <= Len(t) =>
              /\ TypeAt(s \o t, Len(s) + i) = TypeAt(t, i)
              /\ SizeAt(s \o t, Len(s) + i) = SizeAt(t, i)
         /\ i < Len(t) => (s \o t)[Len(s) + i + 1] = t[i + 1]
<1>1. Len(s) \in Nat /\ Len(t) \in Nat
  BY LenProperties
<1>2. \A k \in 1 .. Len(t) : (s \o t)[Len(s) + k] = t[k]
  BY Concat, Zenon
<1>3. \A k \in Nat : k < Len(t) => (s \o t)[(Len(s) + k) + 1] = t[k + 1]
  BY <1>1, <1>2
<1>4. i + 4 <= Len(t) =>
        /\ (s \o t)[Len(s) + i + 1] = t[i + 1]
        /\ (s \o t)[Len(s) + i + 2] = t[i + 2]
        /\ (s \o t)[Len(s) + i + 2 + 1] = t[i + 2 + 1]
        /\ (s \o t)[Len(s) + i + 2 + 2] = t[i + 2 + 2]
  <2> SUFFICES ASSUME i + 4 <= Len(t)
               PROVE  /\ (s \o t)[Len(s) + i + 1] = t[i + 1]
                      /\ (s \o t)[Len(s) + i + 2] = t[i + 2]
                      /\ (s \o t)[Len(s) + i + 2 + 1] = t[i + 2 + 1]
                      /\ (s \o t)[Len(s) + i + 2 + 2] = t[i + 2 + 2]
    OBVIOUS
  <2>1. /\ i + 1 \in 1 .. Len(t) /\ Len(s) + (i + 1) = Len(s) + i + 1
        /\ i + 2 \in 1 .. Len(t) /\ Len(s) + (i + 2) = Len(s) + i + 2
        /\ i + 2 + 1 \in 1 .. Len(t)
        /\ Len(s) + (i + 2 + 1) = Len(s) + i + 2 + 1
        /\ i + 2 + 2 \in 1 .. Len(t)
        /\ Len(s) + (i + 2 + 2) = Len(s) + i + 2 + 2
    BY <1>1
  <2>2. /\ (s \o t)[Len(s) + (i + 1)] = t[i + 1]
        /\ (s \o t)[Len(s) + (i + 2)] = t[i + 2]
        /\ (s \o t)[Len(s) + (i + 2 + 1)] = t[i + 2 + 1]
        /\ (s \o t)[Len(s) + (i + 2 + 2)] = t[i + 2 + 2]
    BY <1>2, <2>1, Zenon
  <2> QED BY <2>1, <2>2, Zenon
<1>5. i + 4 <= Len(t) =>
        /\ TypeAt(s \o t, Len(s) + i) = TypeAt(t, i)
        /\ SizeAt(s \o t, Len(s) + i) = SizeAt(t, i)
  BY <1>4 DEF TypeAt, SizeAt, ShortAt
<1> QED BY <1>3, <1>5

LEMMA ReadBytes ==
  ASSUME NEW s \in Seq(Byte), NEW t \in Seq(Byte), NEW i \in Nat,
         NEW n \in Nat, i + n <= Len(t),
         NEW j, j = Len(s) + i
  PROVE  Bytes(s \o t, j, n) = Bytes(t, i, n)
<1>1. Len(s) \in Nat /\ Len(t) \in Nat
  BY LenProperties
<1>2. \A k \in 1 .. Len(t) : (s \o t)[Len(s) + k] = t[k]
  BY Concat, Zenon
<1>3. \A k \in 1 .. n : (s \o t)[j + k] = t[i + k]
  BY <1>1, <1>2
<1> QED BY <1>3 DEF Bytes

(* ... and of the first.                                                   *)
LEMMA ReadFirst ==
  ASSUME NEW s \in Seq(Byte), NEW t \in Seq(Byte), NEW i \in Nat,
         i + 4 <= Len(s)
  PROVE  /\ TypeAt(s \o t, i) = TypeAt(s, i)
         /\ SizeAt(s \o t, i) = SizeAt(s, i)
<1>1. Len(s) \in Nat
  BY LenProperties
<1>2. \A k \in 1 .. Len(s) : (s \o t)[k] = s[k]
  BY Concat, Zenon
<1>3. /\ (s \o t)[i + 1] = s[i + 1]
      /\ (s \o t)[i + 2] = s[i + 2]
      /\ (s \o t)[i + 2 + 1] = s[i + 2 + 1]
      /\ (s \o t)[i + 2 + 2] = s[i + 2 + 2]
  BY <1>1, <1>2
<1> QED BY <1>3 DEF TypeAt, SizeAt, ShortAt

(* The bytes m are of a mapped address, which is read as it was written.   *)
ReadsAs(m, type, addr, port, id) ==
  /\ m \in Seq(Byte)
  /\ Len(m) >= 12
  /\ m[6] = IF Len(addr) = 4 THEN IPV4 ELSE IPV6
  /\ Len(m) = 8 + Len(addr)
  /\ TypeAt(m, 0) = type
  /\ SizeAt(m, 0) > 0
  /\ Legible(type, addr, id) => UnpackedAddr(m, 0) = addr
  /\ UnpackedPort(m, 0) = port

(* stun_unpack undoes what the server did to the port, and to the address  *)
(* if the answer is to the last request or the id does not matter.         *)
LEMMA MappingRead ==
  ASSUME NEW type \in {MAPPED_ADDR, XOR_MAPPED_ADDR},
         NEW addr \in Addrs, NEW port \in Ports, NEW id \in Tids,
         tid \in Tids, ~BigEndian
  PROVE  ReadsAs(MappedAddr(type, addr, port, id), type, addr, port, id)
<1> DEFINE key == Magic \o id
           first == <<0, type, 0, 4 + Len(addr), 0,
                      IF Len(addr) = 4 THEN IPV4 ELSE IPV6>>
           hide(s) == IF type = XOR_MAPPED_ADDR THEN Masked(s, key) ELSE s
           head == first \o hide(port)
           m == head \o hide(addr)
<1>1. /\ addr \in Seq(Byte) /\ Len(addr) \in {4, 16}
      /\ port \in Seq(Byte) /\ Len(port) = 2
  BY StunCodecAssumption
<1>2. \A n \in {4, 16} :
        n <= 16 /\ 4 + n \in 0 .. 255 /\ 4 + n > 0 /\ 8 + n >= 12
  OBVIOUS
<1>3. first \in Seq(Byte) /\ Len(first) = 6
  <2> DEFINE size == 4 + Len(addr)
             family == IF Len(addr) = 4 THEN IPV4 ELSE IPV6
  <2>1. 0 \in Byte /\ type \in Byte
    BY DEF Byte, MAPPED_ADDR, XOR_MAPPED_ADDR
  <2>2. size \in Byte
    BY <1>1, <1>2, Zenon DEF Byte
  <2>3. family \in Byte
    BY DEF Byte, IPV4, IPV6
  <2>4. first = <<0, type, 0, size, 0, family>>
    OBVIOUS
  <2> HIDE DEF size, family, first
  <2> QED BY <2>1, <2>2, <2>3, <2>4
<1>4. /\ \A k \in 1 .. 16 : key[k] \in Byte
       /\ key[1] = 33 /\ key[2] = 18
       /\ 16 \in Nat
  BY KeyBytes
<1> HIDE DEF key
<1>5. /\ hide(port) \in Seq(Byte) /\ Len(hide(port)) = 2
      /\ hide(addr) \in Seq(Byte) /\ Len(hide(addr)) = Len(addr)
  <2>1. /\ Masked(addr, key) \in Seq(Byte)
        /\ Len(Masked(addr, key)) = Len(addr)
    <3>1. Len(addr) <= 16
      BY <1>1, <1>2, Zenon
    <3> QED BY <1>1, <1>4, <3>1, MaskedTwice
  <2>2. /\ Masked(port, key) \in Seq(Byte)
        /\ Len(Masked(port, key)) = Len(port)
    <3>1. Len(port) <= 16
      BY <1>1
    <3> QED BY <1>1, <1>4, <3>1, MaskedTwice
  <2> QED BY <1>1, <2>1, <2>2
<1>6. Masked(Masked(port, key), MagicLow) = port
  <2>1. Masked(port, MagicLow) = Masked(port, key)
    <3>1. DOMAIN port = 1 .. 2
      BY <1>1, LenProperties
    <3>2. MagicLow[1] = key[1] /\ MagicLow[2] = key[2]
      BY <1>4 DEF MagicLow
    <3>3. \A k \in 1 .. 2 : MagicLow[k] = key[k]
      BY <3>2
    <3> QED BY <3>1, <3>3 DEF Masked
  <2>2. \A k \in 1 .. 2 : MagicLow[k] \in Byte
    BY DEF MagicLow, Byte
  <2>3. Len(port) <= 2 /\ 2 \in Nat
    BY <1>1
  <2>4. Masked(Masked(port, MagicLow), MagicLow) = port
    BY <1>1, <2>2, <2>3, MaskedTwice
  <2> QED BY <2>1, <2>4
<1> HIDE DEF hide, first
<1>7. /\ head \in Seq(Byte) /\ Len(head) = 8
      /\ \A k \in 1 .. 6 : head[k] = first[k]
      /\ Bytes(head, 6, 2) = hide(port)
  <2>1. /\ head \in Seq(Byte)
        /\ Len(head) = Len(first) + Len(hide(port))
        /\ \A k \in 1 .. Len(first) : head[k] = first[k]
        /\ \A k \in 1 .. Len(hide(port)) : head[Len(first) + k] = hide(port)[k]
    BY <1>3, <1>5, Concat, Zenon
  <2>2. hide(port) = [k \in 1 .. 2 |-> hide(port)[k]]
    BY <1>5, LenProperties
  <2> QED BY <1>3, <1>5, <2>1, <2>2 DEF Bytes
<1> HIDE DEF head
<1>8. /\ m \in Seq(Byte) /\ Len(m) = 8 + Len(addr)
      /\ \A k \in 1 .. 8 : m[k] = head[k]
      /\ Bytes(m, 8, Len(addr)) = hide(addr)
  <2>1. /\ m \in Seq(Byte)
        /\ Len(m) = Len(head) + Len(hide(addr))
        /\ \A k \in 1 .. Len(head) : m[k] = head[k]
        /\ \A k \in 1 .. Len(hide(addr)) : m[Len(head) + k] = hide(addr)[k]
    BY <1>5, <1>7, Concat, Zenon
  <2>2. hide(addr) = [k \in 1 .. Len(addr) |-> hide(addr)[k]]
    BY <1>5, LenProperties
  <2> QED BY <1>1, <1>5, <1>7, <2>1, <2>2 DEF Bytes
<1>9. m = MappedAddr(type, addr, port, id)
  BY DEF MappedAddr, head, first, hide, key
<1> HIDE DEF m
<1>10. /\ m[1] = 0 /\ m[2] = type /\ m[3] = 0 /\ m[4] = 4 + Len(addr)
      /\ m[6] = IF Len(addr) = 4 THEN IPV4 ELSE IPV6
  BY <1>7, <1>8 DEF first
<1>11. TypeAt(m, 0) = type /\ SizeAt(m, 0) = 4 + Len(addr)
  BY <1>1, <1>10 DEF TypeAt, SizeAt, ShortAt, MAPPED_ADDR, XOR_MAPPED_ADDR
<1>12. Legible(type, addr, id) => UnpackedAddr(m, 0) = addr
  <2>1. (IF m[0 + 6] = IPV4 THEN 4 ELSE 16) = Len(addr)
    BY <1>1, <1>10 DEF IPV4, IPV6
  <2>2. 0 + 8 = 8
    OBVIOUS
  <2>3. Bytes(m, 0 + 8, IF m[0 + 6] = IPV4 THEN 4 ELSE 16) = hide(addr)
    BY <1>8, <2>1, <2>2, Zenon
  <2>4. UnpackedAddr(m, 0) = IF type = MAPPED_ADDR THEN hide(addr)
                             ELSE Masked(hide(addr), Magic \o tid)
    BY <1>11, <2>3, Zenon DEF UnpackedAddr
  <2>5. CASE type = MAPPED_ADDR
    BY <2>4, <2>5 DEF hide, MAPPED_ADDR, XOR_MAPPED_ADDR
  <2>6. CASE type # MAPPED_ADDR
    <3>1. hide(addr) = Masked(addr, Magic \o id)
      BY <2>6 DEF hide, key
    <3> QED BY <2>4, <2>6, <3>1, AddressRead, Zenon
  <2> QED BY <2>5, <2>6
<1>13. UnpackedPort(m, 0) = port
  <2>1. Bytes(m, 0 + 6, 2) = Bytes(head, 6, 2)
    BY <1>8 DEF Bytes
  <2> QED BY <1>6, <1>7, <1>11, <2>1
          DEF UnpackedPort, hide, MAPPED_ADDR, XOR_MAPPED_ADDR
<1>14. Len(m) >= 12 /\ SizeAt(m, 0) > 0
  <2>1. 8 + Len(addr) >= 12 /\ 4 + Len(addr) > 0
    BY <1>1, <1>2, Zenon
  <2> QED BY <1>8, <1>11, <2>1
<1> QED BY <1>8, <1>9, <1>10, <1>11, <1>12, <1>13, <1>14, Zenon DEF ReadsAs

(* A mapped address that lies in the second of two parts.                  *)
LEMMA ReadMapping ==
  ASSUME NEW s \in Seq(Byte), NEW t \in Seq(Byte), NEW i \in Nat,
         i + 8 + (IF t[i + 6] = IPV4 THEN 4 ELSE 16) <= Len(t),
         NEW j, j = Len(s) + i
  PROVE  /\ j < Len(s \o t)
         /\ TypeAt(s \o t, j) = TypeAt(t, i)
         /\ SizeAt(s \o t, j) = SizeAt(t, i)
         /\ (s \o t)[j + 6] = t[i + 6]
         /\ UnpackedAddr(s \o t, j) = UnpackedAddr(t, i)
         /\ UnpackedPort(s \o t, j) = UnpackedPort(t, i)
<1> DEFINE n == IF t[i + 6] = IPV4 THEN 4 ELSE 16
<1>1. Len(s) \in Nat /\ Len(t) \in Nat /\ Len(s \o t) = Len(s) + Len(t)
  BY LenProperties, Concat, Zenon
<1>2. n \in Nat /\ n >= 4 /\ i + 8 + n <= Len(t)
  OBVIOUS
<1> HIDE DEF n
<1>3. i + 4 <= Len(t) /\ i + 5 < Len(t) /\ i + 5 \in Nat
  BY <1>1, <1>2
<1>4. /\ i + 6 \in Nat /\ (i + 6) + 2 <= Len(t) /\ 2 \in Nat
      /\ i + 8 \in Nat /\ (i + 8) + n <= Len(t)
      /\ j + 6 = Len(s) + (i + 6) /\ j + 8 = Len(s) + (i + 8)
      /\ j + 6 = Len(s) + (i + 5) + 1 /\ i + 6 = (i + 5) + 1
      /\ j < Len(s \o t)
  BY <1>1, <1>2
<1>5. TypeAt(s \o t, j) = TypeAt(t, i) /\ SizeAt(s \o t, j) = SizeAt(t, i)
  BY <1>3, ReadSecond
<1>6. (s \o t)[Len(s) + (i + 5) + 1] = t[(i + 5) + 1]
  BY <1>3, ReadSecond, Zenon
<1>7. (s \o t)[j + 6] = t[i + 6]
  BY <1>4, <1>6
<1>8. /\ Bytes(s \o t, j + 6, 2) = Bytes(t, i + 6, 2)
      /\ Bytes(s \o t, j + 8, n) = Bytes(t, i + 8, n)
  BY <1>2, <1>4, ReadBytes
<1>9. UnpackedAddr(s \o t, j) = UnpackedAddr(t, i)
  BY <1>5, <1>7, <1>8, Zenon DEF UnpackedAddr, n
<1>10. UnpackedPort(s \o t, j) = UnpackedPort(t, i)
  BY <1>5, <1>8, Zenon DEF UnpackedPort
<1> QED BY <1>4, <1>5, <1>7, <1>9, <1>10

(* What the search has before it: an answer from one of the attributes on, *)
(* or from the mapped address.                                             *)
Before(type, prologue, addr, port, id, head, i) ==
  /\ Plain(prologue)
  /\ buf = head \o (prologue.bytes \o MappedAddr(type, addr, port, id))
  /\ offset = Len(head) + i
  /\ sent = [addr |-> addr, port |-> port, plain |-> TRUE,
             legible |-> Legible(type, addr, id)]

Searching ==
  state = "search" /\ sent.plain =>
    \E type \in {MAPPED_ADDR, XOR_MAPPED_ADDR}, prologue \in Prologues,
       addr \in Addrs, port \in Ports, id \in Tids, head \in Seq(Byte) :
      \E i \in prologue.starts :
        Before(type, prologue, addr, port, id, head, i)

(* The ids are those of requests.                                          *)
Asked ==
  /\ asked \subseteq Tids
  /\ state \in {"asked", "search"} => tid \in Tids

(* The inductive invariant of the search.                                  *)
CodecInv == Asked /\ Searching /\ AnswerUnderstood

(* At an attribute of the prologue, the next one is found.                 *)
LEMMA AtOther ==
  ASSUME NEW type \in {MAPPED_ADDR, XOR_MAPPED_ADDR},
         NEW prologue \in Prologues, NEW addr \in Addrs, NEW port \in Ports,
         NEW id \in Tids, tid \in Tids,
         NEW head \in Seq(Byte), NEW i \in prologue.starts,
         Before(type, prologue, addr, port, id, head, i), ~BigEndian,
         i # Len(prologue.bytes), state = "search"
  PROVE  /\ AtAttribute /\ ~AtMapping
         /\ i + 4 + SizeAt(buf, offset) \in prologue.starts
         /\ offset + 4 + SizeAt(buf, offset)
              = Len(head) + (i + 4 + SizeAt(buf, offset))
<1> DEFINE b == prologue.bytes
           m == MappedAddr(type, addr, port, id)
           size == SizeAt(b, i)
<1>1. IsPrologue(prologue)
  BY StunCodecAssumption
<1>2. /\ b \in Seq(Byte) /\ m \in Seq(Byte) /\ Len(m) >= 12
      /\ Len(b) \in Nat /\ Len(head) \in Nat /\ Len(m) \in Nat
  BY <1>1, MappingRead, LenProperties, Zenon DEF IsPrologue, ReadsAs
<1>3. /\ i \in 0 .. Len(b) - 4
      /\ TypeAt(b, i) \notin {MAPPED_ADDR, XOR_MAPPED_ADDR}
      /\ i + 4 + Filled(size) \in prologue.starts
  BY <1>1 DEF IsPrologue
<1>4. size # 0 /\ size % 4 = 0
  BY DEF Before, Plain
<1>5. size \in Nat
  <2>1. i + 2 + 1 \in 1 .. Len(b) /\ i + 2 + 2 \in 1 .. Len(b)
    BY <1>2, <1>3
  <2>2. b[i + 2 + 1] \in Byte /\ b[i + 2 + 2] \in Byte
    BY <1>2, <2>1, ElementOfSeq
  <2>3. \A x, y \in Byte : x * 256 + y \in Nat
    BY DEF Byte
  <2> QED BY <2>2, <2>3, Zenon DEF SizeAt, ShortAt
<1>6. /\ i \in Nat /\ i + 4 <= Len(b)
      /\ b \o m \in Seq(Byte) /\ Len(b \o m) = Len(b) + Len(m)
  BY <1>2, <1>3, Concat
<1>7. TypeAt(b \o m, i) = TypeAt(b, i) /\ SizeAt(b \o m, i) = size
  BY <1>2, <1>6, ReadFirst
<1>8. i + 4 <= Len(b \o m)
  BY <1>2, <1>6
<1>9. /\ Len(buf) = Len(head) + Len(b \o m)
      /\ buf = head \o (b \o m) /\ offset = Len(head) + i
  BY <1>6, Concat, Zenon DEF Before
<1>10. /\ TypeAt(buf, offset) = TypeAt(b, i)
       /\ SizeAt(buf, offset) = size
  BY <1>6, <1>7, <1>8, <1>9, ReadSecond
<1> HIDE DEF size, b, m
<1>11. Filled(size) = size
  BY <1>4, <1>5 DEF Filled
<1>12. offset < Len(buf)
  BY <1>2, <1>6, <1>8, <1>9
<1>13. offset + 4 + size = Len(head) + (i + 4 + size)
  BY <1>2, <1>5, <1>6, <1>9
<1> QED BY <1>3, <1>4, <1>10, <1>11, <1>12, <1>13 DEF AtAttribute, AtMapping

(* At the mapped address, it is read as the server wrote it, if it is      *)
(* legible.                                                                *)
LEMMA AtMapped ==
  ASSUME NEW type \in {MAPPED_ADDR, XOR_MAPPED_ADDR},
         NEW prologue \in Prologues, NEW addr \in Addrs, NEW port \in Ports,
         NEW id \in Tids, tid \in Tids,
         NEW head \in Seq(Byte), NEW i,
         Before(type, prologue, addr, port, id, head, i), ~BigEndian,
         i = Len(prologue.bytes), state = "search"
  PROVE  /\ AtAttribute /\ AtMapping /\ FamilyKnown
         /\ Legible(type, addr, id) => UnpackedAddr(buf, offset) = addr
         /\ UnpackedPort(buf, offset) = port
<1> DEFINE b == prologue.bytes
           m == MappedAddr(type, addr, port, id)
           n == IF m[6] = IPV4 THEN 4 ELSE 16
<1>1. /\ b \in Seq(Byte) /\ Len(b) \in Nat /\ Len(head) \in Nat
  BY StunCodecAssumption, LenProperties, Zenon DEF IsPrologue
<1>2. /\ m \in Seq(Byte)
      /\ Len(m) >= 12
      /\ m[6] = IF Len(addr) = 4 THEN IPV4 ELSE IPV6
      /\ Len(m) = 8 + Len(addr)
      /\ TypeAt(m, 0) = type
      /\ SizeAt(m, 0) > 0
      /\ Legible(type, addr, id) => UnpackedAddr(m, 0) = addr
      /\ UnpackedPort(m, 0) = port
  <2>1. ReadsAs(m, type, addr, port, id)
    BY MappingRead, Zenon
  <2> HIDE DEF m
  <2> QED BY <2>1, Zenon DEF ReadsAs
<1>3. Len(addr) = 4 \/ Len(addr) = 16
  BY StunCodecAssumption
<1> HIDE DEF b, m
<1>4. Len(m) = 8 + n /\ n \in Nat
  BY <1>2, <1>3 DEF IPV4, IPV6
<1>5. 0 + 6 = 6 /\ 0 \in Nat
  OBVIOUS
<1>6. 0 + 8 + (IF m[0 + 6] = IPV4 THEN 4 ELSE 16) <= Len(m)
  BY <1>4, <1>5
<1> DEFINE t == b \o m
<1>7. t \in Seq(Byte) /\ Len(t) = Len(b) + Len(m)
  BY <1>1, <1>2, Concat, Zenon
<1>8. i = Len(b) + 0 /\ i \in Nat
  BY <1>1 DEF b
<1>9. /\ TypeAt(t, i) = type /\ SizeAt(t, i) > 0
      /\ t[i + 6] = m[6]
      /\ Legible(type, addr, id) => UnpackedAddr(t, i) = addr
      /\ UnpackedPort(t, i) = port
  <2>1. /\ TypeAt(t, i) = TypeAt(m, 0)
        /\ SizeAt(t, i) = SizeAt(m, 0)
        /\ t[i + 6] = m[0 + 6]
        /\ UnpackedAddr(t, i) = UnpackedAddr(m, 0)
        /\ UnpackedPort(t, i) = UnpackedPort(m, 0)
    <3> HIDE DEF t
    <3>1. ASSUME NEW s \in Seq(Byte), NEW u \in Seq(Byte), NEW j,
                 0 + 8 + (IF u[0 + 6] = IPV4 THEN 4 ELSE 16) <= Len(u),
                 j = Len(s) + 0
          PROVE  /\ TypeAt(s \o u, j) = TypeAt(u, 0)
                 /\ SizeAt(s \o u, j) = SizeAt(u, 0)
                 /\ (s \o u)[j + 6] = u[0 + 6]
                 /\ UnpackedAddr(s \o u, j) = UnpackedAddr(u, 0)
                 /\ UnpackedPort(s \o u, j) = UnpackedPort(u, 0)
      BY <1>5, <3>1, ReadMapping
    <3> QED BY <1>1, <1>2, <1>6, <1>8, <3>1, Zenon DEF t
  <2> QED BY <1>2, <1>5, <2>1
<1>10. i + 8 + n <= Len(t)
  BY <1>1, <1>4, <1>7, <1>8
<1> HIDE DEF t
<1>11. i + 8 + (IF t[i + 6] = IPV4 THEN 4 ELSE 16) <= Len(t)
  BY <1>9, <1>10
<1>12. buf = head \o t /\ offset = Len(head) + i
  BY DEF Before, t, b, m
<1>13. /\ offset < Len(buf)
       /\ TypeAt(buf, offset) = type /\ SizeAt(buf, offset) > 0
       /\ buf[offset + 6] = m[6]
       /\ Legible(type, addr, id) => UnpackedAddr(buf, offset) = addr
       /\ UnpackedPort(buf, offset) = port
  <2>1. /\ offset < Len(head \o t)
        /\ TypeAt(head \o t, offset) = TypeAt(t, i)
        /\ SizeAt(head \o t, offset) = SizeAt(t, i)
        /\ (head \o t)[offset + 6] = t[i + 6]
        /\ UnpackedAddr(head \o t, offset) = UnpackedAddr(t, i)
        /\ UnpackedPort(head \o t, offset) = UnpackedPort(t, i)
    BY <1>7, <1>8, <1>11, <1>12, ReadMapping, ZenonT(60)
  <2> QED BY <1>9, <1>12, <2>1
<1> QED BY <1>2, <1>13 DEF AtAttribute, AtMapping, FamilyKnown

LEMMA CodecInvInit == CodecInit => CodecInv
BY DEF CodecInit, CodecInv, Asked, Searching, AnswerUnderstood

(* The header of a message are twenty bytes.                               *)
LEMMA HeaderBytes ==
  ASSUME NEW size \in Nat, NEW id \in Tids
  PROVE  Header(size, id) \in Seq(Byte) /\ Len(Header(size, id)) = 20
<1> DEFINE x == (size \div 256) % 256
           y == size % 256
<1>1. x \in Byte /\ y \in Byte /\ 1 \in Byte
  BY DEF Byte
<1> HIDE DEF x, y
<1> DEFINE start == <<1, 1, x, y>>
<1>2. start \in Seq(Byte) /\ Len(start) = 4
  BY <1>1
<1>3. Magic \in Seq(Byte) /\ Len(Magic) = 4
  BY DEF Magic, Byte
<1>4. id \in Seq(Byte) /\ Len(id) = 12
  BY StunCodecAssumption
<1> HIDE DEF start
<1>5. /\ start \o Magic \in Seq(Byte)
      /\ Len(start \o Magic) = Len(start) + Len(Magic)
  BY <1>2, <1>3, Concat, Zenon
<1>6. /\ (start \o Magic) \o id \in Seq(Byte)
      /\ Len((start \o Magic) \o id) = Len(start \o Magic) + Len(id)
  BY <1>4, <1>5, Concat, Zenon
<1>7. Header(size, id) = (start \o Magic) \o id
  BY DEF Header, start, x, y
<1> QED BY <1>2, <1>3, <1>4, <1>5, <1>6, <1>7

(* A new request: nothing has been found yet.                              *)
LEMMA PackKeepsInv ==
  ASSUME CodecInv, PackAny
  PROVE  CodecInv'
BY DEF PackAny, Pack, CodecInv, Asked, Searching, AnswerUnderstood

LEMMA ReceiveKeepsInv ==
  ASSUME CodecInv, ~BigEndian, ReceiveAny
  PROVE  CodecInv'
<1>1. PICK type \in {MAPPED_ADDR, XOR_MAPPED_ADDR}, prologue \in Prologues,
           addr \in Addrs, port \in Ports, id \in Tids :
             Receive(type, prologue, addr, port, id)
  BY DEF ReceiveAny
<1> DEFINE m == MappedAddr(type, addr, port, id)
           body == prologue.bytes \o m
<1>2. tid \in Tids /\ Asked'
  BY <1>1 DEF Receive, CodecInv, Asked
<1>3. /\ prologue.bytes \in Seq(Byte) /\ 0 \in prologue.starts
      /\ m \in Seq(Byte)
  BY <1>2, StunCodecAssumption, MappingRead, Zenon DEF IsPrologue, ReadsAs
<1> HIDE DEF m
<1>4. body \in Seq(Byte) /\ Len(body) \in Nat
  BY <1>3, Concat, LenProperties, Zenon
<1>5. /\ \/ buf' = body /\ offset' = 0
         \/ buf' = Header(Len(body), id) \o body /\ offset' = 20
      /\ sent' = [addr |-> addr, port |-> port, plain |-> Plain(prologue),
                  legible |-> Legible(type, addr, id)']
  BY <1>1, Zenon DEF Receive, m
<1>6. \E head \in Seq(Byte) : buf' = head \o body /\ offset' = Len(head) + 0
  <2> HIDE DEF body
  <2>1. CASE buf' = body /\ offset' = 0
    <3>1. <<>> \in Seq(Byte) /\ <<>> \o body = body /\ Len(<<>>) + 0 = 0
      BY <1>4
    <3> QED BY <2>1, <3>1
  <2>2. CASE buf' = Header(Len(body), id) \o body /\ offset' = 20
    <3>1. /\ Header(Len(body), id) \in Seq(Byte)
          /\ Len(Header(Len(body), id)) + 0 = 20
      BY <1>4, HeaderBytes
    <3> QED BY <2>2, <3>1
  <2> QED BY <1>5, <2>1, <2>2
<1>7. sent'.plain =>
        /\ Plain(prologue)
        /\ sent' = [addr |-> addr, port |-> port, plain |-> TRUE,
                    legible |-> Legible(type, addr, id)']
  BY <1>5, Zenon DEF Plain
<1>8. Searching'
  <2>1. ASSUME sent'.plain
        PROVE  \E head \in Seq(Byte) :
                 Before(type, prologue, addr, port, id, head, 0)'
    BY <1>6, <1>7, <2>1 DEF Before, body, m
  <2> QED BY <1>3, <2>1, Zenon DEF Searching
<1>9. AnswerUnderstood'
  BY <1>1 DEF Receive, AnswerUnderstood
<1> QED BY <1>2, <1>8, <1>9 DEF CodecInv

(* A round of the search: it goes on to the next attribute or has found    *)
(* the mapping; it does not fail.                                          *)
LEMMA RoundKeepsInv ==
  ASSUME CodecInv, ~BigEndian, Skip \/ Unpack \/ Fail
  PROVE  CodecInv'
<1>1. state = "search" /\ UNCHANGED <<buf, tid, sent>> /\ tid \in Tids
  BY DEF Skip, Unpack, Fail, AtAttribute, CodecInv, Asked
<1>2. Asked'
  BY <1>1 DEF Skip, Unpack, Fail, CodecInv, Asked
<1>3. CASE ~sent.plain
  BY <1>1, <1>2, <1>3 DEF CodecInv, Searching, AnswerUnderstood
<1>4. CASE sent.plain
  <2>1. PICK type \in {MAPPED_ADDR, XOR_MAPPED_ADDR}, prologue \in Prologues,
             addr \in Addrs, port \in Ports, id \in Tids, head \in Seq(Byte) :
               \E i \in prologue.starts :
                 Before(type, prologue, addr, port, id, head, i)
    BY <1>1, <1>4 DEF CodecInv, Searching
  <2>2. PICK i \in prologue.starts :
               Before(type, prologue, addr, port, id, head, i)
    BY <2>1
  <2>3. CASE i # Len(prologue.bytes)
    <3>1. /\ AtAttribute /\ ~AtMapping
          /\ i + 4 + SizeAt(buf, offset) \in prologue.starts
          /\ offset + 4 + SizeAt(buf, offset)
               = Len(head) + (i + 4 + SizeAt(buf, offset))
      BY <1>1, <2>2, <2>3, AtOther
    <3>2. Skip
      BY <3>1 DEF Unpack, Fail
    <3>3. PICK k \in prologue.starts : k = i + 4 + SizeAt(buf, offset)
      BY <3>1
    <3>4. Before(type, prologue, addr, port, id, head, k)'
      BY <1>1, <2>2, <3>1, <3>2, <3>3 DEF Before, Skip, Legible
    <3>5. Searching'
      BY <3>4 DEF Searching
    <3> QED BY <1>1, <1>2, <3>2, <3>5 DEF CodecInv, AnswerUnderstood, Skip
  <2>4. CASE i = Len(prologue.bytes)
    <3>1. /\ AtAttribute /\ AtMapping /\ FamilyKnown
          /\ Legible(type, addr, id) => UnpackedAddr(buf, offset) = addr
          /\ UnpackedPort(buf, offset) = port
      BY <1>1, <2>2, <2>4, AtMapped
    <3>2. Unpack
      BY <3>1 DEF Skip, Fail
    <3>3. /\ sent.addr = addr /\ sent.port = port
          /\ sent.legible = Legible(type, addr, id)
      BY <2>2 DEF Before
    <3>4. /\ state' = "found"
          /\ mapping' = [addr |-> UnpackedAddr(buf, offset),
                         port |-> UnpackedPort(buf, offset)]
      BY <3>2 DEF Unpack
    <3> HIDE DEF Legible
    <3>5. /\ mapping'.port = sent.port
          /\ sent.legible => mapping'.addr = sent.addr
      BY <3>1, <3>3, <3>4
    <3> QED BY <1>1, <1>2, <3>4, <3>5
            DEF CodecInv, Searching, AnswerUnderstood
  <2> QED BY <2>3, <2>4
<1> QED BY <1>3, <1>4

LEMMA CodecInvStep ==
  ASSUME ~BigEndian
  PROVE  CodecInv /\ [CodecNext]_cvars => CodecInv'
<1> SUFFICES ASSUME CodecInv, [CodecNext]_cvars PROVE CodecInv'
  OBVIOUS
<1>1. CASE PackAny \/ ReceiveAny
  BY <1>1, PackKeepsInv, ReceiveKeepsInv
<1>2. CASE Skip \/ Unpack \/ Fail
  BY <1>2, RoundKeepsInv
<1>3. CASE UNCHANGED cvars
  <2>1. UNCHANGED <<buf, offset, tid, state, mapping, asked, sent>>
    BY <1>3 DEF cvars
  <2>2. Asked' /\ AnswerUnderstood'
    BY <2>1 DEF CodecInv, Asked, AnswerUnderstood
  <2>3. \A type, prologue, addr, port, id, head, i :
          Before(type, prologue, addr, port, id, head, i)
            => Before(type, prologue, addr, port, id, head, i)'
    BY <2>1 DEF Before, Legible
  <2>4. Searching'
    <3>1. SUFFICES ASSUME state = "search", sent.plain
                   PROVE  Searching'
      BY <2>1 DEF Searching
    <3>2. PICK type \in {MAPPED_ADDR, XOR_MAPPED_ADDR}, prologue \in Prologues,
               addr \in Addrs, port \in Ports, id \in Tids,
               head \in Seq(Byte) :
                 \E i \in prologue.starts :
                   Before(type, prologue, addr, port, id, head, i)
      BY <3>1 DEF CodecInv, Searching
    <3>3. \E i \in prologue.starts :
            Before(type, prologue, addr, port, id, head, i)'
      BY <2>3, <3>2
    <3> QED BY <3>3, Zenon DEF Searching
  <2> QED BY <2>2, <2>4 DEF CodecInv
<1> QED BY <1>1, <1>2, <1>3 DEF CodecNext

(* Whatever the server writes, after any attributes that have a size, need *)
(* no filling and fit into the buffer, a little-endian NATMap reads the    *)
(* mapped port out of it, in both modes, and the mapped address, unless    *)
(* this is a masked IPv6 address in an answer to another request, a late   *)
(* or doubled one in UDP mode.                                             *)
THEOREM AnswerIsUnderstood ==
  ASSUME ~BigEndian
  PROVE  CodecSpec => []AnswerUnderstood
<1>1. CodecInit => CodecInv
  BY CodecInvInit
<1>2. CodecInv /\ [CodecNext]_cvars => CodecInv'
  BY CodecInvStep
<1>3. CodecInv => AnswerUnderstood
  BY DEF CodecInv
<1> QED BY <1>1, <1>2, <1>3, PTL DEF CodecSpec

=============================================================================

------------------------------ MODULE Announcer ------------------------------
(***************************************************************************)
(* What the notification of a mapping promises: every answer of the STUN   *)
(* server that is news is told to the script, at once and once, and        *)
(* nothing else is.                                                        *)
(***************************************************************************)
EXTENDS Naturals

CONSTANTS
  Mappings,     \* what a STUN answer and the bound address amount to
  NoMapping     \* before the first answer

VARIABLES
  latest,   \* the last answer
  told,     \* what the script was told last
  ran       \* parity of the number of script runs, so that each run shows

avars == <<latest, told, ran>>

Init ==
  /\ latest = NoMapping
  /\ told = NoMapping
  /\ ran = 0

News(m) ==
  /\ m # latest
  /\ latest' = m
  /\ told' = m
  /\ ran' = 1 - ran

Next == \E m \in Mappings : News(m)

Spec == Init /\ [][Next]_avars

=============================================================================

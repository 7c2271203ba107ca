-------------------------------- MODULE Relay --------------------------------
(***************************************************************************)
(* What a UDP forwarder promises: for each peer at most one session, made  *)
(* by a datagram of that peer.  Sessions end on their own, and outlast the *)
(* server, but only a server that has not been killed makes them or marks  *)
(* them as in use.  A mark goes at the latest with its session.            *)
(***************************************************************************)
CONSTANT Peers

VARIABLES
  serving,   \* "no", "yes" or "killed": there is a server, and it was told
             \* to end
  sessions,  \* peers with a session
  marked     \* peers whose session has been used of late

rvars == <<serving, sessions, marked>>

Init ==
  /\ serving = "no"
  /\ sessions = {}
  /\ marked = {}

Run ==
  /\ serving = "no"
  /\ serving' = "yes"
  /\ UNCHANGED <<sessions, marked>>

Kill ==
  /\ serving = "yes"
  /\ serving' = "killed"
  /\ UNCHANGED <<sessions, marked>>

End ==
  /\ serving # "no"
  /\ serving' = "no"
  /\ UNCHANGED <<sessions, marked>>

(* Datagrams of the peers in T were forwarded; before them, one peer may   *)
(* have got a session.  The server may end with that.                      *)
Forward(T) ==
  /\ serving = "yes"
  /\ serving' \in {"yes", "no"}
  /\ \/ UNCHANGED sessions
     \/ \E p \in Peers \ sessions : sessions' = sessions \cup {p}
  /\ T \subseteq sessions'
  /\ marked' = marked \cup T

(* A session has been waiting for an answer and starts to wait anew.       *)
Unmark(p) ==
  /\ p \in sessions
  /\ marked' = marked \ {p}
  /\ UNCHANGED <<serving, sessions>>

Leave(p) ==
  /\ p \in sessions
  /\ sessions' = sessions \ {p}
  /\ marked' = marked \ {p}
  /\ UNCHANGED serving

Next ==
  \/ Run
  \/ Kill
  \/ End
  \/ \E T \in SUBSET Peers : Forward(T)
  \/ \E p \in Peers : Unmark(p) \/ Leave(p)

Spec == Init /\ [][Next]_rvars

=============================================================================

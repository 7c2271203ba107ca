------------------------------- MODULE Notify -------------------------------
(***************************************************************************)
(* From a STUN answer to the notification of it: cmp_addr and the end of   *)
(* stun_bind in hev-stun.c, hev_conf_mport in hev-conf.c and hev_exec_run  *)
(* in hev-exec.c.                                                          *)
(*                                                                         *)
(* cmp_addr compares the four parts of the answer with the statics of the  *)
(* last call and replaces them, and only a difference in one of them is    *)
(* passed on.  Addresses are compared in the width of their family; here   *)
(* an address is one value and the family is part of it.                   *)
(***************************************************************************)
EXTENDS Naturals

CONSTANTS
  PublicAddrs,  \* addresses the STUN server can report
  PublicPorts,  \* ports it can report
  LocalAddrs,   \* addresses the STUN socket can be bound to
  LocalPorts,   \* ports it can be bound to
  Zero,         \* the zero the statics start with, no address and no port
  NoPort,       \* mport before the first mapping: the empty string
  ForkFails     \* fork () in hev_exec_spawn may fail

ASSUME NotifyAssumption ==
  /\ Zero \notin PublicAddrs \cup PublicPorts \cup LocalAddrs \cup LocalPorts
  /\ NoPort \notin PublicPorts
  /\ ForkFails \in BOOLEAN

VARIABLES
  pmaddr, pmport, pbaddr, pbport,  \* the statics of cmp_addr
  mport,                           \* the static buffer of hev_conf_mport
  answer,                          \* history: the last answer
  told,                            \* arguments of the last script that ran
  ran                              \* history: parity of the number of runs

nvars == <<pmaddr, pmport, pbaddr, pbport, mport, answer, told, ran>>

Mappings == [maddr : PublicAddrs, mport : PublicPorts,
             baddr : LocalAddrs, bport : LocalPorts]

Mapping(ma, mp, ba, bp) ==
  [maddr |-> ma, mport |-> mp, baddr |-> ba, bport |-> bp]

NoMapping == Mapping(Zero, Zero, Zero, Zero)

Init ==
  /\ pmaddr = Zero
  /\ pmport = Zero
  /\ pbaddr = Zero
  /\ pbport = Zero
  /\ mport = NoPort
  /\ answer = NoMapping
  /\ told = NoMapping
  /\ ran = 0

(* Mutant of Changed: the bound port is not compared.                      *)
ChangedButPort(ma, mp, ba, bp) ==
  \/ pmport # mp
  \/ pmaddr # ma
  \/ pbaddr # ba

(* The result of cmp_addr: some part differs from the last call.           *)
Changed(ma, mp, ba, bp) ==
  \/ pbport # bp
  \/ pmport # mp
  \/ pmaddr # ma
  \/ pbaddr # ba

(* Mutant of Remember: the first difference returns.                       *)
RememberFirst(ma, mp, ba, bp) ==
  /\ pbport' = bp
  /\ pmport' = IF pbport = bp THEN mp ELSE pmport
  /\ pmaddr' = ma
  /\ pbaddr' = ba

(* The side effect of cmp_addr: all four statics are replaced, whichever   *)
(* of them differed.                                                       *)
Remember(ma, mp, ba, bp) ==
  /\ pbport' = bp
  /\ pmport' = mp
  /\ pmaddr' = ma
  /\ pbaddr' = ba

(* hev_exec_run: the child runs the script, or fork fails, which is logged *)
(* and not tried again.                                                    *)
Exec(m) ==
  \/ told' = m /\ ran' = 1 - ran
  \/ ForkFails /\ UNCHANGED <<told, ran>>

(* Mutant of StorePort: only the first port is stored.                     *)
StorePortOnce(mp) == mport' = IF mport = NoPort THEN mp ELSE mport

(* hev_conf_mport (port).  It does not store 0, which no mapping has.      *)
StorePort(mp) == mport' = mp

(* stun_bind after a good answer.                                          *)
Report(ma, mp, ba, bp) ==
  /\ answer' = Mapping(ma, mp, ba, bp)
  /\ Remember(ma, mp, ba, bp)
  /\ \/ /\ Changed(ma, mp, ba, bp)
        /\ StorePort(mp)
        /\ Exec(Mapping(ma, mp, ba, bp))
     \/ /\ ~Changed(ma, mp, ba, bp)
        /\ UNCHANGED <<mport, told, ran>>

Next == \E ma \in PublicAddrs, mp \in PublicPorts,
           ba \in LocalAddrs, bp \in LocalPorts : Report(ma, mp, ba, bp)

Spec == Init /\ [][Next]_nvars

-----------------------------------------------------------------------------
TypeOK ==
  /\ pmaddr \in PublicAddrs \cup {Zero}
  /\ pmport \in PublicPorts \cup {Zero}
  /\ pbaddr \in LocalAddrs \cup {Zero}
  /\ pbport \in LocalPorts \cup {Zero}
  /\ mport \in PublicPorts \cup {NoPort}
  /\ answer \in Mappings \cup {NoMapping}
  /\ told \in Mappings \cup {NoMapping}
  /\ ran \in {0, 1}

(* Whatever sequence of answers arrives, the last script run told the last *)
(* of them, in all four parts.  The README says of the script that the     *)
(* program calls it to inform of the public address.  Holds as long as     *)
(* scripts can be run.                                                     *)
ToldLatest == told = answer

(* stun_bind implements the abstract announcer: a script runs for every    *)
(* answer that differs from the one before it in any part, at once, and    *)
(* never for an answer that is the same (hev-exec.h: "notify the mapped    *)
(* address is changed").                                                   *)
A == INSTANCE Announcer WITH latest <- answer

ImplementsAnnouncer == A!Spec

(* The port a forwarder with -p 0 dials is the public port of the last     *)
(* answer: hev_conf_mport is called for all the answers that change it.    *)
DialsLatestPort == answer # NoMapping => mport = answer.mport

=============================================================================

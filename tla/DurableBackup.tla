----------------------------- MODULE DurableBackup -----------------------------
(***************************************************************************)
(* What backups promise, with no files, processes, locks or crashes: there *)
(* is one restore point. A backup moves it forward to something that was   *)
(* committed, and a success is reported only for what it already covers.   *)
(***************************************************************************)
EXTENDS Integers

VARIABLES committed,   \* what the live database holds
          point,       \* what a restore would bring back
          acked        \* what was reported to be saved

vars == <<committed, point, acked>>

Init == committed = 0 /\ point = 0 /\ acked = 0

Commit == committed' = committed + 1 /\ UNCHANGED <<point, acked>>

Save == point' \in point..committed /\ UNCHANGED <<committed, acked>>

Acknowledge == acked' \in acked..point /\ UNCHANGED <<committed, point>>

Next == Commit \/ Save \/ Acknowledge

Spec == Init /\ [][Next]_vars
=============================================================================

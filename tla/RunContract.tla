------------------------------ MODULE RunContract -----------------------------
(***************************************************************************)
(* What the caller of startBackup may rely on.  A run tries to get at its    *)
(* target and gives up, or works: then each of its steps has its turn, one   *)
(* after the other, and only after the last one the run is completed.  So    *)
(* false means that no step has had its turn, and true that all have, once;  *)
(* a death of the daemon is the only other end.                              *)
(***************************************************************************)
EXTENDS Naturals

CONSTANTS
    Jobs,
    Steps     \* job -> how many steps a run of it has

VARIABLES
    state,    \* job -> how far its run is
    turn      \* job -> how many steps have had their turn

vars == <<state, turn>>

State == {"none", "trying", "working", "aborted", "completed"}

Init ==
    /\ state = [j \in Jobs |-> "none"]
    /\ turn = [j \in Jobs |-> 0]

Become(j, from, to) == state[j] = from /\ state' = [state EXCEPT ![j] = to]

Begin(j) == Become(j, "none", "trying") /\ UNCHANGED turn

Abort(j) == Become(j, "trying", "aborted") /\ UNCHANGED turn

Work(j) == Become(j, "trying", "working") /\ UNCHANGED turn

Turn(j) ==
    /\ state[j] = "working"
    /\ turn[j] < Steps[j]
    /\ turn' = [turn EXCEPT ![j] = @ + 1]
    /\ UNCHANGED state

Complete(j) ==
    /\ turn[j] = Steps[j]
    /\ Become(j, "working", "completed")
    /\ UNCHANGED turn

\* The result reaches the caller.
Report(j) ==
    /\ \E result \in {"aborted", "completed"} : Become(j, result, "none")
    /\ turn' = [turn EXCEPT ![j] = 0]

Die ==
    /\ state' = [j \in Jobs |-> "none"]
    /\ turn' = [j \in Jobs |-> 0]

Next ==
    \/ \E j \in Jobs :
          Begin(j) \/ Abort(j) \/ Work(j) \/ Turn(j) \/ Complete(j) \/ Report(j)
    \/ Die

Spec == Init /\ [][Next]_vars
===============================================================================

----------------------------- MODULE JobLifecycle -----------------------------
(***************************************************************************)
(* What the daemon is promised about the runs of a backup job: a job has   *)
(* at most one run at a time, the status that backupManager publishes is   *)
(* "running" exactly while there is one, and when the run is over the      *)
(* status becomes the outcome of THAT run, exactly once.  A restart of the *)
(* daemon forgets everything (backups is a plain in-memory QHash).         *)
(***************************************************************************)
CONSTANT Jobs

VARIABLES
    status,   \* job -> the status the manager publishes
    work      \* job -> its run: none, active, or over with an outcome

vars == <<status, work>>

Status == {"standby", "running", "finished", "failed"}
Work == {"none", "active", "ok", "bad"}

Init ==
    /\ status = [j \in Jobs |-> "standby"]
    /\ work = [j \in Jobs |-> "none"]

\* A run is started only when the job has none.
Start(j) ==
    /\ work[j] = "none"
    /\ work' = [work EXCEPT ![j] = "active"]
    /\ status' = [status EXCEPT ![j] = "running"]

\* The run of the job ends, the outcome is not published yet.
End(j) ==
    /\ work[j] = "active"
    /\ \E outcome \in {"ok", "bad"} : work' = [work EXCEPT ![j] = outcome]
    /\ UNCHANGED status

\* The outcome of the run that ended is published.
Report(j) ==
    /\ work[j] \in {"ok", "bad"}
    /\ work' = [work EXCEPT ![j] = "none"]
    /\ status' = [status EXCEPT ![j] = IF work[j] = "ok" THEN "finished" ELSE "failed"]

\* The daemon dies and comes back.
Restart ==
    /\ work' = [j \in Jobs |-> "none"]
    /\ status' = [j \in Jobs |-> "standby"]

Next == Restart \/ \E j \in Jobs : Start(j) \/ End(j) \/ Report(j)

Spec == Init /\ [][Next]_vars
===============================================================================

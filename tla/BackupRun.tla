------------------------------- MODULE BackupRun ------------------------------
(***************************************************************************)
(* tiBackupJob::startBackup: one run per job, from the search for its       *)
(* partition over mounting it, the sequence of steps that write into the    *)
(* target (pre script, local rsync legs, SSH legs, PBS restores, post       *)
(* script), the mail and the umount, to the result handed to the worker.    *)
(* Every run is a worker thread; backupManager keeps a job from running     *)
(* twice, but nothing keeps two jobs off one partition.                     *)
(***************************************************************************)
EXTENDS Sequences, TargetMount

CONSTANTS
    Plan,               \* job -> kinds of its steps, in the order they run
    UmountAfterBackup   \* jobs with umount_after_backup

Jobs == Callers

\* "local" is an rsync leg of backupdirs, "ssh" one of ssh_targets.
StepKind == {"pre", "local", "ssh", "pbs", "post"}

ASSUME PlanAssumption ==
    /\ Plan \in [Jobs -> Seq(StepKind)]
    /\ UmountAfterBackup \subseteq Jobs

VARIABLES
    pc,       \* where the run of the job stands
    dir,      \* deviceMountDir
    step,     \* index into Plan of the next or current step
    ok        \* the value returned

run == <<pc, dir, step, ok>>
vars == <<run, kernel, call>>

Pc == {"idle", "lookup", "probe", "getDir", "mounting", "recheck",
       "step", "writing", "release", "umounting", "done"}

\* The type invariant.
TypeOK ==
    /\ MountTypeOK
    /\ pc \in [Jobs -> Pc]
    /\ dir \in [Jobs -> MaybeDir]
    /\ step \in [Jobs -> Nat]
    /\ ok \in [Jobs -> BOOLEAN]

Init ==
    /\ MountInit
    /\ pc = [j \in Jobs |-> "idle"]
    /\ dir = [j \in Jobs |-> ""]
    /\ step = [j \in Jobs |-> 1]
    /\ ok = [j \in Jobs |-> FALSE]

-------------------------------------------------------------------------------
Goto(j, at) == pc' = [pc EXCEPT ![j] = at]

StepsLeft(j) == step[j] <= Len(Plan[j])
Current(j) == Plan[j][step[j]]

\* An rsync process keeps its destination directory in use while it runs; the
\* scripts and the PBS restore need not.
HoldsTarget(j) == pc[j] = "writing" /\ Current(j) \in {"local", "ssh"}
InUse(p, d) == \E j \in Jobs : Part[j] = p /\ dir[j] = d /\ HoldsTarget(j)

\* convertGeneric2Path puts deviceMountDir in the place of %MNTBACKUPDIR%: what is
\* written there reaches the backup disk iff the disk is mounted at that directory,
\* and the root file system otherwise ("" leaves a path under /).
OnTarget(j) == dir[j] \in mounts[Part[j]]

\* getPartitionByUUID finds the partition among those of the attached disks.
IsAttached(p) == p \in attached

-------------------------------------------------------------------------------
\* The worker calls startBackup().
Start(j) ==
    /\ pc[j] = "idle"
    /\ Goto(j, "lookup")
    /\ dir' = [dir EXCEPT ![j] = ""]
    /\ step' = [step EXCEPT ![j] = 1]
    /\ ok' = [ok EXCEPT ![j] = FALSE]
    /\ UNCHANGED <<kernel, call>>

\* A disk that is not attached ends the run (ok stays false).
Lookup(j) ==
    /\ pc[j] = "lookup"
    /\ Goto(j, IF IsAttached(Part[j]) THEN "probe" ELSE "done")
    /\ UNCHANGED <<dir, step, ok, kernel, call>>

\* if(lib.isMounted(part)) ... else mountPartition(part, this)
Probe(j) ==
    /\ pc[j] = "probe"
    /\ IF IsMounted(Part[j])
          THEN Goto(j, "getDir") /\ UNCHANGED call
          ELSE Goto(j, "mounting") /\ MountPartition(j)
    /\ UNCHANGED <<dir, step, ok, kernel>>

GetDir(j) ==
    /\ pc[j] = "getDir"
    /\ dir' = [dir EXCEPT ![j] = GetMountDir(Part[j])]
    /\ Goto(j, "step")
    /\ UNCHANGED <<step, ok, kernel, call>>

MountReturns(j) ==
    /\ pc[j] = "mounting"
    /\ call[j].at = "returned"
    /\ dir' = [dir EXCEPT ![j] = call[j].ret]
    /\ call' = [call EXCEPT ![j] = NoCall]
    /\ Goto(j, "recheck")
    /\ UNCHANGED <<step, ok, kernel>>

\* Mutant: the run goes on without a second look at the mount table.
RecheckNothing(j) ==
    /\ pc[j] = "recheck"
    /\ Goto(j, "step")
    /\ UNCHANGED <<dir, step, ok, kernel, call>>

\* if(!lib.isMounted(part)) return false
Recheck(j) ==
    /\ pc[j] = "recheck"
    /\ Goto(j, IF IsMounted(Part[j]) THEN "step" ELSE "done")
    /\ UNCHANGED <<dir, step, ok, kernel, call>>

\* A step starts to write below deviceMountDir (mkpath, then its programs) ...
BeginStep(j) ==
    /\ pc[j] = "step"
    /\ StepsLeft(j)
    /\ Goto(j, "writing")
    /\ UNCHANGED <<dir, step, ok, kernel, call>>

\* Mutant: the first error ends the loop over the steps.
EndStepBreaking(j) ==
    /\ pc[j] = "writing"
    /\ \/ step' = [step EXCEPT ![j] = @ + 1] /\ Goto(j, "step")
       \/ Goto(j, "release") /\ UNCHANGED step
    /\ UNCHANGED <<dir, ok, kernel, call>>

\* Mutant: a step that failed is run once more.
EndStepRepeating(j) ==
    /\ pc[j] = "writing"
    /\ step' \in {[step EXCEPT ![j] = @ + 1], step}
    /\ Goto(j, "step")
    /\ UNCHANGED <<dir, ok, kernel, call>>

\* ... and ends, well or badly: an error is logged and the run goes on.
EndStep(j) ==
    /\ pc[j] = "writing"
    /\ step' = [step EXCEPT ![j] = @ + 1]
    /\ Goto(j, "step")
    /\ UNCHANGED <<dir, ok, kernel, call>>

\* Mutant: a step that cannot be run ends the run, as a failure.
SkipStepAborting(j) ==
    /\ pc[j] = "step"
    /\ StepsLeft(j) /\ Current(j) # "local"
    /\ Goto(j, "done")
    /\ UNCHANGED <<dir, step, ok, kernel, call>>

\* Missing script or run-user, unknown SSH server or no host key, PBS server not
\* usable: the step is left out with a message.
SkipStep(j) ==
    /\ pc[j] = "step"
    /\ StepsLeft(j) /\ Current(j) # "local"
    /\ step' = [step EXCEPT ![j] = @ + 1]
    /\ UNCHANGED <<pc, dir, ok, kernel, call>>

\* The report goes out, with notify set, before the target is released.
SendMail(j) ==
    /\ pc[j] = "step"
    /\ ~StepsLeft(j)
    /\ Goto(j, "release")
    /\ UNCHANGED <<dir, step, ok, kernel, call>>

\* Mutant: the target is released whatever the job says.
ReleaseAlways(j) ==
    /\ pc[j] = "release"
    /\ Goto(j, "umounting")
    /\ UmountPartition(j)
    /\ UNCHANGED <<dir, step, ok, kernel>>

\* if(umount_after_backup) umountPartition(part)
Release(j) ==
    /\ pc[j] = "release"
    /\ IF j \in UmountAfterBackup
          THEN Goto(j, "umounting") /\ UmountPartition(j) /\ UNCHANGED ok
          ELSE Goto(j, "done") /\ ok' = [ok EXCEPT ![j] = TRUE] /\ UNCHANGED call
    /\ UNCHANGED <<dir, step, kernel>>

\* A target that stays mounted is only a warning in the log: return true.
UmountReturns(j) ==
    /\ pc[j] = "umounting"
    /\ call[j].at = "returned"
    /\ call' = [call EXCEPT ![j] = NoCall]
    /\ ok' = [ok EXCEPT ![j] = TRUE]
    /\ Goto(j, "done")
    /\ UNCHANGED <<dir, step, kernel>>

\* A step of the mountPartition or umountPartition call the run is in.
InCall(j) ==
    /\ pc[j] \in {"mounting", "umounting"}
    /\ CallStep(j, InUse(Part[j], call[j].dir))
    /\ UNCHANGED run

\* The worker emits finished(ok); a later start finds the job idle.
Finish(j) ==
    /\ pc[j] = "done"
    /\ Goto(j, "idle")
    /\ UNCHANGED <<dir, step, ok, kernel, call>>

-------------------------------------------------------------------------------
\* The daemon dies: the runs are gone, mounts and mappings stay.
Crash ==
    /\ pc' = [j \in Jobs |-> "idle"]
    /\ call' = [j \in Jobs |-> NoCall]
    /\ UNCHANGED <<dir, step, ok, kernel>>

RunStep(j) ==
    \/ Lookup(j) \/ Probe(j) \/ GetDir(j) \/ MountReturns(j) \/ Recheck(j)
    \/ BeginStep(j) \/ EndStep(j) \/ SkipStep(j) \/ SendMail(j)
    \/ Release(j) \/ UmountReturns(j) \/ InCall(j) \/ Finish(j)

Next ==
    \/ \E j \in Jobs : Start(j) \/ RunStep(j)
    \/ Environment /\ UNCHANGED run
    \/ Crash

Spec == Init /\ [][Next]_vars

\* A worker thread goes on, and the programs it waits for end.
FairSpec == Spec /\ \A j \in Jobs : WF_vars(RunStep(j))

-------------------------------------------------------------------------------
\* Properties.

\* No other job uses the job's partition and the operating system leaves it alone: the
\* situation in which the code's two looks at the mount table are enough.
Exclusive(j) ==
    /\ Part[j] \notin AutoMount
    /\ \A i \in Jobs : Part[i] = Part[j] => i = j

\* Whatever a run writes below deviceMountDir reaches its backup disk: at every
\* step the partition is mounted at that directory, never is it the empty mount
\* point or a path under / (startBackup lines 129-148 against every later use of
\* deviceMountDir, with crashes, timed-out and failing programs in between, and
\* other jobs at work on shared partitions).
WritesOnTarget == \A j \in Jobs : Exclusive(j) /\ pc[j] = "writing" => OnTarget(j)

\* Nobody takes the partition away again: no job on it has umount_after_backup set, and the
\* operating system leaves it alone.
Kept(p) ==
    /\ p \notin AutoMount
    /\ \A j \in UmountAfterBackup : Part[j] # p

\* Jobs may share a partition that none of them releases: what a run writes there reaches
\* its backup disk, whichever of them mounted it, unless the run's own mount has failed
\* (then it has no directory; see MountFailureAborts).
KeptTargetHolds ==
    \A j \in Jobs : Kept(Part[j]) /\ pc[j] = "writing" /\ dir[j] # "" => OnTarget(j)

\* A result says what was done (tibackupjob.h): false is a hard abort before
\* anything was written, true means that every step had its turn.
HonestOutcome ==
    \A j \in Jobs :
        pc[j] = "done" => IF ok[j] THEN ~StepsLeft(j) ELSE step[j] = 1

\* umountPartition returns true only when the partition, and for LUKS its mapping,
\* is released at that moment (tibackuplib.h), whatever other runs and the
\* operating system did during the call.
Released(j) == call[j].at = "returned" /\ call[j].ret = "released"
ReleaseIsReal ==
    [][\A j \in Jobs : ~Released(j) /\ Released(j)' =>
            mounts'[Part[j]] = {} /\ Part[j] \notin mapper']_vars

\* What is left of a run: its steps twice, and the calls and looks before and after them.
CallLeft(j) ==
    CASE call[j].at \in {"open", "umount"} -> 3
      [] call[j].at \in {"mount", "check"} -> 2
      [] call[j].at \in {"verify", "close"} -> 1
      [] OTHER -> 0
StepsToGo(j) == 2 * ((Len(Plan[j]) + 1) - step[j])
Left(j) ==
    CASE pc[j] = "idle" -> 0
      [] pc[j] = "done" -> 1
      [] pc[j] = "umounting" -> 2 + CallLeft(j)
      [] pc[j] = "release" -> 6
      [] pc[j] = "writing" -> 6 + StepsToGo(j)
      [] pc[j] = "step" -> 7 + StepsToGo(j)
      [] pc[j] \in {"getDir", "recheck"} -> 8 + StepsToGo(j)
      [] pc[j] = "mounting" -> 9 + StepsToGo(j) + CallLeft(j)
      [] pc[j] = "probe" -> 13 + StepsToGo(j)
      [] pc[j] = "lookup" -> 14 + StepsToGo(j)

\* No run goes round in circles: each of its own steps, whatever failed in it or timed out,
\* brings its end nearer, and nothing but a new start moves the end away: no other run, no
\* change of the mount table and no death of the daemon (there is no retry in startBackup,
\* mountPartition and umountPartition).
RunsAdvance ==
    [][\A j \in Jobs :
           /\ RunStep(j) => Left(j)' < Left(j)
           /\ Start(j) \/ Left(j)' <= Left(j)]_vars

\* The run keeps what its caller is promised: a run that gives up has not come to its first
\* step, one that succeeds has given each step its turn, once and in order.
StateOf(j) ==
    CASE pc[j] = "idle" -> "none"
      [] pc[j] \in {"lookup", "probe", "getDir", "mounting", "recheck"} -> "trying"
      [] pc[j] \in {"step", "writing", "release", "umounting"} -> "working"
      [] pc[j] = "done" -> IF ok[j] THEN "completed" ELSE "aborted"

TurnOf(j) == IF pc[j] = "idle" THEN 0 ELSE step[j] - 1

Contract == INSTANCE RunContract WITH
                Steps <- [j \in Jobs |-> Len(Plan[j])],
                state <- [j \in Jobs |-> StateOf(j)],
                turn <- [j \in Jobs |-> TurnOf(j)]

KeepsContract == Contract!Spec

\* A run that was started ends, so its worker thread does too.
RunEnds == \A j \in Jobs : pc[j] # "idle" ~> pc[j] = "idle"

\* A mount that failed ends the run (tibackuplib.cpp: callers treat "" as failure;
\* tibackupjobworker.h: mount failed is a hard abort).
MountFailureAborts == \A j \in Jobs : pc[j] \in {"step", "writing"} => dir[j] # ""
===============================================================================

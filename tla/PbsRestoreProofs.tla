--------------------------- MODULE PbsRestoreProofs ---------------------------
(***************************************************************************)
(* The archives of the restored ids, proved for every list of ids, every    *)
(* snapshot and every failure: what an archive is made from is complete, an *)
(* old archive is given up only for something complete, and an id the mail  *)
(* lists as okay has its new archive.                                       *)
(***************************************************************************)
EXTENDS PbsRestore, TLAPS

\* The loop body works on a restorable id.
Busy == {"list", "restore", "check", "package", "make", "cleanup", "log"}
OnId == pc \in Busy => at \in 1..Len(BackupIds) /\ Id \in Ids

\* Without an error, the files before the current one are restored.
Progress ==
    /\ ClientStarts /\ pc \in {"restore", "check"} /\ ~failed =>
         \A n \in 1..Len(Snapshot[Id]) :
            n < file /\ Snapshot[Id][n] \in Needed(Id) => files[Id][Snapshot[Id][n]] = "whole"
    /\ pc = "check" => file > Len(Snapshot[Id])

\* Archives are touched only when every file is.
Held == ClientStarts /\ pc \in {"package", "make"} => Complete(Id)

\* An entry of the list is about an id the loop has left behind ...
Passed == \A id \in Ids : logs[id] # "none" => \E n \in 1..Len(BackupIds) : n < at /\ BackupIds[n] = id

\* ... and, if good, about its new archive, or pbsMessages says otherwise.
Listed ==
    /\ \A id \in Ids : logs[id] = "okay" => problem \/ "new" \in archives[id]
    /\ pc \in {"cleanup", "log"} /\ ~error => problem \/ "new" \in archives[Id]

IInv == TypeOK /\ OnId /\ Progress /\ Held /\ Passed /\ Listed

\* The ids and the snapshots are finite sequences.
LEMMA Inputs ==
    /\ BackupIds \in Seq(Ids \cup Skipped) /\ Len(BackupIds) \in Nat
    /\ \A n \in 1..Len(BackupIds) : BackupIds[n] \in Ids \cup Skipped
    /\ \A id \in Ids : Len(Snapshot[id]) \in Nat /\ Needed(id) \subseteq Restorable
<1>1. BackupIds \in Seq(Ids \cup Skipped) /\ Snapshot \in [Ids -> Seq(Names)]
  BY PbsAssumption
<1>2. \A id \in Ids : Snapshot[id] \in Seq(Names)
  BY <1>1
<1>3. QED
  BY <1>1, <1>2 DEF Needed

\* The invariant holds before the first run.
LEMMA InitInvariant == Init => IInv
<1> SUFFICES ASSUME Init PROVE IInv
  OBVIOUS
<1>1. TypeOK
  <2>1. 1 \in Nat /\ 1 \in 1..(Len(BackupIds) + 1)
    BY Inputs
  <2>2. archives \in [Ids -> SUBSET Archive] /\ files \in [Ids -> [Restorable -> FileState]]
    BY DEF Init, FileState
  <2>3. logs \in [Ids -> {"none", "okay", "error"}] /\ pc \in Pc
    BY DEF Init, Pc
  <2>4. QED
    BY <2>1, <2>2, <2>3 DEF Init, TypeOK
<1>2. pc \notin Busy /\ pc \notin {"restore", "check", "package", "make", "cleanup", "log"}
  BY DEF Init, Busy
<1>3. OnId /\ Progress /\ Held /\ Listed
  BY <1>2 DEF Init, OnId, Progress, Held, Listed
<1>4. Passed
  BY DEF Init, Passed
<1>5. QED
  BY <1>1, <1>3, <1>4 DEF IInv

\* A run that begins has restored and listed nothing.
LEMMA BeginStep == IInv /\ Begin => IInv'
<1> SUFFICES ASSUME IInv, Begin PROVE IInv'
  OBVIOUS
<1>1. pc' = "next" /\ at' = 1 /\ logs' = [id \in Ids |-> "none"] /\ problem' = FALSE
      /\ healthy' = TRUE /\ UNCHANGED <<file, failed, error>>
  BY DEF Begin
<1>2. TypeOK'
  <2>1. files' \in [Ids -> [Restorable -> FileState]]
    BY DEF Begin, IInv, TypeOK, FileState
  <2>2. archives' \in [Ids -> SUBSET Archive]
    BY DEF Begin, IInv, TypeOK, Archive
  <2>3. at' \in 1..(Len(BackupIds) + 1)
    BY <1>1, Inputs
  <2>4. QED
    BY <1>1, <2>1, <2>2, <2>3 DEF IInv, TypeOK, Pc
<1>3. OnId' /\ Progress' /\ Held' /\ Listed' /\ Passed'
  BY <1>1 DEF OnId, Busy, Progress, Held, Listed, Passed
<1>4. QED
  BY <1>2, <1>3 DEF IInv

\* Restoring the current file: its error is remembered, or it is whole.
LEMMA RestoreStep == IInv /\ RestoreFile => IInv'
<1> SUFFICES ASSUME IInv, RestoreFile PROVE IInv'
  OBVIOUS
<1>1. /\ pc = "restore" /\ file \in Nat /\ Current \in Needed(Id)
      /\ UNCHANGED <<archives, pc, at, logs, problem>> /\ file' = file + 1
      /\ TypeOK /\ Id \in Ids /\ Current \in Restorable
  BY Inputs DEF RestoreFile, IInv, TypeOK, OnId, Busy
<1>2. PICK before \in FileState, outcome \in Outcome, keyMissing \in BOOLEAN :
         /\ \E after \in After(before, outcome) : Restored(after)
         /\ failed' = (failed \/ outcome = "error" \/ keyMissing)
         /\ error' = (error \/ outcome = "error" \/ keyMissing)
  BY DEF RestoreFile
<1>3. PICK after \in FileState :
         /\ files' = [files EXCEPT ![Id][Current] = after]
         /\ outcome = "done" => after = "whole"
  <2>1. outcome \in {"done", "error", "unstarted"}
    BY <1>2 DEF Outcome
  <2>2. PICK after \in After(before, outcome) : Restored(after)
    BY <1>2
  <2>3. after \in FileState /\ (outcome = "done" => after = "whole")
    BY <2>1, <2>2 DEF After, FileState
  <2>4. QED
    BY <2>2, <2>3 DEF Restored
<1>4. /\ files' \in [Ids -> [Restorable -> FileState]]
      /\ files'[Id][Current] = after
      /\ \A f \in Restorable : f # Current => files'[Id][f] = files[Id][f]
  BY <1>1, <1>3 DEF TypeOK
<1>5. failed' \in BOOLEAN /\ error' \in BOOLEAN /\ healthy' \in BOOLEAN
  BY Zenon DEF RestoreFile
<1>6. TypeOK'
  BY <1>1, <1>4, <1>5 DEF TypeOK
<1>7. Progress'
  <2> SUFFICES ASSUME ClientStarts, ~failed', NEW n \in 1..Len(Snapshot[Id]), n < file + 1, Snapshot[Id][n] \in Needed(Id)
               PROVE  files'[Id][Snapshot[Id][n]] = "whole"
    BY <1>1 DEF Progress, Id
  <2>1. ~failed /\ outcome = "done"
    BY <1>2 DEF Outcome
  <2>2. CASE Snapshot[Id][n] = Current
    BY <1>3, <1>4, <2>1, <2>2
  <2>3. CASE Snapshot[Id][n] # Current
    <3>1. n < file
      BY <1>1, <2>3, Inputs DEF Current
    <3>2. Snapshot[Id][n] \in Restorable /\ files[Id][Snapshot[Id][n]] = "whole"
      BY <1>1, <2>1, <3>1, Inputs DEF IInv, Progress
    <3>3. QED
      BY <1>4, <2>3, <3>2
  <2>4. QED
    BY <2>2, <2>3
<1>8. OnId' /\ Held' /\ Passed' /\ Listed'
  BY <1>1 DEF IInv, OnId, Held, Passed, Listed, Id
<1>9. QED
  BY <1>6, <1>7, <1>8 DEF IInv

\* Steps of the section that leave the directories alone.
LEMMA ControlStep ==
    IInv /\ (Unusable \/ NextId \/ AllDone \/ List \/ RestoreSkips \/ RestoreDone
             \/ CheckDownloads \/ Report) => IInv'
<1> SUFFICES ASSUME IInv, Unusable \/ NextId \/ AllDone \/ List \/ RestoreSkips
                          \/ RestoreDone \/ CheckDownloads \/ Report
             PROVE  IInv'
  OBVIOUS
<1> USE Inputs DEF IInv, TypeOK, disk
<1>1. CASE Unusable \/ AllDone \/ Report
  BY <1>1 DEF Unusable, AllDone, Report, OnId, Busy, Progress, Held, Passed, Listed, Pc, Id
<1>2. CASE NextId
  <2>1. /\ UNCHANGED <<files, archives, file, failed, logs, problem, healthy>>
        /\ pc = "next" /\ error' = FALSE
        /\ \/ Id \in Skipped /\ at' = at + 1 /\ pc' = pc
           \/ Id \notin Skipped /\ pc' = "list" /\ at' = at
        /\ at \in 1..Len(BackupIds)
    BY <1>2 DEF NextId
  <2>2. Id \in Ids \cup Skipped
    BY <2>1 DEF Id
  <2>3. OnId' /\ TypeOK'
    <3>1. at' \in 1..(Len(BackupIds) + 1)
      BY <2>1
    <3>2. error' \in BOOLEAN
      BY <2>1, Zenon
    <3>3. pc' \in Pc
      BY <2>1 DEF Pc
    <3>4. OnId'
      BY <2>1, <2>2 DEF OnId, Busy, Id
    <3>5. QED
      BY <2>1, <3>1, <3>2, <3>3, <3>4
  <2>4. Progress' /\ Held' /\ Listed' /\ Passed'
    BY <2>1 DEF Progress, Held, Listed, Passed
  <2>5. QED
    BY <2>3, <2>4
<1>3. CASE List
  <2>1. TypeOK' /\ OnId' /\ Held' /\ Passed'
    <3>1. /\ UNCHANGED <<files, archives, at, error, logs>>
          /\ pc = "list" /\ pc' \in {"restore", "log"} /\ file' \in {1, file}
      BY <1>3 DEF List
    <3>2. failed' \in BOOLEAN /\ problem' \in BOOLEAN /\ healthy' \in BOOLEAN
      BY <1>3, Zenon DEF List
    <3>3. TypeOK'
      BY <3>1, <3>2 DEF Pc
    <3>4. OnId' /\ Held' /\ Passed'
      BY <3>1 DEF OnId, Busy, Held, Passed, Id
    <3>5. QED
      BY <3>3, <3>4
  <2>2. Progress'
    BY <1>3 DEF List, Progress, Id
  <2>3. Listed'
    BY <1>3 DEF List, Listed
  <2>4. QED
    BY <2>1, <2>2, <2>3
<1>4. CASE RestoreSkips
  <2>1. TypeOK' /\ OnId' /\ Held' /\ Passed' /\ Listed'
    BY <1>4 DEF RestoreSkips, OnId, Busy, Held, Passed, Listed, Id
  <2>2. Progress'
    BY <1>4 DEF RestoreSkips, Progress, Id, Current
  <2>3. QED
    BY <2>1, <2>2
<1>5. CASE RestoreDone
  <2>1. TypeOK' /\ OnId' /\ Held' /\ Passed' /\ Listed'
    BY <1>5 DEF RestoreDone, OnId, Busy, Held, Passed, Listed, Id, Pc
  <2>2. Progress'
    BY <1>5 DEF RestoreDone, Progress, Id
  <2>3. QED
    BY <2>1, <2>2
<1>6. CASE CheckDownloads
  <2>1. pc = "check" /\ at \in 1..Len(BackupIds) /\ Id \in Ids
        /\ UNCHANGED <<files, archives, file, failed, logs, problem, healthy>>
    BY <1>6 DEF CheckDownloads, OnId, Busy
  <2>2. CASE failed
    <3>1. pc' = "next" /\ at' = at + 1 /\ error' = TRUE
      BY <1>6, <2>2 DEF CheckDownloads
    <3>2. QED
      BY <2>1, <3>1 DEF OnId, Busy, Progress, Held, Passed, Listed, Pc
  <2>3. CASE ~failed
    <3>1. pc' = "package" /\ UNCHANGED <<at, error>>
      BY <1>6, <2>3 DEF CheckDownloads
    <3>2. ClientStarts => Complete(Id)
      <4> SUFFICES ASSUME ClientStarts, NEW f \in Needed(Id) PROVE files[Id][f] = "whole"
        BY DEF Complete
      <4>1. PICK n \in 1..Len(Snapshot[Id]) : Snapshot[Id][n] = f
        BY DEF Needed
      <4>2. n < file
        BY <2>1, <4>1 DEF Progress
      <4>3. QED
        BY <2>1, <2>3, <4>1, <4>2 DEF Progress
    <3>3. Held'
      BY <2>1, <3>1, <3>2 DEF Held, Complete, Id
    <3>4. OnId' /\ Progress' /\ Passed' /\ Listed' /\ TypeOK'
      BY <2>1, <3>1 DEF OnId, Busy, Progress, Passed, Listed, Id, Pc
    <3>5. QED
      BY <3>3, <3>4
  <2>4. QED
    BY <2>2, <2>3
<1>7. QED
  BY <1>1, <1>2, <1>3, <1>4, <1>5, <1>6

\* The id the loop is at has not been listed yet: no id comes twice.
LEMMA NotListedYet == IInv /\ pc \in Busy => logs[Id] = "none"
<1> SUFFICES ASSUME IInv, pc \in Busy, logs[Id] # "none" PROVE FALSE
  OBVIOUS
<1>1. at \in 1..Len(BackupIds) /\ Id \in Ids
  BY DEF IInv, OnId
<1>2. PICK n \in 1..Len(BackupIds) : n < at /\ BackupIds[n] = BackupIds[at]
  BY <1>1 DEF IInv, Passed, Id
<1>3. n = at
  BY <1>1, <1>2, PbsAssumption
<1>4. QED
  BY <1>1, <1>2, <1>3, Inputs

\* Steps of the packaging: the archives of one id change, and nothing is listed.
LEMMA ArchiveStep == IInv /\ (RemoveOldArchives \/ Package) => IInv'
<1> SUFFICES ASSUME IInv, RemoveOldArchives \/ Package PROVE IInv'
  OBVIOUS
<1>1. /\ pc \in {"package", "make"} /\ pc' \in {"make", "cleanup"}
      /\ UNCHANGED <<files, at, file, failed, logs, problem>>
      /\ TypeOK /\ at \in 1..Len(BackupIds) /\ Id \in Ids
      /\ pc \in Busy /\ (pc' = "make" => pc = "package")
  BY DEF RemoveOldArchives, Package, IInv, OnId, Busy
<1>2. PICK S \in SUBSET Archive :
         /\ archives' = [archives EXCEPT ![Id] = S]
         /\ error' \in BOOLEAN /\ healthy' \in BOOLEAN
         /\ pc' = "cleanup" /\ ~error' => "new" \in S
  <2>1. CASE RemoveOldArchives
    BY <1>1, <2>1 DEF RemoveOldArchives, TypeOK, Archive
  <2>2. CASE Package
    <3>1. PICK made \in {{"new"}, {"part"}, {}} : Packed(made) /\ error' = (error \/ made # {"new"})
      BY <2>2 DEF Package, Made
    <3>2. PICK kept \in {archives[Id], archives[Id] \ {"old"}} :
             archives' = [archives EXCEPT ![Id] = kept \cup made]
      BY <3>1 DEF Packed
    <3>3. kept \cup made \in SUBSET Archive
      BY <1>1, <3>1, <3>2 DEF TypeOK, Archive
    <3>4. healthy' \in BOOLEAN
      BY <2>2, Zenon DEF Package
    <3>5. error' \in BOOLEAN /\ (~error' => "new" \in kept \cup made)
      BY <3>1
    <3>6. QED
      BY <3>2, <3>3, <3>4, <3>5
  <2>3. QED
    BY <2>1, <2>2
<1>3. archives' \in [Ids -> SUBSET Archive] /\ archives'[Id] = S
      /\ \A id \in Ids : id # Id => archives'[id] = archives[id]
  BY <1>1, <1>2 DEF TypeOK
<1>4. TypeOK'
  BY <1>1, <1>2, <1>3 DEF TypeOK, Pc
<1>5. OnId' /\ Progress' /\ Held' /\ Passed'
  BY <1>1 DEF IInv, OnId, Progress, Held, Passed, Busy, Id, Complete
<1>6. Listed'
  <2>1. logs[Id] = "none"
    BY <1>1, NotListedYet
  <2>2. ASSUME NEW id \in Ids, logs'[id] = "okay" PROVE problem' \/ "new" \in archives'[id]
    BY <1>1, <1>3, <2>1, <2>2 DEF IInv, Listed
  <2>3. ASSUME pc' \in {"cleanup", "log"}, ~error' PROVE "new" \in archives'[Id]
    BY <1>1, <1>2, <1>3, <2>3
  <2>4. QED
    BY <1>1, <2>2, <2>3 DEF Listed, Id
<1>7. QED
  BY <1>4, <1>5, <1>6 DEF IInv

\* The restored files are deleted, and the id is listed.
LEMMA ClosingStep == IInv /\ (Cleanup \/ Log) => IInv'
<1> SUFFICES ASSUME IInv, Cleanup \/ Log PROVE IInv'
  OBVIOUS
<1> USE DEF IInv, TypeOK, disk
<1>1. at \in 1..Len(BackupIds) /\ Id \in Ids /\ pc \in Busy
  BY DEF Cleanup, Log, OnId, Busy
<1>2. CASE Cleanup
  <2>1. files' \in [Ids -> [Restorable -> FileState]]
    BY <1>1, <1>2 DEF Cleanup, FileState
  <2>2. pc = "cleanup" /\ pc' = "log" /\ UNCHANGED <<archives, at, file, failed, error, logs, problem, healthy>>
    BY <1>2 DEF Cleanup
  <2>3. TypeOK'
    BY <2>1, <2>2 DEF Pc
  <2>4. OnId' /\ Progress' /\ Held' /\ Passed' /\ Listed'
    BY <1>1, <2>2 DEF OnId, Progress, Held, Passed, Listed, Id, Busy
  <2>5. QED
    BY <2>3, <2>4
<1>3. CASE Log
  <2>1. /\ pc = "log" /\ pc' = "next" /\ at' = at + 1
        /\ UNCHANGED <<files, archives, file, failed, error, problem, healthy>>
    BY <1>3 DEF Log
  <2>2. /\ logs' \in [Ids -> {"none", "okay", "error"}]
        /\ logs'[Id] = IF error THEN "error" ELSE "okay"
        /\ \A id \in Ids : id # Id => logs'[id] = logs[id]
    BY <1>1, <1>3 DEF Log
  <2>3. TypeOK'
    BY <1>1, <2>1, <2>2, Inputs DEF Pc
  <2>4. Passed'
    <3>1. ASSUME NEW id \in Ids, logs'[id] # "none"
          PROVE  \E n \in 1..Len(BackupIds) : n < at' /\ BackupIds[n] = id
      <4>1. CASE id = Id
        BY <1>1, <2>1, <4>1, Inputs DEF Id
      <4>2. CASE id # Id
        <5>1. PICK n \in 1..Len(BackupIds) : n < at /\ BackupIds[n] = id
          BY <2>2, <3>1, <4>2 DEF Passed
        <5>2. n < at'
          BY <1>1, <2>1, <5>1, Inputs
        <5>3. QED
          BY <5>1, <5>2
      <4>3. QED
        BY <4>1, <4>2
    <3>2. QED
      BY <3>1 DEF Passed
  <2>5. Listed'
    BY <1>1, <2>1, <2>2 DEF Listed
  <2>6. OnId' /\ Progress' /\ Held'
    BY <2>1 DEF OnId, Progress, Held, Busy
  <2>7. QED
    BY <2>3, <2>4, <2>5, <2>6
<1>4. QED
  BY <1>2, <1>3

\* A crash changes at most what the running program was writing.
LEMMA CrashStep == IInv /\ Crash => IInv'
<1> SUFFICES ASSUME IInv, Crash PROVE IInv'
  OBVIOUS
<1>1. pc' = "idle" /\ UNCHANGED <<at, file, failed, error, logs, problem, healthy>> /\ TypeOK
  BY DEF Crash, IInv
<1>2. files' \in [Ids -> [Restorable -> FileState]]
  BY <1>1 DEF Crash, TypeOK, disk, Restored, FileState
<1>3. /\ archives' \in [Ids -> SUBSET Archive]
      /\ \A id \in Ids : "new" \in archives[id] => "new" \in archives'[id]
  <2>1. CASE UNCHANGED archives
    BY <1>1, <2>1 DEF TypeOK
  <2>2. CASE pc = "make" /\ Packed({"part"})
    <3>1. PICK kept \in {archives[Id], archives[Id] \ {"old"}} :
             archives' = [archives EXCEPT ![Id] = kept \cup {"part"}]
      BY <2>2 DEF Packed
    <3>2. Id \in Ids
      BY <2>2 DEF IInv, OnId, Busy
    <3>3. kept \cup {"part"} \in SUBSET Archive /\ ("new" \in archives[Id] => "new" \in kept)
      BY <1>1, <3>1, <3>2 DEF TypeOK, Archive
    <3>4. QED
      BY <1>1, <3>1, <3>2, <3>3 DEF TypeOK
  <2>3. QED
    BY <2>1, <2>2 DEF Crash, disk
<1>4. TypeOK'
  BY <1>1, <1>2, <1>3 DEF TypeOK, Pc
<1>5. OnId' /\ Progress' /\ Held' /\ Passed' /\ Listed'
  BY <1>1, <1>3 DEF IInv, OnId, Progress, Held, Passed, Listed, Busy
<1>6. QED
  BY <1>4, <1>5 DEF IInv

\* Every step preserves the invariant.
LEMMA StepInvariant == IInv /\ [Next]_vars => IInv'
<1>1. IInv /\ UNCHANGED vars => IInv'
  BY DEF vars, disk, IInv, TypeOK, OnId, Progress, Held, Passed, Listed, Complete, Id
<1>2. QED
  BY <1>1, BeginStep, RestoreStep, ControlStep, ArchiveStep, ClosingStep, CrashStep
     DEF Next, SectionStep

\* The inductive invariant.
LEMMA Invariance == Spec => []IInv
BY InitInvariant, StepInvariant, PTL DEF Spec

\* The type invariant of the section and of the directories it writes to.
THEOREM SectionTypes == Spec => []TypeOK
<1>1. IInv => TypeOK
  BY DEF IInv
<1>2. QED
  BY <1>1, Invariance, PTL

\* When the mail says okay, every id it lists has its new archive.
THEOREM OkayMeansArchived == Spec => []ListedIdsArchived
<1>1. IInv => ListedIdsArchived
  BY DEF IInv, Listed, ListedIdsArchived, MailOkay
<1>2. QED
  BY <1>1, Invariance, PTL

-------------------------------------------------------------------------------
\* What a run in which nothing fails has done for a virtual machine when it is at a place
\* of the loop body, and for those it has left behind.
Vm(id) == id \in Ids \ Cts
Recovers ==
    healthy =>
        /\ pc \in Busy /\ Vm(Id) =>
             /\ pc \in {"restore", "check"} => ~failed
             /\ pc \in {"restore", "check"} =>
                  \A n \in 1..Len(Snapshot[Id]) :
                     n < file /\ Snapshot[Id][n] \in Needed(Id) => files[Id][Snapshot[Id][n]] = "whole"
             /\ pc \in {"package", "make"} => Complete(Id)
             /\ pc \in {"cleanup", "log"} => "new" \in archives[Id]
        /\ pc # "idle" => \A n \in 1..Len(BackupIds) :
             n < at /\ Vm(BackupIds[n]) => "new" \in archives[BackupIds[n]]
        /\ pc = "report" => at > Len(BackupIds)

\* A client that restores the current file of a virtual machine finds nothing in its way,
\* or something has failed.
LEMMA RestoreRecovers == IInv /\ Recovers /\ RestoreFile => Recovers'
<1> SUFFICES ASSUME IInv, Recovers, RestoreFile, healthy' PROVE Recovers'
  BY DEF Recovers
<1>1. /\ pc = "restore" /\ file \in Nat /\ Current \in Needed(Id)
      /\ UNCHANGED <<archives, pc, at>> /\ file' = file + 1
      /\ TypeOK /\ Id \in Ids /\ Current \in Restorable /\ pc \in Busy
  BY Inputs DEF RestoreFile, IInv, TypeOK, OnId, Busy
<1>2. PICK before \in FileState, outcome \in Outcome, keyMissing \in BOOLEAN :
         /\ \E after \in After(before, outcome) : Restored(after)
         /\ failed' = (failed \/ outcome = "error" \/ keyMissing)
         /\ healthy' = (healthy /\ ~keyMissing /\ ~Hurt(before, outcome))
  BY DEF RestoreFile
<1>3. healthy /\ ~keyMissing /\ ~Hurt(before, outcome)
  BY <1>2
<1>4. ASSUME Vm(Id)
      PROVE  /\ ~failed'
             /\ \A n \in 1..Len(Snapshot[Id]) :
                  n < file' /\ Snapshot[Id][n] \in Needed(Id) => files'[Id][Snapshot[Id][n]] = "whole"
  <2>1. outcome = "done"
    BY <1>3, <1>4 DEF Hurt, CanRemove, Directory, Vm
  <2>2. Restored("whole")
    BY <1>2, <2>1 DEF After
  <2>3. /\ files'[Id][Current] = "whole"
        /\ \A f \in Restorable : f # Current => files'[Id][f] = files[Id][f]
    BY <1>1, <2>2 DEF Restored, TypeOK
  <2>4. ~failed'
    BY <1>1, <1>2, <1>3, <1>4, <2>1 DEF Recovers
  <2>5. ASSUME NEW n \in 1..Len(Snapshot[Id]), n < file + 1, Snapshot[Id][n] \in Needed(Id)
        PROVE  files'[Id][Snapshot[Id][n]] = "whole"
    <3>1. CASE Snapshot[Id][n] = Current
      BY <2>3, <3>1
    <3>2. CASE Snapshot[Id][n] # Current
      <4>1. n < file
        BY <1>1, <2>5, <3>2, Inputs DEF Current
      <4>2. Snapshot[Id][n] \in Restorable /\ files[Id][Snapshot[Id][n]] = "whole"
        BY <1>1, <1>3, <1>4, <2>5, <4>1, Inputs DEF Recovers
      <4>3. QED
        BY <2>3, <3>2, <4>2
    <3>3. QED
      BY <3>1, <3>2
  <2>6. QED
    BY <1>1, <2>4, <2>5
<1>5. QED
  BY <1>1, <1>3, <1>4 DEF Recovers, Id, Busy

\* Packaging has every file, so it makes the archive unless something fails; what it does
\* to the directory of one id does not touch those that are done.
LEMMA PackageRecovers == IInv /\ Recovers /\ (RemoveOldArchives \/ Package) => Recovers'
<1> SUFFICES ASSUME IInv, Recovers, RemoveOldArchives \/ Package, healthy' PROVE Recovers'
  BY DEF Recovers
<1>1. /\ pc \in {"package", "make"} /\ UNCHANGED <<files, at>> /\ healthy
      /\ TypeOK /\ at \in 1..Len(BackupIds) /\ Id \in Ids /\ pc \in Busy
  BY DEF RemoveOldArchives, Package, IInv, OnId, Busy
<1>2. \E S : archives' = [archives EXCEPT ![Id] = S]
  BY DEF RemoveOldArchives, Package, Packed
<1>3. \A id \in Ids : id # Id => archives'[id] = archives[id]
  BY <1>1, <1>2 DEF TypeOK
<1>4. ASSUME NEW n \in 1..Len(BackupIds), n < at, Vm(BackupIds[n])
      PROVE  "new" \in archives'[BackupIds[n]]
  <2>1. BackupIds[n] # Id
    BY <1>1, <1>4, PbsAssumption, Inputs DEF Id
  <2>2. QED
    BY <1>1, <1>3, <1>4, <2>1 DEF Recovers, Busy, Vm
<1>5. CASE RemoveOldArchives
  <2>1. pc' = "make" /\ pc = "package"
    BY <1>5 DEF RemoveOldArchives
  <2>2. Vm(Id) => Complete(Id)
    BY <1>1, <2>1 DEF Recovers
  <2>3. QED
    BY <1>1, <1>4, <2>1, <2>2 DEF Recovers, Id, Complete
<1>6. CASE Package
  <2>1. pc' = "cleanup" /\ pc = "make"
    BY <1>6 DEF Package
  <2>2. Vm(Id) => "new" \in archives'[Id]
    <3>1. PICK made \in Made : Packed(made) /\ healthy' = (healthy /\ (made = {"new"} \/ ~Packable(Id)))
      BY <1>6 DEF Package
    <3>2. SUFFICES ASSUME Vm(Id) PROVE "new" \in archives'[Id]
      OBVIOUS
    <3>3. Packable(Id)
      BY <1>1, <2>1, <3>2 DEF Recovers, Complete, Packable
    <3>4. Packed({"new"})
      BY <3>1, <3>3
    <3>5. QED
      BY <1>1, <3>4 DEF Packed, TypeOK
  <2>3. QED
    BY <1>1, <1>4, <2>1, <2>2 DEF Recovers, Id
<1>7. QED
  BY <1>5, <1>6

\* The steps that leave the archives alone, and do not restore.
LEMMA QuietRecovers ==
    IInv /\ Recovers /\ (Unusable \/ NextId \/ AllDone \/ List \/ RestoreSkips \/ RestoreDone
                         \/ CheckDownloads \/ Cleanup \/ Log \/ Report) => Recovers'
<1> SUFFICES ASSUME IInv, Recovers, healthy',
                    Unusable \/ NextId \/ AllDone \/ List \/ RestoreSkips \/ RestoreDone
                        \/ CheckDownloads \/ Cleanup \/ Log \/ Report
             PROVE  Recovers'
  BY DEF Recovers
<1>1. ASSUME Unusable PROVE Recovers'
  BY <1>1 DEF Unusable
<1>2. ASSUME AllDone \/ Report PROVE Recovers'
  BY <1>2 DEF AllDone, Report, Recovers, Busy, disk
<1>3. ASSUME NextId PROVE Recovers'
  <2>1. /\ UNCHANGED <<archives, healthy>> /\ pc = "next" /\ at \in 1..Len(BackupIds)
        /\ \/ Id \in Skipped /\ at' = at + 1 /\ pc' = "next"
           \/ pc' = "list" /\ at' = at
    <3>1. at \in 1..(Len(BackupIds) + 1) /\ at <= Len(BackupIds)
      BY <1>3 DEF NextId, IInv, TypeOK
    <3>2. QED
      <4>1. UNCHANGED <<archives, healthy>> /\ pc = "next"
            /\ \/ Id \in Skipped /\ at' = at + 1 /\ pc' = pc
               \/ Id \notin Skipped /\ pc' = "list" /\ at' = at
        BY <1>3 DEF NextId, disk
      <4>2. at \in 1..Len(BackupIds)
        BY <3>1, Inputs
      <4>3. QED
        BY <4>1, <4>2
  <2>2. CASE Id \in Skipped /\ at' = at + 1 /\ pc' = "next"
    <3>1. ASSUME NEW n \in 1..Len(BackupIds), n < at + 1, Vm(BackupIds[n])
          PROVE  "new" \in archives[BackupIds[n]]
      <4>1. n # at
        BY <2>2, <3>1, PbsAssumption DEF Id, Vm
      <4>2. n < at
        BY <2>1, <3>1, <4>1, Inputs
      <4>3. QED
        BY <2>1, <3>1, <4>2 DEF Recovers
    <3>2. QED
      BY <2>1, <2>2, <3>1 DEF Recovers, Busy
  <2>3. CASE pc' = "list" /\ at' = at
    BY <2>1, <2>3 DEF Recovers
  <2>4. QED
    BY <2>1, <2>2, <2>3
<1>4. ASSUME List PROVE Recovers'
  <2>1. /\ UNCHANGED <<archives, at, healthy>> /\ pc = "list" /\ pc' = "restore" /\ file' = 1
        /\ failed' = FALSE
    BY <1>4 DEF List, disk
  <2>2. QED
    BY <2>1 DEF Recovers
<1>5. ASSUME RestoreSkips PROVE Recovers'
  <2>1. /\ UNCHANGED <<files, archives, at, healthy, pc, failed>> /\ pc = "restore"
        /\ file' = file + 1 /\ file \in Nat /\ Snapshot[Id][file] \notin Needed(Id)
    BY <1>5 DEF RestoreSkips, disk, Current, IInv, TypeOK
  <2>2. ASSUME NEW n \in 1..Len(Snapshot[Id]), n < file + 1, Snapshot[Id][n] \in Needed(Id)
        PROVE  n < file
    BY <2>1, <2>2
  <2>3. QED
    BY <2>1, <2>2 DEF Recovers, Busy, Id
<1>6. ASSUME RestoreDone PROVE Recovers'
  BY <1>6 DEF RestoreDone, disk, Recovers, Busy, Id
<1>7. ASSUME CheckDownloads PROVE Recovers'
  <2>1. /\ UNCHANGED <<files, archives, file, failed, healthy>> /\ pc = "check"
        /\ at \in 1..Len(BackupIds) /\ Id \in Ids /\ file > Len(Snapshot[Id]) /\ file \in Nat
    BY <1>7 DEF CheckDownloads, disk, IInv, TypeOK, OnId, Progress, Busy
  <2>2. CASE failed
    <3>1. pc' = "next" /\ at' = at + 1 /\ ~Vm(Id)
      BY <1>7, <2>1, <2>2 DEF CheckDownloads, Recovers, Busy
    <3>2. ASSUME NEW n \in 1..Len(BackupIds), n < at + 1, Vm(BackupIds[n]) PROVE n < at
      BY <2>1, <3>1, <3>2, Inputs DEF Id
    <3>3. QED
      BY <2>1, <3>1, <3>2 DEF Recovers, Busy
  <2>3. CASE ~failed
    <3>1. pc' = "package" /\ UNCHANGED at
      BY <1>7, <2>3 DEF CheckDownloads
    <3>2. Vm(Id) => Complete(Id)
      BY <2>1 DEF Recovers, Busy, Complete, Needed
    <3>3. QED
      BY <2>1, <3>1, <3>2 DEF Recovers, Busy, Id, Complete
  <2>4. QED
    BY <2>2, <2>3
<1>8. ASSUME Cleanup PROVE Recovers'
  BY <1>8 DEF Cleanup, Recovers, Busy, Id
<1>9. ASSUME Log PROVE Recovers'
  <2>1. UNCHANGED <<archives, healthy>> /\ pc = "log" /\ pc' = "next" /\ at' = at + 1
        /\ at \in 1..Len(BackupIds)
    BY <1>9 DEF Log, disk, IInv, OnId, Busy
  <2>2. ASSUME NEW n \in 1..Len(BackupIds), n < at + 1, Vm(BackupIds[n])
        PROVE  "new" \in archives[BackupIds[n]]
    <3>1. CASE n = at
      BY <2>1, <2>2, <3>1 DEF Recovers, Busy, Id
    <3>2. CASE n < at
      BY <2>1, <2>2, <3>2 DEF Recovers
    <3>3. QED
      BY <2>1, <2>2, <3>1, <3>2, Inputs
  <2>3. QED
    BY <2>1, <2>2 DEF Recovers, Busy
<1>10. QED
  BY <1>1, <1>2, <1>3, <1>4, <1>5, <1>6, <1>7, <1>8, <1>9

\* Whatever earlier runs and crashes have left, a run in which nothing fails gives every
\* virtual machine of the job its new archive.
THEOREM HealthyRunsArchive == Spec => []HealthyRunArchives
<1>1. Init => Recovers
  BY DEF Init, Recovers
<1>2. IInv /\ Recovers /\ [Next]_vars => Recovers'
  <2>1. ASSUME Begin PROVE Recovers'
    BY <2>1, Inputs DEF Begin, Recovers, Busy
  <2>2. ASSUME Crash PROVE Recovers'
    BY <2>2 DEF Crash, Recovers, Busy
  <2>3. ASSUME UNCHANGED vars, Recovers PROVE Recovers'
    BY <2>3 DEF vars, disk, Recovers, Id, Complete
  <2>4. QED
    BY <2>1, <2>2, <2>3, RestoreRecovers, PackageRecovers, QuietRecovers DEF Next, SectionStep
<1>3. IInv /\ Recovers => HealthyRunArchives
  BY Inputs DEF IInv, TypeOK, Recovers, HealthyRunArchives, Vm
<1>4. QED
  BY <1>1, <1>2, <1>3, Invariance, PTL DEF Spec

-------------------------------------------------------------------------------
\* Only the two steps of the packaging, a crash in them and the start of the next
\* run change archives, and the packaging holds every file.
LEMMA ArchivesChange ==
    ASSUME ClientStarts, IInv, [Next]_vars, NEW id \in Ids, archives'[id] # archives[id]
    PROVE  Complete(id) \/ Begin
<1>1. TypeOK
  BY DEF IInv
<1>2. RemoveOldArchives \/ Package \/ (Crash /\ pc = "make" /\ Packed({"part"})) \/ Begin
  BY DEF Next, SectionStep, Unusable, NextId, AllDone, List, RestoreSkips, RestoreFile,
         RestoreDone, CheckDownloads, Cleanup, Log, Report, Crash, vars, disk
<1>3. CASE RemoveOldArchives \/ Package \/ (pc = "make" /\ Packed({"part"}))
  <2>1. pc \in {"package", "make"} /\ \E S : archives' = [archives EXCEPT ![Id] = S]
    BY <1>3 DEF RemoveOldArchives, Package, Packed
  <2>2. id = Id
    BY <1>1, <2>1 DEF TypeOK
  <2>3. QED
    BY <2>1, <2>2 DEF IInv, Held
<1>4. QED
  BY <1>2, <1>3

\* A run that begins only renames: what was new is old.
LEMMA BeginRenames ==
    ASSUME Begin, NEW id \in Ids
    PROVE  "new" \notin archives'[id] /\ ("old" \in archives[id] => "old" \in archives'[id])
BY DEF Begin

\* Where the client can be started, no run, and no crash, costs an id its archive
\* before all files are there.
THEOREM ArchiveOutlivesDownload == ClientStarts /\ Spec => OldArchiveOutlivesDownload
<1> SUFFICES ASSUME ClientStarts PROVE Spec => OldArchiveOutlivesDownload
  OBVIOUS
<1>1. IInv /\ [Next]_vars =>
        [\A id \in Ids : "old" \in archives[id] /\ "old" \notin archives'[id] => Complete(id)]_vars
  BY ArchivesChange, BeginRenames
<1>2. QED
  BY <1>1, Invariance, PTL DEF Spec, OldArchiveOutlivesDownload

\* Where the client can be started, a new archive is made from this run's complete
\* files only.
THEOREM ArchiveIsFresh == ClientStarts /\ Spec => NewArchiveIsFresh
<1> SUFFICES ASSUME ClientStarts PROVE Spec => NewArchiveIsFresh
  OBVIOUS
<1>1. IInv /\ [Next]_vars =>
        [\A id \in Ids : "new" \notin archives[id] /\ "new" \in archives'[id] => Complete(id)]_vars
  BY ArchivesChange, BeginRenames
<1>2. QED
  BY <1>1, Invariance, PTL DEF Spec, NewArchiveIsFresh
===============================================================================

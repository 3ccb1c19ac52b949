------------------------------ MODULE PbsRestore ------------------------------
(***************************************************************************)
(* The PBS section of tiBackupJob::startBackup and what the mail says of    *)
(* it: for each configured backup id the files of its newest snapshot are   *)
(* restored into <pbs_dest_folder>/<id>, packaged as one vzdump archive in  *)
(* place of the archives of earlier runs, and removed again.  The programs  *)
(* (proxmox-backup-client, vma or tar, zstd), the deletions and the daemon  *)
(* may fail at every step; what a failed run leaves in the directory is     *)
(* what the next run finds there.                                           *)
(***************************************************************************)
EXTENDS Naturals, Sequences, FiniteSets

CONSTANTS
    Ids,          \* well-formed ids of type vm or ct that the job restores
    Skipped,      \* ids left out: malformed, or of a type such as host/
    Cts,          \* the ids of containers: their image is restored as a directory
    ClientStarts, \* FALSE: proxmox-backup-client may be one that cannot be started
    BackupIds,    \* pbs_backup_ids, in order
    Snapshot      \* id -> the files of its newest snapshot, in order

\* The names a snapshot holds, after the match has cut the last suffix: *.conf,
\* *.img or *.pxar, and those that are not needed (index.json, client.log).
Images == {"disk0", "disk1"}
Restorable == {"conf"} \cup Images
Names == Restorable \cup {"index"}
Needed(id) == {Snapshot[id][n] : n \in 1..Len(Snapshot[id])} \cap Restorable

ASSUME PbsAssumption ==
    /\ Cts \subseteq Ids
    /\ ClientStarts \in BOOLEAN
    /\ Ids \cap Skipped = {}
    /\ BackupIds \in Seq(Ids \cup Skipped)
    /\ \A m, n \in 1..Len(BackupIds) : BackupIds[m] = BackupIds[n] => m = n
    /\ Snapshot \in [Ids -> Seq(Names)]

VARIABLES
    files,      \* id -> file -> what lies in the directory of the id
    archives,   \* id -> archives in the directory of the id
    pc,         \* where the section stands
    at,         \* index into BackupIds
    file,       \* j, index into Snapshot[id]
    failed,     \* errDownloadFiles
    error,      \* log.errmsg is not empty
    logs,       \* bakPBSLogs: id -> "none", or whether its entry has an error
    problem,    \* pbsMessages is not empty
    healthy     \* nothing outside this code has failed in the run (history)

disk == <<files, archives>>
vars == <<disk, pc, at, file, failed, error, logs, problem, healthy>>

\* stale: left there by an earlier run; part: left by a client that failed; whole:
\* restored by this run.  A container's image is one directory.
FileState == {"absent", "part", "stale", "whole"}
Archive == {"old", "new", "part"}
Pc == {"idle", "next", "list", "restore", "check", "package", "make", "cleanup", "log", "report"}

Id == BackupIds[at]
Current == Snapshot[Id][file]
Directory(id, f) == id \in Cts /\ f \in Images

\* The type invariant.
TypeOK ==
    /\ files \in [Ids -> [Restorable -> FileState]]
    /\ archives \in [Ids -> SUBSET Archive]
    /\ pc \in Pc
    /\ at \in 1..(Len(BackupIds) + 1)
    /\ file \in Nat
    /\ failed \in BOOLEAN
    /\ error \in BOOLEAN
    /\ logs \in [Ids -> {"none", "okay", "error"}]
    /\ problem \in BOOLEAN
    /\ healthy \in BOOLEAN

Init ==
    /\ files = [id \in Ids |-> [f \in Restorable |-> "absent"]]
    /\ archives = [id \in Ids |-> {}]
    /\ pc = "idle"
    /\ at = 1
    /\ file = 1
    /\ failed = FALSE
    /\ error = FALSE
    /\ logs = [id \in Ids |-> "none"]
    /\ problem = FALSE
    /\ healthy = FALSE

-------------------------------------------------------------------------------
\* A run of the job reaches "if(pbs)"; what is on the disk is of earlier runs now.
Begin ==
    /\ pc = "idle"
    /\ files' = [id \in Ids |-> [f \in Restorable |->
                    IF files[id][f] = "whole" THEN "stale" ELSE files[id][f]]]
    /\ archives' = [id \in Ids |-> {IF a = "new" THEN "old" ELSE a : a \in archives[id]}]
    /\ logs' = [id \in Ids |-> "none"]
    /\ problem' = FALSE
    /\ healthy' = TRUE
    /\ at' = 1
    /\ pc' = "next"
    /\ UNCHANGED <<file, failed, error>>

\* No usable /dev/stdout, server unknown, no pinned fingerprint, or auth failed.
Unusable ==
    /\ pc = "next" /\ at = 1
    /\ problem' = TRUE
    /\ healthy' = FALSE
    /\ pc' = "report"
    /\ UNCHANGED <<disk, at, file, failed, error, logs>>

\* Mutant: a skipped id is counted twice.
NextIdTwice ==
    /\ pc = "next"
    /\ at <= Len(BackupIds)
    /\ IF Id \in Skipped THEN at' = at + 2 /\ UNCHANGED pc
                         ELSE pc' = "list" /\ UNCHANGED at
    /\ error' = FALSE
    /\ UNCHANGED <<disk, file, failed, logs, problem, healthy>>

\* The next id of the loop; a malformed or unsupported one is only logged.
NextId ==
    /\ pc = "next"
    /\ at <= Len(BackupIds)
    /\ IF Id \in Skipped THEN at' = at + 1 /\ UNCHANGED pc
                         ELSE pc' = "list" /\ UNCHANGED at
    /\ error' = FALSE
    /\ UNCHANGED <<disk, file, failed, logs, problem, healthy>>

AllDone ==
    /\ pc = "next"
    /\ at > Len(BackupIds)
    /\ pc' = "report"
    /\ UNCHANGED <<disk, at, file, failed, error, logs, problem, healthy>>

\* getDatastoreSnapshots: the newest snapshot, or a message when there is none or
\* the listing failed.
List ==
    /\ pc = "list"
    /\ \/ pc' = "restore" /\ file' = 1 /\ failed' = FALSE /\ UNCHANGED <<problem, healthy>>
       \/ pc' = "log" /\ problem' = TRUE /\ healthy' = FALSE /\ UNCHANGED <<file, failed>>
    /\ UNCHANGED <<disk, at, error, logs>>

-------------------------------------------------------------------------------
\* Restoring one file of the snapshot.

\* Mutant: what is in the way is left there.
CanRemoveNothing(id, f) == FALSE

\* QFile::remove takes files only, and may fail.
CanRemove(id, f) == ~Directory(id, f)

\* What lies at the place of the current file when proxmox-backup-client starts.
Found(before) ==
    \/ before = files[Id][Current]
    \/ before = "absent" /\ CanRemove(Id, Current)

Restored(state) == files' = [files EXCEPT ![Id][Current] = state]

RestoreSkips ==
    /\ pc = "restore"
    /\ file <= Len(Snapshot[Id])
    /\ Current \notin Needed(Id)
    /\ file' = file + 1
    /\ UNCHANGED <<disk, pc, at, failed, error, logs, problem, healthy>>

\* How the client ends.  QProcess::exitCode() is 0 when it has done its work, and
\* also when it could not be started at all.
Outcome == {"done", "error"} \cup (IF ClientStarts THEN {} ELSE {"unstarted"})

\* The client writes only where nothing is: it restores the file, or fails and leaves
\* things as they are, or fails half-way.
After(before, outcome) ==
    CASE outcome = "done" -> {f \in {"whole"} : before = "absent"}
      [] outcome = "error" -> {before} \cup {f \in {"part"} : before = "absent"}
      [] outcome = "unstarted" -> {before}

\* A failure of the disk or of the client: something that can be deleted was not, or
\* the client does not do its work where nothing is in its way.
Hurt(before, outcome) ==
    IF before = "absent" THEN outcome # "done" ELSE CanRemove(Id, Current)

\* Mutant: the exit code of proxmox-backup-client is not looked at.
RestoreFileTrusting ==
    /\ pc = "restore"
    /\ file <= Len(Snapshot[Id])
    /\ Current \in Needed(Id)
    /\ \E before \in FileState, outcome \in Outcome, keyMissing \in BOOLEAN :
          /\ Found(before)
          /\ \E after \in After(before, outcome) : Restored(after)
          /\ failed' = (failed \/ keyMissing)
          /\ error' = (error \/ keyMissing)
          /\ healthy' = (healthy /\ ~keyMissing /\ ~Hurt(before, outcome))
    /\ file' = file + 1
    /\ UNCHANGED <<archives, pc, at, logs, problem>>

\* What is in the way is deleted, then the client runs.  A missing key file is an
\* error whatever the client says.
RestoreFile ==
    /\ pc = "restore"
    /\ file <= Len(Snapshot[Id])
    /\ Current \in Needed(Id)
    /\ \E before \in FileState, outcome \in Outcome, keyMissing \in BOOLEAN :
          /\ Found(before)
          /\ \E after \in After(before, outcome) : Restored(after)
          /\ failed' = (failed \/ outcome = "error" \/ keyMissing)
          /\ error' = (error \/ outcome = "error" \/ keyMissing)
          /\ healthy' = (healthy /\ ~keyMissing /\ ~Hurt(before, outcome))
    /\ file' = file + 1
    /\ UNCHANGED <<archives, pc, at, logs, problem>>

RestoreDone ==
    /\ pc = "restore"
    /\ file > Len(Snapshot[Id])
    /\ pc' = "check"
    /\ UNCHANGED <<disk, at, file, failed, error, logs, problem, healthy>>

-------------------------------------------------------------------------------
\* Mutant: an id with failed downloads is packaged all the same.
CheckNothing ==
    /\ pc = "check"
    /\ pc' = "package"
    /\ UNCHANGED <<disk, at, file, failed, error, logs, problem, healthy>>

\* if(errDownloadFiles) continue -- past the end of the loop body, so past
\* "bakPBSLogs << log" too.
CheckDownloads ==
    /\ pc = "check"
    /\ IF failed THEN pc' = "next" /\ at' = at + 1 /\ error' = TRUE
                 ELSE pc' = "package" /\ UNCHANGED <<at, error>>
    /\ UNCHANGED <<disk, file, failed, logs, problem, healthy>>

\* Old archives are deleted; a deletion that fails goes unnoticed.  (A container's
\* configuration has been copied into its image directory before.)
RemoveOldArchives ==
    /\ pc = "package"
    /\ \E kept \in SUBSET archives[Id] : archives' = [archives EXCEPT ![Id] = kept]
    /\ pc' = "make"
    /\ UNCHANGED <<files, at, file, failed, error, logs, problem, healthy>>

\* What the packaging leaves: a good archive, or a broken or empty one, or none; an
\* archive of the same snapshot that was not deleted is overwritten (zstd -f).
Packed(made) ==
    \E kept \in {archives[Id], archives[Id] \ {"old"}} :
        archives' = [archives EXCEPT ![Id] = kept \cup made]

\* What the packaging may make of the files that are there: nothing good without
\* every image, and without the configuration of a virtual machine.
Packable(id) == \A f \in Needed(id) : files[id][f] # "absent" \/ (id \in Cts /\ f = "conf")
Made == {{"part"}, {}} \cup (IF Packable(Id) THEN {{"new"}} ELSE {})

\* Mutant: a pipeline that failed leaves no error.
PackageQuietly ==
    /\ pc = "make"
    /\ \E made \in Made :
          /\ Packed(made)
          /\ healthy' = (healthy /\ (made = {"new"} \/ ~Packable(Id)))
    /\ pc' = "cleanup"
    /\ UNCHANGED <<files, at, file, failed, error, logs, problem>>

\* vma | zstd, or tar and then zstd: a program that fails, or an archive of at most
\* 1000 bytes, is an error of the id.
Package ==
    /\ pc = "make"
    /\ \E made \in Made :
          /\ Packed(made)
          /\ error' = (error \/ made # {"new"})
          /\ healthy' = (healthy /\ (made = {"new"} \/ ~Packable(Id)))
    /\ pc' = "cleanup"
    /\ UNCHANGED <<files, at, file, failed, logs, problem>>

\* The restored files are deleted, as far as that works.
Cleanup ==
    /\ pc = "cleanup"
    /\ \E gone \in SUBSET Needed(Id) :
          files' = [files EXCEPT ![Id] = [f \in Restorable |->
                       IF f \in gone THEN "absent" ELSE files[Id][f]]]
    /\ pc' = "log"
    /\ UNCHANGED <<archives, at, file, failed, error, logs, problem, healthy>>

\* bakPBSLogs << log
Log ==
    /\ pc = "log"
    /\ logs' = [logs EXCEPT ![Id] = IF error THEN "error" ELSE "okay"]
    /\ at' = at + 1
    /\ pc' = "next"
    /\ UNCHANGED <<disk, file, failed, error, problem, healthy>>

\* The mail is written and the run goes on.
Report ==
    /\ pc = "report"
    /\ pc' = "idle"
    /\ UNCHANGED <<disk, at, file, failed, error, logs, problem, healthy>>

\* The daemon dies, perhaps while a program it runs is writing.
Crash ==
    /\ pc # "idle"
    /\ pc' = "idle"
    /\ \/ UNCHANGED disk
       \/ /\ pc = "restore" /\ file <= Len(Snapshot[Id]) /\ Current \in Needed(Id)
          /\ Found("absent") /\ Restored("part")
          /\ UNCHANGED archives
       \/ pc = "make" /\ Packed({"part"}) /\ UNCHANGED files
    /\ UNCHANGED <<at, file, failed, error, logs, problem, healthy>>

SectionStep ==
    \/ Unusable \/ NextId \/ AllDone \/ List
    \/ RestoreSkips \/ RestoreFile \/ RestoreDone \/ CheckDownloads
    \/ RemoveOldArchives \/ Package \/ Cleanup \/ Log \/ Report

Next == Begin \/ SectionStep \/ Crash

Spec == Init /\ [][Next]_vars

-------------------------------------------------------------------------------
\* Properties.

Complete(id) == \A f \in Needed(id) : files[id][f] = "whole"

\* The archive of an earlier run is given up only when this run holds every file
\* of the new snapshot: a server that goes away half-way, a full disk or a crash
\* never costs the id its last archive before there is something to replace it.
\* ("Check if download is success, otherwise skip this VM".)
OldArchiveOutlivesDownload ==
    [][\A id \in Ids : "old" \in archives[id] /\ "old" \notin archives'[id] => Complete(id)]_vars

\* A good new archive holds what this run has restored: never a file that a run
\* before it left in the directory, nor a half-restored one.
NewArchiveIsFresh ==
    [][\A id \in Ids : "new" \notin archives[id] /\ "new" \in archives'[id] => Complete(id)]_vars

\* What an earlier run, or a crash, left in the directories does not stop a run in which
\* nothing fails: each virtual machine gets its new archive ("If to be restored file
\* exists delete it").  A container's image is a directory, which that deletion leaves.
HealthyRunArchives ==
    pc = "report" /\ healthy =>
        \A n \in 1..Len(BackupIds) :
            BackupIds[n] \in Ids \ Cts => "new" \in archives[BackupIds[n]]

\* What the mail's "PBS-Backup is okay." is computed from.
MailOkay == ~problem /\ \A id \in Ids : logs[id] # "error"

\* When the mail says okay, every id it lists has its new archive.
ListedIdsArchived ==
    pc = "report" /\ MailOkay => \A id \in Ids : logs[id] = "okay" => "new" \in archives[id]

\* When the mail says okay, every vm or ct of the job has its new archive.
MailTellsTruth ==
    pc = "report" /\ MailOkay =>
        \A n \in 1..Len(BackupIds) : BackupIds[n] \in Ids => "new" \in archives[BackupIds[n]]
===============================================================================

# tiBackupLib in TLA+

Models of tiBackupLib, the library behind the tiBackup daemon and its GUI: it
copies data to removable disks with rsync, restores Proxmox Backup Server (PBS)
snapshots onto them, and keeps jobs and servers in files. The models are checked
with TLC on small instances, and what matters most is proved with TLAPS for all
values of the constants. Paths below are relative to the repository.

    tlc -workers 2 -config BackupManager.cfg BackupManager.tla
    tlapm BackupManagerProofs.tla

`PROJECT.json` lists, for every definition that models code, the lines it models.

## 1. The system

| component | state it keeps | operations |
|---|---|---|
| `backupManager` (backupmanager.cpp) | `backups`: job name -> status, in memory | `startBackup`, `onBackupFinished`, `getBackupStatus` |
| job worker (workers/tibackupjobworker.cpp, `startBackupThread`) | a QThread and a worker object per run | `process`, `finished(ok)`, quit and deleteLater by queued signals |
| backup run (`tiBackupJob::startBackup`, obj/tibackupjob.cpp) | `deviceMountDir`, logs, the result; on disk everything it writes | find the partition, mount, scripts, rsync legs, SSH legs, PBS restores, mail, umount |
| mounting (`mountPartition`, `umountPartition`, tibackuplib.cpp) | none of its own: `/etc/mtab` and the device mapper | cryptsetup and mount, looks at the mount table |
| scheduler (tibackupscheduler.cpp) | none: the last run is handed in | `shouldRun` |
| server stores (`tiConfPBServers`, `tiConfSSHServers`, ticonf.cpp) | one `<uuid>.conf` per server, member `items`, `m_mutex` | save, read, copy, rename, remove |
| job store (`tiConfBackupJobs`, ticonf.cpp) | one `<name>.conf` per job, no lock; member `jobs` per object | save, read (all, by partition, by name), rename, remove |
| daemon configuration (`tiConfMain`, ticonf.cpp) | the main .conf file, a QSettings object per instance | create, seed, migrate, get, set, sync |
| disk observer (tibackupdiskobserver.cpp) | a udev monitor in a thread of its own | emits diskAdded, diskRemoved |
| PBS client (pbsclient.cpp) | network manager, ticket, last status, fingerprint | HTTP calls that wait in a nested event loop |
| SSH client, mailer, service control, disk probing, tables | none | one program or one conversation per call |

How they meet. The daemon (outside this library) ticks every minute and asks
`shouldRun` of each job; a due job, one started in the GUI and one whose disk
appears go to `backupManager::startBackup` in the main thread. That sets the status
to running and starts a QThread, whose worker constructs a job store of its own,
looks the job up again and calls `startBackup()`. Whoever needs a setting constructs a
`tiConfMain`, which repairs the configuration file on the way. The run reads the server stores,
which are process-wide singletons shared with the main thread, drives external
programs, and reaches the disk through the kernel's mount table, which it shares
with every other run and with the operating system. The worker's `finished(ok)`
travels back as an event of the main loop.

What is hard here:

- *Threads*: the status lags the run by a queued event; the QThread must be told
  to quit, then be deleted, in that order, once; the job file is rewritten by
  removing it first and setting key after key, with no lock; the server files the same with a lock.
- *Looks that are stale when used*: whether a partition is mounted, and where, is
  read at one point of a run and relied on for hours.
- *QSettings*: the objects of one process on one file share what is in memory of it, a
  constructor syncs, and a sync writes what *any* of them has set. A reader may thus see
  half of what a writer sets, and even write it to disk.
- *Programs*: they fail, hang past the 50 s wait (`QProcess::exitCode()` is 0 then,
  as it is for a program that cannot be started), and leave things half done. What
  a run leaves in the target directory is what the next run finds.
- *Crashes*: mounts, mappings, files survive; statuses, runs and keys not yet written
  do not.
- *Time*: late ticks, downtime, a clock that is set, midnight.

What makes each part correct:

- manager and worker: one run per job; the status is the outcome of that very run;
  no status stays at running; every thread ends and is reclaimed.
- run and mounting: whatever is written reaches the backup disk; a result says what
  was done; a release that is claimed has happened; every run ends.
- PBS section: an old archive is given up only for something complete; a new one is
  made of this run's files; the mail tells the truth.
- scheduler: never twice, and never missed, for a slot.
- server stores: a call takes effect at one moment, whatever other threads do.
- job store: no file mixes two jobs; what a save left is what is read, until it changes.
- configuration: a file of this version is whole; one of an older version gets what it
  lacks, once, and nothing the administrator chose is overridden.

The hazards behind these, each with its line and the properties aimed at it, are in
`PROJECT.json`.

## 2. The modules

### BackupManager, JobLifecycle, BackupManagerProofs

`store` is the set of jobs whose file exists; `saving` the job the main thread is
inside `saveBackupJob` for; `backups` the QHash; `thread` the QThreads with where
they stand; `queue` the posted events of the main thread, in order. `StartBackup` is
`startBackup` with `startBackupThread`; `Process`, `ProcessAborts` and `RunEnds` are
the worker (a run is one long step here: how it goes is BackupRun's subject);
`Deliver` takes the oldest event: a quit, a `finished` handled by
`onBackupFinished`, or a deleteLater. `finished` posts two events in the order of
the connects. `SaveBegin` and `SaveEnd` are the two halves of `saveBackupJob`; in
between the main thread delivers nothing while the workers go on. `RemoveJob` is
`removeJobByName`. `Crash` leaves only the files.

`NobodyStranded` is the other half of QueueMatchesThreads: what is queued is for a thread that
needs it, and a thread that needs a quit or its deletion has it queued.

`JobLifecycle` is the abstract promise: a job has no run, an active one, or one that
is over with its outcome unpublished; the status follows. `ImplementsLifecycle` is
the refinement: `work` is read off the threads and the queue.

### TargetMount, BackupRun, RunContract, MCBackupRun, BackupRunProofs

`TargetMount` has the kernel's side: `attached` disks, `mounts` and `latest` (the mount
table, of which the code reads *whether* and *the last entry*), `mapper` (open LUKS
mappings), and in `call` where each thread stands in `mountPartition` or
`umountPartition`. Every program and every look is a step. A program ends "ok",
"err", or "late": killed by the timeout, with exit code 0. `umountPartition` waits
without a limit. The environment plugs disks in, pulls unmounted ones out and, with
`AutoMount`, mounts some partitions itself.

`BackupRun` extends it with the run of each job: `Lookup`, `Probe`, `GetDir` or the
mount call, `Recheck` (the second `isMounted`), then the steps of `Plan` in order
(`BeginStep`, `EndStep`, `SkipStep`), `SendMail`, `Release`. `Plan` says which kinds
of step a job has; a step is where files are written below `deviceMountDir`. rsync
keeps the directory in use while it runs, the others need not. A job is `Exclusive` when
no other job and no automounter touches its partition; of such jobs the module says that
they write on their disk, of all of them that results and releases are true. A partition is
`Kept` when no job on it unmounts: such a one may be shared, but for the failed mount of
run_shared_abort. `Left` counts what a run still has before it.

`RunContract` is what the caller of `startBackup` may rely on: a run tries, gives up or works,
and while it works its steps have their turn, one by one; true is said after the last, false
before the first. `KeepsContract` is the refinement: `state` is read off `pc`, `turn` off `step`.

### PbsRestore, MCPbsRestore, PbsRestoreProofs

The loop over `pbs_backup_ids`, file by file. Per id, `files` says of each needed file
of the snapshot whether it is absent, half there, left by an earlier run, or restored
by this one, and `archives` which vzdump archives are there: of an earlier run, of
this run, broken. The client refuses to overwrite; what is in the way is removed
before, which works for files and not for a container's image directory. `failed`,
`error`, `logs` and `problem` are `errDownloadFiles`, `log.errmsg`, `bakPBSLogs` and
`pbsMessages`, from which the mail is computed. `Begin` starts the next run on what
is there; `Crash` may cut the client or the packaging short. `ClientStarts` says
whether `proxmox-backup-client` is known to be startable. `healthy` is history: nothing
has failed in this run so far that the disk, the server or the client could be blamed
for (`Hurt`). A directory in the way is not such a failure, which is why
HealthyRunArchives speaks of virtual machines.

### Scheduler, MCScheduler, SchedulerProofs

`ShouldRun` is `shouldRun`. `Tick` is the daemon's timer handler, modelled from what
tibackupscheduler.h says of it; `Pass`, `Switch`, `SetClock` and `Configure` are time,
downtime, clock changes and edits. `fired` and `steady` are history: the slots
served, and since when nobody interfered. The calendar is a parameter.

### ServerStore, ItemStore, ServerStoreProofs

Both server stores (their code is the same up to the fields). A call takes the mutex,
works in steps (remove then write; clear `items`, then file by file) and unlocks;
`copyItem` takes it twice. `removeItemByName` and `renameItem` work on `<name>.conf`, as
the code does, and so find nothing. `ItemStore` is the atomic store that ticonf.h
promises ("read+copy is atomic w.r.t. a concurrent save/read"); a crash between remove
and write loses the item being replaced, and nothing else.

### JobStore, SshTargets, MCJobStore, JobStoreProofs, SshTargetsProofs

`disk` and `exist` are the directory, file by file; `mem` and `dirty` what the QSettings
objects of the process share of each file, written by the next `Sync`, whoever calls it.
A save is `SaveBegin` (the file is removed), `SaveOpen` (the object), `SaveSet` per group
of keys, `SaveSync`; a lookup is `LookBegin` (`clear`, the listing), per file `LookOpen`,
`LookGroup` and `LookAppend`, then `GetJobs`, `GetJobsByUuid` or `GetJobByName`. Three
groups stand for the nine of the code: the job's, everything between, and the ssh array,
which is the one with an algorithm, in `SshTargets`: `Flatten` makes triples of the targets,
`Regroup` groups them by server. `backupdirs` is a multi-hash, so its values are kept as a
sequence and compared by how often each leg occurs (`Legs`). `QuietLookupsAreRight` is about
the answers: where nothing changes during a lookup, an accessor gives the stored jobs asked for. `RenameJob` keeps the name inside the
file. `stored`, `hurt` and `touched` are history: what a finished save left in a file,
the files whose save a crash cut short, the files that changed during a lookup.

### MainConf, MCMainConf, MainConfProofs

`Construct` starts `tiConfMain()`: over no file the first-init branch (`FirstOpen`, `FirstSet`
per key, `FirstSync`), else the seeding (`SeedCheck`, `SeedSet`, `SeedSync` per missing
key) and the migration of the logs' path; then `EnsureLogs` and `Settings`. `AdminSet` and
`AdminSync` are `setValue` and `sync` on behalf of the administrator in the main thread.
A value is unset, the default, the former default, or chosen. The daemon constructs one
object before it starts any thread (ticonf.cpp 36-40 names that check), so that workers
construct theirs when `up`; only then may they meet an administrator's edit. `dirs` are
the directories made. The file of an older version is any of `OldFiles`.

## 3. What TLC checks

| run | question | properties | result | distinct states |
|---|---|---|---|---|
| manager | two jobs, three threads, saves, removals, crashes | TypeOK, SingleFlight, QueueMatchesThreads, NobodyStranded, ImplementsLifecycle, RunningEnds, ThreadsReclaimed | holds | 56,712 |
| run | two runs on one automounted partition, one on LUKS of its own | TypeOK, WritesOnTarget, HonestOutcome, ReleaseIsReal | holds | 950,532 |
| run_ends | three runs, two on a partition nobody releases, every kind of step, everything may fail | KeptTargetHolds, RunEnds, RunsAdvance, KeepsContract | holds | 54,188 |
| run_shared_abort | two runs on one partition | MountFailureAborts | violated | |
| pbs_restore | a VM, a container, an unsupported id, runs in succession | TypeOK, ListedIdsArchived, HealthyRunArchives, OldArchiveOutlivesDownload, NewArchiveIsFresh | holds | 1,063,105 |
| pbs_mail | what the mail says after a failed restore | MailTellsTruth | violated | |
| scheduler | three days of ticks, downtime, clock changes, edits | TypeOK, OncePerSlot, NeverMisses | holds | 1,810,378 |
| scheduler_midnight | a slot in the last minute of the day | NeverMisses | violated | |
| server_store | two threads, two servers, every call, crashes | TypeOK, CallsAreAtomic | holds | 1,008,936 |
| job_store | a worker's lookups beside saves, edits, renames, removals, crashes | TypeOK, NeverMixed, SavedIsWhole, UntouchedIsRead, QuietLookupsAreRight | holds | 1,636,949 |
| jobs_torn | a lookup by name during a save | LookupIsWhole | violated | |
| main_conf | three threads over no file and every older file | TypeOK, FirstInitWhole, AdminChoiceStands, UpMeansComplete, UpgradeKeepsBind, PathsExist | holds | 67,163 |

Each property of a passing run has a *mutant* beside the definition it changes: a
plausible slip (a guard left out, an exit code not looked at, a connect forgotten)
under which the run must fail.

The four violated ones are disagreements between the code and what it says of itself:

1. **run_shared_abort**. `mountPartition`'s `""` is said to be a failure for the caller;
   `startBackup` asks `isMounted` again instead. When a second job has mounted the same
   partition by then, the first goes on with an empty directory and writes below `/`.
2. **pbs_mail**. A failed restore leaves the loop body before its entry is appended,
   so the mail says "PBS-Backup is okay."
3. **scheduler_midnight**. The grace window of a slot at 23:59 ends at midnight, because
   the slot is computed on the date of `now`.
4. **jobs_torn**. ticonf.h says the job store "needs no mutex", because each user
   constructs an object of its own. The files are common to all objects: a worker that
   looks its job up while the main thread saves it may get a job by that name with a part
   of its folders and targets.

Three smaller ones need no search and have no run: the mail that lets the user detach the
drive is sent before the umount (tibackupjob.cpp 947, 966); a `proxmox-backup-client` that
cannot be started counts as a good download (577-579), so that the old archive is deleted;
and a worker that finds no job file during a save reports a failed backup.

### Bounds, and why they are enough

- *manager*: two jobs make the question "whose outcome is it" meaningful. Three threads
  allow two runs and one QThread not yet reclaimed, hence a new run of a job whose last
  QThread still waits for its deletion. Threads bounds QThread objects that exist at
  the same time (the code has no limit); the queue needs no bound of its own.
- *run*: two runs on one partition are enough to disturb each other, since every
  interference is through one partition's state; the third shows that they disturb
  nobody else, LUKS included. A partition is mounted in at most two places. *run_ends* has
  two runs on a plain partition that stays mounted and one that mounts and releases a LUKS
  partition; each of the five kinds of step is in one of the plans, and a run meets no, one
  or two steps after the current one.
- *pbs_restore*: the virtual machine has two images, so a failure can come before and
  after a good restore; the container has one, of the kind that cannot be deleted; the
  third id is skipped. Runs repeat without a bound: left-overs are what accumulates, and
  they are a finite set of states.
- *scheduler*: a unit of half a minute, days of 12 units. Only differences to the slot, to
  the grace window and to midnight matter, and there is room for all of them on both
  sides. Three days give a weekly and a monthly slot a day before and after.
- *server_store*: two threads, two uuids, two names: a reader beside a writer, a copy
  beside a removal, and a free uuid for the copy.
- *job_store, jobs_torn*: one file that is looked at and one that is not; a job with folders
  only, an edited version of it with every group different, and one whose targets name a
  server twice with another between, a source with two destinations, and a server without
  folders. One thread looks jobs up: lookups meet in the shared memory of a file only,
  where all they do is to sync. The proofs cover any number of them, and a lookup by the
  saving thread.
- *main_conf*: the main thread and two workers, so that two constructions overlap beside the
  administrator; one file for each number of keys known so far, with the logs at the
  old default, the new one or a chosen one. The administrator changes three keys: one
  that is seeded, one that is migrated, one that is neither.

Deadlock is checked in every run.

### Fairness

- BackupManager: `SF(Deliver)`: each turn of Qt's main loop sends the events posted so
  far, whatever handlers run between two turns; weak fairness would let an endless
  sequence of saves starve the queue, which the loop does not. `WF(SaveEnd)`: a handler ends. `WF` for each
  worker: an operating system thread is scheduled, and a run ends (RunEnds of
  BackupRun). Nothing is assumed of saves, starts, removals and crashes.
- BackupRun: `WF(RunStep(j))` for each job: its thread goes on and the programs it
  waits for end. cryptsetup and mount are killed after 50 s; rsync, umount and the
  scripts are waited for without a limit, so for these it is an assumption about the
  programs. Crashes and the environment are not fair.
- Everything else is safety and needs none.

## 4. What is proved

TLAPS proves these for any constants that satisfy the named assumptions. Every
module declares its assumptions; TLC evaluates them too.

**BackupManagerProofs.** `ManagerTypes`, `ThreadsEndInOrder`, `OneRunPerJob`,
`ManagerImplementsLifecycle`, `NoThreadIsStranded`. The inductive invariant is
TypeOK, ThreadsHaveJobs, QueueMatchesThreads and SingleFlight together. SingleFlight is
not inductive alone: that delivering an outcome ends the *only* run of a job needs
that it is in the queue once and on no thread; that StartBackup may set running needs
that a job that is not running has neither. The refinement then follows action by
action: quits, deletions, saves and exits stutter. `NoThreadIsStranded` follows each event from
where it is posted to where it is handled: the step that makes a thread idle posts its quit,
the step that ends it posts its deletion, and delivering takes one event, whose thread then
no longer needs it. It is the safety half of ThreadsReclaimed: what is left to fairness is
that the queue is served.

**BackupRunProofs.** `TypeCorrect` needs that a run is in a call exactly when its pc says
so (CallMatchesPc). `OutcomeIsHonest` and `ReleaseMeansFree` hold with any sharing of
partitions and any automounter. `WritesReachTarget` holds without an assumption, since
WritesOnTarget speaks of the jobs that are Exclusive, one by one: the invariant TargetHeld
states what such a run *believes* of the mount table at each point (BeliefHolds) and that
it is still so; a step of another run moves another row of the table (ForeignStep).
`FailedMountAborts` is the positive side of run_shared_abort: where every job is
exclusive, no run goes on without a directory. `SharedTargetReached` is the positive side for
sharing: where nobody releases the partition, a row of the mount table only ever goes from
unmounted to mounted (KeptRow), so what a run has seen once stays true (HasSeen), whoever
mounted it; that such a row is never emptied rests on UmountsWanted, that only jobs with
umount_after_backup come to unmount.

`RunsAreFinite` is the safety half of RunEnds: Left is a number of at most 14 plus twice the
length of the plan, each step of the run lowers it, and no step but its own start raises
it. What is left to fairness is that the run takes its steps. `RunImplementsContract` maps each
step of BackupRun to one of RunContract or to none. Both need of the state what is not in
TypeOK: where a run may be in its plan at each pc (StepsFit), and which step and result go
with which pc (OutcomesFit); together RunInv.

**PbsRestoreProofs.** `SectionTypes`, `OkayMeansArchived`, `HealthyRunsArchive`, and, where the
client can be started, `ArchiveOutlivesDownload` and `ArchiveIsFresh`. Progress is the loop
invariant: without an error, every needed file before the current one is restored; Held
carries it to the packaging; Passed and Listed say what the entries of bakPBSLogs are
about.

**SchedulerProofs.** `SchedulerTypes` and `StartedOncePerSlot`, from Served: what was started
for has a last run at or after it. It covers every calendar, grace and tick interval.
`SlotsAreServed` proves NeverMisses under TimerFits: ticks are at most a grace and a step
apart, and the slot is at least that far from midnight; scheduler_midnight shows that the
second half is needed.

**ServerStoreProofs.** `StoreTypes` and `StoreIsAtomic`: the locked store implements ItemStore for
any number of threads, servers and names. The invariant: who is inside a section
holds the mutex (HolderIsInside); files are named by uuid (FilesFit); a file that is
being replaced is away (GapIsOpen); what was read and what is still to read are
together the directory (ScanIsWhole).

**JobStoreProofs.** `StoreTypes`, `FilesNeverMix`, `SavesAreWhole`, `UntouchedFilesAreRead`. Only
the save in progress has keys that are not written (OneWriter), so a sync of any other
file can but read it; memory of the file being saved holds the groups set so far, and so
does the disk once anyone has written them (SaveOnItsWay). The last theorem carries this
through a lookup, key group after key group; that decoding undoes encoding comes from
SshTargetsProofs. `QuietAccessorsAnswer` adds what the accessors make of the list: when a lookup that nothing
disturbed ends, the list has of each file the job that is stored, and nothing where there is
none, so no entry of an earlier lookup is left in it.

**SshTargetsProofs.** `RegroupUndoesFlatten`: any targets, with a server named twice, a source with
two destinations or no folders at all, come back from the flat triples with each leg as often
as before, and each server once. Both directions are recursive functions on the length.
Where an induction is needed it is done by taking the least length at which the claim fails
(LeastNumber, Induction), since the library's induction theorems take an operator, which the provers
cannot instantiate.

**MainConfProofs.** `ConfTypes`, `FirstFileIsWhole`, `ChoicesStand`, `UpgradesComplete`,
`BindIsKept`, `PathsAreMade`, each from an invariant of who may be where: until the first
construction is over the main thread is alone; after it the file lacks nothing, so no
thread finds a key to seed, and an administrator's value is never one that a check looks
for.

Model-checked only: RunningEnds, ThreadsReclaimed and RunEnds, since liveness under fairness
is beyond the prover; NoThreadIsStranded and RunsAreFinite prove what they rest on besides
fairness. Every other property of a passing run is a theorem. The four violations are, by
their nature, found by TLC only.

## 5. What is not modelled, and abstractions to know of

- rsync and script command lines, the log, mail and wire formats; HTTP, SMTP, ssh and
  udev themselves. Their outcomes are choices.
- A program that works and is then killed by the timeout looks like one that worked.
  umount and cryptsetup are taken to be startable: the packages they come in are
  installed with the library. That mount or cryptsetup cannot be started is covered by
  "late".
- In the PBS section: the tar file between a container's image and its zstd archive,
  and the copy of its configuration into the image, are part of the packaging.
  Deletions may fail anywhere. A container's snapshot has an image.
- genNewUuid answers a uuid that nobody has. getItemByName's choice among items of
  the same name is any of them.
- The daemon: its timer and hot-plug start are outside this library.
- One process: the GUI and the daemon exchange jobs over the daemon's API, so the files have
  one process that writes them. QSettings writes a file as a whole (QSaveFile), so a
  crash leaves the old or the new content. Values it would refuse are not considered, nor
  file permissions.
- *Disk observer*: a loop over udev that turns an event into a signal and keeps nothing; what
  follows, the hot-plug start, is in the daemon.
- *Disks and partitions*: one pass over udev and blkid per call. What it answers is
  `attached`; that it probes `<disk>1` to `<disk>n` and so misses partitions behind a gap in the
  numbering is left out.
- *PBS client*: the library constructs one per run and uses it from that run's thread. The
  shared instance, whose nested event loop other handlers could enter again, is used by
  the daemon only. *SSH client*: one program per call, its output parsed.
- *Mailer*: one SMTP conversation; its failure changes nothing in a run. An attachment
  that cannot be opened raises an exception outside the try block, which ends the
  process: a Crash.
- The stream operators (their readers are in the daemon and the GUI), service control,
  tables of exit and status codes, server records: no state, or pure input and output.

## 6. Plan

Written in this order, most important first: BackupManager with its abstract life cycle,
the run over the mount table, the PBS section, the scheduler, the server stores, the job
store, the configuration; each with its proofs. What could follow:

1. *Manager over contract*: the manager with RunContract in the place of its one long step, and
   with it the result that is published traced back to the steps of the run.
2. *Partition probe*: getAttachedDisks and DeviceDisk as operators on a table of
   partitions, with gaps in the numbering, in place of `attached`.
3. *Pure operators* against references: convertPath2Generic and back, quoting of ssh's
   command line, the stream format with its trailing field.
4. *Containers*: a property of recovery for them, once the code can delete what a failed run
   leaves of their images.

----------------------------- MODULE BackupManager ----------------------------
(***************************************************************************)
(* backupManager, tiBackupJob::startBackupThread and tiBackupJobWorker: how *)
(* the daemon's main thread starts one QThread per run, how the worker's   *)
(* finished(ok) signal comes back as queued events of the main thread, and *)
(* how the QThread is reclaimed.  The job files that both threads read are *)
(* part of the state, because the worker reads its job a second time.      *)
(*                                                                         *)
(* The main thread is an event loop: a handler that saves a job file runs  *)
(* to its end (SaveBegin .. SaveEnd) before the next event is delivered,   *)
(* while worker threads go on.                                             *)
(***************************************************************************)
EXTENDS Naturals, Sequences, FiniteSets

CONSTANTS
    Jobs,      \* names of backup jobs
    Threads,   \* bound: QThread objects that may exist at the same time
    NoJob

ASSUME NoJobAssumption == NoJob \notin Jobs

VARIABLES
    store,     \* jobs whose <name>.conf exists in paths/backupjobs
    saving,    \* the job the main thread is inside saveBackupJob for, or NoJob
    backups,   \* backupManager::backups; a job without an entry is standby
    thread,    \* QThread and its worker: [job, pc]
    queue      \* posted events of the main thread, in posting order

vars == <<store, saving, backups, thread, queue>>

Status == {"standby", "running", "finished", "failed"}

\* starting: started() not processed; working: inside startBackup(); idle:
\* finished(ok) emitted, event loop waits for quit; exiting: loop left.
Pc == {"free", "starting", "working", "idle", "exiting", "over"}
ThreadState == [job : Jobs \cup {NoJob}, pc : Pc]
NoThread == [job |-> NoJob, pc |-> "free"]

Event == [type : {"quit", "reap"}, thread : Threads]
         \cup [type : {"finished"}, job : Jobs, ok : BOOLEAN]

\* The type invariant.
TypeOK ==
    /\ store \subseteq Jobs
    /\ saving \in Jobs \cup {NoJob}
    /\ backups \in [Jobs -> Status]
    /\ thread \in [Threads -> ThreadState]
    /\ queue \in Seq(Event)

-------------------------------------------------------------------------------
\* The main thread is free to run the next handler.
MainIdle == saving = NoJob

\* readBackupJobs lists and reads every job file, getJobByName searches the list.
JobExists(j) == j \in store

\* Mutant: finished is not connected to QThread::quit.
FinishedNoQuit(t, ok) == <<[type |-> "finished", job |-> thread[t].job, ok |-> ok]>>

\* Mutant: the outcome does not name the job it belongs to.
FinishedNameless(t, ok) ==
    <<[type |-> "quit", thread |-> t],
      [type |-> "finished", job |-> NoJob, ok |-> ok]>>

\* What emit finished(ok) posts to the main thread: both receivers (the QThread
\* object and the manager) live there, so the events queue up in connection order.
Finished(t, ok) ==
    <<[type |-> "quit", thread |-> t],
      [type |-> "finished", job |-> thread[t].job, ok |-> ok]>>

Goto(t, pc) == thread' = [thread EXCEPT ![t].pc = pc]

Init ==
    /\ store \in SUBSET Jobs
    /\ saving = NoJob
    /\ backups = [j \in Jobs |-> "standby"]
    /\ thread = [t \in Threads |-> NoThread]
    /\ queue = <<>>

-------------------------------------------------------------------------------
\* Handlers of the main thread.

\* saveBackupJob: an existing file is removed first ...
SaveBegin(j) ==
    /\ MainIdle
    /\ saving' = j
    /\ store' = store \ {j}
    /\ UNCHANGED <<backups, thread, queue>>

\* ... and the new content is on disk only after sync().
SaveEnd ==
    /\ saving # NoJob
    /\ store' = store \cup {saving}
    /\ saving' = NoJob
    /\ UNCHANGED <<backups, thread, queue>>

RemoveJob(j) ==
    /\ MainIdle
    /\ j \in store
    /\ store' = store \ {j}
    /\ UNCHANGED <<saving, backups, thread, queue>>

\* tiBackupJob::startBackupThread: a new QThread with its worker is started.
StartThread(j) ==
    \E t \in Threads :
        /\ thread[t].pc = "free"
        /\ thread' = [thread EXCEPT ![t] = [job |-> j, pc |-> "starting"]]

\* Mutant: startBackup does not look at the status of the job.
StartBackupUnguarded(j) ==
    /\ MainIdle
    /\ JobExists(j)
    /\ backups' = [backups EXCEPT ![j] = "running"]
    /\ StartThread(j)
    /\ UNCHANGED <<store, saving, queue>>

\* backupManager::startBackup; its two "return false" paths change nothing.
StartBackup(j) ==
    /\ MainIdle
    /\ JobExists(j)
    /\ backups[j] # "running"
    /\ backups' = [backups EXCEPT ![j] = "running"]
    /\ StartThread(j)
    /\ UNCHANGED <<store, saving, queue>>

\* A queued QThread::quit(): the thread leaves its event loop.
Quit(e) ==
    /\ e.type = "quit"
    /\ Goto(e.thread, "exiting")
    /\ UNCHANGED backups

\* Mutant: the outcome is recorded only when it is good.
OnBackupFinishedOkOnly(e) ==
    /\ e.type = "finished"
    /\ backups' = IF e.ok THEN [backups EXCEPT ![e.job] = "finished"] ELSE backups
    /\ UNCHANGED thread

\* backupManager::onBackupFinished.
OnBackupFinished(e) ==
    /\ e.type = "finished"
    /\ backups' = [backups EXCEPT ![e.job] = IF e.ok THEN "finished" ELSE "failed"]
    /\ UNCHANGED thread

\* The deleteLater() of the QThread object.
Reap(e) ==
    /\ e.type = "reap"
    /\ thread' = [thread EXCEPT ![e.thread] = NoThread]
    /\ UNCHANGED backups

\* The main event loop delivers the oldest posted event.
Deliver ==
    /\ MainIdle
    /\ queue # <<>>
    /\ Quit(Head(queue)) \/ OnBackupFinished(Head(queue)) \/ Reap(Head(queue))
    /\ queue' = Tail(queue)
    /\ UNCHANGED <<store, saving>>

-------------------------------------------------------------------------------
\* Steps of a worker thread.

\* tiBackupJobWorker::process finds its job and enters startBackup() ...
Process(t) ==
    /\ thread[t].pc = "starting"
    /\ JobExists(thread[t].job)
    /\ Goto(t, "working")
    /\ UNCHANGED <<store, saving, backups, queue>>

\* Mutant: a worker that does not find its job returns without a signal.
ProcessAbortsSilently(t) ==
    /\ thread[t].pc = "starting"
    /\ ~JobExists(thread[t].job)
    /\ Goto(t, "idle")
    /\ UNCHANGED <<store, saving, backups, queue>>

\* ... or does not find it and aborts.
ProcessAborts(t) ==
    /\ thread[t].pc = "starting"
    /\ ~JobExists(thread[t].job)
    /\ Goto(t, "idle")
    /\ queue' = queue \o Finished(t, FALSE)
    /\ UNCHANGED <<store, saving, backups>>

\* Mutant: the deleteLater of the QThread is tied to the worker's finished signal.
RunEndsReaping(t) ==
    /\ thread[t].pc = "working"
    /\ Goto(t, "idle")
    /\ \E ok \in BOOLEAN :
          queue' = Append(queue \o Finished(t, ok), [type |-> "reap", thread |-> t])
    /\ UNCHANGED <<store, saving, backups>>

\* startBackup() returns.
RunEnds(t) ==
    /\ thread[t].pc = "working"
    /\ Goto(t, "idle")
    /\ \E ok \in BOOLEAN : queue' = queue \o Finished(t, ok)
    /\ UNCHANGED <<store, saving, backups>>

\* Mutant: the QThread's finished is not connected to its deleteLater.
ThreadExitLeaking(t) ==
    /\ thread[t].pc = "exiting"
    /\ Goto(t, "over")
    /\ UNCHANGED <<store, saving, backups, queue>>

\* QThread::finished() posts the deleteLater of the QThread object.
ThreadExit(t) ==
    /\ thread[t].pc = "exiting"
    /\ Goto(t, "over")
    /\ queue' = Append(queue, [type |-> "reap", thread |-> t])
    /\ UNCHANGED <<store, saving, backups>>

-------------------------------------------------------------------------------
\* The daemon dies and is started again: only the job files survive.
Crash ==
    /\ saving' = NoJob
    /\ backups' = [j \in Jobs |-> "standby"]
    /\ thread' = [t \in Threads |-> NoThread]
    /\ queue' = <<>>
    /\ UNCHANGED store

WorkerStep(t) == Process(t) \/ ProcessAborts(t) \/ RunEnds(t) \/ ThreadExit(t)

Next ==
    \/ \E j \in Jobs : SaveBegin(j) \/ RemoveJob(j) \/ StartBackup(j)
    \/ SaveEnd
    \/ Deliver
    \/ \E t \in Threads : WorkerStep(t)
    \/ Crash

\* Every turn of the main loop sends the posted events, whatever other handlers
\* run in between; a handler ends; a worker thread, and the run in it, goes on.
Fairness ==
    /\ SF_vars(Deliver)
    /\ WF_vars(SaveEnd)
    /\ \A t \in Threads : WF_vars(WorkerStep(t))

Spec == Init /\ [][Next]_vars
FairSpec == Spec /\ Fairness

-------------------------------------------------------------------------------
\* Properties.

\* Threads that carry a run of job j whose worker has not emitted finished yet,
\* and places in the event queue where the outcome of a run of j waits.
Carriers(j) == {t \in Threads : thread[t].job = j /\ thread[t].pc \in {"starting", "working"}}
Reports(j) == {i \in 1..Len(queue) : queue[i].type = "finished" /\ queue[i].job = j}

AtMostOne(S) == \A x, y \in S : x = y

\* The published status "running" means one run: it is carried by exactly one
\* thread or its outcome is exactly one queued event, never both, and a job that
\* is not "running" has neither.  (startBackup refuses a second start only by
\* looking at backups, so a status that lags a run would let two in.)
SingleFlight ==
    \A j \in Jobs :
        /\ backups[j] = "running" <=> (Carriers(j) # {} \/ Reports(j) # {})
        /\ Carriers(j) = {} \/ Reports(j) = {}
        /\ AtMostOne(Carriers(j))
        /\ AtMostOne(Reports(j))

\* A queued quit is for a thread whose worker has emitted finished and is still in
\* its event loop, a queued deleteLater for a thread that has left it, and there is
\* one such event per thread: no QThread is destroyed while it runs, none twice.
QueueMatchesThreads ==
    /\ \A i \in 1..Len(queue) :
          /\ queue[i].type = "quit" => thread[queue[i].thread].pc = "idle"
          /\ queue[i].type = "reap" => thread[queue[i].thread].pc = "over"
    /\ \A i, k \in 1..Len(queue) :
          queue[i].type # "finished" /\ queue[k].type # "finished"
              /\ queue[i].thread = queue[k].thread => i = k

\* No thread waits for an event that nobody has posted, or that has gone by: while a worker
\* that has emitted finished is in its event loop its quit() is on the way, and while a
\* QThread that has ended exists its deleteLater() is (the connections of
\* startBackupThread, which together have to take every thread to its end; with
\* QueueMatchesThreads there is exactly one such event).
NobodyStranded ==
    \A t \in Threads :
        /\ thread[t].pc = "idle" =>
              \E i \in 1..Len(queue) : queue[i] = [type |-> "quit", thread |-> t]
        /\ thread[t].pc = "over" =>
              \E i \in 1..Len(queue) : queue[i] = [type |-> "reap", thread |-> t]

\* The manager implements the life cycle a caller of startBackup and a reader of
\* getBackupStatus rely on.
RunOf(j) ==
    IF Carriers(j) # {} THEN "active"
    ELSE IF Reports(j) = {} THEN "none"
    ELSE IF \E i \in Reports(j) : queue[i].ok THEN "ok" ELSE "bad"

Lifecycle == INSTANCE JobLifecycle WITH
                 status <- backups,
                 work <- [j \in Jobs |-> RunOf(j)]

ImplementsLifecycle == Lifecycle!Spec

\* A job reported as running is reported otherwise some time later.
RunningEnds == \A j \in Jobs : backups[j] = "running" ~> backups[j] # "running"

\* Every QThread object that was created is destroyed again: quit() reaches each
\* worker's loop and its deleteLater() is delivered.
ThreadsReclaimed == \A t \in Threads : thread[t].pc # "free" ~> thread[t].pc = "free"
===============================================================================

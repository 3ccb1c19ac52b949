-------------------------- MODULE BackupManagerProofs -------------------------
(***************************************************************************)
(* Proofs about BackupManager for any set of jobs and any number of QThread *)
(* objects.  The inductive invariant is IInv.                               *)
(***************************************************************************)
EXTENDS BackupManager, TLAPS

\* Every thread that exists works for a job.
ThreadsHaveJobs == \A t \in Threads : thread[t].pc # "free" => thread[t].job \in Jobs

IInv == TypeOK /\ ThreadsHaveJobs /\ QueueMatchesThreads /\ SingleFlight

-------------------------------------------------------------------------------
\* The event queue: what is left when its oldest event is taken off ...
LEMMA TailOfQueue ==
    ASSUME queue \in Seq(Event), queue # <<>>
    PROVE  /\ Head(queue) = queue[1] /\ Head(queue) \in Event
           /\ Tail(queue) \in Seq(Event)
           /\ Len(queue) \in Nat \ {0}
           /\ Len(Tail(queue)) = Len(queue) - 1
           /\ \A i \in 1..Len(Tail(queue)) : Tail(queue)[i] = queue[i + 1]
OBVIOUS

\* ... what it holds when a worker has posted two more ...
LEMMA TwoMoreEvents ==
    ASSUME queue \in Seq(Event), NEW a \in Event, NEW b \in Event
    PROVE  /\ queue \o <<a, b>> \in Seq(Event)
           /\ Len(queue) \in Nat
           /\ Len(queue \o <<a, b>>) = Len(queue) + 2
           /\ \A i \in 1..Len(queue) : (queue \o <<a, b>>)[i] = queue[i]
           /\ (queue \o <<a, b>>)[Len(queue) + 1] = a
           /\ (queue \o <<a, b>>)[Len(queue) + 2] = b
OBVIOUS

\* ... and when a thread has posted one more.
LEMMA OneMoreEvent ==
    ASSUME queue \in Seq(Event), NEW a \in Event
    PROVE  /\ Append(queue, a) \in Seq(Event)
           /\ Len(queue) \in Nat
           /\ Len(Append(queue, a)) = Len(queue) + 1
           /\ \A i \in 1..Len(queue) : Append(queue, a)[i] = queue[i]
           /\ Append(queue, a)[Len(queue) + 1] = a
OBVIOUS

\* What is posted when a worker emits finished.
LEMMA FinishedEvents ==
    ASSUME TypeOK, ThreadsHaveJobs, NEW t \in Threads, thread[t].pc # "free", NEW good \in BOOLEAN
    PROVE  /\ [type |-> "quit", thread |-> t] \in Event
           /\ [type |-> "finished", job |-> thread[t].job, ok |-> good] \in Event
BY DEF Event, ThreadsHaveJobs, TypeOK

-------------------------------------------------------------------------------
\* How one step moves a thread.
LEMMA GotoThread ==
    ASSUME TypeOK, NEW t \in Threads, NEW at \in Pc, Goto(t, at)
    PROVE  /\ thread' \in [Threads -> ThreadState]
           /\ thread'[t].pc = at /\ thread'[t].job = thread[t].job
           /\ \A u \in Threads : u # t => thread'[u] = thread[u]
BY DEF TypeOK, Goto, ThreadState

\* A worker that emits finished stops carrying its run and queues its outcome.
LEMMA EmitStep ==
    ASSUME IInv, NEW t \in Threads, thread[t].pc \in {"starting", "working"}, NEW good \in BOOLEAN,
           Goto(t, "idle"), queue' = queue \o Finished(t, good), UNCHANGED <<store, saving, backups>>
    PROVE  IInv'
<1> DEFINE a == [type |-> "quit", thread |-> t]
           b == [type |-> "finished", job |-> thread[t].job, ok |-> good]
           n == Len(queue)
<1>1. /\ TypeOK /\ ThreadsHaveJobs /\ QueueMatchesThreads /\ SingleFlight
      /\ queue \in Seq(Event)
  BY DEF IInv, TypeOK
<1>2. a \in Event /\ b \in Event /\ queue' = queue \o <<a, b>>
  BY <1>1, FinishedEvents DEF Finished
<1>3. /\ queue' \in Seq(Event) /\ n \in Nat /\ Len(queue') = n + 2
      /\ \A i \in 1..n : queue'[i] = queue[i]
      /\ queue'[n + 1] = a /\ queue'[n + 2] = b
  BY <1>1, <1>2, TwoMoreEvents
<1>4. /\ thread' \in [Threads -> ThreadState]
      /\ thread'[t].pc = "idle" /\ thread'[t].job = thread[t].job
      /\ \A u \in Threads : u # t => thread'[u] = thread[u]
  BY <1>1, GotoThread DEF Pc
<1>5. /\ a.type = "quit" /\ a.thread = t
      /\ b.type = "finished" /\ b.job = thread[t].job /\ b.ok = good
  OBVIOUS
<1> HIDE DEF a, b
<1>6. TypeOK'
  BY <1>1, <1>3, <1>4 DEF TypeOK
<1>7. ThreadsHaveJobs'
  BY <1>1, <1>4 DEF ThreadsHaveJobs
<1>8. QueueMatchesThreads'
  <2>1. ASSUME NEW i \in 1..n, queue[i].type # "finished" PROVE queue[i].thread # t
    BY <1>1, <2>1 DEF QueueMatchesThreads, Event
  <2>2. ASSUME NEW i \in 1..n, queue[i].type # "finished"
        PROVE  queue[i].thread \in Threads /\ thread'[queue[i].thread] = thread[queue[i].thread]
    BY <1>1, <1>4, <2>1, <2>2 DEF Event
  <2>3. ASSUME NEW i \in 1..Len(queue')
        PROVE  /\ queue'[i].type = "quit" => thread'[queue'[i].thread].pc = "idle"
               /\ queue'[i].type = "reap" => thread'[queue'[i].thread].pc = "over"
    <3>1. i \in 1..n \/ i = n + 1 \/ i = n + 2
      BY <1>3
    <3>2. CASE i \in 1..n
      BY <1>1, <1>3, <2>2, <3>2 DEF QueueMatchesThreads
    <3>3. QED
      BY <1>3, <1>4, <1>5, <3>1, <3>2
  <2>4. ASSUME NEW i \in 1..Len(queue'), NEW k \in 1..Len(queue'),
               queue'[i].type # "finished", queue'[k].type # "finished",
               queue'[i].thread = queue'[k].thread
        PROVE  i = k
    <3>1. (i \in 1..n \/ i = n + 1) /\ (k \in 1..n \/ k = n + 1)
      BY <1>3, <1>5, <2>4
    <3>2. CASE i \in 1..n /\ k \in 1..n
      BY <1>1, <1>3, <2>4, <3>2 DEF QueueMatchesThreads
    <3>3. QED
      BY <1>3, <1>5, <2>1, <2>4, <3>1, <3>2
  <2>5. QED
    BY <2>3, <2>4 DEF QueueMatchesThreads
<1>9. SingleFlight'
  <2> SUFFICES ASSUME NEW j \in Jobs
               PROVE  /\ backups[j] = "running" <=> (Carriers(j)' # {} \/ Reports(j)' # {})
                      /\ Carriers(j)' = {} \/ Reports(j)' = {}
                      /\ AtMostOne(Carriers(j)')
                      /\ AtMostOne(Reports(j)')
    BY DEF SingleFlight, AtMostOne
  <2>1. Carriers(j)' = Carriers(j) \ {t}
    BY <1>4 DEF Carriers
  <2>2. CASE j # thread[t].job
    <3>1. Carriers(j)' = Carriers(j) /\ Reports(j)' = Reports(j)
      BY <1>3, <1>5, <2>1, <2>2 DEF Carriers, Reports
    <3>2. QED
      BY <1>1, <3>1 DEF SingleFlight
  <2>3. CASE j = thread[t].job
    <3>1. t \in Carriers(j)
      BY <2>3 DEF Carriers
    <3>2. Reports(j) = {} /\ Carriers(j) = {t} /\ backups[j] = "running"
      BY <1>1, <3>1 DEF SingleFlight, AtMostOne
    <3>3. Reports(j)' = {n + 2}
      BY <1>3, <1>5, <2>3, <3>2 DEF Reports
    <3>4. QED
      BY <2>1, <3>2, <3>3 DEF AtMostOne
  <2>4. QED
    BY <2>2, <2>3
<1>10. QED
  BY <1>6, <1>7, <1>8, <1>9 DEF IInv

\* The delivery of the oldest event, whatever it is.
LEMMA DeliverStep ==
    ASSUME IInv, Deliver
    PROVE  IInv'
<1> DEFINE e == Head(queue)
<1>1. /\ TypeOK /\ ThreadsHaveJobs /\ QueueMatchesThreads /\ SingleFlight
      /\ queue \in Seq(Event) /\ queue # <<>> /\ queue' = Tail(queue)
      /\ UNCHANGED <<store, saving>>
  BY DEF IInv, TypeOK, Deliver
<1>2. /\ e = queue[1] /\ e \in Event
      /\ queue' \in Seq(Event)
      /\ Len(queue) \in Nat \ {0} /\ Len(queue') = Len(queue) - 1
      /\ \A i \in 1..Len(queue') : queue'[i] = queue[i + 1]
  BY <1>1, TailOfQueue
<1> HIDE DEF e
<1>3. \A i \in 1..Len(queue') : i + 1 \in 1..Len(queue) /\ i + 1 # 1
  BY <1>2
<1>4. 1 \in 1..Len(queue)
  BY <1>2
\* The events that stay behind concern other threads than a delivered quit or reap.
<1>5. ASSUME NEW i \in 1..Len(queue'), queue'[i].type # "finished"
      PROVE  /\ queue'[i].thread \in Threads
             /\ e.type # "finished" => queue'[i].thread # e.thread
             /\ queue'[i].type = "quit" => thread[queue'[i].thread].pc = "idle"
             /\ queue'[i].type = "reap" => thread[queue'[i].thread].pc = "over"
  BY <1>1, <1>2, <1>3, <1>4, <1>5 DEF QueueMatchesThreads, Event
<1>6. ASSUME NEW i \in 1..Len(queue'), NEW k \in 1..Len(queue'),
             queue'[i].type # "finished", queue'[k].type # "finished",
             queue'[i].thread = queue'[k].thread
      PROVE  i = k
  <2>1. i + 1 = k + 1
    BY <1>1, <1>2, <1>3, <1>6 DEF QueueMatchesThreads
  <2>2. QED
    BY <2>1
<1>7. CASE Quit(e) \/ Reap(e)
  <2>1. /\ e.type \in {"quit", "reap"} /\ e.thread \in Threads /\ UNCHANGED backups
        /\ thread[e.thread].pc \in {"idle", "over"}
    BY <1>1, <1>2, <1>4, <1>7 DEF Quit, Reap, Event, QueueMatchesThreads
  <2>2. /\ thread' \in [Threads -> ThreadState]
        /\ \A u \in Threads : u # e.thread => thread'[u] = thread[u]
        /\ thread'[e.thread].pc \in {"exiting", "free"}
        /\ thread'[e.thread].pc # "free" => thread'[e.thread].job = thread[e.thread].job
    BY <1>1, <1>7, <2>1, GotoThread DEF Quit, Reap, TypeOK, ThreadState, NoThread, Pc
  <2>3. TypeOK'
    BY <1>1, <1>2, <2>1, <2>2 DEF TypeOK
  <2>4. ThreadsHaveJobs'
    BY <1>1, <2>1, <2>2 DEF ThreadsHaveJobs
  <2>5. QueueMatchesThreads'
    BY <1>5, <1>6, <2>1, <2>2 DEF QueueMatchesThreads
  <2>6. ASSUME NEW j \in Jobs
        PROVE  Carriers(j)' = Carriers(j) /\ (Reports(j)' = {} <=> Reports(j) = {})
                 /\ (AtMostOne(Reports(j)) => AtMostOne(Reports(j)'))
    <3>1. Carriers(j)' = Carriers(j)
      BY <2>1, <2>2 DEF Carriers
    <3>2. \A i \in 1..Len(queue') : i \in Reports(j)' <=> i + 1 \in Reports(j)
      BY <1>2, <1>3 DEF Reports
    <3>3. \A i \in Reports(j) : i - 1 \in Reports(j)'
      <4>1. ASSUME NEW i \in Reports(j) PROVE i # 1
        BY <1>2, <2>1 DEF Reports
      <4>2. ASSUME NEW i \in Reports(j) PROVE i - 1 \in 1..Len(queue') /\ (i - 1) + 1 = i
        BY <1>2, <4>1 DEF Reports
      <4>3. QED
        BY <3>2, <4>2
    <3>4. \A i \in Reports(j)' : i \in 1..Len(queue') /\ i + 1 \in Reports(j)
      BY <3>2 DEF Reports
    <3>5. QED
      BY <1>2, <3>1, <3>3, <3>4 DEF AtMostOne
  <2>7. SingleFlight'
    <3> SUFFICES ASSUME NEW j \in Jobs
                 PROVE  /\ backups'[j] = "running" <=> (Carriers(j)' # {} \/ Reports(j)' # {})
                        /\ Carriers(j)' = {} \/ Reports(j)' = {}
                        /\ AtMostOne(Carriers(j)')
                        /\ AtMostOne(Reports(j)')
      BY DEF SingleFlight, AtMostOne
    <3>1. QED
      BY <1>1, <2>1, <2>6 DEF SingleFlight
  <2>8. QED
    BY <2>3, <2>4, <2>5, <2>7 DEF IInv
<1>8. CASE OnBackupFinished(e)
  <2>1. /\ e.type = "finished" /\ e.job \in Jobs /\ UNCHANGED thread
        /\ backups' \in [Jobs -> Status] /\ backups'[e.job] \in {"finished", "failed"}
        /\ \A j \in Jobs : j # e.job => backups'[j] = backups[j]
    BY <1>1, <1>2, <1>8 DEF OnBackupFinished, Event, TypeOK, Status
  <2>2. TypeOK'
    BY <1>1, <1>2, <2>1 DEF TypeOK
  <2>3. ThreadsHaveJobs'
    BY <1>1, <2>1 DEF ThreadsHaveJobs
  <2>4. QueueMatchesThreads'
    BY <1>5, <1>6, <2>1 DEF QueueMatchesThreads
  <2>5. 1 \in Reports(e.job)
    BY <1>2, <1>4, <2>1 DEF Reports
  <2>6. Reports(e.job) = {1} /\ Carriers(e.job) = {}
    BY <1>1, <2>1, <2>5 DEF SingleFlight, AtMostOne
  <2>7. ASSUME NEW j \in Jobs
        PROVE  /\ backups'[j] = "running" <=> (Carriers(j)' # {} \/ Reports(j)' # {})
               /\ Carriers(j)' = {} \/ Reports(j)' = {}
               /\ AtMostOne(Carriers(j)')
               /\ AtMostOne(Reports(j)')
    <3>1. Carriers(j)' = Carriers(j)
      BY <2>1 DEF Carriers
    <3>2. \A i \in Reports(j)' : i \in 1..Len(queue') /\ i + 1 \in Reports(j) /\ i + 1 # 1
      BY <1>2, <1>3 DEF Reports
    <3>3. CASE j = e.job
      <4>1. Reports(j)' = {}
        BY <2>6, <3>2, <3>3
      <4>2. QED
        BY <2>1, <2>6, <3>1, <3>3, <4>1 DEF AtMostOne
    <3>4. CASE j # e.job
      <4>1. ASSUME NEW i \in Reports(j) PROVE i - 1 \in Reports(j)'
        <5>1. i # 1
          BY <1>2, <3>4 DEF Reports
        <5>2. i - 1 \in 1..Len(queue') /\ (i - 1) + 1 = i
          BY <1>2, <5>1 DEF Reports
        <5>3. QED
          BY <1>2, <5>2 DEF Reports
      <4>2. (Reports(j)' = {} <=> Reports(j) = {}) /\ AtMostOne(Reports(j)')
        BY <1>1, <3>2, <4>1 DEF SingleFlight, AtMostOne
      <4>3. QED
        BY <1>1, <2>1, <3>1, <3>4, <4>2 DEF SingleFlight
    <3>5. QED
      BY <3>3, <3>4
  <2>8. SingleFlight'
    BY <2>7 DEF SingleFlight, AtMostOne
  <2>9. QED
    BY <2>2, <2>3, <2>4, <2>8 DEF IInv
<1>9. QED
  BY <1>7, <1>8 DEF Deliver, e

\* A thread that has left its event loop posts its own deletion.
LEMMA ThreadExitStep ==
    ASSUME IInv, NEW t \in Threads, ThreadExit(t)
    PROVE  IInv'
<1> DEFINE a == [type |-> "reap", thread |-> t]
           n == Len(queue)
<1>1. /\ TypeOK /\ ThreadsHaveJobs /\ QueueMatchesThreads /\ SingleFlight
      /\ queue \in Seq(Event) /\ thread[t].pc = "exiting" /\ Goto(t, "over")
      /\ UNCHANGED <<store, saving, backups>>
  BY DEF IInv, TypeOK, ThreadExit
<1>2. a \in Event /\ queue' = Append(queue, a) /\ a.type = "reap" /\ a.thread = t
  BY DEF ThreadExit, Event
<1> HIDE DEF a
<1>3. /\ queue' \in Seq(Event) /\ n \in Nat /\ Len(queue') = n + 1
      /\ \A i \in 1..n : queue'[i] = queue[i]
      /\ queue'[n + 1] = a
  BY <1>1, <1>2, OneMoreEvent
<1>4. /\ thread' \in [Threads -> ThreadState]
      /\ thread'[t].pc = "over" /\ thread'[t].job = thread[t].job
      /\ \A u \in Threads : u # t => thread'[u] = thread[u]
  BY <1>1, GotoThread DEF Pc
<1>5. TypeOK'
  BY <1>1, <1>3, <1>4 DEF TypeOK
<1>6. ThreadsHaveJobs'
  BY <1>1, <1>4 DEF ThreadsHaveJobs
<1>7. QueueMatchesThreads'
  <2>1. ASSUME NEW i \in 1..n, queue[i].type # "finished"
        PROVE  /\ queue[i].thread \in Threads /\ queue[i].thread # t
               /\ thread'[queue[i].thread] = thread[queue[i].thread]
    BY <1>1, <1>4, <2>1 DEF QueueMatchesThreads, Event
  <2>2. ASSUME NEW i \in 1..Len(queue')
        PROVE  /\ queue'[i].type = "quit" => thread'[queue'[i].thread].pc = "idle"
               /\ queue'[i].type = "reap" => thread'[queue'[i].thread].pc = "over"
    <3>1. i \in 1..n \/ i = n + 1
      BY <1>3
    <3>2. CASE i \in 1..n
      BY <1>1, <1>3, <2>1, <3>2 DEF QueueMatchesThreads
    <3>3. QED
      BY <1>2, <1>3, <1>4, <3>1, <3>2
  <2>3. ASSUME NEW i \in 1..Len(queue'), NEW k \in 1..Len(queue'),
               queue'[i].type # "finished", queue'[k].type # "finished",
               queue'[i].thread = queue'[k].thread
        PROVE  i = k
    <3>1. (i \in 1..n \/ i = n + 1) /\ (k \in 1..n \/ k = n + 1)
      BY <1>3
    <3>2. CASE i \in 1..n /\ k \in 1..n
      BY <1>1, <1>3, <2>3, <3>2 DEF QueueMatchesThreads
    <3>3. QED
      BY <1>2, <1>3, <2>1, <2>3, <3>1, <3>2
  <2>4. QED
    BY <2>2, <2>3 DEF QueueMatchesThreads
<1>8. SingleFlight'
  <2>1. \A j \in Jobs : Carriers(j)' = Carriers(j)
    BY <1>1, <1>4 DEF Carriers
  <2>2. \A j \in Jobs : Reports(j)' = Reports(j)
    BY <1>2, <1>3 DEF Reports
  <2>3. QED
    BY <1>1, <2>1, <2>2 DEF SingleFlight, AtMostOne
<1>9. QED
  BY <1>5, <1>6, <1>7, <1>8 DEF IInv

\* A start gives a job without a run exactly one.
LEMMA StartStep ==
    ASSUME IInv, NEW j \in Jobs, StartBackup(j)
    PROVE  IInv' /\ Carriers(j)' # {} /\ \A k \in Jobs \ {j} : Carriers(k)' = Carriers(k)
<1>1. /\ TypeOK /\ ThreadsHaveJobs /\ QueueMatchesThreads /\ SingleFlight
      /\ backups[j] # "running" /\ backups' = [backups EXCEPT ![j] = "running"]
      /\ UNCHANGED <<store, saving, queue>>
  BY DEF IInv, StartBackup
<1>2. PICK t \in Threads :
        /\ thread[t].pc = "free"
        /\ thread' = [thread EXCEPT ![t] = [job |-> j, pc |-> "starting"]]
  BY DEF StartBackup, StartThread
<1>3. /\ thread' \in [Threads -> ThreadState]
      /\ thread'[t].pc = "starting" /\ thread'[t].job = j
      /\ \A u \in Threads : u # t => thread'[u] = thread[u]
  BY <1>1, <1>2 DEF TypeOK, ThreadState, Pc
<1>4. TypeOK'
  BY <1>1, <1>3 DEF TypeOK, Status
<1>5. ThreadsHaveJobs'
  BY <1>1, <1>3 DEF ThreadsHaveJobs
<1>6. QueueMatchesThreads'
  <2>1. ASSUME NEW i \in 1..Len(queue), queue[i].type # "finished"
        PROVE  queue[i].thread \in Threads /\ queue[i].thread # t
    BY <1>1, <1>2, <2>1 DEF QueueMatchesThreads, Event, TypeOK
  <2>2. QED
    BY <1>1, <1>3, <2>1 DEF QueueMatchesThreads
<1>7. /\ Carriers(j)' = Carriers(j) \cup {t}
      /\ \A k \in Jobs \ {j} : Carriers(k)' = Carriers(k)
      /\ \A k \in Jobs : Reports(k)' = Reports(k)
  BY <1>1, <1>2, <1>3 DEF Carriers, Reports
<1>8. SingleFlight'
  <2>1. Carriers(j) = {} /\ Reports(j) = {}
    BY <1>1 DEF SingleFlight
  <2>2. /\ backups'[j] = "running"
        /\ \A k \in Jobs \ {j} : backups'[k] = backups[k]
    BY <1>1 DEF TypeOK
  <2>3. QED
    BY <1>1, <1>7, <2>1, <2>2 DEF SingleFlight, AtMostOne
<1>9. QED
  BY <1>4, <1>5, <1>6, <1>7, <1>8 DEF IInv

\* The worker that finds its job goes on carrying the run.
LEMMA ProcessStep ==
    ASSUME IInv, NEW t \in Threads, Process(t)
    PROVE  IInv' /\ \A j \in Jobs : Carriers(j)' = Carriers(j)
<1>1. /\ TypeOK /\ ThreadsHaveJobs /\ QueueMatchesThreads /\ SingleFlight
      /\ thread[t].pc = "starting" /\ Goto(t, "working")
      /\ UNCHANGED <<store, saving, backups, queue>>
  BY DEF IInv, Process
<1>2. /\ thread' \in [Threads -> ThreadState]
      /\ thread'[t].pc = "working" /\ thread'[t].job = thread[t].job
      /\ \A u \in Threads : u # t => thread'[u] = thread[u]
  BY <1>1, GotoThread DEF Pc
<1>3. TypeOK' /\ ThreadsHaveJobs'
  BY <1>1, <1>2 DEF TypeOK, ThreadsHaveJobs
<1>4. QueueMatchesThreads'
  <2>1. ASSUME NEW i \in 1..Len(queue), queue[i].type # "finished"
        PROVE  queue[i].thread \in Threads /\ queue[i].thread # t
    BY <1>1, <2>1 DEF QueueMatchesThreads, Event, TypeOK
  <2>2. QED
    BY <1>1, <1>2, <2>1 DEF QueueMatchesThreads
<1>5. \A j \in Jobs : Carriers(j)' = Carriers(j) /\ Reports(j)' = Reports(j)
  BY <1>1, <1>2 DEF Carriers, Reports
<1>6. SingleFlight'
  BY <1>1, <1>5 DEF SingleFlight, AtMostOne
<1>7. QED
  BY <1>3, <1>4, <1>5, <1>6 DEF IInv

\* Saving and removing a job file, and stuttering, touch no run.
LEMMA NoRunTouched ==
    ASSUME IInv, UNCHANGED <<backups, thread, queue>>, store' \subseteq Jobs,
           saving' \in Jobs \cup {NoJob}
    PROVE  IInv'
BY DEF IInv, TypeOK, ThreadsHaveJobs, QueueMatchesThreads, SingleFlight, Carriers, Reports, AtMostOne

\* A crash leaves no thread and no event.
LEMMA CrashStep ==
    ASSUME IInv, Crash
    PROVE  IInv' /\ \A j \in Jobs : Carriers(j)' = {} /\ Reports(j)' = {}
<1>1. /\ TypeOK /\ UNCHANGED store /\ saving' = NoJob
      /\ backups' = [j \in Jobs |-> "standby"]
      /\ thread' = [t \in Threads |-> NoThread] /\ queue' = <<>>
  BY DEF IInv, Crash
<1>2. TypeOK'
  BY <1>1 DEF TypeOK, Status, ThreadState, NoThread, Pc
<1>3. \A j \in Jobs : Carriers(j)' = {} /\ Reports(j)' = {}
  BY <1>1 DEF Carriers, Reports, NoThread
<1>4. ThreadsHaveJobs' /\ QueueMatchesThreads'
  BY <1>1 DEF ThreadsHaveJobs, QueueMatchesThreads, NoThread
<1>5. SingleFlight'
  BY <1>1, <1>3 DEF SingleFlight, AtMostOne
<1>6. QED
  BY <1>2, <1>3, <1>4, <1>5 DEF IInv

\* The inductive invariant holds in a daemon that has just started.
LEMMA InitInvariant == Init => IInv
<1> SUFFICES ASSUME Init PROVE IInv
  OBVIOUS
<1>1. TypeOK
  BY DEF Init, TypeOK, Status, ThreadState, NoThread, Pc
<1>2. \A j \in Jobs : Carriers(j) = {} /\ Reports(j) = {}
  BY DEF Init, Carriers, Reports, NoThread
<1>3. ThreadsHaveJobs /\ QueueMatchesThreads
  BY DEF Init, ThreadsHaveJobs, QueueMatchesThreads, NoThread
<1>4. SingleFlight
  BY <1>2 DEF Init, SingleFlight, AtMostOne
<1>5. QED
  BY <1>1, <1>3, <1>4 DEF IInv

\* Every step of the daemon preserves it.
LEMMA StepInvariant == IInv /\ [Next]_vars => IInv'
<1> SUFFICES ASSUME IInv, [Next]_vars PROVE IInv'
  OBVIOUS
<1>1. ASSUME NEW j \in Jobs, SaveBegin(j) \/ RemoveJob(j) PROVE IInv'
  BY <1>1, NoRunTouched DEF SaveBegin, RemoveJob, IInv, TypeOK
<1>2. ASSUME NEW j \in Jobs, StartBackup(j) PROVE IInv'
  BY <1>2, StartStep
<1>3. CASE SaveEnd
  BY <1>3, NoRunTouched DEF SaveEnd, IInv, TypeOK
<1>4. CASE Deliver
  BY <1>4, DeliverStep
<1>5. ASSUME NEW t \in Threads, WorkerStep(t) PROVE IInv'
  <2>1. CASE Process(t)
    BY <2>1, ProcessStep
  <2>2. CASE ProcessAborts(t)
    BY <2>2, EmitStep DEF ProcessAborts
  <2>3. CASE RunEnds(t)
    BY <2>3, EmitStep DEF RunEnds
  <2>4. CASE ThreadExit(t)
    BY <2>4, ThreadExitStep
  <2>5. QED
    BY <1>5, <2>1, <2>2, <2>3, <2>4 DEF WorkerStep
<1>6. CASE Crash
  BY <1>6, CrashStep
<1>7. CASE UNCHANGED vars
  BY <1>7, NoRunTouched DEF vars, IInv, TypeOK
<1>8. QED
  BY <1>1, <1>2, <1>3, <1>4, <1>5, <1>6, <1>7 DEF Next

\* So it always holds.
LEMMA Invariance == Spec => []IInv
BY InitInvariant, StepInvariant, PTL DEF Spec

\* The type invariant of the manager, its threads and its event queue.
THEOREM ManagerTypes == Spec => []TypeOK
<1>1. IInv => TypeOK
  BY DEF IInv
<1>2. QED
  BY <1>1, Invariance, PTL

\* A job has at most one run, and its status is "running" exactly while it has.
THEOREM OneRunPerJob == Spec => []SingleFlight
<1>1. IInv => SingleFlight
  BY DEF IInv
<1>2. QED
  BY <1>1, Invariance, PTL

\* No QThread is told to quit, or destroyed, at the wrong moment or twice.
THEOREM ThreadsEndInOrder == Spec => []QueueMatchesThreads
<1>1. IInv => QueueMatchesThreads
  BY DEF IInv
<1>2. QED
  BY <1>1, Invariance, PTL

-------------------------------------------------------------------------------
\* No thread is left waiting.

Posted(t, type) == \E i \in 1..Len(queue) : queue[i] = [type |-> type, thread |-> t]
Served(t) ==
    /\ thread[t].pc = "idle" => Posted(t, "quit")
    /\ thread[t].pc = "over" => Posted(t, "reap")

\* A thread that does not move is served as long as what was posted stays posted.
LEMMA ServedStays ==
    ASSUME NEW t \in Threads, Served(t), thread'[t].pc = thread[t].pc,
           \A type : Posted(t, type) => Posted(t, type)'
    PROVE  Served(t)'
BY DEF Served

\* What a worker posts comes behind what is in the queue, its own quit among it.
LEMMA EmitServes ==
    ASSUME IInv, NobodyStranded, NEW t \in Threads, thread[t].pc \in {"starting", "working"},
           NEW good \in BOOLEAN, Goto(t, "idle"), queue' = queue \o Finished(t, good)
    PROVE  NobodyStranded'
<1> DEFINE a == [type |-> "quit", thread |-> t]
           b == [type |-> "finished", job |-> thread[t].job, ok |-> good]
<1>1. TypeOK /\ ThreadsHaveJobs /\ queue \in Seq(Event)
  BY DEF IInv, TypeOK
<1>2. a \in Event /\ b \in Event /\ queue' = queue \o <<a, b>>
  BY <1>1, FinishedEvents DEF Finished
<1> HIDE DEF b
<1>3. /\ Len(queue) \in Nat /\ Len(queue') = Len(queue) + 2
      /\ \A i \in 1..Len(queue) : queue'[i] = queue[i]
      /\ queue'[Len(queue) + 1] = a
  BY <1>1, <1>2, TwoMoreEvents
<1>4. thread'[t].pc = "idle" /\ \A u \in Threads : u # t => thread'[u] = thread[u]
  BY <1>1, GotoThread DEF Pc
<1>5. Posted(t, "quit")'
  BY <1>3 DEF Posted
<1>6. ASSUME NEW u \in Threads PROVE Served(u)'
  <2>1. CASE u = t
    BY <1>4, <1>5, <2>1 DEF Served
  <2>2. CASE u # t
    <3>1. Served(u) /\ \A type : Posted(u, type) => Posted(u, type)'
      BY <1>3 DEF NobodyStranded, Served, Posted
    <3>2. QED
      BY <1>4, <2>2, <3>1, ServedStays
  <2>3. QED
    BY <2>1, <2>2
<1>7. QED
  BY <1>6 DEF NobodyStranded, Served, Posted

\* A QThread that ends posts its deleteLater.
LEMMA ExitServes ==
    ASSUME IInv, NobodyStranded, NEW t \in Threads, ThreadExit(t)
    PROVE  NobodyStranded'
<1> DEFINE a == [type |-> "reap", thread |-> t]
<1>1. /\ TypeOK /\ queue \in Seq(Event) /\ a \in Event
      /\ Goto(t, "over") /\ queue' = Append(queue, a)
  BY DEF IInv, TypeOK, ThreadExit, Event
<1>2. /\ Len(queue) \in Nat /\ Len(queue') = Len(queue) + 1
      /\ \A i \in 1..Len(queue) : queue'[i] = queue[i]
      /\ queue'[Len(queue) + 1] = a
  BY <1>1, OneMoreEvent
<1>3. thread'[t].pc = "over" /\ \A u \in Threads : u # t => thread'[u] = thread[u]
  BY <1>1, GotoThread DEF Pc
<1>4. Posted(t, "reap")'
  BY <1>2 DEF Posted
<1>5. ASSUME NEW u \in Threads PROVE Served(u)'
  <2>1. CASE u = t
    BY <1>3, <1>4, <2>1 DEF Served
  <2>2. CASE u # t
    <3>1. Served(u) /\ \A type : Posted(u, type) => Posted(u, type)'
      BY <1>2 DEF NobodyStranded, Served, Posted
    <3>2. QED
      BY <1>3, <2>2, <3>1, ServedStays
  <2>3. QED
    BY <2>1, <2>2
<1>6. QED
  BY <1>5 DEF NobodyStranded, Served, Posted

\* The event that is delivered is missed by no thread but the one it moves on.
LEMMA DeliverServes == ASSUME IInv, NobodyStranded, Deliver PROVE NobodyStranded'
<1> DEFINE e == Head(queue)
<1>1. TypeOK /\ queue \in Seq(Event) /\ queue # <<>> /\ queue' = Tail(queue)
  BY DEF IInv, TypeOK, Deliver
<1>2. /\ e = queue[1] /\ e \in Event /\ Len(queue) \in Nat \ {0}
      /\ Len(queue') = Len(queue) - 1
      /\ \A i \in 1..Len(queue') : queue'[i] = queue[i + 1]
  BY <1>1, TailOfQueue
<1>3. Quit(e) \/ OnBackupFinished(e) \/ Reap(e)
  BY DEF Deliver
<1> HIDE DEF e
<1>4. ASSUME NEW u \in Threads, NEW type, Posted(u, type), e # [type |-> type, thread |-> u]
      PROVE  Posted(u, type)'
  <2>1. PICK i \in 1..Len(queue) : queue[i] = [type |-> type, thread |-> u]
    BY <1>4 DEF Posted
  <2>2. i # 1 /\ i - 1 \in 1..Len(queue') /\ queue'[i - 1] = queue[i]
    BY <1>2, <1>4, <2>1
  <2>3. QED
    BY <2>1, <2>2 DEF Posted
<1>5. ASSUME NEW u \in Threads PROVE Served(u)'
  <2>1. Served(u)
    BY DEF NobodyStranded, Served, Posted
  <2>2. CASE e.type = "finished"
    <3>1. thread' = thread /\ \A type \in {"quit", "reap"} : e # [type |-> type, thread |-> u]
      BY <1>3, <2>2 DEF Quit, OnBackupFinished, Reap
    <3>2. QED
      BY <1>4, <2>1, <3>1 DEF Served
  <2>3. CASE e.type # "finished" /\ e.thread # u
    <3>1. e.thread \in Threads /\ thread'[u] = thread[u]
      BY <1>1, <1>2, <1>3, <2>3 DEF Event, Quit, OnBackupFinished, Reap, Goto, TypeOK
    <3>2. \A type : e # [type |-> type, thread |-> u]
      BY <2>3
    <3>3. QED
      BY <1>4, <2>1, <3>1, <3>2 DEF Served
  <2>4. CASE e.type # "finished" /\ e.thread = u
    <3>1. thread'[u].pc \in {"exiting", "free"}
      BY <1>1, <1>3, <2>4 DEF Quit, OnBackupFinished, Reap, Goto, TypeOK, ThreadState, NoThread
    <3>2. QED
      BY <3>1 DEF Served
  <2>5. QED
    BY <2>2, <2>3, <2>4
<1>6. QED
  BY <1>5 DEF NobodyStranded, Served, Posted

\* Every step leaves every thread somebody to move it.
LEMMA ServedStep == IInv /\ NobodyStranded /\ [Next]_vars => NobodyStranded'
<1> SUFFICES ASSUME IInv, NobodyStranded, [Next]_vars PROVE NobodyStranded'
  OBVIOUS
<1>1. CASE (\E j \in Jobs : SaveBegin(j) \/ RemoveJob(j)) \/ SaveEnd \/ UNCHANGED vars
  BY <1>1 DEF SaveBegin, RemoveJob, SaveEnd, vars, NobodyStranded
<1>2. ASSUME NEW j \in Jobs, StartBackup(j) PROVE NobodyStranded'
  <2>1. queue' = queue /\ \A u \in Threads : thread'[u] = thread[u] \/ thread'[u].pc = "starting"
    BY <1>2 DEF StartBackup, StartThread, IInv, TypeOK
  <2>2. QED
    BY <2>1 DEF NobodyStranded
<1>3. ASSUME NEW t \in Threads, WorkerStep(t) PROVE NobodyStranded'
  <2>1. CASE Process(t)
    <3>1. queue' = queue /\ \A u \in Threads : thread'[u] = thread[u] \/ thread'[u].pc = "working"
      BY <2>1, GotoThread DEF Process, IInv, Pc
    <3>2. QED
      BY <3>1 DEF NobodyStranded
  <2>2. CASE ProcessAborts(t) \/ RunEnds(t)
    <3>1. thread[t].pc \in {"starting", "working"} /\ Goto(t, "idle")
      BY <2>2 DEF ProcessAborts, RunEnds
    <3>2. PICK good \in BOOLEAN : queue' = queue \o Finished(t, good)
      BY <2>2 DEF ProcessAborts, RunEnds
    <3>3. QED
      BY <3>1, <3>2, EmitServes
  <2>3. QED
    BY <1>3, <2>1, <2>2, ExitServes DEF WorkerStep
<1>4. CASE Crash
  BY <1>4 DEF Crash, NobodyStranded, NoThread
<1>5. QED
  BY <1>1, <1>2, <1>3, <1>4, DeliverServes DEF Next

\* For any number of threads: whoever waits for an event has it in the queue.
THEOREM NoThreadIsStranded == Spec => []NobodyStranded
<1>1. Init => NobodyStranded
  BY DEF Init, NobodyStranded, NoThread
<1>2. QED
  BY <1>1, ServedStep, Invariance, PTL DEF Spec

-------------------------------------------------------------------------------
\* The manager implements JobLifecycle.  RunOf is what JobLifecycle calls work.

Runs == [j \in Jobs |-> RunOf(j)]

\* The run of a job is the same as long as the same threads carry it and its
\* reports say the same.
LEMMA SameRun ==
    ASSUME NEW j \in Jobs, Carriers(j)' = {} <=> Carriers(j) = {},
           Reports(j)' = {} <=> Reports(j) = {},
           (\E i \in Reports(j)' : queue'[i].ok) <=> (\E i \in Reports(j) : queue[i].ok)
    PROVE  RunOf(j)' = RunOf(j)
BY DEF RunOf

\* finished(good): the run of the thread's job ends with that outcome.
LEMMA EmitEnds ==
    ASSUME IInv, NEW t \in Threads, thread[t].pc \in {"starting", "working"}, NEW good \in BOOLEAN,
           Goto(t, "idle"), queue' = queue \o Finished(t, good), UNCHANGED <<store, saving, backups>>
    PROVE  \E j \in Jobs :
             /\ RunOf(j) = "active"
             /\ RunOf(j)' = IF good THEN "ok" ELSE "bad"
             /\ \A k \in Jobs \ {j} : RunOf(k)' = RunOf(k)
<1> DEFINE a == [type |-> "quit", thread |-> t]
           b == [type |-> "finished", job |-> thread[t].job, ok |-> good]
           n == Len(queue)
<1>1. /\ TypeOK /\ ThreadsHaveJobs /\ SingleFlight /\ queue \in Seq(Event)
      /\ thread[t].job \in Jobs
  BY DEF IInv, TypeOK, ThreadsHaveJobs
<1>2. a \in Event /\ b \in Event /\ queue' = queue \o <<a, b>>
  BY <1>1, FinishedEvents DEF Finished
<1>3. /\ n \in Nat /\ Len(queue') = n + 2
      /\ \A i \in 1..n : queue'[i] = queue[i]
      /\ queue'[n + 1] = a /\ queue'[n + 2] = b
  BY <1>1, <1>2, TwoMoreEvents
<1>4. /\ thread'[t].pc = "idle" /\ thread'[t].job = thread[t].job
      /\ \A u \in Threads : u # t => thread'[u] = thread[u]
  BY <1>1, GotoThread DEF Pc
<1>5. a.type = "quit" /\ b.type = "finished" /\ b.job = thread[t].job /\ b.ok = good
  OBVIOUS
<1> HIDE DEF a, b
<1>6. ASSUME NEW k \in Jobs \ {thread[t].job} PROVE RunOf(k)' = RunOf(k)
  <2>1. Carriers(k)' = Carriers(k) /\ Reports(k)' = Reports(k)
    BY <1>3, <1>4, <1>5 DEF Carriers, Reports
  <2>2. \A i \in Reports(k) : queue'[i] = queue[i]
    BY <1>3 DEF Reports
  <2>3. QED
    BY <2>1, <2>2, SameRun
<1>7. /\ t \in Carriers(thread[t].job) /\ Reports(thread[t].job) = {}
      /\ Carriers(thread[t].job) = {t}
  BY <1>1 DEF Carriers, SingleFlight, AtMostOne
<1>8. ASSUME NEW j \in Jobs, j = thread[t].job
      PROVE  RunOf(j) = "active" /\ RunOf(j)' = IF good THEN "ok" ELSE "bad"
  <2>1. Carriers(j)' = {}
    BY <1>4, <1>7, <1>8 DEF Carriers
  <2>2. Reports(j)' = {n + 2}
    BY <1>3, <1>5, <1>7, <1>8 DEF Reports
  <2>3. queue'[n + 2].ok = good
    BY <1>3, <1>5
  <2>4. RunOf(j)' = IF \E i \in Reports(j)' : queue'[i].ok THEN "ok" ELSE "bad"
    BY <2>1, <2>2 DEF RunOf
  <2>5. QED
    BY <1>7, <1>8, <2>2, <2>3, <2>4 DEF RunOf
<1>9. QED
  BY <1>1, <1>6, <1>8

\* What taking the oldest event off the queue does to the reports of a job.
LEMMA ReportsAfterTail ==
    ASSUME IInv, queue # <<>>, queue' = Tail(queue), NEW j \in Jobs
    PROVE  /\ \A i \in Reports(j)' : i + 1 \in Reports(j) /\ queue'[i] = queue[i + 1] /\ i + 1 # 1
           /\ \A i \in Reports(j) : i # 1 => i - 1 \in Reports(j)' /\ queue'[i - 1] = queue[i]
<1>1. /\ Len(queue) \in Nat \ {0} /\ Len(queue') = Len(queue) - 1
      /\ \A i \in 1..Len(queue') : queue'[i] = queue[i + 1]
  BY TailOfQueue DEF IInv, TypeOK
<1>2. \A i \in Reports(j)' : i + 1 \in Reports(j) /\ queue'[i] = queue[i + 1] /\ i + 1 # 1
  BY <1>1 DEF Reports
<1>3. ASSUME NEW i \in Reports(j), i # 1 PROVE i - 1 \in Reports(j)' /\ queue'[i - 1] = queue[i]
  <2>1. i - 1 \in 1..Len(queue') /\ (i - 1) + 1 = i
    BY <1>1, <1>3 DEF Reports
  <2>2. QED
    BY <1>1, <2>1 DEF Reports
<1>4. QED
  BY <1>2, <1>3

\* A delivered quit or deletion changes no job's run ...
LEMMA HousekeepingKeepsRuns ==
    ASSUME IInv, Deliver, Quit(Head(queue)) \/ Reap(Head(queue)), NEW j \in Jobs
    PROVE  RunOf(j)' = RunOf(j)
<1> DEFINE e == Head(queue)
<1>1. /\ queue # <<>> /\ queue' = Tail(queue) /\ e = queue[1] /\ e \in Event /\ Len(queue) \in Nat \ {0}
      /\ TypeOK /\ QueueMatchesThreads
  BY TailOfQueue DEF IInv, TypeOK, Deliver
<1> HIDE DEF e
<1>2. Quit(e) \/ Reap(e)
  BY DEF e
<1>3. e.type \in {"quit", "reap"} /\ e.thread \in Threads /\ thread[e.thread].pc \in {"idle", "over"}
  BY <1>1, <1>2 DEF Quit, Reap, Event, QueueMatchesThreads
<1>4. Carriers(j)' = Carriers(j)
  <2>1. /\ \A u \in Threads : u # e.thread => thread'[u] = thread[u]
        /\ thread'[e.thread].pc \in {"exiting", "free"}
    BY <1>1, <1>2, <1>3, GotoThread DEF Quit, Reap, TypeOK, NoThread, Pc
  <2>2. QED
    BY <1>3, <2>1 DEF Carriers
<1>5. \A i \in Reports(j) : i # 1
  BY <1>1, <1>3 DEF Reports
<1>6. QED
  BY <1>1, <1>4, <1>5, ReportsAfterTail, SameRun

\* ... and a delivered outcome ends the reporting of the run it belongs to.
LEMMA FinishedReports ==
    ASSUME IInv, Deliver, OnBackupFinished(Head(queue))
    PROVE  \E j \in Jobs :
             /\ RunOf(j) \in {"ok", "bad"} /\ RunOf(j)' = "none"
             /\ backups' = [backups EXCEPT ![j] = IF RunOf(j) = "ok" THEN "finished" ELSE "failed"]
             /\ \A k \in Jobs \ {j} : RunOf(k)' = RunOf(k)
<1> DEFINE e == Head(queue)
<1>1. /\ queue # <<>> /\ queue' = Tail(queue) /\ e = queue[1] /\ e \in Event /\ Len(queue) \in Nat \ {0}
      /\ SingleFlight
  BY TailOfQueue DEF IInv, TypeOK, Deliver
<1> HIDE DEF e
<1>2. /\ e.type = "finished" /\ e.job \in Jobs /\ e.ok \in BOOLEAN /\ UNCHANGED thread
      /\ backups' = [backups EXCEPT ![e.job] = IF e.ok THEN "finished" ELSE "failed"]
  BY <1>1 DEF OnBackupFinished, Event, e
<1>3. \A k \in Jobs : Carriers(k)' = Carriers(k)
  BY <1>2 DEF Carriers
<1>4. ASSUME NEW j \in Jobs, j = e.job
      PROVE  RunOf(j) = (IF e.ok THEN "ok" ELSE "bad") /\ RunOf(j)' = "none"
  <2>1. 1 \in Reports(j)
    BY <1>1, <1>2, <1>4 DEF Reports
  <2>2. Reports(j) = {1} /\ Carriers(j) = {}
    BY <1>1, <2>1 DEF SingleFlight, AtMostOne
  <2>3. RunOf(j) = IF e.ok THEN "ok" ELSE "bad"
    BY <1>1, <2>2 DEF RunOf
  <2>4. \A i \in Reports(j)' : i + 1 \in Reports(j) /\ i + 1 # 1
    BY <1>1, ReportsAfterTail
  <2>5. Reports(j)' = {}
    BY <2>2, <2>4
  <2>6. Carriers(j)' = {}
    BY <1>3, <2>2
  <2>7. QED
    BY <2>3, <2>5, <2>6 DEF RunOf
<1>5. ASSUME NEW k \in Jobs, k # e.job PROVE RunOf(k)' = RunOf(k)
  <2>1. \A i \in Reports(k) : i # 1
    BY <1>1, <1>5 DEF Reports
  <2>2. /\ \A i \in Reports(k)' : i + 1 \in Reports(k) /\ queue'[i] = queue[i + 1]
        /\ \A i \in Reports(k) : i - 1 \in Reports(k)' /\ queue'[i - 1] = queue[i]
    BY <1>1, <2>1, ReportsAfterTail
  <2>3. Reports(k)' = {} <=> Reports(k) = {}
    BY <2>2
  <2>4. (\E i \in Reports(k)' : queue'[i].ok) <=> (\E i \in Reports(k) : queue[i].ok)
    BY <2>2
  <2>5. QED
    BY <1>3, <2>3, <2>4, SameRun
<1>6. ASSUME NEW j \in Jobs, j = e.job
      PROVE  /\ RunOf(j) \in {"ok", "bad"} /\ RunOf(j)' = "none"
             /\ backups' = [backups EXCEPT ![j] = IF RunOf(j) = "ok" THEN "finished" ELSE "failed"]
             /\ \A k \in Jobs \ {j} : RunOf(k)' = RunOf(k)
  <2>1. RunOf(j) = (IF e.ok THEN "ok" ELSE "bad") /\ RunOf(j)' = "none"
    BY <1>4, <1>6
  <2>2. backups' = [backups EXCEPT ![j] = IF RunOf(j) = "ok" THEN "finished" ELSE "failed"]
    BY <1>2, <1>6, <2>1
  <2>3. QED
    BY <1>5, <1>6, <2>1, <2>2
<1>7. QED
  BY <1>2, <1>6

\* What the daemon's steps are in the life cycle: a start, an end, a report, a
\* restart, or nothing at all.
LEMMA RefinementStep ==
    ASSUME IInv, [Next]_vars
    PROVE  [Lifecycle!Next]_Lifecycle!vars
<1> USE DEF Lifecycle!vars, Lifecycle!Next
<1>1. ASSUME UNCHANGED backups, \A k \in Jobs : RunOf(k)' = RunOf(k)
      PROVE  UNCHANGED Lifecycle!vars
  BY <1>1
<1>2. ASSUME UNCHANGED <<backups, thread, queue>> PROVE UNCHANGED Lifecycle!vars
  BY <1>1, <1>2 DEF RunOf, Carriers, Reports
<1>3. CASE SaveEnd \/ \E j \in Jobs : SaveBegin(j) \/ RemoveJob(j)
  BY <1>2, <1>3 DEF SaveBegin, RemoveJob, SaveEnd
<1>4. ASSUME NEW j \in Jobs, StartBackup(j) PROVE Lifecycle!Start(j)
  <2>1. /\ backups[j] # "running" /\ backups' = [backups EXCEPT ![j] = "running"] /\ UNCHANGED queue
    BY <1>4 DEF StartBackup
  <2>2. Carriers(j) = {} /\ Reports(j) = {}
    BY <2>1 DEF IInv, SingleFlight
  <2>3. RunOf(j) = "none" /\ RunOf(j)' = "active"
    BY <1>4, <2>2, StartStep DEF RunOf
  <2>4. \A k \in Jobs \ {j} : RunOf(k)' = RunOf(k)
    <3>1. \A k \in Jobs : Reports(k)' = Reports(k)
      BY <2>1 DEF Reports
    <3>2. QED
      BY <1>4, <2>1, <3>1, StartStep, SameRun
  <2>5. Runs' = [Runs EXCEPT ![j] = "active"]
    BY <2>3, <2>4 DEF Runs
  <2>6. QED
    BY <2>1, <2>3, <2>5 DEF Lifecycle!Start, Runs
<1>5. ASSUME NEW t \in Threads, Process(t) PROVE UNCHANGED Lifecycle!vars
  <2>1. UNCHANGED <<backups, queue>>
    BY <1>5 DEF Process
  <2>2. \A k \in Jobs : Reports(k)' = Reports(k) /\ Carriers(k)' = Carriers(k)
    BY <1>5, <2>1, ProcessStep DEF Reports
  <2>3. QED
    BY <1>1, <2>1, <2>2, SameRun
<1>6. ASSUME NEW t \in Threads, ProcessAborts(t) \/ RunEnds(t)
      PROVE  \E j \in Jobs : Lifecycle!End(j)
  <2>1. UNCHANGED backups
    BY <1>6 DEF ProcessAborts, RunEnds
  <2>2. PICK j \in Jobs :
             /\ RunOf(j) = "active" /\ RunOf(j)' \in {"ok", "bad"}
             /\ \A k \in Jobs \ {j} : RunOf(k)' = RunOf(k)
    BY <1>6, EmitEnds DEF ProcessAborts, RunEnds
  <2>3. Runs' = [Runs EXCEPT ![j] = RunOf(j)']
    BY <2>2 DEF Runs
  <2>4. QED
    BY <2>1, <2>2, <2>3 DEF Lifecycle!End, Runs
<1>7. ASSUME NEW t \in Threads, ThreadExit(t) PROVE UNCHANGED Lifecycle!vars
  <2>1. /\ TypeOK /\ UNCHANGED backups /\ thread[t].pc = "exiting" /\ Goto(t, "over")
        /\ [type |-> "reap", thread |-> t] \in Event
        /\ queue' = Append(queue, [type |-> "reap", thread |-> t])
    BY <1>7 DEF ThreadExit, IInv, Event
  <2>2. /\ Len(queue) \in Nat /\ Len(queue') = Len(queue) + 1
        /\ \A i \in 1..Len(queue) : queue'[i] = queue[i]
        /\ queue'[Len(queue) + 1].type = "reap"
    BY <2>1, OneMoreEvent DEF TypeOK
  <2>3. thread'[t].pc = "over" /\ \A u \in Threads : u # t => thread'[u] = thread[u]
    BY <2>1, GotoThread DEF Pc
  <2>4. ASSUME NEW k \in Jobs PROVE RunOf(k)' = RunOf(k)
    <3>1. Carriers(k)' = Carriers(k)
      BY <2>1, <2>3 DEF Carriers
    <3>2. Reports(k)' = Reports(k) /\ \A i \in Reports(k) : queue'[i] = queue[i]
      BY <2>2 DEF Reports
    <3>3. QED
      BY <3>1, <3>2, SameRun
  <2>5. QED
    BY <1>1, <2>1, <2>4
<1>8. CASE Deliver
  <2>1. CASE Quit(Head(queue)) \/ Reap(Head(queue))
    <3>1. UNCHANGED backups
      BY <2>1 DEF Quit, Reap
    <3>2. QED
      BY <1>1, <1>8, <2>1, <3>1, HousekeepingKeepsRuns
  <2>2. CASE OnBackupFinished(Head(queue))
    <3>1. PICK j \in Jobs :
             /\ RunOf(j) \in {"ok", "bad"} /\ RunOf(j)' = "none"
             /\ backups' = [backups EXCEPT ![j] = IF RunOf(j) = "ok" THEN "finished" ELSE "failed"]
             /\ \A k \in Jobs \ {j} : RunOf(k)' = RunOf(k)
      BY <1>8, <2>2, FinishedReports
    <3>2. Runs' = [Runs EXCEPT ![j] = "none"]
      BY <3>1 DEF Runs
    <3>3. Lifecycle!Report(j)
      BY <3>1, <3>2 DEF Lifecycle!Report, Runs
    <3>4. QED
      BY <3>3
  <2>3. QED
    BY <1>8, <2>1, <2>2 DEF Deliver
<1>9. CASE Crash
  <2>1. \A k \in Jobs : RunOf(k)' = "none"
    BY <1>9, CrashStep DEF RunOf
  <2>2. QED
    BY <1>9, <2>1 DEF Crash, Lifecycle!Restart
<1>10. CASE UNCHANGED vars
  BY <1>2, <1>10 DEF vars
<1>11. CASE \E j \in Jobs : StartBackup(j)
  BY <1>4, <1>11
<1>12. CASE \E t \in Threads : WorkerStep(t)
  BY <1>5, <1>6, <1>7, <1>12 DEF WorkerStep
<1>13. QED
  <2> HIDE DEF Lifecycle!vars, Lifecycle!Next
  <2>1. QED
    BY <1>3, <1>8, <1>9, <1>10, <1>11, <1>12 DEF Next

\* Whatever the threads and the event queue do, a reader of the status sees the
\* life cycle of JobLifecycle: one run at a time, its own outcome, reported once.
THEOREM ManagerImplementsLifecycle == Spec => ImplementsLifecycle
<1>1. Init => Lifecycle!Init
  <2> SUFFICES ASSUME Init PROVE Lifecycle!Init
    OBVIOUS
  <2>1. \A k \in Jobs : RunOf(k) = "none"
    BY DEF Init, RunOf, Carriers, Reports, NoThread
  <2>2. QED
    BY <2>1 DEF Init, Lifecycle!Init
<1>2. IInv /\ [Next]_vars => [Lifecycle!Next]_Lifecycle!vars
  BY RefinementStep
<1>3. QED
  BY <1>1, <1>2, Invariance, PTL DEF Spec, ImplementsLifecycle, Lifecycle!Spec
===============================================================================

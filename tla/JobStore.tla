-------------------------------- MODULE JobStore --------------------------------
(***************************************************************************)
(* tiConfBackupJobs: one file per job, <name>.conf, that also holds the     *)
(* job's name.  Saving, renaming and removing happen in the main thread, a  *)
(* save step by step (remove the file, set key after key, sync).  Every     *)
(* worker looks its job up with an object of its own: it lists the          *)
(* directory, opens file after file and reads key after key.  There is no   *)
(* lock, and the QSettings objects of one process share what is in memory   *)
(* of a file: an object that is constructed first syncs it.                 *)
(***************************************************************************)
EXTENDS SshTargets

CONSTANTS
    Names,      \* names of jobs; a file is called by the name, too
    Threads,    \* threads that look jobs up
    Main,       \* the thread that saves; it may look jobs up between two saves
    Given,      \* the jobs that are saved
    NoJob       \* no job

Files == Names

\* The keys, and the groups they are in, in the order in which they are set and read:
\* "folders" stands for all that lies between the job and ssh groups, "ssh" for the
\* array and the groups after it.  (An array is seen when its size is set, by endArray.)
Keys == {"name", "partition_uuid", "folders", "ssh"}
Groups == <<{"name", "partition_uuid"}, {"folders"}, {"ssh"}>>

\* What value() answers for each key of an absent or empty file.
Empty == [k \in Keys |-> IF k = "ssh" THEN <<>> ELSE ""]

-------------------------------------------------------------------------------
Encode(job) == [job EXCEPT !.ssh = Flatten(@)]
Decode(content) == [content EXCEPT !.ssh = Regroup(@)]

\* However the targets are arranged.
SameJob(a, b) ==
    /\ \A k \in Keys \ {"ssh"} : a[k] = b[k]
    /\ Legs(a.ssh) = Legs(b.ssh)

Jobs == [name : Names, partition_uuid : STRING, folders : STRING, ssh : Targets]

ASSUME StoreAssumption ==
    /\ "" \notin Names
    /\ NoJob \notin Jobs
    /\ Given \subseteq Jobs

-------------------------------------------------------------------------------
VARIABLES
    exist,    \* the files that are in the directory
    disk,     \* file -> its content, Empty where there is no file
    mem,      \* file -> what the QSettings objects on it see
    dirty,    \* files with keys set and not yet written
    saving,   \* the job the main thread is saving, NoJob if none
    next,     \* index into Groups: what to set next; 0: the object is to be constructed
    look,     \* thread -> its lookup: [at, todo, file, group, job]
    jobs,     \* thread -> file -> the job read from it (the list tiConfBackupJobs::jobs)
    answer,   \* thread -> the jobs its lookup returned
    stored,   \* file -> the job that a finished save left there (history)
    hurt,     \* files whose save a crash cut short (history)
    touched   \* thread -> files changed since its lookup began (history)

files == <<exist, disk, mem, dirty>>
main == <<saving, next>>
lookups == <<look, jobs, answer>>
history == <<stored, hurt, touched>>
vars == <<files, main, lookups, history>>

NoLook == [at |-> "idle", todo |-> {}, file |-> "", group |-> 0, job |-> Empty]

Init ==
    /\ exist = {}
    /\ disk = [f \in Files |-> Empty]
    /\ mem = [f \in Files |-> Empty]
    /\ dirty = {}
    /\ saving = NoJob
    /\ next = 0
    /\ look = [t \in Threads |-> NoLook]
    /\ jobs = [t \in Threads |-> [f \in Files |-> NoJob]]
    /\ answer = [t \in Threads |-> {}]
    /\ stored = [f \in Files |-> NoJob]
    /\ hurt = {}
    /\ touched = [t \in Threads |-> {}]

\* The main thread is in no call of the store.
MainFree == saving = NoJob /\ (Main \in Threads => look[Main].at \in {"idle", "done"})

Touch(fs) ==
    touched' = [t \in Threads |-> IF look[t].at = "idle" THEN {} ELSE touched[t] \cup fs]

\* QSettings::sync, also made by the constructor: keys not yet written are written,
\* whoever set them; otherwise the file is read again, an absent one as empty.
Sync(f) ==
    IF f \in dirty
       THEN /\ disk' = [disk EXCEPT ![f] = mem[f]]
            /\ exist' = exist \cup {f}
            /\ dirty' = dirty \ {f}
            /\ UNCHANGED mem
       ELSE /\ mem' = [mem EXCEPT ![f] = disk[f]]
            /\ UNCHANGED <<exist, disk, dirty>>

\* The keys of a group, of one content put into another.
Copy(group, from, to) == [k \in Keys |-> IF k \in group THEN from[k] ELSE to[k]]

-------------------------------------------------------------------------------
\* saveBackupJob.

\* Mutant: the file of the last save is kept and its keys are set anew.
SaveBeginKeeping(job) ==
    /\ MainFree
    /\ saving' = job
    /\ next' = 0
    /\ stored' = [stored EXCEPT ![job.name] = NoJob]
    /\ hurt' = hurt \ {job.name}
    /\ Touch({job.name})
    /\ UNCHANGED <<files, lookups>>

\* if(QFile::exists(filename)) QFile::remove(filename)
SaveBegin(job) ==
    /\ MainFree
    /\ saving' = job
    /\ next' = 0
    /\ exist' = exist \ {job.name}
    /\ disk' = [disk EXCEPT ![job.name] = Empty]
    /\ stored' = [stored EXCEPT ![job.name] = NoJob]
    /\ hurt' = hurt \ {job.name}
    /\ Touch({job.name})
    /\ UNCHANGED <<mem, dirty, lookups>>

SaveOpen ==
    /\ saving # NoJob
    /\ next = 0
    /\ next' = 1
    /\ Sync(saving.name)
    /\ UNCHANGED <<saving, lookups, history>>

\* Mutant: the last group is forgotten when a job has folders.
SaveSetForgetting ==
    /\ saving # NoJob
    /\ next \in 1..Len(Groups)
    /\ next' = IF next = 2 /\ saving.folders # "" THEN next + 2 ELSE next + 1
    /\ mem' = [mem EXCEPT ![saving.name] = Copy(Groups[next], Encode(saving), @)]
    /\ dirty' = dirty \cup {saving.name}
    /\ UNCHANGED <<exist, disk, saving, lookups, history>>

\* f->setValue(...): seen by every object on the file at once.
SaveSet ==
    /\ saving # NoJob
    /\ next \in 1..Len(Groups)
    /\ next' = next + 1
    /\ mem' = [mem EXCEPT ![saving.name] = Copy(Groups[next], Encode(saving), @)]
    /\ dirty' = dirty \cup {saving.name}
    /\ UNCHANGED <<exist, disk, saving, lookups, history>>

\* Mutant: next stays where the save left it.
SaveSyncNoReset ==
    /\ saving # NoJob
    /\ next = Len(Groups) + 1
    /\ Sync(saving.name)
    /\ saving' = NoJob
    /\ stored' = [stored EXCEPT ![saving.name] = saving]
    /\ Touch({saving.name})
    /\ UNCHANGED <<next, lookups, hurt>>

\* f->sync()
SaveSync ==
    /\ saving # NoJob
    /\ next = Len(Groups) + 1
    /\ Sync(saving.name)
    /\ saving' = NoJob
    /\ next' = 0
    /\ stored' = [stored EXCEPT ![saving.name] = saving]
    /\ Touch({saving.name})
    /\ UNCHANGED <<lookups, hurt>>

-------------------------------------------------------------------------------
\* removeJobByName and renameJob: by the name of the file.

RemoveJob(f) ==
    /\ MainFree
    /\ f \in exist
    /\ exist' = exist \ {f}
    /\ disk' = [disk EXCEPT ![f] = Empty]
    /\ stored' = [stored EXCEPT ![f] = NoJob]
    /\ hurt' = hurt \ {f}
    /\ Touch({f})
    /\ UNCHANGED <<mem, dirty, main, lookups>>

\* QFile::rename does not overwrite; the name inside the file stays what it was.
RenameJob(f, g) ==
    /\ MainFree
    /\ f \in exist
    /\ g \notin exist
    /\ exist' = (exist \ {f}) \cup {g}
    /\ disk' = [disk EXCEPT ![f] = Empty, ![g] = disk[f]]
    /\ stored' = [stored EXCEPT ![f] = NoJob, ![g] = stored[f]]
    /\ hurt' = IF f \in hurt THEN (hurt \ {f}) \cup {g} ELSE hurt
    /\ Touch({f, g})
    /\ UNCHANGED <<mem, dirty, main, lookups>>

-------------------------------------------------------------------------------
\* readBackupJobs with the accessors that call it.

\* Mutant: the entries of the last call are kept.
LookBeginKeeping(t) ==
    /\ look[t].at \in {"idle", "done"}
    /\ t = Main => saving = NoJob
    /\ look' = [look EXCEPT ![t] =
                   [NoLook EXCEPT !.at = "scan", !.todo = exist]]
    /\ answer' = [answer EXCEPT ![t] = {}]
    /\ touched' = [touched EXCEPT ![t] = IF saving = NoJob THEN {} ELSE {saving.name}]
    /\ UNCHANGED <<files, main, jobs, stored, hurt>>

\* jobs.clear(), and the directory is listed.
LookBegin(t) ==
    /\ look[t].at \in {"idle", "done"}
    /\ t = Main => saving = NoJob
    /\ look' = [look EXCEPT ![t] =
                   [NoLook EXCEPT !.at = "scan", !.todo = exist]]
    /\ jobs' = [jobs EXCEPT ![t] = [f \in Files |-> NoJob]]
    /\ answer' = [answer EXCEPT ![t] = {}]
    /\ touched' = [touched EXCEPT ![t] = IF saving = NoJob THEN {} ELSE {saving.name}]
    /\ UNCHANGED <<files, main, stored, hurt>>

\* The QSettings object of the next file; the file may be gone by now.
LookOpen(t, f) ==
    /\ look[t].at = "scan"
    /\ f \in look[t].todo
    /\ look' = [look EXCEPT ![t] =
                   [at |-> "read", todo |-> @.todo \ {f}, file |-> f, group |-> 1, job |-> Empty]]
    /\ Sync(f)
    /\ UNCHANGED <<main, jobs, answer, history>>

\* f->value(...), one group after the other.
LookGroup(t) ==
    /\ look[t].at = "read"
    /\ look[t].group \in 1..Len(Groups)
    /\ look' = [look EXCEPT ![t].job = Copy(Groups[look[t].group], mem[look[t].file], @),
                           ![t].group = @ + 1]
    /\ UNCHANGED <<files, main, jobs, answer, history>>

\* jobs.append(job), whatever was in the file.
LookAppend(t) ==
    /\ look[t].at = "read"
    /\ look[t].group = Len(Groups) + 1
    /\ jobs' = [jobs EXCEPT ![t][look[t].file] = Decode(look[t].job)]
    /\ look' = [look EXCEPT ![t] = [NoLook EXCEPT !.at = "scan", !.todo = look[t].todo]]
    /\ UNCHANGED <<files, main, answer, history>>

Read(t) == {jobs[t][f] : f \in Files} \ {NoJob}

LookEnds(t) == look[t].at = "scan" /\ look[t].todo = {}

Answers(t, set) ==
    /\ answer' = [answer EXCEPT ![t] = set]
    /\ look' = [look EXCEPT ![t].at = "done"]
    /\ UNCHANGED <<files, main, jobs, history>>

GetJobs(t) == LookEnds(t) /\ Answers(t, Read(t))

GetJobsByUuid(t, uuid) ==
    LookEnds(t) /\ Answers(t, {job \in Read(t) : job.partition_uuid = uuid})

\* The first in the order of the directory, which may be any.
GetJobByName(t, name) ==
    LET found == {job \in Read(t) : job.name = name} IN
    /\ LookEnds(t)
    /\ IF found = {} THEN Answers(t, {}) ELSE \E job \in found : Answers(t, {job})

\* The caller is done with the answer and with its store.
Leave(t) ==
    /\ look[t].at = "done"
    /\ look' = [look EXCEPT ![t] = NoLook]
    /\ jobs' = [jobs EXCEPT ![t] = [f \in Files |-> NoJob]]
    /\ answer' = [answer EXCEPT ![t] = {}]
    /\ touched' = [touched EXCEPT ![t] = {}]
    /\ UNCHANGED <<files, main, stored, hurt>>

-------------------------------------------------------------------------------
\* The daemon dies: what is in memory is gone, keys not yet written with it.
Crash ==
    /\ mem' = [f \in Files |-> Empty]
    /\ dirty' = {}
    /\ saving' = NoJob
    /\ next' = 0
    /\ look' = [t \in Threads |-> NoLook]
    /\ jobs' = [t \in Threads |-> [f \in Files |-> NoJob]]
    /\ answer' = [t \in Threads |-> {}]
    /\ touched' = [t \in Threads |-> {}]
    /\ hurt' = IF saving # NoJob THEN hurt \cup {saving.name} ELSE hurt
    /\ UNCHANGED <<exist, disk, stored>>

Uuids == {job.partition_uuid : job \in Given}

LookStep(t) ==
    \/ LookBegin(t) \/ LookGroup(t) \/ LookAppend(t) \/ Leave(t)
    \/ \E f \in Files : LookOpen(t, f)
    \/ GetJobs(t)
    \/ \E uuid \in Uuids : GetJobsByUuid(t, uuid)
    \/ \E name \in Names : GetJobByName(t, name)

Next ==
    \/ \E job \in Given : SaveBegin(job)
    \/ SaveOpen \/ SaveSet \/ SaveSync
    \/ \E f \in Files : RemoveJob(f)
    \/ \E f, g \in Files : RenameJob(f, g)
    \/ \E t \in Threads : LookStep(t)
    \/ Crash

Spec == Init /\ [][Next]_vars

-------------------------------------------------------------------------------
\* Properties.

IsContent(c) == c = [k \in Keys |-> c[k]]

FileTypes ==
    /\ exist \subseteq Files /\ dirty \subseteq Files
    /\ disk = [f \in Files |-> disk[f]] /\ mem = [f \in Files |-> mem[f]]
    /\ \A f \in Files : IsContent(disk[f]) /\ IsContent(mem[f])

MainTypes ==
    /\ saving \in Given \cup {NoJob}
    /\ next \in 0..(Len(Groups) + 1)
    /\ saving = NoJob => next = 0

LookTypes ==
    /\ DOMAIN look = Threads
    /\ \A t \in Threads :
          /\ DOMAIN look[t] = {"at", "todo", "file", "group", "job"}
          /\ look[t].at \in {"idle", "scan", "read", "done"}
          /\ look[t].todo \subseteq Files
          /\ look[t].at = "read" => look[t].file \in Files /\ look[t].group # 0
          /\ look[t].group \in 0..(Len(Groups) + 1)
          /\ IsContent(look[t].job)
    /\ DOMAIN jobs = Threads
    /\ \A t \in Threads : DOMAIN jobs[t] = Files

HistoryTypes ==
    /\ stored \in [Files -> Given \cup {NoJob}]
    /\ hurt \subseteq Files
    /\ touched \in [Threads -> SUBSET Files]

\* The type invariant.
TypeOK == FileTypes /\ MainTypes /\ LookTypes /\ HistoryTypes

\* A file never mixes two jobs, or the old and the new version of one: what is in it
\* is a job or a beginning of one (saveBackupJob removes the file before it sets the
\* keys, ticonf.cpp 225-228, and a lookup may write them before the save does).
IsPartOf(content, job) == \A k \in Keys : content[k] \in {Empty[k], Encode(job)[k]}
NeverMixed ==
    \A f \in exist : \E job \in Given : IsPartOf(disk[f], job)

\* A save that has ended leaves exactly its job in the file, and it stays until the
\* file is saved, renamed or removed again: lookups that write the half-set keys of
\* a save, a QSettings object left open on the removed file, other saves and crashes
\* in them notwithstanding (saveBackupJob, ticonf.cpp 218-313).
SavedIsWhole ==
    \A f \in Files \ hurt :
        (saving = NoJob \/ saving.name # f) =>
            IF stored[f] = NoJob
               THEN f \notin exist
               ELSE f \in exist /\ disk[f] = Encode(stored[f])

\* A lookup reads what is stored of every file that nobody changed while it ran: the
\* same job with the same legs per server, and no job where there is none
\* (readBackupJobs, ticonf.cpp 315-421, beside saves of other jobs).
UntouchedIsRead ==
    \A t \in Threads : look[t].at = "done" =>
        \A f \in Files \ (touched[t] \cup hurt) :
            IF stored[f] = NoJob
               THEN jobs[t][f] = NoJob
               ELSE jobs[t][f] # NoJob /\ SameJob(jobs[t][f], stored[f])

\* An accessor that runs while nobody saves, renames or removes anything answers just what is
\* stored, although every call lists the directory anew, into the list that the last call
\* filled: all jobs, those of a disk, and under a name one of that name whenever there is one
\* (getJobs, getJobsByUuid, getJobByName, ticonf.cpp 423-455, on readBackupJobs).
Quiet(t) == touched[t] = {} /\ hurt = {}
Stored == {stored[f] : f \in Files} \ {NoJob}
AreOf(set, wanted) == \A a \in set : \E b \in wanted : SameJob(a, b)
Cover(set, wanted) == \A b \in wanted : \E a \in set : SameJob(a, b)
QuietLookupsAreRight ==
    [][\A t \in Threads : Quiet(t) =>
          /\ GetJobs(t) => AreOf(answer'[t], Stored) /\ Cover(answer'[t], Stored)
          /\ \A uuid \in Uuids : GetJobsByUuid(t, uuid) =>
                LET wanted == {job \in Stored : job.partition_uuid = uuid}
                IN  AreOf(answer'[t], wanted) /\ Cover(answer'[t], wanted)
          /\ \A name \in Names : GetJobByName(t, name) =>
                LET wanted == {job \in Stored : job.name = name}
                IN  /\ AreOf(answer'[t], wanted)
                    /\ IF wanted = {} THEN answer'[t] = {}
                       ELSE \E a \in answer'[t] : answer'[t] = {a}]_vars

\* A job that a lookup by name returns is one that was saved, not a part of one:
\* ticonf.h 73-75 says that accessors return copies and that the class needs no mutex.
LookupIsWhole ==
    \A t \in Threads : look[t].at = "done" =>
        \A job \in answer[t] : job.name # "" => \E g \in Given : SameJob(job, g)
===============================================================================

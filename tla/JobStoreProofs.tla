---------------------------- MODULE JobStoreProofs ----------------------------
(***************************************************************************)
(* Theorems of JobStore: whatever lookups overlap a save, its file ends up   *)
(* whole and never mixes two jobs, and files nobody changes are read as they *)
(* were stored.  The inductive invariant says what the objects on the file   *)
(* being saved have in memory and what of it has reached the disk already,   *)
(* and how far each lookup has come with every file it can still rely on.    *)
(***************************************************************************)
EXTENDS JobStore, SshTargetsProofs, TLAPS

\* The keys of the groups before n, and a content in which just these are set.
Before(n) == UNION {Groups[i] : i \in 1..(n - 1)}
SetTo(job, n) == [k \in Keys |-> IF k \in Before(n) THEN Encode(job)[k] ELSE Empty[k]]

\* Only the save in progress has keys to write.
OneWriter == \A f \in dirty : saving # NoJob /\ saving.name = f

\* A file that does not exist reads as an empty one.
AbsentIsEmpty == \A f \in Files \ exist : disk[f] = Empty

\* The save in progress: what it has set is in memory, and on disk unless still to be
\* written.
SaveOnItsWay ==
    saving # NoJob =>
        /\ next \in {0, 1} => saving.name \notin exist \cup dirty
        /\ next # 0 => mem[saving.name] = SetTo(saving, next)
        /\ next \notin {0, 1} /\ saving.name \notin dirty =>
              saving.name \in exist /\ disk[saving.name] = mem[saving.name]

\* How far the lookup of t has come with a file that was not changed.
ReadSoFar(t, f) ==
    LET l == look[t] IN
    IF stored[f] = NoJob
       THEN f \notin l.todo /\ ~(l.at = "read" /\ l.file = f) /\ jobs[t][f] = NoJob
       ELSE \/ f \in l.todo
            \/ /\ f \notin l.todo /\ l.at = "read" /\ l.file = f
               /\ mem[f] = Encode(stored[f])
               /\ l.job = SetTo(stored[f], l.group)
            \/ /\ f \notin l.todo /\ ~(l.at = "read" /\ l.file = f)
               /\ jobs[t][f] = Decode(Encode(stored[f]))

LookOnItsWay ==
    \A t \in Threads : look[t].at # "idle" =>
        /\ saving # NoJob => saving.name \in touched[t]
        /\ look[t].at = "done" => look[t].todo = {}
        /\ \A f \in Files \ (touched[t] \cup hurt) : ReadSoFar(t, f)

StoreInv ==
    TypeOK /\ OneWriter /\ AbsentIsEmpty /\ SaveOnItsWay /\ NeverMixed /\ SavedIsWhole
IInv == StoreInv /\ LookOnItsWay

-------------------------------------------------------------------------------
\* The groups, one after the other, make up a job.
LEMMA GroupFacts ==
    /\ Len(Groups) = 3
    /\ Before(1) = {}
    /\ \A n \in 1..3 : Before(n + 1) = Before(n) \cup Groups[n] /\ Groups[n] \subseteq Keys
    /\ Before(4) = Keys
<1>1. Len(Groups) = 3 /\ Groups[1] = {"name", "partition_uuid"} /\ Groups[2] = {"folders"}
      /\ Groups[3] = {"ssh"}
  BY DEF Groups
<1>2. Before(1) = {}
  <2>1. 1..(1 - 1) = {}
    OBVIOUS
  <2>2. QED
    BY <2>1 DEF Before
<1>3. \A n \in 1..3 : Before(n + 1) = Before(n) \cup Groups[n]
  <2>1. ASSUME NEW n \in 1..3 PROVE Before(n + 1) = Before(n) \cup Groups[n]
    <3>1. 1..(n + 1 - 1) = 1..(n - 1) \cup {n}
      OBVIOUS
    <3>2. QED
      BY <3>1 DEF Before
  <2>2. QED
    BY <2>1
<1>4. Before(4) = Keys
  <2>1. Before(2) = Groups[1] /\ Before(3) = Before(2) \cup Groups[2] /\ Before(4) = Before(3) \cup Groups[3]
    <3>1. Before(1 + 1) = Before(1) \cup Groups[1] /\ Before(2 + 1) = Before(2) \cup Groups[2]
          /\ Before(3 + 1) = Before(3) \cup Groups[3]
      BY <1>3
    <3>2. QED
      BY <3>1, <1>2
  <2>2. QED
    BY <2>1, <1>1 DEF Keys
<1>5. QED
  BY <1>1, <1>2, <1>3, <1>4 DEF Keys

\* What is saved is a job under a name of its own.
LEMMA GivenFacts ==
    /\ "" \notin Names /\ NoJob \notin Given
    /\ \A job \in Given : job = [k \in Keys |-> job[k]] /\ job.name \in Names /\ job.ssh \in Targets
<1>1. ASSUME NEW job \in Jobs
      PROVE  job = [k \in Keys |-> job[k]] /\ job.name \in Names /\ job.ssh \in Targets
  BY DEF Jobs, Keys
<1>2. QED
  BY <1>1, StoreAssumption

\* A content in which all groups are set is the encoded job.
LEMMA SetToFacts ==
    ASSUME NEW job \in Given
    PROVE  /\ SetTo(job, 1) = Empty
           /\ SetTo(job, 4) = Encode(job)
           /\ \A n \in 1..3 : SetTo(job, n + 1) = Copy(Groups[n], Encode(job), SetTo(job, n))
           /\ \A n : IsPartOf(SetTo(job, n), job)
           /\ \A n : IsContent(SetTo(job, n))
<1>1. Empty = [k \in Keys |-> Empty[k]]
  BY DEF Empty
<1>2. Encode(job) = [k \in Keys |-> Encode(job)[k]]
  <2>1. job = [k \in Keys |-> job[k]]
    BY GivenFacts
  <2>2. QED
    BY <2>1 DEF Encode
<1>3. SetTo(job, 1) = Empty
  BY <1>1, GroupFacts DEF SetTo
<1>4. SetTo(job, 4) = Encode(job)
  BY <1>2, GroupFacts DEF SetTo
<1>5. ASSUME NEW n \in 1..3
      PROVE  SetTo(job, n + 1) = Copy(Groups[n], Encode(job), SetTo(job, n))
  <2>1. \A k \in Keys : SetTo(job, n + 1)[k] = Copy(Groups[n], Encode(job), SetTo(job, n))[k]
    BY GroupFacts DEF SetTo, Copy
  <2>2. QED
    BY <2>1 DEF SetTo, Copy
<1>6. \A n : IsPartOf(SetTo(job, n), job) /\ IsContent(SetTo(job, n))
  BY DEF IsPartOf, IsContent, SetTo
<1>7. QED
  BY <1>3, <1>4, <1>5, <1>6

\* Empty is a content.
LEMMA EmptyFacts == IsContent(Empty) /\ \A job \in Given : IsPartOf(Empty, job)
BY DEF IsContent, Empty, IsPartOf

\* A thread that looks nothing up.
LEMMA NoLookFacts ==
    /\ DOMAIN NoLook = {"at", "todo", "file", "group", "job"}
    /\ NoLook.at = "idle" /\ NoLook.todo = {} /\ NoLook.group = 0 /\ NoLook.job = Empty
BY DEF NoLook

\* An encoded job is a content.
LEMMA EncodeFacts == \A job \in Given : IsContent(Encode(job))
<1>1. ASSUME NEW job \in Given PROVE IsContent(Encode(job))
  BY SetToFacts, GroupFacts
<1>2. QED
  BY <1>1

-------------------------------------------------------------------------------
\* The store starts empty.
LEMMA InitInvariant == Init => IInv
<1> SUFFICES ASSUME Init PROVE IInv
  OBVIOUS
<1>1. TypeOK
  <2>1. FileTypes /\ MainTypes /\ HistoryTypes
    BY EmptyFacts, GroupFacts DEF Init, FileTypes, MainTypes, HistoryTypes
  <2>2. LookTypes
    BY EmptyFacts, GroupFacts, NoLookFacts DEF Init, LookTypes
  <2>3. QED
    BY <2>1, <2>2 DEF TypeOK
<1>2. OneWriter /\ AbsentIsEmpty /\ SaveOnItsWay /\ NeverMixed /\ SavedIsWhole /\ LookOnItsWay
  BY DEF Init, OneWriter, AbsentIsEmpty, SaveOnItsWay, NeverMixed, SavedIsWhole, LookOnItsWay, NoLook
<1>3. QED
  BY <1>1, <1>2 DEF IInv, StoreInv

\* After a sync disk and memory agree, and other files are as they were.
LEMMA SyncFacts ==
    ASSUME TypeOK, NEW f \in Files, Sync(f)
    PROVE  /\ disk' = [g \in Files |-> disk'[g]] /\ mem' = [g \in Files |-> mem'[g]]
           /\ mem'[f] = disk'[f]
           /\ disk'[f] = IF f \in dirty THEN mem[f] ELSE disk[f]
           /\ exist' = IF f \in dirty THEN exist \cup {f} ELSE exist
           /\ dirty' = dirty \ {f}
           /\ \A g \in Files \ {f} : disk'[g] = disk[g] /\ mem'[g] = mem[g]
           /\ \A g \in Files : IsContent(disk'[g]) /\ IsContent(mem'[g])
<1>1. disk = [g \in Files |-> disk[g]] /\ mem = [g \in Files |-> mem[g]]
      /\ \A g \in Files : IsContent(disk[g]) /\ IsContent(mem[g])
  BY DEF TypeOK, FileTypes
<1>2. CASE f \in dirty
  <2>1. disk' = [disk EXCEPT ![f] = mem[f]] /\ exist' = exist \cup {f} /\ dirty' = dirty \ {f} /\ mem' = mem
    BY <1>2 DEF Sync
  <2>2. disk'[f] = mem[f] /\ \A g \in Files \ {f} : disk'[g] = disk[g]
    BY <1>1, <2>1
  <2>3. disk' = [g \in Files |-> disk'[g]]
    BY <1>1, <2>1
  <2>4. \A g \in Files : IsContent(disk'[g]) /\ IsContent(mem'[g])
    BY <1>1, <2>1, <2>2
  <2>5. QED
    BY <1>1, <1>2, <2>1, <2>2, <2>3, <2>4
<1>3. CASE f \notin dirty
  <2>1. mem' = [mem EXCEPT ![f] = disk[f]] /\ exist' = exist /\ dirty' = dirty /\ disk' = disk
    BY <1>3 DEF Sync
  <2>2. mem'[f] = disk[f] /\ \A g \in Files \ {f} : mem'[g] = mem[g]
    BY <1>1, <2>1
  <2>3. mem' = [g \in Files |-> mem'[g]]
    BY <1>1, <2>1
  <2>4. \A g \in Files : IsContent(disk'[g]) /\ IsContent(mem'[g])
    BY <1>1, <2>1, <2>2
  <2>5. QED
    BY <1>1, <1>3, <2>1, <2>2, <2>3, <2>4
<1>4. QED
  BY <1>2, <1>3

\* A step of the main thread does not disturb a lookup in what it can rely on.
LEMMA LookKept ==
    ASSUME LookOnItsWay, UNCHANGED lookups,
           \A t \in Threads : look[t].at # "idle" =>
              /\ touched[t] \subseteq touched'[t]
              /\ saving' # NoJob => saving'.name \in touched'[t]
              /\ \A f \in Files \ (touched'[t] \cup hurt') :
                    f \notin hurt /\ stored'[f] = stored[f] /\ mem'[f] = mem[f]
    PROVE  LookOnItsWay'
<1> SUFFICES ASSUME NEW t \in Threads, look[t].at # "idle"
             PROVE  /\ saving' # NoJob => saving'.name \in touched'[t]
                    /\ look[t].at = "done" => look[t].todo = {}
                    /\ \A f \in Files \ (touched'[t] \cup hurt') : ReadSoFar(t, f)'
  BY DEF LookOnItsWay, lookups
<1>1. ASSUME NEW f \in Files \ (touched'[t] \cup hurt') PROVE ReadSoFar(t, f)'
  <2>1. f \in Files \ (touched[t] \cup hurt) /\ stored'[f] = stored[f] /\ mem'[f] = mem[f]
    OBVIOUS
  <2>2. ReadSoFar(t, f)
    BY <2>1 DEF LookOnItsWay
  <2>3. QED
    BY <2>1, <2>2 DEF ReadSoFar, lookups
<1>2. QED
  BY <1>1 DEF LookOnItsWay

-------------------------------------------------------------------------------
\* Saving: the old file goes ...
LEMMA SaveBeginStep == ASSUME IInv, NEW job \in Given, SaveBegin(job) PROVE IInv'
<1> DEFINE n == job.name
<1>1. n \in Files /\ job # NoJob
  BY GivenFacts DEF Files
<1>2. /\ saving = NoJob /\ saving' = job /\ next' = 0
      /\ exist' = exist \ {n} /\ hurt' = hurt \ {n} /\ mem' = mem /\ dirty' = dirty
      /\ disk' = [disk EXCEPT ![n] = Empty] /\ stored' = [stored EXCEPT ![n] = NoJob]
      /\ touched' = [t \in Threads |-> IF look[t].at = "idle" THEN {} ELSE touched[t] \cup {n}]
      /\ UNCHANGED lookups
  BY DEF SaveBegin, MainFree, Touch
<1> HIDE DEF n
<1>3. /\ disk'[n] = Empty /\ \A f \in Files \ {n} : disk'[f] = disk[f]
      /\ disk' = [f \in Files |-> disk'[f]]
      /\ stored'[n] = NoJob /\ \A f \in Files \ {n} : stored'[f] = stored[f]
      /\ stored' \in [Files -> Given \cup {NoJob}]
      /\ dirty = {}
  BY <1>1, <1>2 DEF IInv, StoreInv, TypeOK, FileTypes, HistoryTypes, OneWriter
<1>4. TypeOK'
  <2>1. TypeOK
    BY DEF IInv, StoreInv
  <2>2. FileTypes'
    BY <1>2, <1>3, <2>1, EmptyFacts DEF TypeOK, FileTypes
  <2>3. MainTypes'
    BY <1>2, GroupFacts DEF MainTypes
  <2>4. LookTypes'
    BY <1>2, <2>1 DEF TypeOK, LookTypes, lookups
  <2>5. HistoryTypes'
    <3>1. touched \in [Threads -> SUBSET Files]
      BY <2>1 DEF TypeOK, HistoryTypes
    <3>2. touched' \in [Threads -> SUBSET Files]
      BY <1>1, <1>2, <3>1
    <3>3. QED
      BY <1>2, <1>3, <2>1, <3>2 DEF TypeOK, HistoryTypes
  <2>6. QED
    BY <2>2, <2>3, <2>4, <2>5 DEF TypeOK
<1>5. OneWriter' /\ AbsentIsEmpty' /\ SaveOnItsWay'
  BY <1>1, <1>2, <1>3 DEF IInv, StoreInv, OneWriter, AbsentIsEmpty, SaveOnItsWay, n
<1>6. NeverMixed'
  BY <1>2, <1>3 DEF IInv, StoreInv, NeverMixed, IsPartOf, TypeOK, FileTypes
<1>7. SavedIsWhole'
  BY <1>1, <1>2, <1>3 DEF IInv, StoreInv, SavedIsWhole
<1>8. LookOnItsWay'
  <2>1. \A t \in Threads : look[t].at # "idle" => touched'[t] = touched[t] \cup {n}
    BY <1>2
  <2>2. QED
    BY <1>1, <1>2, <1>3, <2>1, LookKept DEF IInv, n
<1>9. QED
  BY <1>4, <1>5, <1>6, <1>7, <1>8 DEF IInv, StoreInv

\* ... the object is constructed ...
LEMMA SaveOpenStep == ASSUME IInv, SaveOpen PROVE IInv'
<1> DEFINE n == saving.name
<1>1. n \in Files /\ saving \in Given /\ saving # NoJob
  BY GivenFacts DEF SaveOpen, IInv, StoreInv, TypeOK, MainTypes, Files
<1>2. saving' = saving /\ next = 0 /\ next' = 1 /\ Sync(n) /\ UNCHANGED <<lookups, history>>
  BY DEF SaveOpen
<1>3. n \notin exist \cup dirty /\ disk[n] = Empty /\ dirty = {}
  BY <1>1, <1>2 DEF IInv, StoreInv, SaveOnItsWay, AbsentIsEmpty, OneWriter
<1>4. /\ disk' = disk /\ exist' = exist /\ dirty' = dirty /\ mem'[n] = Empty
      /\ \A f \in Files \ {n} : mem'[f] = mem[f]
      /\ mem' = [f \in Files |-> mem'[f]]
      /\ \A f \in Files : IsContent(mem'[f])
  BY <1>1, <1>2, <1>3, SyncFacts DEF IInv, StoreInv, Sync
<1> HIDE DEF n
<1>5. TypeOK'
  <2>1. TypeOK
    BY DEF IInv, StoreInv
  <2>2. FileTypes'
    BY <1>1, <1>2, <1>4, <2>1 DEF TypeOK, FileTypes
  <2>3. MainTypes'
    BY <1>1, <1>2, GroupFacts DEF MainTypes
  <2>4. LookTypes' /\ HistoryTypes'
    BY <1>2, <2>1 DEF TypeOK, LookTypes, HistoryTypes, lookups, history
  <2>5. QED
    BY <2>2, <2>3, <2>4 DEF TypeOK
<1>6. OneWriter' /\ AbsentIsEmpty' /\ NeverMixed' /\ SavedIsWhole'
  BY <1>2, <1>4 DEF IInv, StoreInv, OneWriter, AbsentIsEmpty, NeverMixed, SavedIsWhole, history
<1>7. SaveOnItsWay'
  BY <1>1, <1>2, <1>3, <1>4, SetToFacts DEF SaveOnItsWay, n
<1>8. LookOnItsWay'
  <2>1. \A t \in Threads : look[t].at # "idle" => n \in touched[t]
    BY <1>1 DEF IInv, LookOnItsWay, n
  <2>2. QED
    BY <1>1, <1>2, <1>4, <2>1, LookKept DEF IInv, history, n
<1>9. QED
  BY <1>5, <1>6, <1>7, <1>8 DEF IInv, StoreInv

\* ... group after group is set ...
LEMMA SaveSetStep == ASSUME IInv, SaveSet PROVE IInv'
<1> DEFINE n == saving.name
<1>1. n \in Files /\ saving \in Given /\ saving # NoJob
  BY GivenFacts DEF SaveSet, IInv, StoreInv, TypeOK, MainTypes, Files
<1>2. /\ saving' = saving /\ next \in 1..3 /\ next' = next + 1
      /\ mem' = [mem EXCEPT ![n] = Copy(Groups[next], Encode(saving), mem[n])]
      /\ dirty' = dirty \cup {n} /\ UNCHANGED <<exist, disk, lookups, history>>
  BY GroupFacts DEF SaveSet
<1>3. mem[n] = SetTo(saving, next)
  BY <1>1, <1>2 DEF IInv, StoreInv, SaveOnItsWay
<1> HIDE DEF n
<1>4. /\ mem'[n] = SetTo(saving, next') /\ \A f \in Files \ {n} : mem'[f] = mem[f]
      /\ mem' = [f \in Files |-> mem'[f]]
      /\ \A f \in Files : IsContent(mem'[f])
  <2>1. mem = [f \in Files |-> mem[f]] /\ \A f \in Files : IsContent(mem[f])
    BY DEF IInv, StoreInv, TypeOK, FileTypes
  <2>2. Copy(Groups[next], Encode(saving), mem[n]) = SetTo(saving, next')
    BY <1>1, <1>2, <1>3, SetToFacts
  <2>3. mem'[n] = SetTo(saving, next') /\ \A f \in Files \ {n} : mem'[f] = mem[f]
    BY <1>1, <1>2, <2>1, <2>2
  <2>4. QED
    BY <1>1, <1>2, <2>1, <2>3, SetToFacts
<1>5. TypeOK'
  <2>1. TypeOK
    BY DEF IInv, StoreInv
  <2>2. FileTypes'
    BY <1>1, <1>2, <1>4, <2>1 DEF TypeOK, FileTypes
  <2>3. MainTypes'
    BY <1>1, <1>2, GroupFacts DEF MainTypes
  <2>4. LookTypes' /\ HistoryTypes'
    BY <1>2, <2>1 DEF TypeOK, LookTypes, HistoryTypes, lookups, history
  <2>5. QED
    BY <2>2, <2>3, <2>4 DEF TypeOK
<1>6. OneWriter' /\ AbsentIsEmpty' /\ NeverMixed' /\ SavedIsWhole'
  BY <1>1, <1>2 DEF IInv, StoreInv, OneWriter, AbsentIsEmpty, NeverMixed, SavedIsWhole, history, n
<1>7. SaveOnItsWay'
  BY <1>1, <1>2, <1>4 DEF SaveOnItsWay, n
<1>8. LookOnItsWay'
  <2>1. \A t \in Threads : look[t].at # "idle" => n \in touched[t]
    BY <1>1 DEF IInv, LookOnItsWay, n
  <2>2. QED
    BY <1>1, <1>2, <1>4, <2>1, LookKept DEF IInv, history, n
<1>9. QED
  BY <1>5, <1>6, <1>7, <1>8 DEF IInv, StoreInv

\* ... and the last sync leaves the whole job.
LEMMA SaveSyncStep == ASSUME IInv, SaveSync PROVE IInv'
<1> DEFINE n == saving.name
           job == saving
<1>1. n \in Files /\ job \in Given /\ job # NoJob
  BY GivenFacts DEF SaveSync, IInv, StoreInv, TypeOK, MainTypes, Files
<1>2. /\ saving' = NoJob /\ next = 4 /\ next' = 0 /\ Sync(n)
      /\ stored' = [stored EXCEPT ![n] = job]
      /\ touched' = [t \in Threads |-> IF look[t].at = "idle" THEN {} ELSE touched[t] \cup {n}]
      /\ UNCHANGED <<lookups, hurt>>
  BY GroupFacts DEF SaveSync, Touch
<1>3. mem[n] = Encode(job) /\ (n \in dirty \/ (n \in exist /\ disk[n] = mem[n])) /\ dirty \subseteq {n}
  BY <1>1, <1>2, SetToFacts DEF IInv, StoreInv, SaveOnItsWay, OneWriter
<1>4. /\ disk'[n] = Encode(job) /\ exist' = exist \cup {n} /\ dirty' = {}
      /\ \A f \in Files \ {n} : disk'[f] = disk[f] /\ mem'[f] = mem[f]
      /\ disk' = [g \in Files |-> disk'[g]] /\ mem' = [g \in Files |-> mem'[g]]
      /\ \A g \in Files : IsContent(disk'[g]) /\ IsContent(mem'[g])
  BY <1>1, <1>2, <1>3, SyncFacts DEF IInv, StoreInv
<1>5. /\ stored'[n] = job /\ \A f \in Files \ {n} : stored'[f] = stored[f]
      /\ stored' \in [Files -> Given \cup {NoJob}]
  BY <1>1, <1>2 DEF IInv, StoreInv, TypeOK, HistoryTypes
<1> HIDE DEF n, job
<1>6. TypeOK'
  <2>1. TypeOK
    BY DEF IInv, StoreInv
  <2>2. FileTypes'
    BY <1>1, <1>4, <2>1 DEF TypeOK, FileTypes
  <2>3. MainTypes'
    BY <1>2, GroupFacts DEF MainTypes
  <2>4. LookTypes'
    BY <1>2, <2>1 DEF TypeOK, LookTypes, lookups
  <2>5. touched' \in [Threads -> SUBSET Files]
    <3>1. touched \in [Threads -> SUBSET Files]
      BY <2>1 DEF TypeOK, HistoryTypes
    <3>2. QED
      BY <1>1, <1>2, <3>1
  <2>6. QED
    BY <1>2, <1>5, <2>1, <2>2, <2>3, <2>4, <2>5 DEF TypeOK, HistoryTypes
<1>7. OneWriter' /\ SaveOnItsWay'
  BY <1>2, <1>4 DEF OneWriter, SaveOnItsWay
<1>8. AbsentIsEmpty'
  BY <1>4 DEF IInv, StoreInv, AbsentIsEmpty
<1>9. NeverMixed'
  <2>1. IsPartOf(Encode(job), job)
    BY <1>1 DEF IsPartOf
  <2>2. ASSUME NEW f \in exist' PROVE \E j \in Given : IsPartOf(disk'[f], j)
    <3>1. CASE f = n
      BY <1>1, <1>4, <2>1, <3>1
    <3>2. CASE f # n
      <4>1. f \in exist /\ f \in Files /\ disk'[f] = disk[f]
        BY <1>4, <3>2 DEF IInv, StoreInv, TypeOK, FileTypes
      <4>2. QED
        BY <4>1 DEF IInv, StoreInv, NeverMixed
    <3>3. QED
      BY <3>1, <3>2
  <2>3. QED
    BY <2>2 DEF NeverMixed, IsPartOf
<1>10. SavedIsWhole'
  <2>1. ASSUME NEW f \in Files \ hurt
        PROVE  IF stored'[f] = NoJob THEN f \notin exist' ELSE f \in exist' /\ disk'[f] = Encode(stored'[f])
    <3>1. CASE f = n
      BY <1>1, <1>4, <1>5, <3>1
    <3>2. CASE f # n
      BY <1>4, <1>5, <3>2 DEF IInv, StoreInv, SavedIsWhole, n
    <3>3. QED
      BY <3>1, <3>2
  <2>2. QED
    BY <1>2, <2>1 DEF SavedIsWhole
<1>11. LookOnItsWay'
  <2>1. \A t \in Threads : look[t].at # "idle" => touched'[t] = touched[t] \cup {n}
    BY <1>2
  <2>2. QED
    BY <1>2, <1>4, <1>5, <2>1, LookKept DEF IInv
<1>12. QED
  BY <1>6, <1>7, <1>8, <1>9, <1>10, <1>11 DEF IInv, StoreInv

\* Removing and renaming.
LEMMA RemoveStep == ASSUME IInv, NEW n \in Files, RemoveJob(n) PROVE IInv'
<1>1. /\ saving = NoJob /\ exist' = exist \ {n} /\ hurt' = hurt \ {n}
      /\ disk' = [disk EXCEPT ![n] = Empty] /\ stored' = [stored EXCEPT ![n] = NoJob]
      /\ touched' = [t \in Threads |-> IF look[t].at = "idle" THEN {} ELSE touched[t] \cup {n}]
      /\ UNCHANGED <<mem, dirty, main, lookups>>
  BY DEF RemoveJob, MainFree, Touch
<1>2. /\ disk'[n] = Empty /\ \A f \in Files \ {n} : disk'[f] = disk[f]
      /\ disk' = [f \in Files |-> disk'[f]]
      /\ stored'[n] = NoJob /\ \A f \in Files \ {n} : stored'[f] = stored[f]
      /\ stored' \in [Files -> Given \cup {NoJob}]
  BY <1>1 DEF IInv, StoreInv, TypeOK, FileTypes, HistoryTypes
<1>3. TypeOK'
  <2>1. TypeOK
    BY DEF IInv, StoreInv
  <2>2. FileTypes'
    BY <1>1, <1>2, <2>1, EmptyFacts DEF TypeOK, FileTypes
  <2>3. MainTypes' /\ LookTypes'
    BY <1>1, <2>1 DEF TypeOK, MainTypes, LookTypes, main, lookups
  <2>4. touched' \in [Threads -> SUBSET Files]
    <3>1. touched \in [Threads -> SUBSET Files]
      BY <2>1 DEF TypeOK, HistoryTypes
    <3>2. QED
      BY <1>1, <3>1
  <2>5. QED
    BY <1>1, <1>2, <2>1, <2>2, <2>3, <2>4 DEF TypeOK, HistoryTypes
<1>4. OneWriter' /\ AbsentIsEmpty' /\ SaveOnItsWay'
  BY <1>1, <1>2 DEF IInv, StoreInv, OneWriter, AbsentIsEmpty, SaveOnItsWay, main
<1>5. NeverMixed' /\ SavedIsWhole'
  BY <1>1, <1>2 DEF IInv, StoreInv, TypeOK, FileTypes, NeverMixed, IsPartOf, SavedIsWhole, main
<1>6. LookOnItsWay'
  <2>1. \A t \in Threads : look[t].at # "idle" => touched'[t] = touched[t] \cup {n}
    BY <1>1
  <2>2. QED
    BY <1>1, <1>2, <2>1, LookKept DEF IInv, main
<1>7. QED
  BY <1>3, <1>4, <1>5, <1>6 DEF IInv, StoreInv

LEMMA RenameStep == ASSUME IInv, NEW n \in Files, NEW m \in Files, RenameJob(n, m) PROVE IInv'
<1>1. /\ saving = NoJob /\ exist' = (exist \ {n}) \cup {m} /\ n \in exist /\ m \notin exist
      /\ hurt' = IF n \in hurt THEN (hurt \ {n}) \cup {m} ELSE hurt
      /\ disk' = [disk EXCEPT ![n] = Empty, ![m] = disk[n]]
      /\ stored' = [stored EXCEPT ![n] = NoJob, ![m] = stored[n]]
      /\ touched' = [t \in Threads |-> IF look[t].at = "idle" THEN {} ELSE touched[t] \cup {n, m}]
      /\ UNCHANGED <<mem, dirty, main, lookups>>
  BY DEF RenameJob, MainFree, Touch
<1>2. /\ disk'[n] = Empty /\ disk'[m] = disk[n] /\ \A f \in Files \ {n, m} : disk'[f] = disk[f]
      /\ disk' = [f \in Files |-> disk'[f]]
      /\ stored'[n] = NoJob /\ stored'[m] = stored[n] /\ \A f \in Files \ {n, m} : stored'[f] = stored[f]
      /\ stored' \in [Files -> Given \cup {NoJob}]
  BY <1>1 DEF IInv, StoreInv, TypeOK, FileTypes, HistoryTypes
<1>3. TypeOK'
  <2>1. TypeOK
    BY DEF IInv, StoreInv
  <2>2. FileTypes'
    BY <1>1, <1>2, <2>1, EmptyFacts DEF TypeOK, FileTypes
  <2>3. MainTypes' /\ LookTypes'
    BY <1>1, <2>1 DEF TypeOK, MainTypes, LookTypes, main, lookups
  <2>4. touched' \in [Threads -> SUBSET Files]
    <3>1. touched \in [Threads -> SUBSET Files]
      BY <2>1 DEF TypeOK, HistoryTypes
    <3>2. QED
      BY <1>1, <3>1
  <2>5. QED
    BY <1>1, <1>2, <2>1, <2>2, <2>3, <2>4 DEF TypeOK, HistoryTypes
<1>4. OneWriter' /\ AbsentIsEmpty' /\ SaveOnItsWay'
  BY <1>1, <1>2 DEF IInv, StoreInv, OneWriter, AbsentIsEmpty, SaveOnItsWay, main
<1>5. NeverMixed'
  <2>1. ASSUME NEW f \in exist' PROVE \E j \in Given : IsPartOf(disk'[f], j)
    <3>1. CASE f = m
      BY <1>1, <1>2, <3>1 DEF IInv, StoreInv, NeverMixed
    <3>2. CASE f # m
      <4>1. f \in exist /\ f \in Files \ {n, m} /\ disk'[f] = disk[f]
        BY <1>1, <1>2, <3>2 DEF IInv, StoreInv, TypeOK, FileTypes
      <4>2. QED
        BY <4>1 DEF IInv, StoreInv, NeverMixed
    <3>3. QED
      BY <3>1, <3>2
  <2>2. QED
    BY <2>1 DEF NeverMixed, IsPartOf
<1>6. SavedIsWhole'
  <2>1. ASSUME NEW f \in Files \ hurt'
        PROVE  IF stored'[f] = NoJob THEN f \notin exist' ELSE f \in exist' /\ disk'[f] = Encode(stored'[f])
    <3>1. CASE f = m
      BY <1>1, <1>2, <3>1 DEF IInv, StoreInv, SavedIsWhole
    <3>2. CASE f = n /\ n # m
      BY <1>1, <1>2, <3>2
    <3>3. CASE f \notin {n, m}
      BY <1>1, <1>2, <3>3 DEF IInv, StoreInv, SavedIsWhole
    <3>4. QED
      BY <3>1, <3>2, <3>3
  <2>2. QED
    BY <1>1, <2>1 DEF SavedIsWhole, main
<1>7. LookOnItsWay'
  <2>1. \A t \in Threads : look[t].at # "idle" => touched'[t] = touched[t] \cup {n, m}
    BY <1>1
  <2>2. QED
    BY <1>1, <1>2, <2>1, LookKept DEF IInv, main
<1>8. QED
  BY <1>3, <1>4, <1>5, <1>6, <1>7 DEF IInv, StoreInv

-------------------------------------------------------------------------------
\* A step of one lookup: its own progress has to be shown, the others keep theirs.
LEMMA LookStepKept ==
    ASSUME IInv, NEW t \in Threads,
           UNCHANGED <<exist, disk, mem, dirty, main, stored, hurt>>,
           \A u \in Threads \ {t} :
              look'[u] = look[u] /\ jobs'[u] = jobs[u] /\ touched'[u] = touched[u],
           LookTypes', touched' \in [Threads -> SUBSET Files],
           look'[t].at # "idle" =>
              /\ saving # NoJob => saving.name \in touched'[t]
              /\ look'[t].at = "done" => look'[t].todo = {}
              /\ \A f \in Files \ (touched'[t] \cup hurt) : ReadSoFar(t, f)'
    PROVE  IInv'
<1>1. TypeOK'
  BY DEF IInv, StoreInv, TypeOK, FileTypes, MainTypes, HistoryTypes, main
<1>2. OneWriter' /\ AbsentIsEmpty' /\ SaveOnItsWay' /\ NeverMixed' /\ SavedIsWhole'
  BY DEF IInv, StoreInv, OneWriter, AbsentIsEmpty, SaveOnItsWay, NeverMixed, IsPartOf, SavedIsWhole, main
<1>3. ASSUME NEW u \in Threads, look'[u].at # "idle"
      PROVE  /\ saving # NoJob => saving.name \in touched'[u]
             /\ look'[u].at = "done" => look'[u].todo = {}
             /\ \A f \in Files \ (touched'[u] \cup hurt) : ReadSoFar(u, f)'
  <2>1. CASE u = t
    BY <1>3, <2>1
  <2>2. CASE u # t
    <3>1. look'[u] = look[u] /\ jobs'[u] = jobs[u] /\ touched'[u] = touched[u]
      BY <2>2
    <3>2. /\ saving # NoJob => saving.name \in touched[u]
          /\ look[u].at = "done" => look[u].todo = {}
          /\ \A f \in Files \ (touched[u] \cup hurt) : ReadSoFar(u, f)
      BY <1>3, <3>1 DEF IInv, LookOnItsWay
    <3>3. \A f : ReadSoFar(u, f)' <=> ReadSoFar(u, f)
      BY <3>1 DEF ReadSoFar
    <3>4. QED
      BY <3>1, <3>2, <3>3
  <2>3. QED
    BY <2>1, <2>2
<1>4. LookOnItsWay'
  BY <1>3 DEF LookOnItsWay, main
<1>5. QED
  BY <1>1, <1>2, <1>4 DEF IInv, StoreInv

\* A lookup begins: what exists is still to be read, the rest was cleared.
LEMMA LookBeginStep == ASSUME IInv, NEW t \in Threads, LookBegin(t) PROVE IInv'
<1> DEFINE new == [NoLook EXCEPT !.at = "scan", !.todo = exist]
<1>1. /\ DOMAIN new = {"at", "todo", "file", "group", "job"} /\ new.at = "scan" /\ new.todo = exist
      /\ new.group = 0 /\ new.job = Empty
  BY DEF NoLook
<1>2. /\ look' = [look EXCEPT ![t] = new]
      /\ jobs' = [jobs EXCEPT ![t] = [f \in Files |-> NoJob]]
      /\ touched' = [touched EXCEPT ![t] = IF saving = NoJob THEN {} ELSE {saving.name}]
      /\ UNCHANGED <<exist, disk, mem, dirty, main, stored, hurt>>
  BY DEF LookBegin, files
<1> HIDE DEF new
<1>3. /\ DOMAIN look = Threads /\ DOMAIN jobs = Threads /\ touched \in [Threads -> SUBSET Files]
      /\ exist \subseteq Files
      /\ saving # NoJob => saving.name \in Files
  BY GivenFacts DEF IInv, StoreInv, TypeOK, FileTypes, LookTypes, HistoryTypes, MainTypes, Files
<1>4. /\ look'[t] = new /\ jobs'[t] = [f \in Files |-> NoJob]
      /\ touched'[t] = IF saving = NoJob THEN {} ELSE {saving.name}
      /\ \A u \in Threads \ {t} : look'[u] = look[u] /\ jobs'[u] = jobs[u] /\ touched'[u] = touched[u]
      /\ DOMAIN look' = Threads /\ DOMAIN jobs' = Threads /\ touched' \in [Threads -> SUBSET Files]
  BY <1>2, <1>3
<1>5. LookTypes'
  BY <1>1, <1>3, <1>4, EmptyFacts, GroupFacts DEF IInv, StoreInv, TypeOK, LookTypes
<1>6. ASSUME NEW f \in Files \ (touched'[t] \cup hurt) PROVE ReadSoFar(t, f)'
  <2>1. IF stored[f] = NoJob THEN f \notin exist ELSE f \in exist
    BY <1>4 DEF IInv, StoreInv, SavedIsWhole
  <2>2. QED
    BY <1>1, <1>2, <1>4, <2>1 DEF ReadSoFar
<1>7. QED
  BY <1>1, <1>2, <1>4, <1>5, <1>6, LookStepKept

\* A group is read.
LEMMA LookGroupStep == ASSUME IInv, NEW t \in Threads, LookGroup(t) PROVE IInv'
<1> DEFINE g == look[t].group
           c == Copy(Groups[g], mem[look[t].file], look[t].job)
           new == [[look[t] EXCEPT !.job = c] EXCEPT !.group = g + 1]
<1>1. /\ look[t].at = "read" /\ g \in 1..3
      /\ look' = [look EXCEPT ![t] = new]
      /\ UNCHANGED <<files, main, jobs, answer, history>>
  BY GroupFacts DEF LookGroup
<1>2. DOMAIN look = Threads /\ DOMAIN look[t] = {"at", "todo", "file", "group", "job"}
      /\ DOMAIN jobs = Threads /\ \A u \in Threads : DOMAIN jobs[u] = Files
  BY DEF IInv, StoreInv, TypeOK, LookTypes
<1>3. /\ DOMAIN new = {"at", "todo", "file", "group", "job"} /\ new.at = "read"
      /\ new.todo = look[t].todo /\ new.file = look[t].file /\ new.group = g + 1 /\ new.job = c
  BY <1>1, <1>2
<1>4. IsContent(c)
  BY DEF IsContent, Copy
<1> HIDE DEF new, c
<1>5. look'[t] = new /\ DOMAIN look' = Threads /\ \A u \in Threads \ {t} : look'[u] = look[u]
  BY <1>1, <1>2
<1>6. LookTypes'
  BY <1>1, <1>3, <1>4, <1>5, GroupFacts DEF IInv, StoreInv, TypeOK, LookTypes
<1>7. ASSUME NEW f \in Files \ (touched[t] \cup hurt) PROVE ReadSoFar(t, f)'
  <2>1. ReadSoFar(t, f)
    BY <1>1 DEF IInv, LookOnItsWay
  <2>2. CASE stored[f] # NoJob /\ f \notin look[t].todo /\ look[t].file = f
    <3>1. mem[f] = Encode(stored[f]) /\ look[t].job = SetTo(stored[f], g) /\ stored[f] \in Given
      BY <1>1, <2>1, <2>2 DEF ReadSoFar, IInv, StoreInv, TypeOK, HistoryTypes
    <3>2. c = SetTo(stored[f], g + 1)
      BY <1>1, <2>2, <3>1, SetToFacts DEF c
    <3>3. QED
      BY <1>1, <1>3, <1>5, <2>2, <3>1, <3>2 DEF ReadSoFar, files, history
  <2>3. CASE ~(stored[f] # NoJob /\ f \notin look[t].todo /\ look[t].file = f)
    BY <1>1, <1>3, <1>5, <2>1, <2>3 DEF ReadSoFar, files, history
  <2>4. QED
    BY <2>2, <2>3
<1>8. saving # NoJob => saving.name \in touched[t]
  BY <1>1 DEF IInv, LookOnItsWay
<1>9. touched' \in [Threads -> SUBSET Files]
  BY <1>1 DEF IInv, StoreInv, TypeOK, HistoryTypes, history
<1>10. QED
  BY <1>1, <1>3, <1>5, <1>6, <1>7, <1>8, <1>9, LookStepKept DEF files, history

\* The job read is appended.
LEMMA LookAppendStep == ASSUME IInv, NEW t \in Threads, LookAppend(t) PROVE IInv'
<1> DEFINE new == [NoLook EXCEPT !.at = "scan", !.todo = look[t].todo]
           n == look[t].file
<1>1. /\ look[t].at = "read" /\ look[t].group = 4
      /\ look' = [look EXCEPT ![t] = new]
      /\ jobs' = [jobs EXCEPT ![t] = [jobs[t] EXCEPT ![n] = Decode(look[t].job)]]
      /\ UNCHANGED <<files, main, answer, history>>
  BY GroupFacts DEF LookAppend
<1>2. /\ DOMAIN new = {"at", "todo", "file", "group", "job"} /\ new.at = "scan"
      /\ new.todo = look[t].todo /\ new.group = 0 /\ new.job = Empty
  BY DEF NoLook
<1> HIDE DEF new
<1>3. DOMAIN look = Threads /\ DOMAIN jobs = Threads /\ DOMAIN jobs[t] = Files /\ n \in Files
  BY <1>1 DEF IInv, StoreInv, TypeOK, LookTypes
<1>4. /\ look'[t] = new /\ DOMAIN look' = Threads /\ \A u \in Threads \ {t} : look'[u] = look[u]
      /\ DOMAIN jobs' = Threads /\ \A u \in Threads \ {t} : jobs'[u] = jobs[u]
      /\ DOMAIN jobs'[t] = Files /\ jobs'[t][n] = Decode(look[t].job)
      /\ \A f \in Files \ {n} : jobs'[t][f] = jobs[t][f]
  BY <1>1, <1>3
<1>5. LookTypes'
  BY <1>1, <1>2, <1>4, EmptyFacts, GroupFacts DEF IInv, StoreInv, TypeOK, LookTypes
<1>6. ASSUME NEW f \in Files \ (touched[t] \cup hurt) PROVE ReadSoFar(t, f)'
  <2>1. ReadSoFar(t, f)
    BY <1>1 DEF IInv, LookOnItsWay
  <2>2. CASE f # n
    BY <1>1, <1>2, <1>4, <2>1, <2>2 DEF ReadSoFar, history
  <2>3. CASE f = n /\ f \in look[t].todo
    BY <1>1, <1>2, <1>4, <2>1, <2>3 DEF ReadSoFar, history
  <2>4. CASE f = n /\ f \notin look[t].todo
    <3>1. stored[f] # NoJob /\ look[t].job = SetTo(stored[f], 4) /\ stored[f] \in Given
      BY <1>1, <2>1, <2>4 DEF ReadSoFar, IInv, StoreInv, TypeOK, HistoryTypes
    <3>2. jobs'[t][f] = Decode(Encode(stored[f]))
      BY <1>4, <2>4, <3>1, SetToFacts
    <3>3. QED
      BY <1>1, <1>2, <1>4, <2>4, <3>1, <3>2 DEF ReadSoFar, history
  <2>5. QED
    BY <2>2, <2>3, <2>4
<1>7. saving # NoJob => saving.name \in touched[t]
  BY <1>1 DEF IInv, LookOnItsWay
<1>8. touched' \in [Threads -> SUBSET Files]
  BY <1>1 DEF IInv, StoreInv, TypeOK, HistoryTypes, history
<1>9. QED
  BY <1>1, <1>2, <1>4, <1>5, <1>6, <1>7, <1>8, LookStepKept DEF files, history

\* The accessor answers from the list.
LEMMA AnswersStep == ASSUME IInv, NEW t \in Threads, LookEnds(t), NEW s, Answers(t, s) PROVE IInv'
<1> DEFINE new == [look[t] EXCEPT !.at = "done"]
<1>1. /\ look[t].at = "scan" /\ look[t].todo = {} /\ look' = [look EXCEPT ![t] = new]
      /\ UNCHANGED <<files, main, jobs, history>>
  BY DEF LookEnds, Answers
<1>2. DOMAIN look = Threads /\ DOMAIN look[t] = {"at", "todo", "file", "group", "job"}
  BY DEF IInv, StoreInv, TypeOK, LookTypes
<1>3. /\ DOMAIN new = DOMAIN look[t] /\ new.at = "done" /\ new.todo = {}
      /\ new.group = look[t].group /\ new.job = look[t].job
  BY <1>1, <1>2
<1> HIDE DEF new
<1>4. look'[t] = new /\ DOMAIN look' = Threads /\ \A u \in Threads \ {t} : look'[u] = look[u]
  BY <1>1, <1>2
<1>5. LookTypes'
  BY <1>1, <1>3, <1>4 DEF IInv, StoreInv, TypeOK, LookTypes
<1>6. ASSUME NEW f \in Files \ (touched[t] \cup hurt) PROVE ReadSoFar(t, f)'
  <2>1. ReadSoFar(t, f)
    BY <1>1 DEF IInv, LookOnItsWay
  <2>2. QED
    BY <1>1, <1>3, <1>4, <2>1 DEF ReadSoFar, files, history
<1>7. saving # NoJob => saving.name \in touched[t]
  BY <1>1 DEF IInv, LookOnItsWay
<1>8. touched' \in [Threads -> SUBSET Files]
  BY <1>1 DEF IInv, StoreInv, TypeOK, HistoryTypes, history
<1>9. QED
  BY <1>1, <1>3, <1>4, <1>5, <1>6, <1>7, <1>8, LookStepKept DEF files, history

\* A file is opened: what the save has set so far may reach the disk by that.
LEMMA LookOpenStep == ASSUME IInv, NEW t \in Threads, NEW n \in Files, LookOpen(t, n) PROVE IInv'
<1> DEFINE new == [at |-> "read", todo |-> look[t].todo \ {n}, file |-> n, group |-> 1, job |-> Empty]
<1>1. /\ look[t].at = "scan" /\ n \in look[t].todo /\ look' = [look EXCEPT ![t] = new]
      /\ Sync(n) /\ UNCHANGED <<main, jobs, answer, history>>
  BY DEF LookOpen
<1>2. /\ DOMAIN new = {"at", "todo", "file", "group", "job"} /\ new.at = "read" /\ new.file = n
      /\ new.todo = look[t].todo \ {n} /\ new.group = 1 /\ new.job = Empty
  OBVIOUS
<1> HIDE DEF new
<1>3. DOMAIN look = Threads /\ \A u \in Threads : look[u].todo \subseteq Files
  BY DEF IInv, StoreInv, TypeOK, LookTypes
<1>4. look'[t] = new /\ DOMAIN look' = Threads /\ \A u \in Threads \ {t} : look'[u] = look[u]
  BY <1>1, <1>3
<1>5. /\ disk' = [g \in Files |-> disk'[g]] /\ mem' = [g \in Files |-> mem'[g]]
      /\ mem'[n] = disk'[n]
      /\ disk'[n] = IF n \in dirty THEN mem[n] ELSE disk[n]
      /\ exist' = IF n \in dirty THEN exist \cup {n} ELSE exist
      /\ dirty' = dirty \ {n}
      /\ \A g \in Files \ {n} : disk'[g] = disk[g] /\ mem'[g] = mem[g]
      /\ \A g \in Files : IsContent(disk'[g]) /\ IsContent(mem'[g])
  BY <1>1, SyncFacts DEF IInv, StoreInv
<1>6. n \in dirty => /\ saving \in Given /\ saving # NoJob /\ saving.name = n
                    /\ next \notin {0, 1} /\ mem[n] = SetTo(saving, next)
  <2>1. n \in dirty => saving # NoJob /\ saving.name = n /\ saving \in Given
    BY DEF IInv, StoreInv, OneWriter, TypeOK, MainTypes
  <2>2. QED
    BY <2>1 DEF IInv, StoreInv, SaveOnItsWay
<1>7. TypeOK'
  <2>1. TypeOK
    BY DEF IInv, StoreInv
  <2>2. FileTypes'
    BY <1>5, <2>1 DEF TypeOK, FileTypes
  <2>3. LookTypes'
    BY <1>1, <1>2, <1>3, <1>4, <2>1, EmptyFacts, GroupFacts DEF TypeOK, LookTypes
  <2>4. MainTypes' /\ HistoryTypes'
    BY <1>1, <2>1 DEF TypeOK, MainTypes, HistoryTypes, main, history
  <2>5. QED
    BY <2>2, <2>3, <2>4 DEF TypeOK
<1>8. OneWriter' /\ AbsentIsEmpty'
  BY <1>1, <1>5 DEF IInv, StoreInv, OneWriter, AbsentIsEmpty, main
<1>9. SaveOnItsWay'
  <2>1. SUFFICES ASSUME saving # NoJob, saving.name = n
                 PROVE  /\ next \in {0, 1} => n \notin exist' \cup dirty'
                        /\ next # 0 => mem'[n] = SetTo(saving, next)
                        /\ next \notin {0, 1} /\ n \notin dirty' => n \in exist' /\ disk'[n] = mem'[n]
    <3>1. saving # NoJob => saving.name \in Files
      BY GivenFacts DEF IInv, StoreInv, TypeOK, MainTypes, Files
    <3>2. QED
      BY <1>1, <1>5, <3>1 DEF IInv, StoreInv, SaveOnItsWay, main
  <2>2. CASE n \in dirty
    BY <1>5, <1>6, <2>2
  <2>3. CASE n \notin dirty
    <3>1. /\ next \in {0, 1} => n \notin exist /\ disk[n] = Empty
          /\ next # 0 => mem[n] = SetTo(saving, next)
          /\ next \notin {0, 1} => n \in exist /\ disk[n] = mem[n]
      BY <2>1, <2>3 DEF IInv, StoreInv, SaveOnItsWay, AbsentIsEmpty
    <3>2. next = 1 => SetTo(saving, next) = Empty
      BY <2>1, SetToFacts DEF IInv, StoreInv, TypeOK, MainTypes
    <3>3. QED
      BY <1>5, <2>3, <3>1, <3>2
  <2>4. QED
    BY <2>2, <2>3
<1>10. NeverMixed'
  <2>1. ASSUME NEW f \in exist' PROVE \E j \in Given : IsPartOf(disk'[f], j)
    <3>1. CASE f = n /\ n \in dirty
      BY <1>5, <1>6, <3>1, SetToFacts
    <3>2. CASE ~(f = n /\ n \in dirty)
      <4>1. f \in exist /\ f \in Files /\ disk'[f] = disk[f]
        BY <1>5, <3>2 DEF IInv, StoreInv, TypeOK, FileTypes
      <4>2. QED
        BY <4>1 DEF IInv, StoreInv, NeverMixed
    <3>3. QED
      BY <3>1, <3>2
  <2>2. QED
    BY <2>1 DEF NeverMixed, IsPartOf
<1>11. SavedIsWhole'
  BY <1>1, <1>5, <1>6 DEF IInv, StoreInv, SavedIsWhole, main, history
<1>12. ASSUME NEW u \in Threads, look[u].at # "idle", NEW f \in Files \ (touched[u] \cup hurt)
       PROVE  /\ disk[f] = Encode(stored[f]) \/ stored[f] = NoJob
              /\ mem'[f] = mem[f] \/ mem'[f] = disk[f]
              /\ f = n => mem'[f] = disk[f]
  <2>1. saving = NoJob \/ saving.name # f
    BY <1>12 DEF IInv, LookOnItsWay
  <2>2. f = n => n \notin dirty
    BY <1>6, <2>1
  <2>3. QED
    BY <1>5, <2>1, <2>2 DEF IInv, StoreInv, SavedIsWhole
<1>13. ASSUME NEW u \in Threads, look'[u].at # "idle", NEW f \in Files \ (touched[u] \cup hurt)
       PROVE  ReadSoFar(u, f)'
  <2>1. look[u].at # "idle"
    BY <1>1, <1>4, <1>13
  <2>2. ReadSoFar(u, f)
    BY <2>1 DEF IInv, LookOnItsWay
  <2>3. CASE u # t
    BY <1>1, <1>4, <1>12, <2>1, <2>2, <2>3 DEF ReadSoFar, history
  <2>4. CASE u = t /\ f # n
    BY <1>1, <1>2, <1>4, <2>2, <2>4 DEF ReadSoFar, history
  <2>5. CASE u = t /\ f = n
    <3>1. stored[f] # NoJob /\ stored[f] \in Given
      BY <1>1, <2>2, <2>5 DEF ReadSoFar, IInv, StoreInv, TypeOK, HistoryTypes
    <3>2. mem'[f] = Encode(stored[f]) /\ SetTo(stored[f], 1) = Empty
      BY <1>12, <2>1, <2>5, <3>1, SetToFacts
    <3>3. QED
      BY <1>1, <1>2, <1>4, <2>5, <3>1, <3>2 DEF ReadSoFar, history
  <2>6. QED
    BY <2>3, <2>4, <2>5
<1>14. LookOnItsWay'
  <2>1. \A u \in Threads : look'[u].at # "idle" =>
          /\ saving # NoJob => saving.name \in touched[u]
          /\ look'[u].at = "done" => look'[u].todo = {}
    BY <1>1, <1>2, <1>4 DEF IInv, LookOnItsWay
  <2>2. QED
    BY <1>1, <1>13, <2>1 DEF LookOnItsWay, main, history
<1>15. QED
  BY <1>7, <1>8, <1>9, <1>10, <1>11, <1>14 DEF IInv, StoreInv

\* The caller gives its store up.
LEMMA LeaveStep == ASSUME IInv, NEW t \in Threads, Leave(t) PROVE IInv'
<1>1. /\ look' = [look EXCEPT ![t] = NoLook] /\ jobs' = [jobs EXCEPT ![t] = [f \in Files |-> NoJob]]
      /\ touched' = [touched EXCEPT ![t] = {}]
      /\ UNCHANGED <<exist, disk, mem, dirty, main, stored, hurt>>
  BY DEF Leave, files
<1>2. DOMAIN look = Threads /\ DOMAIN jobs = Threads /\ touched \in [Threads -> SUBSET Files]
  BY DEF IInv, StoreInv, TypeOK, LookTypes, HistoryTypes
<1>3. /\ look'[t] = NoLook /\ jobs'[t] = [f \in Files |-> NoJob] /\ DOMAIN look' = Threads /\ DOMAIN jobs' = Threads
      /\ \A u \in Threads \ {t} : look'[u] = look[u] /\ jobs'[u] = jobs[u] /\ touched'[u] = touched[u]
      /\ touched' \in [Threads -> SUBSET Files]
  BY <1>1, <1>2
<1>4. LookTypes'
  BY <1>3, NoLookFacts, EmptyFacts, GroupFacts DEF IInv, StoreInv, TypeOK, LookTypes
<1>5. QED
  BY <1>1, <1>3, <1>4, NoLookFacts, LookStepKept

\* The daemon dies: the save in progress leaves its file hurt.
LEMMA CrashStep == ASSUME IInv, Crash PROVE IInv'
<1>1. /\ mem' = [f \in Files |-> Empty] /\ dirty' = {} /\ saving' = NoJob /\ next' = 0
      /\ look' = [t \in Threads |-> NoLook] /\ jobs' = [t \in Threads |-> [f \in Files |-> NoJob]]
      /\ touched' = [t \in Threads |-> {}]
      /\ hurt' = IF saving # NoJob THEN hurt \cup {saving.name} ELSE hurt
      /\ UNCHANGED <<exist, disk, stored>>
  BY DEF Crash
<1>2. saving # NoJob => saving.name \in Files
  BY GivenFacts DEF IInv, StoreInv, TypeOK, MainTypes, Files
<1>3. TypeOK'
  <2>1. TypeOK
    BY DEF IInv, StoreInv
  <2>2. FileTypes'
    BY <1>1, <2>1, EmptyFacts DEF TypeOK, FileTypes
  <2>3. MainTypes'
    BY <1>1, GroupFacts DEF MainTypes
  <2>4. LookTypes'
    BY <1>1, NoLookFacts, EmptyFacts, GroupFacts DEF LookTypes
  <2>5. HistoryTypes'
    BY <1>1, <1>2, <2>1 DEF TypeOK, HistoryTypes
  <2>6. QED
    BY <2>2, <2>3, <2>4, <2>5 DEF TypeOK
<1>4. OneWriter' /\ AbsentIsEmpty' /\ SaveOnItsWay' /\ NeverMixed' /\ SavedIsWhole'
  BY <1>1 DEF IInv, StoreInv, OneWriter, AbsentIsEmpty, SaveOnItsWay, NeverMixed, IsPartOf, SavedIsWhole
<1>5. LookOnItsWay'
  BY <1>1, NoLookFacts DEF LookOnItsWay
<1>6. QED
  BY <1>3, <1>4, <1>5 DEF IInv, StoreInv

-------------------------------------------------------------------------------
LEMMA StepInvariant == IInv /\ [Next]_vars => IInv'
<1> SUFFICES ASSUME IInv, [Next]_vars PROVE IInv'
  OBVIOUS
<1>1. ASSUME NEW t \in Threads, LookStep(t) PROVE IInv'
  <2>1. ASSUME LookEnds(t), NEW s, Answers(t, s) PROVE IInv'
    BY <2>1, AnswersStep
  <2>2. CASE GetJobs(t)
    BY <2>1, <2>2 DEF GetJobs
  <2>3. ASSUME NEW uuid \in Uuids, GetJobsByUuid(t, uuid) PROVE IInv'
    BY <2>1, <2>3 DEF GetJobsByUuid
  <2>4. ASSUME NEW name \in Names, GetJobByName(t, name) PROVE IInv'
    <3>1. \E s : LookEnds(t) /\ Answers(t, s)
      BY <2>4 DEF GetJobByName
    <3>2. QED
      BY <2>1, <3>1
  <2>5. QED
    BY <1>1, <2>2, <2>3, <2>4, LookBeginStep, LookGroupStep, LookAppendStep, LeaveStep, LookOpenStep
    DEF LookStep
<1>2. CASE UNCHANGED vars
  <2>1. UNCHANGED <<files, main, lookups, history>>
    BY <1>2 DEF vars
  <2>2. TypeOK'
    BY <2>1 DEF IInv, StoreInv, TypeOK, FileTypes, MainTypes, LookTypes, HistoryTypes,
       files, main, lookups, history
  <2>3. OneWriter' /\ AbsentIsEmpty' /\ SaveOnItsWay' /\ NeverMixed' /\ SavedIsWhole'
    BY <2>1 DEF IInv, StoreInv, OneWriter, AbsentIsEmpty, SaveOnItsWay, NeverMixed, IsPartOf,
       SavedIsWhole, files, main, history
  <2>4. LookOnItsWay'
    BY <2>1, LookKept DEF IInv, LookOnItsWay, files, main, history
  <2>5. QED
    BY <2>2, <2>3, <2>4 DEF IInv, StoreInv
<1>3. QED
  BY <1>1, <1>2, SaveBeginStep, SaveOpenStep, SaveSetStep, SaveSyncStep, RemoveStep, RenameStep, CrashStep
  DEF Next

LEMMA Invariance == Spec => []IInv
BY InitInvariant, StepInvariant, PTL DEF Spec

\* Every variable keeps its type, whatever lookups, saves and crashes interleave.
THEOREM StoreTypes == Spec => []TypeOK
<1>1. IInv => TypeOK
  BY DEF IInv, StoreInv
<1>2. QED
  BY <1>1, Invariance, PTL

\* No file ever holds parts of two jobs or of two versions of a job, for any number of
\* jobs and of threads whose lookups write a save's keys before it does.
THEOREM FilesNeverMix == Spec => []NeverMixed
<1>1. IInv => NeverMixed
  BY DEF IInv, StoreInv
<1>2. QED
  BY <1>1, Invariance, PTL

\* A save that has ended is whole on disk and stays so.
THEOREM SavesAreWhole == Spec => []SavedIsWhole
<1>1. IInv => SavedIsWhole
  BY DEF IInv, StoreInv
<1>2. QED
  BY <1>1, Invariance, PTL

\* A job comes back from its file as the same job.
LEMMA DecodeUndoesEncode ==
    ASSUME NEW job \in Given
    PROVE  Decode(Encode(job)) # NoJob /\ SameJob(Decode(Encode(job)), job)
<1>1. job \in Jobs /\ job.ssh \in Targets
  BY StoreAssumption, GivenFacts
<1> DEFINE back == Regroup(Flatten(job.ssh))
<1>2. back \in Targets /\ Legs(back) = Legs(job.ssh)
  BY <1>1, RegroupUndoesFlatten
<1> HIDE DEF back
<1>3. Decode(Encode(job)) = [job EXCEPT !.ssh = back]
  BY <1>1 DEF Encode, Decode, Jobs, back
<1>4. Decode(Encode(job)) \in Jobs
  BY <1>1, <1>2, <1>3 DEF Jobs
<1>5. Decode(Encode(job)).ssh = back /\ \A k \in Keys \ {"ssh"} : Decode(Encode(job))[k] = job[k]
  BY <1>1, <1>3 DEF Jobs, Keys
<1>6. QED
  BY <1>2, <1>4, <1>5, StoreAssumption DEF SameJob

\* Files that nobody changes while a lookup runs are read as they were stored: the same
\* job with the same legs per server, or none.
THEOREM UntouchedFilesAreRead == Spec => []UntouchedIsRead
<1>1. ASSUME IInv PROVE UntouchedIsRead
  <2>1. ASSUME NEW t \in Threads, look[t].at = "done", NEW f \in Files \ (touched[t] \cup hurt)
        PROVE  IF stored[f] = NoJob THEN jobs[t][f] = NoJob
               ELSE jobs[t][f] # NoJob /\ SameJob(jobs[t][f], stored[f])
    <3>1. ReadSoFar(t, f) /\ look[t].todo = {}
      BY <1>1, <2>1 DEF IInv, LookOnItsWay
    <3>2. stored[f] \in Given \cup {NoJob}
      BY <1>1 DEF IInv, StoreInv, TypeOK, HistoryTypes
    <3>3. stored[f] # NoJob => jobs[t][f] = Decode(Encode(stored[f]))
      BY <2>1, <3>1 DEF ReadSoFar
    <3>4. QED
      BY <2>1, <3>1, <3>2, <3>3, DecodeUndoesEncode DEF ReadSoFar
  <2>2. QED
    BY <2>1 DEF UntouchedIsRead
<1>2. QED
  BY <1>1, Invariance, PTL

-------------------------------------------------------------------------------
\* What the accessors answer when nothing is saved, renamed or removed beside them.

\* Every thread has an answer.
HasAnswers == answer = [t \in Threads |-> answer[t]]

\* No step takes the answer of a thread away.
LEMMA AnswersStay == HasAnswers /\ [Next]_vars => HasAnswers'
<1> SUFFICES ASSUME HasAnswers, [Next]_vars PROVE HasAnswers'
  OBVIOUS
<1>1. \/ UNCHANGED answer
      \/ \E t \in Threads : \E s : answer' = [answer EXCEPT ![t] = s]
      \/ answer' = [t \in Threads |-> {}]
  <2>1. ASSUME NEW t \in Threads, LookStep(t)
        PROVE  UNCHANGED answer \/ \E s : answer' = [answer EXCEPT ![t] = s]
    <3>1. CASE LookBegin(t) \/ LookGroup(t) \/ LookAppend(t) \/ Leave(t) \/ \E f \in Files : LookOpen(t, f)
      BY <3>1 DEF LookBegin, LookGroup, LookAppend, Leave, LookOpen
    <3>2. CASE \/ GetJobs(t) \/ \E uuid \in Uuids : GetJobsByUuid(t, uuid)
               \/ \E name \in Names : GetJobByName(t, name)
      <4>1. \E s : Answers(t, s)
        BY <3>2 DEF GetJobs, GetJobsByUuid, GetJobByName
      <4>2. QED
        BY <4>1 DEF Answers
    <3>3. QED
      BY <2>1, <3>1, <3>2 DEF LookStep
  <2>2. CASE \/ \E job \in Given : SaveBegin(job)
             \/ SaveOpen \/ SaveSet \/ SaveSync
             \/ \E f \in Files : RemoveJob(f)
             \/ \E f, g \in Files : RenameJob(f, g)
             \/ UNCHANGED vars
    BY <2>2 DEF SaveBegin, SaveOpen, SaveSet, SaveSync, RemoveJob, RenameJob, lookups, vars
  <2>3. CASE Crash
    BY <2>3 DEF Crash
  <2>4. QED
    BY <2>1, <2>2, <2>3 DEF Next
<1>2. QED
  BY <1>1 DEF HasAnswers

\* The same job has the same name and the same disk.
LEMMA SameJobFacts ==
    ASSUME NEW a, NEW b, SameJob(a, b)
    PROVE  a.name = b.name /\ a.partition_uuid = b.partition_uuid
<1>1. {"name", "partition_uuid"} \subseteq Keys \ {"ssh"}
  BY DEF Keys
<1>2. a["name"] = b["name"] /\ a["partition_uuid"] = b["partition_uuid"]
  BY <1>1 DEF SameJob
<1>3. QED
  BY <1>2

\* A quiet lookup that has read every file has read what is stored.
LEMMA QuietRead ==
    ASSUME IInv, NEW t \in Threads, Quiet(t), LookEnds(t)
    PROVE  AreOf(Read(t), Stored) /\ Cover(Read(t), Stored)
<1>1. look[t].at = "scan" /\ look[t].todo = {} /\ touched[t] = {} /\ hurt = {}
  BY DEF Quiet, LookEnds
<1>2. ASSUME NEW f \in Files
      PROVE  IF stored[f] = NoJob THEN jobs[t][f] = NoJob
             ELSE jobs[t][f] # NoJob /\ SameJob(jobs[t][f], stored[f])
  <2>1. ReadSoFar(t, f)
    BY <1>1 DEF IInv, LookOnItsWay
  <2>2. stored[f] \in Given \cup {NoJob}
    BY DEF IInv, StoreInv, TypeOK, HistoryTypes
  <2>3. stored[f] # NoJob => jobs[t][f] = Decode(Encode(stored[f]))
    BY <1>1, <2>1 DEF ReadSoFar
  <2>4. QED
    BY <2>1, <2>2, <2>3, DecodeUndoesEncode DEF ReadSoFar
<1>3. AreOf(Read(t), Stored)
  BY <1>2 DEF AreOf, Read, Stored
<1>4. Cover(Read(t), Stored)
  BY <1>2 DEF Cover, Read, Stored
<1>5. QED
  BY <1>3, <1>4

\* For any number of jobs, files and threads: beside no save, rename or removal an accessor
\* answers just what is stored.
THEOREM QuietAccessorsAnswer == Spec => QuietLookupsAreRight
<1> DEFINE Right(t) ==
        /\ GetJobs(t) => AreOf(answer'[t], Stored) /\ Cover(answer'[t], Stored)
        /\ \A uuid \in Uuids : GetJobsByUuid(t, uuid) =>
              LET wanted == {job \in Stored : job.partition_uuid = uuid}
              IN  AreOf(answer'[t], wanted) /\ Cover(answer'[t], wanted)
        /\ \A name \in Names : GetJobByName(t, name) =>
              LET wanted == {job \in Stored : job.name = name}
              IN  /\ AreOf(answer'[t], wanted)
                  /\ IF wanted = {} THEN answer'[t] = {}
                     ELSE \E a \in answer'[t] : answer'[t] = {a}
<1>1. ASSUME IInv, HasAnswers, NEW t \in Threads, Quiet(t) PROVE Right(t)
  <2>1. ASSUME NEW s, Answers(t, s) PROVE answer'[t] = s
    BY <1>1, <2>1 DEF Answers, HasAnswers
  <2>2. LookEnds(t) => AreOf(Read(t), Stored) /\ Cover(Read(t), Stored)
    BY <1>1, QuietRead
  <2>3. ASSUME GetJobs(t) PROVE AreOf(answer'[t], Stored) /\ Cover(answer'[t], Stored)
    BY <2>1, <2>2, <2>3 DEF GetJobs
  <2>4. ASSUME NEW uuid \in Uuids, GetJobsByUuid(t, uuid)
        PROVE  LET wanted == {job \in Stored : job.partition_uuid = uuid}
               IN  AreOf(answer'[t], wanted) /\ Cover(answer'[t], wanted)
    <3>1. answer'[t] = {job \in Read(t) : job.partition_uuid = uuid} /\ LookEnds(t)
      BY <2>1, <2>4 DEF GetJobsByUuid
    <3>2. QED
      BY <2>2, <3>1, SameJobFacts DEF AreOf, Cover
  <2>5. ASSUME NEW name \in Names, GetJobByName(t, name)
        PROVE  LET wanted == {job \in Stored : job.name = name}
               IN  /\ AreOf(answer'[t], wanted)
                   /\ IF wanted = {} THEN answer'[t] = {}
                      ELSE \E a \in answer'[t] : answer'[t] = {a}
    <3> DEFINE found == {job \in Read(t) : job.name = name}
               wanted == {job \in Stored : job.name = name}
    <3>1. LookEnds(t) /\ IF found = {} THEN answer'[t] = {} ELSE \E job \in found : answer'[t] = {job}
      BY <2>1, <2>5 DEF GetJobByName
    <3>2. AreOf(found, wanted) /\ Cover(found, wanted)
      BY <2>2, <3>1, SameJobFacts DEF AreOf, Cover
    <3> HIDE DEF found, wanted
    <3>3. found = {} <=> wanted = {}
      BY <3>2 DEF AreOf, Cover
    <3>4. AreOf(answer'[t], wanted)
      BY <3>1, <3>2 DEF AreOf
    <3>5. IF wanted = {} THEN answer'[t] = {} ELSE \E a \in answer'[t] : answer'[t] = {a}
      BY <3>1, <3>3
    <3>6. QED
      BY <3>4, <3>5 DEF wanted
  <2>6. QED
    BY <2>3, <2>4, <2>5
<1>2. IInv /\ HasAnswers => [\A t \in Threads : Quiet(t) => Right(t)]_vars
  BY <1>1
<1>3. Init => HasAnswers
  BY DEF Init, HasAnswers
<1>4. QED
  BY <1>2, <1>3, AnswersStay, Invariance, PTL DEF Spec, QuietLookupsAreRight
===============================================================================

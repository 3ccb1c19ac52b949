----------------------------- MODULE MainConfProofs ----------------------------
(***************************************************************************)
(* Theorems of MainConf, for any number of threads and any old files: the    *)
(* invariant says that only the daemon's first construction, which nothing   *)
(* overlaps, has anything to add to the file; all later ones find it         *)
(* complete, and so cannot undo what the administrator sets meanwhile.       *)
(***************************************************************************)
EXTENDS MainConf, TLAPS

\* Contents that no construction adds to.
Complete(m) == (\A k \in Seeds : m[k] # "unset") /\ m["paths/logs"] # "old"

\* Until the first construction is over, there is nothing but it; afterwards the file is
\* complete, and no construction gets to a place where it would be changed.
OneFirst ==
    /\ ~up => ~editing /\ \A t \in Threads \ {Main} : pc[t] = "off"
    /\ editing => pc[Main] = "off"
    /\ up => /\ exist /\ Complete(disk) /\ Complete(mem)
             /\ \A t \in Threads : pc[t] \in {"off", "open", "seed", "ensure", "settings"}

\* What is set and not written is the administrator's, or the first construction's.
Pending ==
    /\ dirty => editing \/ (~up /\ pc[Main] \in {"first", "sync", "migrated"})
    /\ mem = disk \/ dirty \/ (~up /\ pc[Main] \in {"off", "firstOpen", "open"})

\* How far the first construction has come: with a new file ...
MakingFile ==
    pc[Main] \in {"firstOpen", "first"} /\ ~up =>
        /\ ~exist
        /\ pc[Main] = "firstOpen" => at[Main] = 1
        /\ pc[Main] = "first" =>
              /\ ~dirty => at[Main] = 1
              /\ \A i \in 1..(at[Main] - 1) : mem[FirstKeys[i]] = "default"
              /\ \A k \in PathKeys : <<k, "default">> \in dirs

\* ... and with an old one.
CompletingFile ==
    pc[Main] \notin {"off", "firstOpen", "first"} /\ ~up =>
        /\ exist
        /\ pc[Main] \in {"set", "sync"} =>
              /\ at[Main] <= Len(SeedKeys)
              /\ SeedKeys[at[Main]] \in PathKeys => <<SeedKeys[at[Main]], "default">> \in dirs
        /\ pc[Main] = "open" => at[Main] = 1
        /\ pc[Main] \in {"seed", "set", "sync"} =>
              \A i \in 1..(at[Main] - 1) : mem[SeedKeys[i]] # "unset"
        /\ pc[Main] = "set" => mem[SeedKeys[at[Main]]] = "unset"
        /\ pc[Main] = "sync" => mem[SeedKeys[at[Main]]] # "unset"
        /\ pc[Main] \in {"migrate", "migrated"} => \A k \in Seeds : mem[k] # "unset"
        /\ pc[Main] = "migrate" => mem["paths/logs"] = "old"
        /\ pc[Main] = "migrated" => mem["paths/logs"] # "old"
        /\ pc[Main] \in {"ensure", "settings"} => Complete(mem)

\* A new file is whole, in memory too once it exists.
Whole ==
    /\ ~exist => fresh /\ disk = Nothing /\ \A k \in Keys : wish[k] = "unset"
    /\ exist /\ fresh => \A k \in Keys : disk[k] # "unset"
    /\ exist /\ fresh /\ dirty => \A k \in Keys : mem[k] # "unset"

\* The file of an upgrade gets no listening address.
Kept == ~fresh => disk["web/bind"] # "default" /\ mem["web/bind"] # "default"

\* Default paths have their directories, in the file and in memory.
Made == \A k \in PathKeys : disk[k] = "default" \/ mem[k] = "default" => <<k, "default">> \in dirs

Progress == OneFirst /\ Pending /\ MakingFile /\ CompletingFile
Contents == Whole /\ Kept /\ Made /\ AdminChoiceStands
IInv == TypeOK /\ Progress /\ Contents

-------------------------------------------------------------------------------
\* The key lists: all are keys, and the two that nothing seeds differ.
LEMMA KeyFacts ==
    /\ Len(FirstKeys) = 12 /\ Len(SeedKeys) = 6
    /\ \A i \in 1..12 : FirstKeys[i] \in Keys
    /\ \A k \in Keys : \E i \in 1..12 : k = FirstKeys[i]
    /\ \A i \in 1..6 : SeedKeys[i] \in Seeds
    /\ \A k \in Seeds : \E i \in 1..6 : k = SeedKeys[i]
    /\ Seeds \subseteq Keys /\ PathKeys \subseteq Seeds
    /\ "web/bind" \in Keys \ Seeds /\ "paths/logs" \in Keys \ Seeds
<1>1. Len(FirstKeys) = 12 /\ Len(SeedKeys) = 6
  BY DEF FirstKeys, SeedKeys
<1>2. Keys = {FirstKeys[1], FirstKeys[2], FirstKeys[3], FirstKeys[4], FirstKeys[5], FirstKeys[6],
              FirstKeys[7], FirstKeys[8], FirstKeys[9], FirstKeys[10], FirstKeys[11], FirstKeys[12]}
  <2>1. 1..12 = {1, 2, 3, 4, 5, 6, 7, 8, 9, 10, 11, 12}
    OBVIOUS
  <2>2. QED
    BY <1>1, <2>1 DEF Keys
<1>3. Seeds = {SeedKeys[1], SeedKeys[2], SeedKeys[3], SeedKeys[4], SeedKeys[5], SeedKeys[6]}
  <2>1. 1..6 = {1, 2, 3, 4, 5, 6}
    OBVIOUS
  <2>2. QED
    BY <1>1, <2>1 DEF Seeds
<1>4. Seeds = {"paths/pbservers", "paths/sshservers", "scripts/run_user", "smtp/from", "smtp/port",
               "smtp/security"}
  BY <1>3 DEF SeedKeys
<1>5. Keys = {"main/debug", "paths/backupjobs", "paths/pbservers", "paths/sshservers", "paths/logs",
              "paths/scripts", "paths/initd", "scripts/run_user", "smtp/from", "smtp/port",
              "smtp/security", "web/bind"}
  BY <1>2 DEF FirstKeys
<1>6. (\A i \in 1..12 : FirstKeys[i] \in Keys) /\ (\A k \in Keys : \E i \in 1..12 : k = FirstKeys[i])
  BY <1>1 DEF Keys
<1>7. (\A i \in 1..6 : SeedKeys[i] \in Seeds) /\ (\A k \in Seeds : \E i \in 1..6 : k = SeedKeys[i])
  BY <1>1 DEF Seeds
<1>8. QED
  BY <1>1, <1>4, <1>5, <1>6, <1>7 DEF PathKeys

\* A sync makes the file and the memory what counts, and leaves nothing pending.
LEMMA SyncFacts ==
    ASSUME Sync, TypeOK
    PROVE  /\ mem' = Effective /\ disk' = Effective /\ ~dirty'
           /\ exist' = (exist \/ dirty)
           /\ mem' \in [Keys -> Values] /\ disk' \in [Keys -> Values]
           /\ dirty' \in BOOLEAN /\ exist' \in BOOLEAN
<1>1. CASE dirty
  BY <1>1 DEF Sync, Effective, TypeOK
<1>2. CASE ~dirty
  BY <1>2 DEF Sync, Effective, TypeOK
<1>3. QED
  BY <1>1, <1>2

\* In a new process nothing of the file is in memory.
LEMMA NothingFacts == Nothing \in [Keys -> Values] /\ \A k \in Keys : Nothing[k] = "unset"
BY DEF Nothing, Values

-------------------------------------------------------------------------------
\* Each step of a construction, of the administrator or of fate keeps the invariant.
LEMMA ConstructKeeps ==
    ASSUME IInv, NEW t \in Threads, Construct(t) PROVE IInv'
<1> USE KeyFacts, ConfAssumption
<1>1. TypeOK'
  BY DEF IInv, Construct, Goto, conf, TypeOK, Labels
<1>2. OneFirst'
  BY DEF IInv, Progress, Construct, Goto, conf, OneFirst
<1>3. Pending'
  BY DEF IInv, Progress, Construct, Goto, conf, Pending
<1>4. MakingFile'
  BY DEF IInv, Construct, Goto, conf, TypeOK, MakingFile
<1>5. CompletingFile'
  BY DEF IInv, Construct, Goto, conf, TypeOK, CompletingFile
<1>6. Whole'
  BY DEF IInv, Contents, Construct, conf, Whole
<1>7. Kept'
  BY DEF IInv, Contents, Construct, conf, Kept
<1>8. Made'
  BY DEF IInv, Contents, Construct, conf, Made
<1>9. AdminChoiceStands'
  BY DEF IInv, Contents, Construct, conf, AdminChoiceStands, Effective
<1>10. QED
  BY <1>1, <1>2, <1>3, <1>4, <1>5, <1>6, <1>7, <1>8, <1>9 DEF IInv, Progress, Contents

LEMMA FirstOpenKeeps ==
    ASSUME IInv, NEW t \in Threads, FirstOpen(t) PROVE IInv'
<1> USE KeyFacts, ConfAssumption
<1>0. mem' = Effective /\ disk' = Effective /\ ~dirty' /\ exist' = (exist \/ dirty)
      /\ mem' \in [Keys -> Values] /\ disk' \in [Keys -> Values]
      /\ dirty' \in BOOLEAN /\ exist' \in BOOLEAN
  BY SyncFacts DEF FirstOpen, IInv
<1>1. TypeOK'
  BY <1>0 DEF IInv, FirstOpen, Goto, TypeOK, Labels, Values
<1>2. OneFirst'
  BY <1>0 DEF IInv, Progress, FirstOpen, Goto, OneFirst
<1>3. Pending'
  BY <1>0 DEF Pending
<1>4. MakingFile'
  BY <1>0 DEF IInv, Progress, FirstOpen, MakingFile, OneFirst, Pending
<1>5. CompletingFile'
  BY <1>0 DEF IInv, Progress, FirstOpen, Goto, CompletingFile, OneFirst
<1>6. Whole'
  BY <1>0 DEF IInv, Progress, Contents, FirstOpen, Whole, OneFirst, Pending, Effective
<1>7. Kept'
  BY <1>0 DEF IInv, Progress, Contents, FirstOpen, Kept, Whole, OneFirst, MakingFile
<1>8. Made'
  BY <1>0 DEF FirstOpen, Made
<1>9. AdminChoiceStands'
  BY <1>0 DEF IInv, Contents, FirstOpen, AdminChoiceStands, Effective
<1>10. QED
  BY <1>1, <1>2, <1>3, <1>4, <1>5, <1>6, <1>7, <1>8, <1>9 DEF IInv, Progress, Contents

LEMMA FirstSetKeeps ==
    ASSUME IInv, NEW t \in Threads, FirstSet(t) PROVE IInv'
<1> USE KeyFacts, ConfAssumption
<1>1. TypeOK'
  BY DEF IInv, FirstSet, SetValue, TypeOK, Values
<1>2. OneFirst'
  BY DEF IInv, Progress, FirstSet, OneFirst
<1>3. Pending'
  BY DEF IInv, Progress, FirstSet, SetValue, Pending, OneFirst
<1>4. MakingFile'
  BY DEF IInv, Progress, FirstSet, SetValue, TypeOK, MakingFile
<1>5. CompletingFile'
  BY DEF IInv, Progress, FirstSet, CompletingFile, OneFirst
<1>6. Whole'
  BY DEF IInv, Progress, Contents, FirstSet, SetValue, Whole, OneFirst, Pending
<1>7. Kept'
  BY DEF IInv, Progress, Contents, FirstSet, Kept, Whole, OneFirst, MakingFile
<1>8. Made'
  BY DEF IInv, Progress, FirstSet, Made, OneFirst, MakingFile
<1>9. AdminChoiceStands'
  BY DEF IInv, Progress, Contents, FirstSet, AdminChoiceStands, OneFirst, MakingFile, Whole
<1>10. QED
  BY <1>1, <1>2, <1>3, <1>4, <1>5, <1>6, <1>7, <1>8, <1>9 DEF IInv, Progress, Contents

LEMMA FirstSyncKeeps ==
    ASSUME IInv, NEW t \in Threads, FirstSync(t) PROVE IInv'
<1> USE KeyFacts, ConfAssumption
<1>0. mem' = Effective /\ disk' = Effective /\ ~dirty' /\ exist' = (exist \/ dirty)
      /\ mem' \in [Keys -> Values] /\ disk' \in [Keys -> Values]
      /\ dirty' \in BOOLEAN /\ exist' \in BOOLEAN
  BY SyncFacts DEF FirstSync, IInv
<1>1. TypeOK'
  BY <1>0 DEF IInv, FirstSync, Goto, TypeOK, Labels
<1>2. OneFirst'
  BY <1>0 DEF IInv, Progress, FirstSync, Goto, OneFirst
<1>3. Pending'
  BY <1>0 DEF Pending
<1>4. MakingFile'
  BY <1>0 DEF IInv, Progress, FirstSync, Goto, TypeOK, MakingFile, OneFirst
<1>5. CompletingFile'
  BY <1>0 DEF IInv, Progress, FirstSync, Goto, TypeOK, CompletingFile, MakingFile, OneFirst,
     Complete, Effective
<1>6. Whole'
  BY <1>0 DEF IInv, Progress, FirstSync, TypeOK, Whole, OneFirst, MakingFile, Effective
<1>7. Kept'
  BY <1>0 DEF IInv, Progress, Contents, FirstSync, TypeOK, Kept, OneFirst, MakingFile
<1>8. Made'
  BY <1>0 DEF IInv, Progress, FirstSync, Made, OneFirst, MakingFile
<1>9. AdminChoiceStands'
  BY <1>0 DEF IInv, Contents, FirstSync, AdminChoiceStands, Effective
<1>10. QED
  BY <1>1, <1>2, <1>3, <1>4, <1>5, <1>6, <1>7, <1>8, <1>9 DEF IInv, Progress, Contents

LEMMA OpenKeeps ==
    ASSUME IInv, NEW t \in Threads, Open(t) PROVE IInv'
<1> USE KeyFacts, ConfAssumption
<1>0. mem' = Effective /\ disk' = Effective /\ ~dirty' /\ exist' = (exist \/ dirty)
      /\ mem' \in [Keys -> Values] /\ disk' \in [Keys -> Values]
      /\ dirty' \in BOOLEAN /\ exist' \in BOOLEAN
  BY SyncFacts DEF Open, IInv
<1>1. TypeOK'
  BY <1>0 DEF IInv, Open, Goto, TypeOK, Labels
<1>2. OneFirst'
  BY <1>0 DEF IInv, Progress, Open, Goto, TypeOK, OneFirst, Effective
<1>3. Pending'
  BY <1>0 DEF Pending
<1>4. MakingFile'
  BY <1>0 DEF IInv, Progress, Open, Goto, MakingFile, OneFirst
<1>5. CompletingFile'
  BY <1>0 DEF IInv, Progress, Open, Goto, TypeOK, CompletingFile, OneFirst
<1>6. Whole'
  BY <1>0 DEF IInv, Progress, Contents, Open, Whole, OneFirst, Pending, Effective
<1>7. Kept'
  BY <1>0 DEF IInv, Contents, Open, Kept, Effective
<1>8. Made'
  BY <1>0 DEF IInv, Contents, Open, Made, Effective
<1>9. AdminChoiceStands'
  BY <1>0 DEF IInv, Contents, Open, AdminChoiceStands, Effective
<1>10. QED
  BY <1>1, <1>2, <1>3, <1>4, <1>5, <1>6, <1>7, <1>8, <1>9 DEF IInv, Progress, Contents

LEMMA SeedCheckKeeps ==
    ASSUME IInv, NEW t \in Threads, SeedCheck(t) PROVE IInv'
<1> USE KeyFacts, ConfAssumption
<1>1. TypeOK'
  BY DEF IInv, SeedCheck, Goto, conf, TypeOK, Labels, Values
<1>2. OneFirst'
  BY DEF IInv, Progress, SeedCheck, Goto, conf, TypeOK, OneFirst, Complete
<1>3. Pending'
  BY DEF IInv, Progress, SeedCheck, Goto, conf, TypeOK, Pending
<1>4. MakingFile'
  BY DEF IInv, Progress, SeedCheck, Goto, conf, TypeOK, MakingFile
<1>5. CompletingFile'
  BY DEF IInv, Progress, SeedCheck, Goto, conf, TypeOK, CompletingFile
<1>6. Whole'
  BY DEF IInv, Contents, SeedCheck, conf, Whole
<1>7. Kept'
  BY DEF IInv, Contents, SeedCheck, conf, Kept
<1>8. Made'
  BY DEF IInv, Contents, SeedCheck, conf, Made
<1>9. AdminChoiceStands'
  BY DEF IInv, Contents, SeedCheck, conf, AdminChoiceStands, Effective
<1>10. QED
  BY <1>1, <1>2, <1>3, <1>4, <1>5, <1>6, <1>7, <1>8, <1>9 DEF IInv, Progress, Contents

LEMMA SeedSetKeeps ==
    ASSUME IInv, NEW t \in Threads, SeedSet(t) PROVE IInv'
<1> USE KeyFacts, ConfAssumption
<1>1. TypeOK'
  BY DEF IInv, SeedSet, SetValue, Goto, TypeOK, Labels, Values
<1>2. OneFirst'
  BY DEF IInv, Progress, SeedSet, Goto, OneFirst
<1>3. Pending'
  BY DEF IInv, Progress, SeedSet, SetValue, Goto, TypeOK, Pending, OneFirst
<1>4. MakingFile'
  BY DEF IInv, Progress, SeedSet, SetValue, Goto, MakingFile
<1>5. CompletingFile'
  BY DEF IInv, Progress, SeedSet, SetValue, Goto, TypeOK, CompletingFile, OneFirst
<1>6. Whole'
  BY DEF IInv, Progress, Contents, SeedSet, SetValue, Whole, OneFirst, Pending
<1>7. Kept'
  BY DEF IInv, Progress, Contents, SeedSet, SetValue, TypeOK, Kept, OneFirst, CompletingFile
<1>8. Made'
  BY DEF IInv, Progress, Contents, SeedSet, SetValue, Made, OneFirst, CompletingFile
<1>9. AdminChoiceStands'
  BY  DEF IInv, Progress, Contents, SeedSet, SetValue, AdminChoiceStands, Effective,
     OneFirst, Pending, CompletingFile
<1>10. QED
  BY <1>1, <1>2, <1>3, <1>4, <1>5, <1>6, <1>7, <1>8, <1>9 DEF IInv, Progress, Contents

LEMMA SeedSyncKeeps ==
    ASSUME IInv, NEW t \in Threads, SeedSync(t) PROVE IInv'
<1> USE KeyFacts, ConfAssumption
<1>0. mem' = Effective /\ disk' = Effective /\ ~dirty' /\ exist' = (exist \/ dirty)
      /\ mem' \in [Keys -> Values] /\ disk' \in [Keys -> Values]
      /\ dirty' \in BOOLEAN /\ exist' \in BOOLEAN
  BY SyncFacts DEF SeedSync, IInv
<1>1. TypeOK'
  BY <1>0 DEF IInv, Progress, SeedSync, Goto, TypeOK, Labels, CompletingFile, OneFirst
<1>2. OneFirst'
  BY <1>0 DEF IInv, Progress, SeedSync, Goto, OneFirst
<1>3. Pending'
  BY <1>0 DEF Pending
<1>4. MakingFile'
  BY <1>0 DEF IInv, Progress, SeedSync, Goto, MakingFile, OneFirst
<1>5. CompletingFile'
  BY <1>0 DEF IInv, Progress, SeedSync, Goto, TypeOK, CompletingFile, Pending, Effective
<1>6. Whole'
  BY <1>0 DEF IInv, Progress, Contents, SeedSync, Whole, OneFirst, CompletingFile, Effective
<1>7. Kept'
  BY <1>0 DEF IInv, Contents, SeedSync, Kept, Effective
<1>8. Made'
  BY <1>0 DEF IInv, Contents, SeedSync, Made, Effective
<1>9. AdminChoiceStands'
  BY <1>0 DEF IInv, Contents, SeedSync, AdminChoiceStands, Effective
<1>10. QED
  BY <1>1, <1>2, <1>3, <1>4, <1>5, <1>6, <1>7, <1>8, <1>9 DEF IInv, Progress, Contents

LEMMA MigrateCheckKeeps ==
    ASSUME IInv, NEW t \in Threads, MigrateCheck(t) PROVE IInv'
<1> USE KeyFacts, ConfAssumption
<1>1. TypeOK'
  BY DEF IInv, MigrateCheck, Goto, conf, TypeOK, Labels
<1>2. OneFirst'
  BY DEF IInv, Progress, MigrateCheck, Goto, conf, OneFirst, Complete
<1>3. Pending'
  BY DEF IInv, Progress, MigrateCheck, Goto, conf, Pending
<1>4. MakingFile'
  BY DEF IInv, Progress, MigrateCheck, Goto, conf, MakingFile
<1>5. CompletingFile'
  BY DEF IInv, Progress, MigrateCheck, Goto, conf, TypeOK, CompletingFile, Complete
<1>6. Whole'
  BY DEF IInv, Contents, MigrateCheck, conf, Whole
<1>7. Kept'
  BY DEF IInv, Contents, MigrateCheck, conf, Kept
<1>8. Made'
  BY DEF IInv, Contents, MigrateCheck, conf, Made
<1>9. AdminChoiceStands'
  BY DEF IInv, Contents, MigrateCheck, conf, AdminChoiceStands, Effective
<1>10. QED
  BY <1>1, <1>2, <1>3, <1>4, <1>5, <1>6, <1>7, <1>8, <1>9 DEF IInv, Progress, Contents

LEMMA MigrateSetKeeps ==
    ASSUME IInv, NEW t \in Threads, MigrateSet(t) PROVE IInv'
<1> USE KeyFacts, ConfAssumption
<1>1. TypeOK'
  BY DEF IInv, MigrateSet, SetValue, Goto, TypeOK, Labels, Values
<1>2. OneFirst'
  BY DEF IInv, Progress, MigrateSet, Goto, OneFirst
<1>3. Pending'
  BY DEF IInv, Progress, MigrateSet, SetValue, Goto, TypeOK, Pending, OneFirst
<1>4. MakingFile'
  BY DEF IInv, Progress, MigrateSet, SetValue, Goto, MakingFile
<1>5. CompletingFile'
  BY DEF IInv, Progress, MigrateSet, SetValue, Goto, TypeOK, CompletingFile, OneFirst
<1>6. Whole'
  BY DEF IInv, Progress, Contents, MigrateSet, SetValue, Whole, OneFirst, Pending
<1>7. Kept'
  BY DEF IInv, Contents, MigrateSet, SetValue, Kept
<1>8. Made'
  BY DEF IInv, Contents, MigrateSet, SetValue, Made
<1>9. AdminChoiceStands'
  BY  DEF IInv, Progress, Contents, MigrateSet, SetValue, AdminChoiceStands, Effective,
     OneFirst, Pending, CompletingFile
<1>10. QED
  BY <1>1, <1>2, <1>3, <1>4, <1>5, <1>6, <1>7, <1>8, <1>9 DEF IInv, Progress, Contents

LEMMA MigrateSyncKeeps ==
    ASSUME IInv, NEW t \in Threads, MigrateSync(t) PROVE IInv'
<1> USE KeyFacts, ConfAssumption
<1>0. mem' = Effective /\ disk' = Effective /\ ~dirty' /\ exist' = (exist \/ dirty)
      /\ mem' \in [Keys -> Values] /\ disk' \in [Keys -> Values]
      /\ dirty' \in BOOLEAN /\ exist' \in BOOLEAN
  BY SyncFacts DEF MigrateSync, IInv
<1>1. TypeOK'
  BY <1>0 DEF IInv, MigrateSync, Goto, TypeOK, Labels
<1>2. OneFirst'
  BY <1>0 DEF IInv, Progress, MigrateSync, Goto, OneFirst
<1>3. Pending'
  BY <1>0 DEF Pending
<1>4. MakingFile'
  BY <1>0 DEF IInv, Progress, MigrateSync, Goto, MakingFile, OneFirst
<1>5. CompletingFile'
  BY <1>0 DEF IInv, Progress, MigrateSync, Goto, TypeOK, CompletingFile, Pending, Complete,
     Effective
<1>6. Whole'
  BY <1>0 DEF IInv, Progress, Contents, MigrateSync, Whole, OneFirst, CompletingFile, Effective
<1>7. Kept'
  BY <1>0 DEF IInv, Contents, MigrateSync, Kept, Effective
<1>8. Made'
  BY <1>0 DEF IInv, Contents, MigrateSync, Made, Effective
<1>9. AdminChoiceStands'
  BY <1>0 DEF IInv, Contents, MigrateSync, AdminChoiceStands, Effective
<1>10. QED
  BY <1>1, <1>2, <1>3, <1>4, <1>5, <1>6, <1>7, <1>8, <1>9 DEF IInv, Progress, Contents

LEMMA EnsureLogsKeeps ==
    ASSUME IInv, NEW t \in Threads, EnsureLogs(t) PROVE IInv'
<1> USE KeyFacts, ConfAssumption
<1>0. mem' = Effective /\ disk' = Effective /\ ~dirty' /\ exist' = (exist \/ dirty)
      /\ mem' \in [Keys -> Values] /\ disk' \in [Keys -> Values]
      /\ dirty' \in BOOLEAN /\ exist' \in BOOLEAN
  BY SyncFacts DEF EnsureLogs, IInv
<1>1. TypeOK'
  BY <1>0 DEF IInv, EnsureLogs, Goto, TypeOK, Labels, Values
<1>2. OneFirst'
  BY <1>0 DEF IInv, Progress, EnsureLogs, Goto, TypeOK, OneFirst, Effective
<1>3. Pending'
  BY <1>0 DEF Pending
<1>4. MakingFile'
  BY <1>0 DEF IInv, Progress, EnsureLogs, Goto, MakingFile, OneFirst
<1>5. CompletingFile'
  BY <1>0 DEF IInv, Progress, EnsureLogs, Goto, TypeOK, CompletingFile, Pending, Effective
<1>6. Whole'
  BY <1>0 DEF IInv, Progress, Contents, EnsureLogs, Whole, OneFirst, Pending, Effective
<1>7. Kept'
  BY <1>0 DEF IInv, Contents, EnsureLogs, Kept, Effective
<1>8. Made'
  BY <1>0 DEF IInv, Contents, EnsureLogs, Made, Effective
<1>9. AdminChoiceStands'
  BY <1>0 DEF IInv, Contents, EnsureLogs, AdminChoiceStands, Effective
<1>10. QED
  BY <1>1, <1>2, <1>3, <1>4, <1>5, <1>6, <1>7, <1>8, <1>9 DEF IInv, Progress, Contents

LEMMA SettingsKeeps ==
    ASSUME IInv, NEW t \in Threads, Settings(t) PROVE IInv'
<1> USE KeyFacts, ConfAssumption
<1>0. mem' = Effective /\ disk' = Effective /\ ~dirty' /\ exist' = (exist \/ dirty)
      /\ mem' \in [Keys -> Values] /\ disk' \in [Keys -> Values]
      /\ dirty' \in BOOLEAN /\ exist' \in BOOLEAN
  BY SyncFacts DEF Settings, IInv
<1>1. TypeOK'
  BY <1>0 DEF IInv, Settings, Goto, TypeOK, Labels
<1>2. OneFirst'
  BY <1>0 DEF IInv, Progress, Settings, Goto, TypeOK, OneFirst, Pending, CompletingFile,
     Effective
<1>3. Pending'
  BY <1>0 DEF Pending
<1>4. MakingFile'
  BY <1>0 DEF Settings, MakingFile
<1>5. CompletingFile'
  BY <1>0 DEF Settings, CompletingFile
<1>6. Whole'
  BY <1>0 DEF IInv, Progress, Contents, Settings, Whole, OneFirst, Pending, Effective
<1>7. Kept'
  BY <1>0 DEF IInv, Contents, Settings, Kept, Effective
<1>8. Made'
  BY <1>0 DEF IInv, Contents, Settings, Made, Effective
<1>9. AdminChoiceStands'
  BY <1>0 DEF IInv, Contents, Settings, AdminChoiceStands, Effective
<1>10. QED
  BY <1>1, <1>2, <1>3, <1>4, <1>5, <1>6, <1>7, <1>8, <1>9 DEF IInv, Progress, Contents

LEMMA AdminSetKeeps ==
    ASSUME IInv, NEW k \in AdminKeys, AdminSet(k) PROVE IInv'
<1> USE KeyFacts, ConfAssumption
<1>1. TypeOK'
  BY DEF IInv, AdminSet, SetValue, TypeOK, Values
<1>2. OneFirst'
  BY DEF IInv, Progress, AdminSet, SetValue, OneFirst, Complete
<1>3. Pending'
  BY DEF AdminSet, SetValue, Pending
<1>4. MakingFile'
  BY DEF AdminSet, MakingFile
<1>5. CompletingFile'
  BY DEF AdminSet, CompletingFile
<1>6. Whole'
  BY DEF IInv, Progress, Contents, AdminSet, SetValue, Whole, OneFirst, Pending
<1>7. Kept'
  BY DEF IInv, Contents, AdminSet, SetValue, Kept
<1>8. Made'
  BY DEF IInv, Contents, AdminSet, SetValue, Made
<1>9. AdminChoiceStands'
  BY  DEF IInv, Progress, Contents, AdminSet, SetValue, TypeOK, AdminChoiceStands,
     Effective, Pending
<1>10. QED
  BY <1>1, <1>2, <1>3, <1>4, <1>5, <1>6, <1>7, <1>8, <1>9 DEF IInv, Progress, Contents

LEMMA AdminSyncKeeps ==
    ASSUME IInv, AdminSync PROVE IInv'
<1> USE KeyFacts, ConfAssumption
<1>0. mem' = Effective /\ disk' = Effective /\ ~dirty' /\ exist' = (exist \/ dirty)
      /\ mem' \in [Keys -> Values] /\ disk' \in [Keys -> Values]
      /\ dirty' \in BOOLEAN /\ exist' \in BOOLEAN
  BY SyncFacts DEF AdminSync, IInv
<1>1. TypeOK'
  BY <1>0 DEF IInv, AdminSync, TypeOK
<1>2. OneFirst'
  BY <1>0 DEF IInv, Progress, AdminSync, OneFirst, Effective
<1>3. Pending'
  BY <1>0 DEF Pending
<1>4. MakingFile'
  BY <1>0 DEF IInv, Progress, AdminSync, MakingFile, OneFirst
<1>5. CompletingFile'
  BY <1>0 DEF IInv, Progress, AdminSync, CompletingFile, OneFirst
<1>6. Whole'
  BY <1>0 DEF IInv, Progress, Contents, AdminSync, Whole, OneFirst, Effective
<1>7. Kept'
  BY <1>0 DEF IInv, Contents, AdminSync, Kept, Effective
<1>8. Made'
  BY <1>0 DEF IInv, Contents, AdminSync, Made, Effective
<1>9. AdminChoiceStands'
  BY <1>0 DEF IInv, Contents, AdminSync, AdminChoiceStands, Effective
<1>10. QED
  BY <1>1, <1>2, <1>3, <1>4, <1>5, <1>6, <1>7, <1>8, <1>9 DEF IInv, Progress, Contents

LEMMA CrashKeeps ==
    ASSUME IInv, Crash PROVE IInv'
<1> USE KeyFacts, ConfAssumption
<1>1. TypeOK'
  <2>1. wish' \in [Keys -> {"unset", "chosen"}] /\ at' \in [Threads -> 1..(Len(FirstKeys) + 1)]
        /\ pc' \in [Threads -> Labels] /\ mem' \in [Keys -> Values] /\ dirty' = FALSE
        /\ up' = FALSE /\ editing' = FALSE
    BY NothingFacts DEF Crash, Labels
  <2>2. UNCHANGED <<exist, disk, dirs, fresh>>
    BY DEF Crash
  <2>3. QED
    BY <2>1, <2>2 DEF IInv, TypeOK
<1>2. OneFirst'
  BY NothingFacts DEF Crash, OneFirst
<1>3. Pending'
  BY NothingFacts DEF Crash, Pending
<1>4. MakingFile'
  BY NothingFacts DEF Crash, MakingFile
<1>5. CompletingFile'
  BY NothingFacts DEF Crash, CompletingFile
<1>6. Whole'
  BY NothingFacts DEF IInv, Contents, Crash, Whole
<1>7. Kept'
  BY NothingFacts DEF IInv, Contents, Crash, Kept
<1>8. Made'
  BY NothingFacts DEF IInv, Progress, Contents, Crash, Goto, conf, TypeOK, Made, OneFirst,
     Pending, MakingFile, CompletingFile
<1>9. AdminChoiceStands'
  BY NothingFacts DEF IInv, Progress, Contents, Crash, Goto, conf, TypeOK,
     AdminChoiceStands, Effective, OneFirst, Pending, MakingFile, CompletingFile, Whole,
     Nothing
<1>10. QED
  BY <1>1, <1>2, <1>3, <1>4, <1>5, <1>6, <1>7, <1>8, <1>9 DEF IInv, Progress, Contents

\* It holds at first, and every step keeps it.
LEMMA InitInvariant == Init => IInv
<1> SUFFICES ASSUME Init PROVE IInv
  OBVIOUS
<1> USE KeyFacts, NothingFacts, ConfAssumption
<1>1. disk \in [Keys -> Values] /\ wish \in [Keys -> {"unset", "chosen"}] /\ mem = Nothing
      /\ ~up /\ ~editing /\ ~dirty /\ \A t \in Threads : pc[t] = "off" /\ at[t] = 1
  BY DEF Init
<1>2. TypeOK
  <2>1. pc \in [Threads -> Labels] /\ at \in [Threads -> 1..(Len(FirstKeys) + 1)]
    BY DEF Init, Labels
  <2>2. dirs \subseteq Keys \X Values
    BY DEF Init, Values
  <2>3. exist \in BOOLEAN /\ fresh \in BOOLEAN /\ dirty = FALSE /\ up = FALSE /\ editing = FALSE
    BY DEF Init
  <2>4. QED
    BY <1>1, <2>1, <2>2, <2>3 DEF TypeOK
<1>3. Progress
  BY <1>1 DEF Progress, OneFirst, Pending, MakingFile, CompletingFile
<1>4. Whole
  BY <1>1 DEF Whole, Init
<1>5. Kept
  BY <1>1 DEF Kept, Init
<1>6. Made
  BY <1>1 DEF Made, Init
<1>7. AdminChoiceStands
  BY <1>1 DEF AdminChoiceStands, Effective, Init
<1>8. QED
  BY <1>2, <1>3, <1>4, <1>5, <1>6, <1>7 DEF IInv, Contents

LEMMA StepInvariant == IInv /\ [Next]_vars => IInv'
<1> SUFFICES ASSUME IInv, [Next]_vars PROVE IInv'
  OBVIOUS
<1>1. ASSUME NEW t \in Threads, Construct(t) \/ Step(t) PROVE IInv'
  BY <1>1, ConstructKeeps, FirstOpenKeeps, FirstSetKeeps, FirstSyncKeeps, OpenKeeps,
     SeedCheckKeeps, SeedSetKeeps, SeedSyncKeeps, MigrateCheckKeeps, MigrateSetKeeps,
     MigrateSyncKeeps, EnsureLogsKeeps, SettingsKeeps DEF Step
<1>2. ASSUME NEW k \in AdminKeys, AdminSet(k) PROVE IInv'
  BY <1>2, AdminSetKeeps
<1>3. CASE AdminSync
  BY <1>3, AdminSyncKeeps
<1>4. CASE Crash
  BY <1>4, CrashKeeps
<1>5. CASE UNCHANGED vars
  BY <1>5 DEF vars, conf, IInv, TypeOK, Progress, OneFirst, Pending, MakingFile,
     CompletingFile,
              Complete, Contents, Whole, Kept, Made, AdminChoiceStands, Effective
<1>6. QED
  BY <1>1, <1>2, <1>3, <1>4, <1>5 DEF Next

LEMMA Invariant == Spec => []IInv
<1>1. QED
  BY InitInvariant, StepInvariant, PTL DEF Spec

-------------------------------------------------------------------------------
\* Configuration, memory and the place of every construction have their types.
THEOREM ConfTypes == Spec => []TypeOK
<1>1. IInv => TypeOK
  BY DEF IInv
<1>2. QED
  BY <1>1, Invariant, PTL

\* A new installation's file has all of its keys from the moment it exists.
THEOREM FirstFileIsWhole == Spec => []FirstInitWhole
<1>1. IInv => FirstInitWhole
  BY DEF IInv, Contents, Whole, FirstInitWhole
<1>2. QED
  BY <1>1, Invariant, PTL

\* No construction, however late it acts on what it read, undoes a choice.
THEOREM ChoicesStand == Spec => []AdminChoiceStands
<1>1. IInv => AdminChoiceStands
  BY DEF IInv, Contents
<1>2. QED
  BY <1>1, Invariant, PTL

\* A daemon that is up reads a complete configuration.
THEOREM UpgradesComplete == Spec => []UpMeansComplete
<1>1. IInv => UpMeansComplete
  BY DEF IInv, Progress, OneFirst, Complete, UpMeansComplete
<1>2. QED
  BY <1>1, Invariant, PTL

\* An upgrade does not change where the web interface listens.
THEOREM BindIsKept == Spec => []UpgradeKeepsBind
<1>1. IInv => UpgradeKeepsBind
  BY DEF IInv, Contents, Kept, UpgradeKeepsBind, Effective
<1>2. QED
  BY <1>1, Invariant, PTL

\* The directory of a default path is there before the path is.
THEOREM PathsAreMade == Spec => []PathsExist
<1>1. IInv => PathsExist
  BY DEF IInv, Contents, Made, PathsExist, Effective
<1>2. QED
  BY <1>1, Invariant, PTL
===============================================================================

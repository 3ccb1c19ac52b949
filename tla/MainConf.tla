-------------------------------- MODULE MainConf --------------------------------
(***************************************************************************)
(* tiConfMain: the main configuration file.  Every construction runs         *)
(* initMainConf: the first one ever writes the file with all its keys; any   *)
(* other adds, key by key, what the file of an older version lacks and moves *)
(* the pointer to the logs off its old default.  Objects are constructed     *)
(* wherever a setting is read, in worker threads too, while the main thread  *)
(* changes settings for the administrator; the daemon constructs one before  *)
(* it starts anything else.  The QSettings objects of the process share what *)
(* is in memory of the file, and a constructor syncs it.                     *)
(***************************************************************************)
EXTENDS Naturals, Sequences

CONSTANTS
    Threads,     \* threads that construct a tiConfMain
    Main,        \* the daemon's main thread
    OldFiles,    \* contents that older versions and their administrators leave
    AdminKeys    \* keys that the administrator changes

\* The keys in the order initMainConf writes them.
FirstKeys ==
    <<"main/debug", "paths/backupjobs", "paths/pbservers", "paths/sshservers", "paths/logs",
      "paths/scripts", "paths/initd", "scripts/run_user", "smtp/from", "smtp/port",
      "smtp/security", "web/bind">>
\* Those that an existing file may lack and gets.
SeedKeys ==
    <<"paths/pbservers", "paths/sshservers", "scripts/run_user", "smtp/from", "smtp/port",
      "smtp/security">>
\* Directories that are made together with the key.
PathKeys == {"paths/pbservers", "paths/sshservers"}

Keys == {FirstKeys[i] : i \in 1..Len(FirstKeys)}
Seeds == {SeedKeys[i] : i \in 1..Len(SeedKeys)}

\* "old" is a former default (<configdir>/logs), "chosen" anything of the administrator's.
Values == {"unset", "default", "old", "chosen"}
Nothing == [k \in Keys |-> "unset"]

ASSUME ConfAssumption ==
    /\ Main \in Threads
    /\ OldFiles \subseteq [Keys -> Values]
    /\ \A f \in OldFiles : f["web/bind"] # "default"
    /\ AdminKeys \subseteq Keys

VARIABLES
    exist,      \* the file is there
    disk,       \* key -> its value in the file
    mem,        \* key -> what the QSettings objects see
    dirty,      \* something was set that is not written yet
    dirs,       \* directories that exist, as <<key, value>> of the setting that names them
    pc,         \* thread -> where its construction stands, "off" outside of one
    at,         \* thread -> index into FirstKeys or SeedKeys
    up,         \* the daemon's first construction is over
    editing,    \* the main thread has set something for the administrator
    fresh,      \* the file was made by this version (history)
    wish        \* key -> "chosen" once the administrator has chosen it (history)

conf == <<exist, disk, mem, dirty>>
vars == <<conf, dirs, pc, at, up, editing, fresh, wish>>

Init ==
    /\ \/ exist = FALSE /\ disk = Nothing /\ fresh = TRUE
       \/ exist = TRUE /\ disk \in OldFiles /\ fresh = FALSE
    /\ mem = Nothing
    /\ dirty = FALSE
    /\ dirs = {<<k, "default">> : k \in {p \in PathKeys : disk[p] = "default"}}
    /\ pc = [t \in Threads |-> "off"]
    /\ at = [t \in Threads |-> 1]
    /\ up = FALSE
    /\ editing = FALSE
    /\ wish = [k \in Keys |-> IF disk[k] = "chosen" THEN "chosen" ELSE "unset"]

Goto(t, label) == pc' = [pc EXCEPT ![t] = label]

\* QSettings::sync, which the constructor makes too.
Sync ==
    IF dirty
       THEN disk' = mem /\ exist' = TRUE /\ dirty' = FALSE /\ UNCHANGED mem
       ELSE mem' = disk /\ UNCHANGED <<exist, disk, dirty>>

SetValue(k, v) == mem' = [mem EXCEPT ![k] = v] /\ dirty' = TRUE /\ UNCHANGED <<exist, disk>>

-------------------------------------------------------------------------------
\* tiConfMain(), initMainConf(): "if(!conf_main.exists())"
Construct(t) ==
    /\ pc[t] = "off"
    /\ IF t = Main THEN ~editing ELSE up
    /\ Goto(t, IF exist THEN "open" ELSE "firstOpen")
    /\ at' = [at EXCEPT ![t] = 1]
    /\ UNCHANGED <<conf, dirs, up, editing, fresh, wish>>

\* The directories, then the settings object ...
FirstOpen(t) ==
    /\ pc[t] = "firstOpen"
    /\ dirs' = dirs \cup {<<k, "default">> : k \in PathKeys}
    /\ Sync
    /\ Goto(t, "first")
    /\ UNCHANGED <<at, up, editing, fresh, wish>>

\* Mutant: every key is written at once.
FirstSetSyncing(t) ==
    /\ pc[t] = "first"
    /\ at[t] <= Len(FirstKeys)
    /\ mem' = [mem EXCEPT ![FirstKeys[at[t]]] = "default"]
    /\ disk' = mem' /\ exist' = TRUE /\ UNCHANGED dirty
    /\ at' = [at EXCEPT ![t] = @ + 1]
    /\ UNCHANGED <<dirs, pc, up, editing, fresh, wish>>

\* ... in which all keys are set ...
FirstSet(t) ==
    /\ pc[t] = "first"
    /\ at[t] <= Len(FirstKeys)
    /\ SetValue(FirstKeys[at[t]], "default")
    /\ at' = [at EXCEPT ![t] = @ + 1]
    /\ UNCHANGED <<dirs, pc, up, editing, fresh, wish>>

\* ... before the one sync.
FirstSync(t) ==
    /\ pc[t] = "first"
    /\ at[t] > Len(FirstKeys)
    /\ Sync
    /\ Goto(t, "ensure")
    /\ UNCHANGED <<dirs, at, up, editing, fresh, wish>>

-------------------------------------------------------------------------------
\* The branch of an existing file.
Open(t) ==
    /\ pc[t] = "open"
    /\ Sync
    /\ Goto(t, "seed")
    /\ UNCHANGED <<dirs, at, up, editing, fresh, wish>>

\* Mutant: the listening address is seeded with the rest.
SeedCheckBind(t) ==
    /\ pc[t] = "seed"
    /\ at[t] <= Len(SeedKeys)
    /\ LET k == SeedKeys[at[t]] IN
       IF mem[k] # "unset"
          THEN at' = [at EXCEPT ![t] = @ + 1] /\ UNCHANGED <<pc, dirs, conf>>
          ELSE /\ Goto(t, "set")
               /\ dirs' = IF k \in PathKeys THEN dirs \cup {<<k, "default">>} ELSE dirs
               /\ IF mem["web/bind"] = "unset"
                     THEN SetValue("web/bind", "default")
                     ELSE UNCHANGED conf
               /\ UNCHANGED at
    /\ UNCHANGED <<up, editing, fresh, wish>>

\* Mutant: the directory is left to be made when it is needed.
SeedCheckNoDir(t) ==
    /\ pc[t] = "seed"
    /\ at[t] <= Len(SeedKeys)
    /\ IF mem[SeedKeys[at[t]]] # "unset"
          THEN at' = [at EXCEPT ![t] = @ + 1] /\ UNCHANGED pc
          ELSE Goto(t, "set") /\ UNCHANGED at
    /\ UNCHANGED <<conf, dirs, up, editing, fresh, wish>>

\* Mutant: the test looks at the key before, as a copied line would.
SeedCheckOther(t) ==
    /\ pc[t] = "seed"
    /\ at[t] <= Len(SeedKeys)
    /\ LET k == SeedKeys[at[t]]
           tested == SeedKeys[IF at[t] = 1 THEN 1 ELSE at[t] - 1] IN
       IF mem[tested] # "unset"
          THEN at' = [at EXCEPT ![t] = @ + 1] /\ UNCHANGED <<pc, dirs>>
          ELSE /\ Goto(t, "set")
               /\ dirs' = IF k \in PathKeys THEN dirs \cup {<<k, "default">>} ELSE dirs
               /\ UNCHANGED at
    /\ UNCHANGED <<conf, up, editing, fresh, wish>>

\* "if(!conf.contains(key))"; a path is made first.
SeedCheck(t) ==
    /\ pc[t] = "seed"
    /\ at[t] <= Len(SeedKeys)
    /\ LET k == SeedKeys[at[t]] IN
       IF mem[k] # "unset"
          THEN at' = [at EXCEPT ![t] = @ + 1] /\ UNCHANGED <<pc, dirs>>
          ELSE /\ Goto(t, "set")
               /\ dirs' = IF k \in PathKeys THEN dirs \cup {<<k, "default">>} ELSE dirs
               /\ UNCHANGED at
    /\ UNCHANGED <<conf, up, editing, fresh, wish>>

SeedSet(t) ==
    /\ pc[t] = "set"
    /\ SetValue(SeedKeys[at[t]], "default")
    /\ Goto(t, "sync")
    /\ UNCHANGED <<dirs, at, up, editing, fresh, wish>>

SeedSync(t) ==
    /\ pc[t] = "sync"
    /\ Sync
    /\ Goto(t, "seed")
    /\ at' = [at EXCEPT ![t] = @ + 1]
    /\ UNCHANGED <<dirs, up, editing, fresh, wish>>

\* Mutant: every value but the new default is taken for the old one.
MigrateCheckAny(t) ==
    /\ pc[t] = "seed"
    /\ at[t] > Len(SeedKeys)
    /\ Goto(t, IF mem["paths/logs"] # "default" THEN "migrate" ELSE "ensure")
    /\ UNCHANGED <<conf, dirs, at, up, editing, fresh, wish>>

\* The logs move only if they are where the old default had them.
MigrateCheck(t) ==
    /\ pc[t] = "seed"
    /\ at[t] > Len(SeedKeys)
    /\ Goto(t, IF mem["paths/logs"] = "old" THEN "migrate" ELSE "ensure")
    /\ UNCHANGED <<conf, dirs, at, up, editing, fresh, wish>>

\* Mutant: the pointer is set to the directory's name, not to its path.
MigrateSetName(t) ==
    /\ pc[t] = "migrate"
    /\ SetValue("paths/logs", "name")
    /\ Goto(t, "migrated")
    /\ UNCHANGED <<dirs, at, up, editing, fresh, wish>>

MigrateSet(t) ==
    /\ pc[t] = "migrate"
    /\ SetValue("paths/logs", "default")
    /\ Goto(t, "migrated")
    /\ UNCHANGED <<dirs, at, up, editing, fresh, wish>>

MigrateSync(t) ==
    /\ pc[t] = "migrated"
    /\ Sync
    /\ Goto(t, "ensure")
    /\ UNCHANGED <<dirs, at, up, editing, fresh, wish>>

\* confLogs reads the path back (its default is the new one), the directory is made ...
EnsureLogs(t) ==
    /\ pc[t] = "ensure"
    /\ Sync
    /\ LET v == mem'["paths/logs"] IN
       dirs' = dirs \cup {<<"paths/logs", IF v = "unset" THEN "default" ELSE v>>}
    /\ Goto(t, "settings")
    /\ UNCHANGED <<at, up, editing, fresh, wish>>

\* ... and the object that getValue reads from is constructed.
Settings(t) ==
    /\ pc[t] = "settings"
    /\ Sync
    /\ Goto(t, "off")
    /\ up' = TRUE
    /\ UNCHANGED <<dirs, at, editing, fresh, wish>>

-------------------------------------------------------------------------------
\* setValue() and sync() of a setting the administrator changes, in the main thread.
AdminSet(k) ==
    /\ up
    /\ pc[Main] = "off"
    /\ k \in AdminKeys
    /\ SetValue(k, "chosen")
    /\ wish' = [wish EXCEPT ![k] = "chosen"]
    /\ editing' = TRUE
    /\ UNCHANGED <<dirs, pc, at, up, fresh>>

AdminSync ==
    /\ editing
    /\ Sync
    /\ editing' = FALSE
    /\ UNCHANGED <<dirs, pc, at, up, fresh, wish>>

\* The daemon dies; a choice that was not written is not one.
Crash ==
    /\ mem' = Nothing
    /\ dirty' = FALSE
    /\ pc' = [t \in Threads |-> "off"]
    /\ at' = [t \in Threads |-> 1]
    /\ up' = FALSE
    /\ editing' = FALSE
    /\ wish' = [k \in Keys |-> IF disk[k] = "chosen" THEN "chosen" ELSE "unset"]
    /\ UNCHANGED <<exist, disk, dirs, fresh>>

Step(t) ==
    \/ FirstOpen(t) \/ FirstSet(t) \/ FirstSync(t)
    \/ Open(t) \/ SeedCheck(t) \/ SeedSet(t) \/ SeedSync(t)
    \/ MigrateCheck(t) \/ MigrateSet(t) \/ MigrateSync(t) \/ EnsureLogs(t) \/ Settings(t)

Next ==
    \/ \E t \in Threads : Construct(t) \/ Step(t)
    \/ \E k \in AdminKeys : AdminSet(k)
    \/ AdminSync
    \/ Crash

Spec == Init /\ [][Next]_vars

-------------------------------------------------------------------------------
\* Properties.

Labels == {"off", "firstOpen", "first", "open", "seed", "set", "sync", "migrate", "migrated",
           "ensure", "settings"}

\* The type invariant.
TypeOK ==
    /\ exist \in BOOLEAN /\ dirty \in BOOLEAN /\ up \in BOOLEAN /\ editing \in BOOLEAN
    /\ fresh \in BOOLEAN
    /\ disk \in [Keys -> Values] /\ mem \in [Keys -> Values]
    /\ dirs \subseteq Keys \X Values
    /\ pc \in [Threads -> Labels]
    /\ at \in [Threads -> 1..(Len(FirstKeys) + 1)]
    /\ wish \in [Keys -> {"unset", "chosen"}]

\* The file of a new installation is there with all of its keys or not at all, wherever
\* the daemon dies: a part of it would be taken for an old file, which gets neither
\* the paths nor the listening address (initMainConf, ticonf.cpp 80-99 against 101-158).
FirstInitWhole == exist /\ fresh => \A k \in Keys : disk[k] # "unset"

\* What the administrator has chosen is what the file, or what will be written to it,
\* says: no other thread's construction puts a default in its place, not even one that
\* found the key missing or the logs at the old default before (ticonf.cpp 103-157).
Effective == IF dirty THEN mem ELSE disk
AdminChoiceStands == \A k \in Keys : wish[k] = "chosen" => Effective[k] = "chosen"

\* Once the daemon has constructed its first object, every key that an old file lacked is
\* in the file and the logs are off the old default, for all who read settings.
UpMeansComplete ==
    up => /\ \A k \in Seeds : disk[k] # "unset"
          /\ disk["paths/logs"] # "old"

\* An upgraded installation keeps listening where it did ("Set only here (on first init)
\* so upgrades of existing installs keep their current bind").
UpgradeKeepsBind == ~fresh /\ wish["web/bind"] = "unset" => Effective["web/bind"] # "default"

\* A path that the file names by default has its directory, also after a crash between
\* the two (ticonf.cpp 103-120).
PathsExist == \A k \in PathKeys : Effective[k] = "default" => <<k, "default">> \in dirs
===============================================================================

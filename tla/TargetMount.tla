------------------------------ MODULE TargetMount -----------------------------
(***************************************************************************)
(* TiBackupLib::mountPartition and umountPartition, with what they read and *)
(* change outside the process: the mount table (/etc/mtab), the device      *)
(* mapper's open LUKS mappings and the disks that are plugged in.  Each     *)
(* external program they run and each look at the mount table is a step of  *)
(* its own, so the calls of several worker threads interleave.              *)
(*                                                                          *)
(* A partition is mounted in at most two places: at its own directory under *)
(* mount_root ("own") and where the desktop or autofs put it ("os").        *)
(***************************************************************************)
EXTENDS Naturals

CONSTANTS
    Callers,     \* worker threads, one per job
    Parts,       \* partitions of backup disks
    LuksParts,   \* those with type "crypto_LUKS"
    Part,        \* caller -> the partition it mounts
    AutoMount    \* partitions that the operating system mounts too

ASSUME PartAssumption ==
    /\ LuksParts \subseteq Parts
    /\ Part \in [Callers -> Parts]
    /\ AutoMount \subseteq Parts

VARIABLES
    attached,    \* partitions whose disk is plugged in
    mounts,      \* partition -> directories it is mounted at
    latest,      \* partition -> directory of its last mtab entry, "" if none
    mapper,      \* partitions whose mapping tibackup_enc_<uuid> is open
    call         \* caller -> [at, dir, ret]: its call in progress

kernel == <<attached, mounts, latest, mapper>>

Dirs == {"own", "os"}
MaybeDir == Dirs \cup {""}      \* "" is QString(): mountPartition's failure sentinel
CallState ==
    [at : {"none", "open", "mount", "verify", "umount", "check", "close", "returned"},
     dir : MaybeDir,
     ret : MaybeDir \cup {"released", "held"}]
NoCall == [at |-> "none", dir |-> "", ret |-> ""]

MountTypeOK ==
    /\ attached \subseteq Parts
    /\ mounts \in [Parts -> SUBSET Dirs]
    /\ latest \in [Parts -> MaybeDir]
    /\ mapper \subseteq LuksParts
    /\ call \in [Callers -> CallState]

MountInit ==
    /\ attached \in SUBSET Parts
    /\ mounts = [p \in Parts |-> {}]
    /\ latest = [p \in Parts |-> ""]
    /\ mapper = {}
    /\ call = [c \in Callers |-> NoCall]

-------------------------------------------------------------------------------
\* What the code reads.

\* Both walk /etc/mtab and compare the device only; getMountDir keeps the last hit.
IsMounted(p) == mounts[p] # {}
GetMountDir(p) == latest[p]

\* getMountPathSrc names the mapping for a LUKS partition, else the device itself;
\* there is something to mount behind that name:
SourceExists(p) == p \in attached /\ (p \in LuksParts => p \in mapper)

-------------------------------------------------------------------------------
\* How external programs change the kernel's state.  The mount table is ordered;
\* with two directories it is enough to remember the last one.

AddMount(p, d) ==
    /\ mounts' = [mounts EXCEPT ![p] = @ \cup {d}]
    /\ latest' = [latest EXCEPT ![p] = d]

DropMount(p, d) ==
    LET rest == mounts[p] \ {d} IN
    /\ mounts' = [mounts EXCEPT ![p] = rest]
    /\ latest' = [latest EXCEPT ![p] = IF rest = {} THEN "" ELSE CHOOSE e \in rest : TRUE]

\* runCommandwithReturnCode returns QProcess::exitCode().  "ok": the program did its
\* work and exited 0; "err": it changed nothing and exited non-zero; "late": it was
\* still running when waitForFinished(50000) gave up, exitCode() is still 0, and the
\* program is killed before it changed anything.  (Killed after it did its work it
\* looks like "ok".)
Ran(outcome) == outcome \in {"ok", "late"}

Enter(c, at) == call' = [call EXCEPT ![c].at = at]
Return(c, ret) == call' = [call EXCEPT ![c] = [at |-> "returned", dir |-> "", ret |-> ret]]

-------------------------------------------------------------------------------
\* mountPartition.

MountPartition(c) ==
    /\ call[c].at = "none"
    /\ Enter(c, IF Part[c] \in LuksParts THEN "open" ELSE "mount")

\* Mutant: luksOpen is repeated until it succeeds.
LuksOpenRetrying(c) ==
    LET p == Part[c] IN
    /\ call[c].at = "open"
    /\ \/ p \in attached \ mapper /\ mapper' = mapper \cup {p} /\ Enter(c, "mount")
       \/ UNCHANGED <<mapper, call>>
    /\ UNCHANGED <<attached, mounts, latest>>

\* cryptsetup luksOpen (a missing key file returns "" without running it, which
\* looks like "err").  The mapping name may be open only once.
LuksOpen(c) ==
    LET p == Part[c] IN
    /\ call[c].at = "open"
    /\ \E outcome \in {"ok", "err", "late"} :
          /\ IF outcome = "ok"
                THEN p \in attached \ mapper /\ mapper' = mapper \cup {p}
                ELSE mapper' = mapper
          /\ IF Ran(outcome) THEN Enter(c, "mount") ELSE Return(c, "")
    /\ UNCHANGED <<attached, mounts, latest>>

\* mount <source> <own directory>; a failed mount returns at once, leaving a LUKS
\* mapping open.
MountDevice(c) ==
    LET p == Part[c] IN
    /\ call[c].at = "mount"
    /\ \E outcome \in {"ok", "err", "late"} :
          /\ IF outcome = "ok"
                THEN SourceExists(p) /\ "own" \notin mounts[p] /\ AddMount(p, "own")
                ELSE UNCHANGED <<mounts, latest>>
          /\ IF Ran(outcome) THEN Enter(c, "verify") ELSE Return(c, "")
    /\ UNCHANGED <<attached, mapper>>

\* Mutant: mountPartition answers whether, not where, the partition is held.
VerifyMountFlag(c) ==
    /\ call[c].at = "verify"
    /\ Return(c, IF IsMounted(Part[c]) THEN "held" ELSE "")
    /\ UNCHANGED kernel

\* "|| !isMounted(part)"
VerifyMount(c) ==
    /\ call[c].at = "verify"
    /\ Return(c, IF IsMounted(Part[c]) THEN "own" ELSE "")
    /\ UNCHANGED kernel

-------------------------------------------------------------------------------
\* umountPartition.  No wait in it is limited (timeout -1).

UmountPartition(c) ==
    /\ call[c].at = "none"
    /\ call' = [call EXCEPT ![c].at = "umount", ![c].dir = GetMountDir(Part[c])]

\* umount <dir>: refused while the directory is in use, may fail for other reasons.
UmountDevice(c, inUse) ==
    LET p == Part[c]
        d == call[c].dir IN
    /\ call[c].at = "umount"
    /\ \/ /\ d \in mounts[p] /\ ~inUse
          /\ DropMount(p, d)
          /\ Enter(c, "check")
       \/ /\ Return(c, "held")
          /\ UNCHANGED <<mounts, latest>>
    /\ UNCHANGED <<attached, mapper>>

\* Mutant: umount's exit code is taken as the whole answer.
CheckUmountTrusting(c) ==
    /\ call[c].at = "check"
    /\ IF Part[c] \in LuksParts THEN Enter(c, "close") ELSE Return(c, "released")
    /\ UNCHANGED kernel

\* "|| isMounted(part)"
CheckUmount(c) ==
    /\ call[c].at = "check"
    /\ IF IsMounted(Part[c]) THEN Return(c, "held")
       ELSE IF Part[c] \in LuksParts THEN Enter(c, "close")
       ELSE Return(c, "released")
    /\ UNCHANGED kernel

\* Mutant: the exit code of cryptsetup close is not looked at.
LuksCloseIgnoring(c) ==
    LET p == Part[c] IN
    /\ call[c].at = "close"
    /\ \/ p \in mapper /\ ~IsMounted(p) /\ mapper' = mapper \ {p}
       \/ UNCHANGED mapper
    /\ Return(c, "released")
    /\ UNCHANGED <<attached, mounts, latest>>

\* cryptsetup close: refused while the mapping is mounted.
LuksClose(c) ==
    LET p == Part[c] IN
    /\ call[c].at = "close"
    /\ \/ /\ p \in mapper /\ ~IsMounted(p)
          /\ mapper' = mapper \ {p}
          /\ Return(c, "released")
       \/ /\ Return(c, "held")
          /\ UNCHANGED mapper
    /\ UNCHANGED <<attached, mounts, latest>>

CallStep(c, inUse) ==
    \/ LuksOpen(c) \/ MountDevice(c) \/ VerifyMount(c)
    \/ UmountDevice(c, inUse) \/ CheckUmount(c) \/ LuksClose(c)

-------------------------------------------------------------------------------
\* The environment.

PlugIn(p) ==
    /\ p \notin attached
    /\ attached' = attached \cup {p}
    /\ UNCHANGED <<mounts, latest, mapper, call>>

\* A disk is pulled only when it is not mounted; its LUKS mapping may be open.
PullOut(p) ==
    /\ p \in attached
    /\ ~IsMounted(p)
    /\ attached' = attached \ {p}
    /\ UNCHANGED <<mounts, latest, mapper, call>>

\* The operating system mounts the device somewhere of its own (a LUKS partition it
\* would open under another mapping name, which mtab lookups do not see).
OsMount(p) ==
    /\ p \in (AutoMount \cap attached) \ LuksParts
    /\ "os" \notin mounts[p]
    /\ AddMount(p, "os")
    /\ UNCHANGED <<attached, mapper, call>>

Environment == \E p \in Parts : PlugIn(p) \/ PullOut(p) \/ OsMount(p)
===============================================================================

------------------------------ MODULE ServerStore -----------------------------
(***************************************************************************)
(* tiConfPBServers and tiConfSSHServers, which are the same but for the      *)
(* fields of an item: a process-wide singleton, shared between the main      *)
(* thread and the backup workers, over one <uuid>.conf file per server.      *)
(* Saving removes the old file before it writes the new one, and reading     *)
(* collects the files one by one in a member; m_mutex keeps both whole.      *)
(***************************************************************************)
EXTENDS Naturals, FiniteSets

CONSTANTS
    Callers,    \* threads
    Uuids,
    Names,
    NoItem,
    NoCaller

Item == [uuid : Uuids, name : Names]

ASSUME StoreAssumption ==
    /\ Uuids \cap Names = {}
    /\ NoItem \notin Item
    /\ NoCaller \notin Callers

\* Base names of files: <uuid>.conf, and <name>.conf for the calls that go by name.
Bases == Uuids \cup Names

VARIABLES
    files,    \* base name -> the item in the file
    mutex,    \* m_mutex: the thread that holds it
    items,    \* the member items
    todo,     \* files the directory iterator has not delivered yet
    call,     \* caller -> its call in progress
    reply     \* caller -> copy of items its last read returned or searched

vars == <<files, mutex, items, todo, call, reply>>

Call == [op : {"none"}]
        \cup [op : {"save"}, item : Item]
        \cup [op : {"write"}, item : Item, old : Item \cup {NoItem}]
        \cup [op : {"read", "scan"}]
        \cup [op : {"copy", "copyScan"}, from : Names, to : Names]
        \cup [op : {"remove"}, base : Bases]
        \cup [op : {"rename"}, from : Names, to : Names]
NoCall == [op |-> "none"]

\* The type invariant.
TypeOK ==
    /\ files \in [Bases -> Item \cup {NoItem}]
    /\ mutex \in Callers \cup {NoCaller}
    /\ items \subseteq Item
    /\ todo \subseteq Bases
    /\ call \in [Callers -> Call]
    /\ reply \in [Callers -> SUBSET Item]

Exists(b) == files[b] # NoItem

Init ==
    /\ files \in [Bases -> Item \cup {NoItem}]
    /\ \A b \in Bases : Exists(b) => files[b].uuid = b
    /\ mutex = NoCaller
    /\ items = {}
    /\ todo = {}
    /\ call = [c \in Callers |-> NoCall]
    /\ reply = [c \in Callers |-> {}]

-------------------------------------------------------------------------------
Becomes(c, next) == call' = [call EXCEPT ![c] = next]

\* QMutexLocker lock(&m_mutex): taken by a free mutex only, released on return.
Locks(c) == mutex = NoCaller /\ mutex' = c
Unlocks(c) == mutex = c /\ mutex' = NoCaller

\* A thread calls one of the store's functions.
Calls(c) ==
    /\ call[c] = NoCall
    /\ \/ \E i \in Item : Becomes(c, [op |-> "save", item |-> i])
       \/ Becomes(c, [op |-> "read"])
       \/ \E m, n \in Names : \/ Becomes(c, [op |-> "copy", from |-> m, to |-> n])
                              \/ Becomes(c, [op |-> "rename", from |-> m, to |-> n])
       \/ \E b \in Bases : Becomes(c, [op |-> "remove", base |-> b])
    /\ UNCHANGED <<files, mutex, items, todo, reply>>

-------------------------------------------------------------------------------
\* saveItem: the file of an item that exists already is removed ...
SaveRemoves(c) ==
    /\ call[c].op = "save"
    /\ LET i == call[c].item IN
       /\ Becomes(c, [op |-> "write", item |-> i, old |-> files[i.uuid]])
       /\ files' = [files EXCEPT ![i.uuid] = NoItem]
    /\ Locks(c)
    /\ UNCHANGED <<items, todo, reply>>

\* ... and the new one is there after sync().
SaveWrites(c) ==
    /\ call[c].op = "write"
    /\ files' = [files EXCEPT ![call[c].item.uuid] = call[c].item]
    /\ Becomes(c, NoCall)
    /\ Unlocks(c)
    /\ UNCHANGED <<items, todo, reply>>

-------------------------------------------------------------------------------
\* Mutant: readItems lists a file that is not there.
ReadBeginsBlindly(c) ==
    /\ call[c].op \in {"read", "copy"}
    /\ Becomes(c, [call[c] EXCEPT !.op = IF @ = "read" THEN "scan" ELSE "copyScan"])
    /\ Locks(c)
    /\ items' = {}
    /\ todo' = Bases
    /\ UNCHANGED <<files, reply>>

\* Mutant: reading does not take the mutex, nor wait for it.
ReadBeginsUnlocked(c) ==
    /\ call[c].op \in {"read", "copy"}
    /\ Becomes(c, [call[c] EXCEPT !.op = IF @ = "read" THEN "scan" ELSE "copyScan"])
    /\ mutex' = c
    /\ items' = {}
    /\ todo' = {b \in Bases : Exists(b)}
    /\ UNCHANGED <<files, reply>>

\* getItems, getItemByName, getItemByUuid: items.clear(), and the iterator starts.
ReadBegins(c) ==
    /\ call[c].op \in {"read", "copy"}
    /\ Becomes(c, [call[c] EXCEPT !.op = IF @ = "read" THEN "scan" ELSE "copyScan"])
    /\ Locks(c)
    /\ items' = {}
    /\ todo' = {b \in Bases : Exists(b)}
    /\ UNCHANGED <<files, reply>>

\* The next file of the directory.
ReadsFile(c) ==
    /\ call[c].op \in {"scan", "copyScan"}
    /\ \E b \in todo :
          /\ items' = items \cup {files[b]}
          /\ todo' = todo \ {b}
    /\ UNCHANGED <<files, mutex, call, reply>>

\* The lookups return copies of what was read.
ReadReturns(c) ==
    /\ call[c].op = "scan"
    /\ todo = {}
    /\ reply' = [reply EXCEPT ![c] = items]
    /\ Becomes(c, NoCall)
    /\ Unlocks(c)
    /\ UNCHANGED <<files, items, todo>>

\* genNewUuid: a uuid no item has, nor one that is being saved.
Fresh(u) ==
    /\ ~Exists(u)
    /\ \A d \in Callers : call[d].op \in {"save", "write"} => call[d].item.uuid # u

\* copyItem takes the mutex twice: for getItemByName, then for the saveItem of the
\* copy under its new uuid.
CopyFound(c) ==
    /\ call[c].op = "copyScan"
    /\ todo = {}
    /\ reply' = [reply EXCEPT ![c] = items]
    /\ \E i \in items : i.name = call[c].from
    /\ \E u \in Uuids :
          /\ Fresh(u)
          /\ Becomes(c, [op |-> "save", item |-> [uuid |-> u, name |-> call[c].to]])
    /\ Unlocks(c)
    /\ UNCHANGED <<files, items, todo>>

CopyNotFound(c) ==
    /\ call[c].op = "copyScan"
    /\ todo = {}
    /\ reply' = [reply EXCEPT ![c] = items]
    /\ \A i \in items : i.name # call[c].from
    /\ Becomes(c, NoCall)
    /\ Unlocks(c)
    /\ UNCHANGED <<files, items, todo>>

-------------------------------------------------------------------------------
\* removeItemByUuid and removeItemByName: lock, QFile::remove(<base>.conf), unlock.
Removes(c) ==
    /\ call[c].op = "remove"
    /\ mutex = NoCaller
    /\ files' = [files EXCEPT ![call[c].base] = NoItem]
    /\ Becomes(c, NoCall)
    /\ UNCHANGED <<mutex, items, todo, reply>>

\* renameItem: QFile::rename of <oldname>.conf, refused when the new file exists.
Renames(c) ==
    /\ call[c].op = "rename"
    /\ mutex = NoCaller
    /\ LET old == call[c].from
           new == call[c].to IN
       files' = IF Exists(old) /\ ~Exists(new)
                THEN [files EXCEPT ![new] = files[old], ![old] = NoItem]
                ELSE files
    /\ Becomes(c, NoCall)
    /\ UNCHANGED <<mutex, items, todo, reply>>

\* The daemon dies and starts again.
Crash ==
    /\ mutex' = NoCaller
    /\ items' = {}
    /\ todo' = {}
    /\ call' = [c \in Callers |-> NoCall]
    /\ reply' = [c \in Callers |-> {}]
    /\ UNCHANGED files

Step(c) ==
    \/ Calls(c) \/ SaveRemoves(c) \/ SaveWrites(c)
    \/ ReadBegins(c) \/ ReadsFile(c) \/ ReadReturns(c) \/ CopyFound(c) \/ CopyNotFound(c)
    \/ Removes(c) \/ Renames(c)

Next == Crash \/ \E c \in Callers : Step(c)

Spec == Init /\ [][Next]_vars

-------------------------------------------------------------------------------
\* Properties.

\* The item whose file is removed and not yet written counts as its old self.
Writing(u, c) == call[c].op = "write" /\ call[c].item.uuid = u
Content(u) ==
    IF \E c \in Callers : Writing(u, c)
    THEN call[CHOOSE c \in Callers : Writing(u, c)].old
    ELSE files[u]

Atomic == INSTANCE ItemStore WITH store <- [u \in Uuids |-> Content(u)]

AtomicNext ==
    \/ \E u \in Uuids : Atomic!Remove(u) \/ Atomic!Lose(u)
    \/ \E i \in Item : Atomic!Save(i.uuid, i)
    \/ \E c \in Callers : Atomic!Read(c)
    \/ Atomic!Restart

\* ticonf.h: every call takes effect at one moment.  A worker that looks a server up
\* while the main thread saves, removes or copies servers gets what the store held at
\* some moment of its call: never a server half-read, none twice, and none missing
\* because its file is just being replaced.
CallsAreAtomic == [][AtomicNext]_<<[u \in Uuids |-> Content(u)], reply>>
===============================================================================

------------------------------- MODULE SshTargets -------------------------------
(***************************************************************************)
(* A job's ssh_targets and their flat form in the job's file.  A target is a *)
(* server and its backupdirs, a multi-hash from source to dest: a source may *)
(* go to several places.  A sequence stands for the order, in which it       *)
(* happens to be walked.  On disk the targets are one array of triples.      *)
(***************************************************************************)
EXTENDS Naturals, FiniteSets, Sequences

CONSTANTS
    Servers,    \* uuids of ssh servers
    Paths       \* sources and destinations

Dirs == [source : Paths, dest : Paths]
Target == [server : Servers, dirs : Seq(Dirs)]
Entry == [server : Servers, source : Paths, dest : Paths]
Targets == Seq(Target)
Entries == Seq(Entry)

-------------------------------------------------------------------------------
\* Saving: target after target.

\* The triples of one target.
Triples(t) ==
    [i \in 1..Len(t.dirs) |->
        [server |-> t.server, source |-> t.dirs[i].source, dest |-> t.dirs[i].dest]]

Flatten(targets) ==
    LET upTo[i \in 0..Len(targets)] ==
            IF i = 0 THEN <<>> ELSE upTo[i - 1] \o Triples(targets[i])
    IN upTo[Len(targets)]

-------------------------------------------------------------------------------
\* Reading: each triple goes to the target of its server (sshTargetIdx).

Dir(e) == [source |-> e.source, dest |-> e.dest]

\* backupdirs.insert(source, dest) keeps what is there for the source.
Insert(t, e) == [t EXCEPT !.dirs = Append(@, Dir(e))]

NewTarget(e) == [server |-> e.server, dirs |-> <<Dir(e)>>]

\* Mutant: a triple goes to the last target, unless its server is a new one.
AddToLast(targets, e) ==
    IF \E i \in DOMAIN targets : targets[i].server = e.server
       THEN [targets EXCEPT ![Len(targets)] = Insert(@, e)]
       ELSE Append(targets, NewTarget(e))

Add(targets, e) ==
    IF \E i \in DOMAIN targets : targets[i].server = e.server
       THEN [i \in DOMAIN targets |->
                IF targets[i].server = e.server THEN Insert(targets[i], e) ELSE targets[i]]
       ELSE Append(targets, NewTarget(e))

Regroup(entries) ==
    LET upTo[i \in 0..Len(entries)] ==
            IF i = 0 THEN <<>> ELSE Add(upTo[i - 1], entries[i])
    IN upTo[Len(entries)]

-------------------------------------------------------------------------------
\* What is backed up over ssh, however the targets are arranged: how often each server,
\* source and dest.

Places(targets) == UNION {{<<i, k>> : k \in DOMAIN targets[i].dirs} : i \in DOMAIN targets}
Leg(targets, p) == <<targets[p[1]].server, targets[p[1]].dirs[p[2]]>>
PlacesOf(targets, leg) == {p \in Places(targets) : Leg(targets, p) = leg}
Legs(targets) ==
    [leg \in {Leg(targets, p) : p \in Places(targets)} |-> Cardinality(PlacesOf(targets, leg))]
===============================================================================

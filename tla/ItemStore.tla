------------------------------- MODULE ItemStore ------------------------------
(***************************************************************************)
(* What ticonf.h promises of the PBS and SSH server stores: each call takes *)
(* effect at one moment, whatever other threads do ("read+copy is atomic    *)
(* w.r.t. a concurrent save/read").  A daemon that dies while it replaces an *)
(* item may lose that item, and nothing else.                               *)
(***************************************************************************)
CONSTANTS Callers, Uuids, NoItem

VARIABLES
    store,    \* uuid -> item
    reply     \* caller -> what its last read returned

Items(s) == {s[u] : u \in Uuids} \ {NoItem}

Save(u, item) == store' = [store EXCEPT ![u] = item] /\ UNCHANGED reply

Remove(u) == store' = [store EXCEPT ![u] = NoItem] /\ UNCHANGED reply

Read(c) == reply' = [reply EXCEPT ![c] = Items(store)] /\ UNCHANGED store

Lose(u) == store' = [store EXCEPT ![u] = NoItem] /\ reply' = [c \in Callers |-> {}]

Restart == UNCHANGED store /\ reply' = [c \in Callers |-> {}]
===============================================================================

------------------------------- MODULE MCJobStore -------------------------------
(***************************************************************************)
(* Small instances of JobStore: two names, a job of plain folders and one   *)
(* that goes to two servers, one of them named twice, one source going to   *)
(* two places, and to a third server with nothing.                          *)
(***************************************************************************)
EXTENDS JobStore

Plain ==
    [name |-> "j1", partition_uuid |-> "u1", folders |-> "dirs", ssh |-> <<>>]

FromTo(source, dest) == [source |-> source, dest |-> dest]
To(server, dirs) == [server |-> server, dirs |-> dirs]

Remote ==
    [name |-> "j2", partition_uuid |-> "u2", folders |-> "",
     ssh |-> <<To("s1", <<FromTo("a", "x"), FromTo("a", "y")>>),
               To("s2", <<FromTo("a", "x"), FromTo("b", "y")>>),
               To("s1", <<FromTo("b", "z")>>), To("s3", <<>>)>>]

\* The first job, edited: another disk, other folders, a server added.
Edited ==
    [Plain EXCEPT !.partition_uuid = "u2", !.folders = "others",
                  !.ssh = <<To("s1", <<FromTo("a", "x")>>)>>]

TwoJobs == {Plain, Remote}
ThreeJobs == {Plain, Edited, Remote}
===============================================================================

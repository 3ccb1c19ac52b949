------------------------------- MODULE MCMainConf -------------------------------
(***************************************************************************)
(* Small instances of MainConf: the main thread and workers, files of all    *)
(* older versions.                                                           *)
(***************************************************************************)
EXTENDS MainConf

\* A version knows the first n of the keys that were added later.  The administrator
\* may have chosen the logs' path and the mail port.
OldFile(n, logs, port) ==
    [k \in Keys |->
        IF k = "web/bind" THEN "unset"
        ELSE IF k = "paths/logs" THEN logs
        ELSE IF \E i \in (n + 1)..Len(SeedKeys) : SeedKeys[i] = k THEN "unset"
        ELSE IF k = "smtp/port" THEN port ELSE "default"]

Versions ==
    {OldFile(n, logs, port) : n \in 0..Len(SeedKeys), logs \in {"old", "default", "chosen"},
                              port \in {"default", "chosen"}}

Changed == {"paths/logs", "smtp/port", "web/bind"}
===============================================================================

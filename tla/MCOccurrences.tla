--------------------------- MODULE MCOccurrences ---------------------------
(***************************************************************************)
(* The TLC instances of Occurrences: a one-shot job, two recurring ones and *)
(* the same job switched off, on a clock that runs past the retention of    *)
(* what settled first.                                                      *)
(***************************************************************************)
EXTENDS Occurrences

Every(start, interval) == [kind |-> "FixedInterval", start |-> start, interval |-> interval]
Once(start) == [kind |-> "OneShot", start |-> start, interval |-> 0]

Request(sched, enabled, mode) ==
    [sched |-> sched, enabled |-> enabled, mode |-> mode, maxCount |-> 0, maxAge |-> 0]

MCRequests ==
    {Request(Once(0), TRUE, "enabled"),
     [Request(Every(0, 2), TRUE, "inherit") EXCEPT !.maxCount = 1, !.maxAge = 1],
     Request(Every(1, 2), TRUE, "disabled"),
     Request(Every(1, 2), FALSE, "inherit")}

\* Retention is set shorter than the backfill window.
MCRawConfig == [maxAge |-> 0, retention |-> 1, maxCount |-> 0, batch |-> 0]
MCDefaults == [maxAge |-> 2, retention |-> 9, maxCount |-> 2, batch |-> 2]
=============================================================================

---------------------------- MODULE MCReportIntake ----------------------------
(* Instances of ReportIntake for TLC. *)
EXTENDS ReportIntake, TLC

CONSTANTS p1, p2, p3, guild, global, spam

ThreeRequests == {p1, p2, p3}
GuildAndGlobal == {guild, global}
OnlyGlobal == {global}
OneSubject == {spam}

\* Requests are interchangeable.
Interchangeable == Permutations(Requests)
=============================================================================

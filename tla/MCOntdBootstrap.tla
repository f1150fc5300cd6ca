--------------------------- MODULE MCOntdBootstrap ---------------------------
(***************************************************************************)
(* Two runs, two stops of the timetable and a stop catalog that is         *)
(* reseeded once: the match of A moves, B is no longer matched.            *)
(***************************************************************************)
EXTENDS OntdBootstrap, TLC

CONSTANTS A, B, s1, s2, s3

MCOntdStops == {A, B}
MCCatalogs == <<{s1, s2}, {s3}>>
MCMatch == <<(A :> s1) @@ (B :> s2), (A :> s3) @@ (B :> NoStop)>>
MCEditions == {1, 2}
==============================================================================

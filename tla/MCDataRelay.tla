---------------------------- MODULE MCDataRelay ----------------------------
(* Three projects, one without tables.                                       *)
EXTENDS DataRelay

MCTables == <<2, 0, 1>>
=============================================================================

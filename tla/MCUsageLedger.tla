---------------------------- MODULE MCUsageLedger ----------------------------
(* Reports over counters small enough to list every set of them. *)
EXTENDS UsageLedger

(* At most this many different reports are told apart. *)
CONSTANT MaxReports
FewReports == Cardinality(reports) <= MaxReports
=============================================================================

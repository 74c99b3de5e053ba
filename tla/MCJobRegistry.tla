---------------------------- MODULE MCJobRegistry ----------------------------
(* Two operation ids in a table of one record: the second id evicts the     *)
(* first, and the third life may be the first id's again.                   *)
EXTENDS JobRegistry

CONSTANT First

\* The ids are alike: behaviours that begin with one of them are enough.
BeginsWithFirst == opOf[1] \in {First, Absent}
=============================================================================

-------------------------- MODULE MCSegmentReload --------------------------
(***************************************************************************)
(* Instances of SegmentReload for TLC.                                     *)
(***************************************************************************)
EXTENDS SegmentReload, TLC

CONSTANTS t1, t2,   \* tables of the schema
          d1, d2    \* documents of the schema

\* Nothing tells the two tables of the schema apart, nor the documents.
Alike == Permutations({t1, t2}) \cup Permutations({d1, d2})
=============================================================================

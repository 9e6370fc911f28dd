---------------------------- MODULE MCJobControl ----------------------------
(* Small instances of JobControl for TLC. *)
EXTENDS JobControl, TLC

TwoOps   == 1..2
ThreeOps == 1..3

\* Worker processes are interchangeable, and collectors are; used where only safety is
\* checked.
Interchangeable == Permutations(Worker) \cup Permutations(Collector)
=============================================================================

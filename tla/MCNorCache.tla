----------------------------- MODULE MCNorCache -----------------------------
(* The instances of NorCache that TLC checks. *)
EXTENDS NorCache, TLC

CONSTANTS t1, t2, d1, d2

\* Sectors' contents are interchangeable; the tasks are not, one of them flushes.
DataSymmetry == Permutations({d1, d2})
=============================================================================

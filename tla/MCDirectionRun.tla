--------------------------- MODULE MCDirectionRun ---------------------------
(***************************************************************************)
(* Instances of DirectionRun for TLC.                                      *)
(***************************************************************************)
EXTENDS DirectionRun, TLC

\* Role Model codes, start requests and readers are interchangeable: the
\* specification only compares them.  (Not for the runs with liveness.)
Interchangeable ==
    Permutations(Code) \cup Permutations(Api) \cup Permutations(Reader)
=============================================================================

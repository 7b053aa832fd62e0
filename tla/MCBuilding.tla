------------------------------ MODULE MCBuilding ------------------------------
(***************************************************************************)
(* Values of the constants of Building for TLC.                            *)
(***************************************************************************)
EXTENDS Building, FiniteSets

\* At most two things go wrong at a time.
UsualEnvironments ==
    {e \in Environment :
        Cardinality({n \in {"late", "lagging", "slow", "fails"} : e[n]}) <= 2}
=============================================================================

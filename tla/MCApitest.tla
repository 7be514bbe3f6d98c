------------------------------ MODULE MCApitest ------------------------------
(* Instances of Apitest for TLC. *)
EXTENDS Apitest

M(loads, n) == [loads |-> loads, tests |-> n]

MCManifests ==
  { << M(TRUE, 2), M(TRUE, 1) >>,
    << M(TRUE, 1), M(FALSE, 1), M(TRUE, 1) >>,
    << M(TRUE, 0) >>,
    << M(TRUE, 1), M(TRUE, 0), M(TRUE, 0), M(TRUE, 0) >> }

MCConfigs == [manifests: MCManifests, stopOnFail: BOOLEAN, reportFile: BOOLEAN]
=============================================================================

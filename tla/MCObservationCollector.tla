----------------------- MODULE MCObservationCollector -----------------------
(* An instance of ObservationCollector: two firings, two months, and budget    *)
(* plus longest request exactly the age at which the run lock expires.        *)
EXTENDS ObservationCollectorProps, TLC

CONSTANTS a, b, c, old, h1, h2, i1, i2

McShardOf == a :> 1 @@ b :> 1 @@ c :> 2 @@ old :> 1
McCells == i1 :> {a, c} @@ i2 :> {b}
McFirstObs == a :> <<>> @@ b :> <<>> @@ c :> <<>> @@ old :> <<h1>>
Symmetry == Permutations(Runs)
=============================================================================

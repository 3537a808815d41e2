-------------------------- MODULE MCMirrorRecovery --------------------------
(* Instances of MirrorRecovery: rows of two shards, each with a row only the *)
(* database has.                                                             *)
EXTENDS MirrorRecoveryProps, TLC

CONSTANTS a, b, c, d, h1, h2

\* Executions in apply mode are interchangeable.
ApplySymmetry == Permutations(Runs \ Rollbacks)

McShardOf == a :> 1 @@ b :> 1 @@ c :> 2 @@ d :> 2
T(x, y, z, u) == a :> x @@ b :> y @@ c :> z @@ d :> u

\* History has a and c, the database a or nothing of them and b or b and d.
TwoLegacyShards == <<T(<<h1>>, <<>>, <<h1>>, <<>>), T(NoRow, h1, h1, h1)>>
OneLegacyShard == <<T(<<h1>>, <<>>, <<h1>>, <<>>), T(h1, h1, NoRow, NoRow)>>
NoLegacy == <<T(<<h1>>, <<>>, <<h1>>, <<>>), T(NoRow, NoRow, h1, NoRow)>>

McStarts == {TwoLegacyShards, OneLegacyShard, NoLegacy}
LegacyStarts == {TwoLegacyShards}
OneShardStarts == {OneLegacyShard}

\* Rows of both shards, in the database only or new.
McBatches == {T(<<>>, <<h1>>, <<>>, <<h1>>), T(<<>>, <<>>, <<>>, <<h2>>)}
=============================================================================

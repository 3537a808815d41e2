--------------------------- MODULE MCTrustedAppend --------------------------
(* Instances of TrustedAppend: three rows in two shards, two hashes.         *)
EXTENDS TrustedAppendProps, TLC

CONSTANTS a, b, c, h1, h2

McShardOf == a :> 1 @@ b :> 1 @@ c :> 2

\* A table from the sequences of hashes of the three rows.
T(x, y, z) == a :> x @@ b :> y @@ c :> z
D(x, y, z) == a :> x @@ b :> y @@ c :> z

\* An exact mirror; a DB-only row; as many rows as lines but other ones.
Exact == <<T(<<h1>>, <<>>, <<>>), D(h1, NoRow, NoRow)>>
DbOnly == <<T(<<>>, <<>>, <<>>), D(h1, NoRow, NoRow)>>
Swapped == <<T(<<h1>>, <<>>, <<>>), D(NoRow, h1, NoRow)>>

ExactStart == {Exact}
AllStarts == {Exact, DbOnly, Swapped}

\* Two shards; one row of each kind (known, new); conflicting hash; a row_id
\* twice; more than Cap rows; nothing.
TwoShards == T(<<>>, <<h1>>, <<h1>>)
KnownAndNew == T(<<h1>>, <<h1>>, <<>>)
McBatches == {TwoShards, KnownAndNew, T(<<h2>>, <<>>, <<h1>>),
              T(<<>>, <<h1, h1>>, <<>>), T(<<h1>>, <<h1>>, <<h1>>),
              T(<<>>, <<>>, <<>>), T(<<>>, <<>>, <<h2>>)}
FewBatches == {TwoShards, KnownAndNew}
OneBatch == {TwoShards}
SingleRows == {T(<<>>, <<h1>>, <<>>), T(<<>>, <<>>, <<h1>>)}
=============================================================================

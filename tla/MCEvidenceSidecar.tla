------------------------- MODULE MCEvidenceSidecar --------------------------
(* An instance of EvidenceSidecar: a priced Booking row and an audit row in  *)
(* one month, a Jalan row excluded from pricing in another.                  *)
EXTENDS EvidenceSidecarProps, TLC

CONSTANTS a, b, c, sold, priced, p, e1, e2

McShardOf == a :> 1 @@ b :> 1 @@ c :> 2
McHashes == [run : RunIds, artifact : Captures] \cup {Garbled}

Row(source, primary, normalized, availability) ==
    [source |-> source, primary |-> primary, normalized |-> normalized,
     availability |-> availability]
McRowData == a :> Row("booking", p, p, "priced")
          @@ b :> Row("booking", NoPrice, NoPrice, "unpriced")
          @@ c :> Row("jalan", p, NoPrice, "priced")
McPriceIn == priced :> p @@ sold :> NoPrice

\* Every row proven; the row of a refused: no capture, or a price it denies.
Left(x, y) == a :> x @@ b :> y @@ c :> priced
McFirstCaptures == {Left(priced, sold), Left(NoCapture, priced)}
McAccepted == {{a, b, c}, {a, c}, {b}}
ExporterSymmetry == Permutations(Exporters)
=============================================================================

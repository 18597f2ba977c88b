------------------------------- MODULE MCTopK -------------------------------
(* Four chunks that share counters two by two, a heap of three. *)
EXTENDS TopKIndex, TLC

CONSTANTS a, b, c, d

MCChunks == {a, b, c, d}
MCColumn ==
  <<(a :> 1) @@ (b :> 1) @@ (c :> 2) @@ (d :> 2),
    (a :> 1) @@ (c :> 1) @@ (b :> 2) @@ (d :> 2)>>
MCBatches == {<<b>>, <<a, b, a>>, <<d, a, c>>, <<d, b, d>>}

=============================================================================

----------------------------- MODULE MCRestore -----------------------------
(* A small store: two bases in containers of their own, two deltas in a    *)
(* third one, and every recipe up to a length.                             *)
EXTENDS RestoreDecoder

CONSTANTS b1, b2, d1, d2, k1, k2, k3, MaxLen

MCChunks == {b1, b2, d1, d2}
MCContainers == {k1, k2, k3}
MCContainerOf == (b1 :> k1) @@ (b2 :> k2) @@ (d1 :> k3) @@ (d2 :> k3)
MCBaseOf == (b1 :> NoChunk) @@ (b2 :> NoChunk) @@ (d1 :> b1) @@ (d2 :> b2)

\* Exchanging b1, d1, k1 with b2, d2, k2 changes nothing: recipes that begin
\* with b2 or d2 are left out.
MCRecipes == {r \in UNION {[1..n -> MCChunks] : n \in 0..MaxLen} : r = <<>> \/ r[1] \in {b1, d1}}
=============================================================================

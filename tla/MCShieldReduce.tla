--------------------------- MODULE MCShieldReduce ---------------------------
(***************************************************************************)
(* Small instances of ShieldReduce.  co is a first base, cd, cn and cp are *)
(* similar to it (cn finds co through a batch of one, which LocalChecker   *)
(* defers; cd and cp through batches it does not), cx is unrelated and     *)
(* shares a container with co, cy is similar to cx.                        *)
(***************************************************************************)
EXTENDS ShieldReduce, TLC

CONSTANTS co, cd, cn, cp, cx, cy

MCFeatures == {"f1", "f2", "g1", "g2", "g3"}
MCSFs == [c \in Chunks |-> CASE c \in {cx, cy} -> <<"g1", "g2">>
                             [] c = cd -> <<"f1", "g3">>
                             [] OTHER -> <<"f1", "f2">>]
MCSize == [c \in Chunks |-> 3]
MCCLen == [c \in Chunks |-> 2]

\* Every delta is small.
SmallDeltas == [c \in Chunks |-> [b \in Chunks |-> 1]]
\* A delta of cd against cn is larger than cd (MoveDelta leaves it, and co stays
\* a base); those of cd and co against cp are as large as the chunks (offline
\* keeps them, and they need two hot containers); one of cp against co is as
\* large as cp (inline refuses it).
MixedDeltas == [c \in Chunks |-> [b \in Chunks |->
                  CASE <<c, b>> = <<cd, cn>> -> 4
                    [] <<c, b>> \in {<<cd, cp>>, <<co, cp>>, <<cp, co>>} -> 3
                    [] OTHER -> 2]]

CoreBatches == {<<co, cx>>, <<cd, co, cd>>, <<cn>>, <<cp>>, <<cp, cx>>}
\* One record per container, cy coded against the cx that was stored just before.
PipelineBatches == {<<co, cx>>, <<cd, cy>>, <<cn, cp, cp>>}
\* cx shares the container of co, cy is similar to cx.
StaleBatches == {<<co, cx>>, <<cd, co>>, <<cn>>, <<cy, co>>}
\* cd and cy share a delta container that loses cd when cn replaces co.
LossBatches == {<<co, cx>>, <<cd, cy>>, <<cn>>}
=============================================================================

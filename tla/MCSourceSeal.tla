---------------------------- MODULE MCSourceSeal ----------------------------
(* SourceSeal with two texts for one file: the path, and the path with        *)
(* trailing space.  Contents are of one chunk, or of two when a rewrite may   *)
(* tear what a reader sees.                                                   *)
EXTENDS SourceSeal, TLC

CONSTANTS a, pad, i1, i2, x, y, h1

MCStrip == [n \in {a, pad} |-> a]
OneChunk == {<<x>>, <<y>>}
Torn == {<<x, x>>, <<y, x>>}
SymmetricInodes == Permutations(Inodes)

=============================================================================

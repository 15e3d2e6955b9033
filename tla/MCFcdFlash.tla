----------------------------- MODULE MCFcdFlash -----------------------------
EXTENDS FcdFlash, TLC
Symmetry == Permutations(Dongles)
\* Two blocks from 0 and from 48, one that is no multiple of 48 long, an
\* empty and a reversed one.
AnyRanges == {<<0, 96>>, <<48, 144>>, <<0, 150>>, <<96, 96>>, <<96, 0>>}
SomeRanges == {<<0, 96>>, <<0, 102>>}
=============================================================================

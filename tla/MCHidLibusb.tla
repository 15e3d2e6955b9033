---------------------------- MODULE MCHidLibusb ----------------------------
EXTENDS HidLibusb, TLC
Symmetry == Permutations(Clients)
=============================================================================

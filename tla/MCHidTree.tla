----------------------------- MODULE MCHidTree -----------------------------
(* A FUNcube dongle that shows two HID interfaces, a device of another     *)
(* product with an interface of the same number, two buses that give out   *)
(* the same number, and two processes.                                     *)
EXTENDS HidTree, TLC

CONSTANTS fcd, kbd

TreeDevices == {fcd, kbd}
TreeAddresses == {<<1, 1>>, <<2, 1>>}
TreeProduct == (fcd :> "fcd") @@ (kbd :> "kbd")
TreeSerial == (fcd :> "s1") @@ (kbd :> "s2")
TreeSettings == (fcd :> {<<0, 0>>, <<2, 0>>}) @@ (kbd :> {<<2, 0>>})
Symmetry == Permutations(Openers)
=============================================================================

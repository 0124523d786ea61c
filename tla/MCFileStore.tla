---------------------------- MODULE MCFileStore -----------------------------
(* Instances of FileStore for TLC. *)
EXTENDS FileStoreLedger, TLC

CONSTANTS alice, bob

TwoUsers     == {alice, bob}
QuotaOfThree == [u \in Users |-> 3]
BobGranted   == {<<bob, a>> : a \in Actions}
CallSymmetry == Permutations(Calls)
=============================================================================

---------------------------- MODULE MCChargePage ----------------------------
(***************************************************************************)
(* Instances of ChargePage for TLC.  Users are interchangeable.            *)
(***************************************************************************)
EXTENDS ChargePage, TLC

CONSTANT MaxNonce
NonceRange == 0..MaxNonce
FundRange == 0..InitialFunds
UserSymmetry == Permutations(Users)
=============================================================================

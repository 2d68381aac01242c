---------------------------- MODULE MCController ----------------------------
(***************************************************************************)
(* Instances of Controller for TLC.  Users are interchangeable.            *)
(***************************************************************************)
EXTENDS Controller, TLC

CONSTANT MaxNonce
NonceRange == 0..MaxNonce
FundRange == 0..InitialFunds
UserSymmetry == Permutations(Users)
=============================================================================

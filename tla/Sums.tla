-------------------------------- MODULE Sums --------------------------------
(***************************************************************************)
(* Sums over finite sets: of balances, of the tokens of events, of what a  *)
(* user's conversations have used.                                         *)
(***************************************************************************)
EXTENDS Integers, FiniteSetsExt

\* The sum of f[x] for all x \in S.
SumOver(f, S) == MapThenSumSet(LAMBDA x : f[x], S)
=============================================================================

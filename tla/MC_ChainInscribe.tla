------------------------- MODULE MC_ChainInscribe -------------------------
(***************************************************************************)
(* Model values for ChainInscribe.  Vsizes, amounts and fee rates are      *)
(* scaled down together so that every outcome of the estimator (change     *)
(* kept, change dropped on the final reveal, change too small on a         *)
(* non-final reveal, chain broken, commit unaffordable) occurs.            *)
(***************************************************************************)
EXTENDS ChainInscribe

\* Adjusted vsize of a signed one-input one-output commit, per funding type.
MCCommitVsize ==
  [t \in AddressTypes |->
     CASE t = "legacy" -> 4
       [] t = "segwit_nested" -> 3
       [] OTHER -> 2]

\* Every vsize in 1..59 and fee rate in 1.0..3.0 sat/vB (tenths 10..30)
\* whose IEEE-754 product lies above its exact integer value, so that
\* Math.ceil returns one more: 50 * 1.1 and 25 * 2.2 both evaluate to
\* 55.00000000000001.  Dyadic rates (1.0, 1.5, 2.0, 2.5) multiply exactly.
MCInexactProducts == {<<50, 11>>, <<25, 22>>, <<45, 22>>, <<50, 22>>, <<55, 22>>}
=============================================================================

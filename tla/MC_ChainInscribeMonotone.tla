--------------------- MODULE MC_ChainInscribeMonotone ---------------------
(***************************************************************************)
(* Model values for ChainInscribeMonotone: the scaled-down vsizes of       *)
(* MC_ChainInscribe with contiguous UTXO amounts, so that a rich request   *)
(* holds exactly one satoshi more than its lean twin.                      *)
(***************************************************************************)
EXTENDS ChainInscribeMonotone

\* Adjusted vsize of a signed one-input one-output commit, per funding type.
MCCommitVsize ==
  [t \in AddressTypes |->
     CASE t = "legacy" -> 4
       [] t = "segwit_nested" -> 3
       [] OTHER -> 2]
=============================================================================

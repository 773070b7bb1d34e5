----------------------- MODULE MC_ChainInscribeTests -----------------------
(***************************************************************************)
(* Model values for the jest scenarios of ChainInscribeTests.              *)
(***************************************************************************)
EXTENDS ChainInscribeTests

\* Adjusted vsize of a signed P2TR key-path commit with one P2TR output.
MCTestCommitVsize == [t \in AddressTypes |-> 111]
=============================================================================

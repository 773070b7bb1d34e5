\* A fee rate of 2.2 sat/vB, which is inexact in binary, and a reveal of
\* 24 vB that a change output takes to 25 vB (expected violation).
CONSTANTS
  MaxTransactionsPerChain = 3
  MaxInscriptions = 2
  MaxUtxos = 1
  Amounts = {60, 100, 160}
  AddressTypes = {"segwit_native", "segwit_taproot"}
  KeyPresence = {TRUE}
  FeeRates = {15, 22}
  RevealVsizes = {20, 24}
  CommitVsize <- MCCommitVsize
  CommitOutputVsize = 1
  FinalChangeOutputVsize = 1
  RevealOutValues = {0}
  DefaultRevealOutValue = 5
  MinChangeValues = {0}
  DefaultMinChangeValue = 5
  InexactProducts <- MCInexactProducts
SPECIFICATION Spec
\* inscribeChain returns: "done" and "failed" are final states.
CHECK_DEADLOCK FALSE
INVARIANTS
  FeeFollowsRate

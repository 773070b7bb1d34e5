\* Lean and rich requests: amounts 12..24 sat, one satoshi apart.
CONSTANTS
  MaxTransactionsPerChain = 3
  MaxInscriptions = 3
  MaxUtxos = 2
  Amounts = {12, 13, 14, 15, 16, 17, 18, 19, 20, 21, 22, 23, 24}
  AddressTypes = {"segwit_taproot"}
  KeyPresence = {TRUE}
  FeeRates = {10, 15}
  RevealVsizes = {2, 4}
  CommitVsize <- MCCommitVsize
  CommitOutputVsize = 1
  FinalChangeOutputVsize = 1
  RevealOutValues = {0}
  DefaultRevealOutValue = 5
  MinChangeValues = {0}
  DefaultMinChangeValue = 5
  InexactProducts = {}
SPECIFICATION Spec
\* Both calls return: "done" and "failed" are final states.
CHECK_DEADLOCK FALSE
INVARIANTS
  MoreFundingNeverHurts

\* Recorded fee versus value left to miners (expected violation).
CONSTANTS
  MaxTransactionsPerChain = 3
  MaxInscriptions = 4
  MaxUtxos = 2
  Amounts = {5, 14, 24, 40}
  AddressTypes = {"legacy", "segwit_native", "segwit_nested", "segwit_taproot"}
  KeyPresence = {TRUE}
  FeeRates = {10, 15}
  RevealVsizes = {2, 4}
  CommitVsize <- MCCommitVsize
  CommitOutputVsize = 1
  FinalChangeOutputVsize = 1
  RevealOutValues = {0}
  DefaultRevealOutValue = 5
  MinChangeValues = {0}
  DefaultMinChangeValue = 5
  InexactProducts = {}
SPECIFICATION Spec
\* inscribeChain returns: "done" and "failed" are final states.
CHECK_DEADLOCK FALSE
INVARIANTS
  FeeLedgerExact

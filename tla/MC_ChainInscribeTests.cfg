\* The jest scenarios and spec scenarios S4-S5 at the code's scale.  countAdjustedVsize values:
\* a P2TR key-path commit with one P2TR output is 111 vB, a P2TR change
\* output adds 43 vB, a brc-20 mint reveal without change is 153 vB.
CONSTANTS
  MaxTransactionsPerChain = 25
  MaxInscriptions = 30
  MaxUtxos = 2
  Amounts = {1000, 10000, 24978, 24979, 50000, 100000, 250000}
  AddressTypes = {"segwit_taproot"}
  KeyPresence = {TRUE}
  FeeRates = {20, 25}
  RevealVsizes = {153}
  BrcMintRevealVsize = 153
  CommitVsize <- MCTestCommitVsize
  CommitOutputVsize = 43
  FinalChangeOutputVsize = 43
  RevealOutValues = {546}
  DefaultRevealOutValue = 546
  MinChangeValues = {546}
  DefaultMinChangeValue = 546
  InexactProducts = {}
  Requests <- ScenarioRequests
SPECIFICATION Spec
\* inscribeChain returns: "done" and "failed" are final states.
CHECK_DEADLOCK FALSE
INVARIANTS
  JestExpectations
  SpecScenarios

------------------------- MODULE ChainInscribeTests -------------------------
(***************************************************************************)
(* The jest tests of packages/coin-bitcoin (jest.setup.js, "brc20 chain    *)
(* inscription tests") as requests to the ChainInscribe model at the       *)
(* code's real scale: MAX_TRANSACTIONS_PER_CHAIN = 25, 30 inscriptions,    *)
(* satoshi amounts and fee rates as written in the tests.  Each test's     *)
(* expect(...) calls become a predicate on the returned result.            *)
(*                                                                         *)
(* Every test funds with testAddress, a P2TR (tb1p...) address holding     *)
(* testWif, and inscribes the same brc-20 mint body, whose reveal vsize    *)
(* is the constant BrcMintRevealVsize.                                     *)
(***************************************************************************)
EXTENDS ChainInscribe

CONSTANT BrcMintRevealVsize \* adjusted vsize of a brc-20 mint reveal, no change

\* The test file's own copy of the chain limit.
JestMaxTransactionsPerChain == 25

JestDefaultMinChangeValue == 546

\* A UTXO of testAddress (P2TR) with testWif.
TestUtxo(amount) ==
  [amount |-> amount, addressType |-> "segwit_taproot", hasKey |-> TRUE]

\* inscriptionCount brc-20 mint inscriptions to revealAddress.
TestInscriptions(inscriptionCount) ==
  [i \in 1..inscriptionCount |-> BrcMintRevealVsize]

\* Fee rates 2.0 and 2.5 sat/vB in tenths; dust and minimum change 546.
TestRequest(utxos, inscriptionCount) ==
  [utxos |-> utxos, revealVsize |-> TestInscriptions(inscriptionCount),
   commitFeeRate |-> 20, revealFeeRate |-> 25,
   revealOutValue |-> 546, minChangeValue |-> 546]

MultipleChainsRequest ==
  TestRequest(<<TestUtxo(50000), TestUtxo(10000)>>, 30)

UtxoCountRequest == TestRequest(<<TestUtxo(250000)>>, 30)

UtxoValueRequest == TestRequest(<<TestUtxo(1000)>>, 1)

TestRequests == {MultipleChainsRequest, UtxoCountRequest, UtxoValueRequest}

\* "inscribeChain should create multiple chains from multiple UTXOs".
MultipleChainsExpected(r) ==
  LET maxInscriptionsPerChain == JestMaxTransactionsPerChain - 1
      expectedChainCount ==
        (30 + maxInscriptionsPerChain - 1) \div maxInscriptionsPerChain
  IN  /\ r.success
      /\ r.error = ""
      /\ r.totalEstimatedFee > 0
      /\ Len(r.txChainTxIds) = expectedChainCount
      /\ Len(r.lastTxDetails) = expectedChainCount
      /\ Len(r.txChainTxIds[1]) = 1 + maxInscriptionsPerChain
      /\ Len(r.txChainTxIds[2]) = 1 + (30 - maxInscriptionsPerChain)
      /\ \A k \in 1..Len(r.lastTxDetails) :
           LET detail == r.lastTxDetails[k]
           IN  /\ detail.fee >= 0
               /\ detail.inputValue > 0
               /\ detail.revealOutValue = 546
               /\ detail.minChangeValue = 546

\* The failure envelope both failing tests check.
EmptyFailure(r) ==
  /\ ~r.success
  /\ r.txChainTxIds = <<>>
  /\ r.lastTxDetails = <<>>
  /\ r.totalEstimatedFee = 0

\* "inscribeChain should fail if UTXO count is insufficient".
UtxoCountExpected(r) == EmptyFailure(r) /\ r.error = "utxo_count"

\* "inscribeChain should fail if UTXO value is insufficient": the message
\* matched is the chain-broken error of the reveal loop.
UtxoValueExpected(r) == EmptyFailure(r) /\ r.error = "chain_broken"

(* Every expect(...) of the three jest tests holds of the result the model  *)
(* returns for that test's request: two chains of 25 and 7 transactions     *)
(* from 50 000 and 10 000 sat, the UTXO-count failure when one UTXO must     *)
(* carry 30 inscriptions, and the chain-broken failure for 1 000 sat.        *)
JestExpectations ==
  phase \in {"done", "failed"} =>
    /\ req = MultipleChainsRequest => MultipleChainsExpected(result)
    /\ req = UtxoCountRequest => UtxoCountExpected(result)
    /\ req = UtxoValueRequest => UtxoValueExpected(result)

-----------------------------------------------------------------------------
(* The spec's scenarios S4 and S5 (spec section 8) with the tests' keys,   *)
(* body and rates.  S5's "exactly covering" amount is the commit fee, 23   *)
(* non-final reveals each paying dust, the fee with a change output and    *)
(* leaving at least minChangeValue for the next, and a final reveal that   *)
(* drops its change and pays dust and the fee without it.                  *)

BrcMintChangeRevealVsize == BrcMintRevealVsize + FinalChangeOutputVsize

S5ExactCover ==
  Fee(CommitVsize["segwit_taproot"], 20)
    + 23 * (546 + Fee(BrcMintChangeRevealVsize, 25))
    + 546 + Fee(BrcMintRevealVsize, 25)

S4Request == TestRequest(<<TestUtxo(100000)>>, 1)

S5Request(amount) == TestRequest(<<TestUtxo(amount)>>, 24)

SpecScenarioRequests ==
  {S4Request, S5Request(S5ExactCover), S5Request(S5ExactCover - 1)}

\* The jest tests' requests and the spec scenarios' requests.
ScenarioRequests == TestRequests \cup SpecScenarioRequests

(* S4: 100 000 sat for one inscription gives one chain of length 2 whose   *)
(* final reveal keeps a change of at least 546 sat.  S5: 24 inscriptions   *)
(* fit exactly one chain of 25 transactions (the MAX - 1 boundary), the    *)
(* exactly covering UTXO succeeds with the last reveal's change dropped    *)
(* and a total fee of everything but the dust, and one satoshi less breaks *)
(* the chain at its last reveal.                                           *)
SpecScenarios ==
  phase \in {"done", "failed"} =>
    /\ req = S4Request =>
         /\ result.success
         /\ Len(result.txChainTxIds) = 1
         /\ Len(result.txChainTxIds[1]) = 2
         /\ Len(result.lastTxDetails[1].outputs) = 2
         /\ result.lastTxDetails[1].outputs[2].value >= 546
    /\ req = S5Request(S5ExactCover) =>
         /\ result.success
         /\ Len(result.txChainTxIds) = 1
         /\ Len(result.txChainTxIds[1]) = 25
         /\ Len(result.lastTxDetails[1].outputs) = 1
         /\ result.totalEstimatedFee = S5ExactCover - 24 * 546
    /\ req = S5Request(S5ExactCover - 1) => UtxoValueExpected(result)

=============================================================================

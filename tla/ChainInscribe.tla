--------------------------- MODULE ChainInscribe ---------------------------
(***************************************************************************)
(* The chain-inscription builder of src/unnamed/part_000 (inscribe_chain): *)
(* ChainInscriptionTool.newChainInscriptionTool validates the request,     *)
(* buildEnhancedInscriptionChains fills chains sequentially (one funding   *)
(* UTXO per chain, at most MAX_TRANSACTIONS_PER_CHAIN - 1 inscriptions),   *)
(* buildSingleUtxoChain builds the commit and the reveals of one chain     *)
(* with estimateFeeAndOutput, signAllTransactions signs every input, and   *)
(* inscribeChain packages the result or a failure envelope.                *)
(*                                                                         *)
(* The program is sequential; each action is one iteration of one of its   *)
(* loops, so the states between actions are the program's own states.      *)
(* Data is abstracted: a script is a tagged pair, a transaction id is the  *)
(* non-witness part of the transaction (an injective stand-in for the      *)
(* double SHA-256 of its legacy serialisation), a vsize is a small number  *)
(* per address type or per inscription body.                               *)
(***************************************************************************)
EXTENDS Integers, Sequences, SequencesExt, FiniteSets

CONSTANTS
  MaxTransactionsPerChain, \* MAX_TRANSACTIONS_PER_CHAIN (25 in the code)
  MaxInscriptions,         \* bound on inscriptionDataList.length
  MaxUtxos,                \* bound on commitTxPrevOutputList.length
  Amounts,                 \* candidate UTXO amounts (sat)
  AddressTypes,            \* funding address types the request may use
  KeyPresence,             \* whether a UTXO may lack its privateKey
  FeeRates,                \* candidate fee rates, in tenths of sat/vB
  RevealVsizes,            \* candidate vsizes of a reveal without change
  CommitVsize,             \* [AddressTypes -> Nat]: vsize of a signed commit
  CommitOutputVsize,       \* vsize a P2TR change output adds to a reveal
  FinalChangeOutputVsize,  \* vsize the final change output adds
  RevealOutValues,         \* candidate request.revealOutValue (0: unset)
  MinChangeValues,         \* candidate request.minChangeValue (0: unset)
  DefaultRevealOutValue,   \* DEFAULT_REVEAL_OUT_VALUE (546 in the code)
  DefaultMinChangeValue,   \* DEFAULT_MIN_CHANGE_VALUE (546 in the code)
  InexactProducts          \* <<vsize, rate>> whose double product exceeds
                           \* the integer vsize * rate / 10 it equals exactly

ASSUME MaxTransactionsPerChain \in Nat \ {0, 1}
ASSUME AddressTypes \subseteq
         {"legacy", "segwit_native", "segwit_nested", "segwit_taproot"}
ASSUME CommitVsize \in [AddressTypes -> Nat \ {0}]
ASSUME \A p \in InexactProducts : (p[1] * p[2]) % 10 = 0

VARIABLES
  req,                   \* the InscriptionRequest (fixed input)
  phase,                 \* which loop of the program is running
  inscriptionStartIndex, \* planner cursor over inscriptions (0-based)
  currentUtxoIndex,      \* planner cursor over UTXOs (0-based)
  countForThisChain,     \* inscriptions assigned to the chain being built
  txChain,               \* the chain buildSingleUtxoChain is building
  revealIndex,           \* i of the reveal loop
  prevOutputValue,       \* value of the output the next reveal spends
  prevOutputIndex,       \* vout of that output (-1 after a dropped change)
  txChains,              \* ChainInscriptionTool.txChains
  totalEstimatedFee,     \* ChainInscriptionTool.totalEstimatedFee
  txFees,                \* ChainInscriptionTool.txFees (push order)
  chainContextMapping,   \* ChainInscriptionTool.chainContextMapping
  signChainIndex,        \* chainIndex of signAllTransactions
  signTxIndex,           \* txIndex of signAllTransactions
  prevTxOutputs,         \* prevTxOutputs of signAllTransactions
  result                 \* the ChainInscribeResult returned

vars == <<req, phase, inscriptionStartIndex, currentUtxoIndex,
          countForThisChain, txChain, revealIndex, prevOutputValue,
          prevOutputIndex, txChains, totalEstimatedFee, txFees,
          chainContextMapping, signChainIndex, signTxIndex, prevTxOutputs,
          result>>

-----------------------------------------------------------------------------
(* Values.                                                                 *)

Null == -1                 \* contextIndex: null of a commit
Dropped == -1              \* changeAmount -1: "drop the change output"
NegInfinity == -(2^30)     \* changeAmount -Infinity: below every amount
FeeRateScale == 10         \* fee rates are given in tenths of sat/vB

\* Output scripts: the P2TR commit script of inscription i, the recipient
\* script of inscription i, and the final change address's script.
CommitScript(i) == <<"commit", i>>
RevealScript(i) == <<"reveal", i>>
FinalChangeScript == <<"change", 0>>

NoWitness == [kind |-> "none", ctx |-> Null]

\* The transaction id covers inputs (with scriptSig) and outputs, never the
\* witness: what Transaction.getHash() serialises.
TxId(tx) == <<"tx", tx.in, tx.scriptSig, tx.outs>>
FundingTxId(u) == <<"funding", u>>

Utxo == [amount: Amounts, addressType: AddressTypes, hasKey: KeyPresence]

Requests ==
  [utxos: SeqOf(Utxo, MaxUtxos),
   revealVsize: SeqOf(RevealVsizes, MaxInscriptions),
   commitFeeRate: FeeRates,
   revealFeeRate: FeeRates,
   revealOutValue: RevealOutValues,
   minChangeValue: MinChangeValues]

TotalInscriptions == Len(req.revealVsize)
UtxoCount == Len(req.utxos)
MaxInscriptionsPerChain == MaxTransactionsPerChain - 1

\* JavaScript's `v || d` on a number: 0 (like undefined and NaN) is falsy.
OrDefault(v, d) == IF v = 0 THEN d ELSE v

\* The values newChainInscriptionTool passes to the builder.
RevealOutValue == OrDefault(req.revealOutValue, DefaultRevealOutValue)
MinChangeValue == OrDefault(req.minChangeValue, DefaultMinChangeValue)

-----------------------------------------------------------------------------
(* Fee & change estimator (estimateFeeAndOutput).                          *)

\* The ceiling of vsize * rate / 10 in exact arithmetic.
ExactCeil(vsize, rate) == (vsize * rate + FeeRateScale - 1) \div FeeRateScale

\* Math.ceil(vsize * feeRate) on IEEE-754 doubles: feeRate holds the double
\* nearest rate / 10, and when the exact product is an integer the rounded
\* product may lie just above it, so the ceiling is one more.
CeilProduct(vsize, rate) ==
  ExactCeil(vsize, rate) + IF <<vsize, rate>> \in InexactProducts THEN 1 ELSE 0

\* Math.max(Math.ceil(vsize * feeRate), vsize), feeRate in tenths.
Fee(vsize, rate) == Max({CeilProduct(vsize, rate), vsize})

\* countAdjustedVsize of a reveal carrying inscription ctx and outputs outs.
OutputVsize(script) ==
  IF script = FinalChangeScript THEN FinalChangeOutputVsize
                                ELSE CommitOutputVsize
RevealTxVsize(ctx, outs) ==
  req.revealVsize[ctx + 1]
    + IF Len(outs) > 1 THEN OutputVsize(outs[2].script) ELSE 0

EstimateFeeAndOutputMut(vsize, vsizeWithoutChange, feeRate, totalInputValue, fixedOutputValue, minChangeValue, hasChangeSlot) ==
  LET fee == Fee(vsize, feeRate)
      changeAmount == totalInputValue - fee
      feeWithoutChange == Fee(vsizeWithoutChange, feeRate)
  IN  IF hasChangeSlot /\ ~(changeAmount >= minChangeValue)
        THEN IF totalInputValue >= fixedOutputValue + feeWithoutChange
               THEN [fee |-> feeWithoutChange, changeAmount |-> Dropped]
               ELSE [fee |-> fee, changeAmount |-> NegInfinity]
        ELSE [fee |-> fee, changeAmount |-> changeAmount]

\* The estimator given the vsize of the transaction as it is and with its
\* change output (index 1) removed.  hasChangeSlot is
\* changeOutputIndex !== -1 && tx.outs.length > changeOutputIndex.
EstimateFeeAndOutput(vsize, vsizeWithoutChange, feeRate, totalInputValue, fixedOutputValue, minChangeValue, hasChangeSlot) ==
  LET fee == Fee(vsize, feeRate)
      changeAmount == totalInputValue - fixedOutputValue - fee
      feeWithoutChange == Fee(vsizeWithoutChange, feeRate)
  IN  IF hasChangeSlot /\ ~(changeAmount >= minChangeValue)
        THEN IF totalInputValue >= fixedOutputValue + feeWithoutChange
               THEN [fee |-> feeWithoutChange, changeAmount |-> Dropped]
               ELSE [fee |-> fee, changeAmount |-> NegInfinity]
        ELSE [fee |-> fee, changeAmount |-> changeAmount]

\* The estimator called on the commit (isCommitTx = true: no change slot).
EstimateCommit(utxo) ==
  LET v == CommitVsize[utxo.addressType]
  IN  EstimateFeeAndOutput(v, v, req.commitFeeRate, utxo.amount, 0,
                           MinChangeValue, FALSE)

\* The estimator called on a reveal of inscription ctx.
EstimateReveal(tx, ctx, inputValue, minChange) ==
  EstimateFeeAndOutput(RevealTxVsize(ctx, tx.outs),
                       RevealTxVsize(ctx, SubSeq(tx.outs, 1, 1)),
                       req.revealFeeRate, inputValue, RevealOutValue,
                       minChange, Len(tx.outs) > 1)

-----------------------------------------------------------------------------
(* Initial state: newChainInscriptionTool before validation.               *)

NoResult ==
  [success |-> FALSE, error |-> "", txChainTxIds |-> <<>>,
   lastTxDetails |-> <<>>, totalEstimatedFee |-> 0]

Init ==
  /\ req \in Requests
  /\ phase = "validate"
  /\ inscriptionStartIndex = 0
  /\ currentUtxoIndex = 0
  /\ countForThisChain = 0
  /\ txChain = <<>>
  /\ revealIndex = 0
  /\ prevOutputValue = 0
  /\ prevOutputIndex = 0
  /\ txChains = <<>>
  /\ totalEstimatedFee = 0
  /\ txFees = <<>>
  /\ chainContextMapping = <<>>
  /\ signChainIndex = 0
  /\ signTxIndex = 0
  /\ prevTxOutputs = <<>>
  /\ result = NoResult

\* Every error is thrown up to inscribeChain's catch, which discards the
\* tool and returns the failure envelope with empty collections.
Fail(reason) ==
  /\ phase' = "failed"
  /\ result' = [success |-> FALSE, error |-> reason, txChainTxIds |-> <<>>,
                lastTxDetails |-> <<>>, totalEstimatedFee |-> 0]
  /\ UNCHANGED <<req, inscriptionStartIndex, currentUtxoIndex,
                 countForThisChain, txChain, revealIndex, prevOutputValue,
                 prevOutputIndex, txChains, totalEstimatedFee, txFees,
                 chainContextMapping, signChainIndex, signTxIndex,
                 prevTxOutputs>>

-----------------------------------------------------------------------------
(* Validation (newChainInscriptionTool).                                   *)

RequestInvalid ==
  \/ UtxoCount = 0
  \/ TotalInscriptions = 0
  \/ \E u \in 1..UtxoCount : ~req.utxos[u].hasKey

ValidationError ==
  /\ phase = "validate"
  /\ RequestInvalid
  /\ Fail("validation")

\* Contexts and the UTXO map are derived data; the build loop starts.
Validate ==
  /\ phase = "validate"
  /\ ~RequestInvalid
  /\ phase' = "plan"
  /\ UNCHANGED <<req, inscriptionStartIndex, currentUtxoIndex,
                 countForThisChain, txChain, revealIndex, prevOutputValue,
                 prevOutputIndex, txChains, totalEstimatedFee, txFees,
                 chainContextMapping, signChainIndex, signTxIndex,
                 prevTxOutputs, result>>

-----------------------------------------------------------------------------
(* Planner loop (buildEnhancedInscriptionChains) and the commit of each    *)
(* chain (first half of buildSingleUtxoChain).                             *)

CountForThisChainMut(start) ==
  Min({TotalInscriptions - start, MaxTransactionsPerChain})

CountForThisChain(start) ==
  Min({TotalInscriptions - start, MaxInscriptionsPerChain})

PlanStepEnabled ==
  /\ phase = "plan"
  /\ inscriptionStartIndex < TotalInscriptions

UtxosExhaustedMut == currentUtxoIndex + 1 >= UtxoCount

\* if (currentUtxoIndex >= utxoCount) throw ...
UtxosExhausted == currentUtxoIndex >= UtxoCount

UtxoCountInsufficient ==
  /\ PlanStepEnabled
  /\ UtxosExhausted
  /\ Fail("utxo_count")

CommitTx(utxoIndex, firstCtx, value) ==
  [in |-> [txid |-> FundingTxId(utxoIndex), vout |-> 0],
   scriptSig |-> "empty", witness |-> NoWitness,
   outs |-> <<[script |-> CommitScript(firstCtx), value |-> value]>>]

CommitUnaffordable ==
  /\ PlanStepEnabled
  /\ ~UtxosExhausted
  /\ EstimateCommit(req.utxos[currentUtxoIndex + 1]).changeAmount < 0
  /\ Fail("commit_fee")

BuildCommit ==
  /\ PlanStepEnabled
  /\ ~UtxosExhausted
  /\ LET est == EstimateCommit(req.utxos[currentUtxoIndex + 1])
         chainIndex == Len(txChains)
     IN  /\ est.changeAmount >= 0
         /\ totalEstimatedFee' = totalEstimatedFee + est.fee
         /\ txFees' = Append(txFees, [chainIndex |-> chainIndex,
                                      txIndex |-> 0, fee |-> est.fee])
         /\ chainContextMapping' =
              Append(chainContextMapping, [chainIndex |-> chainIndex,
                                           txIndex |-> 0,
                                           contextIndex |-> Null])
         /\ txChain' = <<CommitTx(currentUtxoIndex, inscriptionStartIndex,
                                  est.changeAmount)>>
         /\ countForThisChain' = CountForThisChain(inscriptionStartIndex)
         /\ revealIndex' = 0
         /\ prevOutputValue' = est.changeAmount
         /\ prevOutputIndex' = 0
         /\ phase' = "reveal"
  /\ UNCHANGED <<req, inscriptionStartIndex, currentUtxoIndex, txChains,
                 signChainIndex, signTxIndex, prevTxOutputs, result>>

-----------------------------------------------------------------------------
(* Reveal loop of buildSingleUtxoChain.                                    *)

RevealCtx == inscriptionStartIndex + revealIndex
IsLastReveal == revealIndex = countForThisChain - 1

ChangeScriptForMut(ctx, isLast) ==
  IF isLast THEN FinalChangeScript ELSE CommitScript(ctx)

\* The last reveal pays change to changeAddress, the others to the next
\* inscription's commit address.
ChangeScriptFor(ctx, isLast) ==
  IF isLast THEN FinalChangeScript ELSE CommitScript(ctx + 1)

CandidateRevealTxMut ==
  [in |-> [txid |-> TxId(Last(txChain)), vout |-> Len(Last(txChain).outs)],
   scriptSig |-> "empty", witness |-> NoWitness,
   outs |-> <<[script |-> RevealScript(RevealCtx), value |-> RevealOutValue],
              [script |-> ChangeScriptFor(RevealCtx, IsLastReveal),
               value |-> 0]>>]

CandidateRevealTx ==
  [in |-> [txid |-> TxId(Last(txChain)), vout |-> prevOutputIndex],
   scriptSig |-> "empty", witness |-> NoWitness,
   outs |-> <<[script |-> RevealScript(RevealCtx), value |-> RevealOutValue],
              [script |-> ChangeScriptFor(RevealCtx, IsLastReveal),
               value |-> 0]>>]

RevealEstimate ==
  EstimateReveal(CandidateRevealTx, RevealCtx, prevOutputValue, MinChangeValue)

RevealStepEnabled ==
  /\ phase = "reveal"
  /\ revealIndex < countForThisChain
  /\ prevOutputIndex # -1

RecordReveal(tx, fee, nextValue, nextIndex) ==
  /\ totalEstimatedFee' = totalEstimatedFee + fee
  /\ txFees' = Append(txFees, [chainIndex |-> Len(txChains),
                               txIndex |-> Len(txChain), fee |-> fee])
  /\ chainContextMapping' =
       Append(chainContextMapping, [chainIndex |-> Len(txChains),
                                    txIndex |-> Len(txChain),
                                    contextIndex |-> RevealCtx])
  /\ txChain' = Append(txChain, tx)
  /\ prevOutputValue' = nextValue
  /\ prevOutputIndex' = nextIndex
  /\ revealIndex' = revealIndex + 1
  /\ UNCHANGED <<req, phase, inscriptionStartIndex, currentUtxoIndex,
                 countForThisChain, txChains, signChainIndex, signTxIndex,
                 prevTxOutputs, result>>

RevealChainBroken ==
  /\ RevealStepEnabled
  /\ RevealEstimate.changeAmount = NegInfinity
  /\ Fail("chain_broken")

RevealNonFinalWithoutChange ==
  /\ RevealStepEnabled
  /\ RevealEstimate.changeAmount = Dropped
  /\ ~IsLastReveal
  /\ Fail("nonfinal_no_change")

RevealDropChangeMut ==
  /\ RevealStepEnabled
  /\ RevealEstimate.changeAmount = Dropped
  /\ LET tx == [CandidateRevealTx EXCEPT !.outs = SubSeq(@, 1, 1)]
     IN  RecordReveal(tx, EstimateReveal(tx, RevealCtx, prevOutputValue, 0).fee,
                      0, IF IsLastReveal THEN -1 ELSE 1)

\* The final reveal drops its change output and is estimated again.
RevealDropChange ==
  /\ RevealStepEnabled
  /\ RevealEstimate.changeAmount = Dropped
  /\ IsLastReveal
  /\ LET tx == [CandidateRevealTx EXCEPT !.outs = SubSeq(@, 1, 1)]
     IN  RecordReveal(tx, EstimateReveal(tx, RevealCtx, prevOutputValue, 0).fee,
                      0, -1)

ChangeCoversMinimumMut(change) == change > MinChangeValue

\* else if (revealChangeAmount >= minChangeValue)
ChangeCoversMinimum(change) == change >= MinChangeValue

RevealWithChange ==
  /\ RevealStepEnabled
  /\ RevealEstimate.changeAmount \notin {NegInfinity, Dropped}
  /\ LET change == RevealEstimate.changeAmount
     IN  IF ChangeCoversMinimum(change)
           THEN RecordReveal([CandidateRevealTx EXCEPT !.outs[2].value = change],
                             RevealEstimate.fee, change, 1)
           ELSE Fail("internal_change")

\* The loop ends (or breaks after a dropped change); the planner stores the
\* chain and moves both cursors.
ChainBuilt ==
  /\ phase = "reveal"
  /\ (revealIndex >= countForThisChain \/ prevOutputIndex = -1)
  /\ txChains' = IF Len(txChain) > 0 THEN Append(txChains, txChain)
                                     ELSE txChains
  /\ inscriptionStartIndex' = inscriptionStartIndex + countForThisChain
  /\ currentUtxoIndex' = currentUtxoIndex + 1
  /\ phase' = "plan"
  /\ UNCHANGED <<req, countForThisChain, txChain, revealIndex,
                 prevOutputValue, prevOutputIndex, totalEstimatedFee, txFees,
                 chainContextMapping, signChainIndex, signTxIndex,
                 prevTxOutputs, result>>

PlanComplete ==
  /\ phase = "plan"
  /\ inscriptionStartIndex >= TotalInscriptions
  /\ phase' = IF Len(txChains) = 0 THEN "package" ELSE "sign"
  /\ signChainIndex' = 0
  /\ signTxIndex' = 0
  /\ prevTxOutputs' = <<>>
  /\ UNCHANGED <<req, inscriptionStartIndex, currentUtxoIndex,
                 countForThisChain, txChain, revealIndex, prevOutputValue,
                 prevOutputIndex, txChains, totalEstimatedFee, txFees,
                 chainContextMapping, result>>

-----------------------------------------------------------------------------
(* Signer (signAllTransactions, signTx).                                   *)

SignFundingInputMut(tx, addressType) ==
  CASE addressType = "segwit_taproot" ->
         [tx EXCEPT !.witness = [kind |-> "keypath", ctx |-> Null]]
    [] addressType = "legacy" ->
         [tx EXCEPT !.scriptSig = "p2pkh_sig"]
    [] OTHER ->
         [tx EXCEPT !.witness = [kind |-> "p2wpkh", ctx |-> Null],
                    !.scriptSig = "p2sh_redeem"]

\* signTx on the funding input: key-path witness for P2TR, a scriptSig for
\* P2PKH, a P2WPKH witness otherwise, plus the redeem-script scriptSig for
\* P2SH-P2WPKH.  Only the scriptSig enters the transaction id.
SignFundingInput(tx, addressType) ==
  CASE addressType = "segwit_taproot" ->
         [tx EXCEPT !.witness = [kind |-> "keypath", ctx |-> Null]]
    [] addressType = "legacy" ->
         [tx EXCEPT !.scriptSig = "p2pkh_sig"]
    [] OTHER ->
         [tx EXCEPT !.witness = [kind |-> "p2wpkh", ctx |-> Null],
                    !.scriptSig = IF addressType = "segwit_nested"
                                    THEN "p2sh_redeem" ELSE @]

SigningTx == txChains[signChainIndex + 1][signTxIndex + 1]

AdvanceSignCursorMut ==
  IF signTxIndex + 1 < Len(txChains[signChainIndex + 1]) - 1
    THEN /\ signChainIndex' = signChainIndex
         /\ signTxIndex' = signTxIndex + 1
    ELSE /\ signChainIndex' = signChainIndex + 1
         /\ signTxIndex' = 0

AdvanceSignCursorStuck ==
  IF signTxIndex + 1 < Len(txChains[signChainIndex + 1])
    THEN /\ signChainIndex' = signChainIndex
         /\ signTxIndex' = signTxIndex + 1
    ELSE /\ signChainIndex' = signChainIndex
         /\ signTxIndex' = 0

\* chain.forEach / this.txChains.forEach: next transaction, or next chain.
AdvanceSignCursor ==
  IF signTxIndex + 1 < Len(txChains[signChainIndex + 1])
    THEN /\ signChainIndex' = signChainIndex
         /\ signTxIndex' = signTxIndex + 1
    ELSE /\ signChainIndex' = signChainIndex + 1
         /\ signTxIndex' = 0

SignStepEnabled ==
  /\ phase = "sign"
  /\ signChainIndex < Len(txChains)

\* The commit of chain k is signed with commitTxPrevOutputList[k]; a chain
\* without such a UTXO, or whose UTXO has no key, is skipped.
SignCommit ==
  /\ SignStepEnabled
  /\ signTxIndex = 0
  /\ IF signChainIndex >= UtxoCount \/ ~req.utxos[signChainIndex + 1].hasKey
       THEN /\ signChainIndex' = signChainIndex + 1
            /\ signTxIndex' = 0
            /\ UNCHANGED <<txChains, prevTxOutputs>>
       ELSE /\ txChains' =
                 [txChains EXCEPT ![signChainIndex + 1][1] =
                    SignFundingInput(@,
                      req.utxos[signChainIndex + 1].addressType)]
            /\ prevTxOutputs' = SigningTx.outs
            /\ AdvanceSignCursor
  /\ UNCHANGED <<req, phase, inscriptionStartIndex, currentUtxoIndex,
                 countForThisChain, txChain, revealIndex, prevOutputValue,
                 prevOutputIndex, totalEstimatedFee, txFees,
                 chainContextMapping, result>>

\* The context recorded for (chainIndex, txIndex): the first match of find.
MappedContext(c, t) ==
  LET k == SelectInSeq(chainContextMapping,
                       LAMBDA m : m.chainIndex = c /\ m.txIndex = t)
  IN  IF k = 0 THEN Null ELSE chainContextMapping[k].contextIndex

\* A reveal is signed on the script path of its mapped context, after the
\* spent output is found and its script checked against the context's.
SignReveal ==
  /\ SignStepEnabled
  /\ signTxIndex > 0
  /\ LET spent == SigningTx.in.vout
         ctx == MappedContext(signChainIndex, signTxIndex)
     IN  IF \/ spent >= Len(prevTxOutputs)
            \/ ctx = Null
            \/ ctx >= TotalInscriptions
            \/ CommitScript(ctx) # prevTxOutputs[spent + 1].script
           THEN Fail("signing")
           ELSE /\ txChains' =
                     [txChains EXCEPT ![signChainIndex + 1][signTxIndex + 1]
                        .witness = [kind |-> "scriptpath", ctx |-> ctx]]
                /\ prevTxOutputs' = SigningTx.outs
                /\ AdvanceSignCursor
                /\ UNCHANGED <<req, phase, inscriptionStartIndex,
                               currentUtxoIndex, countForThisChain, txChain,
                               revealIndex, prevOutputValue, prevOutputIndex,
                               totalEstimatedFee, txFees,
                               chainContextMapping, result>>

SigningComplete ==
  /\ phase = "sign"
  /\ signChainIndex >= Len(txChains)
  /\ phase' = "package"
  /\ UNCHANGED <<req, inscriptionStartIndex, currentUtxoIndex,
                 countForThisChain, txChain, revealIndex, prevOutputValue,
                 prevOutputIndex, txChains, totalEstimatedFee, txFees,
                 chainContextMapping, signChainIndex, signTxIndex,
                 prevTxOutputs, result>>

-----------------------------------------------------------------------------
(* Result packager (inscribeChain).                                        *)

\* txFees.find for (chainIndex, txIndex), 0 when absent.
LedgerFee(c, t) ==
  LET k == SelectInSeq(txFees, LAMBDA f : f.chainIndex = c /\ f.txIndex = t)
  IN  IF k = 0 THEN 0 ELSE txFees[k].fee

NoScript == <<"none", 0>>

RbfRevealOutValueMut == req.revealOutValue

\* LastTxInfo applies the request defaults again, independently of the
\* builder: request.revealOutValue || DEFAULT_REVEAL_OUT_VALUE, and the same
\* for minChangeValue.
RbfRevealOutValue == OrDefault(req.revealOutValue, DefaultRevealOutValue)

RbfMinChangeValue == OrDefault(req.minChangeValue, DefaultMinChangeValue)

\* A chain yields a LastTxInfo when it has two transactions and the final
\* one spends an existing output of the one before.
HasLastTxInfo(c) ==
  LET chain == txChains[c]
  IN  /\ Len(chain) >= 2
      /\ Last(chain).in.vout < Len(chain[Len(chain) - 1].outs)

LastTxInfo(c) ==
  LET chain == txChains[c]
      lastIndex == Len(chain) - 1
      last == chain[lastIndex + 1]
      prev == chain[lastIndex]
      ctx == MappedContext(c - 1, lastIndex)
  IN  [txId |-> TxId(last),
       fee |-> LedgerFee(c - 1, lastIndex),
       inputTxId |-> TxId(prev),
       inputVout |-> last.in.vout,
       inputValue |-> prev.outs[last.in.vout + 1].value,
       outputs |-> last.outs,
       prevInputPkScript |-> IF ctx = Null THEN NoScript ELSE CommitScript(ctx),
       revealOutValue |-> RbfRevealOutValue,
       minChangeValue |-> RbfMinChangeValue,
       finalChangePkScript |->
         IF Len(last.outs) > 1 THEN last.outs[2].script ELSE NoScript]

Package ==
  /\ phase = "package"
  /\ LET withInfo == SelectSeq([c \in 1..Len(txChains) |-> c], HasLastTxInfo)
     IN  result' =
           [success |-> TRUE, error |-> "",
            txChainTxIds |->
              [c \in 1..Len(txChains) |->
                 IF Len(txChains[c]) < 2 THEN <<>>
                 ELSE [t \in 1..Len(txChains[c]) |-> TxId(txChains[c][t])]],
            lastTxDetails |->
              [k \in 1..Len(withInfo) |-> LastTxInfo(withInfo[k])],
            totalEstimatedFee |-> totalEstimatedFee]
  /\ phase' = "done"
  /\ UNCHANGED <<req, inscriptionStartIndex, currentUtxoIndex,
                 countForThisChain, txChain, revealIndex, prevOutputValue,
                 prevOutputIndex, txChains, totalEstimatedFee, txFees,
                 chainContextMapping, signChainIndex, signTxIndex,
                 prevTxOutputs>>

-----------------------------------------------------------------------------
Next ==
  \/ ValidationError \/ Validate
  \/ UtxoCountInsufficient \/ CommitUnaffordable \/ BuildCommit
  \/ RevealChainBroken \/ RevealNonFinalWithoutChange
  \/ RevealDropChange \/ RevealWithChange
  \/ ChainBuilt \/ PlanComplete
  \/ SignCommit \/ SignReveal \/ SigningComplete
  \/ Package

\* inscribeChain returns in phase "done" or "failed" and nothing follows.
Spec == Init /\ [][Next]_vars

\* inscribeChain is one synchronous call: no step waits on another actor, so
\* while the program has a next step it takes it.
FairSpec == Spec /\ WF_vars(Next)

-----------------------------------------------------------------------------
(* Properties.                                                             *)

Phases == {"validate", "plan", "reveal", "sign", "package", "done", "failed"}
Scripts == {CommitScript(i) : i \in 0..MaxInscriptions}
             \cup {RevealScript(i) : i \in 0..MaxInscriptions}
             \cup {FinalChangeScript}
Witnesses == [kind: {"none", "keypath", "p2wpkh"}, ctx: {Null}]
               \cup [kind: {"scriptpath"}, ctx: 0..MaxInscriptions]

TxShapeOK(tx) ==
  /\ tx.scriptSig \in {"empty", "p2pkh_sig", "p2sh_redeem"}
  /\ tx.witness \in Witnesses
  /\ tx.in.vout \in {0, 1}
  /\ Len(tx.outs) \in {1, 2}
  /\ \A o \in 1..Len(tx.outs) : o \in DOMAIN tx.outs
                                 /\ tx.outs[o].script \in Scripts
                                 /\ tx.outs[o].value \in Int

TypeOK ==
  /\ req \in Requests
  /\ phase \in Phases
  /\ inscriptionStartIndex \in 0..MaxInscriptions
  /\ currentUtxoIndex \in 0..MaxUtxos
  /\ countForThisChain \in 0..MaxInscriptions
  /\ revealIndex \in 0..MaxInscriptions
  /\ prevOutputIndex \in {-1, 0, 1}
  /\ prevOutputValue \in Int
  /\ \A t \in 1..Len(txChain) : TxShapeOK(txChain[t])
  /\ \A c \in 1..Len(txChains) :
       \A t \in 1..Len(txChains[c]) : TxShapeOK(txChains[c][t])
  /\ \A k \in 1..Len(txFees) : txFees[k].fee \in Nat
  /\ \A k \in 1..Len(chainContextMapping) :
       chainContextMapping[k].contextIndex \in {Null} \cup 0..MaxInscriptions
  /\ signChainIndex \in 0..MaxUtxos
  /\ signTxIndex \in 0..MaxInscriptions
  /\ result.success \in BOOLEAN

\* The value a transaction of a chain spends: the funding UTXO for a
\* commit, the output of the previous transaction for a reveal.
InputValue(c, t) ==
  IF t = 1 THEN req.utxos[txChains[c][1].in.txid[2] + 1].amount
           ELSE txChains[c][t - 1].outs[txChains[c][t].in.vout + 1].value

OutputSum(tx) == FoldSeq(LAMBDA o, acc : o.value + acc, 0, tx.outs)

ChainsNeeded ==
  (TotalInscriptions + MaxInscriptionsPerChain - 1) \div MaxInscriptionsPerChain

(* Every failure inscribeChain reports is a validation or funding failure:  *)
(* the estimator and the reveal loop agree on what a change amount means    *)
(* (no "abnormal change amount" error), and every plan the builder accepts  *)
(* passes the signer's checks (spent output exists, a context is mapped to  *)
(* each reveal, and its commit script is the script being spent).           *)
OnlyFundingFailures ==
  phase = "failed" =>
    result.error \in {"validation", "utxo_count", "commit_fee",
                      "chain_broken", "nonfinal_no_change"}

(* A successful result carries only signed transactions: the commit of    *)
(* every chain has the witness or scriptSig of its funding UTXO's address  *)
(* type, and every reveal a script-path witness for the inscription whose  *)
(* commit script it spends (signAllTransactions may skip a chain, and the  *)
(* result would still report success).                                     *)
EverythingSigned ==
  phase = "done" =>
    \A c \in 1..Len(txChains) :
      /\ LET commit == txChains[c][1]
             type == req.utxos[commit.in.txid[2] + 1].addressType
         IN  commit = SignFundingInput([commit EXCEPT !.scriptSig = "empty",
                                                      !.witness = NoWitness],
                                       type)
      /\ \A t \in 2..Len(txChains[c]) :
           LET tx == txChains[c][t]
           IN  /\ tx.witness.kind = "scriptpath"
               /\ txChains[c][t - 1].outs[tx.in.vout + 1].script
                    = CommitScript(tx.witness.ctx)

(* Sequential fill of buildEnhancedInscriptionChains: a successful result   *)
(* has ceil(n / (MAX-1)) chains, chain k spends UTXO k and carries the next *)
(* min(MAX-1, rest) inscriptions in request order, each revealed once; a    *)
(* "UTXO count insufficient" failure happens only when there really are     *)
(* fewer UTXOs than chains needed.                                          *)
SequentialFill ==
  /\ phase = "done" =>
       /\ Len(txChains) = ChainsNeeded
       /\ \A c \in 1..Len(txChains) :
            /\ Len(txChains[c]) =
                 1 + Min({MaxInscriptionsPerChain,
                          TotalInscriptions - (c - 1) * MaxInscriptionsPerChain})
            /\ txChains[c][1].in.txid = FundingTxId(c - 1)
            /\ \A t \in 2..Len(txChains[c]) :
                 txChains[c][t].outs[1].script =
                   RevealScript((c - 1) * MaxInscriptionsPerChain + t - 2)
  /\ (phase = "failed" /\ result.error = "utxo_count")
       => UtxoCount < ChainsNeeded

(* Fee ledger of a successful result: totalEstimatedFee is the sum of the  *)
(* txFees entries, no transaction pays out more than it spends minus its   *)
(* recorded fee, and the recorded fee is exactly what it leaves to miners  *)
(* for the commit and for every reveal that keeps its change output.       *)
FeeAccounting ==
  phase = "done" =>
    /\ result.totalEstimatedFee = FoldSeq(LAMBDA f, acc : f.fee + acc, 0, txFees)
    /\ \A c \in 1..Len(txChains) : \A t \in 1..Len(txChains[c]) :
         LET tx == txChains[c][t]
             paid == InputValue(c, t) - OutputSum(tx)
         IN  /\ paid >= LedgerFee(c - 1, t - 1)
             /\ (t = 1 \/ Len(tx.outs) = 2) => paid = LedgerFee(c - 1, t - 1)

(* The spec (S4) says a final reveal that drops its change spends exactly   *)
(* reveal dust + fee: every transaction's recorded fee is what it leaves to *)
(* miners.                                                                  *)
FeeLedgerExact ==
  phase = "done" =>
    \A c \in 1..Len(txChains) : \A t \in 1..Len(txChains[c]) :
      InputValue(c, t) - OutputSum(txChains[c][t]) = LedgerFee(c - 1, t - 1)

\* The vsize the estimator measured for the transaction txFees records at
\* (chainIndex c, txIndex t): its commit, or its reveal as built.
LedgerVsize(c, t) ==
  IF t = 0 THEN CommitVsize[req.utxos[txChains[c + 1][1].in.txid[2] + 1].addressType]
           ELSE RevealTxVsize(MappedContext(c, t), txChains[c + 1][t + 1].outs)

(* Spec section 4, estimator step 4: every transaction's fee is            *)
(* max(ceil(vsize * feerate), vsize), the ceiling of the exact product.    *)
(* The code computes Math.ceil(vsize * feeRate) on doubles (556, 603).     *)
FeeFollowsRate ==
  phase = "done" =>
    \A k \in 1..Len(txFees) :
      LET f == txFees[k]
          v == LedgerVsize(f.chainIndex, f.txIndex)
          rate == IF f.txIndex = 0 THEN req.commitFeeRate ELSE req.revealFeeRate
      IN  f.fee = Max({ExactCeil(v, rate), v})

(* While a chain is being built, the output the next reveal will spend    *)
(* exists and holds the value the builder carries: prevOutputIndex names   *)
(* an output of the last transaction and prevOutputValue is its value.     *)
(* Only the final reveal may drop its change (466); a non-final reveal     *)
(* that dropped it would leave index 1 pointing past a one-output reveal.  *)
NextInputExists ==
  phase = "reveal" /\ prevOutputIndex # -1 =>
    /\ prevOutputIndex < Len(Last(txChain).outs)
    /\ prevOutputValue = Last(txChain).outs[prevOutputIndex + 1].value

(* Outpoint continuity of the signed chains: every reveal spends the       *)
(* transaction before it under that transaction's final (signed) id, and   *)
(* each LastTxInfo names the outpoint its final reveal really spends.      *)
OutpointContinuity ==
  phase = "done" =>
    /\ \A c \in 1..Len(txChains) : \A t \in 2..Len(txChains[c]) :
         txChains[c][t].in.txid = TxId(txChains[c][t - 1])
    /\ \A k \in 1..Len(result.lastTxDetails) :
         \E c \in 1..Len(txChains) :
           /\ result.lastTxDetails[k].txId = TxId(Last(txChains[c]))
           /\ result.lastTxDetails[k].inputTxId = Last(txChains[c]).in.txid


(* The spec (4.6) says each LastTxInfo carries everything an RBF rebuilder  *)
(* needs, the final change script among it: the record names the script    *)
(* the final reveal spends, the value it spends, and the final change       *)
(* address's script, whether or not that reveal kept its change output.     *)
RbfContextComplete ==
  phase = "done" =>
    \A k \in 1..Len(result.lastTxDetails) :
      LET d == result.lastTxDetails[k]
      IN  /\ d.prevInputPkScript \in {CommitScript(i) : i \in 0..MaxInscriptions}
          /\ d.inputValue - OutputSum([outs |-> d.outputs]) >= d.fee
          /\ d.finalChangePkScript = FinalChangeScript

(* The RBF record describes the reveal it was packaged from: an RBF module  *)
(* rebuilding the final reveal from lastTxDetails uses the record's         *)
(* revealOutValue for the inscription output and keeps a change output only *)
(* at or above the record's minChangeValue, so both must be the values the  *)
(* builder used; the packager recomputes the request defaults on its own.   *)
RbfParamsMatchBuild ==
  phase = "done" =>
    \A k \in 1..Len(result.lastTxDetails) :
      LET d == result.lastTxDetails[k]
      IN  /\ d.outputs[1].value = d.revealOutValue
          /\ Len(d.outputs) = 2 => d.outputs[2].value >= d.minChangeValue

-----------------------------------------------------------------------------
(* Refinement: the returned value, read from result, is an outcome the     *)
(* abstract specification allows.                                          *)

AbstractOutcome ==
  IF phase \in {"done", "failed"}
    THEN [status |-> IF result.success THEN "success" ELSE "failure",
          error |-> result.error,
          chainLengths |-> [c \in 1..Len(result.txChainTxIds) |->
                              Len(result.txChainTxIds[c])],
          lastTxCount |-> Len(result.lastTxDetails),
          totalEstimatedFee |-> result.totalEstimatedFee]
    ELSE [status |-> "running", error |-> "", chainLengths |-> <<>>,
          lastTxCount |-> 0, totalEstimatedFee |-> 0]

Abs == INSTANCE ChainInscribeAbstract WITH outcome <- AbstractOutcome

(* inscribeChain implements its abstract contract: it returns exactly once,  *)
(* and the value returned is a validation error for an invalid request, a    *)
(* funding failure (UTXO count only when too few UTXOs), or a success with   *)
(* the sequential-fill chain lengths, a LastTxInfo per chain and a total fee *)
(* the spent UTXOs cover next to the dust of every reveal.                   *)
AbstractSpecHolds == Abs!Spec

=============================================================================

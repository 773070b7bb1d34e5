------------------------ MODULE ChainInscribeMonotone ------------------------
(***************************************************************************)
(* Two calls of inscribeChain (src/unnamed/part_000) composed: a "lean"    *)
(* request, then a "rich" one identical to it except that one funding UTXO *)
(* holds the next larger amount.  Each call is a copy of ChainInscribe with *)
(* its own variables; the lean call runs to its return, then the rich one. *)
(* Comparing the two returns states that more funding never hurts, a       *)
(* property of pairs of executions that no single run can express.         *)
(***************************************************************************)
EXTENDS Integers, Sequences

CONSTANTS
  MaxTransactionsPerChain, MaxInscriptions, MaxUtxos, Amounts, AddressTypes,
  KeyPresence, FeeRates, RevealVsizes, CommitVsize, CommitOutputVsize,
  FinalChangeOutputVsize, RevealOutValues, MinChangeValues,
  DefaultRevealOutValue, DefaultMinChangeValue, InexactProducts

VARIABLES
  leanReq, leanPhase, leanStart, leanUtxo, leanCount, leanTxChain,
  leanRevealIndex, leanPrevValue, leanPrevIndex, leanTxChains, leanTotalFee,
  leanTxFees, leanMapping, leanSignChain, leanSignTx, leanPrevOuts,
  leanResult,
  richReq, richPhase, richStart, richUtxo, richCount, richTxChain,
  richRevealIndex, richPrevValue, richPrevIndex, richTxChains, richTotalFee,
  richTxFees, richMapping, richSignChain, richSignTx, richPrevOuts,
  richResult

leanVars == <<leanReq, leanPhase, leanStart, leanUtxo, leanCount, leanTxChain,
              leanRevealIndex, leanPrevValue, leanPrevIndex, leanTxChains,
              leanTotalFee, leanTxFees, leanMapping, leanSignChain,
              leanSignTx, leanPrevOuts, leanResult>>

richVars == <<richReq, richPhase, richStart, richUtxo, richCount, richTxChain,
              richRevealIndex, richPrevValue, richPrevIndex, richTxChains,
              richTotalFee, richTxFees, richMapping, richSignChain,
              richSignTx, richPrevOuts, richResult>>

vars == <<leanVars, richVars>>

Lean == INSTANCE ChainInscribe
          WITH req <- leanReq, phase <- leanPhase,
               inscriptionStartIndex <- leanStart,
               currentUtxoIndex <- leanUtxo, countForThisChain <- leanCount,
               txChain <- leanTxChain, revealIndex <- leanRevealIndex,
               prevOutputValue <- leanPrevValue,
               prevOutputIndex <- leanPrevIndex, txChains <- leanTxChains,
               totalEstimatedFee <- leanTotalFee, txFees <- leanTxFees,
               chainContextMapping <- leanMapping,
               signChainIndex <- leanSignChain, signTxIndex <- leanSignTx,
               prevTxOutputs <- leanPrevOuts, result <- leanResult

Rich == INSTANCE ChainInscribe
          WITH req <- richReq, phase <- richPhase,
               inscriptionStartIndex <- richStart,
               currentUtxoIndex <- richUtxo, countForThisChain <- richCount,
               txChain <- richTxChain, revealIndex <- richRevealIndex,
               prevOutputValue <- richPrevValue,
               prevOutputIndex <- richPrevIndex, txChains <- richTxChains,
               totalEstimatedFee <- richTotalFee, txFees <- richTxFees,
               chainContextMapping <- richMapping,
               signChainIndex <- richSignChain, signTxIndex <- richSignTx,
               prevTxOutputs <- richPrevOuts, result <- richResult

Returned(phase) == phase \in {"done", "failed"}

NextAmount(a) == {b \in Amounts : b > a /\ ~\E c \in Amounts : a < c /\ c < b}

\* The requests equal to r except that one UTXO holds the next larger amount.
Richer(r) ==
  UNION {{[r EXCEPT !.utxos[u].amount = b] : b \in NextAmount(r.utxos[u].amount)} :
           u \in 1..Len(r.utxos)}

Init ==
  /\ Lean!Init
  /\ richReq \in Richer(leanReq)
  /\ Rich!Init

Next ==
  \/ ~Returned(leanPhase) /\ Lean!Next /\ UNCHANGED richVars
  \/ Returned(leanPhase) /\ Rich!Next /\ UNCHANGED leanVars

Spec == Init /\ [][Next]_vars

-----------------------------------------------------------------------------
(* More funding never turns a successful inscribeChain into a failure: if  *)
(* the lean request succeeds, so does the one whose UTXO holds more.  The  *)
(* reveal loop must accept every change amount the estimator keeps         *)
(* (revealChangeAmount >= minChangeValue), or a final reveal that just     *)
(* stops dropping its change fails where the poorer request succeeded.     *)
MoreFundingNeverHurts ==
  Returned(leanPhase) /\ Returned(richPhase) =>
    (leanResult.success => richResult.success)

=============================================================================

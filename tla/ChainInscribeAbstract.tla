------------------------ MODULE ChainInscribeAbstract ------------------------
(***************************************************************************)
(* What inscribeChain promises its caller, in one step: given a request it *)
(* returns once, and the value it returns is                               *)
(*   - a ValidationError when the request has no UTXO, no inscription, or  *)
(*     a UTXO without its private key (spec section 7);                    *)
(*   - otherwise either a funding failure, "UTXO count insufficient" only  *)
(*     when there are fewer UTXOs than the ceil(n / (MAX - 1)) chains the  *)
(*     inscriptions need, or a success whose chains have the               *)
(*     sequential-fill lengths (spec section 8, properties 1 and 2), with  *)
(*     one LastTxInfo per chain and a total fee that the spent UTXOs can   *)
(*     pay next to the reveal dust of every inscription.                   *)
(* A failure exposes nothing: no chains, no records, a total fee of 0.     *)
(***************************************************************************)
EXTENDS Integers, Sequences, FiniteSets

CONSTANTS
  Requests,                \* the requests the caller may pass
  MaxTransactionsPerChain, \* MAX_TRANSACTIONS_PER_CHAIN
  DefaultRevealOutValue    \* the reveal dust used when the request has none

VARIABLES
  req,     \* the request
  outcome  \* what inscribeChain has returned, or "running"

vars == <<req, outcome>>

Running ==
  [status |-> "running", error |-> "", chainLengths |-> <<>>,
   lastTxCount |-> 0, totalEstimatedFee |-> 0]

Failure(e) ==
  [status |-> "failure", error |-> e, chainLengths |-> <<>>,
   lastTxCount |-> 0, totalEstimatedFee |-> 0]

PerChain == MaxTransactionsPerChain - 1
Inscriptions(r) == Len(r.revealVsize)
ChainsFor(r) == (Inscriptions(r) + PerChain - 1) \div PerChain
Dust(r) == IF r.revealOutValue = 0 THEN DefaultRevealOutValue
                                   ELSE r.revealOutValue

Valid(r) ==
  /\ Len(r.utxos) > 0
  /\ Inscriptions(r) > 0
  /\ \A u \in 1..Len(r.utxos) : r.utxos[u].hasKey

\* Chain c carries min(MAX - 1, rest) inscriptions after its commit.
Layout(r) ==
  [c \in 1..ChainsFor(r) |->
     1 + IF Inscriptions(r) - (c - 1) * PerChain < PerChain
           THEN Inscriptions(r) - (c - 1) * PerChain ELSE PerChain]

RECURSIVE FundsOf(_, _)
FundsOf(r, k) == IF k = 0 THEN 0 ELSE r.utxos[k].amount + FundsOf(r, k - 1)

FundingErrors(r) ==
  {"commit_fee", "chain_broken", "nonfinal_no_change"}
    \cup IF Len(r.utxos) < ChainsFor(r) THEN {"utxo_count"} ELSE {}

Successes(r) ==
  IF Len(r.utxos) < ChainsFor(r) THEN {}
  ELSE {[status |-> "success", error |-> "", chainLengths |-> Layout(r),
         lastTxCount |-> ChainsFor(r), totalEstimatedFee |-> f] :
          f \in 0..(FundsOf(r, ChainsFor(r)) - Inscriptions(r) * Dust(r))}

Outcomes(r) ==
  IF Valid(r) THEN {Failure(e) : e \in FundingErrors(r)} \cup Successes(r)
              ELSE {Failure("validation")}

Init ==
  /\ req \in Requests
  /\ outcome = Running

Return ==
  /\ outcome = Running
  /\ outcome' \in Outcomes(req)
  /\ UNCHANGED req

\* The call always returns.
Spec == Init /\ [][Return]_vars /\ WF_vars(Return)

=============================================================================

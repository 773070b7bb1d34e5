# TLA+ model of the chain-inscription builder

This directory is a TLC model of `inscribe_chain.ts`, the chained Ordinals inscription builder of the
`coin-bitcoin` package. In this repository that file is `src/unnamed/part_000`, from line 60 on.
Line numbers below refer to that file.

## 1. The system

`inscribeChain(network, request)` (899-1043) runs synchronously. There are no threads, no callbacks and no I/O.
It runs one pipeline and returns either a success envelope or a failure envelope.
Any exception thrown on the way becomes the failure envelope (1031-1042).

| Part | Code | State it changes |
|---|---|---|
| Validation and setup | `newChainInscriptionTool` 218-257 | Throws on an empty UTXO or inscription list, or on a UTXO without a key. Builds one envelope context per inscription, all from the key of UTXO 0. |
| Envelope builder | `createInscriptionTxCtxData` 724-775 | Pure. Produces the commit script (P2TR script-path), the reveal script and the witness template. |
| Planner | `buildEnhancedInscriptionChains` 274-368 | Sequential fill. Chain *k* uses UTXO *k* and holds at most `MAX_TRANSACTIONS_PER_CHAIN-1` = 24 inscriptions. Throws when the UTXOs run out. |
| Assembler | `buildSingleUtxoChain` 386-502 | Builds a commit, then one reveal per inscription. Each reveal spends the previous transaction's output. Appends to `txFees`, `chainContextMapping` and `totalEstimatedFee`. |
| Estimator | `estimateFeeAndOutput` 521-619 | Two passes: with change, then without. Returns the sentinel `-1` (drop the change) or `-Infinity` (insufficient funds). |
| Signer | `signAllTransactions` 628-714, `signTx` 784-835 | Signs each commit's funding input by address type. Signs each reveal on the script path after a mapping lookup and a script-match check. |
| Packager | `inscribeChain` 899-1043 | Computes hex and txids, plus one `LastTxInfo` RBF record per chain. |

The parts run in this order: validate, plan, then for each chain assemble (estimating each transaction), then sign every chain, then package.
The interaction that matters is that the assembler fixes each reveal's outpoint (`prevTx.getHash()`, 439) before the signer changes the previous transaction (813, 831).

## 2. Modules

| Module | What it is |
|---|---|
| `ChainInscribe.tla` | The whole pipeline, one module. Each action is one iteration of one of the code's loops, so the interleaving of steps is exactly the code's order. |
| `MC_ChainInscribe.tla` | Instantiation for TLC. It supplies the commit vsize per funding address type. |
| `ChainInscribeAbstract.tla` | What `inscribeChain` promises, as one `Return` step from a request to an outcome. `ChainInscribe` instantiates it as `Abs`, mapping `outcome` from `phase` and `result` (`AbstractOutcome`). |
| `ChainInscribeTests.tla` | The three jest tests of `packages/coin-bitcoin/jest.setup.js`: each test's request, and its `expect(...)` calls as a predicate on the result. Also the spec's scenarios S4 and S5 at the same scale. |
| `ChainInscribeMonotone.tla` | Two calls of `inscribeChain` composed: two copies of `ChainInscribe` (`Lean`, `Rich`) with renamed variables, on requests that differ by one satoshi in one UTXO. The lean call runs to its return, then the rich one. |
| `MC_ChainInscribeMonotone.tla` | Instantiation of the composition, with the commit vsizes of `MC_ChainInscribe`. |
| `MC_ChainInscribeTests.tla` | Instantiation of the jest scenarios at the code's real scale. |
| `InscriptionEnvelope.tla` | The script-building loop of `createInscriptionTxCtxData` (724-751): prefix, body chunks of at most 520 bytes, `OP_ENDIF`. Checked against the recursive reference `ChunksFrom`. |

### State (VARIABLES), and where each lives in the code

| Variable | Code |
|---|---|
| `req` | The request. Enumerated from `Requests`: up to `MaxUtxos` UTXOs, each with an amount, an address type and whether it has a key; up to `MaxInscriptions` inscriptions, each with a reveal vsize; two fee rates; `revealOutValue` and `minChangeValue`, where 0 means unset. |
| `phase` | Which loop is running: `validate`, `plan`, `reveal`, `sign`, `package`, `done` or `failed`. |
| `inscriptionStartIndex`, `currentUtxoIndex` | The planner's cursors (290-291). |
| `countForThisChain`, `txChain`, `revealIndex`, `prevOutputValue`, `prevOutputIndex` | The assembler's locals (308, 387, 420, 416-418). |
| `txChains`, `totalEstimatedFee`, `txFees`, `chainContextMapping` | The tool's fields (193-199). |
| `signChainIndex`, `signTxIndex`, `prevTxOutputs` | The signer's `forEach` cursors and its local (638, 651, 649). |
| `result` | The `ChainInscribeResult` returned (150-157). |

### Actions (one per code path)

| Actions | Code |
|---|---|
| `Validate`, `Fail("validation")` | Validation, 225-234. |
| `UtxoCountInsufficient` | 298-300. |
| `BuildCommit`, `CommitUnaffordable` | 302-418. |
| `RevealChainBroken` | 461-463. |
| `RevealNonFinalWithoutChange` | 464-468. |
| `RevealDropChange` | 469-477. |
| `RevealWithChange` | 478-489, including the "abnormal change" error branch. |
| `ChainBuilt` | 339-359. |
| `PlanComplete` | 360-368. |
| `SignCommit` | 639-657. It includes the skip of a chain with no UTXO or no key. |
| `SignReveal` | 658-711, with every sanity check. |
| `SigningComplete` | Exit of the signer. |
| `Package` | 899-1030. |

Each action includes every state change its code makes, such as pushing the fee, the mapping and the chain, and moving the cursors.

### Abstractions

- **Scripts.** A script is a tag: `CommitScript(i)`, `RevealScript(i)`, `FinalChangeScript`. Every context uses the primary key (240-243), so the scripts of two inscriptions differ only by their index.
- **Transaction ids.** A txid is the transaction's non-witness content: input outpoint, scriptSig and outputs. This is what double-SHA256 of the legacy serialisation depends on. Two transactions get the same id exactly when that content is equal.
- **Signatures.** A signature is a witness tag (`keypath`, `p2wpkh`, `scriptpath` with its context) plus the scriptSig that `signTx` sets (`p2pkh_sig` for legacy, `p2sh_redeem` for nested SegWit).
- **Vsize.** `countAdjustedVsize` (external) becomes constants: a commit vsize per funding type; a reveal vsize per inscription body (from the request); plus one unit per output.
- **Fee rates.** Fee rates are in tenths of a sat/vB. `Fee(v, r) = max(CeilProduct(v, r), v)` is line 556.
  - `CeilProduct` is `Math.ceil` of the double product. It is the exact ceiling `ExactCeil`, plus one for the pairs in the constant `InexactProducts`.
  - Those are the pairs whose IEEE-754 product lies just above an exact integer, e.g. `25 * 2.2 = 55.00000000000001`.
  - TLC's integers are 32-bit and cannot emulate 53-bit doubles. So `MC_ChainInscribe` lists the table, computed with IEEE-754 arithmetic for vsizes 1 to 59 and rates 1.0 to 3.0.
  - Dyadic rates (1.0, 1.5, 2.0, 2.5) multiply exactly. So every run but `float_fee` gives `InexactProducts = {}`.
- **Request defaults.** `OrDefault(v, d)` is JavaScript's `v || d` on a number: 0, like `undefined`, gives the default. The builder applies it at 222-223 (`RevealOutValue`, `MinChangeValue`). The packager applies it again for `LastTxInfo` at 1008-1009 (`RbfRevealOutValue`, `RbfMinChangeValue`).

## 3. Runs

All runs of `MC_ChainInscribe` use the same bounds. Request defaults are unset (0) except in `request_defaults`:

| Constant | Value |
|---|---|
| `MaxTransactionsPerChain` | 3, so at most 2 inscriptions per chain |
| `MaxInscriptions` | 4 |
| `MaxUtxos` | 2 |
| amounts | {5, 14, 24, 40} |
| fee rates | {1.0, 1.5} sat/vB |
| reveal vsizes | {2, 4} |
| `DefaultRevealOutValue` = `DefaultMinChangeValue` | 5 |

**Why these bounds are enough.**
- With a cap of 2 inscriptions per chain, 4 inscriptions need 2 chains. That covers three planner cases: a full chain, a partial last chain, and UTXO exhaustion. `MaxInscriptions` = 3 would miss two full chains.
- The amounts are chosen so that each estimator outcome occurs at each position:
  - 5 cannot pay for a commit;
  - 14 breaks the chain at the first reveal;
  - 24 drops change on a final reveal, or fails a non-final reveal without change;
  - 40 funds two reveals with change.
- Every action and every branch fires in `build_sign_package`.

| Run | cfg | Expect | Properties | What it shows |
|---|---|---|---|---|
| `build_sign_package` | `MC_ChainInscribe.cfg` | pass | `TypeOK`, `OnlyFundingFailures`, `SequentialFill`, `FeeAccounting`, `EverythingSigned`, `NextInputExists` | See below. |
| `outpoints_segwit` | `MC_ChainInscribe_segwit.cfg` | pass | `OutpointContinuity` | With native SegWit or Taproot funding, every reveal spends the id of the signed previous transaction, and every `LastTxInfo` names the outpoint the last reveal spends. |
| `outpoints_legacy` | `MC_ChainInscribe_legacy.cfg` | violation | `OutpointContinuity` | With P2PKH or P2SH-P2WPKH funding, the commit's scriptSig is set after the first reveal took the commit's hash, so the first reveal spends a transaction that is never broadcast. |
| `fee_ledger_exact` | `MC_ChainInscribe_fee.cfg` | violation | `FeeLedgerExact` | A final reveal without change pays more to miners than the fee recorded for it. |
| `rbf_context` | `MC_ChainInscribe_rbf.cfg` | violation | `RbfContextComplete` | `LastTxInfo.finalChangePkScriptHex` is empty when the final reveal dropped its change. |
| `float_fee` | `MC_ChainInscribe_float.cfg` | violation | `FeeFollowsRate` | At 2.2 sat/vB, a reveal of 24 vB plus a 1 vB change output pays 56 sat. The spec's `max(ceil(vsize * feerate), vsize)` gives 55. With `InexactProducts = {}` the same cfg passes, so the double product alone makes the difference. |
| `request_defaults` | `MC_ChainInscribe_defaults.cfg` | pass | `RbfParamsMatchBuild` | Taproot funding, with `revealOutValue` in {unset, 4} and `minChangeValue` in {unset, 7}. Each `LastTxInfo` records the dust the final reveal really pays, and a minimum change its kept change meets. |
| `abstract_refinement` | `MC_ChainInscribe_refine.cfg` | pass | `AbstractSpecHolds` | Under `FairSpec`, `inscribeChain` returns exactly once with an outcome the abstract contract allows (457k states, about 80 s). Its mutant throws "UTXO count insufficient" one UTXO early (298). That is still a funding error, so only the contract, which allows it only with too few UTXOs, rejects it. |
| `jest_scenarios` | `MC_ChainInscribeTests.cfg` | pass | `JestExpectations`, `SpecScenarios` | The jest tests' requests at real scale. The model returns two chains of 25 and 7 transactions, the UTXO-count failure, and the chain-broken failure, as the tests expect. Scenario S4 keeps a change of at least 546 sat. In S5, a UTXO of exactly 24 979 sat funds one chain of 25 transactions whose last reveal drops its change, and 24 978 sat breaks the chain. |
| `funding_monotone` | `MC_ChainInscribeMonotone.cfg` | pass | `MoreFundingNeverHurts` | For every request with amounts 12 to 24 sat, raising one UTXO by one satoshi never turns a success into a failure (265k states, about 10 s). |
| `envelope_chunks` | `InscriptionEnvelope.cfg` | pass | `EnvelopeMatchesReference` | For every body length from 0 to 1600, the loop pushes exactly the reference split: no empty push, and the ranges tile the body. |

`build_sign_package` covers all four funding types, with and without keys. Its properties say:
- every failure is a validation or funding failure. The internal errors (abnormal change, signing errors, missing mapping) never happen;
- a success has the sequential-fill layout: chain *k* spends UTXO *k*, and its reveals inscribe the right global indices in order;
- the fee ledger adds up: the total is the sum of `txFees`, and each transaction pays exactly its recorded fee when it has change;
- every transaction is signed for its own input;
- while a chain is built, the output the next reveal spends exists and holds the carried value. Without the non-final guard at 466, a reveal that dropped its change would leave index 1 pointing past its only output.

The violation runs are the findings in `PROJECT.json`. Every property of a passing run has a mutant, in `PROJECT.json`: a plausible bug in the mapped definition (an off-by-one, a wrong index, a dropped term) that TLC shows breaks the property.

`CHECK_DEADLOCK FALSE`: `done` and `failed` are the function's return. The program really stops there.

**Fairness.** `FairSpec` adds `WF_vars(Next)`. `inscribeChain` is one synchronous call: no step waits on another actor, a lock or I/O. So while the program has a next step, it takes it. Termination is therefore a property of the code's loops, namely that their cursors advance and they exit. It is part of the abstract contract (`WF_vars(Return)` in `ChainInscribeAbstract`) and is checked by `abstract_refinement`. The loops' cursors advance by construction, so no plausible bug in the code breaks termination. The refinement is there for its safety half: every returned outcome is one the contract allows.

**The abstract contract** (`ChainInscribeAbstract`). Its outcomes, from spec sections 7 and 8:
- a validation error for an invalid request;
- otherwise a funding failure, where "UTXO count insufficient" is allowed only with fewer UTXOs than `ceil(n/(MAX-1))`;
- or a success with the sequential-fill chain lengths, one `LastTxInfo` per chain, and a total fee the spent UTXOs can pay next to every reveal's dust.

A failure returns empty collections and a fee of 0. The refinement also checks that the returned value never changes afterwards.

**The jest scenarios** (`ChainInscribeTests`) use the code's own `MAX_TRANSACTIONS_PER_CHAIN = 25` and the tests' amounts and fee rates. The vsizes of the external `countAdjustedVsize` are computed by hand from BIP141 weights:
- a P2TR key-path commit with one P2TR output: 111 vB;
- a P2TR output: 43 vB;
- a reveal of the brc-20 mint body without change: 153 vB. Nonces of two digits add a quarter vB, which is ignored.

The tests' margins are far wider than these approximations:
- 50 000 sat funds 24 reveals at about 1 030 sat each;
- 1 000 sat cannot fund one reveal.

`signingPrivateKeyWIF`, `network` and the hex fields the first test checks are strings the model abstracts away.

**The spec scenarios.** S5's "exactly covering" amount is derived, not guessed:
- the commit fee, 222 sat;
- 23 non-final reveals, each paying 546 sat of dust and 490 sat of fee with a change output;
- a final reveal paying 546 sat of dust and 383 sat of fee without change.

That is 24 979 sat. The property checks success there, the total fee of 11 875 sat, and the chain-broken failure one satoshi below. Only `TypeOK` of `build_sign_package` checks types; the other runs spend their properties on behaviour.

**The composition** (`funding_monotone`). Whether a reveal keeps or drops its change depends on the exact amount. So "more money never hurts" is not obvious from the code: it needs the estimator's keep threshold and the assembler's `revealChangeAmount >= minChangeValue` (478) to agree. Each pair compares a request with its twin that has the next amount in one UTXO; by transitivity this covers any richer request. The amounts 12 to 24 are contiguous, so a change of exactly `minChangeValue` occurs next to one a satoshi below. The mutant in which the assembler requires `>` fails the richer request there.

**Bounds of `envelope_chunks`.** Bodies of 0 to 1600 bytes with the real chunk size of 520. This covers the empty body, one, two and four chunks, and the exact multiples 520 and 1040.

## 4. Not modelled

- `calculateSigHash` (845-883): it is never called.
- Hex, WIF and txid string encodings, the network field and console logging: no property depends on them.
- Script compilation, tweaking and P2TR address derivation (751-762): these are bitcoin-library calls. `ChainInscribe` abstracts each context to its script tags, and `InscriptionEnvelope` models the script's element list.
- Negative `revealOutValue` and `minChangeValue`: the code does not reject them. A negative change would then be kept, and whether the library's serialisation throws on it is outside this repository. Unset and positive values are modelled.
- Address types other than the four: `signTx` (784-835) has no rejecting branch, and any type that is neither Taproot nor legacy is signed as P2WPKH. What `getAddressType` (imported from `txBuild`, not in this repository) returns for other addresses is unknown, so the model enumerates only the four types it can return.
- The bitcoinjs-lib, vsize and Schnorr libraries: they are outside this repository, and the model abstracts them at their interface.
- `index.ts` (re-exports and the jest configuration) and `package.json`: they hold no program state. The jest tests themselves are modelled in `ChainInscribeTests`.

## 5. Plan for later work

Done so far:
- the abstract specification and its refinement;
- the envelope chunking module;
- the request defaults;
- the real-scale run, through the jest scenarios;
- spec scenarios S4 and S5;
- the two-call composition (`funding_monotone`);
- floating-point fee rounding (`float_fee`).

Remaining:
1. **Negative request values.** Model the library's rejection of a negative output value when a transaction is hashed or serialised. The rejection happens inside the library, so this needs its behaviour as a documented assumption. That would cover the `-1` sentinel collision at 566.
2. **Spec property 8** (a corrupted context script makes signing fail) is not planned as a fault model. `newChainInscriptionTool` builds and signs within one synchronous call, so nothing in the program can change a context between the two. The check at 686 is covered instead by `OnlyFundingFailures`, and its mutants show the check firing on a wrong mapping.

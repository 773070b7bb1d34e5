\* Bodies up to three chunks long, including the empty body and bodies of
\* exactly one and two chunks.
CONSTANTS
  MaxBodySize = 1600
  MaxChunkSize = 520
SPECIFICATION Spec
\* createInscriptionTxCtxData returns once OP_ENDIF is pushed.
CHECK_DEADLOCK FALSE
INVARIANTS
  EnvelopeMatchesReference

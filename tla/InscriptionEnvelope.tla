------------------------- MODULE InscriptionEnvelope -------------------------
(***************************************************************************)
(* The inscription script of createInscriptionTxCtxData                    *)
(* (src/unnamed/part_000): the envelope prefix, then the body pushed in    *)
(* chunks of at most maxChunkSize = 520 bytes by a for loop, then          *)
(* OP_ENDIF.  A body is abstracted to its length; a chunk is the byte      *)
(* range [start, end) of the body it pushes.  Script compilation and the   *)
(* P2TR derivation that follow are done by the bitcoin library.            *)
(***************************************************************************)
EXTENDS Integers, Sequences, SequencesExt

CONSTANTS
  MaxBodySize,  \* bound on Buffer.from(inscriptionData.body).length
  MaxChunkSize  \* maxChunkSize (520 in the code)

VARIABLES
  bodySize,            \* body.length
  i,                   \* the loop's offset
  inscriptionBuilder,  \* the stack elements pushed so far
  pc                   \* "start", "chunks" or "done"

vars == <<bodySize, i, inscriptionBuilder, pc>>

\* A stack element: an opcode or constant push (kind), or the body bytes
\* [start, end) pushed as data.
Op(kind) == [kind |-> kind, start |-> 0, end |-> 0]
Chunk(start, end) == [kind |-> "body", start |-> start, end |-> end]

\* <internalPubKey> OP_CHECKSIG OP_FALSE OP_IF "ord" OP_DATA_1 OP_DATA_1
\* <contentType> OP_0
EnvelopePrefix ==
  [k \in 1..9 |->
     Op(<<"pubkey", "OP_CHECKSIG", "OP_FALSE", "OP_IF", "ord",
          "OP_DATA_1", "OP_DATA_1", "contentType", "OP_0">>[k])]

Init ==
  /\ bodySize \in 0..MaxBodySize
  /\ i = 0
  /\ inscriptionBuilder = <<>>
  /\ pc = "start"

PushPrefix ==
  /\ pc = "start"
  /\ inscriptionBuilder' = EnvelopePrefix
  /\ i' = 0
  /\ pc' = "chunks"
  /\ UNCHANGED bodySize

ChunkEnd(start) == IF start + MaxChunkSize > bodySize THEN bodySize
                                                      ELSE start + MaxChunkSize

ChunkLoopEnabledMut == i <= bodySize

\* for (let i = 0; i < bodySize; i += maxChunkSize)
ChunkLoopEnabled == i < bodySize

PushChunk ==
  /\ pc = "chunks"
  /\ ChunkLoopEnabled
  /\ inscriptionBuilder' = Append(inscriptionBuilder, Chunk(i, ChunkEnd(i)))
  /\ i' = i + MaxChunkSize
  /\ UNCHANGED <<bodySize, pc>>

PushEndIf ==
  /\ pc = "chunks"
  /\ ~ChunkLoopEnabled
  /\ inscriptionBuilder' = Append(inscriptionBuilder, Op("OP_ENDIF"))
  /\ pc' = "done"
  /\ UNCHANGED <<bodySize, i>>

Next == PushPrefix \/ PushChunk \/ PushEndIf

\* createInscriptionTxCtxData returns once the script is complete.
Spec == Init /\ [][Next]_vars

-----------------------------------------------------------------------------
(* Reference: the body chunking of the ordinals envelope (spec 4.1), as a  *)
(* recursive split of the bytes from offset onwards into pieces of at most *)
(* MaxChunkSize, the last one taking the rest.                             *)

RECURSIVE ChunksFrom(_, _)
ChunksFrom(offset, size) ==
  IF offset >= size THEN <<>>
  ELSE IF size - offset <= MaxChunkSize
         THEN <<Chunk(offset, size)>>
         ELSE <<Chunk(offset, offset + MaxChunkSize)>>
                \o ChunksFrom(offset + MaxChunkSize, size)

BodyPushes(script) == SelectSeq(script, LAMBDA e : e.kind = "body")

(* The compiled envelope pushes the whole body, in order, as data pushes of *)
(* 1 to 520 bytes and nothing else between OP_0 and OP_ENDIF: the chunks    *)
(* are exactly the reference split, their ranges tile 0..length-1, and an   *)
(* empty body or one of a multiple of 520 bytes gets no empty push (an      *)
(* empty push compiles to OP_0, the body tag, and breaks the envelope).      *)
EnvelopeMatchesReference ==
  pc = "done" =>
    LET body == BodyPushes(inscriptionBuilder)
    IN  /\ inscriptionBuilder =
             EnvelopePrefix \o ChunksFrom(0, bodySize) \o <<Op("OP_ENDIF")>>
        /\ \A k \in 1..Len(body) :
             /\ 1 <= body[k].end - body[k].start
             /\ body[k].end - body[k].start <= MaxChunkSize
             /\ body[k].start = IF k = 1 THEN 0 ELSE body[k - 1].end
        /\ IF bodySize = 0 THEN body = <<>> ELSE Last(body).end = bodySize

=============================================================================

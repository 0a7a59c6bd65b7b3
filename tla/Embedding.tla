------------------------------ MODULE Embedding ------------------------------
(***************************************************************************)
(* Embedding the texts of a document in batches, by the hosted provider or *)
(* the local server, and the validation of what came back.                 *)
(*                                                                         *)
(* A reply is [status, entries], of status Unreachable when nothing that   *)
(* can be read arrived.  An entry of the hosted provider carries the index *)
(* it claims for its input, in any order; those of the local server are    *)
(* taken to follow the order of the inputs.  A vector is [of, dim], the    *)
(* text it was really made from and its width.  A call returns vectors, or *)
(* an error by name.                                                       *)
(***************************************************************************)
EXTENDS Integers, Sequences, SequencesExt, FiniteSetsExt

Transient == "URLError"                     \* of the exchange, whichever: retried
ConfigurationError == "EmbeddingConfigurationError"
RequestError == "EmbeddingRequestError"
CountError == "EmbeddingCountError"         \* retried
DimensionError == "EmbeddingDimensionError"

\* The errors of an embedder that fail the document without a retry.
PermanentFailures == {DimensionError, ConfigurationError, RequestError}

Raised(error) == [error |-> error, vectors |-> <<>>]
Returned(vectors) == [error |-> "none", vectors |-> vectors]

Unreachable == 0
TransientStatuses == {408, 429}

\* What a refusal by the hosted provider means.
Refusal(status) ==
  IF status \in TransientStatuses \/ status >= 500 THEN Transient
  ELSE IF status \in {401, 403} THEN ConfigurationError
  ELSE RequestError

\* Variant: the vectors in the order they arrived.
InOrderOfArrival(entries) == [i \in DOMAIN entries |-> entries[i].embedding]
\* The vectors in the order of the inputs they name, those of one input as they arrived.
ByIndex(entries) ==
  LET before(i) == {j \in DOMAIN entries :
                      \/ entries[j].index < entries[i].index
                      \/ entries[j].index = entries[i].index /\ j < i}
      at(k) == CHOOSE i \in DOMAIN entries : Cardinality(before(i)) = k - 1
  IN [k \in DOMAIN entries |-> entries[at(k)].embedding]

VoyageEmbed(texts, key, reply) ==
  IF texts = <<>> THEN Returned(<<>>)
  ELSE IF ~key THEN Raised(ConfigurationError)
  ELSE IF reply.status = Unreachable THEN Raised(Transient)
  ELSE IF reply.status # 200 THEN Raised(Refusal(reply.status))
  ELSE IF Len(reply.entries) # Len(texts) THEN Raised(CountError)
  ELSE Returned(ByIndex(reply.entries))

OllamaEmbed(texts, reply) ==
  IF texts = <<>> THEN Returned(<<>>)
  ELSE IF reply.status # 200 THEN Raised(Transient)
  ELSE Returned([i \in DOMAIN reply.entries |-> reply.entries[i].embedding])

\* The configured factory: the hosted provider with or without its key, or the local server.
Embed(backend, texts, reply) ==
  IF backend = "ollama" THEN OllamaEmbed(texts, reply)
  ELSE VoyageEmbed(texts, backend = "voyage", reply)

ValidateVectors(vectors, count, dim) ==
  IF Len(vectors) # count THEN Raised(CountError)
  ELSE IF \E i \in DOMAIN vectors : vectors[i].dim # dim THEN Raised(DimensionError)
  ELSE Returned(vectors)

\* The k-th batch of the texts.
Batch(texts, size, k) == SubSeq(texts, (k - 1) * size + 1, Min({k * size, Len(texts)}))
Batches(texts, size) == (Len(texts) + size - 1) \div size

\* One call after the other: the first error ends it, the whole is validated.
EmbedInBatches(backend, texts, size, dim, replies) ==
  LET step(done, k) ==
        LET call == Embed(backend, Batch(texts, size, k), replies[k])
        IN IF done.error # "none" THEN done
           ELSE IF call.error # "none" THEN call
           ELSE Returned(done.vectors \o call.vectors)
      all == FoldLeft(step, Returned(<<>>), [k \in 1 .. Batches(texts, size) |-> k])
  IN IF all.error # "none" THEN all ELSE ValidateVectors(all.vectors, Len(texts), dim)
=============================================================================

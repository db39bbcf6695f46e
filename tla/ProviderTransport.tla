-------------------------- MODULE ProviderTransport --------------------------
(***************************************************************************)
(* One logical request to a provider: _http_json repeats an attempt that   *)
(* failed in a retriable way, and the adapter of the provider accepts a    *)
(* reply only if it finished normally with exactly one text that is a JSON *)
(* object and with both counts of tokens.                                  *)
(***************************************************************************)
EXTENDS Integers

CONSTANT MaxRetries    \* execution.max_transport_retries

ASSUME TransportAssumption == MaxRetries \in Nat

\* What an attempt without a reply comes to: a status of HTTP, or, below those, no
\* answer in time or no connection (Silent), and a body that is lost or is no JSON
\* object (Garbled), which leaves the loop of _http_json at once.
RetriableStatus == {408, 409, 425, 429, 500, 502, 503, 504}
Silent == 0
Garbled == 1
Faults == Nat

Retriable(fault) == fault = Silent \/ fault \in RetriableStatus

\* Attempts are counted from 1.
Repeats(fault, attempt) == Retriable(fault) /\ attempt <= MaxRetries

-----------------------------------------------------------------------------
(* The adapters.  A reply is what they look at of it: the end the provider  *)
(* states, the number of alternatives, of text blocks and of thoughts among *)
(* them, whether the text is an object, whether usage is counted.           *)

OneText(reply) == reply.texts = 1 /\ reply.object /\ reply.counted

OpenAIAccepts(reply) == reply.end = "completed" /\ OneText(reply)

DeepSeekAccepts(reply) ==
  reply.alternatives = 1 /\ reply.end = "stop" /\ OneText(reply)

\* A thought is a text block marked as one, and is left out.
GeminiAccepts(reply) ==
  /\ reply.alternatives = 1 /\ reply.end = "STOP"
  /\ OneText([reply EXCEPT !.texts = @ - reply.thoughts])

AnthropicAccepts(reply) == reply.end = "end_turn" /\ OneText(reply)

Adapters == {"OpenAI", "DeepSeek", "Gemini", "Anthropic"}

\* PROVIDER_CALLS
Accepts(adapter, reply) ==
  CASE adapter = "OpenAI" -> OpenAIAccepts(reply)
    [] adapter = "DeepSeek" -> DeepSeekAccepts(reply)
    [] adapter = "Gemini" -> GeminiAccepts(reply)
    [] OTHER -> AnthropicAccepts(reply)
=============================================================================

-------------------------- MODULE WebhookValidation --------------------------
(***************************************************************************)
(* What an endpoint makes of a delivery before the database sees it: the   *)
(* signature (webhooks/signatures.py, providers/base.py), the payload      *)
(* (validation.py), the normalised event (providers/example.py) and the    *)
(* handler its job will look for.  A delivery is a record                  *)
(* [endpoint, signature, content_type, payload, type, id, delivery, body]. *)
(***************************************************************************)
EXTENDS Naturals, Sequences

CONSTANT None   \* an absent header or field, an identifier without a character

(* A value of the payload: what str(v).strip() leaves of it. *)
Text(word) == [json |-> "string", word |-> word]
Number(word) == [json |-> "number", word |-> word]
Strip(value) == IF value = None THEN None ELSE value.word
IsText(value) == value # None /\ value.json = "string" /\ value.word # None

-----------------------------------------------------------------------------
(* WebhookProviderConfig; HmacWebhookVerifier cannot be built without a    *)
(* secret and a header, and leaves timestamp_header and max_age_seconds,   *)
(* as well as the context's signature_max_age_seconds, unread.             *)
ProviderConfig(secret, prefix) == [secret |-> secret, prefix |-> prefix]

Hmac(secret, body) == <<secret, body>>

(* The header is what the provider wrote: <<digest>>, or the prefix first. *)
ExtractSignature(config, header) ==
  IF Len(header) > 1 /\ header[1] = config.prefix THEN Tail(header) ELSE header

HmacVerify(config, d) ==
  /\ d.signature # None
  /\ ExtractSignature(config, d.signature) = <<Hmac(config.secret, d.body)>>

(* ingest_webhook_event: without a verifier only if none is required. *)
Verified(endpoint, d) ==
  IF endpoint.verifier # None THEN HmacVerify(endpoint.verifier, d) ELSE ~ endpoint.required

-----------------------------------------------------------------------------
(* validate_webhook_content_type: a missing or blank one is let through.   *)
ValidContentType(d) == d.content_type \in {None, "", "application/json"}

(* validate_webhook_payload_json *)
ValidPayload(d) == d.payload = "object"

(* WebhookEventTypeRegistry.validate asks whether a type is known, and not *)
(* whether it is enabled, which only enabled_types tells.                  *)
Registry(strict, types) == [strict |-> strict, known |-> types]
ValidEventType(registry, t) == t # None /\ (registry.strict => t \in registry.known)

(* WebhookEventDispatchMap, by its types with an enabled handler. *)
HasHandler(dispatch, t) == t \in dispatch

-----------------------------------------------------------------------------
(* Mutant of ExampleRegistry: types the dispatch map does not know. *)
LenientRegistry == Registry(FALSE, {"order.created", "order.updated", "order.cancelled"})

(* build_example_provider_adapter *)
ExampleConfig == ProviderConfig("example-webhook-secret", "sha256=")
ExampleRegistry == Registry(TRUE,
  {"order.created", "order.updated", "order.cancelled", "customer.created", "customer.updated"})
ExampleDispatch ==
  {"order.created", "order.updated", "order.cancelled", "customer.created", "customer.updated"}

(* Three ways to call ingest_webhook_event: with the example adapter and a *)
(* validator made of all the checks there are; with the validator it has   *)
(* by default, signed or not; and, as adding-provider.md wires it, with    *)
(* the normalizer in the place of the validator.                           *)
Endpoints ==
  [ example |-> [verifier |-> ExampleConfig, required |-> TRUE, validator |-> "checked"],
    signed |-> [verifier |-> ProviderConfig("other-secret", ""), required |-> TRUE, validator |-> "json"],
    unsigned |-> [verifier |-> None, required |-> FALSE, validator |-> "json"],
    unwired |-> [verifier |-> None, required |-> TRUE, validator |-> "json"],
    documented |-> [verifier |-> ExampleConfig, required |-> TRUE, validator |-> "normalizer"] ]

(* normalize_example_event on a parsed payload, then the registry. *)
Checked(d) ==
  /\ ValidContentType(d) /\ ValidPayload(d)
  /\ IsText(d.type)
  /\ ValidEventType(ExampleRegistry, Strip(d.type))

(* validate_json_webhook_event; json.loads fails on what is not JSON.      *)
JsonEvent(d) == d.payload = "object" /\ IsText(d.type)

(* A normalizer called as a validator gets the verification in place of    *)
(* the payload, and raises whatever is in the delivery.                    *)
Validated(endpoint, d) ==
  \/ endpoint.validator = "checked" /\ Checked(d)
  \/ endpoint.validator = "json" /\ JsonEvent(d)

Accepts(d) == Verified(Endpoints[d.endpoint], d) /\ Validated(Endpoints[d.endpoint], d)

(* WebhookValidatedEvent: only the example's normalizer looks for a        *)
(* delivery identifier.                                                    *)
Event(d) ==
  [ event |-> Strip(d.id),
    delivery |-> IF Endpoints[d.endpoint].validator = "checked" THEN Strip(d.delivery) ELSE None,
    body |-> d.body ]

(* What the job, by the endpoint's dispatch map, can do something about.   *)
Processable(d) ==
  /\ d.type # None /\ Strip(d.type) # None
  /\ d.endpoint = "example" => HasHandler(ExampleDispatch, Strip(d.type))
=============================================================================

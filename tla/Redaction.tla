------------------------------ MODULE Redaction ------------------------------
(***************************************************************************)
(* What leaves the process through a log handler or Sentry (core/logger.py,*)
(* core/log_redaction.py, core/sentry.py).  An event is a nest of mappings,*)
(* lists and tuples; it is modelled by its leaves, each with the way that  *)
(* leads to it: Under(name) into a mapping, Inside(kind) into a sequence.  *)
(***************************************************************************)
EXTENDS Naturals, Sequences, Functions

(* A name, by the words it is written with and by how they are joined. *)
Name(style, words) == [style |-> style, words |-> words]
Word(word) == Name("plain", <<word>>)

(* normalize_redaction_field_name: case and punctuation are gone. *)
Normalize(name) == name.words

Contains(words, fragment) ==
  \E i \in 1 .. Len(words) + 1 - Len(fragment) : SubSeq(words, i, i + Len(fragment) - 1) = fragment

(* should_redact_field; fields are normalised when they are configured. *)
ShouldRedact(name, fields) ==
  \/ Normalize(name) \in fields.exact
  \/ \E fragment \in fields.fragments : Contains(Normalize(name), fragment)

Under(name) == [in |-> "mapping", name |-> name]
Inside(kind) == [in |-> kind, name |-> Word("")]

(* Mutant of Hidden: what is in a list is not looked at. *)
HiddenOutsideLists(way, fields) ==
  \E i \in DOMAIN way :
    /\ way[i].in = "mapping" /\ ShouldRedact(way[i].name, fields)
    /\ \A j \in 1 .. i : way[j].in # "list"

(* redact_log_data and _scrub_event_data, from the outside in: a value     *)
(* under a name to redact is replaced whole, any other container is walked.*)
Hidden(way, fields) ==
  \E i \in DOMAIN way :
    /\ way[i].in = "mapping" /\ ShouldRedact(way[i].name, fields)
    /\ \A j \in 1 .. i - 1 : way[j].in \in {"mapping", "list", "tuple"}

-----------------------------------------------------------------------------
LogFields(s) ==
  [ exact |-> IF s.LOG_REDACTION_EXACT_FIELDS = "none" THEN {}
              ELSE {<<"set", "cookie">>, <<"api", "key">>, <<"password">>, <<"email">>},
    fragments |-> IF s.LOG_REDACTION_SUBSTRING_FIELDS = "none" THEN {}
                  ELSE {<<"token">>, <<"password">>, <<"api", "key">>, <<"email">>} ]

(* Mutant of SharedProcessors: extras are added to what is redacted. *)
SharedProcessorsExtrasLate ==
  <<"merge_contextvars", "level", "redact", "extra", "drop_color", "timestamp">>

(* SHARED_PROCESSORS *)
SharedProcessors ==
  <<"merge_contextvars", "level", "extra", "redact", "drop_color", "timestamp">>

(* structlog.configure, and the foreign_pre_chain of build_formatter: only *)
(* lines of the standard library's loggers meet the filter of a handler.   *)
Chain(logger) == IF logger = "stdlib" THEN SharedProcessors \o <<"filter">> ELSE SharedProcessors

(* Where a leaf comes into a line: with the call, from the log context, or *)
(* as an extra of the standard library.                                    *)
Step(chain, processor) == CHOOSE i \in DOMAIN chain : chain[i] = processor
AddedAt(chain, leaf) ==
  CASE leaf.from = "call" -> 0
    [] leaf.from = "context" -> Step(chain, "merge_contextvars")
    [] leaf.from = "extra" -> Step(chain, "extra")

(* redact_sensitive_log_fields *)
RedactedInLog(s, chain, leaf) ==
  /\ s.LOG_REDACTION_ENABLED = "yes"
  /\ AddedAt(chain, leaf) < Step(chain, "redact")
  /\ Hidden(leaf.way, LogFields(s))

(* _build_handler_filter, by the names a handler leaves out. *)
Filtered(chain, leaf, excluded) ==
  /\ \E i \in DOMAIN chain : chain[i] = "filter"
  /\ Len(leaf.way) = 1 /\ leaf.way[1].name \in excluded

Logged(s, logger, leaf, excluded) ==
  ~ RedactedInLog(s, Chain(logger), leaf) /\ ~ Filtered(Chain(logger), leaf, excluded)

-----------------------------------------------------------------------------
(* _build_scrub_field_sets: the fragments cannot be configured.            *)
ScrubFields(s) ==
  [ exact |-> IF s.SENTRY_SCRUB_FIELDS = "none" THEN {} ELSE {<<"password">>, <<"api", "key">>},
    fragments |-> {<<"password">>, <<"token">>, <<"cookie">>} ]

(* SentryEventFilter.before_send; before_send_transaction drops nothing.   *)
Dropped(s, event) ==
  /\ event.kind = "error"
  /\ \/ s.SENTRY_IGNORED_EXCEPTIONS = "named" /\ event.exception = "ignored"
     \/ s.SENTRY_IGNORED_LOGGERS = "named" /\ event.logger = "ignored"

Sent(s, event, leaf) ==
  s.SENTRY_ENABLE = "yes" /\ ~ Dropped(s, event) /\ ~ Hidden(leaf.way, ScrubFields(s))

-----------------------------------------------------------------------------
(* The request hooks of TemplateHttpClient, each with the headers it adds; *)
(* the names are the defaults, and what CustomAuth's handler adds is its   *)
(* own affair.                                                             *)
Authorization == Word("authorization")
XApiKey == Name("kebab", <<"x", "api", "key">>)
Propagated == {Name("kebab", <<"x", "request", "id">>), Name("kebab", <<"x", "correlation", "id">>)}
AddedHeaders == [ BearerTokenAuth |-> {Authorization}, BasicAuth |-> {Authorization}, ApiKeyAuth |-> {XApiKey},
          InstrumentationRequestHook |-> {Word("traceparent")}, LoggingRequestHook |-> {} ]

(* The headers a hook is called with: the caller's and the client's own,   *)
(* the identifiers of the context, and what the hooks before it added.     *)
HeadersAt(hooks, i, headers) == headers \cup Propagated \cup UNION {AddedHeaders[hooks[j]] : j \in 1 .. i - 1}

(* Mutant of HeaderFields: names as they are written, not normalised. *)
HeaderFieldsWritten == [exact |-> {<<"x-api-key">>, <<"set-cookie">>}, fragments |-> {<<"token">>}]

(* _HEADER_REDACT_EXACT, _HEADER_REDACT_SUBSTRING *)
HeaderFields ==
  [ exact |-> {<<"authorization">>, <<"cookie">>, <<"set", "cookie">>, <<"x", "api", "key">>, <<"api", "key">>},
    fragments |-> {<<"token">>, <<"secret">>, <<"password">>} ]

(* LoggingRequestHook redacts the headers itself; its logger is structlog's. *)
HeaderLogged(s, hooks, i, headers, name) ==
  /\ hooks[i] = "LoggingRequestHook" /\ name \in HeadersAt(hooks, i, headers)
  /\ ~ Hidden(<<Under(name)>>, HeaderFields)
  /\ Logged(s, "structlog", [from |-> "call", way |-> <<Under(Word("headers")), Under(name)>>], {})

-----------------------------------------------------------------------------
(* Names as headers, settings and Python write them, at several depths.    *)
SomeNames == {Word("password"), Word("path"), Word("request_id"), Name("kebab", <<"set", "cookie">>),
  Name("caps", <<"api", "key">>), Name("camel", <<"new", "password">>), Name("snake", <<"user", "email">>)}
Ways(name) ==
  { <<Under(name)>>, <<Under(Word("headers")), Under(name)>>,
    <<Under(Word("items")), Inside("list"), Under(name)>>,
    <<Under(Word("items")), Inside("tuple"), Inside("list"), Under(name), Under(Word("path"))>> }
Leaves == {[from |-> f, way |-> w] : f \in {"call", "context", "extra"}, w \in UNION {Ways(n) : n \in SomeNames}}
Hooks == {hooks \in [1 .. 3 -> DOMAIN AddedHeaders] :
            IsInjective(hooks) /\ \E i \in 1 .. 3 : hooks[i] = "LoggingRequestHook"}
CredentialHeaders == {Authorization, XApiKey, Name("kebab", <<"set", "cookie">>), Name("snake", <<"access", "token">>)}
SentryEvents == [kind : {"error", "transaction"}, exception : {"ignored", "other"}, logger : {"ignored", "other"}]

(* A name on the way to a leaf that is to be kept back, as it is spelled.  *)
Sensitive(leaf, fields) ==
  \E i \in DOMAIN leaf.way : leaf.way[i].in = "mapping" /\ ShouldRedact(leaf.way[i].name, fields)

(* core/logger.py, core/log_redaction.py: with redaction on, no value      *)
(* under a configured name reaches a handler, whichever logger the line    *)
(* comes from, wherever its part was added and however deep it is in       *)
(* mappings, lists and tuples; and nothing else is lost, the request's     *)
(* identifiers included.                                                   *)
LogsAreRedacted(s) ==
  \A leaf \in Leaves, logger \in {"stdlib", "structlog"}, excluded \in SUBSET {Word("path")} :
    LET secret == s.LOG_REDACTION_ENABLED = "yes" /\ Sensitive(leaf, LogFields(s))
    IN /\ secret => ~ Logged(s, logger, leaf, excluded)
       /\ ~ secret /\ leaf.way[1].name \notin excluded => Logged(s, logger, leaf, excluded)

(* http_client/logging.py: whatever the order of the hooks and whatever    *)
(* LOG_REDACTION_ENABLED says, no credential of an outbound request is     *)
(* logged; a logged request still shows the identifiers to follow it by.   *)
OutboundIsRedacted(s) ==
  \A hooks \in Hooks, i \in 1 .. 3, headers \in {{}, CredentialHeaders} :
    /\ \A name \in CredentialHeaders : ~ HeaderLogged(s, hooks, i, headers, name)
    /\ hooks[i] = "LoggingRequestHook" =>
         \A name \in Propagated : HeaderLogged(s, hooks, i, headers, name)

(* core/sentry.py: the same of what Sentry gets, in an error or in a       *)
(* transaction, and nothing that may go is dropped.                        *)
SentryIsScrubbed(s) ==
  s.SENTRY_ENABLE = "yes" =>
    \A leaf \in Leaves, event \in SentryEvents :
      Sent(s, event, leaf) <=> ~ Dropped(s, event) /\ ~ Sensitive(leaf, ScrubFields(s))
=============================================================================

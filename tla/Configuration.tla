---------------------------- MODULE Configuration ----------------------------
(***************************************************************************)
(* How the settings of a process come to be (core/config.py).  Every       *)
(* setting has a few values that the validators or the readers of it tell  *)
(* apart, its default first; "bad" is a value its Field or its type does   *)
(* not allow, "blank" a string or a list element of spaces only, "any" the *)
(* wildcard "*".  load_settings builds Settings to learn ENVIRONMENT, and  *)
(* then the class of that environment, which has defaults of its own; both *)
(* read the same variables and either may refuse them.                     *)
(***************************************************************************)
EXTENDS Naturals, Sequences, FiniteSets, FiniteSetsExt, TLC

CONSTANT MaxGiven   \* bound: variables set beside ENVIRONMENT and the secrets

ASSUME ConfigurationAssumption == MaxGiven \in Nat

VARIABLES
  given,   \* the variables of the environment and the overrides
  stage    \* "start", "bootstrapped", "loaded" or "refused"

Words == <<"set", "blank">>
OptionalWords == <<"none", "set", "blank">>
Paths == <<"none", "file">>
Switch(default) == IF default THEN <<"yes", "no">> ELSE <<"no", "yes">>
Number == <<"fits", "bad">>

(* Two amounts that are compared with each other: low < mid < high. *)
Amounts == <<"low", "mid", "high">>
Amount(default) == <<default, "bad">> \o SelectSeq(Amounts, LAMBDA a : a # default)
Less(a, b) == \E i, j \in 1..3 : Amounts[i] = a /\ Amounts[j] = b /\ i < j
Delays(base, max) == base :> Amount("low") @@ max :> Amount("mid")

-----------------------------------------------------------------------------
(* One record of fields and one validator for each mixin of Settings.      *)
CryptFields ==
  [ SECRET_KEY |-> <<"placeholder", "short", "strong">>,
    ALGORITHM |-> Words, JWT_ISSUER |-> OptionalWords, JWT_AUDIENCE |-> OptionalWords,
    PASSWORD_BCRYPT_ROUNDS |-> Number, JWT_ACTIVE_KEY_ID |-> Words,
    JWT_VERIFICATION_KEYS |-> <<"none", "others", "blank", "active_too", "blank_secret">> ]

(* No word is blank, and no retired key has the name of the active one. *)
ValidCrypt(s) ==
  /\ \A n \in {"ALGORITHM", "JWT_ISSUER", "JWT_AUDIENCE", "JWT_ACTIVE_KEY_ID"} : s[n] # "blank"
  /\ s.JWT_VERIFICATION_KEYS \in {"none", "others"}

MachineAuthFields ==
  [ API_KEY_ENABLED |-> Switch(FALSE), API_KEY_HEADER_NAME |-> Words,
    API_KEY_PRINCIPALS |-> <<"none", "distinct", "blank", "blank_key", "blank_role", "same_key">> ]

(* APIKeyPrincipalSettings: neither the key nor a claim is blank. *)
ValidPrincipals(s) == s.API_KEY_PRINCIPALS \notin {"blank_key", "blank_role"}

(* Two principals never share a key, and enabled means someone has one. *)
ValidMachineAuth(s) ==
  /\ s.API_KEY_HEADER_NAME # "blank"
  /\ s.API_KEY_PRINCIPALS \notin {"blank", "same_key"}
  /\ s.API_KEY_ENABLED = "yes" => s.API_KEY_PRINCIPALS # "none"

PostgresFields ==
  [ DATABASE_URL |-> <<"none", "strong", "placeholder", "no_password", "not_postgres">>,
    POSTGRES_PASSWORD |-> <<"placeholder", "strong">>,
    DATABASE_POOL_SIZE |-> Number, DATABASE_STARTUP_RETRY_ATTEMPTS |-> <<"some", "zero", "bad">>,
    DATABASE_SSL_MODE |-> <<"disable", "require", "verify-ca", "verify-full", "bad">>,
    DATABASE_SSL_CA_FILE |-> Paths, DATABASE_SSL_CERT_FILE |-> Paths, DATABASE_SSL_KEY_FILE |-> Paths ]
  @@ Delays("DATABASE_STARTUP_RETRY_BASE_DELAY", "DATABASE_STARTUP_RETRY_MAX_DELAY")

(* _resolve_postgres_url: the URL wins over the parts. *)
DatabasePassword(s) == IF s.DATABASE_URL = "none" THEN s.POSTGRES_PASSWORD ELSE s.DATABASE_URL

ValidPostgres(s) ==
  /\ s.DATABASE_URL # "not_postgres"
  /\ s.DATABASE_SSL_CERT_FILE = s.DATABASE_SSL_KEY_FILE
  /\ \/ s.DATABASE_STARTUP_RETRY_ATTEMPTS = "zero"
     \/ ~Less(s.DATABASE_STARTUP_RETRY_MAX_DELAY, s.DATABASE_STARTUP_RETRY_BASE_DELAY)
  /\ s.DATABASE_SSL_MODE \in {"verify-ca", "verify-full"} => s.DATABASE_SSL_CA_FILE # "none"
  /\ s.DATABASE_SSL_MODE = "disable" => {s.DATABASE_SSL_CA_FILE, s.DATABASE_SSL_CERT_FILE} = {"none"}

(* The TLS fields of one Redis service. *)
RedisTlsFields(service) ==
  service \o "_SSL" :> Switch(FALSE)
  @@ service \o "_SSL_CHECK_HOSTNAME" :> Switch(FALSE)
  @@ service \o "_SSL_CERT_REQS" :> <<"required", "optional", "none", "bad">>
  @@ [n \in {service \o "_SSL_CA_CERTS", service \o "_SSL_CERTFILE", service \o "_SSL_KEYFILE"} |-> Paths]

RedisCacheFields ==
  RedisTlsFields("REDIS_CACHE") @@ "REDIS_CACHE_RETRY_ATTEMPTS" :> <<"some", "zero", "bad">>
  @@ Delays("REDIS_CACHE_RETRY_BASE_DELAY", "REDIS_CACHE_RETRY_MAX_DELAY")
RedisQueueFields ==
  RedisTlsFields("REDIS_QUEUE") @@ "REDIS_QUEUE_CONNECT_RETRIES" :> <<"some", "zero", "bad">>
RedisRateLimiterFields ==
  RedisTlsFields("REDIS_RATE_LIMIT") @@ "REDIS_RATE_LIMIT_RETRY_ATTEMPTS" :> <<"some", "zero", "bad">>
  @@ Delays("REDIS_RATE_LIMIT_RETRY_BASE_DELAY", "REDIS_RATE_LIMIT_RETRY_MAX_DELAY")

(* Mutant of ValidRedisTls: a certificate may come without its key. *)
ValidRedisTlsUnpaired(s, service) ==
  s[service \o "_SSL"] = "no" =>
    /\ s[service \o "_SSL_CHECK_HOSTNAME"] = "no"
    /\ s[service \o "_SSL_CA_CERTS"] = "none" /\ s[service \o "_SSL_CERTFILE"] = "none"

(* _validate_redis_tls_settings *)
ValidRedisTls(s, service) ==
  /\ s[service \o "_SSL_CERTFILE"] = s[service \o "_SSL_KEYFILE"]
  /\ s[service \o "_SSL"] = "no" =>
       /\ s[service \o "_SSL_CHECK_HOSTNAME"] = "no"
       /\ s[service \o "_SSL_CA_CERTS"] = "none" /\ s[service \o "_SSL_CERTFILE"] = "none"

(* _validate_redis_retry_settings *)
ValidRedisRetry(s, service) ==
  \/ s[service \o "_RETRY_ATTEMPTS"] = "zero"
  \/ ~Less(s[service \o "_RETRY_MAX_DELAY"], s[service \o "_RETRY_BASE_DELAY"])

ValidRedisCache(s) == ValidRedisTls(s, "REDIS_CACHE") /\ ValidRedisRetry(s, "REDIS_CACHE")
ValidRedisQueue(s) == ValidRedisTls(s, "REDIS_QUEUE")
ValidRedisRateLimit(s) == ValidRedisTls(s, "REDIS_RATE_LIMIT") /\ ValidRedisRetry(s, "REDIS_RATE_LIMIT")

WorkerFields == [WORKER_QUEUE_NAME |-> Words, WORKER_MAX_JOBS |-> Number]
ValidWorkerRuntime(s) == s.WORKER_QUEUE_NAME # "blank"

HttpClientFields ==
  [HTTP_CLIENT_TIMEOUT_SECONDS |-> Amount("mid"), HTTP_CLIENT_CONNECT_TIMEOUT_SECONDS |-> Amount("low")]
  @@ Delays("HTTP_CLIENT_RETRY_BACKOFF_BASE_SECONDS", "HTTP_CLIENT_RETRY_BACKOFF_MAX_SECONDS")

ValidHttpClient(s) ==
  /\ ~Less(s.HTTP_CLIENT_RETRY_BACKOFF_MAX_SECONDS, s.HTTP_CLIENT_RETRY_BACKOFF_BASE_SECONDS)
  /\ ~Less(s.HTTP_CLIENT_TIMEOUT_SECONDS, s.HTTP_CLIENT_CONNECT_TIMEOUT_SECONDS)

WebhookFields ==
  [ WEBHOOK_SIGNATURE_VERIFICATION_ENABLED |-> Switch(TRUE),
    WEBHOOK_SIGNATURE_MAX_AGE_SECONDS |-> Amount("mid"),
    WEBHOOK_REPLAY_PROTECTION_ENABLED |-> Switch(TRUE),
    WEBHOOK_REPLAY_WINDOW_SECONDS |-> Amount("mid"),
    WEBHOOK_STORE_RAW_PAYLOADS |-> Switch(TRUE), WEBHOOK_PAYLOAD_RETENTION_DAYS |-> <<"some", "zero", "bad">> ]

ValidWebhookRuntime(s) ==
  /\ ~ /\ s.WEBHOOK_SIGNATURE_VERIFICATION_ENABLED = "yes" /\ s.WEBHOOK_REPLAY_PROTECTION_ENABLED = "yes"
       /\ Less(s.WEBHOOK_REPLAY_WINDOW_SECONDS, s.WEBHOOK_SIGNATURE_MAX_AGE_SECONDS)
  /\ s.WEBHOOK_STORE_RAW_PAYLOADS = "yes" => s.WEBHOOK_PAYLOAD_RETENTION_DAYS # "zero"

MetricsFields ==
  [ METRICS_ENABLED |-> Switch(FALSE), METRICS_PATH |-> <<"rooted", "relative", "blank">>,
    METRICS_NAMESPACE |-> Words ]
ValidMetrics(s) == s.METRICS_PATH = "rooted" /\ s.METRICS_NAMESPACE # "blank"

TracingFields == [TRACING_SAMPLE_RATE |-> Number, TRACING_SERVICE_NAME |-> OptionalWords]
ValidTracing(s) == s.TRACING_SERVICE_NAME # "blank"

SentryFields ==
  [ SENTRY_ENABLE |-> Switch(FALSE), SENTRY_DSN |-> <<"none", "set">>, SENTRY_TRACES_SAMPLE_RATE |-> Number,
    SENTRY_SCRUB_FIELDS |-> <<"named", "none">>, SENTRY_IGNORED_EXCEPTIONS |-> <<"none", "named">>,
    SENTRY_IGNORED_LOGGERS |-> <<"none", "named">> ]
ValidSentry(s) == s.SENTRY_ENABLE = "yes" => s.SENTRY_DSN # "none"

CORSFields ==
  [ CORS_ORIGINS |-> <<"none", "named", "any", "blank">>, CORS_ALLOW_CREDENTIALS |-> Switch(TRUE),
    CORS_METHODS |-> <<"named", "any", "blank">>, CORS_HEADERS |-> <<"named", "any", "blank">>,
    CORS_EXPOSE_HEADERS |-> <<"named", "blank">>, CORS_MAX_AGE |-> Number ]

ValidCORS(s) ==
  /\ "blank" \notin {s.CORS_ORIGINS, s.CORS_METHODS, s.CORS_HEADERS, s.CORS_EXPOSE_HEADERS}
  /\ s.CORS_ALLOW_CREDENTIALS = "yes" => "any" \notin {s.CORS_ORIGINS, s.CORS_METHODS, s.CORS_HEADERS}

SecurityHeadersFields ==
  [ SECURITY_HEADERS_ENABLED |-> Switch(TRUE), SECURITY_HEADERS_FRAME_OPTIONS |-> <<"DENY", "none", "bad">>,
    SECURITY_HEADERS_CONTENT_SECURITY_POLICY |-> OptionalWords,
    SECURITY_HEADERS_PERMISSIONS_POLICY |-> OptionalWords,
    SECURITY_HEADERS_HSTS_ENABLED |-> Switch(FALSE),
    SECURITY_HEADERS_HSTS_INCLUDE_SUBDOMAINS |-> Switch(TRUE), SECURITY_HEADERS_HSTS_PRELOAD |-> Switch(FALSE) ]

ValidSecurityHeaders(s) ==
  /\ "blank" \notin {s.SECURITY_HEADERS_CONTENT_SECURITY_POLICY, s.SECURITY_HEADERS_PERMISSIONS_POLICY}
  /\ s.SECURITY_HEADERS_HSTS_PRELOAD = "yes" =>
       s.SECURITY_HEADERS_HSTS_ENABLED = "yes" /\ s.SECURITY_HEADERS_HSTS_INCLUDE_SUBDOMAINS = "yes"

CookieFields ==
  [ REFRESH_TOKEN_COOKIE_NAME |-> Words, REFRESH_TOKEN_COOKIE_PATH |-> <<"rooted", "relative", "blank">>,
    REFRESH_TOKEN_COOKIE_DOMAIN |-> OptionalWords, REFRESH_TOKEN_COOKIE_SECURE |-> Switch(TRUE),
    REFRESH_TOKEN_COOKIE_SAMESITE |-> <<"lax", "strict", "none", "bad">> ]

ValidCookie(s) ==
  /\ "blank" \notin {s.REFRESH_TOKEN_COOKIE_NAME, s.REFRESH_TOKEN_COOKIE_DOMAIN}
  /\ s.REFRESH_TOKEN_COOKIE_PATH = "rooted"
  /\ s.REFRESH_TOKEN_COOKIE_SAMESITE = "none" => s.REFRESH_TOKEN_COOKIE_SECURE = "yes"

TrustedHostFields == [TRUSTED_HOSTS |-> <<"none", "named", "pattern", "inner_wildcard", "any", "blank">>]

(* _validate_allowed_host_patterns: "*" alone or in front of a dot. *)
ValidTrustedHosts(s) == s.TRUSTED_HOSTS \notin {"blank", "inner_wildcard"}

ProxyFields ==
  [PROXY_HEADERS_ENABLED |-> Switch(FALSE), PROXY_HEADERS_TRUSTED_PROXIES |-> <<"none", "named", "any", "blank">>]

ValidProxyHeaders(s) ==
  /\ s.PROXY_HEADERS_TRUSTED_PROXIES # "blank"
  /\ s.PROXY_HEADERS_ENABLED = "yes" => s.PROXY_HEADERS_TRUSTED_PROXIES # "none"

RequestLimitFields ==
  [ REQUEST_BODY_LIMIT_ENABLED |-> Switch(TRUE), REQUEST_BODY_MAX_BYTES |-> Number,
    REQUEST_BODY_LIMIT_EXEMPT_PATH_PREFIXES |-> <<"none", "rooted", "relative", "blank">>,
    REQUEST_TIMEOUT_ENABLED |-> Switch(FALSE), REQUEST_TIMEOUT_SECONDS |-> Number,
    REQUEST_TIMEOUT_EXEMPT_PATH_PREFIXES |-> <<"none", "rooted", "relative", "blank">> ]

(* _validate_path_prefixes after _normalize_string_list *)
ValidBodyLimit(s) == s.REQUEST_BODY_LIMIT_EXEMPT_PATH_PREFIXES \in {"none", "rooted"}
ValidTimeout(s) == s.REQUEST_TIMEOUT_EXEMPT_PATH_PREFIXES \in {"none", "rooted"}

RedactionFields ==
  [ LOG_REDACTION_ENABLED |-> Switch(TRUE), LOG_REDACTION_EXACT_FIELDS |-> <<"named", "none", "blank">>,
    LOG_REDACTION_SUBSTRING_FIELDS |-> <<"named", "none", "blank">>, LOG_REDACTION_REPLACEMENT |-> Words ]
ValidRedaction(s) == \A n \in DOMAIN RedactionFields : s[n] # "blank"

AdminFields ==
  [ CRUD_ADMIN_ENABLED |-> Switch(FALSE), ADMIN_PASSWORD |-> <<"placeholder", "strong">>,
    SESSION_SECURE_COOKIES |-> Switch(TRUE) ]
FeatureFields == [FEATURE_CLIENT_CACHE_ENABLED |-> Switch(TRUE), FEATURE_API_USERS_ENABLED |-> Switch(TRUE)]
RateLimitFields == [API_RATE_LIMIT_ENABLED |-> Switch(TRUE), WEBHOOK_RATE_LIMIT_LIMIT |-> Number]
EnvironmentFields == [ENVIRONMENT |-> <<"local", "staging", "production", "bad">>]

-----------------------------------------------------------------------------
(* Settings: all of them. *)
Mixins == {CryptFields, MachineAuthFields, PostgresFields, RedisCacheFields, RedisQueueFields,
  RedisRateLimiterFields, WorkerFields, HttpClientFields, WebhookFields, MetricsFields, TracingFields,
  SentryFields, CORSFields, SecurityHeadersFields, CookieFields, TrustedHostFields, ProxyFields,
  RequestLimitFields, RedactionFields, AdminFields, FeatureFields, RateLimitFields, EnvironmentFields}

Fields == [n \in UNION {DOMAIN m : m \in Mixins} |-> (CHOOSE m \in Mixins : n \in DOMAIN m)[n]]

Names == DOMAIN Fields
Values(n) == {Fields[n][i] : i \in DOMAIN Fields[n]}

ValidFields(s) ==
  /\ \A n \in DOMAIN given : s[n] # "bad"
  /\ ValidPostgres(s) /\ ValidCrypt(s) /\ ValidPrincipals(s) /\ ValidMachineAuth(s)
  /\ ValidRedisCache(s) /\ ValidRedisQueue(s) /\ ValidRedisRateLimit(s)
  /\ ValidWorkerRuntime(s) /\ ValidHttpClient(s) /\ ValidWebhookRuntime(s)
  /\ ValidMetrics(s) /\ ValidTracing(s) /\ ValidSentry(s) /\ ValidCORS(s)
  /\ ValidSecurityHeaders(s) /\ ValidCookie(s) /\ ValidTrustedHosts(s) /\ ValidProxyHeaders(s)
  /\ ValidBodyLimit(s) /\ ValidTimeout(s) /\ ValidRedaction(s)

(* _collect_secure_environment_errors finds nothing. *)
SecureEnvironment(s) ==
  /\ s.SECRET_KEY = "strong" /\ DatabasePassword(s) = "strong"
  /\ s.CRUD_ADMIN_ENABLED = "yes" => s.ADMIN_PASSWORD = "strong" /\ s.SESSION_SECURE_COOKIES = "yes"
  /\ "any" \notin {s.CORS_ORIGINS, s.TRUSTED_HOSTS} /\ s.REFRESH_TOKEN_COOKIE_SECURE = "yes"
  /\ s.PROXY_HEADERS_ENABLED = "yes" => s.PROXY_HEADERS_TRUSTED_PROXIES # "any"

(* validate_generic_environment_safety: only Settings itself looks. *)
GenericSafety(s) == s.ENVIRONMENT \in {"staging", "production"} => SecureEnvironment(s)

(* What LocalSettings, StagingSettings and ProductionSettings change. *)
ProfileDefaults ==
  [ local      |-> [ENVIRONMENT |-> "local", CORS_ORIGINS |-> "named",
                    REFRESH_TOKEN_COOKIE_SECURE |-> "no", SESSION_SECURE_COOKIES |-> "no"],
    staging    |-> [ENVIRONMENT |-> "staging"],
    production |-> [ENVIRONMENT |-> "production"] ]

(* validate_local_profile, validate_staging_profile, validate_production_profile *)
ValidProfile(s, environment) ==
  /\ s.ENVIRONMENT = environment
  /\ environment # "local" => SecureEnvironment(s)

Read(defaults) == [n \in Names |->
  IF n \in DOMAIN given THEN given[n] ELSE IF n \in DOMAIN defaults THEN defaults[n] ELSE Fields[n][1]]
Bootstrap == Read(<<>>)
Environment == Bootstrap.ENVIRONMENT
Settings == Read(ProfileDefaults[Environment])

(* The deployments that are varied: nothing set, the two secrets, and      *)
(* everything on that is off by default.                                   *)
Secrets == [SECRET_KEY |-> "strong", POSTGRES_PASSWORD |-> "strong"]
Everything == Secrets @@
  [ API_KEY_ENABLED |-> "yes", API_KEY_PRINCIPALS |-> "distinct", METRICS_ENABLED |-> "yes",
    CORS_ORIGINS |-> "named", SECURITY_HEADERS_HSTS_ENABLED |-> "yes", TRUSTED_HOSTS |-> "pattern",
    PROXY_HEADERS_ENABLED |-> "yes", PROXY_HEADERS_TRUSTED_PROXIES |-> "named",
    REQUEST_TIMEOUT_ENABLED |-> "yes", CRUD_ADMIN_ENABLED |-> "yes", ADMIN_PASSWORD |-> "strong" ]

(* Up to MaxGiven variables of one mixin, beside these and ENVIRONMENT.    *)
Variations == UNION { UNION { {c \in [set -> UNION {Values(n) : n \in set}] : \A n \in set : c[n] \in Values(n)} :
    set \in UNION {kSubset(k, DOMAIN m \ {"ENVIRONMENT"}) : k \in 0..MaxGiven} } : m \in Mixins }

InitConfiguration ==
  /\ stage = "start"
  /\ \E deployment \in {<<>>, Secrets, Everything}, chosen \in Variations,
        environment \in {<<>>} \cup {"ENVIRONMENT" :> e : e \in Values("ENVIRONMENT")} :
       given = chosen @@ environment @@ deployment

(* load_settings, first half: Settings(overrides), to read ENVIRONMENT. *)
BootstrapSettings ==
  /\ stage = "start"
  /\ stage' = IF ValidFields(Bootstrap) /\ GenericSafety(Bootstrap) THEN "bootstrapped" ELSE "refused"

(* Second half: the class of that environment. *)
LoadSettings ==
  /\ stage = "bootstrapped"
  /\ stage' = IF ValidFields(Settings) /\ ValidProfile(Settings, Environment) THEN "loaded" ELSE "refused"

-----------------------------------------------------------------------------
(* The connections that the settings are made into. *)
Plain == [encrypted |-> FALSE, verified |-> FALSE, ca |-> "none", cert |-> "none", key |-> "none"]
Tls(verified, ca, cert, key) ==
  [encrypted |-> TRUE, verified |-> verified, ca |-> ca, cert |-> cert, key |-> key]

(* build_redis_pool_kwargs: the cache's and the limiter's pool. *)
PoolConnection(s, service) ==
  IF s[service \o "_SSL"] = "no" THEN Plain
  ELSE Tls(s[service \o "_SSL_CERT_REQS"] # "none", s[service \o "_SSL_CA_CERTS"],
           s[service \o "_SSL_CERTFILE"], s[service \o "_SSL_KEYFILE"])

(* create_redis_cache_pool, create_redis_rate_limit_pool *)
CacheConnection(s) == PoolConnection(s, "REDIS_CACHE")
LimiterConnection(s) == PoolConnection(s, "REDIS_RATE_LIMIT")

(* build_arq_redis_settings: ARQ makes the same of the fields it is given. *)
QueueConnection(s) == PoolConnection(s, "REDIS_QUEUE")

(* build_database_ssl_context: "require" reads no CA file. *)
DatabaseConnection(s) ==
  LET cert == s.DATABASE_SSL_CERT_FILE  key == s.DATABASE_SSL_KEY_FILE
  IN CASE s.DATABASE_SSL_MODE = "disable" -> Plain
       [] s.DATABASE_SSL_MODE = "require" -> Tls(FALSE, "none", cert, key)
       [] OTHER -> Tls(TRUE, s.DATABASE_SSL_CA_FILE, cert, key)

(* build_database_startup_retry_delays: the base, doubled up to the limit. *)
StartupDelays(s) ==
  IF s.DATABASE_STARTUP_RETRY_ATTEMPTS = "zero" THEN {}
  ELSE {s.DATABASE_STARTUP_RETRY_BASE_DELAY, s.DATABASE_STARTUP_RETRY_MAX_DELAY}

(* Nothing that was given for TLS is given in vain. *)
Uses(connection, ca, cert, key) ==
  connection.ca = ca /\ connection.cert = cert /\ connection.key = key /\ cert = key

(* core/config.py, core/redis.py, core/db/database.py: settings that two   *)
(* classes of validators let through are those the program can keep to.    *)
(* Outside local development no origin, host or proxy is "any", no secret  *)
(* is a placeholder and no cookie travels in the clear, whatever           *)
(* ENVIRONMENT, the defaults of the profile and the other variables are.   *)
(* And no certificate, key or CA that was given is dropped on the way into *)
(* a connection, except the CA of a database in mode "require", and no     *)
(* wait for the database is longer than the one that was allowed.          *)
LoadedIsSound ==
  stage = "loaded" =>
    LET s == Settings
        material(service) == <<s[service \o "_SSL_CA_CERTS"], s[service \o "_SSL_CERTFILE"],
                               s[service \o "_SSL_KEYFILE"]>>
        uses(c, m) == Uses(c, m[1], m[2], m[3])
    IN /\ s.ENVIRONMENT # "local" =>
            /\ "placeholder" \notin {s.SECRET_KEY, DatabasePassword(s)} /\ s.SECRET_KEY # "short"
            /\ "any" \notin {s.CORS_ORIGINS, s.TRUSTED_HOSTS}
            /\ s.PROXY_HEADERS_ENABLED = "yes" => s.PROXY_HEADERS_TRUSTED_PROXIES \notin {"none", "any", "blank"}
            /\ s.REFRESH_TOKEN_COOKIE_SECURE = "yes"
            /\ s.CRUD_ADMIN_ENABLED = "yes" => s.ADMIN_PASSWORD # "placeholder" /\ s.SESSION_SECURE_COOKIES = "yes"
       /\ uses(CacheConnection(s), material("REDIS_CACHE"))
       /\ uses(LimiterConnection(s), material("REDIS_RATE_LIMIT"))
       /\ uses(QueueConnection(s), material("REDIS_QUEUE"))
       /\ uses(DatabaseConnection(s),
              <<IF s.DATABASE_SSL_MODE = "require" THEN "none" ELSE s.DATABASE_SSL_CA_FILE,
                s.DATABASE_SSL_CERT_FILE, s.DATABASE_SSL_KEY_FILE>>)
       /\ \A delay \in StartupDelays(s) : ~Less(s.DATABASE_STARTUP_RETRY_MAX_DELAY, delay)
=============================================================================

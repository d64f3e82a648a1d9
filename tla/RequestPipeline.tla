--------------------------- MODULE RequestPipeline ---------------------------
(***************************************************************************)
(* One request through the application that create_application (core/      *)
(* setup.py) builds from the settings of Configuration: the middlewares    *)
(* from the outermost to the innermost, the router with its dependencies,  *)
(* and the way back of an answer or of an exception.  What a request       *)
(* carries is decided by the layer that first looks at it.  Tokens, rate   *)
(* limits and services are those of TokenSessions and ApiRequests: here    *)
(* each is one outcome.  Starlette, FastAPI and uvicorn are modelled from  *)
(* how the application uses them.                                          *)
(***************************************************************************)
EXTENDS Configuration, Authorization, Redaction

VARIABLES
  app,       \* what create_application made of the settings
  req,       \* who sent the request, through whom, for which route
  phase,     \* "idle", "in", "body", "deps", "handle", "respond", "out", "raise", "streaming" or "done"
  at,        \* the layer the request, its answer or its exception is at
  dep,       \* the dependency of the route that is next
  answer,    \* status and headers of the response on its way, or sent
  exc,       \* the exception on its way
  guard,     \* does the timeout run, is the body counted?
  client,    \* request.client
  context,   \* are request and correlation identifiers bound to the log context?
  counted,   \* the subject the rate limiter counted the request for
  handled,   \* the handler has committed, or disclosed, what the route is for
  starts     \* http.response.start messages that reached the server

travel == <<at, dep, answer, exc, guard, client, context, counted, handled, starts>>
vars == <<given, stage, app, req, phase, travel>>

-----------------------------------------------------------------------------
Users == {"alice", "bob", "root"}
Services == {"ops", "tiers", "half", "star"}

(* A user row, or _build_api_key_principal_payload. *)
Principal(name) ==
  [ name |-> name, superuser |-> name = "root",
    roles |-> IF name = "ops" THEN Claim("list", {Padded("admin")}) ELSE Absent,
    permissions |-> CASE name \in {"tiers", "half"} -> Claim("list", {Written("tiers:manage")})
                      [] name = "star" -> Claim("list", {Written(Wildcard)})
                      [] OTHER -> Absent,
    scopes |-> IF name = "tiers" THEN Claim("list", {Padded("users:manage")}) ELSE Absent ]

Dependency(kind, needs) == [kind |-> kind, needs |-> needs]
RateLimit == Dependency("rate_limit", {})
FormRateLimit == Dependency("form_rate_limit", {})
WebhookRateLimit == Dependency("webhook_rate_limit", {})
LogoutRateLimit == Dependency("logout_rate_limit", {})
BearerToken == Dependency("token", {})
CurrentUser == Dependency("user", {})
Needs(permissions) == Dependency("permissions", permissions)

LimiterKinds == {"rate_limit", "form_rate_limit", "webhook_rate_limit", "logout_rate_limit"}

Route(deps, body, owner) == [deps |-> deps, body |-> body, owner |-> owner]

(* The groups of build_v1_router and the routes that stand for them, the   *)
(* documentation and the metrics; owner is the permission that replaces    *)
(* ownership, body how the route reads it.                                 *)
Routes(environment) ==
  [ write_user |-> Route(<<RateLimit>>, "json", ""),
    patch_user |-> Route(<<RateLimit, CurrentUser>>, "json", "users:manage"),
    erase_user |-> Route(<<RateLimit, CurrentUser>>, "none", "users:self:delete:override"),
    patch_user_tier |-> Route(<<RateLimit, Needs({"users:manage", "tiers:manage"})>>, "json", ""),
    health |-> Route(<<>>, "none", ""),
    internal |-> Route(<<Needs({"internal:access"})>>, "none", ""),
    login |-> Route(<<FormRateLimit>>, "form", ""),
    logout |-> Route(<<LogoutRateLimit, BearerToken>>, "none", ""),
    webhooks |-> Route(<<WebhookRateLimit>>, "raw", ""),
    docs |-> Route(IF environment = "local" THEN <<>> ELSE <<Needs({"admin:access"})>>, "none", ""),
    metrics |-> Route(<<>>, "none", "") ]
RouteNames == DOMAIN Routes("local")

(* The routes of build_v1_router and create_application that are left out. *)
LeftOut(s) ==
  (IF s.FEATURE_API_USERS_ENABLED = "yes" THEN {} ELSE {"write_user", "patch_user", "erase_user", "patch_user_tier"})
  \cup (IF s.ENVIRONMENT = "production" THEN {"docs"} ELSE {})
  \cup (IF s.METRICS_ENABLED = "yes" THEN {} ELSE {"metrics"})

(* Mutant of Layers: the request context is bound inside the timeout. *)
LayersContextLate == <<"server_error", "proxy", "timeout", "context", "body_limit", "trusted_host",
  "security_headers", "cors", "shutdown", "client_cache", "exceptions", "router">>

(* add_middleware puts each one around those before it.  MetricsMiddleware *)
(* is missing: create_application looks for metrics before a lifespan has  *)
(* made them.                                                              *)
Layers == <<"server_error", "proxy", "context", "timeout", "body_limit", "trusted_host",
  "security_headers", "cors", "shutdown", "client_cache", "exceptions", "router">>
LayerNames == {Layers[i] : i \in DOMAIN Layers}

Installed(s) ==
  [ proxy |-> s.PROXY_HEADERS_ENABLED = "yes", timeout |-> s.REQUEST_TIMEOUT_ENABLED = "yes",
    body_limit |-> s.REQUEST_BODY_LIMIT_ENABLED = "yes", trusted_host |-> s.TRUSTED_HOSTS # "none",
    security_headers |-> s.SECURITY_HEADERS_ENABLED = "yes", cors |-> s.CORS_ORIGINS # "none",
    client_cache |-> s.FEATURE_CLIENT_CACHE_ENABLED = "yes" ]

(* create_application and build_v1_router *)
CreateApplication(s) ==
  [ environment |-> s.ENVIRONMENT,
    layers |-> {l \in LayerNames : l \in DOMAIN Installed(s) => Installed(s)[l]},
    routes |-> [r \in RouteNames \ LeftOut(s) |-> Routes(s.ENVIRONMENT)[r]],
    believes |-> IF s.PROXY_HEADERS_ENABLED = "yes" THEN s.PROXY_HEADERS_TRUSTED_PROXIES ELSE "none",
    any_host |-> s.TRUSTED_HOSTS \in {"none", "any"},
    keys |-> s.API_KEY_ENABLED = "yes",
    limited |-> {k \in LimiterKinds :
                   k = "rate_limit" => s.API_RATE_LIMIT_ENABLED = "yes"},
    exempt |->
      [ timeout |-> s.REQUEST_TIMEOUT_ENABLED = "yes" /\ s.REQUEST_TIMEOUT_EXEMPT_PATH_PREFIXES = "rooted",
        body_limit |->
          s.REQUEST_BODY_LIMIT_ENABLED = "yes" /\ s.REQUEST_BODY_LIMIT_EXEMPT_PATH_PREFIXES = "rooted" ] ]

NoApp == [layers |-> {}]
NoAnswer == [status |-> 0, headers |-> {}, by |-> "none"]
NoGuard == [timeout |-> FALSE, body_limit |-> FALSE]
NoRequest == [through |-> "none", route |-> "none", key |-> "none", bearer |-> "none"]

Init ==
  /\ InitConfiguration
  /\ app = NoApp /\ req = NoRequest /\ phase = "idle"
  /\ at = 0 /\ dep = 0 /\ answer = NoAnswer /\ exc = "none" /\ guard = NoGuard
  /\ client = "none" /\ context = "unbound" /\ counted = "none" /\ handled = FALSE /\ starts = 0

Load ==
  /\ BootstrapSettings \/ LoadSettings
  /\ UNCHANGED <<given, app, req, phase, travel>>

(* main.create_app, at import.  The settings themselves are not looked at  *)
(* again, so that they are forgotten here.                                 *)
CreateApp ==
  /\ stage = "loaded"
  /\ app' = CreateApplication(Settings)
  /\ stage' = "serving" /\ given' = <<>>
  /\ UNCHANGED <<req, phase, travel>>

Layer == Layers[at]
IndexOf(l) == CHOOSE i \in DOMAIN Layers : Layers[i] = l
Has(l) == l \in app.layers

(* Two layers of the application with none between them. *)
Adjacent(outer, inner) ==
  /\ outer < inner /\ Has(Layers[outer]) /\ Has(Layers[inner])
  /\ \A i \in DOMAIN Layers : outer < i /\ i < inner => ~Has(Layers[i])

(* A caller connects by itself, and may write a forwarding header of its   *)
(* own, or comes through the deployment's proxy, which writes a true one.  *)
Arrive ==
  /\ stage = "serving" /\ phase = "idle"
  /\ \E through \in {"proxy", "forging", "none"} :
       /\ req' = [NoRequest EXCEPT !.through = through]
       /\ client' = IF through = "proxy" THEN "proxy" ELSE "caller"
  /\ phase' = "in" /\ at' = 1
  /\ UNCHANGED <<given, stage, app, dep, answer, exc, guard, context, counted, handled, starts>>

here == <<given, stage, app>>

(* The response starts at the layer where the request is. *)
Answered(status, headers) ==
  /\ phase' = "out"
  /\ answer' = [status |-> status, headers |-> headers, by |-> Layer]
  /\ UNCHANGED <<here, req, dep, exc, guard, client, context, counted, handled, starts>>

Enter ==
  /\ phase' = "in"
  /\ \E inner \in DOMAIN Layers : Adjacent(at, inner) /\ at' = inner
  /\ UNCHANGED <<here, req, dep, answer, exc, counted, handled, starts>>

(* Layers that do nothing on the way in. *)
PassIn ==
  /\ phase = "in" /\ Layer \in {"server_error", "security_headers", "client_cache", "exceptions"}
  /\ Enter /\ UNCHANGED <<guard, client, context>>

(* Mutant of ForwardedClient: any peer is believed. *)
ForwardedClientAny(through) ==
  CASE through = "proxy" -> "caller" [] through = "forging" -> "forged" [] OTHER -> client

(* uvicorn's ProxyHeadersMiddleware: the header of a trusted peer. *)
ForwardedClient(through) ==
  CASE through = "proxy" -> "caller"
    [] through = "forging" /\ app.believes = "any" -> "forged"
    [] OTHER -> client

ProxyHeaders ==
  /\ phase = "in" /\ Layer = "proxy"
  /\ client' = ForwardedClient(req.through)
  /\ Enter /\ UNCHANGED <<guard, context>>

(* RequestContextMiddleware: the caller's identifiers, else new ones. *)
BindContext ==
  /\ phase = "in" /\ Layer = "context"
  /\ context' = "bound"
  /\ Enter /\ UNCHANGED <<guard, client>>

(* RequestTimeoutMiddleware and RequestBodyLimitMiddleware let exempt      *)
(* prefixes pass; a declared length over the limit is answered at once.    *)
StartTimeout ==
  /\ phase = "in" /\ Layer = "timeout"
  /\ \E exempt \in {FALSE, app.exempt.timeout} : guard' = [guard EXCEPT !.timeout = ~exempt]
  /\ Enter /\ UNCHANGED <<client, context>>
LimitBody ==
  /\ phase = "in" /\ Layer = "body_limit"
  /\ \E exempt \in {FALSE, app.exempt.body_limit} : guard' = [guard EXCEPT !.body_limit = ~exempt]
  /\ Enter /\ UNCHANGED <<client, context>>
RefuseLength ==
  /\ phase = "in" /\ Layer = "body_limit"
  /\ Answered(413, {}) /\ UNCHANGED at

(* TrustedHostMiddleware: 400, or a redirect to the www host. *)
TrustedHost ==
  /\ phase = "in" /\ Layer = "trusted_host"
  /\ \/ Enter /\ UNCHANGED <<guard, client, context>>
     \/ ~app.any_host /\ \E status \in {400, 307} : Answered(status, {}) /\ UNCHANGED at

(* CORSMiddleware answers a preflight itself. *)
CORS ==
  /\ phase = "in" /\ Layer = "cors"
  /\ \/ Enter /\ UNCHANGED <<guard, client, context>>
     \/ \E status \in {200, 400} : Answered(status, {}) /\ UNCHANGED at

(* GracefulShutdownMiddleware; its counter is in ApiLifecycle. *)
GracefulShutdown ==
  /\ phase = "in" /\ Layer = "shutdown"
  /\ \/ Enter /\ UNCHANGED <<guard, client, context>>
     \/ Answered(503, {}) /\ UNCHANGED at

-----------------------------------------------------------------------------
(* What the API key header and the Authorization header hold: nobody, an   *)
(* unknown key beside a good token, a service beside a user, one of them.  *)
Credentials ==
  {[key |-> "none", bearer |-> b] : b \in {"none", "invalid"} \cup Users}
  \cup {[key |-> k, bearer |-> "none"] : k \in Services}
  \cup {[key |-> "unknown", bearer |-> "root"], [key |-> "half", bearer |-> "root"]}

Go(to) == phase' = to /\ UNCHANGED <<here, req, at, answer, guard, client, context, starts>>
Raise(e) == exc' = e /\ Go("raise") /\ UNCHANGED <<dep, counted, handled>>

(* The router; a path without a route is a 404 of Starlette's. *)
FindRoute ==
  /\ phase = "in" /\ Layer = "router"
  /\ \E route \in RouteNames, c \in Credentials :
       req' = [req EXCEPT !.route = route, !.key = c.key, !.bearer = c.bearer]
  /\ IF req'.route \notin DOMAIN app.routes THEN exc' = "404" /\ phase' = "raise" /\ UNCHANGED dep
     ELSE /\ phase' = IF app.routes[req'.route].body \in {"json", "form"} THEN "body" ELSE "deps"
          /\ dep' = 1 /\ UNCHANGED exc
  /\ UNCHANGED <<here, at, answer, guard, client, context, counted, handled, starts>>

TheRoute == app.routes[req.route]

(* FastAPI reads a declared body before the dependencies.  JSON that does  *)
(* not parse is a validation error; whatever else goes wrong while reading *)
(* is a 400, also the PayloadTooLargeError of a body that is streamed.     *)
ReadBody ==
  /\ phase = "body"
  /\ \/ Go("deps") /\ UNCHANGED <<dep, exc, counted, handled>>
     \/ TheRoute.body = "json" /\ Raise("422")
     \/ guard.body_limit /\ Raise("400")

-----------------------------------------------------------------------------
Dependent(kinds) == phase = "deps" /\ dep \in DOMAIN TheRoute.deps /\ TheRoute.deps[dep].kind \in kinds
Satisfied == dep' = dep + 1 /\ Go("deps") /\ UNCHANGED <<exc, handled>>

(* rate_limiter_dependency and that of the logout count a user, else the   *)
(* client; the others the client.  The form of a login is read first.      *)
Subject(kind) ==
  IF kind \in {"rate_limit", "logout_rate_limit"} /\ req.bearer \in Users THEN "user" ELSE client

RateLimiter ==
  /\ Dependent(LimiterKinds)
  /\ LET kind == TheRoute.deps[dep].kind
     IN \/ kind = "form_rate_limit" /\ Raise("422")
        \/ kind \notin app.limited /\ Satisfied /\ UNCHANGED counted
        \/ /\ kind \in app.limited /\ counted' = Subject(kind)
           /\ \/ Satisfied
              \/ \E e \in {"429", "error"} : exc' = e /\ Go("raise") /\ UNCHANGED <<dep, handled>>

(* get_current_user, through oauth2_scheme: an API key does not count. *)
GetCurrentUser ==
  /\ Dependent({"user"})
  /\ IF req.bearer \in Users THEN Satisfied /\ UNCHANGED counted ELSE Raise("401")

(* oauth2_scheme by itself: any bearer token will do. *)
GetBearerToken ==
  /\ Dependent({"token"})
  /\ IF req.bearer # "none" THEN Satisfied /\ UNCHANGED counted ELSE Raise("401")

(* get_current_principal: a key, good or bad, goes before a token. *)
CurrentPrincipal ==
  IF req.key # "none" THEN IF req.key \in Services /\ app.keys THEN req.key ELSE "none"
  ELSE IF req.bearer \in Users THEN req.bearer ELSE "none"

(* require_permissions, require_admin_access, require_internal_access *)
RequirePermissions ==
  /\ Dependent({"permissions"})
  /\ IF CurrentPrincipal = "none" THEN Raise("401")
     ELSE IF EnsurePermissions(BuildSubject(Principal(CurrentPrincipal)), TheRoute.deps[dep].needs)
       THEN Satisfied /\ UNCHANGED counted
       ELSE Raise("403")

(* All parameters are validated once the dependencies are through. *)
Validate ==
  /\ phase = "deps" /\ dep \notin DOMAIN TheRoute.deps
  /\ \/ Go("handle") /\ UNCHANGED <<dep, exc, counted, handled>>
     \/ TheRoute.body = "json" /\ Raise("422")

Permitted == TheRoute.owner # "" =>
  AuthorizeOwnerOrPermission(BuildSubject(Principal(req.bearer)), "alice", TheRoute.owner)

(* The services look at the row, then at the caller, then at other rows.   *)
Missing ==
  /\ phase = "handle" /\ req.route \in {"patch_user", "erase_user", "patch_user_tier"}
  /\ Raise("404")
NotTheOwner == phase = "handle" /\ ~Permitted /\ Raise("403")
Taken ==
  /\ phase = "handle" /\ Permitted /\ req.route \in {"write_user", "patch_user"}
  /\ Raise("409")

(* A login without the password, a logout without the cookie or whose      *)
(* access token does not decode; a delivery without a signature, or whose  *)
(* body, which is read only here, is too long; anything else that fails.   *)
Unproven == phase = "handle" /\ req.route \in {"login", "logout", "webhooks"} /\ Raise("401")
TooLong == phase = "handle" /\ TheRoute.body = "raw" /\ guard.body_limit /\ Raise("payload")
Fail == phase \in {"handle", "respond"} /\ Raise("error")

(* The service commits, or the route reads out what it is for. *)
Perform ==
  /\ phase = "handle" /\ Permitted
  /\ handled' = TRUE /\ Go("respond") /\ UNCHANGED <<dep, exc, counted>>

(* After a commit: create_user reads the row back and finds none; logout   *)
(* has committed the access token's row when the refresh cookie does not   *)
(* decode.                                                                 *)
RefuseLate ==
  /\ phase = "respond"
  /\ \/ req.route = "write_user" /\ Raise("404")
     \/ req.route = "logout" /\ Raise("401")

(* The response is built. *)
Respond == phase = "respond" /\ Answered(200, {}) /\ UNCHANGED at

-----------------------------------------------------------------------------
(* What a layer does to a response that starts inside it: ids in           *)
(* send_with_request_context, the headers of build_security_headers,       *)
(* Cache-Control in ClientCacheMiddleware.                                 *)
Headers == {"ids", "security", "client_cache"}
Adds(l) == {h \in Headers :
  h = CASE l = "context" -> "ids" [] l = "security_headers" -> "security"
        [] l = "client_cache" -> "client_cache" [] OTHER -> "none"}

PassOut ==
  /\ phase = "out"
  /\ \E outer \in DOMAIN Layers :
       /\ Adjacent(outer, at) /\ at' = outer
       /\ answer' = [answer EXCEPT !.headers = @ \cup Adds(Layers[outer])]
  /\ UNCHANGED <<here, req, phase, dep, exc, guard, client, context, counted, handled, starts>>

SendStart ==
  /\ phase = "out" /\ at = 1
  /\ phase' = "streaming" /\ starts' = starts + 1
  /\ UNCHANGED <<here, req, at, dep, answer, exc, guard, client, context, counted, handled>>

(* Mutant of Finish: the identifiers stay bound. *)
FinishBound ==
  /\ phase = "streaming"
  /\ phase' = "done"
  /\ UNCHANGED <<here, req, at, dep, answer, exc, guard, client, counted, handled, starts, context>>

(* The body is sent and the layers return; the context is cleared.         *)
Finish ==
  /\ phase = "streaming"
  /\ phase' = "done" /\ context' = "unbound"
  /\ UNCHANGED <<here, req, at, dep, answer, exc, guard, client, counted, handled, starts>>

(* Mutant of StatusOf: an unexpected error looks like a bad request. *)
StatusOfErrors == [e \in {"400", "401", "403", "404", "409", "422", "429", "error"} |->
  CASE e \in {"400", "error"} -> 400 [] e = "401" -> 401 [] e = "403" -> 403 [] e = "404" -> 404
    [] e = "409" -> 409 [] e = "422" -> 422 [] e = "429" -> 429]

(* The status an exception of the application stands for. *)
StatusOf == [e \in {"400", "401", "403", "404", "409", "422", "429"} |->
  CASE e = "400" -> 400 [] e = "401" -> 401 [] e = "403" -> 403 [] e = "404" -> 404
    [] e = "409" -> 409 [] e = "422" -> 422 [] e = "429" -> 429]

Caught(status) == Answered(status, {}) /\ UNCHANGED at

(* register_api_exception_handlers: CustomException, HTTPException and     *)
(* RequestValidationError are caught inside every middleware, Exception    *)
(* outside of all of them.                                                 *)
HandleException ==
  /\ phase = "raise"
  /\ \/ Layer = "exceptions" /\ exc \in DOMAIN StatusOf /\ Caught(StatusOf[exc])
     \/ Layer = "body_limit" /\ exc = "payload" /\ Caught(413)
     \/ Layer = "server_error" /\ Caught(500)

(* An exception leaves a layer; RequestContextMiddleware clears its        *)
(* context in a finally.                                                   *)
Unwind ==
  /\ phase = "raise"
  /\ ~(Layer = "exceptions" /\ exc \in DOMAIN StatusOf)
  /\ ~(Layer = "body_limit" /\ exc = "payload") /\ Layer # "server_error"
  /\ \E outer \in DOMAIN Layers : Adjacent(outer, at) /\ at' = outer
  /\ context' = IF Layer = "context" THEN "unbound" ELSE context
  /\ UNCHANGED <<here, req, phase, dep, answer, exc, guard, client, counted, handled, starts>>

(* Mutant of RequestTimeout: a response that has started is answered again. *)
RequestTimeoutAgain ==
  /\ guard.timeout /\ phase \notin {"idle", "done"} /\ answer.status # 504
  /\ phase' = "out" /\ at' = IndexOf("timeout")
  /\ answer' = [status |-> 504, headers |-> {}, by |-> "timeout"]
  /\ UNCHANGED <<here, req, dep, exc, guard, client, context, counted, handled, starts>>

(* asyncio.timeout expires while nothing has been sent: 504. *)
RequestTimeout ==
  /\ guard.timeout /\ phase \notin {"idle", "streaming", "done"} /\ at > IndexOf("timeout")
  /\ phase' = "out" /\ at' = IndexOf("timeout")
  /\ answer' = [status |-> 504, headers |-> {}, by |-> "timeout"]
  /\ UNCHANGED <<here, req, dep, exc, guard, client, context, counted, handled, starts>>

(* It expires while the body is sent: the error goes through, also through *)
(* the last handler, which does not answer what has been answered.         *)
CutOff ==
  /\ phase = "streaming" /\ guard.timeout /\ IndexOf(answer.by) > IndexOf("timeout")
  /\ phase' = "done" /\ exc' = "cut" /\ context' = "unbound"
  /\ UNCHANGED <<here, req, at, dep, answer, guard, client, counted, handled, starts>>

(* The next request of the process. *)
Again ==
  /\ phase = "done" /\ phase' = "idle"
  /\ req' = NoRequest /\ at' = 0 /\ dep' = 0 /\ answer' = NoAnswer /\ exc' = "none" /\ guard' = NoGuard
  /\ client' = "none" /\ counted' = "none" /\ handled' = FALSE /\ starts' = 0
  /\ UNCHANGED <<here, context>>

Serve ==
  \/ Arrive \/ PassIn \/ ProxyHeaders \/ BindContext \/ StartTimeout \/ LimitBody \/ RefuseLength
  \/ TrustedHost \/ CORS \/ GracefulShutdown \/ FindRoute \/ ReadBody \/ RateLimiter \/ GetCurrentUser
  \/ GetBearerToken \/ RequirePermissions \/ Validate \/ Missing \/ NotTheOwner \/ Taken \/ Unproven \/ TooLong \/ Fail
  \/ Perform \/ RefuseLate \/ Respond \/ PassOut \/ SendStart \/ Finish
  \/ HandleException \/ Unwind \/ RequestTimeout \/ CutOff \/ Again

Next == Load \/ CreateApp \/ Serve

Spec == Init /\ [][Next]_vars

-----------------------------------------------------------------------------
(* Whom the credential proves that the route looks at. *)
Decisive ==
  IF TheRoute.owner = "" /\ req.key # "none" THEN IF app.keys THEN {req.key} \cap Services ELSE {}
  ELSE {req.bearer} \cap Users

(* Who may do what: alice owns what the owner routes are about. *)
MayDo ==
  [ patch_user |-> {"alice", "root"}, erase_user |-> {"alice", "root"},
    patch_user_tier |-> {"root", "ops", "tiers", "star"},
    internal |-> {"root", "ops", "star"}, docs |-> {"root", "ops", "star"} ]
Open(route) == route = "docs" /\ app.environment = "local"

(* api/dependencies.py, core/authorization.py, domain/user_service.py:     *)
(* what a protected route is for happens only for a caller who may, all    *)
(* his roles, permissions and scopes taken together, and a caller who may  *)
(* is never told 403; a credential that is not the one the dependency      *)
(* looks at counts for nothing.                                            *)
EffectsAuthorized ==
  phase # "idle" /\ req.route \in DOMAIN MayDo \cap DOMAIN app.routes /\ ~Open(req.route) =>
    /\ handled => Decisive \cap MayDo[req.route] # {}
    /\ exc = "403" => Decisive # {} /\ Decisive \cap MayDo[req.route] = {}

(* The two refusals that come after a commit: user_service.py:37 when the  *)
(* created row is gone before it is read back, auth_service.py:104 when    *)
(* the second of the two tokens does not decode.                           *)
CommittedRefusal ==
  \/ req.route = "write_user" /\ answer.status = 404
  \/ req.route = "logout" /\ answer.status = 401

(* api/errors.py and the middlewares: a caller who reads that the request  *)
(* was redirected, refused, limited or turned away can rely on nothing     *)
(* having been committed.  A 500 and a 504 leave that open, and so do the  *)
(* 404 of a creation and the 401 of a logout, which follow a commit.       *)
RefusedUntouched ==
  phase \in {"out", "streaming", "done"} /\ answer.status \notin {200, 500, 504} =>
    ~handled \/ CommittedRefusal

(* middleware/logger_middleware.py: every response carries the request's   *)
(* identifiers, also a timeout's or a refusal's, except the 500 of the     *)
(* last handler, and no request finds those of another one bound.          *)
Correlated ==
  /\ phase \in {"streaming", "done"} /\ answer.by # "server_error" => "ids" \in answer.headers
  /\ phase \in {"idle", "done"} => context = "unbound"

(* middleware/request_timeout_middleware.py, request_body_limit_           *)
(* middleware.py: the server never gets a second response for a request,   *)
(* though a timeout may expire while an answer is on its way.              *)
OneAnswer == starts <= 1

(* core/setup.py, core/config.py: outside local development nobody chooses *)
(* the address the limiter counts him under, and behind the proxies that   *)
(* are listed callers are not counted as one.                              *)
LimiterCountsCaller ==
  /\ phase # "idle" /\ app.environment # "local" => counted # "forged"
  /\ phase # "idle" /\ Has("proxy") => counted # "proxy"

(* Whatever the settings, once they are loaded: what the log handlers and  *)
(* Sentry get holds no value that was to be kept back, and the rest whole. *)
Redacted ==
  stage = "loaded" /\ phase = "idle" =>
    LET s == Settings IN LogsAreRedacted(s) /\ SentryIsScrubbed(s) /\ OutboundIsRedacted(s)

-----------------------------------------------------------------------------
(* The inductive invariant of the theorems in RequestPipeline_proofs.      *)
Principals == Users \cup Services
Answering == phase \in {"out", "streaming", "done"}

Statuses == {0, 200, 307, 400, 401, 403, 404, 409, 413, 422, 429, 500, 503, 504}
Answers == [status : Statuses, headers : SUBSET Headers, by : LayerNames \cup {"none"}]
Requests == [ through : {"none", "proxy", "forging"}, route : RouteNames \cup {"none"},
              key : {"none", "unknown"} \cup Services, bearer : {"none", "invalid"} \cup Users ]
Guards == [timeout : BOOLEAN, body_limit : BOOLEAN]
Exceptions == DOMAIN StatusOf \cup {"none", "payload", "error", "cut"}
Clients == {"none", "caller", "proxy", "forged"}

RequestTypeOK ==
  /\ stage \in {"start", "bootstrapped", "loaded", "refused", "serving"}
  /\ phase \in {"idle", "in", "body", "deps", "handle", "respond", "out", "raise", "streaming", "done"}
  /\ at \in 0..12 /\ dep \in Nat /\ starts \in Nat /\ handled \in BOOLEAN
  /\ answer \in Answers /\ req \in Requests /\ guard \in Guards /\ exc \in Exceptions
  /\ client \in Clients /\ counted \in Clients \cup {"user"} /\ context \in {"bound", "unbound"}

(* Both halves of load_settings have found nothing. *)
LoadedIsValid ==
  stage = "loaded" => ValidFields(Settings) /\ ValidProfile(Settings, Environment)

(* What an application is made of that serves, and where a request is.     *)
AppIsSound ==
  /\ stage = "serving" =>
       /\ {"server_error", "context", "shutdown", "exceptions", "router"} \subseteq app.layers
       /\ app.environment # "local" => app.believes # "any"
       /\ DOMAIN app.routes \subseteq RouteNames
       /\ \A r \in DOMAIN app.routes : app.routes[r] = Routes(app.environment)[r]
       /\ app.exempt \in Guards
  /\ phase # "idle" => stage = "serving" /\ at \in DOMAIN Layers

(* Nothing is sent before it is answered, nor again afterwards. *)
SentOnce == starts = IF phase \in {"streaming", "done"} THEN 1 ELSE 0

(* Once it is handled a request ends in its response, an error, a 504 or   *)
(* one of the late refusals.                                               *)
HandledIsFinal ==
  handled => \/ phase = "respond"
             \/ phase = "raise" /\ exc = "error"
             \/ phase = "raise" /\ req.route = "write_user" /\ exc = "404"
             \/ phase = "raise" /\ req.route = "logout" /\ exc = "401"
             \/ Answering /\ (answer.status \in {200, 500, 504} \/ CommittedRefusal)

(* Answers start inside the context, and have the identifiers outside it.  *)
IdsAreAdded ==
  /\ phase \in {"body", "deps", "handle", "respond"} => Layer = "router"
  /\ Answering => answer.by = "server_error" \/ IndexOf(answer.by) > IndexOf("context")
  /\ Answering /\ answer.by # "server_error" /\ at <= IndexOf("context") => "ids" \in answer.headers
  /\ phase \in {"streaming", "done"} => at = 1
  /\ phase \in {"idle", "done"} => context = "unbound"

(* Who is behind an address, and when the proxy's own is still there.      *)
ClientIsKnown ==
  /\ client = "proxy" => req.through = "proxy"
  /\ phase = "idle" => counted = "none" /\ client = "none"
  /\ phase # "idle" =>
       /\ app.environment # "local" => client # "forged" /\ counted # "forged"
       /\ Has("proxy") => counted # "proxy" /\ (client = "proxy" => phase = "in" /\ at <= IndexOf("proxy"))

(* The i-th dependency of the route is satisfied. *)
DependencyHolds(i) ==
  /\ TheRoute.deps[i].kind = "user" => req.bearer \in Users
  /\ TheRoute.deps[i].kind = "permissions" =>
       CurrentPrincipal # "none"
       /\ EnsurePermissions(BuildSubject(Principal(CurrentPrincipal)), TheRoute.deps[i].needs)
DependenciesHold == \A i \in DOMAIN TheRoute.deps : DependencyHolds(i)

(* A dependency that is about permissions has refused a principal. *)
DependencyRefuses ==
  \E i \in DOMAIN TheRoute.deps :
    /\ TheRoute.deps[i].kind = "permissions" /\ CurrentPrincipal # "none"
    /\ ~EnsurePermissions(BuildSubject(Principal(CurrentPrincipal)), TheRoute.deps[i].needs)

(* The handler runs behind all dependencies; a 403 is theirs or its own.   *)
RouteIsGuarded ==
  /\ phase \in {"idle", "in", "body", "deps", "handle", "respond"} => exc = "none"
  /\ phase \in {"body", "deps", "handle", "respond"} \/ handled \/ exc = "403" => req.route \in DOMAIN app.routes
  /\ (phase = "body" => dep = 1) /\ (phase = "deps" => dep >= 1)
  /\ phase = "deps" => \A i \in DOMAIN TheRoute.deps : i < dep => DependencyHolds(i)
  /\ phase \in {"handle", "respond"} \/ handled => DependenciesHold
  /\ handled => Permitted
  /\ exc = "403" => DependencyRefuses \/ (DependenciesHold /\ ~Permitted)

PipelineInv ==
  /\ RequestTypeOK /\ LoadedIsValid /\ AppIsSound /\ SentOnce /\ HandledIsFinal
  /\ IdsAreAdded /\ ClientIsKnown /\ RouteIsGuarded
=============================================================================

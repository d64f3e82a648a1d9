------------------------ MODULE RequestPipeline_proofs ------------------------
(***************************************************************************)
(* Theorems about the settings and about the request pipeline for every    *)
(* MaxGiven: what settings that are loaded promise, and, from the          *)
(* inductive invariant PipelineInv, that a request is answered once, with  *)
(* its identifiers, counted for its caller, and with no effect but what    *)
(* the caller may have and is told of.                                     *)
(***************************************************************************)
EXTENDS RequestPipeline, TLAPS

(*************************** layers and routes *****************************)

(* Twelve layers, each with a place of its own. *)
LEMMA LayerNumbers ==
  /\ DOMAIN Layers = 1..12
  /\ \A i \in 1..12 :
       /\ Layers[i] = "server_error" <=> i = 1
       /\ Layers[i] = "proxy" <=> i = 2
       /\ Layers[i] = "context" <=> i = 3
       /\ Layers[i] = "timeout" <=> i = 4
       /\ Layers[i] = "body_limit" <=> i = 5
       /\ Layers[i] = "trusted_host" <=> i = 6
       /\ Layers[i] = "security_headers" <=> i = 7
       /\ Layers[i] = "cors" <=> i = 8
       /\ Layers[i] = "shutdown" <=> i = 9
       /\ Layers[i] = "client_cache" <=> i = 10
       /\ Layers[i] = "exceptions" <=> i = 11
       /\ Layers[i] = "router" <=> i = 12
BY DEF Layers

(* A layer is found by its name. *)
LEMMA IndexOfLayer ==
  ASSUME NEW i \in 1..12
  PROVE  IndexOf(Layers[i]) = i
<1>1. \A j \in 1..12 : Layers[j] = Layers[i] => j = i
  BY DEF Layers
<1>2. IndexOf(Layers[i]) \in DOMAIN Layers /\ Layers[IndexOf(Layers[i])] = Layers[i]
  BY LayerNumbers DEF IndexOf
<1>3. QED
  BY <1>1, <1>2, LayerNumbers

(* The places that the code's order of add_middleware gives. *)
LEMMA LayerIndices ==
  IndexOf("proxy") = 2 /\ IndexOf("context") = 3 /\ IndexOf("timeout") = 4
BY IndexOfLayer, LayerNumbers

(* The routes, one by one. *)
LEMMA RouteByName ==
  ASSUME NEW e
  PROVE  /\ Routes(e)["write_user"].deps = <<RateLimit>>
         /\ Routes(e)["patch_user"].deps = <<RateLimit, CurrentUser>>
         /\ Routes(e)["patch_user"].owner = "users:manage"
         /\ Routes(e)["erase_user"].deps = <<RateLimit, CurrentUser>>
         /\ Routes(e)["erase_user"].owner = "users:self:delete:override"
         /\ Routes(e)["patch_user_tier"].deps = <<RateLimit, Needs({"users:manage", "tiers:manage"})>>
         /\ Routes(e)["patch_user_tier"].owner = ""
         /\ Routes(e)["health"].deps = <<>>
         /\ Routes(e)["internal"].deps = <<Needs({"internal:access"})>>
         /\ Routes(e)["internal"].owner = ""
         /\ Routes(e)["login"].deps = <<FormRateLimit>>
         /\ Routes(e)["logout"].deps = <<LogoutRateLimit, BearerToken>>
         /\ Routes(e)["webhooks"].deps = <<WebhookRateLimit>>
         /\ Routes(e)["docs"].deps = (IF e = "local" THEN <<>> ELSE <<Needs({"admin:access"})>>)
         /\ Routes(e)["docs"].owner = ""
         /\ Routes(e)["metrics"].deps = <<>>
BY DEF Routes, Route

(* Nothing else is a route. *)
LEMMA RouteNameCases ==
  RouteNames = {"write_user", "patch_user", "erase_user", "patch_user_tier", "health", "internal",
                "login", "logout", "webhooks", "docs", "metrics"}
BY DEF RouteNames, Routes

(* Every route asks at most two dependencies. *)
LEMMA RouteType ==
  ASSUME NEW e, NEW r \in RouteNames
  PROVE  DOMAIN Routes(e)[r].deps \in {1..0, 1..1, 1..2}
<1>0. \/ r \in {"health", "metrics"} \/ r \in {"write_user", "login", "webhooks", "internal"}
      \/ r \in {"patch_user", "erase_user", "patch_user_tier", "logout"} \/ r = "docs"
  BY RouteNameCases
<1>1. CASE r \in {"health", "metrics"} \/ (r = "docs" /\ e = "local")
  <2>1. Routes(e)[r].deps = <<>>
    BY <1>1, RouteByName
  <2>2. QED
    BY <2>1
<1>2. CASE r \in {"write_user", "login", "webhooks", "internal"} \/ (r = "docs" /\ e # "local")
  <2>1. CASE r = "docs" /\ e # "local"
    <3>1. Routes(e)["docs"].deps = <<Needs({"admin:access"})>>
      BY <2>1, RouteByName
    <3>2. QED
      BY <2>1, <3>1
  <2>2. CASE r = "write_user"
    <3>1. Routes(e)[r].deps = <<RateLimit>>
      BY <2>2, RouteByName
    <3>2. QED
      BY <3>1
  <2>3. CASE r = "login"
    <3>1. Routes(e)[r].deps = <<FormRateLimit>>
      BY <2>3, RouteByName
    <3>2. QED
      BY <3>1
  <2>4. CASE r = "webhooks"
    <3>1. Routes(e)[r].deps = <<WebhookRateLimit>>
      BY <2>4, RouteByName
    <3>2. QED
      BY <3>1
  <2>5. CASE r = "internal"
    <3>1. Routes(e)[r].deps = <<Needs({"internal:access"})>>
      BY <2>5, RouteByName
    <3>2. QED
      BY <3>1
  <2>6. QED
    BY <1>2, <2>1, <2>2, <2>3, <2>4, <2>5
<1>3. CASE r \in {"patch_user", "erase_user", "patch_user_tier", "logout"}
  <2>1. PICK d1, d2 : Routes(e)[r].deps = <<d1, d2>>
    BY <1>3, RouteByName
  <2>2. QED
    BY <2>1
<1>4. QED
  BY <1>0, <1>1, <1>2, <1>3

(* Reading the settings again gives the same ones. *)
LEMMA SettingsStay ==
  ASSUME given' = given
  PROVE  /\ Settings' = Settings /\ Environment' = Environment
         /\ ValidFields(Settings)' = ValidFields(Settings)
         /\ ValidProfile(Settings, Environment)' = ValidProfile(Settings, Environment)
<1>1. Environment' = Environment /\ Settings' = Settings
  BY DEF Environment, Bootstrap, Settings, Read
<1>2. ValidProfile(Settings, Environment)' = ValidProfile(Settings, Environment)
  BY <1>1 DEF ValidProfile
<1>3. ValidFields(Settings)' = ValidFields(Settings)
  BY <1>1 DEF ValidFields
<1>4. QED
  BY <1>1, <1>2, <1>3

(*************************** the inductive invariant ***********************)

(* Nothing is loaded and nothing asked yet. *)
LEMMA InitPipelineInv == Init => PipelineInv
<1> SUFFICES ASSUME Init PROVE PipelineInv
  OBVIOUS
<1>1. /\ stage = "start" /\ phase = "idle" /\ at = 0 /\ dep = 0 /\ exc = "none" /\ starts = 0
      /\ handled = FALSE /\ client = "none" /\ counted = "none" /\ context = "unbound"
  BY DEF Init, InitConfiguration
<1>2. /\ answer = NoAnswer /\ guard = NoGuard /\ req = NoRequest
  BY DEF Init
<1>3. RequestTypeOK
  <2>1. answer \in Answers /\ req \in Requests /\ guard \in Guards
    BY <1>2 DEF NoAnswer, NoRequest, NoGuard, Answers, Statuses, Requests, Guards
  <2>2. exc \in Exceptions /\ client \in Clients /\ counted \in Clients \cup {"user"}
    BY <1>1 DEF Exceptions, Clients
  <2>3. at \in 0..12 /\ dep \in Nat /\ starts \in Nat
    BY <1>1
  <2>4. handled \in BOOLEAN
    BY <1>1
  <2>5. QED
    BY <1>1, <2>1, <2>2, <2>3, <2>4 DEF RequestTypeOK
<1>4. LoadedIsValid /\ AppIsSound /\ SentOnce /\ HandledIsFinal
  BY <1>1 DEF LoadedIsValid, AppIsSound, SentOnce, HandledIsFinal
<1>5. IdsAreAdded /\ ClientIsKnown /\ RouteIsGuarded
  BY <1>1 DEF IdsAreAdded, ClientIsKnown, RouteIsGuarded, Answering
<1>6. QED
  BY <1>3, <1>4, <1>5 DEF PipelineInv

(* While it serves, neither the settings nor the application change. *)
LEMMA ServeKeepsApp == Serve => UNCHANGED <<given, stage, app>>
<1>1. Arrive \/ RequestTimeout \/ CutOff \/ Again \/ PassOut \/ SendStart \/ Finish \/ Unwind \/ FindRoute
        => UNCHANGED <<given, stage, app>>
  BY DEF Arrive, RequestTimeout, CutOff, Again, PassOut, SendStart, Finish, Unwind, FindRoute, here
<1>2. PassIn \/ ProxyHeaders \/ BindContext \/ StartTimeout \/ LimitBody \/ RefuseLength \/ TrustedHost
        \/ CORS \/ GracefulShutdown \/ Respond \/ HandleException => UNCHANGED <<given, stage, app>>
  BY DEF PassIn, ProxyHeaders, BindContext, StartTimeout, LimitBody, RefuseLength, TrustedHost, CORS,
         GracefulShutdown, Respond, HandleException, Caught, Enter, Answered, here
<1>3. ReadBody \/ RateLimiter \/ GetCurrentUser \/ GetBearerToken \/ RequirePermissions \/ Validate \/ Missing
        \/ NotTheOwner \/ Taken \/ Unproven \/ TooLong \/ Fail \/ Perform \/ RefuseLate => UNCHANGED <<given, stage, app>>
  BY DEF ReadBody, RateLimiter, GetCurrentUser, GetBearerToken, RequirePermissions, Validate, Missing, NotTheOwner, Taken,
         Unproven, TooLong, Fail, Perform, RefuseLate, Raise, Go, Satisfied, here
<1>4. QED
  BY <1>1, <1>2, <1>3 DEF Serve

(* Only load_settings makes settings loaded, and both halves look first. *)
LEMMA NextLoadedIsValid == LoadedIsValid /\ [Next]_vars => LoadedIsValid'
<1> SUFFICES ASSUME LoadedIsValid, [Next]_vars PROVE LoadedIsValid'
  OBVIOUS
<1>1. CASE Load
  <2>1. given' = given
    BY <1>1 DEF Load
  <2>2. stage' = "loaded" => ValidFields(Settings) /\ ValidProfile(Settings, Environment)
    BY <1>1 DEF Load, BootstrapSettings, LoadSettings
  <2>3. QED
    BY <2>1, <2>2, SettingsStay DEF LoadedIsValid
<1>2. CASE CreateApp
  BY <1>2 DEF CreateApp, LoadedIsValid
<1>3. CASE Serve \/ UNCHANGED vars
  <2>1. UNCHANGED <<given, stage>>
    BY <1>3, ServeKeepsApp DEF vars
  <2>2. QED
    BY <2>1, SettingsStay DEF LoadedIsValid
<1>4. QED
  BY <1>1, <1>2, <1>3 DEF Next

(*************************** the shapes of steps ***************************)

(* On the way in a layer lets the request pass, or answers it itself.      *)
InwardStep ==
  \/ PassIn \/ ProxyHeaders \/ BindContext \/ StartTimeout \/ LimitBody \/ RefuseLength
  \/ TrustedHost \/ CORS \/ GracefulShutdown
Entering == phase = "in" /\ Enter
Refusing ==
  phase = "in" /\ at > 4 /\ (\E status \in {200, 307, 400, 413, 503} : Answered(status, {})) /\ UNCHANGED at

(* Every step inwards is one of the two. *)
LEMMA InwardShape ==
  ASSUME AppIsSound, InwardStep
  PROVE  Entering \/ Refusing
<1>1. phase = "in" => at \in 1..12
  BY LayerNumbers DEF AppIsSound
<1>2. CASE PassIn \/ ProxyHeaders \/ BindContext \/ StartTimeout \/ LimitBody
  BY <1>2 DEF PassIn, ProxyHeaders, BindContext, StartTimeout, LimitBody, Entering
<1>3. CASE RefuseLength
  BY <1>1, <1>3, LayerNumbers DEF RefuseLength, Refusing, Layer
<1>4. CASE TrustedHost
  BY <1>1, <1>4, LayerNumbers DEF TrustedHost, Refusing, Entering, Layer
<1>5. CASE CORS
  BY <1>1, <1>5, LayerNumbers DEF CORS, Refusing, Entering, Layer
<1>6. CASE GracefulShutdown
  BY <1>1, <1>6, LayerNumbers DEF GracefulShutdown, Refusing, Entering, Layer
<1>7. QED
  BY <1>2, <1>3, <1>4, <1>5, <1>6 DEF InwardStep

(* FastAPI and the handler move on, or raise, and answer nothing.          *)
RouteStep ==
  \/ ReadBody \/ RateLimiter \/ GetCurrentUser \/ GetBearerToken \/ RequirePermissions \/ Validate \/ Missing \/ NotTheOwner
  \/ Taken \/ Unproven \/ TooLong \/ Fail \/ Perform \/ RefuseLate

(* What those steps change, and where they may lead. *)
LEMMA RouteShape ==
  ASSUME RouteStep
  PROVE  /\ phase \in {"body", "deps", "handle", "respond"}
         /\ UNCHANGED <<here, req, at, answer, guard, client, context, starts>>
         /\ \/ phase' = "raise" /\ exc' \in Exceptions \ {"none", "cut"} /\ UNCHANGED <<dep, handled>>
            \/ phase' = "deps" /\ exc' = exc /\ dep' \in {dep, dep + 1} /\ UNCHANGED handled
            \/ phase' = "handle" /\ exc' = exc /\ UNCHANGED <<dep, handled>>
            \/ phase' = "respond" /\ exc' = exc /\ UNCHANGED dep
<1>1. DOMAIN StatusOf = {"400", "401", "403", "404", "409", "422", "429"}
  BY DEF StatusOf
<1>2. CASE ReadBody \/ Validate
  BY <1>1, <1>2 DEF ReadBody, Validate, Raise, Go, Exceptions
<1>3. CASE RateLimiter
  BY <1>1, <1>3 DEF RateLimiter, Dependent, Satisfied, Raise, Go, Exceptions
<1>4. CASE GetCurrentUser \/ GetBearerToken \/ RequirePermissions
  BY <1>1, <1>4 DEF GetCurrentUser, GetBearerToken, RequirePermissions, Dependent, Satisfied, Raise, Go, Exceptions
<1>5. CASE Missing \/ NotTheOwner \/ Taken \/ Unproven \/ TooLong \/ Fail \/ RefuseLate
  BY <1>1, <1>5 DEF Missing, NotTheOwner, Taken, Unproven, TooLong, Fail, RefuseLate, Raise, Go, Exceptions
<1>6. CASE Perform
  BY <1>6 DEF Perform, Go
<1>7. QED
  BY <1>2, <1>3, <1>4, <1>5, <1>6 DEF RouteStep

(* The other ways an answer comes about.                                   *)
OutwardStep == Respond \/ PassOut \/ SendStart \/ Finish \/ HandleException \/ Unwind \/ RequestTimeout \/ CutOff

(* The kinds of steps there are. *)
LEMMA NextCases ==
  ASSUME [Next]_vars
  PROVE  \/ Load \/ CreateApp \/ Arrive \/ InwardStep \/ FindRoute \/ RouteStep \/ OutwardStep \/ Again
         \/ UNCHANGED vars
BY DEF Next, Serve, InwardStep, RouteStep, OutwardStep

(*************************** typing ****************************************)

(* A new answer is an answer. *)
LEMMA AnsweredType ==
  ASSUME NEW status \in Statuses, Answered(status, {}), at \in DOMAIN Layers
  PROVE  answer' \in Answers
BY DEF Answered, Answers, Layer, LayerNames

(* Every step keeps the types. *)
LEMMA NextRequestTypeOK ==
  ASSUME RequestTypeOK, AppIsSound, [Next]_vars
  PROVE  RequestTypeOK'
<1>0. /\ phase # "idle" => at \in DOMAIN Layers
      /\ phase # "idle" => stage = "serving"
      /\ DOMAIN Layers = 1..12 /\ 1..12 \subseteq 0..12
  BY LayerNumbers DEF AppIsSound
<1>1. CASE Load
  <2>1. stage' \in {"bootstrapped", "loaded", "refused"}
    BY <1>1 DEF Load, BootstrapSettings, LoadSettings
  <2>2. UNCHANGED <<phase, at, dep, starts, handled, answer, req, guard, exc, client, counted, context>>
    BY <1>1 DEF Load, travel
  <2>3. QED
    BY <2>1, <2>2 DEF RequestTypeOK
<1>2. CASE CreateApp
  BY <1>2 DEF CreateApp, travel, RequestTypeOK
<1>3. CASE Arrive
  <2>1. req' \in Requests /\ client' \in Clients /\ phase' = "in" /\ at' = 1
    BY <1>3 DEF Arrive, NoRequest, Requests, Clients
  <2>2. UNCHANGED <<stage, dep, starts, handled, answer, guard, exc, counted, context>>
    BY <1>3 DEF Arrive
  <2>3. QED
    BY <2>1, <2>2 DEF RequestTypeOK
<1>4. CASE InwardStep
  <2>1. UNCHANGED <<stage, req, dep, exc, counted, handled, starts>> /\ phase' \in {"in", "out"}
    BY <1>4, InwardShape DEF Entering, Refusing, Enter, Answered, here
  <2>2. at' \in 0..12 /\ answer' \in Answers
    <3>1. CASE Entering
      BY <3>1, <1>0 DEF Entering, Enter, RequestTypeOK
    <3>2. CASE Refusing
      <4>1. PICK status \in {200, 307, 400, 413, 503} : Answered(status, {})
        BY <3>2 DEF Refusing
      <4>2. status \in Statuses /\ at \in DOMAIN Layers
        BY <4>1, <3>2, <1>0 DEF Statuses, Refusing
      <4>3. QED
        BY <4>1, <4>2, <3>2, AnsweredType DEF Refusing, RequestTypeOK
    <3>3. QED
      BY <1>4, <3>1, <3>2, InwardShape
  <2>3. client' \in Clients
    BY <1>4 DEF InwardStep, PassIn, ProxyHeaders, ForwardedClient, BindContext, StartTimeout, LimitBody, RefuseLength,
      TrustedHost, CORS, GracefulShutdown, Answered, RequestTypeOK, Clients
  <2>4. context' \in {"bound", "unbound"}
    BY <1>4 DEF InwardStep, PassIn, ProxyHeaders, BindContext, StartTimeout, LimitBody, RefuseLength,
      TrustedHost, CORS, GracefulShutdown, Answered, RequestTypeOK
  <2>5. guard' \in Guards
    <3>1. CASE StartTimeout \/ LimitBody
      BY <3>1 DEF StartTimeout, LimitBody, Guards, RequestTypeOK
    <3>2. CASE UNCHANGED guard
      BY <3>2 DEF RequestTypeOK
    <3>3. QED
      BY <1>4, <3>1, <3>2 DEF InwardStep, PassIn, ProxyHeaders, BindContext, RefuseLength, TrustedHost, CORS,
        GracefulShutdown, Answered
  <2>6. QED
    BY <2>1, <2>2, <2>3, <2>4, <2>5 DEF RequestTypeOK
<1>5. CASE FindRoute
  <2>1. req' \in Requests
    <3>1. PICK route \in RouteNames, c \in Credentials :
            req' = [req EXCEPT !.route = route, !.key = c.key, !.bearer = c.bearer]
      BY <1>5 DEF FindRoute
    <3>2. c.key \in {"none", "unknown"} \cup Services /\ c.bearer \in {"none", "invalid"} \cup Users
      BY <3>1 DEF Credentials, Services, Users
    <3>3. QED
      BY <3>1, <3>2 DEF Requests, RequestTypeOK
  <2>2. phase' \in {"raise", "body", "deps"} /\ dep' \in {dep, 1} /\ exc' \in {exc, "404"}
    BY <1>5 DEF FindRoute
  <2>3. "404" \in Exceptions
    BY DEF Exceptions, StatusOf
  <2>4. UNCHANGED <<stage, at, answer, guard, client, context, counted, handled, starts>>
    BY <1>5 DEF FindRoute, here
  <2>5. QED
    BY <2>1, <2>2, <2>3, <2>4 DEF RequestTypeOK
<1>6. CASE RouteStep
  <2>1. UNCHANGED <<stage, req, at, answer, guard, client, context, starts>>
    BY <1>6, RouteShape DEF here
  <2>2. phase' \in {"raise", "deps", "handle", "respond"} /\ exc' \in Exceptions /\ dep' \in Nat
    BY <1>6, RouteShape DEF RequestTypeOK
  <2>3. counted' \in Clients \cup {"user"}
    <3>1. CASE UNCHANGED counted
      BY <3>1 DEF RequestTypeOK
    <3>2. CASE RateLimiter
      BY <3>2 DEF RateLimiter, Raise, Subject, RequestTypeOK
    <3>3. QED
      BY <1>6, <3>1, <3>2 DEF RouteStep, ReadBody, GetCurrentUser, GetBearerToken, RequirePermissions, Validate, Missing, NotTheOwner,
        Taken, Unproven, TooLong, Fail, Perform, RefuseLate, Raise
  <2>4. handled' \in BOOLEAN
    <3>1. handled' = handled \/ handled' = TRUE
      BY <1>6, RouteShape DEF RouteStep, ReadBody, RateLimiter, GetCurrentUser, GetBearerToken, RequirePermissions, Validate, Missing,
        NotTheOwner, Taken, Unproven, TooLong, Fail, Perform, RefuseLate, Raise, Satisfied
    <3>2. QED
      BY <3>1 DEF RequestTypeOK
  <2>5. QED
    BY <2>1, <2>2, <2>3, <2>4 DEF RequestTypeOK
<1>7. CASE OutwardStep
  <2>1. UNCHANGED <<stage, req, dep, guard, client, counted, handled>>
    BY <1>7 DEF OutwardStep, Respond, PassOut, SendStart, Finish, HandleException, Caught, Answered, Unwind,
      RequestTimeout, CutOff, here
  <2>2. /\ phase' \in {phase, "out", "streaming", "done"} /\ starts' \in {starts, starts + 1}
        /\ context' \in {context, "unbound"} /\ exc' \in {exc, "cut"}
    BY <1>7 DEF OutwardStep, Respond, PassOut, SendStart, Finish, HandleException, Caught, Answered, Unwind,
      RequestTimeout, CutOff, here
  <2>3. at' \in 0..12
    BY <1>7, <1>0, LayerIndices DEF OutwardStep, Respond, PassOut, SendStart, Finish, HandleException, Caught, Unwind,
      RequestTimeout, CutOff, RequestTypeOK
  <2>4. answer' \in Answers
    <3>1. CASE Respond
      BY <3>1, <1>0, AnsweredType DEF Respond, Statuses
    <3>2. CASE HandleException
      <4>1. PICK status \in Statuses : Answered(status, {})
        BY <3>2 DEF HandleException, Caught, Statuses, StatusOf
      <4>2. QED
        BY <4>1, <3>2, <1>0, AnsweredType DEF HandleException
    <3>3. CASE RequestTimeout
      BY <3>3, LayerNumbers DEF RequestTimeout, Answers, Statuses, LayerNames
    <3>4. CASE PassOut
      BY <3>4 DEF PassOut, Adds, Answers, RequestTypeOK
    <3>5. CASE UNCHANGED answer
      BY <3>5 DEF RequestTypeOK
    <3>6. QED
      BY <1>7, <3>1, <3>2, <3>3, <3>4, <3>5 DEF OutwardStep, SendStart, Finish, Unwind, CutOff
  <2>5. "cut" \in Exceptions
    BY DEF Exceptions
  <2>6. QED
    BY <2>1, <2>2, <2>3, <2>4, <2>5 DEF RequestTypeOK
<1>8. CASE Again
  <2>1. /\ answer' = NoAnswer /\ req' = NoRequest /\ guard' = NoGuard /\ phase' = "idle" /\ at' = 0 /\ dep' = 0
        /\ exc' = "none" /\ client' = "none" /\ counted' = "none" /\ starts' = 0
        /\ UNCHANGED <<stage, context>>
    BY <1>8 DEF Again, here
  <2>2. answer' \in Answers /\ req' \in Requests /\ guard' \in Guards
    BY <2>1 DEF NoAnswer, NoRequest, NoGuard, Answers, Statuses, Requests, Guards
  <2>3. exc' \in Exceptions /\ client' \in Clients /\ counted' \in Clients \cup {"user"}
    BY <2>1 DEF Exceptions, Clients
  <2>4. handled' \in BOOLEAN
    BY <1>8 DEF Again
  <2>5. QED
    BY <2>1, <2>2, <2>3, <2>4 DEF RequestTypeOK
<1>9. CASE UNCHANGED vars
  BY <1>9 DEF vars, travel, RequestTypeOK
<1>10. QED
  BY <1>1, <1>2, <1>3, <1>4, <1>5, <1>6, <1>7, <1>8, <1>9, NextCases

(*************************** the application *******************************)

(* Settings that the profile of their environment lets through make an     *)
(* application with the layers that are always there, that believes no     *)
(* forwarding header of just anybody outside local development.            *)
LEMMA CreateApplicationIsSound ==
  ASSUME NEW s, s.ENVIRONMENT # "local" => SecureEnvironment(s)
  PROVE  LET a == CreateApplication(s)
         IN /\ {"server_error", "context", "shutdown", "exceptions", "router"} \subseteq a.layers
            /\ a.environment # "local" => a.believes # "any"
            /\ DOMAIN a.routes \subseteq RouteNames
            /\ \A r \in DOMAIN a.routes : a.routes[r] = Routes(a.environment)[r]
            /\ a.exempt \in Guards
<1> DEFINE a == CreateApplication(s)
<1>1. {"server_error", "context", "shutdown", "exceptions", "router"} \subseteq a.layers
  <2>1. {"server_error", "context", "shutdown", "exceptions", "router"} \subseteq LayerNames
    BY LayerNumbers DEF LayerNames
  <2>2. DOMAIN Installed(s) =
          {"proxy", "timeout", "body_limit", "trusted_host", "security_headers", "cors", "client_cache"}
    BY DEF Installed
  <2>3. a.layers = {l \in LayerNames : l \in DOMAIN Installed(s) => Installed(s)[l]}
    BY DEF CreateApplication
  <2>4. QED
    BY <2>1, <2>2, <2>3
<1>2. a.environment # "local" => a.believes # "any"
  BY DEF CreateApplication, SecureEnvironment
<1>3. /\ DOMAIN a.routes \subseteq RouteNames
      /\ \A r \in DOMAIN a.routes : a.routes[r] = Routes(a.environment)[r]
  <2>1. a.routes = [r \in RouteNames \ LeftOut(s) |-> Routes(s.ENVIRONMENT)[r]] /\ a.environment = s.ENVIRONMENT
    BY DEF CreateApplication
  <2>2. QED
    BY <2>1
<1>4. a.exempt \in Guards
  BY DEF CreateApplication, Guards
<1>5. QED
  BY <1>1, <1>2, <1>3, <1>4

(* The application that is made stays, and a request stays inside it.      *)
LEMMA NextAppIsSound ==
  ASSUME RequestTypeOK, LoadedIsValid, AppIsSound, [Next]_vars
  PROVE  AppIsSound'
<1>0. DOMAIN Layers = 1..12
  BY LayerNumbers
<1>1. CASE Load
  <2>1. phase = "idle" /\ UNCHANGED <<phase, at, app>>
    BY <1>1 DEF Load, BootstrapSettings, LoadSettings, AppIsSound, travel
  <2>2. stage' # "serving"
    BY <1>1 DEF Load, BootstrapSettings, LoadSettings
  <2>3. QED
    BY <2>1, <2>2 DEF AppIsSound
<1>2. CASE CreateApp
  <2>1. phase = "idle" /\ phase' = "idle" /\ stage' = "serving" /\ app' = CreateApplication(Settings)
    BY <1>2 DEF CreateApp, AppIsSound
  <2>2. Settings.ENVIRONMENT # "local" => SecureEnvironment(Settings)
    BY <1>2 DEF CreateApp, LoadedIsValid, ValidProfile
  <2>3. QED
    BY <2>1, <2>2, CreateApplicationIsSound DEF AppIsSound
<1>3. CASE Arrive
  <2>1. stage = "serving" /\ UNCHANGED <<stage, app>> /\ at' = 1
    BY <1>3 DEF Arrive
  <2>2. QED
    BY <2>1, <1>0 DEF AppIsSound
<1>4. CASE InwardStep \/ FindRoute \/ RouteStep \/ OutwardStep
  <2>1. UNCHANGED <<stage, app>>
    BY <1>4, ServeKeepsApp DEF Serve, InwardStep, RouteStep, OutwardStep
  <2>2. phase # "idle"
    <3>1. RouteStep \/ InwardStep => phase # "idle"
      BY InwardShape, RouteShape DEF Entering, Refusing
    <3>2. FindRoute \/ OutwardStep => phase # "idle"
      BY DEF FindRoute, OutwardStep, Respond, PassOut, SendStart, Finish, HandleException, Unwind, RequestTimeout, CutOff
    <3>3. QED
      BY <1>4, <3>1, <3>2
  <2>3. at' \in DOMAIN Layers
    <3>1. InwardStep => at' \in DOMAIN Layers \cup {at}
      BY InwardShape DEF Entering, Refusing, Enter
    <3>2. RouteStep \/ FindRoute => at' = at
      BY RouteShape DEF FindRoute
    <3>3. OutwardStep => at' \in DOMAIN Layers \cup {at}
      BY LayerIndices, <1>0 DEF OutwardStep, Respond, PassOut, SendStart, Finish, HandleException, Caught, Unwind,
        RequestTimeout, CutOff
    <3>4. QED
      BY <1>4, <2>2, <3>1, <3>2, <3>3 DEF AppIsSound
  <2>4. QED
    BY <2>1, <2>2, <2>3 DEF AppIsSound
<1>5. CASE Again
  BY <1>5 DEF Again, here, AppIsSound
<1>6. CASE UNCHANGED vars
  BY <1>6 DEF vars, travel, AppIsSound
<1>7. QED
  BY <1>1, <1>2, <1>3, <1>4, <1>5, <1>6, NextCases

(*************************** answers ***************************************)

(* A response starts once, when an answer has reached the server. *)
LEMMA NextSentOnce ==
  ASSUME RequestTypeOK, AppIsSound, SentOnce, [Next]_vars
  PROVE  SentOnce'
<1>1. CASE Load \/ CreateApp
  BY <1>1 DEF Load, CreateApp, travel, SentOnce
<1>2. CASE Arrive \/ FindRoute
  BY <1>2 DEF Arrive, FindRoute, SentOnce
<1>3. CASE InwardStep
  BY <1>3, InwardShape DEF Entering, Refusing, Enter, Answered, SentOnce
<1>4. CASE RouteStep
  BY <1>4, RouteShape DEF SentOnce
<1>5. CASE OutwardStep
  <2>1. CASE Respond \/ HandleException
    BY <2>1 DEF Respond, HandleException, Caught, Answered, SentOnce
  <2>2. CASE PassOut \/ Unwind \/ RequestTimeout
    BY <2>2 DEF PassOut, Unwind, RequestTimeout, SentOnce
  <2>3. CASE SendStart \/ Finish \/ CutOff
    BY <2>3 DEF SendStart, Finish, CutOff, SentOnce
  <2>4. QED
    BY <1>5, <2>1, <2>2, <2>3 DEF OutwardStep
<1>6. CASE Again
  BY <1>6 DEF Again, SentOnce
<1>7. CASE UNCHANGED vars
  BY <1>7 DEF vars, travel, SentOnce
<1>8. QED
  BY <1>1, <1>2, <1>3, <1>4, <1>5, <1>6, <1>7, NextCases

(* After the commit only an unexpected error, the timeout or a late        *)
(* refusal is left.                                                        *)
LEMMA NextHandledIsFinal ==
  ASSUME RequestTypeOK, AppIsSound, HandledIsFinal, [Next]_vars
  PROVE  HandledIsFinal'
<1>1. CASE Load \/ CreateApp
  <2>1. UNCHANGED <<phase, handled, exc, req, answer>>
    BY <1>1 DEF Load, CreateApp, travel
  <2>2. QED
    BY <2>1 DEF HandledIsFinal, Answering, CommittedRefusal
<1>2. CASE Arrive \/ FindRoute
  BY <1>2 DEF Arrive, FindRoute, HandledIsFinal, Answering, CommittedRefusal
<1>3. CASE InwardStep
  <2>1. phase = "in" /\ handled' = handled
    BY <1>3, InwardShape DEF Entering, Refusing, Enter, Answered
  <2>2. ~handled
    BY <2>1 DEF HandledIsFinal, Answering, CommittedRefusal
  <2>3. QED
    BY <2>1, <2>2 DEF HandledIsFinal
<1>4. CASE RouteStep
  <2>1. CASE Fail
    BY <2>1 DEF Fail, Raise, Go, HandledIsFinal, Answering, CommittedRefusal
  <2>2. CASE Perform
    BY <2>2 DEF Perform, Go, HandledIsFinal, Answering, CommittedRefusal
  <2>3. CASE ReadBody \/ RateLimiter \/ GetCurrentUser \/ GetBearerToken \/ RequirePermissions \/ Validate
    BY <2>3, RouteShape DEF ReadBody, RateLimiter, GetCurrentUser, GetBearerToken, RequirePermissions, Validate, Dependent, Raise, Go,
      Satisfied, HandledIsFinal, Answering, CommittedRefusal
  <2>4. CASE Missing \/ NotTheOwner \/ Taken \/ Unproven \/ TooLong
    BY <2>4 DEF Missing, NotTheOwner, Taken, Unproven, TooLong, Raise, Go, HandledIsFinal, Answering, CommittedRefusal
  <2>5. CASE RefuseLate
    BY <2>5 DEF RefuseLate, Raise, Go, HandledIsFinal
  <2>6. QED
    BY <1>4, <2>1, <2>2, <2>3, <2>4, <2>5 DEF RouteStep
<1>5. CASE OutwardStep
  <2>1. CASE Respond
    BY <2>1 DEF Respond, Answered, HandledIsFinal, Answering, CommittedRefusal
  <2>2. CASE HandleException
    <3>1. "error" \notin DOMAIN StatusOf /\ StatusOf["404"] = 404 /\ StatusOf["401"] = 401
      BY DEF StatusOf
    <3>2. handled => \/ exc = "error"
                     \/ req.route = "write_user" /\ exc = "404"
                     \/ req.route = "logout" /\ exc = "401"
      BY <2>2 DEF HandleException, HandledIsFinal, Answering, CommittedRefusal
    <3>3. handled => \/ Caught(500)
                     \/ req.route = "write_user" /\ Caught(404)
                     \/ req.route = "logout" /\ Caught(401)
      BY <2>2, <3>1, <3>2 DEF HandleException
    <3>4. phase' = "out" /\ UNCHANGED <<handled, req>>
      BY <2>2 DEF HandleException, Caught, Answered
    <3>5. \A status : Caught(status) => answer'.status = status
      BY DEF Caught, Answered
    <3>6. QED
      BY <3>3, <3>4, <3>5 DEF HandledIsFinal, Answering, CommittedRefusal
  <2>3. CASE PassOut
    <3>1. answer'.status = answer.status /\ phase = "out" /\ UNCHANGED <<phase, handled, req>>
      BY <2>3 DEF PassOut, RequestTypeOK, Answers
    <3>2. QED
      BY <3>1 DEF HandledIsFinal, Answering, CommittedRefusal
  <2>4. CASE Unwind \/ RequestTimeout
    <3>1. CASE Unwind
      <4>1. phase = "raise" /\ UNCHANGED <<phase, handled, exc, req>>
        BY <3>1 DEF Unwind
      <4>2. QED
        BY <4>1 DEF HandledIsFinal, Answering
    <3>2. CASE RequestTimeout
      <4>1. phase' = "out" /\ answer'.status = 504
        BY <3>2 DEF RequestTimeout
      <4>2. QED
        BY <4>1 DEF HandledIsFinal, Answering
    <3>3. QED
      BY <2>4, <3>1, <3>2
  <2>5. CASE SendStart \/ Finish \/ CutOff
    <3>1. Answering /\ Answering' /\ phase # "respond" /\ phase # "raise" /\ UNCHANGED <<handled, req, answer>>
      BY <2>5 DEF SendStart, Finish, CutOff, Answering
    <3>2. QED
      BY <3>1 DEF HandledIsFinal, CommittedRefusal
  <2>6. QED
    BY <1>5, <2>1, <2>2, <2>3, <2>4, <2>5 DEF OutwardStep
<1>6. CASE Again
  BY <1>6 DEF Again, HandledIsFinal
<1>7. CASE UNCHANGED vars
  <2>1. UNCHANGED <<phase, handled, exc, req, answer>>
    BY <1>7 DEF vars, travel
  <2>2. QED
    BY <2>1 DEF HandledIsFinal, Answering, CommittedRefusal
<1>8. QED
  BY <1>1, <1>2, <1>3, <1>4, <1>5, <1>6, <1>7, NextCases

(* An answer gets the identifiers when it leaves the context. *)
LEMMA NextIdsAreAdded ==
  ASSUME RequestTypeOK, AppIsSound, IdsAreAdded, [Next]_vars
  PROVE  IdsAreAdded'
<1>0. /\ DOMAIN Layers = 1..12 /\ IndexOf("context") = 3 /\ IndexOf("timeout") = 4
      /\ phase # "idle" => at \in 1..12 /\ Has("context")
  <2>1. stage = "serving" => "context" \in app.layers
    BY DEF AppIsSound
  <2>2. phase # "idle" => stage = "serving" /\ at \in DOMAIN Layers
    BY DEF AppIsSound
  <2>3. QED
    BY <2>1, <2>2, LayerNumbers, LayerIndices DEF Has
<1>1. CASE Load \/ CreateApp
  BY <1>1 DEF Load, CreateApp, travel, IdsAreAdded, Answering, Layer
<1>2. CASE Arrive \/ FindRoute
  <2>1. Arrive => phase' = "in"
    BY DEF Arrive
  <2>2. FindRoute => phase' \in {"raise", "body", "deps"} /\ Layers[at] = "router" /\ at' = at
    BY DEF FindRoute, Layer
  <2>3. QED
    BY <1>2, <2>1, <2>2 DEF IdsAreAdded, Answering, Layer
<1>3. CASE InwardStep
  <2>1. CASE Entering
    BY <2>1 DEF Entering, Enter, IdsAreAdded, Answering
  <2>2. CASE Refusing
    <3>1. at' = at /\ at > 4 /\ at \in 1..12 /\ phase' = "out" /\ answer'.by = Layers[at]
      BY <2>2, <1>0 DEF Refusing, Answered, Layer
    <3>2. IndexOf(answer'.by) = at
      BY <3>1, IndexOfLayer
    <3>3. QED
      BY <3>1, <3>2, <1>0 DEF IdsAreAdded, Answering
  <2>3. QED
    BY <1>3, <2>1, <2>2, InwardShape
<1>4. CASE RouteStep
  BY <1>4, RouteShape DEF IdsAreAdded, Answering, Layer
<1>5. CASE OutwardStep
  <2>1. CASE Respond
    <3>1. at' = at /\ at \in 1..12 /\ phase' = "out" /\ answer'.by = Layers[at] /\ Layers[at] = "router"
      BY <2>1, <1>0 DEF Respond, Answered, Layer, IdsAreAdded
    <3>2. IndexOf(answer'.by) = at /\ at = 12
      BY <3>1, IndexOfLayer, LayerNumbers
    <3>3. QED
      BY <3>1, <3>2, <1>0 DEF IdsAreAdded, Answering
  <2>2. CASE HandleException
    <3>1. at' = at /\ at \in 1..12 /\ phase' = "out" /\ answer'.by = Layers[at]
      BY <2>2, <1>0 DEF HandleException, Caught, Answered, Layer
    <3>2. Layers[at] = "server_error" \/ at > 4
      BY <2>2, <3>1, LayerNumbers DEF HandleException, Layer
    <3>3. IndexOf(answer'.by) = at
      BY <3>1, IndexOfLayer
    <3>4. QED
      BY <3>1, <3>2, <3>3, <1>0 DEF IdsAreAdded, Answering
  <2>3. CASE PassOut
    <3>1. PICK outer \in DOMAIN Layers :
            /\ Adjacent(outer, at) /\ at' = outer
            /\ answer' = [answer EXCEPT !.headers = @ \cup Adds(Layers[outer])]
      BY <2>3 DEF PassOut
    <3>2. /\ answer'.headers = answer.headers \cup Adds(Layers[outer]) /\ answer'.by = answer.by
          /\ phase = "out" /\ phase' = "out"
      BY <2>3, <3>1 DEF PassOut, RequestTypeOK, Answers
    <3>3. outer < 3 => at <= 3
      BY <3>1, <3>2, <1>0, LayerNumbers DEF Adjacent
    <3>4. outer = 3 => "ids" \in answer'.headers
      BY <3>2, LayerNumbers DEF Adds, Headers
    <3>5. at' <= 3 => at <= 3 \/ outer = 3
      BY <3>1, <3>3, <1>0
    <3>6. QED
      BY <3>2, <3>4, <3>5, <1>0 DEF IdsAreAdded, Answering
  <2>4. CASE SendStart
    BY <2>4, <1>0 DEF SendStart, IdsAreAdded, Answering
  <2>5. CASE Finish \/ CutOff
    BY <2>5, <1>0 DEF Finish, CutOff, IdsAreAdded, Answering
  <2>6. CASE Unwind
    BY <2>6 DEF Unwind, IdsAreAdded, Answering
  <2>7. CASE RequestTimeout
    <3>1. phase' = "out" /\ at' = 4 /\ answer'.by = "timeout"
      BY <2>7, <1>0 DEF RequestTimeout
    <3>2. QED
      BY <3>1, <1>0 DEF IdsAreAdded, Answering
  <2>8. QED
    BY <1>5, <2>1, <2>2, <2>3, <2>4, <2>5, <2>6, <2>7 DEF OutwardStep
<1>6. CASE Again
  BY <1>6 DEF Again, IdsAreAdded, Answering
<1>7. CASE UNCHANGED vars
  BY <1>7 DEF vars, travel, IdsAreAdded, Answering, Layer
<1>8. QED
  BY <1>1, <1>2, <1>3, <1>4, <1>5, <1>6, <1>7, NextCases

(*************************** addresses *************************************)

(* A route finds its client where the innermost layer left it. *)
LEMMA NextClientIsKnown ==
  ASSUME RequestTypeOK, AppIsSound, IdsAreAdded, ClientIsKnown, [Next]_vars
  PROVE  ClientIsKnown'
<1>0. /\ DOMAIN Layers = 1..12 /\ IndexOf("proxy") = 2 /\ IndexOf("timeout") = 4
      /\ phase # "idle" => at \in 1..12
      /\ phase # "idle" /\ app.environment # "local" => app.believes # "any"
  <2>1. phase # "idle" => stage = "serving" /\ at \in DOMAIN Layers
    BY DEF AppIsSound
  <2>2. stage = "serving" /\ app.environment # "local" => app.believes # "any"
    BY DEF AppIsSound
  <2>3. QED
    BY <2>1, <2>2, LayerNumbers, LayerIndices
<1>1. CASE Load \/ CreateApp
  <2>1. phase = "idle" /\ UNCHANGED <<phase, client, counted, req>>
    BY <1>1 DEF Load, CreateApp, BootstrapSettings, LoadSettings, AppIsSound, travel
  <2>2. QED
    BY <2>1 DEF ClientIsKnown
<1>2. CASE Arrive
  <2>1. /\ phase = "idle" /\ phase' = "in" /\ at' = 1 /\ counted' = counted
        /\ client' \in {"proxy", "caller"}
        /\ client' = "proxy" => req'.through = "proxy"
    BY <1>2 DEF Arrive, NoRequest
  <2>2. QED
    BY <2>1, LayerIndices DEF ClientIsKnown
<1>3. CASE InwardStep
  <2>1. UNCHANGED <<app, req, counted>> /\ phase = "in" /\ phase' \in {"in", "out"}
    BY <1>3, InwardShape DEF Entering, Refusing, Enter, Answered, here
  <2>2. CASE ProxyHeaders
    <3>1. /\ client' \in {"caller", "forged", client} /\ Layers[at] = "proxy"
          /\ client' = "forged" => client = "forged" \/ app.believes = "any"
          /\ client' = "proxy" => client = "proxy" /\ req.through # "proxy"
      BY <2>2 DEF ProxyHeaders, ForwardedClient, Layer
    <3>2. QED
      BY <2>1, <3>1, <1>0 DEF ClientIsKnown, Has
  <2>3. CASE client' = client /\ at > 2
    BY <2>1, <2>3, <1>0 DEF ClientIsKnown, Has
  <2>4. CASE client' = client /\ at = 1
    <3>1. Entering
      BY <1>3, <2>4, InwardShape DEF Refusing
    <3>2. PICK inner \in DOMAIN Layers : Adjacent(at, inner) /\ at' = inner
      BY <3>1 DEF Entering, Enter
    <3>3. Has("proxy") => at' <= 2
      BY <3>2, <2>4, <1>0, LayerNumbers DEF Adjacent
    <3>4. phase' = "in"
      BY <3>1 DEF Entering, Enter
    <3>5. QED
      BY <2>1, <2>4, <3>3, <3>4, <1>0 DEF ClientIsKnown, Has
  <2>5. ProxyHeaders \/ (client' = client /\ at # 2)
    <3>1. Layers[at] = "proxy" => ProxyHeaders
      BY <1>3, <2>1, <1>0, LayerNumbers DEF InwardStep, PassIn, BindContext, StartTimeout, LimitBody, RefuseLength, TrustedHost,
        CORS, GracefulShutdown, Layer
    <3>2. ~ProxyHeaders => client' = client
      BY <1>3 DEF InwardStep, PassIn, BindContext, StartTimeout, LimitBody, RefuseLength, TrustedHost,
        CORS, GracefulShutdown, Answered
    <3>3. QED
      BY <2>1, <3>1, <3>2, <1>0, LayerNumbers
  <2>6. QED
    BY <2>1, <2>2, <2>3, <2>4, <2>5, <1>0
<1>4. CASE FindRoute
  <2>1. /\ phase = "in" /\ phase' \in {"raise", "body", "deps"} /\ UNCHANGED <<app, client, counted, at>>
        /\ req'.through = req.through /\ Layers[at] = "router"
    BY <1>4 DEF FindRoute, here, Layer, RequestTypeOK, Requests
  <2>2. at = 12
    BY <2>1, <1>0, LayerNumbers
  <2>3. QED
    BY <2>1, <2>2, <1>0 DEF ClientIsKnown, Has
<1>5. CASE RouteStep
  <2>1. UNCHANGED <<app, client, req, at>> /\ phase' # "idle" /\ phase' # "in"
    BY <1>5, RouteShape DEF here
  <2>2. counted' \in {counted, "user", client}
    BY <1>5 DEF RouteStep, ReadBody, RateLimiter, GetCurrentUser, GetBearerToken, RequirePermissions, Validate, Missing, NotTheOwner,
        Taken, Unproven, TooLong, Fail, Perform, RefuseLate, Raise, Subject
  <2>3. phase # "idle" /\ phase # "in"
    BY <1>5, RouteShape
  <2>4. QED
    BY <2>1, <2>2, <2>3 DEF ClientIsKnown, Has
<1>6. CASE OutwardStep
  <2>1. UNCHANGED <<app, client, req, counted>>
    BY <1>6 DEF OutwardStep, Respond, PassOut, SendStart, Finish, HandleException, Caught, Answered, Unwind,
      RequestTimeout, CutOff, here
  <2>2. phase # "idle" /\ phase' # "idle" /\ (phase = "in" => at > 4)
    BY <1>6, <1>0 DEF OutwardStep, Respond, PassOut, SendStart, Finish, HandleException, Caught, Answered, Unwind,
      RequestTimeout, CutOff
  <2>3. QED
    BY <2>1, <2>2, <1>0 DEF ClientIsKnown, Has
<1>7. CASE Again
  <2>1. phase' = "idle" /\ client' = "none" /\ counted' = "none"
    BY <1>7 DEF Again
  <2>2. QED
    BY <2>1 DEF ClientIsKnown
<1>8. CASE UNCHANGED vars
  BY <1>8 DEF vars, travel, ClientIsKnown, Has
<1>9. QED
  BY <1>1, <1>2, <1>3, <1>4, <1>5, <1>6, <1>7, <1>8, NextCases

(*************************** authorization *********************************)

(* What the dependencies look at stays as long as the request does. *)
LEMMA DependenciesStay ==
  ASSUME UNCHANGED <<app, req>>
  PROVE  /\ TheRoute' = TheRoute /\ CurrentPrincipal' = CurrentPrincipal
         /\ \A i : DependencyHolds(i)' = DependencyHolds(i)
         /\ DependenciesHold' = DependenciesHold /\ DependencyRefuses' = DependencyRefuses
         /\ Permitted' = Permitted
<1>1. TheRoute' = TheRoute /\ CurrentPrincipal' = CurrentPrincipal
  BY DEF TheRoute, CurrentPrincipal
<1>2. \A i : DependencyHolds(i)' = DependencyHolds(i)
  BY <1>1 DEF DependencyHolds
<1>3. DependenciesHold' = DependenciesHold
  BY <1>1, <1>2 DEF DependenciesHold
<1>4. DependencyRefuses' = DependencyRefuses /\ Permitted' = Permitted
  BY <1>1 DEF DependencyRefuses, Permitted
<1>5. QED
  BY <1>1, <1>2, <1>3, <1>4

(* The dependencies of a route of the application are numbered from 1.     *)
LEMMA DependencyNumbers ==
  ASSUME AppIsSound, stage = "serving", req.route \in DOMAIN app.routes
  PROVE  DOMAIN TheRoute.deps \in {1..0, 1..1, 1..2}
<1>1. req.route \in RouteNames /\ TheRoute = Routes(app.environment)[req.route]
  BY DEF AppIsSound, TheRoute
<1>2. QED
  BY <1>1, RouteType

(* Every step of a route keeps its guards. *)
LEMMA RouteStepIsGuarded ==
  ASSUME RequestTypeOK, AppIsSound, HandledIsFinal, RouteIsGuarded, RouteStep
  PROVE  RouteIsGuarded'
<1>1. /\ phase \in {"body", "deps", "handle", "respond"} /\ exc = "none" /\ req.route \in DOMAIN app.routes
      /\ UNCHANGED <<app, req>> /\ phase' \in {"raise", "deps", "handle", "respond"}
  BY RouteShape DEF RouteIsGuarded, here
<1>2. /\ stage = "serving" /\ DOMAIN TheRoute.deps \in {1..0, 1..1, 1..2} /\ dep \in Nat
  BY <1>1, DependencyNumbers DEF AppIsSound, RequestTypeOK
<1>3. /\ (phase = "body" => dep = 1) /\ (phase = "deps" => dep >= 1)
      /\ phase = "deps" => \A i \in DOMAIN TheRoute.deps : i < dep => DependencyHolds(i)
      /\ phase \in {"handle", "respond"} \/ handled => DependenciesHold
      /\ handled => Permitted
  BY DEF RouteIsGuarded
<1>4. phase \in {"body", "deps", "handle"} => ~handled
  BY DEF HandledIsFinal, Answering
<1>5. ASSUME phase' = "raise", exc' # "403", handled' = handled
      PROVE  RouteIsGuarded'
  BY <1>1, <1>3, <1>5, DependenciesStay DEF RouteIsGuarded
<1>6. ASSUME phase' = "deps", exc' = exc, handled' = handled, phase \in {"body", "deps"}, dep' \in Nat, dep' >= 1,
             \A i \in DOMAIN TheRoute.deps : i < dep' => DependencyHolds(i)
      PROVE  RouteIsGuarded'
  BY <1>1, <1>4, <1>6, DependenciesStay DEF RouteIsGuarded
<1>7. ASSUME phase = "deps", phase' = "deps", exc' = exc, handled' = handled, dep' = dep + 1, DependencyHolds(dep)
      PROVE  RouteIsGuarded'
  <2>1. \A i \in DOMAIN TheRoute.deps : i < dep' => i < dep \/ i = dep
    BY <1>2, <1>7
  <2>2. QED
    BY <2>1, <1>2, <1>3, <1>6, <1>7
<1>8. CASE ReadBody
  <2>1. CASE Go("deps") /\ UNCHANGED <<dep, exc, counted, handled>>
    <3>1. phase = "body" /\ dep' = 1 /\ phase' = "deps"
      BY <1>3, <1>8, <2>1 DEF ReadBody, Go
    <3>2. \A i \in DOMAIN TheRoute.deps : ~(i < dep')
      BY <1>2, <3>1
    <3>3. QED
      BY <1>6, <2>1, <3>1, <3>2
  <2>2. CASE Raise("422") \/ Raise("400")
    BY <1>5, <2>2 DEF Raise, Go
  <2>3. QED
    BY <1>8, <2>1, <2>2 DEF ReadBody
<1>9. CASE RateLimiter
  <2>1. phase = "deps" /\ DependencyHolds(dep)
    BY <1>9 DEF RateLimiter, Dependent, LimiterKinds, DependencyHolds
  <2>2. \/ Satisfied
        \/ phase' = "raise" /\ exc' # "403" /\ handled' = handled
    BY <1>9 DEF RateLimiter, Raise, Go
  <2>3. QED
    BY <1>5, <1>7, <2>1, <2>2 DEF Satisfied, Go
<1>10. CASE GetCurrentUser
  <2>1. phase = "deps" /\ (req.bearer \in Users => DependencyHolds(dep))
    BY <1>10 DEF GetCurrentUser, Dependent, DependencyHolds
  <2>2. (req.bearer \in Users /\ Satisfied) \/ Raise("401")
    BY <1>10 DEF GetCurrentUser
  <2>3. QED
    BY <1>5, <1>7, <2>1, <2>2 DEF Satisfied, Raise, Go
<1>11. CASE RequirePermissions
  <2> DEFINE ensured == EnsurePermissions(BuildSubject(Principal(CurrentPrincipal)), TheRoute.deps[dep].needs)
  <2>1. phase = "deps" /\ dep \in DOMAIN TheRoute.deps /\ TheRoute.deps[dep].kind = "permissions"
    BY <1>11 DEF RequirePermissions, Dependent
  <2>2. \/ Raise("401")
        \/ CurrentPrincipal # "none" /\ ensured /\ Satisfied
        \/ CurrentPrincipal # "none" /\ ~ensured /\ Raise("403")
    <3>1. CurrentPrincipal = "none" => Raise("401")
      BY <1>11 DEF RequirePermissions
    <3>2. CurrentPrincipal # "none" /\ ensured => Satisfied
      BY <1>11 DEF RequirePermissions
    <3>3. CurrentPrincipal # "none" /\ ~ensured => Raise("403")
      BY <1>11 DEF RequirePermissions
    <3>4. QED
      BY <3>1, <3>2, <3>3
  <2>3. CASE Raise("401")
    BY <1>5, <2>3 DEF Raise, Go
  <2>4. CASE CurrentPrincipal # "none" /\ ensured /\ Satisfied
    BY <1>7, <2>1, <2>4 DEF DependencyHolds, Satisfied, Go
  <2>5. CASE CurrentPrincipal # "none" /\ ~ensured /\ Raise("403")
    <3>1. DependencyRefuses
      BY <2>1, <2>5 DEF DependencyRefuses
    <3>2. phase' = "raise" /\ handled' = handled /\ ~handled
      BY <1>4, <2>1, <2>5 DEF Raise, Go
    <3>3. QED
      BY <1>1, <3>1, <3>2, DependenciesStay DEF RouteIsGuarded
  <2>6. QED
    BY <2>2, <2>3, <2>4, <2>5
<1>12. CASE Validate
  <2>1. CASE Raise("422")
    BY <1>5, <2>1 DEF Raise, Go
  <2>2. CASE Go("handle") /\ UNCHANGED <<dep, exc, counted, handled>>
    <3>1. phase = "deps" /\ dep \notin DOMAIN TheRoute.deps /\ phase' = "handle"
      BY <1>12, <2>2 DEF Validate, Go
    <3>2. \A i \in DOMAIN TheRoute.deps : i < dep
      BY <1>2, <1>3, <3>1
    <3>3. DependenciesHold
      BY <1>3, <3>1, <3>2 DEF DependenciesHold
    <3>4. QED
      BY <1>1, <1>4, <2>2, <3>1, <3>3, DependenciesStay DEF RouteIsGuarded
  <2>3. QED
    BY <1>12, <2>1, <2>2 DEF Validate
<1>13. CASE Missing \/ Taken \/ Unproven \/ TooLong \/ Fail
  BY <1>5, <1>13 DEF Missing, Taken, Unproven, TooLong, Fail, Raise, Go
<1>14. CASE NotTheOwner
  <2>1. DependenciesHold /\ ~Permitted /\ phase' = "raise" /\ handled' = handled /\ ~handled
    BY <1>3, <1>4, <1>14 DEF NotTheOwner, Raise, Go
  <2>2. QED
    BY <1>1, <2>1, DependenciesStay DEF RouteIsGuarded
<1>15. CASE Perform
  <2>1. DependenciesHold /\ Permitted /\ phase' = "respond" /\ exc' = exc
    BY <1>3, <1>15 DEF Perform, Go
  <2>2. QED
    BY <1>1, <2>1, DependenciesStay DEF RouteIsGuarded
<1>16. CASE GetBearerToken
  <2>1. phase = "deps" /\ DependencyHolds(dep)
    BY <1>16 DEF GetBearerToken, Dependent, DependencyHolds
  <2>2. Satisfied \/ Raise("401")
    BY <1>16 DEF GetBearerToken
  <2>3. QED
    BY <1>5, <1>7, <2>1, <2>2 DEF Satisfied, Raise, Go
<1>17. CASE RefuseLate
  BY <1>5, <1>17 DEF RefuseLate, Raise, Go
<1>18. QED
  BY <1>8, <1>9, <1>10, <1>11, <1>12, <1>13, <1>14, <1>15, <1>16, <1>17 DEF RouteStep

(* So does every other step. *)
LEMMA NextRouteIsGuarded ==
  ASSUME RequestTypeOK, AppIsSound, HandledIsFinal, RouteIsGuarded, [Next]_vars
  PROVE  RouteIsGuarded'
<1>0. phase \in {"idle", "in"} => ~handled /\ exc = "none"
  BY DEF HandledIsFinal, Answering, RouteIsGuarded
<1>1. CASE Load \/ CreateApp \/ Arrive
  <2>1. phase = "idle" /\ phase' \in {"idle", "in"} /\ UNCHANGED <<exc, handled>>
    BY <1>1 DEF Load, CreateApp, Arrive, BootstrapSettings, LoadSettings, AppIsSound, travel
  <2>2. QED
    BY <1>0, <2>1 DEF RouteIsGuarded
<1>2. CASE InwardStep
  <2>1. phase = "in" /\ phase' \in {"in", "out"} /\ UNCHANGED <<exc, handled>>
    BY <1>2, InwardShape DEF Entering, Refusing, Enter, Answered
  <2>2. QED
    BY <1>0, <2>1 DEF RouteIsGuarded
<1>3. CASE FindRoute
  <2>1. phase = "in" /\ UNCHANGED <<app, stage, handled>> /\ ~handled /\ exc = "none"
    BY <1>0, <1>3 DEF FindRoute, here
  <2>2. CASE req'.route \notin DOMAIN app.routes
    <3>1. phase' = "raise" /\ exc' = "404"
      BY <1>3, <2>2 DEF FindRoute
    <3>2. QED
      BY <2>1, <3>1 DEF RouteIsGuarded
  <2>3. CASE req'.route \in DOMAIN app.routes
    <3>1. phase' \in {"body", "deps"} /\ dep' = 1 /\ exc' = exc
      BY <1>3, <2>3 DEF FindRoute
    <3>2. TheRoute' = Routes(app.environment)[req'.route] /\ req'.route \in RouteNames
      BY <2>1, <2>3 DEF TheRoute, AppIsSound
    <3>3. \A i \in DOMAIN TheRoute'.deps : ~(i < dep')
      BY <3>1, <3>2, RouteType
    <3>4. QED
      BY <2>1, <2>3, <3>1, <3>3 DEF RouteIsGuarded
  <2>4. QED
    BY <2>2, <2>3
<1>4. CASE RouteStep
  BY <1>4, RouteStepIsGuarded
<1>5. CASE OutwardStep
  <2>1. /\ UNCHANGED <<app, req, handled>> /\ exc' \in {exc, "cut"}
        /\ phase' \in {"out", "raise", "streaming", "done"}
    BY <1>5 DEF OutwardStep, Respond, PassOut, SendStart, Finish, HandleException, Caught, Answered, Unwind,
      RequestTimeout, CutOff, here
  <2>2. QED
    BY <2>1, DependenciesStay DEF RouteIsGuarded
<1>6. CASE Again
  BY <1>6 DEF Again, RouteIsGuarded
<1>7. CASE UNCHANGED vars
  <2>1. UNCHANGED <<app, req, phase, dep, exc, handled>>
    BY <1>7 DEF vars, travel
  <2>2. QED
    BY <2>1, DependenciesStay DEF RouteIsGuarded
<1>8. QED
  BY <1>1, <1>2, <1>3, <1>4, <1>5, <1>6, <1>7, NextCases

(* A claim that is a list with one identifier in it holds this one. *)
LEMMA ListClaims ==
  ASSUME NEW w, w.id # ""
  PROVE  ClaimValues(Claim("list", {w})) = {w.id} /\ ScopeValues(Claim("list", {w})) = {w.id}
<1>1. Claim("list", {w}).form = "list" /\ Claim("list", {w}).ids = {w}
  BY DEF Claim
<1>2. NormalizeSet({w}) = {w.id}
  BY DEF NormalizeSet
<1>3. QED
  BY <1>1, <1>2 DEF ClaimValues, ScopeValues

(* What the claims of the principals hold. *)
LEMMA ClaimsHold ==
  /\ ClaimValues(Absent) = {} /\ ScopeValues(Absent) = {}
  /\ ClaimValues(Claim("list", {Padded("admin")})) = {"admin"}
  /\ ClaimValues(Claim("list", {Written("tiers:manage")})) = {"tiers:manage"}
  /\ ClaimValues(Claim("list", {Written(Wildcard)})) = {Wildcard}
  /\ ScopeValues(Claim("list", {Padded("users:manage")})) = {"users:manage"}
<1>1. ClaimValues(Absent) = {} /\ ScopeValues(Absent) = {}
  BY DEF ClaimValues, ScopeValues, Absent, Claim
<1>2. /\ Padded("admin").id = "admin" /\ Padded("users:manage").id = "users:manage"
      /\ Written("tiers:manage").id = "tiers:manage"
      /\ Written(Wildcard).id = Wildcard /\ Wildcard # ""
  BY DEF Written, Padded, Wildcard
<1>3. ClaimValues(Claim("list", {Padded("admin")})) = {"admin"}
  BY <1>2, ListClaims
<1>4. ClaimValues(Claim("list", {Written("tiers:manage")})) = {"tiers:manage"}
  BY <1>2, ListClaims
<1>5. ClaimValues(Claim("list", {Written(Wildcard)})) = {Wildcard}
  BY <1>2, ListClaims
<1>6. ScopeValues(Claim("list", {Padded("users:manage")})) = {"users:manage"}
  BY <1>2, ListClaims
<1>7. QED
  BY <1>1, <1>3, <1>4, <1>5, <1>6

(* Where inheritance ends for the roles a principal can have. *)
LEMMA ExpandedRoles ==
  /\ ExpandRoles({"authenticated"}) = {"authenticated"}
  /\ ExpandRoles({"admin", "authenticated"}) = {"admin", "authenticated"}
  /\ ExpandRoles({"authenticated", "admin", "superuser"}) = {"authenticated", "admin", "superuser"}
<1>1. Inherited("authenticated") = {} /\ Inherited("admin") = {"authenticated"} /\ Inherited("superuser") = {"admin"}
  BY DEF Inherited, RoleInheritance
<1>2. /\ Inherit({"authenticated"}) = {"authenticated"}
      /\ Inherit({"admin", "authenticated"}) = {"admin", "authenticated"}
      /\ Inherit({"authenticated", "admin", "superuser"}) = {"authenticated", "admin", "superuser"}
  BY <1>1 DEF Inherit
<1>3. QED
  BY <1>2 DEF ExpandRoles

(* And what these roles grant. *)
LEMMA GrantedByRoles ==
  /\ PermissionsForRoles({"authenticated"}) = {}
  /\ PermissionsForRoles({"admin", "authenticated"}) = Catalogue
  /\ PermissionsForRoles({"authenticated", "admin", "superuser"}) = Catalogue \cup {Wildcard}
<1> DEFINE grants(r) == IF r \in DOMAIN RolePermissions THEN RolePermissions[r] ELSE {}
<1>1. grants("authenticated") = {} /\ grants("admin") = Catalogue /\ grants("superuser") = {Wildcard}
  BY DEF RolePermissions
<1>2. \A roles : PermissionsForRoles(roles) = UNION {grants(r) : r \in ExpandRoles(roles)}
  BY DEF PermissionsForRoles
<1> HIDE DEF grants
<1>3. QED
  BY <1>1, <1>2, ExpandedRoles

(* The permissions of every principal, roles, permissions and scopes taken *)
(* together.                                                               *)
LEMMA PermissionsOfPrincipals ==
  /\ BuildSubject(Principal("root")).permissions = Catalogue \cup {Wildcard}
  /\ BuildSubject(Principal("alice")).permissions = {}
  /\ BuildSubject(Principal("bob")).permissions = {}
  /\ BuildSubject(Principal("ops")).permissions = Catalogue
  /\ BuildSubject(Principal("tiers")).permissions = {"tiers:manage", "users:manage"}
  /\ BuildSubject(Principal("half")).permissions = {"tiers:manage"}
  /\ BuildSubject(Principal("star")).permissions = {Wildcard}
<1> DEFINE roles(p) == ExpandRoles(ClaimValues(p.roles) \cup {DefaultRole}
                         \cup (IF p.superuser THEN {"admin", "superuser"} ELSE {}))
<1>1. \A p : BuildSubject(p).permissions =
               PermissionsForRoles(roles(p)) \cup ClaimValues(p.permissions) \cup ScopeValues(p.scopes)
  BY DEF BuildSubject
<1>2. \A name \in {"alice", "bob", "tiers", "half", "star"} : roles(Principal(name)) = {"authenticated"}
  <2>1. \A name \in {"alice", "bob", "tiers", "half", "star"} :
          ~Principal(name).superuser /\ Principal(name).roles = Absent
    BY DEF Principal
  <2>2. QED
    BY <2>1, ClaimsHold, ExpandedRoles DEF DefaultRole
<1>3. roles(Principal("root")) = {"authenticated", "admin", "superuser"}
  <2>1. Principal("root").superuser /\ Principal("root").roles = Absent
    BY DEF Principal
  <2>2. ClaimValues(Absent) \cup {DefaultRole} \cup {"admin", "superuser"} = {"authenticated", "admin", "superuser"}
    BY ClaimsHold DEF DefaultRole
  <2>3. QED
    BY <2>1, <2>2, ExpandedRoles
<1>4. roles(Principal("ops")) = {"admin", "authenticated"}
  <2>1. ~Principal("ops").superuser /\ Principal("ops").roles = Claim("list", {Padded("admin")})
    BY DEF Principal
  <2>2. ClaimValues(Claim("list", {Padded("admin")})) \cup {DefaultRole} \cup {} = {"admin", "authenticated"}
    BY ClaimsHold DEF DefaultRole
  <2>3. QED
    BY <2>1, <2>2, ExpandedRoles
<1> HIDE DEF roles
<1>5. \A name \in {"root", "alice", "bob", "ops"} :
        ClaimValues(Principal(name).permissions) = {} /\ ScopeValues(Principal(name).scopes) = {}
  BY ClaimsHold DEF Principal
<1>6. \A name \in {"tiers", "half"} : ClaimValues(Principal(name).permissions) = {"tiers:manage"}
  BY ClaimsHold DEF Principal
<1>7. /\ ClaimValues(Principal("star").permissions) = {Wildcard}
      /\ ScopeValues(Principal("star").scopes) = {} /\ ScopeValues(Principal("half").scopes) = {}
      /\ ScopeValues(Principal("tiers").scopes) = {"users:manage"}
  BY ClaimsHold DEF Principal
<1>8. QED
  BY <1>1, <1>2, <1>3, <1>4, <1>5, <1>6, <1>7, GrantedByRoles

(* Who has the permissions that the routes are about. *)
LEMMA WhoIsGranted ==
  /\ \A n \in Principals :
       /\ EnsurePermissions(BuildSubject(Principal(n)), {"users:manage", "tiers:manage"})
            <=> n \in {"root", "ops", "tiers", "star"}
       /\ EnsurePermissions(BuildSubject(Principal(n)), {"internal:access"}) <=> n \in {"root", "ops", "star"}
       /\ EnsurePermissions(BuildSubject(Principal(n)), {"admin:access"}) <=> n \in {"root", "ops", "star"}
  /\ \A n \in Users, p \in {"users:manage", "users:self:delete:override"} :
       AuthorizeOwnerOrPermission(BuildSubject(Principal(n)), "alice", p) <=> n \in {"alice", "root"}
<1> DEFINE grants(n) == BuildSubject(Principal(n)).permissions
<1>1. \A n, p : HasPermission(BuildSubject(Principal(n)), p) <=> p \in grants(n) \/ Wildcard \in grants(n)
  BY DEF HasPermission
<1>2. /\ grants("root") = Catalogue \cup {Wildcard} /\ grants("ops") = Catalogue
      /\ grants("alice") = {} /\ grants("bob") = {} /\ grants("star") = {Wildcard}
      /\ grants("tiers") = {"tiers:manage", "users:manage"} /\ grants("half") = {"tiers:manage"}
  BY PermissionsOfPrincipals
<1>3. \A n : BuildSubject(Principal(n)).name = n
  BY DEF BuildSubject, Principal
<1> HIDE DEF grants
<1>4. \A p \in {"users:manage", "tiers:manage", "internal:access", "admin:access"} :
        /\ HasPermission(BuildSubject(Principal("root")), p) /\ HasPermission(BuildSubject(Principal("ops")), p)
        /\ HasPermission(BuildSubject(Principal("star")), p)
        /\ ~HasPermission(BuildSubject(Principal("alice")), p) /\ ~HasPermission(BuildSubject(Principal("bob")), p)
        /\ HasPermission(BuildSubject(Principal("tiers")), p) <=> p \in {"users:manage", "tiers:manage"}
        /\ HasPermission(BuildSubject(Principal("half")), p) <=> p = "tiers:manage"
  BY <1>1, <1>2 DEF Catalogue, Wildcard
<1>5. \A n \in Principals :
        /\ EnsurePermissions(BuildSubject(Principal(n)), {"users:manage", "tiers:manage"})
             <=> n \in {"root", "ops", "tiers", "star"}
        /\ EnsurePermissions(BuildSubject(Principal(n)), {"internal:access"}) <=> n \in {"root", "ops", "star"}
        /\ EnsurePermissions(BuildSubject(Principal(n)), {"admin:access"}) <=> n \in {"root", "ops", "star"}
  BY <1>4 DEF EnsurePermissions, Principals, Users, Services
<1>6. \A n \in Users, p \in {"users:manage", "users:self:delete:override"} :
        HasPermission(BuildSubject(Principal(n)), p) <=> n = "root"
  BY <1>1, <1>2 DEF Users, Wildcard
<1>7. ASSUME NEW n \in Users, NEW p \in {"users:manage", "users:self:delete:override"}
      PROVE  AuthorizeOwnerOrPermission(BuildSubject(Principal(n)), "alice", p) <=> n \in {"alice", "root"}
  <2>1. EnsurePermissions(BuildSubject(Principal(n)), {p}) <=> n = "root"
    BY <1>6 DEF EnsurePermissions
  <2>2. IsResourceOwner(BuildSubject(Principal(n)), "alice") <=> n = "alice"
    BY <1>3 DEF IsResourceOwner
  <2>3. QED
    BY <2>1, <2>2 DEF AuthorizeOwnerOrPermission
<1>8. QED
  BY <1>5, <1>7

(* Where no ownership counts, the credential that counts is the principal. *)
LEMMA DecisiveIsPrincipal ==
  ASSUME RequestTypeOK, TheRoute.owner = ""
  PROVE  /\ Decisive = {CurrentPrincipal} \ {"none"}
         /\ CurrentPrincipal \in Principals \cup {"none"}
<1>1. "none" \notin Principals
  BY DEF Principals, Users, Services
<1>2. QED
  BY <1>1 DEF Decisive, CurrentPrincipal, Principals

(* The guards of a route let through, and turn away, whom MayDo says.      *)
LEMMA GuardedAuthorizes ==
  ASSUME RequestTypeOK, AppIsSound, stage = "serving", RouteIsGuarded,
         req.route \in DOMAIN MayDo, req.route \in DOMAIN app.routes, ~Open(req.route)
  PROVE  /\ handled => Decisive \cap MayDo[req.route] # {}
         /\ exc = "403" => Decisive # {} /\ Decisive \cap MayDo[req.route] = {}
<1>0. TheRoute = Routes(app.environment)[req.route]
  BY DEF TheRoute, AppIsSound
<1>1. /\ handled => DependenciesHold /\ Permitted
      /\ exc = "403" => DependencyRefuses \/ (DependenciesHold /\ ~Permitted)
  BY DEF RouteIsGuarded
<1>2. ASSUME NEW route \in {"patch_user", "erase_user"}, req.route = route,
             TheRoute.owner \in {"users:manage", "users:self:delete:override"},
             TheRoute.deps = <<RateLimit, CurrentUser>>
      PROVE  /\ handled => Decisive \cap MayDo[req.route] # {}
             /\ exc = "403" => Decisive # {} /\ Decisive \cap MayDo[req.route] = {}
  <2>1. MayDo[req.route] = {"alice", "root"}
    BY <1>2 DEF MayDo
  <2>2. DependenciesHold => req.bearer \in Users
    <3>1. 2 \in DOMAIN TheRoute.deps /\ TheRoute.deps[2].kind = "user"
      BY <1>2 DEF CurrentUser, Dependency
    <3>2. QED
      BY <3>1 DEF DependenciesHold, DependencyHolds
  <2>3. ~DependencyRefuses
    <3>1. \A i \in DOMAIN TheRoute.deps : TheRoute.deps[i].kind # "permissions"
      BY <1>2 DEF RateLimit, CurrentUser, Dependency
    <3>2. QED
      BY <3>1 DEF DependencyRefuses
  <2>4. req.bearer \in Users => (Permitted <=> req.bearer \in {"alice", "root"})
    BY <1>2, WhoIsGranted DEF Permitted
  <2>5. Decisive = {req.bearer} \cap Users
    BY <1>2 DEF Decisive
  <2>6. QED
    BY <1>1, <2>1, <2>2, <2>3, <2>4, <2>5
<1>3. ASSUME TheRoute.owner = "", NEW needs, TheRoute.deps[Len(TheRoute.deps)] = Needs(needs),
             Len(TheRoute.deps) \in DOMAIN TheRoute.deps,
             \A i \in DOMAIN TheRoute.deps : i = Len(TheRoute.deps) \/ TheRoute.deps[i] = RateLimit,
             \A n \in Principals :
               EnsurePermissions(BuildSubject(Principal(n)), needs) <=> n \in MayDo[req.route]
      PROVE  /\ handled => Decisive \cap MayDo[req.route] # {}
             /\ exc = "403" => Decisive # {} /\ Decisive \cap MayDo[req.route] = {}
  <2>1. Decisive = {CurrentPrincipal} \ {"none"} /\ CurrentPrincipal \in Principals \cup {"none"}
    BY <1>3, DecisiveIsPrincipal
  <2>2. Needs(needs).kind = "permissions" /\ Needs(needs).needs = needs /\ RateLimit.kind = "rate_limit"
    BY DEF Needs, RateLimit, Dependency
  <2>3. DependenciesHold => CurrentPrincipal # "none" /\ CurrentPrincipal \in MayDo[req.route]
    BY <1>3, <2>1, <2>2 DEF DependenciesHold, DependencyHolds
  <2>4. DependencyRefuses => CurrentPrincipal # "none" /\ CurrentPrincipal \notin MayDo[req.route]
    BY <1>3, <2>1, <2>2 DEF DependencyRefuses
  <2>5. Permitted
    BY <1>3 DEF Permitted
  <2>6. QED
    BY <1>1, <2>1, <2>3, <2>4, <2>5
<1>4. CASE req.route \in {"patch_user", "erase_user"}
  <2>1. CASE req.route = "patch_user"
    <3>1. /\ Routes(app.environment)["patch_user"].deps = <<RateLimit, CurrentUser>>
          /\ Routes(app.environment)["patch_user"].owner = "users:manage"
      BY RouteByName
    <3>2. QED
      BY <1>0, <1>2, <2>1, <3>1
  <2>2. CASE req.route = "erase_user"
    <3>1. /\ Routes(app.environment)["erase_user"].deps = <<RateLimit, CurrentUser>>
          /\ Routes(app.environment)["erase_user"].owner = "users:self:delete:override"
      BY RouteByName
    <3>2. QED
      BY <1>0, <1>2, <2>2, <3>1
  <2>3. QED
    BY <1>4, <2>1, <2>2
<1>5. CASE req.route = "patch_user_tier"
  <2>1. /\ Routes(app.environment)["patch_user_tier"].owner = ""
        /\ Routes(app.environment)["patch_user_tier"].deps = <<RateLimit, Needs({"users:manage", "tiers:manage"})>>
    BY RouteByName
  <2>2. TheRoute.owner = "" /\ TheRoute.deps = <<RateLimit, Needs({"users:manage", "tiers:manage"})>>
    BY <1>0, <1>5, <2>1
  <2> DEFINE d == TheRoute.deps
  <2>3. /\ Len(d) = 2 /\ DOMAIN d = 1..2
        /\ d[1] = RateLimit /\ d[2] = Needs({"users:manage", "tiers:manage"})
    <3>1. d = <<RateLimit, Needs({"users:manage", "tiers:manage"})>>
      BY <2>2
    <3> HIDE DEF d
    <3>2. Len(d) = 2
      BY <3>1
    <3>3. DOMAIN d = 1..2
      BY <3>1
    <3>4. d[1] = RateLimit /\ d[2] = Needs({"users:manage", "tiers:manage"})
      BY <3>1
    <3>5. QED
      BY <3>2, <3>3, <3>4
  <2>4. MayDo[req.route] = {"root", "ops", "tiers", "star"}
    BY <1>5 DEF MayDo
  <2>5. \A n \in Principals :
          EnsurePermissions(BuildSubject(Principal(n)), {"users:manage", "tiers:manage"}) <=> n \in MayDo[req.route]
    BY <2>4, WhoIsGranted
  <2>6. /\ TheRoute.deps[Len(TheRoute.deps)] = Needs({"users:manage", "tiers:manage"})
        /\ Len(TheRoute.deps) \in DOMAIN TheRoute.deps
        /\ \A i \in DOMAIN TheRoute.deps : i = Len(TheRoute.deps) \/ TheRoute.deps[i] = RateLimit
    BY <2>3
  <2> HIDE DEF d
  <2>7. QED
    BY <1>3, <2>2, <2>5, <2>6
<1>6. CASE req.route = "internal"
  <2>1. /\ Routes(app.environment)["internal"].owner = ""
        /\ Routes(app.environment)["internal"].deps = <<Needs({"internal:access"})>>
    BY RouteByName
  <2>2. TheRoute.owner = "" /\ TheRoute.deps = <<Needs({"internal:access"})>>
    BY <1>0, <1>6, <2>1
  <2> DEFINE d == TheRoute.deps
  <2>3. Len(d) = 1 /\ DOMAIN d = 1..1 /\ d[1] = Needs({"internal:access"})
    <3>1. d = <<Needs({"internal:access"})>>
      BY <2>2
    <3> HIDE DEF d
    <3>2. Len(d) = 1
      BY <3>1
    <3>3. DOMAIN d = 1..1
      BY <3>1
    <3>4. d[1] = Needs({"internal:access"})
      BY <3>1
    <3>5. QED
      BY <3>2, <3>3, <3>4
  <2>4. MayDo[req.route] = {"root", "ops", "star"}
    BY <1>6 DEF MayDo
  <2>5. \A n \in Principals :
          EnsurePermissions(BuildSubject(Principal(n)), {"internal:access"}) <=> n \in MayDo[req.route]
    BY <2>4, WhoIsGranted
  <2>6. /\ TheRoute.deps[Len(TheRoute.deps)] = Needs({"internal:access"})
        /\ Len(TheRoute.deps) \in DOMAIN TheRoute.deps
        /\ \A i \in DOMAIN TheRoute.deps : i = Len(TheRoute.deps) \/ TheRoute.deps[i] = RateLimit
    BY <2>3
  <2> HIDE DEF d
  <2>7. QED
    BY <1>3, <2>2, <2>5, <2>6
<1>7. CASE req.route = "docs"
  <2>1. /\ Routes(app.environment)["docs"].owner = ""
        /\ Routes(app.environment)["docs"].deps = <<Needs({"admin:access"})>>
    BY <1>7, RouteByName DEF Open
  <2>2. TheRoute.owner = "" /\ TheRoute.deps = <<Needs({"admin:access"})>>
    BY <1>0, <1>7, <2>1
  <2> DEFINE d == TheRoute.deps
  <2>3. Len(d) = 1 /\ DOMAIN d = 1..1 /\ d[1] = Needs({"admin:access"})
    <3>1. d = <<Needs({"admin:access"})>>
      BY <2>2
    <3> HIDE DEF d
    <3>2. Len(d) = 1
      BY <3>1
    <3>3. DOMAIN d = 1..1
      BY <3>1
    <3>4. d[1] = Needs({"admin:access"})
      BY <3>1
    <3>5. QED
      BY <3>2, <3>3, <3>4
  <2>4. MayDo[req.route] = {"root", "ops", "star"}
    BY <1>7 DEF MayDo
  <2>5. \A n \in Principals :
          EnsurePermissions(BuildSubject(Principal(n)), {"admin:access"}) <=> n \in MayDo[req.route]
    BY <2>4, WhoIsGranted
  <2>6. /\ TheRoute.deps[Len(TheRoute.deps)] = Needs({"admin:access"})
        /\ Len(TheRoute.deps) \in DOMAIN TheRoute.deps
        /\ \A i \in DOMAIN TheRoute.deps : i = Len(TheRoute.deps) \/ TheRoute.deps[i] = RateLimit
    BY <2>3
  <2> HIDE DEF d
  <2>7. QED
    BY <1>3, <2>2, <2>5, <2>6
<1>8. DOMAIN MayDo = {"patch_user", "erase_user", "patch_user_tier", "internal", "docs"}
  BY DEF MayDo
<1>9. QED
  BY <1>4, <1>5, <1>6, <1>7, <1>8

(*************************** theorems **************************************)

(* PipelineInv is inductive. *)
LEMMA NextPipelineInv == PipelineInv /\ [Next]_vars => PipelineInv'
BY NextRequestTypeOK, NextLoadedIsValid, NextAppIsSound, NextSentOnce, NextHandledIsFinal, NextIdsAreAdded,
   NextClientIsKnown, NextRouteIsGuarded DEF PipelineInv

(* core/setup.py, api/dependencies.py: types, and everything a layer may   *)
(* rely on, whatever the settings and wherever the request is.             *)
THEOREM PipelineInvariance == Spec => []PipelineInv
<1>1. Init => PipelineInv
  BY InitPipelineInv
<1>2. PipelineInv /\ [Next]_vars => PipelineInv'
  BY NextPipelineInv
<1>3. QED
  BY <1>1, <1>2, PTL DEF Spec

(* middleware/request_timeout_middleware.py: the server never gets a       *)
(* second response for a request.                                          *)
THEOREM RequestsAreAnsweredOnce == Spec => []OneAnswer
<1>1. PipelineInv => OneAnswer
  BY DEF PipelineInv, SentOnce, OneAnswer
<1>2. QED
  BY <1>1, PipelineInvariance, PTL

(* api/errors.py: nothing has been committed for a caller who reads        *)
(* anything but a success, a 500 or a 504, the 404 of a creation and the   *)
(* 401 of a logout excepted.                                               *)
THEOREM RefusalsLeaveNothing == Spec => []RefusedUntouched
<1>1. PipelineInv => RefusedUntouched
  BY DEF PipelineInv, HandledIsFinal, Answering, RefusedUntouched
<1>2. QED
  BY <1>1, PipelineInvariance, PTL

(* middleware/logger_middleware.py: every response but the 500 of the last *)
(* handler carries the request's identifiers, and none finds another's.    *)
THEOREM ResponsesAreCorrelated == Spec => []Correlated
<1>1. PipelineInv => Correlated
  <2>1. 1 <= IndexOf("context")
    BY LayerIndices
  <2>2. QED
    BY <2>1 DEF PipelineInv, IdsAreAdded, Answering, Correlated
<1>2. QED
  BY <1>1, PipelineInvariance, PTL

(* core/setup.py: outside local development nobody chooses the address he  *)
(* is counted under, and callers behind listed proxies are told apart.     *)
THEOREM LimiterTellsCallersApart == Spec => []LimiterCountsCaller
<1>1. PipelineInv => LimiterCountsCaller
  BY DEF PipelineInv, ClientIsKnown, LimiterCountsCaller
<1>2. QED
  BY <1>1, PipelineInvariance, PTL

(* api/dependencies.py, core/authorization.py: what a protected route is   *)
(* for happens only for a caller who may, and no such caller is told 403.  *)
THEOREM OnlyTheAuthorizedAct == Spec => []EffectsAuthorized
<1>1. PipelineInv => EffectsAuthorized
  <2> SUFFICES ASSUME PipelineInv, phase # "idle", ~Open(req.route),
                      req.route \in DOMAIN MayDo, req.route \in DOMAIN app.routes
               PROVE  /\ handled => Decisive \cap MayDo[req.route] # {}
                      /\ exc = "403" => Decisive # {} /\ Decisive \cap MayDo[req.route] = {}
    BY DEF EffectsAuthorized
  <2>1. stage = "serving"
    BY DEF PipelineInv, AppIsSound
  <2>2. QED
    BY <2>1, GuardedAuthorizes DEF PipelineInv
<1>2. QED
  BY <1>1, PipelineInvariance, PTL

(*************************** settings **************************************)

(* No amount is less than itself. *)
LEMMA LessIrreflexive ==
  ASSUME NEW a
  PROVE  ~Less(a, a)
<1>1. Amounts[1] = "low" /\ Amounts[2] = "mid" /\ Amounts[3] = "high"
  BY DEF Amounts
<1>2. \A i, j \in 1..3 : Amounts[i] = Amounts[j] => i = j
  BY <1>1
<1>3. QED
  BY <1>2 DEF Less

(* A Redis connection uses all TLS material that a valid service names.    *)
LEMMA PoolUsesMaterial ==
  ASSUME NEW s, NEW service, ValidRedisTls(s, service)
  PROVE  Uses(PoolConnection(s, service),
              s[service \o "_SSL_CA_CERTS"], s[service \o "_SSL_CERTFILE"], s[service \o "_SSL_KEYFILE"])
<1> DEFINE ssl == s[service \o "_SSL"]
           ca == s[service \o "_SSL_CA_CERTS"]
           cert == s[service \o "_SSL_CERTFILE"]
           key == s[service \o "_SSL_KEYFILE"]
           verified == s[service \o "_SSL_CERT_REQS"] # "none"
<1>1. cert = key /\ (ssl = "no" => ca = "none" /\ cert = "none")
  BY DEF ValidRedisTls
<1>2. PoolConnection(s, service) = IF ssl = "no" THEN Plain ELSE Tls(verified, ca, cert, key)
  BY DEF PoolConnection
<1> HIDE DEF ssl, ca, cert, key, verified
<1>3. Uses(PoolConnection(s, service), ca, cert, key)
  BY <1>1, <1>2 DEF Uses, Plain, Tls
<1>4. QED
  BY <1>3 DEF ca, cert, key

(* So does the connection to the database, but for the CA of "require".    *)
LEMMA DatabaseUsesMaterial ==
  ASSUME NEW s, ValidPostgres(s)
  PROVE  Uses(DatabaseConnection(s),
              IF s.DATABASE_SSL_MODE = "require" THEN "none" ELSE s.DATABASE_SSL_CA_FILE,
              s.DATABASE_SSL_CERT_FILE, s.DATABASE_SSL_KEY_FILE)
<1>1. /\ s.DATABASE_SSL_CERT_FILE = s.DATABASE_SSL_KEY_FILE
      /\ s.DATABASE_SSL_MODE = "disable" => s.DATABASE_SSL_CA_FILE = "none" /\ s.DATABASE_SSL_CERT_FILE = "none"
  BY DEF ValidPostgres
<1>2. QED
  BY <1>1 DEF DatabaseConnection, Uses, Plain, Tls

(* core/config.py, core/redis.py, core/db/database.py: settings that are   *)
(* loaded are those the program can keep to.                               *)
THEOREM LoadedSettingsAreSound == Spec => []LoadedIsSound
<1>1. PipelineInv => LoadedIsSound
  <2> SUFFICES ASSUME LoadedIsValid, stage = "loaded" PROVE LoadedIsSound
    BY DEF PipelineInv, LoadedIsSound
  <2> DEFINE s == Settings
  <2>1. ValidFields(s) /\ ValidProfile(s, Environment)
    BY DEF LoadedIsValid
  <2> HIDE DEF s
  <2>2. s.ENVIRONMENT # "local" =>
          /\ "placeholder" \notin {s.SECRET_KEY, DatabasePassword(s)} /\ s.SECRET_KEY # "short"
          /\ "any" \notin {s.CORS_ORIGINS, s.TRUSTED_HOSTS}
          /\ s.PROXY_HEADERS_ENABLED = "yes" => s.PROXY_HEADERS_TRUSTED_PROXIES \notin {"none", "any", "blank"}
          /\ s.REFRESH_TOKEN_COOKIE_SECURE = "yes"
          /\ s.CRUD_ADMIN_ENABLED = "yes" => s.ADMIN_PASSWORD # "placeholder" /\ s.SESSION_SECURE_COOKIES = "yes"
    BY <2>1 DEF ValidFields, ValidProfile, SecureEnvironment, ValidProxyHeaders
  <2>3. ValidRedisTls(s, "REDIS_CACHE") /\ ValidRedisTls(s, "REDIS_RATE_LIMIT") /\ ValidRedisTls(s, "REDIS_QUEUE")
    BY <2>1 DEF ValidFields, ValidRedisCache, ValidRedisRateLimit, ValidRedisQueue
  <2>4. ValidPostgres(s)
    BY <2>1 DEF ValidFields
  <2>5. \A delay \in StartupDelays(s) : ~Less(s.DATABASE_STARTUP_RETRY_MAX_DELAY, delay)
    BY <2>4, LessIrreflexive DEF ValidPostgres, StartupDelays
  <2>6. QED
    BY <2>2, <2>3, <2>4, <2>5, PoolUsesMaterial, DatabaseUsesMaterial
       DEF LoadedIsSound, s, CacheConnection, LimiterConnection, QueueConnection
<1>2. QED
  BY <1>1, PipelineInvariance, PTL

(*************************** redaction *************************************)

(* On the way to a leaf there is nothing but containers that are walked.   *)
LEMMA WaysAreWalked ==
  ASSUME NEW leaf \in Leaves
  PROVE  /\ \A i \in DOMAIN leaf.way : \A j \in 1 .. i - 1 : j \in DOMAIN leaf.way
         /\ \A i \in DOMAIN leaf.way : leaf.way[i].in \in {"mapping", "list", "tuple"}
<1> DEFINE walked(w) == /\ \A i \in DOMAIN w : \A j \in 1 .. i - 1 : j \in DOMAIN w
                        /\ \A i \in DOMAIN w : w[i].in \in {"mapping", "list", "tuple"}
<1>1. /\ \A n : Under(n).in = "mapping"
      /\ Inside("list").in = "list" /\ Inside("tuple").in = "tuple"
  BY DEF Under, Inside
<1>2. ASSUME NEW a, a.in \in {"mapping", "list", "tuple"}
      PROVE  walked(<<a>>)
  BY <1>2
<1>3. ASSUME NEW a, NEW b, a.in \in {"mapping", "list", "tuple"}, b.in \in {"mapping", "list", "tuple"}
      PROVE  walked(<<a, b>>)
  BY <1>3
<1>4. ASSUME NEW a, NEW b, NEW c, a.in \in {"mapping", "list", "tuple"}, b.in \in {"mapping", "list", "tuple"},
             c.in \in {"mapping", "list", "tuple"}
      PROVE  walked(<<a, b, c>>)
  BY <1>4
<1>5. ASSUME NEW a, NEW b, NEW c, NEW d, NEW e, a.in \in {"mapping", "list", "tuple"},
             b.in \in {"mapping", "list", "tuple"}, c.in \in {"mapping", "list", "tuple"},
             d.in \in {"mapping", "list", "tuple"}, e.in \in {"mapping", "list", "tuple"}
      PROVE  walked(<<a, b, c, d, e>>)
  BY <1>5
<1> HIDE DEF walked
<1>6. PICK n \in SomeNames : leaf.way \in Ways(n)
  BY DEF Leaves
<1>7. walked(leaf.way)
  <2>1. walked(<<Under(n)>>)
    BY <1>1, <1>2
  <2>2. walked(<<Under(Word("headers")), Under(n)>>)
    BY <1>1, <1>3
  <2>3. walked(<<Under(Word("items")), Inside("list"), Under(n)>>)
    BY <1>1, <1>4
  <2>4. walked(<<Under(Word("items")), Inside("tuple"), Inside("list"), Under(n), Under(Word("path"))>>)
    BY <1>1, <1>5
  <2>5. QED
    BY <1>6, <2>1, <2>2, <2>3, <2>4 DEF Ways
<1>8. QED
  BY <1>7 DEF walked

(* So that a leaf is hidden exactly when a name above it is sensitive.     *)
LEMMA HiddenIsSensitive ==
  ASSUME NEW leaf \in Leaves, NEW fields
  PROVE  Hidden(leaf.way, fields) <=> Sensitive(leaf, fields)
<1>1. \A i \in DOMAIN leaf.way : \A j \in 1 .. i - 1 : leaf.way[j].in \in {"mapping", "list", "tuple"}
  BY WaysAreWalked
<1>2. QED
  BY <1>1 DEF Hidden, Sensitive

(* Everything is part of a line when the redactor gets it. *)
LEMMA RedactsLast ==
  ASSUME NEW logger, NEW leaf, leaf.from \in {"call", "context", "extra"}
  PROVE  AddedAt(Chain(logger), leaf) < Step(Chain(logger), "redact")
<1> DEFINE c == Chain(logger)
<1>1. /\ DOMAIN c \in {1..6, 1..7}
      /\ c[1] = "merge_contextvars" /\ c[2] = "level" /\ c[3] = "extra" /\ c[4] = "redact"
      /\ c[5] = "drop_color" /\ c[6] = "timestamp" /\ (7 \in DOMAIN c => c[7] = "filter")
  <2>1. CASE logger = "stdlib"
    <3>1. c = <<"merge_contextvars", "level", "extra", "redact", "drop_color", "timestamp">> \o <<"filter">>
      BY <2>1 DEF Chain, SharedProcessors
    <3> HIDE DEF c
    <3>2. QED
      BY <3>1
  <2>2. CASE logger # "stdlib"
    <3>1. c = <<"merge_contextvars", "level", "extra", "redact", "drop_color", "timestamp">>
      BY <2>2 DEF Chain, SharedProcessors
    <3> HIDE DEF c
    <3>2. QED
      BY <3>1
  <2>3. QED
    BY <2>1, <2>2
<1>2. /\ \E i \in DOMAIN c : c[i] = "merge_contextvars"
      /\ \A i \in DOMAIN c : c[i] = "merge_contextvars" => i = 1
  BY <1>1
<1>3. (\E i \in DOMAIN c : c[i] = "extra") /\ \A i \in DOMAIN c : c[i] = "extra" => i = 3
  BY <1>1
<1>4. (\E i \in DOMAIN c : c[i] = "redact") /\ \A i \in DOMAIN c : c[i] = "redact" => i = 4
  BY <1>1
<1>5. Step(c, "merge_contextvars") = 1 /\ Step(c, "extra") = 3 /\ Step(c, "redact") = 4
  BY <1>2, <1>3, <1>4 DEF Step
<1>6. AddedAt(c, leaf) \in {0, 1, 3}
  BY <1>5 DEF AddedAt
<1>7. QED
  BY <1>5, <1>6 DEF c

(* core/logger.py: every line is redacted, and only as far as it must be.  *)
LEMMA AllLogsAreRedacted ==
  ASSUME NEW s
  PROVE  LogsAreRedacted(s)
<1> SUFFICES ASSUME NEW leaf \in Leaves, NEW logger \in {"stdlib", "structlog"}, NEW excluded
             PROVE  LET secret == s.LOG_REDACTION_ENABLED = "yes" /\ Sensitive(leaf, LogFields(s))
                    IN /\ secret => ~ Logged(s, logger, leaf, excluded)
                       /\ ~ secret /\ leaf.way[1].name \notin excluded => Logged(s, logger, leaf, excluded)
  BY DEF LogsAreRedacted
<1>1. AddedAt(Chain(logger), leaf) < Step(Chain(logger), "redact")
  BY RedactsLast DEF Leaves
<1>2. RedactedInLog(s, Chain(logger), leaf)
        <=> s.LOG_REDACTION_ENABLED = "yes" /\ Sensitive(leaf, LogFields(s))
  BY <1>1, HiddenIsSensitive DEF RedactedInLog
<1>3. leaf.way[1].name \notin excluded => ~Filtered(Chain(logger), leaf, excluded)
  BY DEF Filtered
<1>4. QED
  BY <1>2, <1>3 DEF Logged

(* core/sentry.py: the same of what Sentry gets. *)
LEMMA AllEventsAreScrubbed ==
  ASSUME NEW s
  PROVE  SentryIsScrubbed(s)
BY HiddenIsSensitive DEF SentryIsScrubbed, Sent

(* Words that contain a fragment contain its first word. *)
LEMMA ContainsFirst ==
  ASSUME NEW S, NEW words \in Seq(S), NEW fragment \in Seq(S), Len(fragment) >= 1, Contains(words, fragment)
  PROVE  \E i \in DOMAIN words : words[i] = fragment[1]
<1>1. PICK i \in 1 .. Len(words) + 1 - Len(fragment) : SubSeq(words, i, i + Len(fragment) - 1) = fragment
  BY DEF Contains
<1>2. i \in 1..Len(words) /\ i \in Int /\ Len(fragment) \in Nat /\ Len(words) \in Nat
  BY <1>1
<1>3. SubSeq(words, i, i + Len(fragment) - 1)[1] = words[i]
  BY <1>2
<1>4. fragment[1] = words[i]
  BY <1>1, <1>3
<1>5. i \in DOMAIN words
  BY <1>2
<1>6. QED
  BY <1>4, <1>5

(* The identifiers of a request are no secrets to either filter. *)
LEMMA IdentifiersAreNoSecrets ==
  ASSUME NEW name \in Propagated \cup {Word("headers")}
  PROVE  /\ ~ShouldRedact(name, HeaderFields)
         /\ \A s : ~ShouldRedact(name, LogFields(s))
<1> DEFINE first == {"token", "secret", "password", "api", "email"}
           fragments == {<<"token">>, <<"secret">>, <<"password">>, <<"api", "key">>, <<"email">>}
           S == {"headers", "x", "request", "id", "correlation", "key"} \cup first
<1>1. /\ Normalize(name) \in Seq(S)
      /\ \A i \in DOMAIN Normalize(name) : Normalize(name)[i] \notin first
  <2>1. \/ Normalize(name) = <<"headers">> \/ Normalize(name) = <<"x", "request", "id">>
        \/ Normalize(name) = <<"x", "correlation", "id">>
    BY DEF Propagated, Word, Name, Normalize
  <2> DEFINE words == Normalize(name)
  <2> HIDE DEF words
  <2>2. CASE words = <<"headers">>
    BY <2>2 DEF words
  <2>3. CASE words = <<"x", "request", "id">>
    BY <2>3 DEF words
  <2>4. CASE words = <<"x", "correlation", "id">>
    BY <2>4 DEF words
  <2>5. QED
    BY <2>1, <2>2, <2>3, <2>4 DEF words
<1>2. ASSUME NEW f \in fragments
      PROVE  f \in Seq(S) /\ Len(f) >= 1 /\ f[1] \in first
  <2>1. CASE f = <<"api", "key">>
    BY <2>1
  <2>2. CASE f # <<"api", "key">>
    <3>1. PICK w \in first : f = <<w>>
      BY <2>2
    <3>2. QED
      BY <3>1
  <2>3. QED
    BY <2>1, <2>2
<1> HIDE DEF first, fragments, S
<1>3. \A f \in fragments : ~Contains(Normalize(name), f)
  BY <1>1, <1>2, ContainsFirst
<1>4. HeaderFields.fragments \subseteq fragments /\ \A s : LogFields(s).fragments \subseteq fragments
  BY DEF HeaderFields, LogFields, fragments
<1>5. Normalize(name) \notin HeaderFields.exact /\ \A s : Normalize(name) \notin LogFields(s).exact
  <2>1. Normalize(name)[1] \in {"headers", "x"} /\ Len(Normalize(name)) \in {1, 3}
    BY DEF Propagated, Word, Name, Normalize
  <2>2. \A w \in {<<"set", "cookie">>, <<"api", "key">>, <<"password">>, <<"email">>, <<"authorization">>, <<"cookie">>} :
          w[1] \notin {"headers", "x"}
    OBVIOUS
  <2>3. Normalize(name) # <<"x", "api", "key">>
    BY DEF Propagated, Word, Name, Normalize
  <2>4. QED
    BY <2>1, <2>2, <2>3 DEF HeaderFields, LogFields
<1>6. QED
  BY <1>3, <1>4, <1>5 DEF ShouldRedact

(* Every credential of an outbound request is one to its logging hook. *)
LEMMA CredentialsAreSecrets ==
  ASSUME NEW name \in CredentialHeaders
  PROVE  ShouldRedact(name, HeaderFields)
<1>1. Normalize(name) \in {<<"authorization">>, <<"x", "api", "key">>, <<"set", "cookie">>, <<"access", "token">>}
  BY DEF CredentialHeaders, Authorization, XApiKey, Word, Name, Normalize
<1>2. Contains(<<"access", "token">>, <<"token">>)
  <2> DEFINE S == {"access", "token"}
             w == <<"access", "token">>
  <2>1. w \in Seq(S) /\ Len(w) = 2 /\ w[2] = "token" /\ Len(<<"token">>) = 1
    OBVIOUS
  <2> HIDE DEF w, S
  <2>2. SubSeq(w, 2, 2) \in Seq(S) /\ Len(SubSeq(w, 2, 2)) = 1 /\ SubSeq(w, 2, 2)[1] = "token"
    BY <2>1
  <2>3. SubSeq(w, 2, 2) = <<"token">>
    <3>1. \A t \in Seq(S) : Len(t) = 1 /\ t[1] = "token" => t = <<"token">>
      OBVIOUS
    <3>2. QED
      BY <2>2, <3>1
  <2>4. Contains(w, <<"token">>)
    BY <2>1, <2>3 DEF Contains
  <2>5. QED
    BY <2>4 DEF w
<1>3. QED
  BY <1>1, <1>2 DEF ShouldRedact, HeaderFields

(* http_client/logging.py: no credential is logged, every identifier is.   *)
LEMMA AllOutboundIsRedacted ==
  ASSUME NEW s
  PROVE  OutboundIsRedacted(s)
<1>1. \A name, fields : Hidden(<<Under(name)>>, fields) <=> ShouldRedact(name, fields)
  BY DEF Hidden, Under
<1>2. ASSUME NEW hooks, NEW i, NEW headers, NEW name \in CredentialHeaders
      PROVE  ~ HeaderLogged(s, hooks, i, headers, name)
  BY <1>1, CredentialsAreSecrets DEF HeaderLogged
<1>3. ASSUME NEW hooks, NEW i, NEW headers, NEW name \in Propagated, hooks[i] = "LoggingRequestHook"
      PROVE  HeaderLogged(s, hooks, i, headers, name)
  <2> DEFINE way == <<Under(Word("headers")), Under(name)>>
             leaf == [from |-> "call", way |-> way]
  <2>1. name \in HeadersAt(hooks, i, headers)
    BY DEF HeadersAt
  <2>2. ~Hidden(<<Under(name)>>, HeaderFields)
    BY <1>1, IdentifiersAreNoSecrets
  <2>3. ~Hidden(way, LogFields(s))
    <3>1. ~ShouldRedact(Word("headers"), LogFields(s)) /\ ~ShouldRedact(name, LogFields(s))
      BY IdentifiersAreNoSecrets
    <3>2. \A k \in DOMAIN way : way[k].name \in {Word("headers"), name}
      BY DEF Under
    <3>3. QED
      BY <3>1, <3>2 DEF Hidden
  <2>4. ~RedactedInLog(s, Chain("structlog"), leaf) /\ ~Filtered(Chain("structlog"), leaf, {})
    BY <2>3 DEF RedactedInLog, Filtered
  <2>5. QED
    BY <1>3, <2>1, <2>2, <2>4 DEF HeaderLogged, Logged
<1>4. QED
  BY <1>2, <1>3 DEF OutboundIsRedacted

(* core/logger.py, core/log_redaction.py, core/sentry.py: whatever the     *)
(* settings, what leaves the process holds no value that was to be kept    *)
(* back, and the rest whole.                                               *)
THEOREM NothingSecretLeaves == Spec => []Redacted
<1>1. Redacted
  BY AllLogsAreRedacted, AllEventsAreScrubbed, AllOutboundIsRedacted DEF Redacted
<1>2. QED
  BY <1>1, PTL
(*************************** roles and permissions *************************)

(* What each role stands for by itself.                                    *)
LEMMA RolesOfRole ==
  /\ Inherited("superuser") = {"admin"}
  /\ Inherited("admin") = {"authenticated"}
  /\ \A r : r \notin {"superuser", "admin"} => Inherited(r) = {}
BY DEF Inherited, RoleInheritance

(* One step of inheritance adds what the roles that have one inherit.      *)
LEMMA InheritAdds ==
  ASSUME NEW roles, NEW r
  PROVE  r \in Inherit(roles) <=> \/ r \in roles
                                  \/ r = "admin" /\ "superuser" \in roles
                                  \/ r = "authenticated" /\ "admin" \in roles
<1>1. r \in Inherit(roles) <=> r \in roles \/ \E q \in roles : r \in Inherited(q)
  BY DEF Inherit
<1>2. (\E q \in roles : r \in Inherited(q)) <=> \/ (r = "admin" /\ "superuser" \in roles)
                                                \/ (r = "authenticated" /\ "admin" \in roles)
  BY RolesOfRole
<1>3. QED
  BY <1>1, <1>2

(* The three steps of ExpandRoles, taken together.                         *)
LEMMA ExpandedRole ==
  ASSUME NEW roles, NEW r
  PROVE  r \in ExpandRoles(roles) <=> \/ r \in roles
                                      \/ r = "admin" /\ "superuser" \in roles
                                      \/ r = "authenticated" /\ roles \cap {"admin", "superuser"} # {}
<1> DEFINE once == Inherit(roles)
           twice == Inherit(once)
<1>1. r \in ExpandRoles(roles) <=> \/ r \in twice
                                   \/ (r = "admin" /\ "superuser" \in twice)
                                   \/ (r = "authenticated" /\ "admin" \in twice)
  BY InheritAdds DEF ExpandRoles
<1>2. \A q : q \in twice <=> \/ q \in once
                             \/ (q = "admin" /\ "superuser" \in once)
                             \/ (q = "authenticated" /\ "admin" \in once)
  BY InheritAdds
<1>3. \A q : q \in once <=> \/ q \in roles
                            \/ (q = "admin" /\ "superuser" \in roles)
                            \/ (q = "authenticated" /\ "admin" \in roles)
  BY InheritAdds
<1> HIDE DEF once, twice
<1>4. QED
  BY <1>1, <1>2, <1>3

(* PermissionPolicy.expand_roles: its loop ends with the least set of roles *)
(* that holds those given and all they inherit.                            *)
THEOREM RolesAreExpanded ==
  ASSUME NEW roles
  PROVE  /\ roles \subseteq ExpandRoles(roles)
         /\ \A r \in ExpandRoles(roles) : Inherited(r) \subseteq ExpandRoles(roles)
         /\ \A closed : /\ roles \subseteq closed
                        /\ \A r \in closed : Inherited(r) \subseteq closed
                        => ExpandRoles(roles) \subseteq closed
<1>1. roles \subseteq ExpandRoles(roles)
  BY ExpandedRole
<1>2. ASSUME NEW r \in ExpandRoles(roles), NEW q \in Inherited(r)
      PROVE  q \in ExpandRoles(roles)
  <2>1. (r = "superuser" /\ q = "admin") \/ (r = "admin" /\ q = "authenticated")
    BY <1>2, RolesOfRole
  <2>2. QED
    BY <1>2, <2>1, ExpandedRole
<1>3. ASSUME NEW closed, roles \subseteq closed, \A r \in closed : Inherited(r) \subseteq closed,
             NEW r \in ExpandRoles(roles)
      PROVE  r \in closed
  <2>1. ("superuser" \in closed => "admin" \in closed) /\ ("admin" \in closed => "authenticated" \in closed)
    BY <1>3, RolesOfRole
  <2>2. QED
    BY <1>3, <2>1, ExpandedRole
<1>4. QED
  BY <1>1, <1>2, <1>3

(* PermissionPolicy.build_subject: a superuser may do whatever is asked.   *)
THEOREM SuperusersMayAll ==
  ASSUME NEW p, p.superuser, NEW required
  PROVE  EnsurePermissions(BuildSubject(p), required)
<1> DEFINE roles == ClaimValues(p.roles) \cup {DefaultRole} \cup (IF p.superuser THEN {"admin", "superuser"} ELSE {})
<1>1. "superuser" \in ExpandRoles(ExpandRoles(roles))
  BY ExpandedRole
<1>2. RolePermissions["superuser"] = {Wildcard} /\ "superuser" \in DOMAIN RolePermissions
  BY DEF RolePermissions
<1>3. Wildcard \in PermissionsForRoles(ExpandRoles(roles))
  BY <1>1, <1>2 DEF PermissionsForRoles
<1>4. Wildcard \in BuildSubject(p).permissions
  BY <1>3 DEF BuildSubject
<1>5. QED
  BY <1>4 DEF EnsurePermissions, HasPermission

(* The same: a name in a token that is no role of the policy, and being    *)
(* logged in, give no permission; only explicit grants and scopes do.      *)
THEOREM UnknownRolesGrantNothing ==
  ASSUME NEW p, ~p.superuser, ClaimValues(p.roles) \cap {"admin", "superuser"} = {}
  PROVE  BuildSubject(p).permissions = ClaimValues(p.permissions) \cup ScopeValues(p.scopes)
<1> DEFINE roles == ClaimValues(p.roles) \cup {DefaultRole} \cup (IF p.superuser THEN {"admin", "superuser"} ELSE {})
<1>1. "admin" \notin roles /\ "superuser" \notin roles
  BY DEF DefaultRole
<1>2. \A r \in ExpandRoles(ExpandRoles(roles)) : r \notin {"admin", "superuser"}
  BY <1>1, ExpandedRole
<1>3. \A r : r \notin {"admin", "superuser"} =>
        (IF r \in DOMAIN RolePermissions THEN RolePermissions[r] ELSE {}) = {}
  BY DEF RolePermissions
<1>4. PermissionsForRoles(ExpandRoles(roles)) = {}
  BY <1>2, <1>3 DEF PermissionsForRoles
<1>5. BuildSubject(p).permissions
        = PermissionsForRoles(ExpandRoles(roles)) \cup ClaimValues(p.permissions) \cup ScopeValues(p.scopes)
  BY DEF BuildSubject
<1>6. QED
  BY <1>4, <1>5
=============================================================================

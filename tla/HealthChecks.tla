---------------------------- MODULE HealthChecks ----------------------------
(***************************************************************************)
(* The readiness endpoints of an API process (core/health.py,              *)
(* api/v1/health.py, api/v1/internal_health.py): requests like any other   *)
(* for ApiLifecycle, whose handlers ask the dependencies one after the     *)
(* other, with the handles they found when they began.  A dependency comes *)
(* and goes, so whether it answers is open at every step.                  *)
(***************************************************************************)
EXTENDS ApiLifecycle

CONSTANT Probes  \* the requests that are GET /ready or GET /internal/health

(* lifespan opens the cache before the queue.                              *)
ASSUME ProbesAssumption ==
  /\ Probes \subseteq Requests
  /\ \E i, j \in 1..Len(Order) : i < j /\ Order[i] = "cache" /\ Order[j] = "queue"

(* build_readiness_contract: in the order snapshot asks them.              *)
Dependencies == <<"database", "cache", "queue", "limiter">>

Names == {Dependencies[i] : i \in 1..Len(Dependencies)}

VARIABLES
  endpoint,  \* probe |-> "none", "ready" or "internal"
  found,     \* probe |-> the handles the contract was built with
  asked,     \* probe |-> dependencies asked so far
  statuses,  \* probe |-> the dependencies that are STATUS_HEALTHY
  worker_ok, \* probe |-> the status of the worker is STATUS_HEALTHY
  answer,    \* probe |-> 0 for none yet, 200 or 503
  reached    \* history: probe |-> what answered it, "heartbeat" included

probe_vars == <<endpoint, found, asked, statuses, worker_ok, answer, reached>>
health_vars == <<vars, probe_vars>>

HealthInit ==
  /\ Init
  /\ endpoint = [q \in Probes |-> "none"]
  /\ found = [q \in Probes |-> {}]
  /\ asked = [q \in Probes |-> 0]
  /\ statuses = [q \in Probes |-> {}]
  /\ worker_ok = [q \in Probes |-> FALSE]
  /\ answer = [q \in Probes |-> 0]
  /\ reached = [q \in Probes |-> {}]

(* The handler can run: its request is neither answered nor cancelled.     *)
InHandler(q) == request[q] = "handled" /\ answer[q] = 0

(* The contract takes queue.pool, the limiter's client or None, and the     *)
(* client async_get_redis made of cache.pool; nothing is awaited between.  *)
build_runtime_readiness_contract(q) ==
  /\ InHandler(q) /\ endpoint[q] = "none"
  /\ found' = [found EXCEPT ![q] = published]
  /\ \E e \in {"ready", "internal"} : endpoint' = [endpoint EXCEPT ![q] = e]
  /\ UNCHANGED <<vars, asked, statuses, worker_ok, answer, reached>>

(* internal_health looks for the heartbeat before it evaluates the         *)
(* contract; no pool, an exception and no key are the same answer.         *)
check_worker_health(q) ==
  /\ InHandler(q) /\ endpoint[q] = "internal" /\ asked[q] = 0
  /\ "heartbeat" \notin reached[q]
  /\ "queue" \in found[q]
  /\ worker_ok' = [worker_ok EXCEPT ![q] = TRUE]
  /\ reached' = [reached EXCEPT ![q] = @ \cup {"heartbeat"}]
  /\ UNCHANGED <<vars, endpoint, found, asked, statuses, answer>>

Asking(q) ==
  /\ InHandler(q) /\ endpoint[q] # "none"
  /\ asked[q] < Len(Dependencies)

(* Given no pool, async_get_redis makes a client for redis-py's default,    *)
(* localhost: whatever answers there is taken for the cache.               *)
Askable(q, d) == d \in found[q] \cup {"database", "cache"}

(* Mutant of Probe: a missing handle is taken for a disabled feature.      *)
ProbeLenient(q, answers) ==
  LET d == Dependencies[asked[q] + 1]
      ok == Askable(q, d) => answers
      real == ok /\ d \in found[q] \cup {"database"}
  IN
  /\ asked' = [asked EXCEPT ![q] = @ + 1]
  /\ statuses' = [statuses EXCEPT ![q] = @ \cup {x \in {d} : ok}]
  /\ reached' = [reached EXCEPT ![q] = @ \cup {x \in {d} : real}]

(* check_database_health, check_redis_health, check_queue_health and       *)
(* check_rate_limiter_health: every exception is caught, and a handle that *)
(* was None is not asked.                                                  *)
Probe(q, answers) ==
  LET d == Dependencies[asked[q] + 1]
      ok == Askable(q, d) /\ answers
      real == ok /\ d \in found[q] \cup {"database"}
  IN
  /\ asked' = [asked EXCEPT ![q] = @ + 1]
  /\ statuses' = [statuses EXCEPT ![q] = @ \cup {x \in {d} : ok}]
  /\ reached' = [reached EXCEPT ![q] = @ \cup {x \in {d} : real}]

(* One turn of snapshot's loop. *)
snapshot(q) ==
  /\ Asking(q)
  /\ \E answers \in BOOLEAN : Probe(q, answers)
  /\ UNCHANGED <<vars, endpoint, found, worker_ok, answer>>

AllHealthy(q) ==
  /\ statuses[q] = Names
  /\ endpoint[q] = "internal" => worker_ok[q]

(* evaluate or evaluate_internal, and the status the endpoint answers; the *)
(* contract and its snapshot are gone with the handler.                    *)
evaluate(q) ==
  /\ InHandler(q) /\ asked[q] = Len(Dependencies)
  /\ answer' = [answer EXCEPT ![q] = IF AllHealthy(q) THEN 200 ELSE 503]
  /\ found' = [found EXCEPT ![q] = {}]
  /\ asked' = [asked EXCEPT ![q] = 0]
  /\ statuses' = [statuses EXCEPT ![q] = {}]
  /\ worker_ok' = [worker_ok EXCEPT ![q] = FALSE]
  /\ UNCHANGED <<vars, endpoint, reached>>

Health(q) ==
  \/ build_runtime_readiness_contract(q) \/ check_worker_health(q)
  \/ snapshot(q) \/ evaluate(q)

(* A probe responds when its handler has an answer, another request at any *)
(* time; everything else is ApiLifecycle's.                                *)
HealthNext ==
  \/ /\ Startup \/ BeginShutdown \/ Shutdown
     /\ UNCHANGED probe_vars
  \/ \E q \in Requests :
       /\ \/ Reject(q) \/ Admit(q) \/ Cancel(q) \/ Unwound(q)
          \/ Respond(q) /\ (q \in Probes => answer[q] # 0)
       /\ UNCHANGED probe_vars
  \/ \E q \in Probes : Health(q)

HealthSpec == HealthInit /\ [][HealthNext]_health_vars

HealthTypeOK ==
  /\ endpoint \in [Probes -> {"none", "ready", "internal"}]
  /\ found \in [Probes -> SUBSET Handles]
  /\ asked \in [Probes -> 0..Len(Dependencies)]
  /\ statuses \in [Probes -> SUBSET Names]
  /\ worker_ok \in [Probes -> BOOLEAN]
  /\ answer \in [Probes -> {0, 200, 503}]
  /\ reached \in [Probes -> SUBSET (Names \cup {"heartbeat"})]

(* An instance is called ready only when the database, its own cache, its  *)
(* queue and its limiter answered this very probe, and the internal        *)
(* endpoint only with a heartbeat as well.  A Redis on localhost could be  *)
(* taken for the cache only after the queue's handle is gone, because the  *)
(* stack closes the queue first.                                           *)
ReadyIsHonest ==
  \A q \in Probes : answer[q] = 200 =>
    /\ Names \subseteq reached[q]
    /\ endpoint[q] = "internal" => "heartbeat" \in reached[q]
=============================================================================

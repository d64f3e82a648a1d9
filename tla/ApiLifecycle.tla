---------------------------- MODULE ApiLifecycle ----------------------------
(***************************************************************************)
(* core/setup.py: the lifespan of one API process and the requests that    *)
(* pass GracefulShutdownMiddleware.  lifespan opens the shared resources   *)
(* in order, pushing the closer of each on an AsyncExitStack; when the     *)
(* process is told to stop it refuses new requests, waits a bounded time   *)
(* for those it counted and lets the stack unwind.                         *)
(*                                                                         *)
(* asyncio runs one coroutine at a time and active_request_lock is never   *)
(* held across an await, so a step here is what runs between two awaits.   *)
(* The stack holds the closers of Order[1..depth].                         *)
(***************************************************************************)
EXTENDS Naturals, Sequences, FiniteSets

CONSTANTS
  Requests,
  Order      \* the enabled resources, in the order lifespan opens them

(* Checked with a ping before their closer is pushed; their handle is a    *)
(* module global: cache.client, queue.pool, rate_limiter.client.           *)
Pinged == {"cache", "queue", "limiter"}

Resources == {Order[i] : i \in 1..Len(Order)}

Handles == Resources \cap Pinged

ASSUME LifecycleAssumption ==
  /\ IsFiniteSet(Requests)
  /\ Order \in Seq({"database", "sentry", "metrics", "tracing"} \cup Pinged)
  /\ \A i, j \in 1..Len(Order) : Order[i] = Order[j] => i = j

VARIABLES
  server,     \* "starting", "serving", "draining", "unwinding" or "stopped"
  depth,      \* closers on resource_stack
  busy,       \* the resource being opened or closed, in a set
  live,       \* resources that are open
  published,  \* handles that are not None
  attempted,  \* history: resources whose closing was begun
  gave_up,    \* history: the drain timed out
  shutdown_in_progress,
  active_request_count,
  active_requests_drained,
  request     \* request |-> "new", "handled", "cancelled" or "over"

stack_vars == <<depth, busy, live, published, attempted>>
request_vars == <<active_request_count, active_requests_drained, request>>
vars == <<server, stack_vars, gave_up, shutdown_in_progress, request_vars>>

Init ==
  /\ server = "starting"
  /\ depth = 0
  /\ busy = {}
  /\ live = {}
  /\ published = {}
  /\ attempted = {}
  /\ gave_up = FALSE
  /\ shutdown_in_progress = FALSE
  /\ active_request_count = 0
  /\ active_requests_drained = TRUE
  /\ request = [q \in Requests |-> "new"]

(*************************** startup ***************************************)

Opening == server = "starting" /\ busy = {} /\ depth < Len(Order)

NextUp == Order[depth + 1]

Rest == <<gave_up, shutdown_in_progress, request_vars>>

(* A pool is created; RateLimiter.initialize publishes it before the ping. *)
Connect ==
  /\ Opening /\ NextUp \in Pinged
  /\ busy' = {NextUp}
  /\ live' = live \cup {NextUp}
  /\ published' = published \cup ({NextUp} \cap {"limiter"})
  /\ UNCHANGED <<server, depth, attempted, Rest>>

Pushed(r) ==
  /\ depth' = depth + 1
  /\ busy' = {}
  /\ live' = live \cup {r}
  /\ published' = published \cup ({r} \cap Handles)
  /\ UNCHANGED <<server, attempted, Rest>>

Verified == server = "starting" /\ \E r \in busy : Pushed(r)

(* The engine, Sentry, metrics and tracing have no handle to publish. *)
Initialized == Opening /\ NextUp \notin Pinged /\ Pushed(NextUp)

(* An opening that leaves nothing behind raises: the stack unwinds. *)
InitFails ==
  /\ Opening
  /\ server' = "unwinding"
  /\ UNCHANGED <<stack_vars, Rest>>

(* Mutant of PingFails: the failed resource is not closed. *)
PingFailsLeaks ==
  /\ server = "starting" /\ busy # {}
  /\ server' = "unwinding"
  /\ busy' = {}
  /\ UNCHANGED <<depth, live, published, attempted, Rest>>

(* The ping raises: close what was connected, then raise as well.  When    *)
(* the closing raises too, RateLimiter keeps its handles.                  *)
PingFails ==
  /\ server = "starting" /\ busy # {}
  /\ server' = "unwinding"
  /\ busy' = {}
  /\ attempted' = attempted \cup busy
  /\ \/ live' = live \ busy /\ published' = published \ busy
     \/ UNCHANGED <<live, published>>
  /\ UNCHANGED <<depth, Rest>>

Started ==
  /\ server = "starting" /\ busy = {} /\ depth = Len(Order)
  /\ server' = "serving"
  /\ UNCHANGED <<stack_vars, Rest>>

(*************************** requests **************************************)

(* The server's sockets are open from the end of startup until it stops.   *)
Accepting ==
  \/ server \in {"serving", "draining"}
  \/ server = "unwinding" /\ shutdown_in_progress

(* 503 without being counted. *)
Reject(q) ==
  /\ Accepting /\ request[q] = "new"
  /\ shutdown_in_progress
  /\ request' = [request EXCEPT ![q] = "over"]
  /\ UNCHANGED <<server, stack_vars, gave_up, shutdown_in_progress,
                 active_request_count, active_requests_drained>>

(* Mutant of begin_api_request: the drained event stays set. *)
begin_uncleared(q) ==
  /\ active_request_count' = active_request_count + 1
  /\ request' = [request EXCEPT ![q] = "handled"]
  /\ UNCHANGED active_requests_drained

begin_api_request(q) ==
  /\ active_request_count' = active_request_count + 1
  /\ active_requests_drained' = FALSE
  /\ request' = [request EXCEPT ![q] = "handled"]

(* dispatch up to call_next: the flag and the count in one go. *)
Admit(q) ==
  /\ Accepting /\ request[q] = "new"
  /\ ~shutdown_in_progress
  /\ begin_api_request(q)
  /\ UNCHANGED <<server, stack_vars, gave_up, shutdown_in_progress>>

end_api_request(q, to) ==
  /\ active_request_count' =
       IF active_request_count > 0 THEN active_request_count - 1 ELSE 0
  /\ active_requests_drained' =
       (active_requests_drained \/ active_request_count <= 1)
  /\ request' = [request EXCEPT ![q] = to]

Respond(q) ==
  /\ request[q] = "handled"
  /\ end_api_request(q, "over")
  /\ UNCHANGED <<server, stack_vars, gave_up, shutdown_in_progress>>

(* RequestTimeoutMiddleware or a disconnect cancels dispatch: its finally  *)
(* runs before the task group has cancelled the endpoint below it.         *)
Cancel(q) ==
  /\ request[q] = "handled"
  /\ end_api_request(q, "cancelled")
  /\ UNCHANGED <<server, stack_vars, gave_up, shutdown_in_progress>>

(* The cancelled endpoint has closed its session. *)
Unwound(q) ==
  /\ request[q] = "cancelled"
  /\ request' = [request EXCEPT ![q] = "over"]
  /\ UNCHANGED <<server, stack_vars, gave_up, shutdown_in_progress,
                 active_request_count, active_requests_drained>>

(*************************** shutdown **************************************)

(* The body of lifespan ends: set the flag, and wait unless drained. *)
BeginShutdown ==
  /\ server = "serving"
  /\ shutdown_in_progress' = TRUE
  /\ server' = IF active_requests_drained THEN "unwinding" ELSE "draining"
  /\ UNCHANGED <<stack_vars, gave_up, request_vars>>

Drained ==
  /\ server = "draining" /\ active_requests_drained
  /\ server' = "unwinding"
  /\ UNCHANGED <<stack_vars, Rest>>

(* Mutant of DrainTimeout: an unbounded wait. *)
DrainForever ==
  /\ server = "draining" /\ active_requests_drained
  /\ server' = "unwinding"
  /\ gave_up' = TRUE
  /\ UNCHANGED <<stack_vars, shutdown_in_progress, request_vars>>

(* API_SHUTDOWN_WAIT_SECONDS have passed. *)
DrainTimeout ==
  /\ server = "draining"
  /\ server' = "unwinding"
  /\ gave_up' = TRUE
  /\ UNCHANGED <<stack_vars, shutdown_in_progress, request_vars>>

(* The next closer runs up to its await.  The cache and the queue give up  *)
(* their handle here, RateLimiter keeps it until its client is closed.     *)
BeginClose ==
  /\ server = "unwinding" /\ busy = {} /\ depth > 0
  /\ depth' = depth - 1
  /\ busy' = {Order[depth]}
  /\ attempted' = attempted \cup {Order[depth]}
  /\ published' = published \ ({Order[depth]} \ {"limiter"})
  /\ UNCHANGED <<server, live, Rest>>

(* It returns or raises: AsyncExitStack goes on with the next one. *)
EndClose ==
  /\ server = "unwinding" /\ busy # {}
  /\ busy' = {}
  /\ \/ live' = live \ busy /\ published' = published \ busy
     \/ UNCHANGED <<live, published>>
  /\ UNCHANGED <<server, depth, attempted, Rest>>

Stopped ==
  /\ server = "unwinding" /\ busy = {} /\ depth = 0
  /\ server' = "stopped"
  /\ UNCHANGED <<stack_vars, Rest>>

Startup == Connect \/ Verified \/ Initialized \/ InitFails \/ PingFails \/ Started
Shutdown == Drained \/ DrainTimeout \/ BeginClose \/ EndClose \/ Stopped

Serve(q) == Reject(q) \/ Admit(q) \/ Respond(q) \/ Cancel(q) \/ Unwound(q)

Next ==
  \/ Startup
  \/ BeginShutdown
  \/ Shutdown
  \/ \E q \in Requests : Serve(q)

Spec == Init /\ [][Next]_vars

(* Every opening and closing ends, by success or by the timeouts of the    *)
(* drivers; the drain has its own.  No request is assumed to end.          *)
FairSpec == Spec /\ WF_vars(Startup) /\ WF_vars(Shutdown)

(*************************** properties ************************************)

TypeOK ==
  /\ server \in {"starting", "serving", "draining", "unwinding", "stopped"}
  /\ depth \in 0..Len(Order)
  /\ busy \in SUBSET Resources
  /\ live \in SUBSET Resources
  /\ published \in SUBSET Handles
  /\ attempted \in SUBSET Resources
  /\ gave_up \in BOOLEAN
  /\ shutdown_in_progress \in BOOLEAN
  /\ active_request_count \in Nat
  /\ active_requests_drained \in BOOLEAN
  /\ request \in [Requests -> {"new", "handled", "cancelled", "over"}]

Handled == {q \in Requests : request[q] = "handled"}

(* A request the middleware counts finds every resource open and every     *)
(* handle published, for as long as the drain has not given up on it.      *)
HandledHaveResources ==
  Handled # {} /\ ~gave_up => live = Resources /\ published = Handles

(* Cancellations, rejections and answers in any order leave the count that *)
(* the drain waits for equal to the requests still handled.                *)
CountIsExact ==
  /\ active_request_count = Cardinality(Handled)
  /\ active_requests_drained <=> Handled = {}

(* Once the process stops, after a full life or a failed startup, nothing  *)
(* is open that was not closed at least in vain, whichever openings and    *)
(* closings raised.                                                        *)
NothingForgotten == server = "stopped" => live \subseteq attempted

(* A resource is closed only after those opened later: their closers may   *)
(* still use it.                                                           *)
ClosedInReverse ==
  \A i, j \in 1..Len(Order) :
    i < j /\ Order[i] \in attempted /\ Order[j] \in live => Order[j] \in attempted

(* Whoever finds cache.client or queue.pool set finds it open and pinged,  *)
(* even while the stack unwinds below requests the drain gave up on.       *)
HandlesAreOpen == \A r \in published \ {"limiter"} : r \in live \ busy

(* Whatever hangs in its requests, a process told to stop stops. *)
StopsInTheEnd == shutdown_in_progress ~> server = "stopped"

(* The inductive invariant: what the stack still holds is open and was     *)
(* never closed, what it no longer holds was, and the resources are        *)
(* complete for as long as requests may be admitted or are waited for.     *)
Stacked == {Order[i] : i \in 1..depth}

WhileStarting == server = "starting" =>
  /\ live = Stacked \cup busy
  /\ published = (Stacked \cap Pinged) \cup (busy \cap {"limiter"})
  /\ attempted = {}
  /\ busy # {} => depth < Len(Order) /\ busy = {NextUp} /\ NextUp \in Pinged
  /\ Handled = {} /\ ~shutdown_in_progress /\ ~gave_up

WhileServing == server \in {"serving", "draining"} =>
  /\ depth = Len(Order) /\ busy = {} /\ live = Resources /\ published = Handles
  /\ attempted = {} /\ ~gave_up
  /\ shutdown_in_progress <=> server = "draining"

WhileUnwinding == server \in {"unwinding", "stopped"} =>
  /\ Handled = {} \/ gave_up
  /\ Stacked \subseteq live \ attempted
  /\ live \subseteq Stacked \cup attempted
  /\ busy \subseteq attempted
  /\ published \subseteq Stacked \cup {"limiter"}
  /\ server = "stopped" => depth = 0

IInv == TypeOK /\ CountIsExact /\ WhileStarting /\ WhileServing /\ WhileUnwinding
=============================================================================

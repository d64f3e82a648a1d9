-------------------------- MODULE Processes_proofs --------------------------
(***************************************************************************)
(* Proofs about the two kinds of process, for any resources, jobs and      *)
(* requests: in the API process no counted request loses its resources,    *)
(* and whatever was opened is closed, in reverse; a worker keeps house in  *)
(* the same way; a probe that is answered ready is ready; and of several   *)
(* workers only one at a time runs a scheduled job, as long as no lock has *)
(* expired under its holder.                                               *)
(***************************************************************************)
EXTENDS HealthChecks, WorkerProcess, ScheduledJob, FiniteSetTheorems, TLAPS

(*************************** the lifespan **********************************)

USE LifecycleAssumption

(* The stack is a prefix of Order, and Order names nothing twice.          *)
LEMMA StackFacts ==
  ASSUME TypeOK
  PROVE  /\ Stacked \subseteq Resources
         /\ depth = 0 => Stacked = {}
         /\ depth = Len(Order) => Stacked = Resources
         /\ depth < Len(Order) => /\ NextUp \in Resources \ Stacked
                                  /\ {Order[i] : i \in 1..(depth + 1)} = Stacked \cup {NextUp}
         /\ depth > 0 => /\ Order[depth] \in Stacked
                         /\ {Order[i] : i \in 1..(depth - 1)} = Stacked \ {Order[depth]}
<1> USE DEF TypeOK, Stacked, Resources, NextUp
<1>0. Len(Order) \in Nat /\ depth \in 0..Len(Order)
  OBVIOUS
<1>1. Stacked \subseteq Resources
  BY <1>0
<1>2. depth = 0 => Stacked = {}
  OBVIOUS
<1>3. depth = Len(Order) => Stacked = Resources
  OBVIOUS
<1>4. ASSUME depth < Len(Order)
      PROVE  /\ NextUp \in Resources \ Stacked
             /\ {Order[i] : i \in 1..(depth + 1)} = Stacked \cup {NextUp}
  <2>1. depth + 1 \in 1..Len(Order) /\ 1..(depth + 1) = (1..depth) \cup {depth + 1}
    BY <1>0, <1>4
  <2>2. \A i \in 1..depth : i \in 1..Len(Order) /\ i # depth + 1
    BY <1>0, <1>4
  <2> QED
    BY <2>1, <2>2
<1>5. ASSUME depth > 0
      PROVE  /\ Order[depth] \in Stacked
             /\ {Order[i] : i \in 1..(depth - 1)} = Stacked \ {Order[depth]}
  <2>1. depth \in 1..Len(Order) /\ 1..(depth - 1) = (1..depth) \ {depth}
    BY <1>0, <1>5
  <2>2. \A i \in 1..depth : i \in 1..Len(Order)
    BY <1>0, <1>5
  <2> QED
    BY <2>1, <2>2
<1> QED
  BY <1>1, <1>2, <1>3, <1>4, <1>5

(* The invariant of the lifespan holds before it is entered.               *)
LEMMA InitIInv == Init => IInv
<1> SUFFICES ASSUME Init PROVE IInv
  OBVIOUS
<1>1. Handled = {}
  BY DEF Init, Handled
<1>2. TypeOK
  <2>1. depth \in 0..Len(Order)
    BY DEF Init
  <2>2. request \in [Requests -> {"new", "handled", "cancelled", "over"}]
    BY DEF Init
  <2> QED
    BY <2>1, <2>2 DEF Init, TypeOK
<1>3. Stacked = {}
  BY <1>2, StackFacts DEF Init
<1>4. CountIsExact
  BY <1>1, FS_EmptySet DEF Init, CountIsExact
<1> QED
  BY <1>1, <1>2, <1>3, <1>4 DEF Init, IInv, WhileStarting, WhileServing, WhileUnwinding

(* No step of the server, of a request or of the lifespan leaves the       *)
(* types.                                                                  *)
LEMMA TypeStep == TypeOK /\ WhileStarting /\ [Next]_vars => TypeOK'
<1> SUFFICES ASSUME TypeOK, WhileStarting, [Next]_vars PROVE TypeOK'
  OBVIOUS
<1>0. USE DEF TypeOK, Rest, stack_vars, request_vars
<1>1. CASE Startup
  <2>1. \A r \in busy : r \in Resources
    OBVIOUS
  <2>2. Opening => NextUp \in Resources /\ depth + 1 \in 0..Len(Order)
    BY StackFacts DEF Opening
  <2>3. CASE Connect
    BY <2>2, <2>3 DEF Connect, Opening, Handles, Pinged
  <2>4. CASE Verified
    BY <2>1, <2>4 DEF Verified, Pushed, WhileStarting
  <2>5. CASE Initialized
    BY <2>2, <2>5 DEF Initialized, Pushed
  <2>6. CASE InitFails
    BY <2>6 DEF InitFails
  <2>7. CASE PingFails
    BY <2>7 DEF PingFails
  <2>8. CASE Started
    BY <2>8 DEF Started
  <2> QED
    BY <1>1, <2>3, <2>4, <2>5, <2>6, <2>7, <2>8 DEF Startup
<1>2. CASE BeginShutdown
  BY <1>2 DEF BeginShutdown
<1>3. CASE Shutdown
  <2>1. CASE Drained
    BY <2>1 DEF Drained
  <2>2. CASE DrainTimeout
    BY <2>2 DEF DrainTimeout
  <2>3. CASE BeginClose
    <3>1. depth > 0 => Order[depth] \in Resources /\ depth - 1 \in 0..Len(Order)
      BY StackFacts
    <3> QED
      BY <2>3, <3>1 DEF BeginClose
  <2>4. CASE EndClose
    BY <2>4 DEF EndClose
  <2>5. CASE Stopped
    BY <2>5 DEF Stopped
  <2> QED
    BY <1>3, <2>1, <2>2, <2>3, <2>4, <2>5 DEF Shutdown
<1>4. ASSUME NEW q \in Requests, Serve(q) PROVE TypeOK'
  <2>1. active_request_count' \in Nat
    BY <1>4 DEF Serve, Reject, Admit, Respond, Cancel, Unwound, begin_api_request, end_api_request
  <2>2. active_requests_drained' \in BOOLEAN
    BY <1>4, Zenon DEF Serve, Reject, Admit, Respond, Cancel, Unwound, begin_api_request, end_api_request
  <2>3. request' \in [Requests -> {"new", "handled", "cancelled", "over"}]
    BY <1>4 DEF Serve, Reject, Admit, Respond, Cancel, Unwound, begin_api_request, end_api_request
  <2>4. UNCHANGED <<server, stack_vars, gave_up, shutdown_in_progress>>
    BY <1>4 DEF Serve, Reject, Admit, Respond, Cancel, Unwound
  <2> QED
    BY <2>1, <2>2, <2>3, <2>4
<1>5. CASE UNCHANGED vars
  BY <1>5 DEF vars
<1> QED
  BY <1>1, <1>2, <1>3, <1>4, <1>5 DEF Next

(* What a request's step does to the set of handled requests.              *)
LEMMA HandledStep ==
  ASSUME TypeOK, NEW q \in Requests, Serve(q)
  PROVE  /\ Admit(q) => q \notin Handled /\ Handled' = Handled \cup {q}
         /\ Respond(q) \/ Cancel(q) => q \in Handled /\ Handled' = Handled \ {q}
         /\ Reject(q) \/ Unwound(q) => Handled' = Handled
<1> USE DEF TypeOK, Handled
<1>1. ASSUME Admit(q) PROVE q \notin Handled /\ Handled' = Handled \cup {q}
  BY <1>1 DEF Admit, begin_api_request
<1>2. ASSUME Respond(q) \/ Cancel(q) PROVE q \in Handled /\ Handled' = Handled \ {q}
  <2>1. \E to \in {"over", "cancelled"} : request' = [request EXCEPT ![q] = to]
    BY <1>2 DEF Respond, Cancel, end_api_request
  <2> QED
    BY <1>2, <2>1 DEF Respond, Cancel
<1>3. ASSUME Reject(q) \/ Unwound(q) PROVE Handled' = Handled
  BY <1>3 DEF Reject, Unwound
<1> QED
  BY <1>1, <1>2, <1>3

(* The counter goes up and down with the requests that are handled.        *)
LEMMA CountStep == TypeOK /\ CountIsExact /\ [Next]_vars => CountIsExact'
<1> SUFFICES ASSUME TypeOK, CountIsExact, [Next]_vars PROVE CountIsExact'
  OBVIOUS
<1>0. IsFiniteSet(Handled) /\ Cardinality(Handled) \in Nat
  BY FS_Subset, FS_CardinalityType DEF Handled
<1>1. ASSUME UNCHANGED request_vars PROVE CountIsExact'
  BY <1>1 DEF CountIsExact, Handled, request_vars
<1>2. ASSUME NEW q \in Requests, Serve(q) PROVE CountIsExact'
  <2>1. CASE Admit(q)
    <3>1. q \notin Handled /\ Handled' = Handled \cup {q}
      BY <1>2, <2>1, HandledStep
    <3>2. Cardinality(Handled') = Cardinality(Handled) + 1
      BY <1>0, <3>1, FS_AddElement
    <3> QED
      BY <2>1, <3>1, <3>2 DEF CountIsExact, Admit, begin_api_request
  <2>2. CASE Respond(q) \/ Cancel(q)
    <3>1. q \in Handled /\ Handled' = Handled \ {q}
      BY <1>2, <2>2, HandledStep
    <3>2. IsFiniteSet(Handled') /\ Cardinality(Handled') = Cardinality(Handled) - 1
      BY <1>0, <3>1, FS_RemoveElement
    <3>3. Cardinality(Handled') \in Nat /\ (Cardinality(Handled') = 0 <=> Handled' = {})
      BY <3>2, FS_CardinalityType, FS_EmptySet
    <3>4. /\ active_request_count' =
                 IF active_request_count > 0 THEN active_request_count - 1 ELSE 0
          /\ active_requests_drained' =
                 (active_requests_drained \/ active_request_count <= 1)
      BY <2>2 DEF Respond, Cancel, end_api_request
    <3>5. active_request_count = Cardinality(Handled) /\ ~active_requests_drained
      BY <3>1 DEF CountIsExact
    <3>6. active_request_count' = Cardinality(Handled')
      BY <1>0, <3>2, <3>3, <3>4, <3>5
    <3>7. active_request_count <= 1 <=> Cardinality(Handled') = 0
      BY <1>0, <3>2, <3>3, <3>5
    <3>8. active_requests_drained' <=> Handled' = {}
      BY <3>3, <3>4, <3>5, <3>7, Zenon
    <3> QED
      BY <3>6, <3>8 DEF CountIsExact
  <2>3. CASE Reject(q) \/ Unwound(q)
    <3>1. Handled' = Handled
      BY <1>2, <2>3, HandledStep
    <3> QED
      BY <2>3, <3>1 DEF CountIsExact, Reject, Unwound
  <2> QED
    BY <1>2, <2>1, <2>2, <2>3 DEF Serve
<1>3. ASSUME Startup \/ BeginShutdown \/ Shutdown \/ UNCHANGED vars
      PROVE  UNCHANGED request_vars
  BY <1>3 DEF Startup, Connect, Verified, Initialized, Pushed, InitFails, PingFails, Started,
     BeginShutdown, Shutdown, Drained, DrainTimeout, BeginClose, EndClose, Stopped, Rest, vars
<1> QED
  BY <1>1, <1>2, <1>3 DEF Next

(* A step of a request leaves the resources alone, and only a serving      *)
(* process lets one in.                                                    *)
LEMMA ServeStep ==
  ASSUME IInv, NEW q \in Requests, Serve(q)
  PROVE  (WhileStarting /\ WhileServing /\ WhileUnwinding)'
<1>1. UNCHANGED <<server, stack_vars, gave_up, shutdown_in_progress>>
  BY DEF Serve, Reject, Admit, Respond, Cancel, Unwound
<1>2. UNCHANGED <<server, depth, busy, live, published, attempted, gave_up,
                  shutdown_in_progress, Stacked, NextUp>>
  BY <1>1 DEF stack_vars, Stacked, NextUp
<1>3. Handled' \subseteq Handled \/ server = "serving"
  BY HandledStep DEF IInv, Serve, Admit, Accepting, WhileServing, WhileUnwinding
<1> QED
  BY <1>2, <1>3 DEF IInv, WhileStarting, WhileServing, WhileUnwinding

(* Every step of the startup keeps the parts of the phases.                *)
LEMMA StartupStep ==
  ASSUME IInv, Startup
  PROVE  (WhileStarting /\ WhileServing /\ WhileUnwinding)'
<1> USE DEF IInv, stack_vars, Rest
<1>0. server = "starting" /\ Handled' = Handled /\ UNCHANGED <<gave_up, shutdown_in_progress>>
  BY DEF Startup, Opening, Connect, Verified, Initialized, Pushed, InitFails, PingFails,
     Started, Handled, request_vars
<1>1. /\ live = Stacked \cup busy
      /\ published = (Stacked \cap Pinged) \cup (busy \cap {"limiter"})
      /\ attempted = {} /\ Handled = {} /\ ~shutdown_in_progress
      /\ busy # {} => depth < Len(Order) /\ busy = {NextUp} /\ NextUp \in Pinged
  BY <1>0 DEF WhileStarting
<1>2. CASE Connect
  <2>1. Stacked' = Stacked /\ NextUp' = NextUp
    BY <1>2 DEF Connect, Stacked, NextUp
  <2>2. server' = "starting"
    BY <1>0, <1>2 DEF Connect
  <2> QED
    BY <1>0, <1>1, <1>2, <2>1, <2>2
    DEF Connect, Opening, WhileStarting, WhileServing, WhileUnwinding
<1>3. CASE Verified \/ Initialized
  <2>1. depth < Len(Order) /\ Pushed(NextUp) /\ busy \subseteq {NextUp}
    BY <1>1, <1>3 DEF Verified, Initialized, Opening
  <2>2. Stacked' = Stacked \cup {NextUp}
    BY <2>1, StackFacts DEF Pushed, Stacked
  <2>3. server' = "starting" /\ busy' = {} /\ attempted' = {}
    BY <1>0, <1>1, <2>1 DEF Pushed
  <2>4. live' = Stacked' \cup busy'
    BY <1>1, <2>1, <2>2, <2>3 DEF Pushed
  <2>5. busy \cap {"limiter"} \subseteq {NextUp} \cap Handles
    BY <1>1, <2>1, StackFacts DEF Handles
  <2>6. {NextUp} \cap Handles = {NextUp} \cap Pinged
    BY <2>1, StackFacts DEF Handles
  <2>7. published' = (Stacked' \cap Pinged) \cup (busy' \cap {"limiter"})
    BY <1>1, <2>1, <2>2, <2>3, <2>5, <2>6 DEF Pushed
  <2> QED
    BY <1>0, <1>1, <2>3, <2>4, <2>7 DEF WhileStarting, WhileServing, WhileUnwinding
<1>4. CASE InitFails \/ PingFails
  <2>1. Stacked' = Stacked /\ server' = "unwinding" /\ Handled' = {} /\ busy' = {}
    BY <1>0, <1>1, <1>4 DEF InitFails, PingFails, Stacked, Opening
  <2>2. busy \cap Stacked = {}
    BY <1>1, StackFacts
  <2>3. /\ attempted' = busy
        /\ live' = live \/ live' = live \ busy
        /\ published' \subseteq published
    BY <1>1, <1>4 DEF InitFails, PingFails, Opening
  <2>4. Stacked' \subseteq live' \ attempted' /\ live' \subseteq Stacked' \cup attempted'
    BY <1>1, <2>1, <2>2, <2>3
  <2> QED
    BY <1>1, <2>1, <2>3, <2>4 DEF WhileStarting, WhileServing, WhileUnwinding
<1>5. CASE Started
  <2>1. Stacked = Resources
    BY <1>5, StackFacts DEF Started
  <2>2. ~gave_up
    BY <1>0 DEF WhileStarting
  <2> QED
    BY <1>0, <1>1, <1>5, <2>1, <2>2
    DEF Started, Handles, WhileStarting, WhileServing, WhileUnwinding
<1> QED
  BY <1>2, <1>3, <1>4, <1>5 DEF Startup

(* And so does every step of the drain and of the unwinding.               *)
LEMMA ShutdownStep ==
  ASSUME IInv, BeginShutdown \/ Shutdown
  PROVE  (WhileStarting /\ WhileServing /\ WhileUnwinding)'
<1> USE DEF IInv, stack_vars, Rest
<1>0. Handled' = Handled
  BY DEF BeginShutdown, Shutdown, Drained, DrainTimeout, BeginClose, EndClose, Stopped,
     Handled, request_vars
<1>1. CASE BeginShutdown \/ Drained \/ DrainTimeout
  <2>1. UNCHANGED stack_vars /\ server \in {"serving", "draining"}
    BY <1>1 DEF BeginShutdown, Drained, DrainTimeout
  <2>2. Stacked' = Stacked
    BY <2>1 DEF Stacked
  <2>3. Stacked = Resources /\ depth \in Nat
    BY <2>1, StackFacts DEF WhileServing, TypeOK
  <2>4. \/ server' = "draining" /\ shutdown_in_progress' /\ ~gave_up'
        \/ server' = "unwinding" /\ (Handled' = {} \/ gave_up')
    BY <1>0, <1>1 DEF BeginShutdown, Drained, DrainTimeout, CountIsExact, WhileServing
  <2> QED
    BY <2>1, <2>2, <2>3, <2>4 DEF WhileStarting, WhileServing, WhileUnwinding, Handles
<1>2. CASE BeginClose
  <2>1. server = "unwinding" /\ server' = server /\ UNCHANGED <<live, gave_up>>
    BY <1>2 DEF BeginClose
  <2>2. Order[depth] \in Stacked /\ Stacked' = Stacked \ {Order[depth]}
    BY <1>2, StackFacts DEF BeginClose, Stacked
  <2> QED
    BY <1>0, <1>2, <2>1, <2>2 DEF BeginClose, WhileStarting, WhileServing, WhileUnwinding
<1>3. CASE EndClose
  <2>1. Stacked' = Stacked /\ server = "unwinding" /\ server' = server
    BY <1>3 DEF EndClose, Stacked
  <2> QED
    BY <1>0, <1>3, <2>1 DEF EndClose, WhileStarting, WhileServing, WhileUnwinding
<1>4. CASE Stopped
  <2>1. Stacked' = Stacked /\ server = "unwinding" /\ server' = "stopped"
    BY <1>4 DEF Stopped, Stacked
  <2> QED
    BY <1>0, <1>4, <2>1 DEF Stopped, WhileStarting, WhileServing, WhileUnwinding
<1> QED
  BY <1>1, <1>2, <1>3, <1>4 DEF Shutdown

(* The invariant of the lifespan is inductive.                             *)
LEMMA NextIInv == IInv /\ [Next]_vars => IInv'
<1> SUFFICES ASSUME IInv, [Next]_vars PROVE IInv'
  OBVIOUS
<1>1. (TypeOK /\ CountIsExact)'
  BY TypeStep, CountStep DEF IInv
<1>2. CASE UNCHANGED vars
  BY <1>1, <1>2 DEF IInv, WhileStarting, WhileServing, WhileUnwinding, Stacked, NextUp,
     Handled, vars, stack_vars, request_vars
<1>3. CASE Next
  BY <1>1, <1>3, ServeStep, StartupStep, ShutdownStep DEF Next, IInv
<1> QED
  BY <1>2, <1>3

(* The inductive invariant, for any requests and any list of resources.    *)
THEOREM Invariance == Spec => []IInv
<1>1. Init => IInv
  BY InitIInv
<1>2. IInv /\ [Next]_vars => IInv'
  BY NextIInv
<1> QED
  BY <1>1, <1>2, PTL DEF Spec

(* Every variable of the lifespan keeps to its type, for any requests and  *)
(* resources.                                                              *)
THEOREM TypeCorrect == Spec => []TypeOK
<1>1. IInv => TypeOK
  BY DEF IInv
<1> QED
  BY <1>1, Invariance, PTL

(* The count the drain waits for is the number of requests handled.        *)
THEOREM CountCorrect == Spec => []CountIsExact
<1>1. IInv => CountIsExact
  BY DEF IInv
<1> QED
  BY <1>1, Invariance, PTL

(* A counted request has its resources until the drain gives up on it.     *)
THEOREM HandledKeepResources == Spec => []HandledHaveResources
<1>1. IInv => HandledHaveResources
  BY DEF IInv, TypeOK, WhileStarting, WhileServing, WhileUnwinding, HandledHaveResources
<1> QED
  BY <1>1, Invariance, PTL

(* What was opened has been closed, or its closing tried, when it stops.   *)
THEOREM AllClosed == Spec => []NothingForgotten
<1>1. IInv => NothingForgotten
  BY StackFacts DEF IInv, WhileUnwinding, NothingForgotten
<1> QED
  BY <1>1, Invariance, PTL

(* Closing is in the reverse order of opening.                             *)
THEOREM ReverseOrder == Spec => []ClosedInReverse
<1>1. ASSUME IInv PROVE ClosedInReverse
  <2> SUFFICES ASSUME NEW i \in 1..Len(Order), NEW j \in 1..Len(Order), i < j,
                      Order[i] \in attempted, Order[j] \in live
               PROVE  Order[j] \in attempted
    BY DEF ClosedInReverse
  <2>1. server \in {"unwinding", "stopped"}
    BY <1>1 DEF IInv, TypeOK, WhileStarting, WhileServing
  <2>2. Order[i] \notin Stacked
    BY <1>1, <2>1 DEF IInv, WhileUnwinding
  <2>3. Order[j] \notin Stacked
    <3>1. ASSUME Order[j] \in Stacked PROVE FALSE
      <4>1. PICK k \in 1..depth : Order[j] = Order[k]
        BY <3>1 DEF Stacked
      <4>2. depth \in 0..Len(Order) /\ Len(Order) \in Nat
        BY <1>1 DEF IInv, TypeOK
      <4>3. k = j
        BY <4>1, <4>2
      <4>4. i \in 1..depth
        BY <4>1, <4>2, <4>3
      <4> QED
        BY <2>2, <4>4 DEF Stacked
    <3> QED
      BY <3>1
  <2> QED
    BY <1>1, <2>1, <2>3 DEF IInv, WhileUnwinding
<1> QED
  BY <1>1, Invariance, PTL

(* A published cache or queue handle is open.                              *)
THEOREM HandlesStayOpen == Spec => []HandlesAreOpen
<1>1. ASSUME IInv PROVE HandlesAreOpen
  <2>1. CASE server = "starting"
    BY <1>1, <2>1, StackFacts DEF IInv, WhileStarting, HandlesAreOpen
  <2>2. CASE server \in {"serving", "draining"}
    BY <1>1, <2>2 DEF IInv, WhileServing, HandlesAreOpen, Handles
  <2>3. CASE server \in {"unwinding", "stopped"}
    BY <1>1, <2>3 DEF IInv, WhileUnwinding, HandlesAreOpen
  <2> QED
    BY <1>1, <2>1, <2>2, <2>3 DEF IInv, TypeOK
<1> QED
  BY <1>1, Invariance, PTL

(*************************** the worker ************************************)

(* The stack is within the resources, and with all closers on it it holds  *)
(* every resource.                                                         *)
LEMMA OnStackFacts ==
  ASSUME WorkerTypeOK
  PROVE  /\ OnStack \subseteq WorkerResources
         /\ held = Len(WorkerOrder) => OnStack = WorkerResources
  BY WorkerAssumption DEF WorkerTypeOK, OnStack, WorkerResources

(* Where the stack grows and shrinks. *)
LEMMA StackGrows ==
  ASSUME WorkerTypeOK, held < Len(WorkerOrder), held' = held + 1
  PROVE  /\ OnStack' = OnStack \cup {NextToOpen}
         /\ NextToOpen \in WorkerResources
  <1>1. held \in Nat /\ Len(WorkerOrder) \in Nat
    BY WorkerAssumption DEF WorkerTypeOK
  <1>2. 1..held' = (1..held) \cup {held + 1}
    BY <1>1
  <1>3. QED
    BY <1>1, <1>2 DEF OnStack, NextToOpen, WorkerResources

(* A closer leaves the stack before it is awaited.                         *)
LEMMA StackShrinks ==
  ASSUME WorkerTypeOK, held > 0, held' = held - 1
  PROVE  /\ OnStack = OnStack' \cup {WorkerOrder[held]}
         /\ WorkerOrder[held] \in WorkerResources
         /\ held' \in 0..Len(WorkerOrder)
  <1>1. held \in 0..Len(WorkerOrder) /\ Len(WorkerOrder) \in Nat
    BY WorkerAssumption DEF WorkerTypeOK
  <1>2. 1..held = (1..held') \cup {held}
    BY <1>1
  <1>3. QED
    BY <1>1, <1>2 DEF OnStack, WorkerResources

(* The invariant of the worker holds before its startup hook.              *)
LEMMA WorkerStarts == WorkerInit => WorkerIInv
  <1> SUFFICES ASSUME WorkerInit PROVE WorkerIInv
    OBVIOUS
  <1>1. InJob = {}
    BY DEF WorkerInit, InJob
  <1>2. WorkerTypeOK
    <2>1. 0 \in 0..Len(WorkerOrder)
      BY WorkerAssumption
    <2>2. job \in [WorkerJobs -> {"none", "running", "cancelling"}]
      BY DEF WorkerInit
    <2>3. QED
      BY <2>1, <2>2 DEF WorkerInit, WorkerTypeOK
  <1>3. QED
    BY <1>1, <1>2 DEF WorkerInit, WorkerIInv, WhileOff, WhileOpening, WhileWorking, WithJobs,
       WhileClosing, WhileGone

(* A step keeps the types. *)
LEMMA WorkerTypes == WorkerTypeOK /\ WhileOpening /\ [WorkerNext]_worker_vars => WorkerTypeOK'
  <1> SUFFICES ASSUME WorkerTypeOK, WhileOpening, [WorkerNext]_worker_vars
               PROVE  WorkerTypeOK'
    OBVIOUS
  <1> USE WorkerAssumption DEF WorkerTypeOK
  <1>q. "queue" \in WorkerResources /\ "queue" \in WorkerHandles /\ 1 \in 0..Len(WorkerOrder)
    BY DEF WorkerResources, WorkerHandles
  <1>h. WorkerHandles \subseteq WorkerResources
    BY DEF WorkerHandles
  <1>1. CASE StartWorker
    BY <1>1, <1>q DEF StartWorker
  <1>2. CASE ConnectNext
    <2>1. NextToOpen \in WorkerResources
      BY <1>2 DEF ConnectNext, OpeningNext, NextToOpen, WorkerResources
    <2>2. {NextToOpen} \cap {"limiter"} \subseteq WorkerHandles
      BY <2>1 DEF WorkerHandles, WorkerPinged
    <2>3. QED
      BY <1>2, <2>1, <2>2 DEF ConnectNext
  <1>3. CASE Open
    <2>1. PICK r \in WorkerResources : Opened(r) /\ held < Len(WorkerOrder)
      BY <1>3 DEF Open, OpeningNext, NextToOpen, WorkerResources, WhileOpening
    <2>2. held + 1 \in 0..Len(WorkerOrder)
      BY <2>1
    <2>3. QED
      BY <2>1, <2>2 DEF Opened
  <1>4. CASE OpenFails
    BY <1>4 DEF OpenFails
  <1>5. CASE StartInterrupted
    BY <1>5 DEF StartInterrupted
  <1>6. CASE StartedUp
    BY <1>6 DEF StartedUp, stack_of_worker
  <1>7. ASSUME NEW j \in WorkerJobs, JobStarts(j) \/ JobOver(j)
        PROVE  WorkerTypeOK'
    BY <1>7 DEF JobStarts, JobOver, stack_of_worker
  <1>8. CASE HeartBeat \/ HeartbeatExpires
    BY <1>8 DEF HeartBeat, HeartbeatExpires, stack_of_worker
  <1>9. CASE Signalled \/ PollFails \/ shutdown
    BY <1>9 DEF Signalled, PollFails, shutdown, stack_of_worker
  <1>10. CASE WaitOver
    BY <1>10 DEF WaitOver, stack_of_worker
  <1>11. CASE CloseNext
    <2>1. WorkerOrder[held] \in WorkerResources /\ held' \in 0..Len(WorkerOrder)
      BY <1>11, StackShrinks DEF CloseNext
    <2>2. QED
      BY <1>11, <2>1 DEF CloseNext
  <1>12. CASE Closed \/ UnwindingEnds
    BY <1>12 DEF Closed, UnwindingEnds
  <1>13. CASE Replaced \/ WorkerDies
    <2>1. PICK left \in {"none", "ours", "left"} : Anew(left)
      BY <1>13 DEF Replaced, WorkerDies
    <2>2. [j \in WorkerJobs |-> "none"] \in [WorkerJobs -> {"none", "running", "cancelling"}]
      OBVIOUS
    <2>3. 0 \in 0..Len(WorkerOrder)
      OBVIOUS
    <2>4. QED
      BY <2>1, <2>2, <2>3 DEF Anew
  <1>14. CASE UNCHANGED worker_vars
    BY <1>14 DEF worker_vars, stack_of_worker
  <1>15. QED
    BY <1>1, <1>2, <1>3, <1>4, <1>5, <1>6, <1>7, <1>8, <1>9, <1>10, <1>11, <1>12, <1>13,
       <1>14 DEF WorkerNext

(* A step keeps the rest of the inductive invariant. *)
LEMMA WorkerSteps == WorkerIInv /\ [WorkerNext]_worker_vars => WorkerIInv'
  <1> SUFFICES ASSUME WorkerIInv, [WorkerNext]_worker_vars
               PROVE  WorkerIInv'
    OBVIOUS
  <1>t. WorkerTypeOK /\ WorkerTypeOK'
    BY WorkerTypes DEF WorkerIInv
  <1>l. Len(WorkerOrder) \in Nat /\ Len(WorkerOrder) > 0 /\ WorkerOrder[1] = "queue"
    BY WorkerAssumption
  <1>h. held \in Nat
    BY <1>t, <1>l DEF WorkerTypeOK
  <1> DEFINE Parts == WhileOff /\ WhileOpening /\ WhileWorking /\ WithJobs /\ WhileClosing
                      /\ WhileGone
  <1>p. Parts
    BY DEF WorkerIInv
  <1> SUFFICES Parts'
    BY <1>t DEF WorkerIInv
  <1>s. OnStack \subseteq WorkerResources
    BY <1>t, OnStackFacts
  <1> USE DEF WhileOff, WhileOpening, WhileWorking, WithJobs, WhileClosing, WhileGone
  <1>1. CASE StartWorker
    <2>1. OnStack' = {"queue"}
      BY <1>1, <1>l DEF StartWorker, OnStack
    <2>2. InJob' = {}
      BY <1>1, <1>p DEF StartWorker, InJob
    <2>3. QED
      BY <1>1, <1>p, <2>1, <2>2 DEF StartWorker, Unwinding
  <1>2. CASE ConnectNext
    <2>1. OnStack' = OnStack /\ InJob' = InJob
      BY <1>2 DEF ConnectNext, OnStack, InJob
    <2>2. QED
      BY <1>2, <1>p, <2>1 DEF ConnectNext, OpeningNext, NextToOpen, Unwinding
  <1>3. CASE Open
    <2>1. /\ Opened(NextToOpen) /\ worker = "starting" /\ held < Len(WorkerOrder)
          /\ doing \subseteq {NextToOpen}
      BY <1>3, <1>p DEF Open, OpeningNext
    <2>2. OnStack' = OnStack \cup {NextToOpen} /\ InJob' = InJob
      BY <2>1, <1>t, StackGrows DEF Opened, InJob
    <2>3. QED
      BY <1>p, <2>1, <2>2 DEF Opened, Unwinding
  <1>4. CASE OpenFails
    <2>1. OnStack' = OnStack /\ InJob' = InJob
      BY <1>4 DEF OpenFails, OnStack, InJob
    <2>2. QED
      BY <1>4, <1>p, <2>1 DEF OpenFails, Unwinding
  <1>5. CASE StartInterrupted
    <2>1. OnStack' = OnStack /\ InJob' = InJob
      BY <1>5 DEF StartInterrupted, OnStack, InJob
    <2>2. in_ctx
      BY <1>5, <1>p DEF StartInterrupted
    <2>3. QED
      BY <1>5, <1>p, <2>1, <2>2 DEF StartInterrupted, Unwinding
  <1>6. CASE StartedUp
    <2>1. OnStack' = OnStack /\ InJob' = InJob
      BY <1>6 DEF StartedUp, stack_of_worker, OnStack, InJob
    <2>2. OnStack = WorkerResources
      BY <1>6, <1>t, OnStackFacts DEF StartedUp
    <2>3. handles = WorkerHandles
      BY <1>6, <1>p, <1>t, <2>2 DEF StartedUp, WorkerTypeOK, WorkerHandles
    <2>4. in_ctx
      BY <1>6, <1>p DEF StartedUp
    <2>5. QED
      BY <1>6, <1>p, <2>1, <2>3, <2>4 DEF StartedUp, stack_of_worker, Unwinding
  <1>7. ASSUME NEW j \in WorkerJobs, JobStarts(j) \/ JobOver(j)
        PROVE  Parts'
    <2>1. OnStack' = OnStack /\ UNCHANGED <<worker, told, stack_of_worker, heartbeat>>
      BY <1>7 DEF JobStarts, JobOver, stack_of_worker, OnStack
    <2>2. worker = "polling" \/ InJob # {}
      BY <1>7 DEF JobStarts, JobOver, InJob
    <2>3. QED
      BY <1>p, <2>1, <2>2 DEF stack_of_worker, Unwinding
  <1>8. CASE HeartBeat \/ HeartbeatExpires
    <2>1. OnStack' = OnStack /\ InJob' = InJob
      BY <1>8 DEF HeartBeat, HeartbeatExpires, stack_of_worker, OnStack, InJob
    <2>2. NextToOpen' = NextToOpen
      BY <1>8 DEF HeartBeat, HeartbeatExpires, stack_of_worker, NextToOpen
    <2>3. QED
      BY <1>8, <1>p, <2>1, <2>2 DEF HeartBeat, HeartbeatExpires, stack_of_worker, Unwinding
  <1>9. CASE Signalled \/ PollFails \/ shutdown
    <2>1. OnStack' = OnStack /\ InJob' = InJob
      BY <1>9 DEF Signalled, PollFails, shutdown, stack_of_worker, OnStack, InJob
    <2>2. QED
      BY <1>9, <1>p, <2>1 DEF Signalled, PollFails, shutdown, stack_of_worker, Unwinding
  <1>10. CASE WaitOver
    <2>1. OnStack' = OnStack /\ worker' = "closing" /\ worker = "polling"
      BY <1>10 DEF WaitOver, stack_of_worker, OnStack
    <2>2. QED
      BY <1>10, <1>p, <2>1 DEF WaitOver, stack_of_worker, Unwinding
  <1>11. CASE CloseNext
    <2>1. OnStack = OnStack' \cup {WorkerOrder[held]} /\ InJob' = InJob
      BY <1>11, <1>t, StackShrinks DEF CloseNext, InJob
    <2>2. QED
      BY <1>11, <1>p, <2>1 DEF CloseNext, Unwinding
  <1>12. CASE Closed
    <2>1. OnStack' = OnStack /\ InJob' = InJob
      BY <1>12 DEF Closed, OnStack, InJob
    <2>2. QED
      BY <1>12, <1>p, <2>1 DEF Closed, Unwinding
  <1>13. CASE UnwindingEnds
    <2>1. OnStack' = OnStack /\ InJob' = InJob
      BY <1>13 DEF UnwindingEnds, OnStack, InJob
    <2>2. QED
      BY <1>13, <1>p, <2>1 DEF UnwindingEnds, Unwinding
  <1>14. CASE Replaced \/ WorkerDies
    <2>1. InJob' = {} /\ worker' = "off" /\ doing' = {} /\ tried' = {} /\ dropped' = {}
      BY <1>14 DEF Replaced, WorkerDies, Anew, InJob
    <2>2. QED
      BY <2>1
  <1>15. CASE UNCHANGED worker_vars
    BY <1>15, <1>p DEF worker_vars, stack_of_worker, OnStack, InJob, Unwinding, NextToOpen
  <1>16. QED
    BY <1>1, <1>2, <1>3, <1>4, <1>5, <1>6, <1>7, <1>8, <1>9, <1>10, <1>11, <1>12, <1>13,
       <1>14, <1>15 DEF WorkerNext

(* The inductive invariant of the worker process. *)
THEOREM WorkerInvariance == WorkerSpec => []WorkerIInv
  BY WorkerStarts, WorkerSteps, PTL DEF WorkerSpec

(* Jobs have their resources, and a process that ends through its hooks    *)
(* has tried to close what it opened: functions.startup and shutdown.      *)
THEOREM HooksCorrect == WorkerSpec => []HooksKeepHouse
  <1>1. WorkerIInv => HooksKeepHouse
    <2> SUFFICES ASSUME WorkerIInv PROVE HooksKeepHouse
      OBVIOUS
    <2>1. WorkerTypeOK
      BY DEF WorkerIInv
    <2>2. InJob # {} => OnStack = WorkerResources
      BY <2>1, OnStackFacts DEF WorkerIInv, WithJobs
    <2>3. held = 0 => OnStack = {}
      BY DEF OnStack
    <2>4. open \subseteq WorkerResources
      BY <2>1 DEF WorkerTypeOK
    <2>5. QED
      BY <2>2, <2>3, <2>4 DEF HooksKeepHouse, WorkerIInv, WithJobs, WhileWorking,
         WhileClosing, WhileGone, Unwinding
  <1>2. QED
    BY <1>1, WorkerInvariance, PTL

(*************************** the probes ************************************)

(* The probes are requests of the lifespan, whose invariant holds.         *)
LEMMA HealthIsLifecycle == HealthSpec => []IInv
  <1>1. HealthInit => Init
    BY DEF HealthInit
  <1>2. [HealthNext]_health_vars => [Next]_vars
    BY DEF HealthNext, Health, build_runtime_readiness_contract, check_worker_health,
       snapshot, evaluate, Next, Serve, health_vars
  <1>3. QED
    BY <1>1, <1>2, Invariance, PTL DEF HealthSpec, Spec

(* A handle is given up only when its closer has left the stack.           *)
StackedArePublished == Stacked \cap Pinged \subseteq published

(* Every step of the lifespan keeps what is on the stack published.        *)
LEMMA PublishedStep ==
  IInv /\ IInv' /\ StackedArePublished /\ [Next]_vars => StackedArePublished'
  <1> SUFFICES ASSUME IInv, IInv', StackedArePublished, [Next]_vars
               PROVE  StackedArePublished'
    OBVIOUS
  <1> USE DEF StackedArePublished
  <1>r. Stacked \subseteq Resources /\ Stacked' \subseteq Resources'
    BY StackFacts, LifecycleAssumption DEF IInv, TypeOK, Stacked, Resources
  <1>1. CASE server' = "starting"
    BY <1>1 DEF IInv, WhileStarting
  <1>2. CASE server' \in {"serving", "draining"}
    BY <1>2, <1>r DEF IInv, WhileServing, Handles, Resources
  <1>3. CASE server' \in {"unwinding", "stopped"}
    <2>1. CASE UNCHANGED <<depth, published>>
      BY <2>1 DEF Stacked
    <2>2. CASE PingFails
      <3>1. busy \cap Stacked = {}
        BY <2>2, StackFacts DEF PingFails, IInv, WhileStarting
      <3>2. Stacked' = Stacked
        BY <2>2 DEF PingFails, Stacked
      <3>3. QED
        BY <2>2, <3>1, <3>2 DEF PingFails
    <2>3. CASE BeginClose
      <3>1. Stacked' = Stacked \ {Order[depth]}
        BY <2>3, StackFacts DEF BeginClose, Stacked, IInv
      <3>2. QED
        BY <2>3, <3>1 DEF BeginClose
    <2>4. CASE EndClose
      <3>1. busy \cap Stacked = {}
        BY <2>4 DEF EndClose, IInv, WhileUnwinding
      <3>2. Stacked' = Stacked
        BY <2>4 DEF EndClose, Stacked
      <3>3. QED
        BY <2>4, <3>1, <3>2 DEF EndClose
    <2>5. CASE Connect \/ Verified \/ Initialized
      BY <1>3, <2>5 DEF Connect, Verified, Initialized, Pushed, Opening
    <2>6. QED
      BY <2>1, <2>2, <2>3, <2>4, <2>5 DEF Next, Startup, Shutdown, Serve, InitFails, Started,
         Reject, Admit, Respond, Cancel, Unwound, BeginShutdown, Drained, DrainTimeout,
         Stopped, vars, stack_vars
  <1>4. QED
    BY <1>1, <1>2, <1>3 DEF IInv, TypeOK

(* The queue is closed before the cache: whoever finds the queue's handle  *)
(* finds the cache's as well.                                              *)
LEMMA QueueGoesFirst ==
  ASSUME IInv, StackedArePublished, "queue" \in published
  PROVE  "cache" \in published
  <1>1. published \subseteq Stacked \cup {"limiter"}
    BY StackFacts DEF IInv, TypeOK, WhileStarting, WhileServing, WhileUnwinding, Handles
  <1>2. PICK k \in 1..depth : Order[k] = "queue"
    BY <1>1 DEF Stacked
  <1>3. PICK i \in 1..Len(Order), j \in 1..Len(Order) :
          i < j /\ Order[i] = "cache" /\ Order[j] = "queue"
    BY ProbesAssumption
  <1>4. depth \in 0..Len(Order) /\ Len(Order) \in Nat
    BY LifecycleAssumption DEF IInv, TypeOK
  <1>5. k = j
    BY <1>2, <1>3, <1>4, LifecycleAssumption
  <1>6. i \in 1..depth
    BY <1>3, <1>4, <1>5
  <1>7. QED
    BY <1>3, <1>6 DEF StackedArePublished, Stacked, Pinged

(* The part of HealthTypeOK that does not speak of the lifespan's handles. *)
Shape ==
  /\ endpoint \in [Probes -> {"none", "ready", "internal"}]
  /\ DOMAIN found = Probes
  /\ asked \in [Probes -> 0..Len(Dependencies)]
  /\ statuses \in [Probes -> SUBSET Names]
  /\ worker_ok \in [Probes -> BOOLEAN]
  /\ answer \in [Probes -> {0, 200, 503}]
  /\ reached \in [Probes -> SUBSET (Names \cup {"heartbeat"})]

(* What counts as healthy has answered this probe, except that a stranger  *)
(* may have answered for the cache: then the queue's handle was gone.      *)
Honest ==
  \A q \in Probes :
    /\ statuses[q] \subseteq reached[q] \cup {"cache"}
    /\ "queue" \in statuses[q] => "queue" \in found[q]
    /\ "cache" \in statuses[q] /\ "cache" \in found[q] => "cache" \in reached[q]
    /\ "queue" \in found[q] => "cache" \in found[q]
    /\ worker_ok[q] => "heartbeat" \in reached[q]
    /\ endpoint[q] = "none" => statuses[q] = {}

HealthIInv == Shape /\ Honest /\ ReadyIsHonest /\ StackedArePublished

(* The invariant of the probes holds before any of them arrives.           *)
LEMMA HealthStarts == HealthInit => HealthIInv
  <1> SUFFICES ASSUME HealthInit PROVE HealthIInv
    OBVIOUS
  <1>1. 0 \in 0..Len(Dependencies)
    BY DEF Dependencies
  <1>2. StackedArePublished
    BY DEF HealthInit, Init, StackedArePublished, Stacked
  <1>3. QED
    BY <1>1, <1>2 DEF HealthInit, HealthIInv, Shape, Honest, ReadyIsHonest

(* The handler's actions leave the lifespan alone. *)
LEMMA HealthSteps ==
  IInv /\ IInv' /\ HealthIInv /\ [HealthNext]_health_vars => HealthIInv'
  <1> SUFFICES ASSUME IInv, IInv', HealthIInv, [HealthNext]_health_vars
               PROVE  HealthIInv'
    OBVIOUS
  <1>0. StackedArePublished'
    <2>1. [Next]_vars
      BY DEF HealthNext, Health, build_runtime_readiness_contract, check_worker_health,
         snapshot, evaluate, Next, Serve, health_vars
    <2>2. QED
      BY <2>1, PublishedStep DEF HealthIInv
  <1> SUFFICES Shape' /\ Honest' /\ ReadyIsHonest'
    BY <1>0 DEF HealthIInv
  <1> USE DEF HealthIInv, Shape, Honest, ReadyIsHonest
  <1>1. CASE UNCHANGED probe_vars
    BY <1>1 DEF probe_vars
  <1>3. ASSUME NEW q \in Probes, build_runtime_readiness_contract(q)
        PROVE  Shape' /\ Honest' /\ ReadyIsHonest'
    <2>1. PICK e \in {"ready", "internal"} : endpoint' = [endpoint EXCEPT ![q] = e]
      BY <1>3 DEF build_runtime_readiness_contract
    <2>2. answer[q] = 0 /\ statuses[q] = {}
      BY <1>3 DEF build_runtime_readiness_contract, InHandler
    <2>3. "queue" \in published => "cache" \in published
      BY QueueGoesFirst
    <2>4. Shape'
      BY <1>3, <2>1 DEF build_runtime_readiness_contract
    <2>5. Honest' /\ ReadyIsHonest'
      BY <1>3, <2>1, <2>2, <2>3 DEF build_runtime_readiness_contract
    <2>6. QED
      BY <2>4, <2>5
  <1>4. ASSUME NEW q \in Probes, check_worker_health(q)
        PROVE  Shape' /\ Honest' /\ ReadyIsHonest'
    BY <1>4 DEF check_worker_health
  <1>5. ASSUME NEW q \in Probes, snapshot(q)
        PROVE  Shape' /\ Honest' /\ ReadyIsHonest'
    <2>1. asked[q] + 1 \in 1..Len(Dependencies)
      BY <1>5 DEF snapshot, Asking, Dependencies
    <2>2. Dependencies[asked[q] + 1] \in Names
      BY <2>1 DEF Names
    <2> DEFINE d == Dependencies[asked[q] + 1]
    <2>3. PICK answers \in BOOLEAN : Probe(q, answers)
      BY <1>5 DEF snapshot
    <2>4. PICK ok \in SUBSET {d}, real \in SUBSET {d} :
            /\ statuses' = [statuses EXCEPT ![q] = @ \cup ok]
            /\ reached' = [reached EXCEPT ![q] = @ \cup real]
            /\ ok # {} => d \in found[q] \cup {"database", "cache"}
            /\ ok # {} /\ d \in found[q] \cup {"database"} => real = {d}
      <3> DEFINE fine == Askable(q, d) /\ answers
                 right == fine /\ d \in found[q] \cup {"database"}
      <3>1. /\ statuses' = [statuses EXCEPT ![q] = @ \cup {x \in {d} : fine}]
            /\ reached' = [reached EXCEPT ![q] = @ \cup {x \in {d} : right}]
        BY <2>3 DEF Probe
      <3>2. {x \in {d} : fine} \in SUBSET {d} /\ {x \in {d} : right} \in SUBSET {d}
        OBVIOUS
      <3>3. /\ {x \in {d} : fine} # {} => d \in found[q] \cup {"database", "cache"}
            /\ {x \in {d} : fine} # {} /\ d \in found[q] \cup {"database"}
                 => {x \in {d} : right} = {d}
        BY DEF Askable
      <3>4. QED
        BY <3>1, <3>2, <3>3
    <2>5. /\ asked' = [asked EXCEPT ![q] = @ + 1]
          /\ UNCHANGED <<endpoint, found, worker_ok, answer>>
          /\ answer[q] = 0 /\ endpoint[q] # "none"
      BY <1>5, <2>3 DEF snapshot, Probe, Asking, InHandler
    <2> HIDE DEF d
    <2>6. Shape'
      <3>1. d \in Names
        BY <2>2 DEF d
      <3>2. asked' \in [Probes -> 0..Len(Dependencies)]
        BY <2>1, <2>5
      <3>3. QED
        BY <2>4, <2>5, <3>1, <3>2
    <2>7. Honest' /\ ReadyIsHonest'
      <3>1. \A p \in Probes \ {q} : statuses'[p] = statuses[p] /\ reached'[p] = reached[p]
        BY <2>4
      <3>2. statuses'[q] = statuses[q] \cup ok /\ reached'[q] = reached[q] \cup real
        BY <2>4
      <3>3. QED
        BY <2>4, <2>5, <3>1, <3>2
    <2>8. QED
      BY <2>6, <2>7
  <1>6. ASSUME NEW q \in Probes, evaluate(q)
        PROVE  Shape' /\ Honest' /\ ReadyIsHonest'
    <2>1. 0 \in 0..Len(Dependencies)
      BY DEF Dependencies
    <2>2. Shape' /\ Honest'
      BY <1>6, <2>1 DEF evaluate
    <2>3. ReadyIsHonest'
      <3>1. "queue" \in Names /\ "cache" \in Names
        <4>1. Dependencies[2] = "cache" /\ Dependencies[3] = "queue" /\ Len(Dependencies) = 4
          BY DEF Dependencies
        <4>2. QED
          BY <4>1 DEF Names
      <3>2. AllHealthy(q) => Names \subseteq reached[q]
        BY <3>1 DEF AllHealthy
      <3>3. AllHealthy(q) /\ endpoint[q] = "internal" => "heartbeat" \in reached[q]
        BY DEF AllHealthy
      <3>4. QED
        BY <1>6, <3>2, <3>3 DEF evaluate
    <2>4. QED
      BY <2>2, <2>3
  <1>7. CASE UNCHANGED health_vars
    BY <1>1, <1>7 DEF health_vars
  <1>8. QED
    BY <1>1, <1>3, <1>4, <1>5, <1>6, <1>7 DEF HealthNext, Health

(* A probe answered with 200 was answered by everything it asks for: never *)
(* by a stranger on localhost instead of the cache.                        *)
THEOREM ReadinessCorrect == HealthSpec => []ReadyIsHonest
  <1>1. HealthIInv => ReadyIsHonest
    BY DEF HealthIInv
  <1>2. QED
    BY <1>1, HealthStarts, HealthSteps, HealthIsLifecycle, PTL DEF HealthSpec

(*************************** scheduled jobs ********************************)

HIDE LifecycleAssumption

(* Every variable keeps its type. *)
THEOREM SchedulerTypeCorrect == SchedulerSpec => []SchedulerTypeOK
<1> USE SchedulerAssumption
<1>1. SchedulerInit => SchedulerTypeOK
  <2>1. SchedulerInit => outlived \in BOOLEAN
    BY DEF SchedulerInit
  <2>2. QED
    BY <2>1 DEF SchedulerInit, SchedulerTypeOK, Forgotten
<1>2. SchedulerTypeOK /\ [SchedulerNext]_scheduler_vars => SchedulerTypeOK'
  <2> SUFFICES ASSUME SchedulerTypeOK, [SchedulerNext]_scheduler_vars PROVE SchedulerTypeOK'
    OBVIOUS
  <2>1. ASSUME NEW w \in Workers, Fire(w) PROVE SchedulerTypeOK'
    BY <2>1 DEF Fire, Go, SchedulerTypeOK, Forgotten
  <2>0. ASSUME NEW w \in Workers, Take(w)
        PROVE lock_left' \in 0 .. LockTTL /\ owner' \in Workers /\ outlived' \in BOOLEAN
    <3>1. outlived' \in BOOLEAN
      BY <2>0, Zenon DEF Take, SchedulerTypeOK
    <3>2. QED
      BY <2>0, <3>1 DEF Take
  <2>2. ASSUME NEW w \in Workers, Lock(w) PROVE SchedulerTypeOK'
    BY <2>0, <2>2 DEF Lock, Go, SchedulerTypeOK, Forgotten
  <2>3. ASSUME NEW w \in Workers, CheckDrift(w) PROVE SchedulerTypeOK'
    BY <2>3 DEF CheckDrift, Go, SchedulerTypeOK, Forgotten
  <2>4. ASSUME NEW w \in Workers, RecordRun(w)
        PROVE last_age' \in Int /\ last_age' <= Forgotten
    BY <2>4 DEF RecordRun, SchedulerTypeOK, Forgotten
  <2>5. ASSUME NEW w \in Workers, Record(w) PROVE SchedulerTypeOK'
    BY <2>4, <2>5 DEF Record, Go, SchedulerTypeOK, Forgotten
  <2>6. ASSUME NEW w \in Workers, RunEnds(w) PROVE SchedulerTypeOK'
    BY <2>6 DEF RunEnds, Go, SchedulerTypeOK, Forgotten
  <2>7. ASSUME NEW w \in Workers, Release(w) PROVE SchedulerTypeOK'
    BY <2>7 DEF Release, Go, SchedulerTypeOK, Forgotten
  <2>8. ASSUME NEW w \in Workers, Abandon(w) PROVE SchedulerTypeOK'
    BY <2>0, <2>4, <2>8 DEF Abandon, Go, SchedulerTypeOK, Forgotten
  <2>9. CASE Tick
    <3>1. age' \in [Workers -> 0 .. Timeout + ReleaseDelay]
      BY <2>9 DEF Tick, Aging, SchedulerTypeOK, Deadline
    <3>2. /\ lock_left' \in 0 .. LockTTL /\ pc' = pc /\ owner' = owner
          /\ last_age' \in Int /\ last_age' <= Forgotten
      BY <2>9 DEF Tick, Aging, SchedulerTypeOK, Older, Forgotten
    <3>3. outlived' \in BOOLEAN
      BY <2>9, Zenon DEF Tick, SchedulerTypeOK
    <3>4. QED
      BY <3>1, <3>2, <3>3 DEF SchedulerTypeOK
  <2>10. CASE UNCHANGED scheduler_vars
    BY <2>10 DEF scheduler_vars, SchedulerTypeOK, Forgotten
  <2>11. QED
    BY <2>1, <2>2, <2>3, <2>5, <2>6, <2>7, <2>8, <2>9, <2>10 DEF SchedulerNext, Proceed
<1>3. QED
  BY <1>1, <1>2, PTL DEF SchedulerSpec

(* Unless a lock was outlived, no two wrappers are past SET NX at once ... *)
LEMMA OneHolder ==
  ASSUME LockInv, ~ outlived, NEW v \in Workers, NEW w \in Workers,
         pc[v] \in Holding, pc[w] \in Holding
  PROVE  v = w
BY DEF LockInv, OwnsLock

(* ... and none is while the key is free: whoever takes it is alone, also  *)
(* where taking it ends the time of the outlived locks.                    *)
LEMMA TakenAlone ==
  ASSUME SchedulerTypeOK, LockInv, NEW w \in Workers, Take(w), lock_left = 0, ~ outlived'
  PROVE  \A v \in Workers : pc[v] \notin Holding
BY SchedulerAssumption DEF Take, LockInv, OwnsLock, SchedulerTypeOK

(* No wrapper outstays its deadline. *)
LEMMA InTimeInductive ==
  ASSUME SchedulerTypeOK, LockInv, [SchedulerNext]_scheduler_vars, NEW w \in Workers
  PROVE  InTime(w)'
<1> USE SchedulerAssumption DEF InTime, Deadline, SchedulerTypeOK
<1>1. InTime(w)
  BY DEF LockInv
<1>2. ASSUME NEW v \in Workers, Fire(v) PROVE InTime(w)'
  BY <1>1, <1>2 DEF Fire, Go
<1>3. ASSUME NEW v \in Workers, Proceed(v) PROVE InTime(w)'
  <2>1. /\ age' = age /\ pc[v] # "idle"
        /\ \E to : Go(v, to) /\ (pc[v] = "releasing" => to = "idle")
    BY <1>3 DEF Proceed, Lock, CheckDrift, Record, RunEnds, Release
  <2>2. QED
    BY <1>1, <2>1 DEF Go
<1>4. ASSUME NEW v \in Workers, Abandon(v) PROVE InTime(w)'
  BY <1>1, <1>4 DEF Abandon, Go
<1>5. CASE Tick
  BY <1>1, <1>5 DEF Tick, Aging
<1>6. CASE UNCHANGED scheduler_vars
  BY <1>1, <1>6 DEF scheduler_vars
<1>7. QED
  BY <1>2, <1>3, <1>4, <1>5, <1>6 DEF SchedulerNext

(* A step of w that leaves the lock and the last run alone keeps what the  *)
(* other wrappers rely on.                                                 *)
LEMMA OthersKeepLock ==
  ASSUME SchedulerTypeOK, LockInv, ~ outlived, NEW w \in Workers,
         lock_left' = lock_left, owner' = owner, last_age' = last_age,
         \A v \in Workers \ {w} : pc'[v] = pc[v] /\ age'[v] = age[v],
         (OwnsLock(w) /\ StillApart(w))'
  PROVE  \A v \in Workers : (OwnsLock(v) /\ StillApart(v))'
BY DEF LockInv, OwnsLock, StillApart, Elapsed

(* LockInv is inductive: what it says of the lock survives every step      *)
(* after which no lock has been outlived.                                  *)
LEMMA LockInvInductive ==
  ASSUME SchedulerTypeOK, LockInv, [SchedulerNext]_scheduler_vars
  PROVE  LockInv'
<1> DEFINE Safe(v) == OwnsLock(v) /\ StillApart(v)
<1> SUFFICES ASSUME ~ outlived' PROVE \A v \in Workers : Safe(v)'
  BY InTimeInductive DEF LockInv
<1> USE SchedulerAssumption
<1>1. ASSUME NEW w \in Workers, Fire(w) PROVE \A v \in Workers : Safe(v)'
  <2>1. pc'[w] = "locking" /\ outlived' = outlived
    BY <1>1 DEF Fire, Go, SchedulerTypeOK
  <2>2. Safe(w)'
    BY <2>1 DEF OwnsLock, StillApart, Holding
  <2>3. QED
    BY <1>1, <2>1, <2>2, OthersKeepLock DEF Fire, Go, SchedulerTypeOK
<1>2. ASSUME NEW w \in Workers, Lock(w) PROVE \A v \in Workers : Safe(v)'
  <2>1. CASE lock_left = 0
    <3>1. /\ pc'[w] = "checking" /\ Take(w)
          /\ \A v \in Workers \ {w} : pc'[v] = pc[v]
      BY <1>2, <2>1 DEF Lock, Go, SchedulerTypeOK
    <3>2. \A v \in Workers : pc[v] \notin Holding
      BY <2>1, <3>1, TakenAlone
    <3>3. ASSUME NEW v \in Workers \ {w} PROVE Safe(v)'
      BY <3>1, <3>2 DEF OwnsLock, StillApart, Holding
    <3>4. Safe(w)'
      BY <3>1 DEF Take, OwnsLock, StillApart, Holding
    <3>5. QED
      BY <3>3, <3>4
  <2>2. CASE lock_left # 0
    <3>1. pc'[w] = "idle" /\ outlived' = outlived
      BY <1>2, <2>2 DEF Lock, Go, SchedulerTypeOK
    <3>2. Safe(w)'
      BY <3>1 DEF OwnsLock, StillApart, Holding
    <3>3. QED
      BY <1>2, <2>2, <3>1, <3>2, OthersKeepLock DEF Lock, Go, SchedulerTypeOK
  <2>3. QED
    BY <2>1, <2>2
<1>3. ASSUME NEW w \in Workers, CheckDrift(w) PROVE \A v \in Workers : Safe(v)'
  <2>1. /\ pc[w] = "checking" /\ pc'[w] \in {"running", "releasing", "recording"}
        /\ pc'[w] = "recording" => ~TooSoon(w)
        /\ UNCHANGED <<age, lock_left, owner, outlived, last_age>>
    BY <1>3 DEF CheckDrift, Go, SchedulerTypeOK
  <2>2. Safe(w)'
    BY <2>1 DEF LockInv, OwnsLock, StillApart, Holding, Elapsed, TooSoon, SchedulerTypeOK
  <2>3. QED
    BY <1>3, <2>1, <2>2, OthersKeepLock DEF CheckDrift, Go, SchedulerTypeOK
<1>4. ASSUME NEW w \in Workers, pc[w] = "recording", age' = age,
             UNCHANGED <<lock_left, owner, outlived>>,
             pc' = [pc EXCEPT ![w] = "running"] \/ pc' = [pc EXCEPT ![w] = "idle"]
      PROVE  \A v \in Workers : Safe(v)'
  <2>1. ASSUME NEW v \in Workers \ {w} PROVE pc'[v] = pc[v] /\ pc[v] \notin Holding
    BY <1>4, OneHolder DEF Holding, SchedulerTypeOK
  <2>2. ASSUME NEW v \in Workers \ {w} PROVE Safe(v)'
    BY <1>4, <2>1 DEF OwnsLock, StillApart, Holding
  <2>3. Safe(w)'
    BY <1>4 DEF LockInv, OwnsLock, StillApart, Holding, SchedulerTypeOK
  <2>4. QED
    BY <2>2, <2>3
<1>5. ASSUME NEW w \in Workers, Record(w) PROVE \A v \in Workers : Safe(v)'
  BY <1>4, <1>5 DEF Record, Go
<1>6. ASSUME NEW w \in Workers, RunEnds(w) PROVE \A v \in Workers : Safe(v)'
  <2>1. /\ pc[w] = "running" /\ pc'[w] = "releasing"
        /\ UNCHANGED <<age, lock_left, owner, outlived, last_age>>
    BY <1>6 DEF RunEnds, Go, SchedulerTypeOK
  <2>2. Safe(w)'
    BY <2>1 DEF LockInv, OwnsLock, StillApart, Holding, SchedulerTypeOK
  <2>3. QED
    BY <1>6, <2>1, <2>2, OthersKeepLock DEF RunEnds, Go, SchedulerTypeOK
<1>7. ASSUME NEW w \in Workers, Release(w) PROVE \A v \in Workers : Safe(v)'
  <2>1. ~ outlived /\ pc[w] \in Holding
    BY <1>7 DEF Release, Holding
  <2>2. ASSUME NEW v \in Workers \ {w} PROVE pc'[v] = pc[v] /\ pc[v] \notin Holding
    BY <1>7, <2>1, OneHolder DEF Release, Go, SchedulerTypeOK
  <2>3. pc'[w] = "idle"
    BY <1>7 DEF Release, Go, SchedulerTypeOK
  <2>4. ASSUME NEW v \in Workers PROVE Safe(v)'
    BY <2>2, <2>3 DEF OwnsLock, StillApart, Holding
  <2>5. QED
    BY <2>4
<1>8. ASSUME NEW w \in Workers, Abandon(w) PROVE \A v \in Workers : Safe(v)'
  <2>1. pc'[w] = "idle" /\ age' = age /\ \A v \in Workers \ {w} : pc'[v] = pc[v]
    BY <1>8 DEF Abandon, Go, SchedulerTypeOK
  <2>2. Safe(w)'
    BY <2>1 DEF OwnsLock, StillApart, Holding
  <2>3. CASE UNCHANGED <<lock_left, owner, outlived, last_age>>
    BY <2>1, <2>2, <2>3, OthersKeepLock
  <2>4. CASE lock_left = 0 /\ Take(w)
    <3>1. \A v \in Workers : pc[v] \notin Holding
      BY <2>4, TakenAlone
    <3>2. ASSUME NEW v \in Workers \ {w} PROVE Safe(v)'
      BY <2>1, <3>1 DEF OwnsLock, StillApart, Holding
    <3>3. QED
      BY <2>2, <3>2
  <2>5. CASE pc[w] = "recording" /\ UNCHANGED <<lock_left, owner, outlived>>
    BY <1>8, <2>5, <1>4 DEF Abandon, Go
  <2>6. QED
    BY <1>8, <2>3, <2>4, <2>5 DEF Abandon
<1>9. CASE Tick
  <2> SUFFICES ASSUME NEW w \in Workers PROVE Safe(w)'
    OBVIOUS
  <2>0. ~ outlived /\ ~ (lock_left = 1 /\ owner = w /\ pc[w] \in Holding)
    <3>1. ~ (outlived \/ (lock_left = 1 /\ \E v \in Workers : owner = v /\ pc[v] \in Holding))
      BY <1>9, Zenon DEF Tick
    <3>2. QED
      BY <3>1, Zenon
  <2>1. /\ pc' = pc /\ owner' = owner
        /\ lock_left' = IF lock_left > 0 THEN lock_left - 1 ELSE 0
        /\ pc[w] # "idle" => age[w] < Deadline(w) /\ age'[w] = age[w] + 1
        /\ last_age' = IF last_age < Forgotten THEN last_age + 1 ELSE last_age
    BY <1>9 DEF Tick, Aging, Older
  <2>2. OwnsLock(w)'
    BY <2>0, <2>1 DEF LockInv, OwnsLock, SchedulerTypeOK
  <2>3. StillApart(w)'
    BY <2>0, <2>1 DEF LockInv, StillApart, Elapsed, Forgotten, Deadline, SchedulerTypeOK
  <2>4. QED
    BY <2>2, <2>3
<1>10. CASE UNCHANGED scheduler_vars
  BY <1>10 DEF scheduler_vars, LockInv, OwnsLock, StillApart, Elapsed
<1>11. QED
  BY <1>1, <1>2, <1>3, <1>5, <1>6, <1>7, <1>8, <1>9, <1>10 DEF SchedulerNext, Proceed

(* Whatever the lock's time to live and the timeout are, LockInv holds     *)
(* throughout.                                                             *)
THEOREM LockInvariance == SchedulerSpec => []LockInv
<1>1. SchedulerInit => LockInv
  BY DEF SchedulerInit, LockInv, OwnsLock, InTime, StillApart, Holding
<1>2. SchedulerTypeOK /\ LockInv /\ [SchedulerNext]_scheduler_vars => LockInv'
  BY LockInvInductive
<1>3. QED
  BY <1>1, <1>2, SchedulerTypeCorrect, PTL DEF SchedulerSpec

(* Two workers never run the job at the same time, unless a lock has       *)
(* expired under a wrapper still at work: duplicate execution protection.  *)
THEOREM RunsExclude == SchedulerSpec => []MutualExclusion
<1>1. LockInv => MutualExclusion
  BY OneHolder DEF MutualExclusion, Holding
<1>2. QED
  BY <1>1, LockInvariance, PTL

(* And with the same exception the drift guard's verdict still holds when  *)
(* the run is recorded.                                                    *)
THEOREM RecordedRunsKeepApart == SchedulerSpec => RunsKeepApart
<1>1. LockInv /\ [SchedulerNext]_scheduler_vars =>
        [~ outlived => \A w \in Workers : pc[w] = "recording" /\ pc'[w] = "running"
           => Elapsed(w) >= DriftTolerance]_scheduler_vars
  BY DEF LockInv, StillApart
<1>2. QED
  BY <1>1, LockInvariance, PTL DEF SchedulerSpec, RunsKeepApart

(* A lock that is given more time than timeout and release delay is never  *)
(* outlived: then the exception of the two theorems cannot arise.          *)
THEOREM LockIsNotOutlived ==
  ASSUME TTLCoversTimeout
  PROVE  SchedulerSpec => []~ outlived
<1> DEFINE Inv == ~ outlived /\ TimeLeft
<1> USE SchedulerAssumption
<1>1. SchedulerInit => Inv
  BY DEF SchedulerInit, TimeLeft, Holding
<1>2. SchedulerTypeOK /\ SchedulerTypeOK' /\ LockInv /\ Inv /\ [SchedulerNext]_scheduler_vars => Inv'
  <2> SUFFICES ASSUME SchedulerTypeOK, SchedulerTypeOK', LockInv, Inv, [SchedulerNext]_scheduler_vars
               PROVE  Inv'
    OBVIOUS
  <2>1. ASSUME NEW w \in Workers, Take(w), lock_left = 0, age' = age,
               \A v \in Workers \ {w} : pc'[v] = pc[v]
        PROVE  Inv'
    <3>1. \A v \in Workers : pc[v] \notin Holding
      BY <2>1 DEF LockInv, OwnsLock, SchedulerTypeOK
    <3>2. QED
      BY <2>1, <3>1 DEF Take, TimeLeft, SchedulerTypeOK
  <2>2. ASSUME NEW w \in Workers, Release(w) PROVE Inv'
    <3>1. \A v \in Workers \ {w} : pc'[v] = pc[v] /\ pc[v] \notin Holding
      BY <2>2, OneHolder DEF Release, Go, Holding, SchedulerTypeOK
    <3>2. QED
      BY <2>2, <3>1 DEF Release, Go, TimeLeft, Holding, SchedulerTypeOK
  <2>3. ASSUME age' = age \/ \E w \in Workers : Fire(w),
               UNCHANGED <<lock_left, outlived>>,
               \A v \in Workers : pc'[v] \in Holding => pc[v] \in Holding
        PROVE  Inv'
    BY <2>3 DEF TimeLeft, Fire, Go, Holding, SchedulerTypeOK
  <2>4. CASE Tick
    <3>1. ASSUME NEW w \in Workers, pc[w] \in Holding PROVE lock_left > 1
      <4>1. lock_left + age[w] >= LockTTL /\ age[w] < Timeout + ReleaseDelay
        BY <2>4, <3>1 DEF Tick, Aging, Deadline, TimeLeft, Holding, SchedulerTypeOK
      <4>2. QED
        BY <4>1 DEF TTLCoversTimeout, SchedulerTypeOK
    <3>2. QED
      BY <2>4, <3>1 DEF Tick, Aging, TimeLeft, Holding, SchedulerTypeOK
  <2>5. CASE UNCHANGED scheduler_vars
    BY <2>5 DEF scheduler_vars, TimeLeft
  <2>6. ASSUME NEW w \in Workers, Proceed(w) \/ Fire(w) \/ Abandon(w) PROVE Inv'
    <3>1. CASE Fire(w)
      BY <2>3, <3>1 DEF Fire, Go, Holding, SchedulerTypeOK
    <3>2. CASE Lock(w)
      <4>1. CASE lock_left = 0
        BY <2>1, <3>2, <4>1 DEF Lock, Go, SchedulerTypeOK
      <4>2. CASE lock_left # 0
        BY <2>3, <3>2, <4>2 DEF Lock, Go, Holding, SchedulerTypeOK
      <4>3. QED
        BY <4>1, <4>2
    <3>3. CASE CheckDrift(w) \/ Record(w) \/ RunEnds(w)
      BY <2>3, <3>3 DEF CheckDrift, Record, RunEnds, Go, Holding, SchedulerTypeOK
    <3>4. CASE Abandon(w)
      <4>1. CASE lock_left = 0 /\ Take(w)
        BY <2>1, <3>4, <4>1 DEF Abandon, Go, SchedulerTypeOK
      <4>2. CASE UNCHANGED <<lock_left, outlived>>
        BY <2>3, <3>4, <4>2 DEF Abandon, Go, Holding, SchedulerTypeOK
      <4>3. QED
        BY <3>4, <4>1, <4>2 DEF Abandon
    <3>5. QED
      BY <2>2, <2>6, <3>1, <3>2, <3>3, <3>4 DEF Proceed
  <2>7. QED
    BY <2>4, <2>5, <2>6 DEF SchedulerNext
<1>3. QED
  BY <1>1, <1>2, SchedulerTypeCorrect, LockInvariance, PTL DEF SchedulerSpec
=============================================================================

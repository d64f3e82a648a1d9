------------------------ MODULE WebhookIntake_proofs ------------------------
(***************************************************************************)
(* Theorems about WebhookIntake for any number of concurrent deliveries    *)
(* and any messages, with the idempotency ledger or without it.            *)
(***************************************************************************)
EXTENDS WebhookIntake, TLAPS

(* Every variable keeps its type. *)
THEOREM TypeCorrect == Spec => []TypeOK
<1> USE DEF TypeOK, Statuses, InFlight, Final, Goto, database, queue
<1>1. Init => TypeOK
  BY DEF Init
<1>2. TypeOK /\ [Next]_vars => TypeOK'
  <2> SUFFICES ASSUME TypeOK, [Next]_vars PROVE TypeOK'
    OBVIOUS
  <2>1. ASSUME NEW r \in Requests, Receive(r) PROVE TypeOK'
    BY <2>1 DEF Receive
  <2>2. ASSUME NEW r \in Requests, CheckLedger(r) PROVE TypeOK'
    BY <2>2 DEF CheckLedger
  <2>3. ASSUME NEW r \in Requests, Protect(r) PROVE TypeOK'
    BY <2>3 DEF Protect
  <2>4. ASSUME NEW r \in Requests, Persist(r) PROVE TypeOK'
    BY <2>4 DEF Persist
  <2>5. ASSUME NEW r \in Requests, Enqueue(r) PROVE TypeOK'
    BY <2>5 DEF Enqueue
  <2>6. ASSUME NEW r \in Requests, EnqueueFails(r) PROVE TypeOK'
    BY <2>6 DEF EnqueueFails
  <2>7. ASSUME NEW r \in Requests, RecordKey(r) PROVE TypeOK'
    BY <2>7 DEF RecordKey
  <2>8. ASSUME NEW r \in Requests, Commit(r) PROVE TypeOK'
    BY <2>8 DEF Commit
  <2>9. ASSUME NEW r \in Requests, Rollback(r) PROVE TypeOK'
    BY <2>9 DEF Rollback
  <2>10. ASSUME NEW r \in Requests, Abort(r) PROVE TypeOK'
    BY <2>10 DEF Abort
  <2>11. ASSUME NEW r \in Requests, Work(r) PROVE TypeOK'
    BY <2>11 DEF Work
  <2>12. ASSUME NEW r \in Requests, RowAges(r) \/ KeyAges(r) PROVE TypeOK'
    BY <2>12 DEF RowAges, KeyAges
  <2>13. CASE UNCHANGED vars
    BY <2>13 DEF vars
  <2>14. QED
    BY <2>1, <2>2, <2>3, <2>4, <2>5, <2>6, <2>7, <2>8, <2>9, <2>10, <2>11, <2>12, <2>13
    DEF Next, Step
<1>3. QED
  BY <1>1, <1>2, PTL DEF Spec

(* A row and a key are in the database exactly after their commit.         *)
LEMMA CommittedTogetherInductive ==
  ASSUME TypeOK, CommittedTogether, [Next]_vars
  PROVE  CommittedTogether'
<1> USE IntakeAssumption
    DEF TypeOK, Statuses, CommittedTogether, Accepted, Goto, database, queue
<1>1. ASSUME NEW r \in Requests, Receive(r) PROVE CommittedTogether'
  BY <1>1 DEF Receive
<1>2. ASSUME NEW r \in Requests, CheckLedger(r) PROVE CommittedTogether'
  BY <1>2 DEF CheckLedger
<1>3. ASSUME NEW r \in Requests, Protect(r) PROVE CommittedTogether'
  BY <1>3 DEF Protect
<1>4. ASSUME NEW r \in Requests, Persist(r) PROVE CommittedTogether'
  BY <1>4 DEF Persist
<1>5. ASSUME NEW r \in Requests, Enqueue(r) PROVE CommittedTogether'
  BY <1>5 DEF Enqueue
<1>6. ASSUME NEW r \in Requests, EnqueueFails(r) PROVE CommittedTogether'
  BY <1>6 DEF EnqueueFails
<1>7. ASSUME NEW r \in Requests, RecordKey(r) PROVE CommittedTogether'
  BY <1>7 DEF RecordKey
<1>8. ASSUME NEW r \in Requests, Commit(r) PROVE CommittedTogether'
  BY <1>8 DEF Commit
<1>9. ASSUME NEW r \in Requests, Rollback(r) PROVE CommittedTogether'
  BY <1>9 DEF Rollback
<1>10. ASSUME NEW r \in Requests, Abort(r) PROVE CommittedTogether'
  BY <1>10 DEF Abort, InFlight
<1>11. ASSUME NEW r \in Requests, Work(r) \/ RowAges(r) \/ KeyAges(r)
       PROVE CommittedTogether'
  BY <1>11 DEF Work, RowAges, KeyAges
<1>12. CASE UNCHANGED vars
  BY <1>12 DEF vars
<1>13. QED
  BY <1>1, <1>2, <1>3, <1>4, <1>5, <1>6, <1>7, <1>8, <1>9, <1>10, <1>11, <1>12
  DEF Next, Step

(* What a step leaves alone: the messages, hence which keys are equal, and *)
(* the place of a request that is accepted.                                *)
LEMMA StepFrame ==
  ASSUME TypeOK, [Next]_vars
  PROVE  /\ msg' = msg
         /\ \A r, s \in Requests : SameKey(r, s)' = SameKey(r, s)
         /\ \A r, s \in Requests : Matches(r, s)' = Matches(r, s)
         /\ \A r \in Requests : pc[r] = "accepted" => pc'[r] = "accepted"
<1>1. msg' = msg
  BY DEF Next, Step, Receive, CheckLedger, Protect, Persist, Enqueue, EnqueueFails,
         RecordKey, Commit, Rollback, Abort, Work, RowAges, KeyAges, vars
<1>2. \A r \in Requests : pc[r] = "accepted" => pc'[r] = "accepted"
  BY DEF Next, Step, Receive, CheckLedger, Protect, Persist, Enqueue, EnqueueFails,
         RecordKey, Commit, Rollback, Abort, Work, RowAges, KeyAges, vars,
         Goto, TypeOK, InFlight
<1>3. QED
  BY <1>1, <1>2 DEF SameKey, Key, Matches

(* The message of a request stays, and Receive alone lets it in. *)
LEMMA OnlyAcceptedInductive ==
  ASSUME TypeOK, OnlyAccepted, [Next]_vars
  PROVE  OnlyAccepted'
<1> USE DEF TypeOK, OnlyAccepted, Goto
<1>1. \A r \in Requests : Accepts(msg[r])' = Accepts(msg[r])
  BY StepFrame
<1>2. ASSUME NEW q \in Requests, Receive(q) PROVE OnlyAccepted'
  BY <1>1, <1>2 DEF Receive
<1>3. ASSUME NEW q \in Requests, Step(q) \/ Abort(q) PROVE OnlyAccepted'
  BY <1>1, <1>3 DEF Step, CheckLedger, Protect, Persist, Enqueue, EnqueueFails,
         RecordKey, Commit, Rollback, Abort, InFlight
<1>4. ASSUME NEW q \in Requests, Work(q) \/ RowAges(q) \/ KeyAges(q) PROVE OnlyAccepted'
  BY <1>1, <1>4 DEF Work, RowAges, KeyAges
<1>5. CASE UNCHANGED vars
  BY <1>1, <1>5 DEF vars
<1>6. QED
  BY <1>2, <1>3, <1>4, <1>5 DEF Next

(* The registry of the example adapter lets no type in that its dispatch   *)
(* map has no handler for.                                                 *)
LEMMA AcceptedIsProcessable ==
  ASSUME NEW d, Accepts(d), d.endpoint \in DOMAIN Endpoints
  PROVE  Processable(d)
<1>1. IsText(d.type)
  BY DEF Accepts, Validated, Checked, JsonEvent
<1>2. ASSUME d.endpoint = "example" PROVE HasHandler(ExampleDispatch, Strip(d.type))
  <2>1. Checked(d)
    BY <1>2 DEF Accepts, Validated, Endpoints
  <2>2. QED
    BY <2>1 DEF Checked, ValidEventType, ExampleRegistry, Registry, HasHandler, ExampleDispatch
<1>3. QED
  BY <1>1, <1>2 DEF Processable, IsText, Strip

(* Only RecordKey adds a key about to be committed: it waited for those    *)
(* that are, and failed on those that were.                                *)
LEMMA KeysDifferInductive ==
  ASSUME TypeOK, CommittedTogether, KeysDiffer, [Next]_vars
  PROVE  KeysDiffer'
<1> SUFFICES ASSUME UseLedger, NEW r \in Requests, NEW s \in Requests,
                    pc'[r] \in {"recorded", "accepted"},
                    pc'[s] \in {"recorded", "accepted"},
                    SameKey(r, s)'
             PROVE  r = s
  BY DEF KeysDiffer
<1> DEFINE HasKey(q) == pc[q] \in {"recorded", "accepted"}
<1>1. SameKey(r, s) /\ SameKey(s, r)
  BY StepFrame DEF SameKey
<1>2. ASSUME NEW q \in Requests, RecordKey(q) PROVE r = s
  <2>1. \A x \in Requests \ {q} : pc'[x] = pc[x]
    BY <1>2 DEF RecordKey, Goto, TypeOK
  <2>2. \A x \in Requests \ {q} : HasKey(x) /\ SameKey(q, x) => pc'[q] \notin {"recorded", "accepted"}
    BY <1>2 DEF RecordKey, Goto, TypeOK, CommittedTogether, Accepted, Inserted
  <2>3. CASE r # q /\ s # q
    BY <1>1, <2>1, <2>3 DEF KeysDiffer
  <2>4. CASE r = q \/ s = q
    BY <1>1, <2>1, <2>2, <2>4
  <2>5. QED
    BY <2>3, <2>4
<1>3. CASE ~ \E q \in Requests : RecordKey(q)
  <2>1. \A x \in Requests : pc'[x] \in {"recorded", "accepted"} => HasKey(x)
    BY <1>3 DEF Next, Step, Receive, CheckLedger, Protect, Persist, Enqueue, EnqueueFails,
         Commit, Rollback, Abort, Work, RowAges, KeyAges, vars, Goto, TypeOK
  <2>2. QED
    BY <1>1, <2>1 DEF KeysDiffer
<1>4. QED
  BY <1>2, <1>3

(* What is in the database stays there, job included. *)
LEMMA HandedOverInductive ==
  ASSUME TypeOK, CommittedTogether, HandedOver, [Next]_vars
  PROVE  HandedOver'
<1> USE IntakeAssumption
    DEF TypeOK, Statuses, HandedOver, CommittedTogether, Goto, database, queue
<1>1. ASSUME NEW r \in Requests, Commit(r) PROVE HandedOver'
  BY <1>1 DEF Commit
<1>2. ASSUME NEW r \in Requests, Enqueue(r) \/ EnqueueFails(r) PROVE HandedOver'
  BY <1>2 DEF Enqueue, EnqueueFails
<1>3. ASSUME NEW r \in Requests, RecordKey(r) \/ Rollback(r) \/ Abort(r) PROVE HandedOver'
  BY <1>3 DEF RecordKey, Rollback, Abort
<1>4. ASSUME NEW r \in Requests, Receive(r) \/ CheckLedger(r) \/ Protect(r) \/ Persist(r)
      PROVE HandedOver'
  BY <1>4 DEF Receive, CheckLedger, Protect, Persist
<1>5. ASSUME NEW r \in Requests, Work(r) \/ RowAges(r) \/ KeyAges(r) PROVE HandedOver'
  BY <1>5 DEF Work, RowAges, KeyAges
<1>6. CASE UNCHANGED vars
  BY <1>6 DEF vars
<1>7. QED
  BY <1>1, <1>2, <1>3, <1>4, <1>5, <1>6 DEF Next, Step

(* A request is found a duplicate of a row or key in the database.         *)
LEMMA DuplicateOfAcceptedInductive ==
  ASSUME TypeOK, CommittedTogether, CommittedTogether', DuplicateOfAccepted, [Next]_vars
  PROVE  DuplicateOfAccepted'
<1> SUFFICES ASSUME NEW r \in Requests, pc'[r] = "duplicate"
             PROVE  \E s \in Requests \ {r} :
                      pc[s] = "accepted" /\ (SameKey(r, s) \/ Matches(r, s))
  BY StepFrame DEF DuplicateOfAccepted, CommittedTogether
<1>1. CASE pc[r] = "duplicate"
  BY <1>1 DEF DuplicateOfAccepted, CommittedTogether
<1>2. CASE pc[r] # "duplicate"
  <2>1. CheckLedger(r) \/ Protect(r)
    BY <1>2 DEF Next, Step, Receive, CheckLedger, Protect, Persist, Enqueue, EnqueueFails,
         RecordKey, Commit, Rollback, Abort, Work, RowAges, KeyAges, vars, Goto, TypeOK
  <2>2. pc[r] # "accepted"
    BY <2>1 DEF CheckLedger, Protect, Goto
  <2>3. CASE CheckLedger(r)
    <3>1. PICK s \in fresh : SameKey(r, s)
      BY <2>3 DEF CheckLedger, Goto, TypeOK
    <3>2. s \in Requests /\ pc[s] = "accepted"
      BY <3>1 DEF TypeOK, CommittedTogether, Accepted
    <3>3. QED
      BY <2>2, <3>1, <3>2
  <2>4. CASE Protect(r)
    <3>1. PICK s \in recent : Matches(r, s)
      BY <2>4 DEF Protect, Goto, TypeOK
    <3>2. s \in Requests /\ pc[s] = "accepted"
      BY <3>1 DEF TypeOK, CommittedTogether, Accepted
    <3>3. QED
      BY <2>2, <3>1, <3>2
  <2>5. QED
    BY <2>1, <2>3, <2>4
<1>3. QED
  BY <1>1, <1>2

(* IInv holds in every reachable state. *)
THEOREM Invariance == Spec => []IInv
<1>1. Init => IInv
  BY IntakeAssumption
  DEF Init, IInv, OnlyAccepted, CommittedTogether, Accepted, KeysDiffer, HandedOver, DuplicateOfAccepted
<1>2. TypeOK /\ TypeOK' /\ IInv /\ [Next]_vars => IInv'
  BY OnlyAcceptedInductive, CommittedTogetherInductive, KeysDifferInductive, HandedOverInductive,
     DuplicateOfAcceptedInductive
  DEF IInv
<1>3. QED
  BY <1>1, <1>2, TypeCorrect, PTL DEF Spec

(* With the idempotency ledger no two deliveries of one idempotency key    *)
(* are ever both in the database, whatever their interleaving, crashes and *)
(* the ends of the windows.                                                *)
THEOREM RowsAreUnique == Spec => []OneRowPerKey
<1>1. IInv => OneRowPerKey
  BY DEF IInv, CommittedTogether, KeysDiffer, OneRowPerKey
<1>2. QED
  BY <1>1, Invariance, PTL

(* Nothing is acknowledged that has no job, or a job without a handler.    *)
THEOREM AcceptedIsHandedOver == Spec => []AcceptedHasJob
<1>1. TypeOK /\ IInv => AcceptedHasJob
  <2> SUFFICES ASSUME TypeOK, IInv, NEW r \in Requests, ledger[r] # None
               PROVE  Processable(msg[r])
    BY DEF IInv, HandedOver, AcceptedHasJob
  <2>1. Accepts(msg[r])
    BY DEF IInv, CommittedTogether, OnlyAccepted
  <2>2. msg[r].endpoint \in DOMAIN Endpoints
    BY IntakeAssumption DEF TypeOK
  <2>3. QED
    BY <2>1, <2>2, AcceptedIsProcessable
<1>2. QED
  BY <1>1, TypeCorrect, Invariance, PTL

(* A failed intake never turns the provider's next attempt away.           *)
THEOREM FailureIsNoDuplicate == Spec => []DuplicateOfAccepted
<1>1. IInv => DuplicateOfAccepted
  BY DEF IInv
<1>2. QED
  BY <1>1, Invariance, PTL
(*************************** the inbox *************************************)

(* The verdict on a request is where it stands, and keys and relatives are *)
(* those of the messages.                                                  *)
LEMMA IdentityStays ==
  ASSUME TypeOK, [Next]_vars
  PROVE  UNCHANGED inbox!identity
<1>1. msg' = msg
  BY StepFrame
<1>2. \A r \in Requests : Key(r)' = Key(r)
  BY <1>1 DEF Key
<1>3. \A r, s \in Requests : SameKey(r, s)' = SameKey(r, s) /\ Matches(r, s)' = Matches(r, s)
  BY StepFrame
<1>4. QED
  BY <1>2, <1>3 DEF inbox!identity

(* Only the request that steps moves, and what it leaves behind is its     *)
(* verdict.                                                                *)
LEMMA OthersKeepVerdicts ==
  ASSUME TypeOK, NEW r \in Requests, NEW from, NEW to, Goto(r, from, to)
  PROVE  /\ \A s \in Requests \ {r} : Verdict(s)' = Verdict(s)
         /\ pc[r] = from /\ pc'[r] = to
BY DEF Goto, TypeOK, Verdict

(* A step that judges one delivery and leaves the queue alone.             *)
LEMMA Judged ==
  ASSUME TypeOK, [Next]_vars, NEW r \in Requests, NEW v, UNCHANGED queue,
         Verdict(r) = "none", Verdict(r)' = v,
         \A s \in Requests \ {r} : Verdict(s)' = Verdict(s)
  PROVE  inbox!Judge(r, v)
BY IdentityStays DEF inbox!Judge, queue

(* A step that judges none and leaves the queue alone.                     *)
LEMMA Unjudged ==
  ASSUME TypeOK, [Next]_vars, UNCHANGED queue, \A s \in Requests : Verdict(s)' = Verdict(s)
  PROVE  UNCHANGED inbox!vars
BY IdentityStays DEF inbox!vars, inbox!identity, queue

(* No delivery has been judged, and nothing handed over.                   *)
LEMMA InitInbox == Init => inbox!Init
<1> SUFFICES ASSUME Init PROVE inbox!Init
  OBVIOUS
<1>1. \A r \in Requests : Verdict(r) = "none"
  BY DEF Init, Verdict
<1>2. QED
  BY <1>1 DEF inbox!Init, Init

(* The commit accepts: what it commits was handed over, and no other of    *)
(* its key is in the table.                                                *)
LEMMA CommitAccepts ==
  ASSUME TypeOK, IInv, [Next]_vars, NEW r \in Requests, Commit(r)
  PROVE  inbox!Accept(r)
<1>1. pc[r] = (IF UseLedger THEN "recorded" ELSE "queued") /\ pc'[r] = "accepted"
      /\ \A s \in Requests \ {r} : Verdict(s)' = Verdict(s)
  BY OthersKeepVerdicts DEF Commit
<1>2. Verdict(r) = "none" /\ Verdict(r)' = "accepted"
  BY <1>1 DEF Verdict
<1>3. r \in jobs
  BY <1>1 DEF IInv, CommittedTogether
<1>4. ASSUME NEW s \in Requests, Verdict(s) = "accepted"
      PROVE  (IF UseLedger THEN Key(s) ELSE <<s>>) # (IF UseLedger THEN Key(r) ELSE <<r>>)
  <2>1. pc[s] = "accepted" /\ s # r
    BY <1>2, <1>4 DEF Verdict
  <2>2. UseLedger => ~SameKey(r, s)
    BY <1>1, <2>1 DEF IInv, KeysDiffer
  <2>3. QED
    BY <2>1, <2>2 DEF SameKey
<1>5. inbox!Judge(r, "accepted")
  BY <1>1, <1>2, Judged DEF Commit
<1>6. QED
  BY <1>3, <1>4, <1>5 DEF inbox!Accept

(* Who is turned away as a duplicate is one of what was accepted.          *)
LEMMA DuplicateRepeats ==
  ASSUME TypeOK, IInv, [Next]_vars, NEW r \in Requests, NEW s \in Requests,
         UNCHANGED queue, pc[r] \in InFlight, pc'[r] \in {"duplicate", "collision"},
         \A q \in Requests \ {r} : Verdict(q)' = Verdict(q),
         s \in recent \cup keys, SameKey(r, s) \/ Matches(r, s)
  PROVE  inbox!Repeat(r)
<1>1. Verdict(s) = "accepted"
  BY DEF IInv, CommittedTogether, Accepted, Verdict
<1>2. Verdict(r) = "none" /\ Verdict(r)' = "duplicate"
  BY DEF Verdict, InFlight
<1>3. inbox!Judge(r, "duplicate")
  BY <1>2, Judged
<1>4. QED
  BY <1>1, <1>3 DEF inbox!Repeat

(* The replay check, the look into the ledger and its unique key.          *)
LEMMA ChecksRepeat ==
  ASSUME TypeOK, IInv, [Next]_vars, NEW r \in Requests, CheckLedger(r) \/ Protect(r) \/ RecordKey(r)
  PROVE  [inbox!Next]_(inbox!vars)
<1>0. UNCHANGED queue
  BY DEF CheckLedger, Protect, RecordKey
<1>1. /\ pc[r] \in InFlight /\ pc'[r] \in {"duplicate", "collision"} \cup InFlight
      /\ \A q \in Requests \ {r} : Verdict(q)' = Verdict(q)
  BY OthersKeepVerdicts DEF CheckLedger, Protect, RecordKey, InFlight
<1>2. CASE pc'[r] \in InFlight
  <2>1. Verdict(r)' = Verdict(r)
    BY <1>1, <1>2 DEF Verdict, InFlight
  <2>2. QED
    BY <1>0, <1>1, <2>1, Unjudged
<1>3. CASE pc'[r] \in {"duplicate", "collision"}
  <2>1. \E s \in Requests : s \in recent \cup keys /\ (SameKey(r, s) \/ Matches(r, s))
    <3>1. CASE CheckLedger(r)
      BY <1>3, <3>1 DEF CheckLedger, Goto, TypeOK
    <3>2. CASE Protect(r)
      BY <1>3, <3>2 DEF Protect, Goto, TypeOK
    <3>3. CASE RecordKey(r)
      BY <1>3, <3>3 DEF RecordKey, Goto, TypeOK
    <3>4. QED
      BY <3>1, <3>2, <3>3
  <2>2. inbox!Repeat(r)
    BY <1>0, <1>1, <1>3, <2>1, DuplicateRepeats
  <2>3. QED
    BY <2>2 DEF inbox!Next
<1>4. QED
  BY <1>1, <1>2, <1>3

(* A delivery that is refused, rolled back or cut off is declined.         *)
LEMMA FailuresDecline ==
  ASSUME TypeOK, [Next]_vars, NEW r \in Requests, Receive(r) \/ Rollback(r) \/ Abort(r)
  PROVE  [inbox!Next]_(inbox!vars)
<1>0. UNCHANGED queue
  BY DEF Receive, Rollback, Abort
<1>1. /\ pc[r] \in {"idle"} \cup InFlight
      /\ pc'[r] \in {"received", "refused", "enqueue_error", "failed"}
      /\ \A q \in Requests \ {r} : pc'[q] = pc[q]
  BY DEF Receive, Rollback, Abort, Goto, TypeOK, InFlight
<1>2. \A q \in Requests \ {r} : Verdict(q)' = Verdict(q)
  BY <1>1 DEF Verdict
<1>3. Verdict(r) = "none"
  BY <1>1 DEF Verdict, InFlight
<1>4. CASE pc'[r] = "received"
  <2>1. Verdict(r)' = "none"
    BY <1>4 DEF Verdict
  <2>2. QED
    BY <1>0, <1>2, <1>3, <2>1, Unjudged
<1>5. CASE pc'[r] # "received"
  <2>1. Verdict(r)' = "declined"
    BY <1>1, <1>5 DEF Verdict
  <2>2. inbox!Decline(r)
    BY <1>0, <1>2, <1>3, <2>1, Judged DEF inbox!Decline
  <2>3. QED
    BY <2>2 DEF inbox!Next
<1>6. QED
  BY <1>4, <1>5

(* The enqueuer hands the job over, whether or not its answer comes back.  *)
LEMMA EnqueueHandsOver ==
  ASSUME TypeOK, [Next]_vars, NEW r \in Requests, Persist(r) \/ Enqueue(r) \/ EnqueueFails(r)
  PROVE  [inbox!Next]_(inbox!vars)
<1>1. /\ pc[r] \in InFlight /\ pc'[r] \in InFlight
      /\ \A q \in Requests \ {r} : Verdict(q)' = Verdict(q)
  BY OthersKeepVerdicts DEF Persist, Enqueue, EnqueueFails, InFlight
<1>2. Verdict(r) = "none" /\ Verdict(r)' = "none"
  BY <1>1 DEF Verdict, InFlight
<1>3. \A q \in Requests : Verdict(q)' = Verdict(q)
  BY <1>1, <1>2
<1>4. found' = found /\ jobs' \in {jobs, jobs \cup {r}}
  BY DEF Persist, Enqueue, EnqueueFails, queue
<1>5. CASE jobs' = jobs
  BY <1>3, <1>4, <1>5, Unjudged DEF queue
<1>6. CASE jobs' = jobs \cup {r}
  <2>1. inbox!HandOver(r)
    BY <1>2, <1>3, <1>4, <1>6, IdentityStays DEF inbox!HandOver
  <2>2. QED
    BY <2>1 DEF inbox!Next
<1>7. QED
  BY <1>4, <1>5, <1>6

(* A worker finds the row of what is accepted, and no other.               *)
LEMMA WorkLooks ==
  ASSUME TypeOK, IInv, [Next]_vars, NEW r \in Requests, Work(r)
  PROVE  inbox!Look(r)
<1>1. UNCHANGED <<pc, jobs>> /\ r \in jobs /\ found[r] = "none"
  BY DEF Work
<1>2. \A q \in Requests : Verdict(q)' = Verdict(q)
  BY <1>1 DEF Verdict
<1>3. found' = [found EXCEPT ![r] = IF pc[r] = "accepted" THEN "enqueued" ELSE "missing"]
  BY IntakeAssumption DEF Work, IInv, CommittedTogether, HandedOver
<1>4. Verdict(r) = "accepted" <=> pc[r] = "accepted"
  BY DEF Verdict
<1>5. QED
  BY <1>1, <1>2, <1>3, <1>4, IdentityStays DEF inbox!Look, TypeOK

(* The refinement: concurrent deliveries, each with its replay check, its  *)
(* row, its job and its key in steps of their own, are judged as in one.   *)
THEOREM IntakeImplementsInbox == Spec => JudgesAtomically
<1>1. ASSUME TypeOK, IInv, [Next]_vars PROVE [inbox!Next]_(inbox!vars)
  <2>1. ASSUME NEW r \in Requests, RowAges(r) \/ KeyAges(r) PROVE UNCHANGED inbox!vars
    <3>1. UNCHANGED queue /\ \A s \in Requests : Verdict(s)' = Verdict(s)
      BY <2>1 DEF RowAges, KeyAges, Verdict
    <3>2. QED
      BY <1>1, <3>1, Unjudged
  <2>2. CASE UNCHANGED vars
    <3>1. UNCHANGED queue /\ \A s \in Requests : Verdict(s)' = Verdict(s)
      BY <2>2 DEF vars, queue, Verdict
    <3>2. QED
      BY <1>1, <3>1, Unjudged
  <2>3. ASSUME NEW r \in Requests, Step(r) PROVE [inbox!Next]_(inbox!vars)
    <3>1. CASE Commit(r)
      BY <1>1, <3>1, CommitAccepts DEF inbox!Next
    <3>2. QED
      BY <1>1, <2>3, <3>1, ChecksRepeat, EnqueueHandsOver, FailuresDecline DEF Step
  <2>4. ASSUME NEW r \in Requests, Receive(r) \/ Abort(r) PROVE [inbox!Next]_(inbox!vars)
    BY <1>1, <2>4, FailuresDecline
  <2>5. ASSUME NEW r \in Requests, Work(r) PROVE [inbox!Next]_(inbox!vars)
    BY <1>1, <2>5, WorkLooks DEF inbox!Next
  <2>6. QED
    BY <1>1, <2>1, <2>2, <2>3, <2>4, <2>5 DEF Next
<1>2. TypeOK /\ IInv /\ [Next]_vars => [inbox!Next]_(inbox!vars)
  BY <1>1
<1>3. QED
  BY <1>2, InitInbox, TypeCorrect, Invariance, PTL DEF Spec, JudgesAtomically, inbox!Spec
=============================================================================

---------------------------- MODULE WebhookIntake ----------------------------
(***************************************************************************)
(* Concurrent deliveries through ingest_webhook_event (webhooks/           *)
(* ingestion.py) in a database_transaction of their own, with the replay   *)
(* protector, the event store, the enqueuer and, when UseLedger, the       *)
(* idempotency ledger around them: protect before, record_idempotency_key  *)
(* after.  A step is what happens between two awaits.  A SELECT sees what   *)
(* is committed; an insert that repeats a unique key waits for the         *)
(* transaction that holds it and fails if that one commits.                *)
(***************************************************************************)
EXTENDS WebhookValidation

CONSTANTS
  Requests,   \* HTTP deliveries
  Messages,   \* what they carry: deliveries of WebhookValidation
  UseLedger   \* does the route keep the idempotency ledger?

ASSUME IntakeAssumption ==
  /\ UseLedger \in BOOLEAN
  /\ None \notin {"acknowledged", "enqueued", "failed"}
  /\ \A m \in Messages : m.endpoint \in DOMAIN Endpoints

VARIABLES
  pc,          \* where a request stands
  msg,         \* what it carries
  row,         \* status of its WebhookEvent in the session, not committed
  ledger,      \* status of its WebhookEvent in the database
  recent,      \* rows with received_at in the replay window
  keys,        \* requests whose IdempotencyKey is in the database
  fresh,       \* those with first_seen_at in the idempotency window
  jobs,        \* requests whose processing job is in the queue, or was
  found        \* what the first run of that job saw: the row's status

vars == <<pc, msg, row, ledger, recent, keys, fresh, jobs, found>>

Final == {"refused", "duplicate", "collision", "accepted", "enqueue_error", "failed"}
InFlight == {"received", "unique", "cleared", "flushed", "raised", "queued", "recorded"}

Init ==
  /\ pc = [r \in Requests |-> "idle"]
  /\ msg \in [Requests -> Messages]
  /\ row = [r \in Requests |-> None]
  /\ ledger = [r \in Requests |-> None]
  /\ recent = {} /\ keys = {} /\ fresh = {}
  /\ jobs = {}
  /\ found = [r \in Requests |-> "none"]

database == <<ledger, recent, keys, fresh>>
queue == <<jobs, found>>

Goto(r, from, to) ==
  /\ pc[r] = from
  /\ pc' = [pc EXCEPT ![r] = to]

-----------------------------------------------------------------------------
(* scope and idempotency_key: event_id, else delivery_id, else the hash.   *)
Key(r) ==
  LET e == Event(msg[r])
  IN CASE e.event # None -> <<msg[r].endpoint, "event_id", e.event>>
       [] e.event = None /\ e.delivery # None -> <<msg[r].endpoint, "delivery_id", e.delivery>>
       [] OTHER -> <<msg[r].endpoint, "payload_sha256", e.body>>

SameKey(r, s) == Key(r) = Key(s)

(* _find_existing_event: by either identifier; by payload without any.     *)
Matches(r, s) ==
  LET a == Event(msg[r])
      b == Event(msg[s])
  IN /\ msg[r].endpoint = msg[s].endpoint
     /\ \/ a.delivery # None /\ a.delivery = b.delivery
        \/ a.event # None /\ a.event = b.event
        \/ a.delivery = None /\ a.event = None /\ a.body = b.body

(* The signature is verified and the payload validated, or it is refused.  *)
Receive(r) ==
  /\ Goto(r, "idle", IF Accepts(msg[r]) THEN "received" ELSE "refused")
  /\ UNCHANGED <<msg, row, database, queue>>

(* WebhookIdempotencyProtector.protect; the violation error rolls its own  *)
(* hit_count back.                                                         *)
CheckLedger(r) ==
  /\ UseLedger
  /\ Goto(r, "received", IF \E s \in fresh : SameKey(r, s) THEN "duplicate" ELSE "unique")
  /\ UNCHANGED <<msg, row, database, queue>>

(* WebhookReplayProtector.protect, whether the payload matches or not. *)
Protect(r) ==
  /\ Goto(r, IF UseLedger THEN "unique" ELSE "received",
          IF \E s \in recent : Matches(r, s) THEN "duplicate" ELSE "cleared")
  /\ UNCHANGED <<msg, row, database, queue>>

(* persist (add, flush) and mark_acknowledged, in the session.             *)
Persist(r) ==
  /\ Goto(r, "cleared", "flushed")
  /\ row' = [row EXCEPT ![r] = "acknowledged"]
  /\ UNCHANGED <<msg, database, queue>>

(* The enqueuer returns: the job is in the queue; mark_enqueued.           *)
Enqueue(r) ==
  /\ Goto(r, "flushed", "queued")
  /\ row' = [row EXCEPT ![r] = "enqueued"]
  /\ jobs' = jobs \cup {r}
  /\ UNCHANGED <<msg, database, found>>

(* Mutant of EnqueueFails: the exception is swallowed. *)
EnqueueFailsSilently(r) ==
  /\ Goto(r, "flushed", "queued")
  /\ row' = [row EXCEPT ![r] = "failed"]
  /\ \E lost \in BOOLEAN : jobs' = IF lost THEN jobs ELSE jobs \cup {r}
  /\ UNCHANGED <<msg, database, found>>

(* The enqueuer raises, with the job in the queue when only its answer was *)
(* lost; mark_failed, raise.                                               *)
EnqueueFails(r) ==
  /\ Goto(r, "flushed", "raised")
  /\ row' = [row EXCEPT ![r] = "failed"]
  /\ \E lost \in BOOLEAN : jobs' = IF lost THEN jobs ELSE jobs \cup {r}
  /\ UNCHANGED <<msg, database, found>>

(* Mutant of Inserted: a key outlives its transaction's rollback. *)
InsertedLeaks(s) == pc[s] \in {"recorded", "failed"}

(* An uncommitted IdempotencyKey of s. *)
Inserted(s) == pc[s] = "recorded"

(* Mutant of RecordKey: no unique constraint on (scope, key). *)
RecordKeyTwice(r) ==
  /\ UseLedger
  /\ ~ \E s \in Requests \ {r} : Inserted(s) /\ SameKey(r, s)
  /\ Goto(r, "queued", "recorded")
  /\ UNCHANGED <<msg, row, database, queue>>

(* record_idempotency_key: the flush fails on a key that is in the table,  *)
(* in its window or not, and the transaction rolls back.                   *)
RecordKey(r) ==
  /\ UseLedger
  /\ ~ \E s \in Requests \ {r} : Inserted(s) /\ SameKey(r, s)
  /\ IF \E s \in keys : SameKey(r, s)
     THEN /\ Goto(r, "queued", "collision")
          /\ row' = [row EXCEPT ![r] = None]
     ELSE /\ Goto(r, "queued", "recorded")
          /\ UNCHANGED row
  /\ UNCHANGED <<msg, database, queue>>

(* database_transaction commits; the route answers 202. *)
Commit(r) ==
  /\ Goto(r, IF UseLedger THEN "recorded" ELSE "queued", "accepted")
  /\ ledger' = [ledger EXCEPT ![r] = row[r]]
  /\ row' = [row EXCEPT ![r] = None]
  /\ recent' = recent \cup {r}
  /\ keys' = IF UseLedger THEN keys \cup {r} ELSE keys
  /\ fresh' = IF UseLedger THEN fresh \cup {r} ELSE fresh
  /\ UNCHANGED <<msg, queue>>

(* database_transaction rolls back on the enqueuer's exception.            *)
Rollback(r) ==
  /\ Goto(r, "raised", "enqueue_error")
  /\ row' = [row EXCEPT ![r] = None]
  /\ UNCHANGED <<msg, database, queue>>

(* A crash, a cancelled request or a lost database connection.             *)
Abort(r) ==
  /\ pc[r] \in InFlight
  /\ pc' = [pc EXCEPT ![r] = "failed"]
  /\ row' = [row EXCEPT ![r] = None]
  /\ UNCHANGED <<msg, database, queue>>

(* A worker takes the job and loads the event. *)
Work(r) ==
  /\ r \in jobs /\ found[r] = "none"
  /\ found' = [found EXCEPT ![r] = IF ledger[r] = None THEN "missing" ELSE ledger[r]]
  /\ UNCHANGED <<pc, msg, row, database, jobs>>

RowAges(r) ==
  /\ r \in recent
  /\ recent' = recent \ {r}
  /\ UNCHANGED <<pc, msg, row, ledger, keys, fresh, queue>>

KeyAges(r) ==
  /\ r \in fresh
  /\ fresh' = fresh \ {r}
  /\ UNCHANGED <<pc, msg, row, ledger, recent, keys, queue>>

(* What the running coroutine of a request does next. *)
Step(r) ==
  \/ CheckLedger(r) \/ Protect(r) \/ Persist(r)
  \/ Enqueue(r) \/ EnqueueFails(r)
  \/ RecordKey(r) \/ Commit(r) \/ Rollback(r)

Next == \E r \in Requests :
  \/ Receive(r) \/ Step(r) \/ Abort(r)
  \/ Work(r)
  \/ RowAges(r) \/ KeyAges(r)

Spec == Init /\ [][Next]_vars

(* The event loop resumes every request whose await is over. *)
FairSpec == Spec /\ \A r \in Requests : WF_vars(Step(r))

-----------------------------------------------------------------------------
Statuses == {"acknowledged", "enqueued", "failed"}

TypeOK ==
  /\ pc \in [Requests -> {"idle"} \cup InFlight \cup Final]
  /\ msg \in [Requests -> Messages]
  /\ row \in [Requests -> Statuses \cup {None}]
  /\ ledger \in [Requests -> Statuses \cup {None}]
  /\ recent \in SUBSET Requests
  /\ keys \in SUBSET Requests
  /\ fresh \in SUBSET keys
  /\ jobs \in SUBSET Requests
  /\ found \in [Requests -> Statuses \cup {"none", "missing"}]

(* With the ledger, of all the deliveries with one idempotency key, at     *)
(* once or in turn, in the window or after it, at most one has a row.      *)
OneRowPerKey ==
  UseLedger =>
    \A r, s \in Requests :
      ledger[r] # None /\ ledger[s] # None /\ SameKey(r, s) => r = s

(* Without or with the ledger: a delivery is turned away as a duplicate    *)
(* only if another that shares its identifier is in the database; a failed *)
(* intake never makes the provider's next attempt a duplicate.             *)
DuplicateOfAccepted ==
  \A r \in Requests : pc[r] = "duplicate" =>
    \E s \in Requests \ {r} : ledger[s] # None /\ (SameKey(r, s) \/ Matches(r, s))

(* An event in the database is ENQUEUED, its job was handed over, and the  *)
(* dispatch map has a handler for a type the registry let through: the     *)
(* provider is told 202 for nothing that stays unprocessed.                *)
AcceptedHasJob ==
  \A r \in Requests :
    /\ pc[r] = "accepted" => ledger[r] = "enqueued"
    /\ ledger[r] # None => r \in jobs /\ Processable(msg[r])

(* Requests that wait for each other's unique keys all get an answer.      *)
Answered == \A r \in Requests : pc[r] \in InFlight ~> pc[r] \in Final

(* Intake judges each delivery as in one step: the commit accepts, with    *)
(* the ledger one of those that share a key (ingest_webhook_event, the     *)
(* unique key of idempotency_key); all else is seen by nobody.             *)
Verdict(r) ==
  CASE pc[r] = "accepted" -> "accepted"
    [] pc[r] \in {"duplicate", "collision"} -> "duplicate"
    [] pc[r] \in {"refused", "enqueue_error", "failed"} -> "declined"
    [] OTHER -> "none"

inbox == INSTANCE Inbox WITH
  key <- [r \in Requests |-> IF UseLedger THEN Key(r) ELSE <<r>>],
  kin <- [r \in Requests |-> {s \in Requests : SameKey(r, s) \/ Matches(r, s)}],
  verdict <- [r \in Requests |-> Verdict(r)],
  handed <- jobs,
  seen <- [r \in Requests |-> IF found[r] \in {"none", "missing"} THEN found[r] ELSE "there"]

JudgesAtomically == inbox!Spec

Accepted == {r \in Requests : pc[r] = "accepted"}

(* A row or a key is in the database exactly when its transaction          *)
(* committed; what a transaction may commit is enqueued.                   *)
CommittedTogether ==
  /\ \A r \in Requests : ledger[r] # None <=> pc[r] = "accepted"
  /\ \A r \in Requests : pc[r] \in {"queued", "recorded"} => row[r] = "enqueued" /\ r \in jobs
  /\ \A r \in Requests : pc[r] = "recorded" => UseLedger
  /\ recent \subseteq Accepted
  /\ keys = IF UseLedger THEN Accepted ELSE {}

(* No two keys in the table, or about to be committed, are equal. *)
KeysDiffer ==
  UseLedger => \A r, s \in Requests :
    /\ pc[r] \in {"recorded", "accepted"}
    /\ pc[s] \in {"recorded", "accepted"}
    /\ SameKey(r, s)
    => r = s

(* Nothing gets past Receive that is not accepted there. *)
OnlyAccepted == \A r \in Requests : pc[r] \in {"idle", "refused", "failed"} \/ Accepts(msg[r])

HandedOver ==
  \A r \in Requests :
    (pc[r] = "accepted" => ledger[r] = "enqueued") /\ (ledger[r] # None => r \in jobs)

(* The inductive invariant. *)
IInv ==
  /\ OnlyAccepted
  /\ CommittedTogether
  /\ KeysDiffer
  /\ HandedOver
  /\ DuplicateOfAccepted

=============================================================================

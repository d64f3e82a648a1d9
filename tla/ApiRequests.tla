---------------------------- MODULE ApiRequests ----------------------------
(***************************************************************************)
(* Concurrent requests on a user's posts: the rate limiter                 *)
(* (api/dependencies.py, core/utils/rate_limit.py), the endpoints and      *)
(* their services (api/v1/posts.py, users.py, domain/), and the response   *)
(* cache around them (core/utils/cache.py).  Redis commands and database   *)
(* transactions are the atomic steps; between them every request may be    *)
(* overtaken, fail, or be cancelled by the request timeout.                *)
(*                                                                         *)
(* A post is its version, Absent once it was deleted; its cached response  *)
(* lives under {username}_post_cache:{id} of its owner.  A request writes  *)
(* a post under the path of its owner or under another path: update_post   *)
(* and delete_post find the post by its id.  The cached list of read_posts *)
(* is left out: its key_prefix names page, which is no keyword of the      *)
(* endpoint, so the decorator raises KeyError before it touches the cache. *)
(* Counted are the requests of one caller on one path in one window.       *)
(***************************************************************************)
EXTENDS Naturals, FiniteSets

CONSTANTS
  Requests,      \* requests handled at the same time
  Posts,
  MaxVersion,    \* bound: edits of a post
  Lifetime,      \* expiration, in ticks
  Limits,        \* what an administrator sets the limit of the tier to
  DefaultLimit   \* DEFAULT_RATE_LIMIT_LIMIT

ASSUME ApiAssumption ==
  /\ Posts # {} /\ MaxVersion \in Nat \ {0} /\ Lifetime \in Nat \ {0}
  /\ Limits \subseteq Nat \ {0} /\ DefaultLimit \in Nat \ {0}

VARIABLES
  post,        \* the row of each post: its version or Absent
  user_gone,   \* nobody has the username of the posts any more
  entry,       \* Redis: what each key holds, Absent without the key
  ttl,         \* its ticks to live, 0 when it has no expiry
  raced,       \* history: posts whose entry may be older for a known reason
  cut,         \* history: entries whose request was over before EXPIRE
  limit,       \* the RateLimit row of the tier, 0 without one
  count,       \* Redis: the counter of the window
  admitted,    \* history: requests let through in the window, and the
  offered,     \* limits in force in it or looked up by who is stamped in it
  pc, got,     \* where each request is, and the post it has read
  overtaken,   \* history: readers whose post was written since they read it
  req,         \* what it asks for: op, post, under the owner's path or not
  allowed,     \* the limit a request has looked up
  late         \* requests stamped with a window that is over by now

tables == <<post, user_gone>>
redis == <<entry, ttl, raced, cut>>
limits == <<limit, count, admitted, offered>>
looked == <<allowed, late>>
vars == <<tables, redis, limits, pc, req, got, overtaken, looked>>

Ops == {"read", "patch", "delete", "erase_user"}
LimitNow == IF limit = 0 THEN DefaultLimit ELSE limit

Absent == 0
Asked == [op : Ops, target : Posts, owned : BOOLEAN]
NoRequest == [op |-> "read", target |-> CHOOSE p \in Posts : TRUE, owned |-> TRUE]

(* What get_post finds: the post of a user who is not deleted. *)
Current(p) == IF user_gone THEN Absent ELSE post[p]

Init ==
  /\ post = [p \in Posts |-> 1]
  /\ user_gone = FALSE
  /\ entry = [p \in Posts |-> Absent]
  /\ ttl = [p \in Posts |-> 0]
  /\ raced = {}
  /\ cut = {}
  /\ limit = 0
  /\ count = 0
  /\ admitted = 0
  /\ offered = {DefaultLimit}
  /\ pc = [r \in Requests |-> "idle"]
  /\ req = [r \in Requests |-> NoRequest]
  /\ got = [r \in Requests |-> Absent]
  /\ overtaken = {}
  /\ allowed = [r \in Requests |-> 0]
  /\ late = {}

Goto(r, l) == pc' = [pc EXCEPT ![r] = l]
Proceed(r, l) == Goto(r, l) /\ UNCHANGED <<req, got, overtaken>>

(* The answer leaves; the slot is free for another request. *)
Answer(r) ==
  /\ Goto(r, "idle")
  /\ got' = [got EXCEPT ![r] = Absent]
  /\ overtaken' = overtaken \ {r}
  /\ req' = [req EXCEPT ![r] = NoRequest]

AtStart(o) ==
  CASE o = "read" -> "lookup"
    [] o \in {"patch", "delete"} -> "find"
    [] OTHER -> "erase"

(* Any request; the counted caller or another one makes it. *)
Arrive(r) ==
  /\ pc[r] = "idle"
  /\ \E a \in Asked, counted \in BOOLEAN :
       /\ a.op \in {"read", "erase_user"} => a.owned
       /\ req' = [req EXCEPT ![r] = a]
       /\ Goto(r, IF counted THEN "limit" ELSE AtStart(a.op))
  /\ UNCHANGED <<tables, redis, limits, got, overtaken, looked>>

-----------------------------------------------------------------------------
(* rate_limiter_dependency looks up the tier and its limit ...             *)
RateLimiterDependency(r) ==
  /\ pc[r] = "limit"
  /\ allowed' = [allowed EXCEPT ![r] = LimitNow]
  /\ Proceed(r, "stamp")
  /\ UNCHANGED <<tables, redis, limits, late>>

(* ... is_rate_limited, two awaits later, takes the window from the clock  *)
(* and sends INCR ...                                                      *)
StampWindow(r) ==
  /\ pc[r] = "stamp"
  /\ Proceed(r, "count")
  /\ UNCHANGED <<tables, redis, limits, looked>>

(* Mutant of IsRateLimited: compared before it is incremented. *)
IsRateLimitedLate(r) == count > allowed[r]

(* ... and compares what the counter has come to.                          *)
IsRateLimited(r) == count + 1 > allowed[r]

Counted(r) ==
  /\ allowed' = [allowed EXCEPT ![r] = 0]
  /\ late' = late \ {r}
  /\ UNCHANGED <<tables, redis, limit, offered>>

(* Bound on count: above the largest limit there is, it no longer matters. *)
Count(r) ==
  /\ pc[r] = "count" /\ r \notin late
  /\ count' = IF \E m \in Limits \cup {DefaultLimit} : count < m THEN count + 1 ELSE count
  /\ IF IsRateLimited(r)
     THEN Answer(r) /\ UNCHANGED admitted
     ELSE Proceed(r, AtStart(req[r].op)) /\ admitted' = admitted + 1
  /\ Counted(r)

(* The counter of a window that is over may have expired: one more request *)
(* of that window is let through, or is not.                               *)
CountLate(r) ==
  /\ pc[r] = "count" /\ r \in late
  /\ Proceed(r, AtStart(req[r].op)) \/ Answer(r)
  /\ Counted(r)
  /\ UNCHANGED <<count, admitted>>

(* RateLimitService: the row is created, updated or deleted. *)
SetLimit ==
  /\ limit' \in Limits \cup {0}
  /\ offered' = offered \cup {LimitNow'}
  /\ UNCHANGED <<tables, redis, count, admitted, pc, req, got, overtaken, looked>>

(* The next window has another key; who has its limit and no stamp yet is  *)
(* counted in it.                                                          *)
NextWindow ==
  /\ count # 0
  /\ count' = 0
  /\ admitted' = 0
  /\ offered' = {LimitNow} \cup {allowed[r] : r \in {s \in Requests : pc[s] = "stamp"}}
  /\ late' = late \cup {r \in Requests : pc[r] = "count"}
  /\ UNCHANGED <<tables, redis, limit, pc, req, got, overtaken, allowed>>

-----------------------------------------------------------------------------
(* The decorator on GET: a hit answers. *)
Lookup(r) ==
  /\ pc[r] = "lookup"
  /\ IF entry[req[r].target] # Absent THEN Answer(r) ELSE Proceed(r, "query")
  /\ UNCHANGED <<tables, redis, limits, looked>>

(* get_post; NotFoundException passes the decorator. *)
GetPost(r) ==
  /\ pc[r] = "query"
  /\ IF Current(req[r].target) = Absent THEN Answer(r)
     ELSE got' = [got EXCEPT ![r] = Current(req[r].target)] /\ Goto(r, "store") /\ UNCHANGED <<req, overtaken>>
  /\ UNCHANGED <<tables, redis, limits, looked>>

(* SET: the key has no expiry until ... *)
Store(r) ==
  /\ pc[r] = "store"
  /\ entry' = [entry EXCEPT ![req[r].target] = got[r]]
  /\ ttl' = [ttl EXCEPT ![req[r].target] = 0]
  /\ raced' = IF r \in overtaken THEN raced \cup {req[r].target} ELSE raced \ {req[r].target}
  /\ cut' = cut \ {req[r].target}
  /\ overtaken' = overtaken \ {r}
  /\ got' = [got EXCEPT ![r] = Absent]
  /\ Goto(r, "expire")
  /\ UNCHANGED <<tables, limits, req, looked>>

(* Mutant of Expire: the expiry is set on another key. *)
ExpireOther(r) ==
  /\ pc[r] = "expire"
  /\ Answer(r)
  /\ UNCHANGED <<tables, redis, limits, looked>>

(* ... EXPIRE, on whatever is under the key by now. *)
Expire(r) ==
  /\ pc[r] = "expire"
  /\ ttl' = [ttl EXCEPT ![req[r].target] =
       IF entry[req[r].target] = Absent THEN 0 ELSE Lifetime]
  /\ cut' = cut \ {req[r].target}
  /\ Answer(r)
  /\ UNCHANGED <<tables, entry, raced, limits, looked>>

Drop(p) ==
  /\ entry' = [entry EXCEPT ![p] = Absent]
  /\ ttl' = [ttl EXCEPT ![p] = 0]
  /\ raced' = raced \ {p}
  /\ cut' = cut \ {p}

(* Time passes for a key. *)
Age(p) ==
  /\ ttl[p] # 0
  /\ IF ttl[p] = 1 THEN Drop(p)
     ELSE ttl' = [ttl EXCEPT ![p] = @ - 1] /\ UNCHANGED <<entry, raced, cut>>
  /\ UNCHANGED <<tables, limits, pc, req, got, overtaken, looked>>

-----------------------------------------------------------------------------
(* update_post, delete_post: the user of the path, then the post by its id. *)
FindPost(r) ==
  /\ pc[r] = "find"
  /\ IF (req[r].owned /\ user_gone) \/ post[req[r].target] = Absent
     THEN Answer(r) ELSE Proceed(r, "write")
  /\ UNCHANGED <<tables, redis, limits, looked>>

Written(r) ==
  CASE post[req[r].target] = Absent -> Absent
    [] req[r].op = "delete" -> Absent
    [] OTHER -> IF post[req[r].target] < MaxVersion THEN post[req[r].target] + 1 ELSE MaxVersion

(* The repository updates or deletes the row and commits. *)
Write(r) ==
  /\ pc[r] = "write"
  /\ post' = [post EXCEPT ![req[r].target] = Written(r)]
  /\ overtaken' = overtaken \cup
       {s \in Requests : pc[s] = "store" /\ req[s].target = req[r].target}
  /\ raced' = IF req[r].owned THEN raced ELSE raced \cup {req[r].target}
  /\ Goto(r, "invalidate")
  /\ UNCHANGED <<user_gone, entry, ttl, cut, limits, req, got, looked>>

(* Mutant of Invalidate: a deletion leaves the entry to expire. *)
InvalidateUpdated(r) ==
  /\ pc[r] = "invalidate"
  /\ IF req[r].owned /\ req[r].op = "patch" THEN Drop(req[r].target) ELSE UNCHANGED redis
  /\ Answer(r)
  /\ UNCHANGED <<tables, limits, looked>>

(* The decorator on other methods: the key of the path is deleted.  The    *)
(* extra keys and patterns are those of the list, which is never cached.   *)
Invalidate(r) ==
  /\ pc[r] = "invalidate"
  /\ IF req[r].owned THEN Drop(req[r].target) ELSE UNCHANGED redis
  /\ Answer(r)
  /\ UNCHANGED <<tables, limits, looked>>

(* delete_user, delete_db_user, update_user with another username: no      *)
(* cached response of the user is dropped.                                 *)
DeleteUser(r) ==
  /\ pc[r] = "erase"
  /\ user_gone' = TRUE
  /\ Answer(r)
  /\ UNCHANGED <<post, redis, limits, looked>>

(* Redis or the database raises, the request times out or its client is    *)
(* gone: at any await the request may be over.                             *)
Fail(r) ==
  /\ pc[r] # "idle"
  /\ raced' = IF pc[r] = "invalidate" THEN raced \cup {req[r].target} ELSE raced
  /\ cut' = IF pc[r] = "expire" /\ entry[req[r].target] # Absent /\ ttl[req[r].target] = 0
            THEN cut \cup {req[r].target} ELSE cut
  /\ Answer(r)
  /\ allowed' = [allowed EXCEPT ![r] = 0]
  /\ late' = late \ {r}
  /\ UNCHANGED <<tables, entry, ttl, limits>>

Next ==
  \/ \E r \in Requests :
       \/ Arrive(r)
       \/ RateLimiterDependency(r)
       \/ StampWindow(r)
       \/ Count(r)
       \/ CountLate(r)
       \/ Lookup(r)
       \/ GetPost(r)
       \/ Store(r)
       \/ Expire(r)
       \/ FindPost(r)
       \/ Write(r)
       \/ Invalidate(r)
       \/ DeleteUser(r)
       \/ Fail(r)
  \/ \E p \in Posts : Age(p)
  \/ SetLimit
  \/ NextWindow

(* What was started goes on, and Redis lets the time of its keys pass.     *)
(* Nobody has to send a request, to fail, or to open another window.       *)
Handle(r) ==
  \/ RateLimiterDependency(r) \/ StampWindow(r) \/ Count(r) \/ CountLate(r)
  \/ Lookup(r) \/ GetPost(r) \/ Store(r) \/ Expire(r)
  \/ FindPost(r) \/ Write(r) \/ Invalidate(r) \/ DeleteUser(r)

Fairness ==
  /\ \A r \in Requests : WF_vars(Handle(r))
  /\ \A p \in Posts : WF_vars(Age(p))

Spec == Init /\ [][Next]_vars /\ Fairness
-----------------------------------------------------------------------------
TypeOK ==
  /\ post \in [Posts -> 0..MaxVersion] /\ user_gone \in BOOLEAN
  /\ entry \in [Posts -> 0..MaxVersion] /\ ttl \in [Posts -> 0..Lifetime]
  /\ raced \subseteq Posts /\ cut \subseteq Posts
  /\ late \subseteq Requests /\ overtaken \subseteq Requests
  /\ limit \in Limits \cup {0} /\ {count, admitted} \subseteq Nat
  /\ offered \subseteq Limits \cup {DefaultLimit, 0}
  /\ pc \in [Requests -> {"idle", "limit", "stamp", "count", "lookup", "query", "store", "expire",
                          "find", "write", "invalidate", "erase"}]
  /\ req \in [Requests -> Asked] /\ got \in [Requests -> 0..MaxVersion]
  /\ allowed \in [Requests -> Limits \cup {DefaultLimit, 0}]

Stale(p) == entry[p] \notin {Absent, Current(p)}
Invalidating(p) ==
  \E r \in Requests : pc[r] = "invalidate" /\ req[r].target = p /\ req[r].owned

(* A cached post differs from the database only while the write that       *)
(* changed it is still to delete the key, or for one of four causes: a     *)
(* request that had read it before a write stored it after, the write came *)
(* under another path, its request was over before it deleted the key, or  *)
(* the user is gone.  So a reader that queries after the write puts the    *)
(* entry right.  The first cause needs no failure: the key is deleted and  *)
(* the old post is then stored, which readers get until it expires         *)
(* (core/utils/cache.py, inner).                                           *)
StaleHasCause ==
  \A p \in Posts : Stale(p) => p \in raced \/ user_gone \/ Invalidating(p)

(* Once the writes have stopped the cache comes to agree with the          *)
(* database, whatever raced before, unless the request that stored an      *)
(* entry was over between SET and EXPIRE: an entry that was overtaken, or  *)
(* not invalidated, is gone after its lifetime.                            *)
Converges == \A p \in Posts : <>[](~Stale(p) \/ p \in cut)

(* In one window the counted caller gets at most the largest of the limits *)
(* in force while it lasted and of those its requests had looked up before *)
(* it began and were counted with in it, however the lookups, the stamps,  *)
(* the counting and an administrator interleave; requests stamped in the   *)
(* window before are that one's (rate_limiter_dependency, is_rate_limited).*)
WithinLimit == \E m \in offered : admitted <= m

(* The inductive invariant of the limiter: what was admitted was counted,  *)
(* and whoever is, or will be, stamped with this window has looked up a    *)
(* limit on offer in it.                                                   *)
LimiterIInv ==
  /\ admitted <= count /\ WithinLimit /\ LimitNow \in offered
  /\ \A r \in Requests :
       pc[r] = "stamp" \/ (pc[r] = "count" /\ r \notin late) => allowed[r] \in offered

(* ... and of the cache: who was not overtaken still has the post he read. *)
ReadsHold ==
  \A r \in Requests : pc[r] = "store" /\ r \notin overtaken => got[r] = post[req[r].target]
=============================================================================

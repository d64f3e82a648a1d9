------------------------- MODULE ApiRequests_proofs -------------------------
(***************************************************************************)
(* Theorems about ApiRequests for any requests, posts, versions, lifetimes *)
(* and limits.                                                             *)
(***************************************************************************)
EXTENDS ApiRequests, TLAPS

Limit == Limits \cup {DefaultLimit, 0}

(* The limit in force is a limit, and a limit a number.                    *)
LEMMA LimitTypes == TypeOK => LimitNow \in Limit /\ Limit \subseteq Nat
BY ApiAssumption DEF TypeOK, LimitNow, Limit

Labels == {"idle", "limit", "stamp", "count", "lookup", "query", "store", "expire",
           "find", "write", "invalidate", "erase"}

(* The end of a request, and its way to a label, keep the types.           *)
LEMMA AnswerTypes ==
  ASSUME TypeOK, NEW r \in Requests, Answer(r)
  PROVE  /\ pc' \in [Requests -> Labels] /\ req' \in [Requests -> Asked]
         /\ got' \in [Requests -> 0..MaxVersion]
         /\ overtaken' \subseteq Requests
<1>1. NoRequest \in Asked
  BY ApiAssumption DEF NoRequest, Asked, Ops
<1>2. 0 \in 0..MaxVersion
  BY ApiAssumption
<1>3. QED
  BY <1>1, <1>2 DEF TypeOK, Answer, Goto, Absent, Labels

(* No step of a request, of a key, of the administrator or of the clock    *)
(* leaves the types.                                                       *)
LEMMA TypeStep == TypeOK /\ [Next]_vars => TypeOK'
<1> SUFFICES ASSUME TypeOK, [Next]_vars PROVE TypeOK'
  OBVIOUS
<1> USE ApiAssumption DEF tables, redis, limits, looked
<1>1. \A o : AtStart(o) \in Labels
  BY DEF AtStart, Labels
<1>2. 0 \in 0..MaxVersion /\ 0 \in 0..Lifetime /\ Lifetime \in 0..Lifetime
  OBVIOUS
<1>3. ASSUME NEW r \in Requests, Arrive(r) PROVE TypeOK'
  BY <1>1, <1>3 DEF Arrive, Goto, TypeOK, Labels
<1>4. ASSUME NEW r \in Requests, RateLimiterDependency(r) \/ StampWindow(r) PROVE TypeOK'
  <2>1. allowed' \in [Requests -> Limit]
    BY <1>4, LimitTypes DEF RateLimiterDependency, StampWindow, TypeOK, Limit
  <2>2. QED
    BY <1>4, <2>1 DEF RateLimiterDependency, StampWindow, Proceed, Goto, TypeOK, Limit
<1>5. ASSUME NEW r \in Requests, Count(r) \/ CountLate(r) PROVE TypeOK'
  <2>1. /\ pc' \in [Requests -> Labels] /\ req' \in [Requests -> Asked]
        /\ got' \in [Requests -> 0..MaxVersion] /\ overtaken' \subseteq Requests
    BY <1>1, <1>5, AnswerTypes DEF Count, CountLate, Proceed, Goto, TypeOK, Labels
  <2>2. count' \in Nat /\ admitted' \in Nat
    BY <1>5 DEF Count, CountLate, TypeOK
  <2>3. Counted(r)
    BY <1>5 DEF Count, CountLate
  <2>4. QED
    BY <2>1, <2>2, <2>3 DEF Counted, TypeOK, Labels
<1>6. ASSUME NEW r \in Requests, Lookup(r) \/ FindPost(r) \/ DeleteUser(r) PROVE TypeOK'
  <2>1. /\ pc' \in [Requests -> Labels] /\ req' \in [Requests -> Asked]
        /\ got' \in [Requests -> 0..MaxVersion] /\ overtaken' \subseteq Requests
    BY <1>6, AnswerTypes DEF Lookup, FindPost, DeleteUser, Proceed, Goto, TypeOK, Labels
  <2>2. QED
    BY <1>6, <2>1 DEF Lookup, FindPost, DeleteUser, TypeOK, Labels
<1>7. ASSUME NEW r \in Requests, GetPost(r) PROVE TypeOK'
  <2>1. Current(req[r].target) \in 0..MaxVersion
    BY <1>2 DEF Current, Absent, TypeOK, Asked
  <2>2. /\ pc' \in [Requests -> Labels] /\ req' \in [Requests -> Asked]
        /\ got' \in [Requests -> 0..MaxVersion] /\ overtaken' \subseteq Requests
    BY <1>7, <2>1, AnswerTypes DEF GetPost, Goto, TypeOK, Labels
  <2>3. QED
    BY <1>7, <2>2 DEF GetPost, TypeOK, Labels
<1>8. ASSUME NEW r \in Requests, Store(r) PROVE TypeOK'
  <2>1. req[r].target \in Posts
    BY DEF TypeOK, Asked
  <2>2. /\ entry' \in [Posts -> 0..MaxVersion] /\ ttl' \in [Posts -> 0..Lifetime]
        /\ got' \in [Requests -> 0..MaxVersion]
    BY <1>2, <1>8, <2>1 DEF Store, Absent, TypeOK
  <2>3. /\ raced' \subseteq Posts /\ cut' \subseteq Posts /\ overtaken' \subseteq Requests
        /\ pc' \in [Requests -> Labels]
    BY <1>8, <2>1 DEF Store, Goto, TypeOK, Labels
  <2>4. QED
    BY <1>8, <2>2, <2>3 DEF Store, TypeOK, Labels
<1>9. ASSUME NEW r \in Requests, Expire(r) PROVE TypeOK'
  BY <1>2, <1>9, AnswerTypes DEF Expire, TypeOK, Labels
<1>10. ASSUME NEW p \in Posts, Drop(p)
       PROVE  /\ entry' \in [Posts -> 0..MaxVersion] /\ ttl' \in [Posts -> 0..Lifetime]
              /\ raced' \subseteq Posts /\ cut' \subseteq Posts
  BY <1>2, <1>10 DEF Drop, Absent, TypeOK
<1>11. ASSUME NEW p \in Posts, Age(p) PROVE TypeOK'
  <2>1. CASE ttl[p] = 1
    BY <1>10, <1>11, <2>1 DEF Age, TypeOK
  <2>2. CASE ttl[p] # 1
    <3>1. ttl[p] - 1 \in 0..Lifetime
      BY <1>11 DEF Age, TypeOK
    <3>2. QED
      BY <1>11, <2>2, <3>1 DEF Age, TypeOK
  <2>3. QED
    BY <2>1, <2>2
<1>12. ASSUME NEW r \in Requests, Write(r) PROVE TypeOK'
  <2>1. req[r].target \in Posts
    BY DEF TypeOK, Asked
  <2>2. Written(r) \in 0..MaxVersion
    BY <2>1 DEF Written, Absent, TypeOK
  <2>3. QED
    BY <1>12, <2>1, <2>2 DEF Write, Goto, TypeOK
<1>13. ASSUME NEW r \in Requests, Invalidate(r) PROVE TypeOK'
  <2>1. req[r].target \in Posts
    BY DEF TypeOK, Asked
  <2>2. /\ entry' \in [Posts -> 0..MaxVersion] /\ ttl' \in [Posts -> 0..Lifetime]
        /\ raced' \subseteq Posts /\ cut' \subseteq Posts
    BY <1>10, <1>13, <2>1 DEF Invalidate, TypeOK
  <2>3. QED
    BY <1>13, <2>2, AnswerTypes DEF Invalidate, TypeOK, Labels
<1>14. ASSUME NEW r \in Requests, Fail(r) PROVE TypeOK'
  <2>1. req[r].target \in Posts
    BY DEF TypeOK, Asked
  <2>2. QED
    BY <1>14, <2>1, AnswerTypes DEF Fail, TypeOK, Labels
<1>15. CASE SetLimit
  <2>1. LimitNow' \in Limit
    BY <1>15 DEF SetLimit, LimitNow, Limit
  <2>2. QED
    BY <1>15, <2>1 DEF SetLimit, TypeOK, Limit
<1>16. CASE NextWindow
  <2>1. offered' \subseteq Limit
    BY <1>16, LimitTypes DEF NextWindow, TypeOK, Limit
  <2>2. QED
    BY <1>16, <2>1 DEF NextWindow, TypeOK, Limit
<1>17. CASE UNCHANGED vars
  BY <1>17 DEF vars, TypeOK
<1>18. QED
  BY <1>3, <1>4, <1>5, <1>6, <1>7, <1>8, <1>9, <1>11, <1>12, <1>13, <1>14, <1>15, <1>16,
     <1>17 DEF Next

(* Every variable keeps to its type, requests failing wherever they like.  *)
THEOREM TypeCorrect == Spec => []TypeOK
<1> USE ApiAssumption
<1>1. Init => TypeOK
  <2>1. NoRequest \in Asked
    BY DEF NoRequest, Asked, Ops
  <2>2. 1 \in 0..MaxVersion /\ 0 \in 0..MaxVersion /\ 0 \in 0..Lifetime
    OBVIOUS
  <2>3. ASSUME Init
        PROVE  /\ post \in [Posts -> 0..MaxVersion] /\ entry \in [Posts -> 0..MaxVersion]
               /\ ttl \in [Posts -> 0..Lifetime] /\ got \in [Requests -> 0..MaxVersion]
    BY <2>2, <2>3 DEF Init, Absent
  <2>4. ASSUME Init PROVE pc \in [Requests -> Labels] /\ req \in [Requests -> Asked]
    BY <2>1, <2>4 DEF Init, Labels
  <2>5. ASSUME Init PROVE allowed \in [Requests -> Limits \cup {DefaultLimit, 0}]
    BY <2>5 DEF Init
  <2>6. ASSUME Init PROVE {count, admitted} \subseteq Nat /\ offered \subseteq Limits \cup {DefaultLimit, 0}
    BY <2>6 DEF Init
  <2>7. ASSUME Init
        PROVE  raced = {} /\ cut = {} /\ late = {} /\ overtaken = {} /\ limit = 0 /\ user_gone \in BOOLEAN
    BY <2>7 DEF Init
  <2>8. QED
    BY <2>3, <2>4, <2>5, <2>6, <2>7 DEF TypeOK, Labels
<1>2. QED
  BY <1>1, TypeStep, PTL DEF Spec

-----------------------------------------------------------------------------
(* The rate limiter.  Only what looks up, stamps, counts, sets the limit   *)
(* or opens a window touches its state; everyone else keeps out of its     *)
(* labels.                                                                 *)
Limiting == {"stamp", "count"}

(* A request at r's labels has a limit that is on offer.                   *)
Entitled(r) == pc[r] = "stamp" \/ (pc[r] = "count" /\ r \notin late) => allowed[r] \in offered

LEMMA LimiterStep == TypeOK /\ LimiterIInv /\ [Next]_vars => LimiterIInv'
<1> SUFFICES ASSUME TypeOK, LimiterIInv, [Next]_vars PROVE LimiterIInv'
  OBVIOUS
<1> USE ApiAssumption DEF tables, redis, limits, looked
<1>1. \A r \in Requests : Entitled(r)
  BY DEF LimiterIInv, Entitled
<1>2. \A o : AtStart(o) \notin Limiting
  BY DEF AtStart, Limiting
<1>3. ASSUME NEW r \in Requests, UNCHANGED limits, UNCHANGED looked, pc'[r] \notin Limiting,
             \A s \in Requests \ {r} : pc'[s] = pc[s]
      PROVE  LimiterIInv'
  BY <1>3 DEF LimiterIInv, WithinLimit, LimitNow, Limiting
<1>4. ASSUME NEW r \in Requests, Answer(r)
      PROVE  pc'[r] \notin Limiting /\ \A s \in Requests \ {r} : pc'[s] = pc[s]
  BY <1>4 DEF Answer, Goto, TypeOK, Limiting
<1>5. ASSUME NEW r \in Requests, NEW l, l \notin Limiting, Goto(r, l)
      PROVE  pc'[r] \notin Limiting /\ \A s \in Requests \ {r} : pc'[s] = pc[s]
  BY <1>5 DEF Goto, TypeOK
<1>6. ASSUME NEW r \in Requests, Arrive(r) PROVE LimiterIInv'
  <2>1. PICK l : l \notin Limiting /\ Goto(r, l)
    BY <1>2, <1>6 DEF Arrive, Limiting
  <2>2. QED
    BY <1>3, <1>5, <1>6, <2>1 DEF Arrive
<1>7. ASSUME NEW r \in Requests, RateLimiterDependency(r) PROVE LimiterIInv'
  <2>1. allowed'[r] \in offered'
    BY <1>7 DEF RateLimiterDependency, LimiterIInv, TypeOK
  <2>2. \A s \in Requests \ {r} : Entitled(s)'
    BY <1>1, <1>7 DEF RateLimiterDependency, Proceed, Goto, Entitled, TypeOK
  <2>3. QED
    BY <1>7, <2>1, <2>2 DEF RateLimiterDependency, LimiterIInv, WithinLimit, LimitNow, Entitled
<1>8. ASSUME NEW r \in Requests, StampWindow(r) PROVE LimiterIInv'
  <2>1. \A s \in Requests : Entitled(s)'
    BY <1>1, <1>8 DEF StampWindow, Proceed, Goto, Entitled, TypeOK
  <2>2. QED
    BY <1>8, <2>1 DEF StampWindow, LimiterIInv, WithinLimit, LimitNow, Entitled
<1>9. ASSUME NEW r \in Requests, Counted(r), pc'[r] \notin Limiting,
             \A s \in Requests \ {r} : pc'[s] = pc[s]
      PROVE  LimitNow' \in offered' /\ offered' = offered /\ \A s \in Requests : Entitled(s)'
  BY <1>1, <1>9 DEF Counted, LimiterIInv, LimitNow, Entitled, TypeOK, Limiting
<1>10. ASSUME NEW r \in Requests, Count(r) PROVE LimiterIInv'
  <2>1. pc'[r] \notin Limiting /\ \A s \in Requests \ {r} : pc'[s] = pc[s]
    BY <1>2, <1>4, <1>5, <1>10 DEF Count, Proceed
  <2>2. LimitNow' \in offered' /\ offered' = offered /\ \A s \in Requests : Entitled(s)'
    BY <1>9, <1>10, <2>1 DEF Count
  <2>3. count \in Nat /\ admitted \in Nat /\ admitted <= count
    BY DEF LimiterIInv, TypeOK
  <2>4. CASE IsRateLimited(r)
    <3>1. admitted' = admitted /\ count' \in {count, count + 1}
      BY <1>10, <2>4 DEF Count
    <3>2. admitted' <= count' /\ WithinLimit'
      BY <2>2, <2>3, <3>1 DEF LimiterIInv, WithinLimit
    <3>3. QED
      BY <2>2, <3>2 DEF LimiterIInv, Entitled
  <2>5. CASE ~IsRateLimited(r)
    <3>1. allowed[r] \in offered /\ allowed[r] \in Limits \cup {DefaultLimit, 0}
      BY <1>1, <1>10 DEF Count, Entitled, TypeOK
    <3>2. allowed[r] \in Nat
      BY <3>1, LimitTypes DEF Limit
    <3>3. count < allowed[r] /\ allowed[r] # 0
      BY <2>3, <2>5, <3>2 DEF IsRateLimited
    <3>4. \E m \in Limits \cup {DefaultLimit} : count < m
      BY <3>1, <3>3
    <3>5. count' = count + 1 /\ admitted' = admitted + 1
      BY <1>10, <2>5, <3>4 DEF Count
    <3>6. admitted' <= count' /\ admitted' <= allowed[r]
      BY <2>3, <3>2, <3>3, <3>5
    <3>7. QED
      BY <2>2, <3>1, <3>6 DEF LimiterIInv, WithinLimit, Entitled
  <2>6. QED
    BY <2>4, <2>5
<1>11. ASSUME NEW r \in Requests, CountLate(r) PROVE LimiterIInv'
  <2>1. pc'[r] \notin Limiting /\ \A s \in Requests \ {r} : pc'[s] = pc[s]
    BY <1>2, <1>4, <1>5, <1>11 DEF CountLate, Proceed
  <2>2. LimitNow' \in offered' /\ offered' = offered /\ \A s \in Requests : Entitled(s)'
    BY <1>9, <1>11, <2>1 DEF CountLate
  <2>3. QED
    BY <1>11, <2>2 DEF CountLate, LimiterIInv, WithinLimit, Entitled
<1>12. ASSUME NEW r \in Requests, Lookup(r) \/ Expire(r) \/ Invalidate(r) \/ DeleteUser(r) \/ FindPost(r)
       PROVE  LimiterIInv'
  <2>1. pc'[r] \notin Limiting /\ \A s \in Requests \ {r} : pc'[s] = pc[s]
    BY <1>4, <1>5, <1>12 DEF Lookup, Expire, Invalidate, DeleteUser, FindPost, Proceed, Limiting
  <2>2. QED
    BY <1>3, <1>12, <2>1 DEF Lookup, Expire, Invalidate, DeleteUser, FindPost
<1>13. ASSUME NEW r \in Requests, GetPost(r) \/ Store(r) \/ Write(r) PROVE LimiterIInv'
  <2>1. pc'[r] \notin Limiting /\ \A s \in Requests \ {r} : pc'[s] = pc[s]
    BY <1>4, <1>5, <1>13 DEF GetPost, Store, Write, Limiting
  <2>2. QED
    BY <1>3, <1>13, <2>1 DEF GetPost, Store, Write
<1>14. ASSUME NEW r \in Requests, Fail(r) PROVE LimiterIInv'
  <2>1. pc'[r] \notin Limiting /\ \A s \in Requests \ {r} : pc'[s] = pc[s]
    BY <1>4, <1>14 DEF Fail
  <2>2. \A s \in Requests : Entitled(s)'
    BY <1>1, <1>14, <2>1 DEF Fail, Entitled, TypeOK, Limiting
  <2>3. QED
    BY <1>14, <2>2 DEF Fail, LimiterIInv, WithinLimit, LimitNow, Entitled
<1>15. CASE SetLimit
  <2>1. LimitNow' \in offered' /\ offered \subseteq offered' /\ WithinLimit'
    BY <1>15 DEF SetLimit, LimiterIInv, WithinLimit
  <2>2. QED
    BY <1>1, <1>15, <2>1 DEF SetLimit, LimiterIInv, Entitled
<1>16. CASE NextWindow
  <2>1. LimitNow' = LimitNow /\ LimitNow \in offered' /\ LimitNow \in Nat /\ admitted' = 0 /\ count' = 0
    BY <1>16, LimitTypes DEF NextWindow, LimitNow
  <2>2. \A s \in Requests : Entitled(s)'
    BY <1>16 DEF NextWindow, Entitled, TypeOK
  <2>3. QED
    BY <2>1, <2>2 DEF LimiterIInv, WithinLimit, Entitled
<1>17. ASSUME NEW p \in Posts, Age(p) PROVE LimiterIInv'
  BY <1>17 DEF Age, LimiterIInv, WithinLimit, LimitNow
<1>18. CASE UNCHANGED vars
  BY <1>18 DEF vars, LimiterIInv, WithinLimit, LimitNow
<1>19. QED
  BY <1>6, <1>7, <1>8, <1>10, <1>11, <1>12, <1>13, <1>14, <1>15, <1>16, <1>17, <1>18 DEF Next

(* In a window a caller gets no more than the largest limit in force in it *)
(* or looked up by who was stamped in it, whatever the requests, the       *)
(* administrator and the clock do.                                         *)
THEOREM LimitHolds == Spec => []WithinLimit
<1>1. Init => LimiterIInv
  BY ApiAssumption DEF Init, LimiterIInv, WithinLimit, LimitNow
<1>2. LimiterIInv => WithinLimit
  BY DEF LimiterIInv
<1>3. QED
  BY <1>1, <1>2, TypeCorrect, LimiterStep, PTL DEF Spec

-----------------------------------------------------------------------------
(* The cache.  Whoever takes a request away from "invalidate" drops the    *)
(* entry or records that it did not.                                       *)
LEMMA StaleStep == TypeOK /\ ReadsHold /\ StaleHasCause /\ [Next]_vars => StaleHasCause'
<1> SUFFICES ASSUME TypeOK, ReadsHold, StaleHasCause, [Next]_vars, NEW p \in Posts, Stale(p)'
             PROVE  p \in raced' \/ user_gone' \/ Invalidating(p)'
  BY DEF StaleHasCause
<1> USE DEF tables, redis, limits, looked
<1> DEFINE Goal == p \in raced' \/ user_gone' \/ Invalidating(p)'
<1>1. Stale(p) => p \in raced \/ user_gone \/ Invalidating(p)
  BY DEF StaleHasCause
<1>2. ASSUME NEW r \in Requests, pc[r] # "invalidate",
             \A s \in Requests \ {r} : pc'[s] = pc[s] /\ req'[s] = req[s]
      PROVE  Invalidating(p) => Invalidating(p)'
  BY <1>2 DEF Invalidating
<1>3. ASSUME NEW r \in Requests, pc[r] # "invalidate",
             \A s \in Requests \ {r} : pc'[s] = pc[s] /\ req'[s] = req[s],
             UNCHANGED <<post, user_gone, entry>>, raced \subseteq raced'
      PROVE  Goal
  BY <1>1, <1>2, <1>3 DEF Stale, Current
<1>4. ASSUME NEW r \in Requests, Answer(r)
      PROVE  \A s \in Requests \ {r} : pc'[s] = pc[s] /\ req'[s] = req[s]
  BY <1>4 DEF Answer, Goto, TypeOK
<1>5. ASSUME NEW r \in Requests, NEW l, Goto(r, l)
      PROVE  \A s \in Requests \ {r} : pc'[s] = pc[s]
  BY <1>5 DEF Goto, TypeOK
<1>6. ASSUME NEW q \in Posts, Drop(q)
      PROVE  entry'[p] = (IF p = q THEN Absent ELSE entry[p]) /\ (p \in raced /\ p # q => p \in raced')
  BY <1>6 DEF Drop, TypeOK
<1>7. ASSUME NEW r \in Requests, Arrive(r) PROVE Goal
  <2>1. \A s \in Requests \ {r} : pc'[s] = pc[s] /\ req'[s] = req[s]
    BY <1>5, <1>7 DEF Arrive, TypeOK
  <2>2. QED
    BY <1>3, <1>7, <2>1 DEF Arrive
<1>8. ASSUME NEW r \in Requests,
             \/ RateLimiterDependency(r) \/ StampWindow(r) \/ Count(r) \/ CountLate(r)
             \/ Lookup(r) \/ GetPost(r) \/ FindPost(r)
      PROVE  Goal
  <2>1. \A s \in Requests \ {r} : pc'[s] = pc[s] /\ req'[s] = req[s]
    BY <1>4, <1>5, <1>8 DEF RateLimiterDependency, StampWindow, Count, CountLate, Lookup, GetPost, FindPost, Proceed
  <2>2. UNCHANGED <<tables, redis>> /\ pc[r] # "invalidate"
    BY <1>8 DEF RateLimiterDependency, StampWindow, Count, CountLate, Counted, Lookup, GetPost, FindPost
  <2>3. QED
    BY <1>3, <2>1, <2>2
<1>9. ASSUME NEW r \in Requests, Expire(r) PROVE Goal
  BY <1>3, <1>4, <1>9 DEF Expire
<1>10. ASSUME NEW r \in Requests, Store(r) PROVE Goal
  <2>1. \A s \in Requests \ {r} : pc'[s] = pc[s] /\ req'[s] = req[s]
    BY <1>5, <1>10 DEF Store
  <2>2. CASE p = req[r].target
    <3>1. r \in overtaken => p \in raced'
      BY <1>10, <2>2 DEF Store
    <3>2. r \notin overtaken => got[r] = post[p]
      BY <1>10, <2>2 DEF Store, ReadsHold
    <3>3. QED
      BY <1>10, <2>2, <3>1, <3>2 DEF Store, Stale, Current, TypeOK
  <2>3. CASE p # req[r].target
    <3>1. entry'[p] = entry[p] /\ (p \in raced => p \in raced')
      BY <1>10, <2>3 DEF Store, TypeOK
    <3>2. QED
      BY <1>1, <1>2, <1>10, <2>1, <3>1 DEF Store, Stale, Current
  <2>4. QED
    BY <2>2, <2>3
<1>11. ASSUME NEW r \in Requests, Write(r) PROVE Goal
  <2>1. pc'[r] = "invalidate" /\ req' = req
    BY <1>11 DEF Write, Goto, TypeOK
  <2>2. CASE p = req[r].target
    BY <1>11, <2>1, <2>2 DEF Write, Invalidating
  <2>3. CASE p # req[r].target
    <3>1. post'[p] = post[p] /\ (p \in raced => p \in raced')
      BY <1>11, <2>3 DEF Write, TypeOK
    <3>2. \A s \in Requests \ {r} : pc'[s] = pc[s] /\ req'[s] = req[s]
      BY <1>5, <1>11 DEF Write
    <3>3. QED
      BY <1>1, <1>2, <1>11, <3>1, <3>2 DEF Write, Stale, Current
  <2>4. QED
    BY <2>2, <2>3
<1>12. ASSUME NEW r \in Requests, Invalidate(r) PROVE Goal
  <2>1. req[r].target \in Posts /\ req[r].owned \in BOOLEAN
    BY DEF TypeOK, Asked
  <2>2. \A s \in Requests \ {r} : pc'[s] = pc[s] /\ req'[s] = req[s]
    BY <1>4, <1>12 DEF Invalidate
  <2>3. CASE req[r].owned /\ p = req[r].target
    BY <1>6, <1>12, <2>1, <2>3 DEF Invalidate, Stale
  <2>4. CASE ~(req[r].owned /\ p = req[r].target)
    <3>1. Invalidating(p) => Invalidating(p)'
      BY <2>2, <2>4 DEF Invalidating
    <3>2. entry'[p] = entry[p] /\ (p \in raced => p \in raced')
      BY <1>6, <1>12, <2>1, <2>4 DEF Invalidate
    <3>3. QED
      BY <1>1, <1>12, <3>1, <3>2 DEF Invalidate, Stale, Current
  <2>5. QED
    BY <2>3, <2>4
<1>13. ASSUME NEW r \in Requests, DeleteUser(r) PROVE Goal
  BY <1>13 DEF DeleteUser
<1>14. ASSUME NEW r \in Requests, Fail(r) PROVE Goal
  <2>1. \A s \in Requests \ {r} : pc'[s] = pc[s] /\ req'[s] = req[s]
    BY <1>4, <1>14 DEF Fail
  <2>2. CASE pc[r] = "invalidate" /\ p = req[r].target
    BY <1>14, <2>2 DEF Fail
  <2>3. CASE ~(pc[r] = "invalidate" /\ p = req[r].target)
    <3>1. Invalidating(p) => Invalidating(p)'
      BY <2>1, <2>3 DEF Invalidating
    <3>2. UNCHANGED <<post, user_gone, entry>> /\ raced \subseteq raced'
      BY <1>14 DEF Fail
    <3>3. QED
      BY <1>1, <3>1, <3>2 DEF Stale, Current
  <2>4. QED
    BY <2>2, <2>3
<1>15. ASSUME NEW q \in Posts, Age(q) PROVE Goal
  <2>1. Invalidating(p)' <=> Invalidating(p)
    BY <1>15 DEF Age, Invalidating
  <2>2. CASE ttl[q] = 1
    BY <1>1, <1>6, <1>15, <2>1, <2>2 DEF Age, Stale, Current
  <2>3. CASE ttl[q] # 1
    BY <1>1, <1>15, <2>1, <2>3 DEF Age, Stale, Current
  <2>4. QED
    BY <2>2, <2>3
<1>16. CASE SetLimit \/ NextWindow \/ UNCHANGED vars
  BY <1>1, <1>16 DEF SetLimit, NextWindow, vars, Stale, Current, Invalidating
<1>17. QED
  BY <1>7, <1>8, <1>9, <1>10, <1>11, <1>12, <1>13, <1>14, <1>15, <1>16 DEF Next

(* Whoever has read a post and is still to store it has what the database  *)
(* has, unless a write overtook him.                                       *)
LEMMA ReadsStep == TypeOK /\ ReadsHold /\ [Next]_vars => ReadsHold'
<1> SUFFICES ASSUME TypeOK, ReadsHold, [Next]_vars, NEW s \in Requests,
                    pc'[s] = "store", s \notin overtaken'
             PROVE  got'[s] = post'[req'[s].target]
  BY DEF ReadsHold
<1> USE DEF tables, redis, limits, looked
<1> DEFINE Goal == got'[s] = post'[req'[s].target]
<1>1. pc[s] = "store" /\ s \notin overtaken => got[s] = post[req[s].target]
  BY DEF ReadsHold
<1>2. ASSUME NEW r \in Requests, Answer(r) PROVE r # s
  BY <1>2 DEF Answer, Goto, TypeOK
<1>3. ASSUME NEW r \in Requests, NEW l, l # "store", Goto(r, l)
      PROVE  r # s /\ pc[s] = "store"
  BY <1>3 DEF Goto, TypeOK
<1>4. \A o : AtStart(o) # "store"
  BY DEF AtStart
<1>5. ASSUME NEW r \in Requests, Answer(r), UNCHANGED post PROVE Goal
  BY <1>1, <1>2, <1>5 DEF Answer, Goto, TypeOK
<1>6. ASSUME NEW r \in Requests, NEW l, l # "store", Proceed(r, l), UNCHANGED post PROVE Goal
  BY <1>1, <1>3, <1>6 DEF Proceed
<1>7. ASSUME NEW r \in Requests, Arrive(r) PROVE Goal
  <2>1. PICK l : l # "store" /\ Goto(r, l)
    BY <1>4, <1>7 DEF Arrive
  <2>2. QED
    BY <1>1, <1>3, <1>7, <2>1 DEF Arrive, TypeOK
<1>8. ASSUME NEW r \in Requests,
             \/ RateLimiterDependency(r) \/ StampWindow(r) \/ Count(r) \/ CountLate(r)
             \/ Lookup(r) \/ FindPost(r) \/ Expire(r) \/ Invalidate(r) \/ DeleteUser(r) \/ Fail(r)
      PROVE  Goal
  <2>1. UNCHANGED post
    BY <1>8 DEF RateLimiterDependency, StampWindow, Count, CountLate, Counted, Lookup, FindPost, Expire,
                Invalidate, DeleteUser, Fail
  <2>2. Answer(r) \/ \E l : l # "store" /\ Proceed(r, l)
    BY <1>4, <1>8 DEF RateLimiterDependency, StampWindow, Count, CountLate, Lookup, FindPost, Expire,
                      Invalidate, DeleteUser, Fail
  <2>3. QED
    BY <1>5, <1>6, <2>1, <2>2
<1>9. ASSUME NEW r \in Requests, GetPost(r) PROVE Goal
  <2>1. CASE r = s
    BY <1>2, <1>9, <2>1 DEF GetPost, Current, TypeOK
  <2>2. CASE r # s
    BY <1>1, <1>5, <1>9, <2>2 DEF GetPost, Goto, TypeOK
  <2>3. QED
    BY <2>1, <2>2
<1>10. ASSUME NEW r \in Requests, Store(r) PROVE Goal
  BY <1>1, <1>3, <1>10 DEF Store, TypeOK
<1>11. ASSUME NEW r \in Requests, Write(r) PROVE Goal
  <2>1. pc[s] = "store" /\ req' = req /\ got' = got
    BY <1>3, <1>11 DEF Write
  <2>2. s \notin overtaken /\ req[s].target # req[r].target
    BY <1>11, <2>1 DEF Write
  <2>3. QED
    BY <1>1, <1>11, <2>1, <2>2 DEF Write, TypeOK
<1>12. CASE SetLimit \/ NextWindow \/ UNCHANGED vars
  BY <1>1, <1>12 DEF SetLimit, NextWindow, vars
<1>13. ASSUME NEW p \in Posts, Age(p) PROVE Goal
  BY <1>1, <1>13 DEF Age
<1>14. QED
  BY <1>7, <1>8, <1>9, <1>10, <1>11, <1>12, <1>13 DEF Next

(* A cached post is outdated for one of the known reasons only.            *)
THEOREM OutdatedForAReason == Spec => []StaleHasCause
<1>1. Init => StaleHasCause /\ ReadsHold
  BY DEF Init, StaleHasCause, Stale, ReadsHold
<1>2. QED
  BY <1>1, TypeCorrect, ReadsStep, StaleStep, PTL DEF Spec
=============================================================================

----------------------- MODULE TokenSessions_proofs -----------------------
(* Proofs about TokenSessions: a refresh token buys at most one pair, a    *)
(* logout is final and a revoked token is refused, for any number of        *)
(* requests, tokens and any lifetimes, on a host that is not west of UTC.   *)
EXTENDS TokenSessions, TLAPS

USE TimesAssumption

(* The invariant holds before the first login.                             *)
LEMMA InitIInv == Init => IInv
<1> SUFFICES ASSUME Init PROVE IInv
  OBVIOUS
<1>1. TypeOK
  BY DEF Init, TypeOK, Settled
<1>2. \A r \in Requests : ~ Working(r) /\ pc[r] = "idle" /\ ~ late[r]
  BY DEF Init, Working, Settled
<1>3. issued = {} /\ blacklist = {} /\ loggedout = {}
  BY DEF Init
<1> QED
  BY <1>1, <1>2, <1>3 DEF IInv, Phases, LineageKnown, ConsumedIsHeld, ConsumedOnce,
     LateIsExpired, OneUse, LogoutIsFinal

(* What an expiry is, for the two kinds of token.                          *)
LEMMA Expiries ==
  ASSUME TypeOK
  PROVE  /\ \A t \in Refresh : /\ RefreshToken(t) \in Token
                               /\ Expiry(RefreshToken(t)) = issued_at[t] + RefreshTTL
                               /\ Expiry(RefreshToken(t)) \in Nat
         /\ \A n \in Nat : /\ AccessToken(n) \in Token
                           /\ Expiry(AccessToken(n)) = n + AccessTTL
                           /\ Expiry(AccessToken(n)) \in Nat
         /\ \A t, s \in Refresh : RefreshToken(t) = RefreshToken(s) => t = s
         /\ \A t \in Refresh, n \in Nat : RefreshToken(t) # AccessToken(n)
         /\ \A tok \in Token :
              \/ \E t \in Refresh : tok = RefreshToken(t)
              \/ \E n \in Nat : tok = AccessToken(n)
  BY DEF TypeOK, Token, Expiry, RefreshToken, AccessToken

(* The same after a step.                                                  *)
LEMMA ExpiriesNext ==
  ASSUME TypeOK'
  PROVE  /\ \A t \in Refresh : /\ Expiry(RefreshToken(t))' = issued_at'[t] + RefreshTTL
                               /\ Expiry(RefreshToken(t))' \in Nat
         /\ \A n \in Nat : Expiry(AccessToken(n))' = n + AccessTTL
  BY DEF TypeOK, Expiry, RefreshToken, AccessToken

(* What a request presents is a token.                                     *)
LEMMA Subjects ==
  ASSUME TypeOK, NEW r \in Requests
  PROVE  Subject(r) \in Token
  BY Expiries DEF TypeOK, Subject

(* TypeOK is inductive by itself.                                          *)
LEMMA TypeStep == TypeOK /\ [Next]_vars => TypeOK'
<1> SUFFICES ASSUME TypeOK, [Next]_vars PROVE TypeOK'
  OBVIOUS
<1> USE DEF TypeOK, table, request
<1>1. CASE Login
  BY <1>1 DEF Login, NewPair
<1>2. CASE Cleanup
  BY <1>2 DEF Cleanup
<1>3. CASE Tick
  BY <1>3 DEF Tick
<1>4. ASSUME NEW r \in Requests, Start(r) PROVE TypeOK'
  BY <1>4 DEF Start, Settled
<1>5. ASSUME NEW r \in Requests, Check(r) PROVE TypeOK'
  BY <1>5 DEF Check, Settled
<1>6. ASSUME NEW r \in Requests, Decode(r) PROVE TypeOK'
  BY <1>6 DEF Decode, Settled
<1>7. ASSUME NEW r \in Requests, InsertConflicts(r) PROVE TypeOK'
  BY <1>7 DEF InsertConflicts, Settled
<1>8. ASSUME NEW r \in Requests, Insert(r) PROVE TypeOK'
  <2>1. blacklist' \subseteq Token /\ UNCHANGED <<now, table, bearer, cookie, late>>
    BY <1>8, Subjects DEF Insert
  <2>2. CASE doing[r] = "refresh"
    BY <1>8, <2>1, <2>2 DEF Insert, Inserted, Settled
  <2>3. CASE doing[r] = "logout"
    BY <1>8, <2>1, <2>3 DEF Insert, Inserted, Settled
  <2>4. CASE doing[r] = "logout_refresh"
    <3>1. {AccessToken(bearer[r]), RefreshToken(cookie[r])} \subseteq Token
      BY Expiries
    <3>2. pc' = [pc EXCEPT ![r] = "accepted"] /\ UNCHANGED doing
      BY <1>8, <2>4 DEF Insert, Inserted
    <3>3. loggedout' = loggedout \cup {AccessToken(bearer[r]), RefreshToken(cookie[r])}
      BY <1>8, <2>4 DEF Insert, Inserted
    <3>4. loggedout' \subseteq Token
      BY <3>1, <3>3
    <3>5. pc' \in [Requests -> Settled \cup {"checking", "decoding", "inserting", "issuing"}]
      BY <3>2 DEF Settled
    <3> QED
      BY <2>1, <3>2, <3>4, <3>5
  <2> QED
    BY <1>8, <2>2, <2>3, <2>4 DEF Insert, Inserted
<1>9. ASSUME NEW r \in Requests, Issue(r) PROVE TypeOK'
  BY <1>9 DEF Issue, NewPair, Settled
<1>10. ASSUME NEW r \in Requests, Abort(r) PROVE TypeOK'
  BY <1>10 DEF Abort, Settled
<1>11. CASE UNCHANGED vars
  BY <1>11 DEF vars
<1> QED
  BY <1>1, <1>2, <1>3, <1>4, <1>5, <1>6, <1>7, <1>8, <1>9, <1>10, <1>11 DEF Next

(* What every step keeps: time does not go back, the pairs that were made  *)
(* stay as they are, and a token that was revoked stays revoked until it   *)
(* has expired. The last is where the time zone matters.                   *)
LEMMA Frame ==
  ASSUME TypeOK, LineageKnown, ZoneNotWest, [Next]_vars
  PROVE  /\ now' >= now
         /\ issued \subseteq issued'
         /\ \A t \in issued : parent'[t] = parent[t] /\ issued_at'[t] = issued_at[t]
         /\ \A t \in issued : Expiry(RefreshToken(t))' = Expiry(RefreshToken(t))
         /\ \A t \in issued : Held(RefreshToken(t)) => Held(RefreshToken(t))'
         /\ \A n \in Nat : Expiry(AccessToken(n))' = Expiry(AccessToken(n))
         /\ \A n \in Nat : Held(AccessToken(n)) => Held(AccessToken(n))'
<1> USE DEF table, request
<1>1. TypeOK'
  BY TypeStep
<1>2. now' >= now /\ issued \subseteq issued'
  BY DEF TypeOK, Next, vars, Login, NewPair, Cleanup, Tick, Start, Check, Decode,
     InsertConflicts, Insert, Issue, Abort
<1>3. \A t \in issued : parent'[t] = parent[t] /\ issued_at'[t] = issued_at[t]
  BY DEF TypeOK, Next, vars, Login, NewPair, Cleanup, Tick, Start, Check, Decode,
     InsertConflicts, Insert, Issue, Abort
<1>4. \A t \in issued : Expiry(RefreshToken(t))' = Expiry(RefreshToken(t))
  BY <1>1, <1>3, Expiries, ExpiriesNext DEF TypeOK
<1>5. \A n \in Nat : Expiry(AccessToken(n))' = Expiry(AccessToken(n))
  BY <1>1, Expiries, ExpiriesNext
<1>6. \A tok \in Token : tok \in blacklist /\ tok \notin blacklist' => now >= Expiry(tok)
  <2>1. CASE Cleanup
    <3> SUFFICES ASSUME NEW tok \in Token, tok \in blacklist, tok \notin blacklist'
                 PROVE  now >= Expiry(tok)
      OBVIOUS
    <3>1. ~ (Expiry(tok) + ZoneOffset > now)
      BY <2>1 DEF Cleanup
    <3>2. Expiry(tok) \in Nat
      BY Expiries
    <3> QED
      BY <3>1, <3>2 DEF ZoneNotWest, TypeOK
  <2>2. CASE ~ Cleanup
    BY <2>2 DEF Next, vars, Login, Tick, Start, Check, Decode, InsertConflicts,
       Insert, Issue, Abort
  <2> QED
    BY <2>1, <2>2
<1>7. \A t \in issued : Held(RefreshToken(t)) => Held(RefreshToken(t))'
  BY <1>1, <1>2, <1>4, <1>6, Expiries DEF Held, TypeOK
<1>8. \A n \in Nat : Held(AccessToken(n)) => Held(AccessToken(n))'
  BY <1>1, <1>2, <1>5, <1>6, Expiries DEF Held, TypeOK
<1> QED
  BY <1>2, <1>3, <1>4, <1>5, <1>7, <1>8

(* No step takes a request to a place its operation does not have.         *)
LEMMA PhasesStep ==
  ASSUME TypeOK, Phases, [Next]_vars
  PROVE  Phases'
<1> USE DEF table, request, TypeOK, Phases, Working, Settled
<1>1. CASE Login
  BY <1>1 DEF Login, NewPair
<1>2. CASE Cleanup \/ Tick \/ UNCHANGED vars
  BY <1>2 DEF Cleanup, Tick, vars
<1>3. ASSUME NEW r \in Requests, Start(r) PROVE Phases'
  BY <1>3 DEF Start
<1>4. ASSUME NEW r \in Requests, Check(r) \/ Decode(r) \/ InsertConflicts(r) \/ Abort(r)
      PROVE  Phases'
  BY <1>4 DEF Check, Decode, InsertConflicts, Abort
<1>5. ASSUME NEW r \in Requests, Insert(r) PROVE Phases'
  BY <1>5 DEF Insert, Inserted
<1>6. ASSUME NEW r \in Requests, Issue(r) PROVE Phases'
  BY <1>6 DEF Issue, NewPair
<1> QED
  BY <1>1, <1>2, <1>3, <1>4, <1>5, <1>6 DEF Next

(* A pair is bought with one that was issued, and only issued ones are     *)
(* consumed or logged out.                                                 *)
LEMMA LineageStep ==
  ASSUME TypeOK, Phases, LineageKnown, [Next]_vars
  PROVE  LineageKnown'
<1> USE DEF table, request, LineageKnown
<1>1. \A t \in Refresh, n \in Nat : RefreshToken(t) # AccessToken(n)
  BY Expiries
<1>2. \A t, s \in Refresh : RefreshToken(t) = RefreshToken(s) => t = s
  BY Expiries
<1>3. CASE Login
  BY <1>3 DEF Login, NewPair, TypeOK, RefreshToken
<1>4. CASE Cleanup \/ Tick \/ UNCHANGED vars
  BY <1>4 DEF Cleanup, Tick, vars, RefreshToken
<1>5. ASSUME NEW r \in Requests,
             Start(r) \/ Check(r) \/ Decode(r) \/ InsertConflicts(r) \/ Abort(r)
      PROVE  LineageKnown'
  BY <1>5 DEF Start, Check, Decode, InsertConflicts, Abort, RefreshToken
<1>6. ASSUME NEW r \in Requests, Insert(r) PROVE LineageKnown'
  <2>1. cookie[r] \in issued /\ cookie[r] \in Refresh /\ bearer[r] \in Nat
    BY <1>6 DEF Insert, Phases, Working, Settled, TypeOK
  <2>2. UNCHANGED table
    BY <1>6 DEF Insert
  <2>3. \A t \in Refresh :
          RefreshToken(t) \in blacklist' \cup loggedout' =>
            RefreshToken(t) \in blacklist \cup loggedout \/ t = cookie[r]
    BY <1>1, <1>2, <1>6, <2>1 DEF Insert, Inserted, Subject
  <2>4. \A t \in Refresh : RefreshToken(t)' = RefreshToken(t)
    BY DEF RefreshToken
  <2> QED
    BY <2>1, <2>2, <2>3, <2>4
<1>7. ASSUME NEW r \in Requests, Issue(r) PROVE LineageKnown'
  <2>1. cookie[r] \in issued
    BY <1>7 DEF Issue, Phases, Working, Settled
  <2> QED
    BY <1>7, <2>1 DEF Issue, NewPair, TypeOK, RefreshToken
<1> QED
  BY <1>3, <1>4, <1>5, <1>6, <1>7 DEF Next

(* A token that was consumed stays in the table until it expires.          *)
LEMMA HeldStep ==
  ASSUME TypeOK, Phases, LineageKnown, ConsumedIsHeld, ZoneNotWest, [Next]_vars
  PROVE  ConsumedIsHeld'
<1> USE DEF table, request
<1>1. /\ \A t \in issued : Held(RefreshToken(t)) => Held(RefreshToken(t))'
      /\ \A n \in Nat : Held(AccessToken(n)) => Held(AccessToken(n))'
  BY Frame
<1>2. \A tok \in loggedout : Held(tok)'
  <2> SUFFICES ASSUME NEW tok \in loggedout PROVE Held(tok)'
    OBVIOUS
  <2>1. tok \in Token /\ Held(tok)
    BY DEF TypeOK, ConsumedIsHeld
  <2>2. CASE \E n \in Nat : tok = AccessToken(n)
    BY <1>1, <2>1, <2>2
  <2>3. CASE \E t \in Refresh : tok = RefreshToken(t)
    BY <1>1, <2>1, <2>3 DEF LineageKnown
  <2> QED
    BY <2>1, <2>2, <2>3, Expiries
<1>3. \A tok : tok \in blacklist' => Held(tok)'
  BY DEF Held
<1>4. loggedout' = loggedout =>
        \A tok \in loggedout' : Held(tok)'
  BY <1>2
<1>5. CASE Login
  <2>1. PICK t \in Refresh : NewPair(t, t)
    BY <1>5 DEF Login
  <2>2. UNCHANGED <<pc, doing, bearer, cookie, loggedout>>
    BY <1>5 DEF Login
  <2>3. ASSUME NEW s \in issued', parent'[s] # s PROVE Held(RefreshToken(parent[s]))'
    <3>1. s \in issued /\ parent'[s] = parent[s]
      BY <2>1, <2>3 DEF NewPair, TypeOK
    <3> QED
      BY <1>1, <2>3, <3>1 DEF ConsumedIsHeld, LineageKnown
  <2>4. \A r \in Requests : Working(r) => cookie[r] \in issued /\ bearer[r] \in Nat
    BY DEF Phases, TypeOK
  <2>5. \A r \in Requests : pc'[r] = "issuing" => Held(RefreshToken(cookie[r]))'
    BY <1>1, <2>2, <2>4 DEF ConsumedIsHeld, Working, Settled
  <2>6. \A r \in Requests : Working(r)' /\ doing'[r] = "logout_refresh" =>
          Held(AccessToken(bearer[r]))'
    BY <1>1, <2>2, <2>4 DEF ConsumedIsHeld, Working
  <2> QED
    BY <1>4, <2>2, <2>3, <2>5, <2>6 DEF ConsumedIsHeld
<1>6. CASE Cleanup \/ Tick \/ UNCHANGED vars
  BY <1>1, <1>4, <1>6 DEF Cleanup, Tick, vars, ConsumedIsHeld, TypeOK, LineageKnown, Phases, Working, Settled
<1>7. ASSUME NEW r \in Requests,
             Start(r) \/ Check(r) \/ Decode(r) \/ InsertConflicts(r) \/ Abort(r)
      PROVE  ConsumedIsHeld'
  BY <1>1, <1>4, <1>7 DEF Start, Check, Decode, InsertConflicts, Abort, ConsumedIsHeld, TypeOK, LineageKnown, Phases, Working, Settled
<1>8. ASSUME NEW r \in Requests, Insert(r) PROVE ConsumedIsHeld'
  BY <1>1, <1>2, <1>3, <1>8 DEF Insert, Inserted, Subject, ConsumedIsHeld, TypeOK, LineageKnown, Phases, Working, Settled
<1>9. ASSUME NEW r \in Requests, Issue(r) PROVE ConsumedIsHeld'
  BY <1>1, <1>4, <1>9 DEF Issue, NewPair, ConsumedIsHeld, TypeOK, LineageKnown, Phases, Working, Settled
<1> QED
  BY <1>5, <1>6, <1>7, <1>8, <1>9 DEF Next

(* How a step changes what a token has bought.                             *)
LEMMA SuccessorsStep ==
  ASSUME TypeOK, Phases, LineageKnown, [Next]_vars, NEW t \in issued'
  PROVE  \/ t \in issued /\ Successors(t)' = Successors(t)
         \/ t \notin issued /\ Successors(t)' = {}
         \/ /\ t \in issued
            /\ \E r \in Requests : Issue(r) /\ t = cookie[r]
            /\ \E n \in Refresh : Successors(t)' = Successors(t) \cup {n}
<1> USE DEF table, request
<1>1. CASE Login
  <2>1. PICK n \in Refresh : NewPair(n, n)
    BY <1>1 DEF Login
  <2> QED
    BY <2>1 DEF NewPair, TypeOK, LineageKnown, Successors
<1>2. CASE UNCHANGED table
  BY <1>2 DEF Successors
<1>3. ASSUME NEW r \in Requests, Issue(r)
      PROVE  \/ t \in issued /\ Successors(t)' = Successors(t)
             \/ t \notin issued /\ Successors(t)' = {}
             \/ /\ t \in issued
                /\ t = cookie[r]
                /\ \E n \in Refresh : Successors(t)' = Successors(t) \cup {n}
  <2>1. PICK n \in Refresh : NewPair(n, cookie[r])
    BY <1>3 DEF Issue
  <2>2. cookie[r] \in issued /\ n \notin issued /\ n # cookie[r]
    BY <1>3, <2>1 DEF Issue, Phases, Working, Settled, NewPair
  <2>3. \A s \in issued : parent'[s] = parent[s]
    BY <2>1 DEF NewPair, TypeOK
  <2>4. issued' = issued \cup {n} /\ parent'[n] = cookie[r]
    BY <2>1 DEF NewPair, TypeOK
  <2>5. CASE t = cookie[r]
    BY <2>2, <2>3, <2>4, <2>5 DEF Successors
  <2>6. CASE t = n
    BY <2>2, <2>3, <2>4, <2>6 DEF Successors, LineageKnown
  <2>7. CASE t # n /\ t # cookie[r]
    BY <2>2, <2>3, <2>4, <2>7 DEF Successors
  <2> QED
    BY <2>5, <2>6, <2>7
<1> QED
  BY <1>1, <1>2, <1>3 DEF Next, Cleanup, Tick, Start, Check, Decode, InsertConflicts,
     Insert, Abort, vars

(* A token nothing holds has bought nothing and is not being rotated.      *)
LEMMA FreeToken ==
  ASSUME TypeOK, LineageKnown, ConsumedIsHeld, NEW t \in issued,
         ~ Held(RefreshToken(t))
  PROVE  /\ Successors(t) = {}
         /\ RefreshToken(t) \notin loggedout
         /\ \A q \in Requests : pc[q] = "issuing" => cookie[q] # t
  BY DEF ConsumedIsHeld, Successors

(* A row is inserted for a token that had none.                            *)
LEMMA InsertedFree ==
  ASSUME TypeOK, Phases, NEW r \in Requests, Insert(r),
         doing[r] \in {"refresh", "logout_refresh"},
         now < Expiry(RefreshToken(cookie[r]))
  PROVE  /\ cookie[r] \in issued
         /\ ~ Held(RefreshToken(cookie[r]))
<1>1. cookie[r] \in issued /\ cookie[r] \in Refresh
  BY DEF Insert, Phases, Working, Settled, TypeOK
<1>2. Expiry(RefreshToken(cookie[r])) \in Nat /\ now \in Nat
  BY <1>1, Expiries DEF TypeOK
<1> QED
  BY <1>1, <1>2 DEF Insert, Subject, Held

(* A second pair for one cookie would need a second request past its       *)
(* insert.                                                                 *)
LEMMA OneUseStep ==
  ASSUME IInv, ZoneNotWest, [Next]_vars
  PROVE  OneUse'
<1> USE DEF IInv
<1> SUFFICES ASSUME NEW t \in issued', now' < Expiry(RefreshToken(t))',
                    NEW s1 \in Successors(t)', NEW s2 \in Successors(t)'
             PROVE  s1 = s2
  BY DEF OneUse
<1>1. t \in issued => now < Expiry(RefreshToken(t))
  <2>1. t \in issued => t \in Refresh /\ Expiry(RefreshToken(t)) \in Nat
    BY Expiries DEF TypeOK
  <2>2. now \in Nat /\ now' \in Nat
    BY TypeStep DEF TypeOK
  <2> QED
    BY <2>1, <2>2, Frame
<1>2. CASE t \in issued /\ Successors(t)' = Successors(t)
  BY <1>1, <1>2 DEF OneUse
<1>3. ASSUME NEW r \in Requests, Issue(r), t = cookie[r], t \in issued,
             NEW n \in Refresh, Successors(t)' = Successors(t) \cup {n}
      PROVE  s1 = s2
  BY <1>1, <1>3 DEF ConsumedOnce, Issue
<1> QED
  BY <1>2, <1>3, SuccessorsStep

(* After a logout nobody is left who could still issue a pair.             *)
LEMMA LogoutStep ==
  ASSUME IInv, ZoneNotWest, [Next]_vars
  PROVE  LogoutIsFinal'
<1> USE DEF IInv
<1> SUFFICES ASSUME NEW t \in issued', RefreshToken(t) \in loggedout',
                    now' < Expiry(RefreshToken(t))'
             PROVE  Successors(t)' = {}
  BY DEF LogoutIsFinal, RefreshToken
<1>1. t \in issued => now < Expiry(RefreshToken(t))
  <2>1. t \in issued => t \in Refresh /\ Expiry(RefreshToken(t)) \in Nat
    BY Expiries DEF TypeOK
  <2>2. now \in Nat /\ now' \in Nat
    BY TypeStep DEF TypeOK
  <2> QED
    BY <2>1, <2>2, Frame
<1>2. CASE t \in issued /\ RefreshToken(t) \in loggedout
  <2>1. Successors(t) = {}
    BY <1>1, <1>2 DEF LogoutIsFinal
  <2>2. ASSUME NEW r \in Requests, Issue(r), t = cookie[r] PROVE FALSE
    BY <1>1, <1>2, <2>2 DEF ConsumedOnce, Issue
  <2> QED
    BY <1>2, <2>1, <2>2, SuccessorsStep
<1>3. CASE t \in issued /\ RefreshToken(t) \notin loggedout
  <2>1. PICK r \in Requests : Insert(r) /\ doing[r] = "logout_refresh"
    BY <1>3 DEF Next, vars, Login, Cleanup, Tick, Start, Check, Decode, InsertConflicts,
       Insert, Inserted, Issue, Abort
  <2>2. cookie[r] \in Refresh /\ bearer[r] \in Nat /\ t \in Refresh
    BY <1>3 DEF TypeOK
  <2>3. t = cookie[r]
    BY <1>3, <2>1, <2>2, Expiries DEF Insert, Inserted
  <2>4. Successors(t) = {}
    BY <1>1, <1>3, <2>1, <2>3, InsertedFree, FreeToken
  <2>5. UNCHANGED table
    BY <2>1 DEF Insert
  <2> QED
    BY <2>4, <2>5 DEF table, Successors
<1> QED
  BY <1>2, <1>3, SuccessorsStep

(* A request about to issue was about to already, or has just inserted.    *)
LEMMA Issuing ==
  ASSUME TypeOK, [Next]_vars, NEW r \in Requests, pc'[r] = "issuing"
  PROVE  /\ cookie'[r] = cookie[r]
         /\ pc[r] = "issuing" \/ (Insert(r) /\ doing[r] = "refresh")
<1> USE DEF TypeOK, table, request
<1>1. CASE Login \/ Cleanup \/ Tick \/ UNCHANGED vars
  BY <1>1 DEF Login, Cleanup, Tick, vars
<1>2. ASSUME NEW q \in Requests, Start(q) PROVE pc[r] = "issuing" /\ cookie'[r] = cookie[r]
  BY <1>2 DEF Start
<1>3. ASSUME NEW q \in Requests,
             Check(q) \/ Decode(q) \/ InsertConflicts(q) \/ Issue(q) \/ Abort(q)
      PROVE  pc[r] = "issuing" /\ cookie'[r] = cookie[r]
  BY <1>3 DEF Check, Decode, InsertConflicts, Issue, Abort
<1>4. ASSUME NEW q \in Requests, Insert(q)
      PROVE  /\ cookie'[r] = cookie[r]
             /\ pc[r] = "issuing" \/ (Insert(r) /\ doing[r] = "refresh")
  BY <1>4 DEF Insert, Inserted
<1> QED
  BY <1>1, <1>2, <1>3, <1>4 DEF Next

(* The insert of one request moves no other.                               *)
LEMMA InsertsAlone ==
  ASSUME TypeOK, NEW q \in Requests, Insert(q), NEW r \in Requests, r # q
  PROVE  pc'[r] = pc[r]
  BY DEF Insert, Inserted, TypeOK

(* At most one request stands between taking a token and issuing its pair. *)
LEMMA OnceStep ==
  ASSUME IInv, ZoneNotWest, [Next]_vars
  PROVE  ConsumedOnce'
<1> USE DEF IInv
<1> SUFFICES ASSUME NEW r \in Requests, pc'[r] = "issuing",
                    now' < Expiry(RefreshToken(cookie[r]))'
             PROVE  /\ Successors(cookie[r])' = {}
                    /\ RefreshToken(cookie'[r]) \notin loggedout'
                    /\ \A q \in Requests :
                         pc'[q] = "issuing" /\ cookie'[q] = cookie'[r] => q = r
  BY DEF ConsumedOnce, RefreshToken
<1>2. pc[r] = "issuing" \/ (Insert(r) /\ doing[r] = "refresh")
  BY Issuing
<1>0. PICK t \in issued : t = cookie[r]
  BY <1>2 DEF Insert, Phases, Working, Settled
<1>1. cookie'[r] = t /\ cookie[r] = t
  BY <1>0, Issuing
<1>3. t \in Refresh /\ t \in issued'
  BY Frame DEF TypeOK
<1>4. now < Expiry(RefreshToken(t))
  <2>1. Expiry(RefreshToken(cookie[r]))' = Expiry(RefreshToken(t))'
    BY <1>1 DEF Expiry, RefreshToken
  <2>2. Expiry(RefreshToken(t))' = Expiry(RefreshToken(t)) /\ now' >= now
    BY <1>3, <1>1, Frame DEF Expiry, RefreshToken
  <2>3. now \in Nat /\ now' \in Nat /\ Expiry(RefreshToken(t)) \in Nat
    BY <1>3, TypeStep, Expiries DEF TypeOK
  <2> QED
    BY <2>1, <2>2, <2>3
<1>5. ~ Held(RefreshToken(t)) \/ pc[r] = "issuing"
  BY <1>1, <1>2, <1>4, InsertedFree
<1>6. Held(RefreshToken(t)) \/ pc[r] # "issuing"
  BY <1>1 DEF ConsumedIsHeld
<1>7. /\ Successors(t) = {}
      /\ RefreshToken(t) \notin loggedout
      /\ \A q \in Requests : pc[q] = "issuing" /\ cookie[q] = t => q = r /\ pc[r] = "issuing"
  <2>1. CASE pc[r] = "issuing"
    BY <1>1, <1>4, <2>1 DEF ConsumedOnce
  <2>2. CASE pc[r] # "issuing"
    BY <1>3, <1>5, <2>2, FreeToken
  <2> QED
    BY <2>1, <2>2
<1>8. \A q \in Requests :
        Insert(q) /\ doing[q] \in {"refresh", "logout_refresh"} /\ cookie[q] = t => q = r
  <2> SUFFICES ASSUME NEW q \in Requests, Insert(q), cookie[q] = t, q # r,
                      doing[q] \in {"refresh", "logout_refresh"}
               PROVE  FALSE
    OBVIOUS
  <2>1. pc[r] = "issuing"
    BY InsertsAlone
  <2>2. ~ Held(RefreshToken(t))
    BY <1>4, InsertedFree
  <2> QED
    BY <1>6, <2>1, <2>2
<1>9. Successors(t)' = {}
  <2>1. ASSUME NEW q \in Requests, Issue(q), t = cookie[q] PROVE FALSE
    BY <1>7, <2>1 DEF Issue, TypeOK
  <2> QED
    BY <1>3, <1>7, <2>1, SuccessorsStep
<1>10. RefreshToken(t) \notin loggedout'
  <2> SUFFICES ASSUME RefreshToken(t) \in loggedout' PROVE FALSE
    OBVIOUS
  <2>1. PICK q \in Requests : Insert(q) /\ doing[q] = "logout_refresh"
    BY <1>7 DEF Next, vars, Login, Cleanup, Tick, Start, Check, Decode, InsertConflicts,
       Insert, Inserted, Issue, Abort
  <2>2. cookie[q] \in Refresh /\ bearer[q] \in Nat
    BY DEF TypeOK
  <2>3. cookie[q] = t
    BY <1>3, <1>7, <2>1, <2>2, Expiries DEF Insert, Inserted
  <2>4. q = r
    BY <1>8, <2>1, <2>3
  <2> QED
    BY <2>1, <2>4, <1>2 DEF Insert, Inserted, TypeOK
<1>11. ASSUME NEW q \in Requests, pc'[q] = "issuing", cookie'[q] = cookie'[r] PROVE q = r
  <2>1. cookie[q] = t /\ (pc[q] = "issuing" \/ (Insert(q) /\ doing[q] = "refresh"))
    BY <1>1, <1>11, Issuing
  <2> QED
    BY <1>7, <1>8, <2>1
<1>12. Successors(cookie[r])' = Successors(t)'
  BY <1>1 DEF Successors
<1> QED
  BY <1>1, <1>9, <1>10, <1>11, <1>12

(* The subject of a request does not change while it is looked at.         *)
LEMMA LateStep ==
  ASSUME IInv, ZoneNotWest, [Next]_vars
  PROVE  LateIsExpired'
<1> USE DEF IInv
<1> SUFFICES ASSUME NEW r \in Requests, late'[r], Working(r)'
             PROVE  /\ doing'[r] \in {"call", "refresh"}
                    /\ Subject(r)' \in loggedout'
                    /\ pc'[r] # "checking" => now' >= Expiry(Subject(r))'
  BY DEF LateIsExpired
<1> USE DEF table, request
<1>1. loggedout \subseteq loggedout'
  BY DEF Next, vars, Login, Cleanup, Tick, Start, Check, Decode, InsertConflicts,
     Insert, Inserted, Issue, Abort
<1>2. CASE Start(r)
  BY <1>1, <1>2 DEF Start, Subject, TypeOK, RefreshToken, AccessToken
<1>3. CASE ~ Start(r)
  <2>1. late[r] /\ Working(r) /\ UNCHANGED <<doing[r], cookie[r], bearer[r]>>
    <3>1. ASSUME NEW q \in Requests, Insert(q)
          PROVE  late[r] /\ Working(r) /\ UNCHANGED <<doing[r], cookie[r], bearer[r]>>
      <4>1. late[r] /\ UNCHANGED <<cookie[r], bearer[r]>>
        BY <3>1 DEF Insert
      <4>2. Working(r)
        BY <3>1 DEF Insert, Inserted, TypeOK, Working, Settled
      <4>3. doing[r] \in {"call", "refresh"}
        BY <4>1, <4>2 DEF LateIsExpired
      <4>4. doing'[r] = doing[r]
        BY <3>1, <4>3 DEF Insert, Inserted, TypeOK
      <4> QED
        BY <4>1, <4>2, <4>4
    <3>2. ASSUME NEW q \in Requests, Start(q)
          PROVE  late[r] /\ Working(r) /\ UNCHANGED <<doing[r], cookie[r], bearer[r]>>
      <4>1. q # r
        BY <1>3, <3>2
      <4>2. UNCHANGED <<pc[r], late[r], doing[r], cookie[r], bearer[r]>>
        BY <3>2, <4>1 DEF Start, TypeOK
      <4> QED
        BY <4>2 DEF Working, Settled
    <3> QED
      BY <3>1, <3>2 DEF Next, vars, Login, Cleanup, Tick, Check, Decode, InsertConflicts,
         Issue, Abort, TypeOK, Working, Settled
  <2>2. doing[r] \in {"call", "refresh"} /\ Subject(r) \in loggedout
    BY <2>1 DEF LateIsExpired
  <2>3. Subject(r)' = Subject(r)
    BY <2>1 DEF Subject, RefreshToken, AccessToken
  <2>4. cookie[r] \in issued /\ bearer[r] \in Nat
    BY <2>1 DEF Phases, TypeOK
  <2>5. Expiry(Subject(r))' = Expiry(Subject(r))
    BY <2>1, <2>2, <2>4, Frame DEF Subject, RefreshToken, AccessToken, Expiry
  <2>6. pc'[r] # "checking" => now >= Expiry(Subject(r))
    <3>1. CASE pc[r] # "checking"
      BY <2>1, <3>1 DEF LateIsExpired
    <3>2. CASE pc[r] = "checking" /\ pc'[r] # "checking"
      <4>1. Check(r)
        BY <1>3, <3>2, <2>1 DEF Next, vars, Login, Cleanup, Tick, Start, Check, Decode, InsertConflicts,
           Insert, Inserted, Issue, Abort, TypeOK, Working, Settled
      <4>2. Subject(r) \notin blacklist
        BY <4>1 DEF Check, Working, Settled, TypeOK
      <4> QED
        BY <2>2, <4>2 DEF ConsumedIsHeld, Held
    <3> QED
      BY <3>1, <3>2
  <2>7. now \in Nat /\ now' \in Nat /\ now' >= now /\ Expiry(Subject(r)) \in Nat
    BY <2>4, TypeStep, Frame, Expiries DEF Subject, TypeOK
  <2> QED
    BY <1>1, <2>1, <2>2, <2>3, <2>5, <2>6, <2>7
<1> QED
  BY <1>2, <1>3

(* The state is of the right type, for every constant.                     *)
THEOREM TypeCorrect == Spec => []TypeOK
<1>1. Init => TypeOK
  BY InitIInv DEF IInv
<1> QED
  BY <1>1, TypeStep, PTL DEF Spec

(* The invariant is inductive on hosts not west of UTC.                    *)
LEMMA Step == IInv /\ ZoneNotWest /\ [Next]_vars => IInv'
  BY TypeStep, PhasesStep, LineageStep, HeldStep, OnceStep, LateStep, OneUseStep,
     LogoutStep DEF IInv

(* The invariant holds for any tokens, requests and lifetimes, if the host *)
(* is on UTC or east of it.                                                *)
THEOREM Invariance == ASSUME ZoneNotWest PROVE Spec => []IInv
<1>1. IInv /\ [Next]_vars => IInv'
  BY Step
<1> QED
  BY InitIInv, <1>1, PTL DEF Spec

(* A refresh token buys at most one pair before it expires.                *)
THEOREM RotatesOnce == ASSUME ZoneNotWest PROVE Spec => []OneUse
<1>1. IInv => OneUse
  BY DEF IInv
<1> QED
  BY Invariance, <1>1, PTL

(* A logout that answered success leaves no pair behind it.                *)
THEOREM LogoutEndsSession == ASSUME ZoneNotWest PROVE Spec => []LogoutIsFinal
<1>1. IInv => LogoutIsFinal
  BY DEF IInv
<1> QED
  BY Invariance, <1>1, PTL

(* A request begun after the logout of its token is refused until the      *)
(* token has expired anyway.                                               *)
THEOREM RevokedStaysRefused == ASSUME ZoneNotWest PROVE Spec => RevokedIsRefused
<1>1. ASSUME IInv, [Next]_vars, NEW r \in Requests,
             late[r], pc'[r] = "accepted", pc[r] # "accepted"
      PROVE  now >= Expiry(Subject(r))
  <2>1. pc[r] \in {"decoding", "inserting", "issuing"}
    BY <1>1 DEF IInv, TypeOK, Settled, Next, vars, Login, Cleanup, Tick, Start, Check, Decode,
       InsertConflicts, Insert, Inserted, Issue, Abort, request
  <2> QED
    BY <1>1, <2>1 DEF IInv, LateIsExpired, Working, Settled
<1>2. IInv /\ [Next]_vars =>
        [\A r \in Requests :
           late[r] /\ pc'[r] = "accepted" /\ pc[r] # "accepted"
             => now >= Expiry(Subject(r))]_vars
  BY <1>1
<1> QED
  BY Invariance, <1>2, PTL DEF Spec, RevokedIsRefused
-----------------------------------------------------------------------------
(* A rotation of t has revoked it and owes its pair.                       *)
Owing(t) == \E r \in Requests : pc[r] = "issuing" /\ cookie[r] = t

(* Where a token is in its life, in terms of the variables.                *)
LEMMA RotationIs ==
  ASSUME TypeOK, NEW t \in Refresh
  PROVE  Rotation(t) = IF t \notin issued THEN "none"
                       ELSE IF now >= issued_at[t] + RefreshTTL THEN "expired"
                       ELSE IF Owing(t) THEN "owing"
                       ELSE IF RefreshToken(t) \in blacklist THEN "spent" ELSE "valid"
  BY Expiries DEF Rotation, Owing

(* The same after a step.                                                  *)
LEMMA RotationIsNext ==
  ASSUME TypeOK', NEW t \in Refresh
  PROVE  Rotation(t)' = IF t \notin issued' THEN "none"
                        ELSE IF now' >= issued_at'[t] + RefreshTTL THEN "expired"
                        ELSE IF Owing(t)' THEN "owing"
                        ELSE IF RefreshToken(t) \in blacklist' THEN "spent" ELSE "valid"
  BY ExpiriesNext DEF Rotation, Owing, RefreshToken

(* A token that nothing a step does is about stays where it is.            *)
LEMMA RotationStays ==
  ASSUME TypeOK, TypeOK', NEW t \in Refresh, t \in issued <=> t \in issued',
         issued_at'[t] = issued_at[t], now' = now, Owing(t)' <=> Owing(t),
         now < issued_at[t] + RefreshTTL =>
           (RefreshToken(t) \in blacklist' <=> RefreshToken(t) \in blacklist)
  PROVE  Rotation(t)' = Rotation(t)
  BY RotationIs, RotationIsNext DEF TypeOK

(* Steps of a request other than its insert and its issue trade nothing.   *)
LEMMA OwingStays ==
  ASSUME TypeOK, NEW r \in Requests, pc[r] # "issuing", pc'[r] # "issuing",
         \A q \in Requests \ {r} : pc'[q] = pc[q] /\ cookie'[q] = cookie[q],
         NEW t \in Refresh
  PROVE  Owing(t)' <=> Owing(t)
  BY DEF Owing

(* Before the first login no token is there.                               *)
LEMMA InitRotation == Init => rotation!Init
<1> SUFFICES ASSUME Init PROVE rotation!Init
  OBVIOUS
<1>1. \A t \in Refresh : Rotation(t) = "none"
  BY DEF Init, Rotation
<1> QED
  BY <1>1 DEF rotation!Init, Init

(* The steps in which tokens stay where they are.                          *)
LEMMA QuietStep ==
  ASSUME IInv, IInv', ZoneNotWest,
         \/ Cleanup \/ UNCHANGED vars
         \/ \E r \in Requests : \/ Start(r) \/ Check(r) \/ Decode(r) \/ InsertConflicts(r)
                                \/ (Insert(r) /\ doing[r] = "logout")
                                \/ (Abort(r) /\ pc[r] # "issuing")
  PROVE  UNCHANGED rotation!vars
<1>0. TypeOK /\ TypeOK'
  BY DEF IInv
<1> SUFFICES parent' = parent /\ \A t \in Refresh : Rotation(t)' = Rotation(t)
  BY DEF rotation!vars
<1>1. CASE UNCHANGED vars
  BY <1>1 DEF vars, table, request, Rotation, Expiry, RefreshToken
<1>2. CASE Cleanup
  <2>1. UNCHANGED <<now, issued, parent, issued_at, pc, cookie>>
    BY <1>2 DEF Cleanup, table, request
  <2>2. ASSUME NEW t \in Refresh, now < issued_at[t] + RefreshTTL
        PROVE  RefreshToken(t) \in blacklist' <=> RefreshToken(t) \in blacklist
    <3>1. Expiry(RefreshToken(t)) = issued_at[t] + RefreshTTL /\ issued_at[t] \in Nat /\ now \in Nat
      BY <1>0, Expiries DEF TypeOK
    <3>2. Expiry(RefreshToken(t)) + ZoneOffset > now
      BY <3>1, <2>2 DEF ZoneNotWest
    <3> QED
      BY <1>2, <3>2 DEF Cleanup
  <2>3. \A t \in Refresh : Owing(t)' <=> Owing(t)
    BY <2>1 DEF Owing
  <2> QED
    BY <1>0, <2>1, <2>2, <2>3, RotationStays
<1>3. ASSUME NEW r \in Requests,
             Start(r) \/ Check(r) \/ Decode(r) \/ InsertConflicts(r) \/ (Abort(r) /\ pc[r] # "issuing")
      PROVE  parent' = parent /\ \A t \in Refresh : Rotation(t)' = Rotation(t)
  <2>1. UNCHANGED <<now, issued, parent, issued_at, blacklist>>
    BY <1>3 DEF Start, Check, Decode, InsertConflicts, Abort, table
  <2>2. /\ pc[r] # "issuing" /\ pc'[r] # "issuing"
        /\ \A q \in Requests \ {r} : pc'[q] = pc[q] /\ cookie'[q] = cookie[q]
    BY <1>0, <1>3 DEF Start, Check, Decode, InsertConflicts, Abort, TypeOK, request
  <2> QED
    BY <1>0, <2>1, <2>2, OwingStays, RotationStays
<1>4. ASSUME NEW r \in Requests, Insert(r), doing[r] = "logout"
      PROVE  parent' = parent /\ \A t \in Refresh : Rotation(t)' = Rotation(t)
  <2>1. UNCHANGED <<now, issued, parent, issued_at, cookie>>
    BY <1>4 DEF Insert, table
  <2>2. /\ pc[r] # "issuing" /\ pc'[r] # "issuing"
        /\ \A q \in Requests \ {r} : pc'[q] = pc[q] /\ cookie'[q] = cookie[q]
    BY <1>0, <1>4, <2>1 DEF Insert, Inserted, TypeOK
  <2>3. blacklist' = blacklist \cup {AccessToken(bearer[r])} /\ bearer[r] \in Nat
    BY <1>0, <1>4 DEF Insert, Subject, TypeOK
  <2>4. \A t \in Refresh : RefreshToken(t) \in blacklist' <=> RefreshToken(t) \in blacklist
    BY <1>0, <2>3, Expiries
  <2> QED
    BY <1>0, <2>1, <2>2, <2>4, OwingStays, RotationStays
<1> QED
  BY <1>1, <1>2, <1>3, <1>4
(* One token moves on.                                                     *)
LEMMA OneMoves ==
  ASSUME NEW c \in Refresh, NEW to, parent' = parent, Rotation(c)' = to,
         \A t \in Refresh \ {c} : Rotation(t)' = Rotation(t)
  PROVE  rotation!Move(c, Rotation(c), to)
  BY DEF rotation!Move

(* A rotation's or a logout's insert takes effect at once: whoever inserts *)
(* the row of a token that is good finds it valid.                         *)
LEMMA InsertMoves ==
  ASSUME IInv, IInv', NEW r \in Requests, Insert(r), doing[r] \in {"refresh", "logout_refresh"}
  PROVE  [rotation!Next]_(rotation!vars)
<1> DEFINE c == cookie[r]
<1>0. TypeOK /\ TypeOK' /\ c \in issued /\ c \in Refresh
  BY DEF IInv, Insert, Phases, Working, Settled, TypeOK
<1>1. UNCHANGED <<now, issued, parent, issued_at, cookie>>
  BY DEF Insert, table
<1>2. /\ \A q \in Requests \ {r} : pc'[q] = pc[q]
      /\ pc[r] = "inserting" /\ (pc'[r] = "issuing" <=> doing[r] = "refresh")
  BY <1>0 DEF Insert, Inserted, TypeOK
<1>3. RefreshToken(c) \notin blacklist /\ blacklist' = blacklist \cup {RefreshToken(c)}
  BY DEF Insert, Subject
<1>4. ASSUME NEW t \in Refresh, t # c PROVE Rotation(t)' = Rotation(t)
  <2>1. Owing(t)' <=> Owing(t)
    BY <1>1, <1>2, <1>4 DEF Owing
  <2>2. RefreshToken(t) \in blacklist' <=> RefreshToken(t) \in blacklist
    BY <1>0, <1>3, <1>4, Expiries
  <2> QED
    BY <1>0, <1>1, <2>1, <2>2, RotationStays
<1>5. CASE now >= issued_at[c] + RefreshTTL
  <2>1. ASSUME NEW t \in Refresh, t = c PROVE Rotation(t)' = Rotation(t)
    BY <1>0, <1>1, <1>5, <2>1, RotationIs, RotationIsNext
  <2>2. \A t \in Refresh : Rotation(t)' = Rotation(t)
    BY <1>4, <2>1
  <2> QED
    BY <1>1, <2>2 DEF rotation!vars
<1>6. CASE ~(now >= issued_at[c] + RefreshTTL)
  <2>1. ~ Owing(c)
    BY <1>0, <1>3, <1>6, Expiries DEF IInv, ConsumedIsHeld, Held, Owing
  <2>2. Rotation(c) = "valid"
    BY <1>0, <1>3, <1>6, <2>1, RotationIs
  <2>3. CASE doing[r] = "refresh"
    <3>1. Owing(c)'
      BY <1>1, <1>2, <2>3 DEF Owing
    <3>2. Rotation(c)' = "owing"
      BY <1>0, <1>1, <1>6, <3>1, RotationIsNext
    <3>3. rotation!Trade(c)
      BY <1>0, <1>1, <1>4, <2>2, <3>2, OneMoves DEF rotation!Trade
    <3> QED
      BY <1>0, <3>3 DEF rotation!Next
  <2>4. CASE doing[r] = "logout_refresh"
    <3>1. ~ Owing(c)'
      BY <1>1, <1>2, <2>1, <2>4 DEF Owing
    <3>2. Rotation(c)' = "spent"
      BY <1>0, <1>1, <1>3, <1>6, <3>1, RotationIsNext
    <3>3. rotation!Revoke(c)
      BY <1>0, <1>1, <1>4, <2>2, <3>2, OneMoves DEF rotation!Revoke
    <3> QED
      BY <1>0, <3>3 DEF rotation!Next
  <2> QED
    BY <2>3, <2>4
<1> QED
  BY <1>5, <1>6

(* Who owes the pair of a token has its row, and is alone.                 *)
LEMMA OwedOnce ==
  ASSUME IInv, NEW r \in Requests, pc[r] = "issuing",
         ~(now >= issued_at[cookie[r]] + RefreshTTL)
  PROVE  /\ RefreshToken(cookie[r]) \in blacklist
         /\ \A q \in Requests : pc[q] = "issuing" /\ cookie[q] = cookie[r] => q = r
<1>1. TypeOK /\ cookie[r] \in Refresh
  BY DEF IInv, TypeOK
<1>2. Expiry(RefreshToken(cookie[r])) = issued_at[cookie[r]] + RefreshTTL
      /\ issued_at[cookie[r]] \in Nat /\ now \in Nat
  BY <1>1, Expiries DEF TypeOK
<1>3. now < Expiry(RefreshToken(cookie[r])) /\ ~(now >= Expiry(RefreshToken(cookie[r])))
  BY <1>2
<1>4. RefreshToken(cookie[r]) \in blacklist
  BY <1>3 DEF IInv, ConsumedIsHeld, Held
<1> QED
  BY <1>3, <1>4 DEF IInv, ConsumedOnce

(* A rotation that is dropped before it has issued its pair.               *)
LEMMA AbortDefaults ==
  ASSUME IInv, IInv', NEW r \in Requests, Abort(r), pc[r] = "issuing"
  PROVE  [rotation!Next]_(rotation!vars)
<1> DEFINE c == cookie[r]
<1>0. TypeOK /\ TypeOK' /\ c \in issued /\ c \in Refresh
  BY DEF IInv, Phases, Working, Settled, TypeOK
<1>1. UNCHANGED <<now, issued, parent, issued_at, cookie, blacklist>>
  BY DEF Abort, table, request
<1>2. \A q \in Requests : pc'[q] = IF q = r THEN "refused" ELSE pc[q]
  BY <1>0 DEF Abort, TypeOK
<1>3. ASSUME NEW t \in Refresh, t # c PROVE Rotation(t)' = Rotation(t)
  <2>1. Owing(t)' <=> Owing(t)
    BY <1>1, <1>2, <1>3 DEF Owing
  <2> QED
    BY <1>0, <1>1, <2>1, RotationStays
<1>4. CASE now >= issued_at[c] + RefreshTTL
  <2>1. ASSUME NEW t \in Refresh, t = c PROVE Rotation(t)' = Rotation(t)
    BY <1>0, <1>1, <1>4, <2>1, RotationIs, RotationIsNext
  <2>2. \A t \in Refresh : Rotation(t)' = Rotation(t)
    BY <1>3, <2>1
  <2> QED
    BY <1>1, <2>2 DEF rotation!vars
<1>5. CASE ~(now >= issued_at[c] + RefreshTTL)
  <2>1. Rotation(c) = "owing"
    BY <1>0, <1>5, RotationIs DEF Owing
  <2>2. /\ RefreshToken(c) \in blacklist
        /\ \A q \in Requests : pc[q] = "issuing" /\ cookie[q] = c => q = r
    BY <1>0, <1>5, OwedOnce
  <2>3. Rotation(c)' = "spent"
    BY <1>0, <1>1, <1>2, <1>5, <2>2, RotationIsNext DEF Owing
  <2>4. rotation!Default(c)
    BY <1>0, <1>1, <1>3, <2>1, <2>3, OneMoves DEF rotation!Default
  <2> QED
    BY <1>0, <2>4 DEF rotation!Next
<1> QED
  BY <1>4, <1>5

(* A new token is valid, or has no time to live.                           *)
LEMMA NewIsFresh ==
  ASSUME IInv, IInv', NEW new \in Refresh, NEW from, NewPair(new, from), UNCHANGED <<now, blacklist, cookie>>,
         \A r \in Requests : pc'[r] = "issuing" => pc[r] = "issuing"
  PROVE  /\ Rotation(new) = "none" /\ Rotation(new)' \in rotation!Fresh
         /\ \A t \in Refresh \ {new} :
              (t \in issued <=> t \in issued') /\ issued_at'[t] = issued_at[t]
<1>0. TypeOK /\ TypeOK' /\ new \notin issued /\ new \in issued'
  BY DEF IInv, NewPair
<1>1. Rotation(new) = "none"
  BY <1>0, RotationIs
<1>2. ~ Owing(new) /\ ~ Owing(new)'
  BY <1>0 DEF IInv, Phases, Working, Settled, Owing
<1>3. RefreshToken(new) \notin blacklist'
  BY <1>0 DEF IInv, LineageKnown
<1>4. Rotation(new)' \in {"valid", "expired"}
  BY <1>0, <1>2, <1>3, RotationIsNext
<1> QED
  BY <1>0, <1>1, <1>4 DEF NewPair, TypeOK, rotation!Fresh

(* A login.                                                                *)
LEMMA LoginStarts ==
  ASSUME IInv, IInv', Login
  PROVE  [rotation!Next]_(rotation!vars)
<1>1. PICK new \in Refresh : NewPair(new, new)
  BY DEF Login
<1>2. UNCHANGED <<now, blacklist, cookie, pc>> /\ TypeOK /\ TypeOK'
  BY DEF Login, request, IInv
<1>3. /\ Rotation(new) = "none" /\ Rotation(new)' \in rotation!Fresh
      /\ \A t \in Refresh \ {new} : (t \in issued <=> t \in issued') /\ issued_at'[t] = issued_at[t]
  BY <1>1, <1>2, NewIsFresh
<1>4. \A t \in Refresh \ {new} : Rotation(t)' = Rotation(t)
  <2>1. \A t \in Refresh : Owing(t)' <=> Owing(t)
    BY <1>2 DEF Owing
  <2> QED
    BY <1>2, <1>3, <2>1, RotationStays
<1>5. rotation!Login(new)
  BY <1>1, <1>3, <1>4 DEF rotation!Login, NewPair
<1> QED
  BY <1>5 DEF rotation!Next

(* A rotation pays what its token owes.                                    *)
LEMMA IssuePays ==
  ASSUME IInv, IInv', NEW r \in Requests, Issue(r)
  PROVE  [rotation!Next]_(rotation!vars)
<1> DEFINE c == cookie[r]
<1>1. PICK new \in Refresh : NewPair(new, c)
  BY DEF Issue
<1>2. /\ UNCHANGED <<now, blacklist, cookie>> /\ TypeOK /\ TypeOK' /\ pc[r] = "issuing"
      /\ c \in Refresh /\ c \in issued /\ new # c
  BY <1>1 DEF Issue, request, IInv, Phases, Working, Settled, TypeOK, NewPair
<1>3. \A q \in Requests : pc'[q] = IF q = r THEN "accepted" ELSE pc[q]
  BY <1>2 DEF Issue, TypeOK
<1>4. /\ Rotation(new) = "none" /\ Rotation(new)' \in rotation!Fresh
      /\ \A t \in Refresh \ {new} : (t \in issued <=> t \in issued') /\ issued_at'[t] = issued_at[t]
  BY <1>1, <1>2, <1>3, NewIsFresh
<1>5. ASSUME NEW t \in Refresh \ {new, c} PROVE Rotation(t)' = Rotation(t)
  <2>1. Owing(t)' <=> Owing(t)
    BY <1>2, <1>3 DEF Owing
  <2> QED
    BY <1>2, <1>4, <2>1, RotationStays
<1>6. Rotation(c) \in {"owing", "expired"}
  BY <1>2, RotationIs DEF Owing
<1>7. Rotation(c)' = IF Rotation(c) = "owing" THEN "spent" ELSE "expired"
  <2>1. CASE now >= issued_at[c] + RefreshTTL
    BY <1>2, <1>4, <2>1, RotationIs, RotationIsNext
  <2>2. CASE ~(now >= issued_at[c] + RefreshTTL)
    <3>1. /\ RefreshToken(c) \in blacklist
          /\ \A q \in Requests : pc[q] = "issuing" /\ cookie[q] = c => q = r
      BY <1>2, <2>2, OwedOnce
    <3>2. ~ Owing(c)'
      BY <1>2, <1>3, <3>1 DEF Owing
    <3>3. Rotation(c)' = "spent"
      BY <1>2, <1>4, <2>2, <3>1, <3>2, RotationIsNext
    <3>4. Rotation(c) = "owing"
      BY <1>2, <2>2, RotationIs DEF Owing
    <3> QED
      BY <3>3, <3>4
  <2> QED
    BY <2>1, <2>2
<1>8. rotation!Pay(c, new)
  <2>1. parent' = [parent EXCEPT ![new] = c]
    BY <1>1 DEF NewPair
  <2> QED
    BY <1>2, <1>4, <1>5, <1>6, <1>7, <2>1 DEF rotation!Pay
<1> QED
  BY <1>2, <1>8 DEF rotation!Next

(* Time passes: tokens expire, and nothing else becomes of them.           *)
LEMMA TickExpires ==
  ASSUME IInv, IInv', Tick
  PROVE  [rotation!Next]_(rotation!vars)
<1> DEFINE ended == {t \in Refresh : t \in issued /\ now' >= issued_at[t] + RefreshTTL}
<1>1. TypeOK /\ TypeOK' /\ now' = now + 1 /\ UNCHANGED <<issued, parent, issued_at, blacklist, pc, cookie>>
  BY DEF IInv, Tick, table, request
<1>2. ended \in SUBSET {t \in Refresh : Rotation(t) # "none"}
  BY <1>1, RotationIs
<1>3. \A t \in Refresh : Owing(t)' <=> Owing(t)
  BY <1>1 DEF Owing
<1>4. ASSUME NEW t \in Refresh PROVE Rotation(t)' = IF t \in ended THEN "expired" ELSE Rotation(t)
  <2>1. now \in Nat /\ issued_at[t] \in Nat
    BY <1>1 DEF TypeOK
  <2> QED
    BY <1>1, <1>3, <2>1, RotationIs, RotationIsNext
<1>5. rotation!Expire
  BY <1>1, <1>2, <1>4 DEF rotation!Expire
<1> QED
  BY <1>5 DEF rotation!Next

(* The refinement: on hosts not west of UTC the requests of all tabs trade *)
(* a refresh token as in one step, whatever happens between their awaits.  *)
THEOREM SessionsImplementRotation == ASSUME ZoneNotWest PROVE Spec => RotatesAtomically
<1>1. ASSUME IInv, IInv', [Next]_vars PROVE [rotation!Next]_(rotation!vars)
  <2>1. CASE Login
    BY <1>1, <2>1, LoginStarts
  <2>2. CASE Tick
    BY <1>1, <2>2, TickExpires
  <2>3. CASE Cleanup \/ UNCHANGED vars
    BY <1>1, <2>3, QuietStep
  <2>4. ASSUME NEW r \in Requests,
               Start(r) \/ Check(r) \/ Decode(r) \/ InsertConflicts(r)
        PROVE  [rotation!Next]_(rotation!vars)
    BY <1>1, <2>4, QuietStep
  <2>5. ASSUME NEW r \in Requests, Insert(r) PROVE [rotation!Next]_(rotation!vars)
    <3>1. doing[r] \in {"refresh", "logout_refresh", "logout"}
      BY <2>5 DEF Insert, Inserted
    <3> QED
      BY <1>1, <2>5, <3>1, QuietStep, InsertMoves
  <2>6. ASSUME NEW r \in Requests, Issue(r) PROVE [rotation!Next]_(rotation!vars)
    BY <1>1, <2>6, IssuePays
  <2>7. ASSUME NEW r \in Requests, Abort(r) PROVE [rotation!Next]_(rotation!vars)
    BY <1>1, <2>7, QuietStep, AbortDefaults
  <2> QED
    BY <1>1, <2>1, <2>2, <2>3, <2>4, <2>5, <2>6, <2>7 DEF Next
<1>2. IInv /\ IInv' /\ [Next]_vars => [rotation!Next]_(rotation!vars)
  BY <1>1
<1> QED
  BY <1>2, InitRotation, Invariance, PTL DEF Spec, RotatesAtomically, rotation!Spec
=============================================================================

--------------------------- MODULE TokenSessions ---------------------------
(* The signed token pairs of one user and the table that revokes them:     *)
(* core/security.py, domain/auth_service.py and the cleanup of expired     *)
(* rows. Several requests, tabs or devices, present tokens at once; each    *)
(* await of a handler is a step. A signature is valid or the token is not   *)
(* presented, so what a token is comes down to its kind, its identity and   *)
(* its time: a refresh token carries a jti and is unique, an access token   *)
(* carries the subject and the second of its expiry and nothing else, so    *)
(* those issued in one second are one string.                               *)
EXTENDS Integers

CONSTANTS
  Refresh,      \* the jti values there are (bounds the pairs issued)
  Requests,     \* the requests there are (bounds how many)
  AccessTTL,    \* ACCESS_TOKEN_EXPIRE_MINUTES
  RefreshTTL,   \* REFRESH_TOKEN_EXPIRE_DAYS
  ZoneOffset,   \* the host's local time minus UTC
  MaxTime       \* bounds the clock

ASSUME TimesAssumption ==
  AccessTTL \in Nat /\ RefreshTTL \in Nat /\ ZoneOffset \in Int /\ MaxTime \in Nat

VARIABLES
  now,          \* the clock, in whole seconds as a JWT counts
  issued,       \* refresh tokens handed out
  parent,       \* the token a rotation consumed; a login's is its own parent
  issued_at,    \* when the pair of a refresh token was made
  blacklist,    \* committed rows of token_blacklist; token is unique
  pc,           \* where each request is
  doing,        \* what it is for; logout_refresh is logout's second token
  bearer,       \* the access token it presents, by its time of issue
  cookie,       \* the refresh token it presents
  loggedout,    \* history: tokens of a logout that answered success
  late          \* history: the request began after such a logout

table == <<issued, parent, issued_at>>
request == <<doing, bearer, cookie, late>>
vars == <<now, table, blacklist, pc, request, loggedout>>

Token == ({"refresh"} \X Refresh) \cup ({"access"} \X Nat)

RefreshToken(t) == <<"refresh", t>>
AccessToken(n) == <<"access", n>>

Expiry(tok) ==
  IF tok[1] = "refresh" THEN issued_at[tok[2]] + RefreshTTL ELSE tok[2] + AccessTTL

(* The token the request is looking at.                                    *)
Subject(r) ==
  IF doing[r] \in {"refresh", "logout_refresh"}
    THEN RefreshToken(cookie[r]) ELSE AccessToken(bearer[r])

Settled == {"idle", "accepted", "refused"}

TypeOK ==
  /\ now \in Nat
  /\ issued \subseteq Refresh
  /\ parent \in [Refresh -> Refresh]
  /\ issued_at \in [Refresh -> Nat]
  /\ blacklist \subseteq Token /\ loggedout \subseteq Token
  /\ pc \in [Requests -> Settled \cup {"checking", "decoding", "inserting", "issuing"}]
  /\ doing \in [Requests -> {"call", "refresh", "logout", "logout_refresh"}]
  /\ bearer \in [Requests -> Nat]
  /\ cookie \in [Requests -> Refresh]
  /\ late \in [Requests -> BOOLEAN]

Init ==
  /\ now = 0
  /\ issued = {} /\ blacklist = {} /\ loggedout = {}
  /\ parent = [t \in Refresh |-> t]
  /\ issued_at = [t \in Refresh |-> 0]
  /\ pc = [r \in Requests |-> "idle"]
  /\ doing = [r \in Requests |-> "call"]
  /\ bearer = [r \in Requests |-> 0]
  /\ cookie \in [Requests -> Refresh]
  /\ late = [r \in Requests |-> FALSE]
-----------------------------------------------------------------------------
(* A new pair; from is the consumed token, or the new one itself.          *)
NewPair(t, from) ==
  /\ t \in Refresh \ issued
  /\ issued' = issued \cup {t}
  /\ parent' = [parent EXCEPT ![t] = from]
  /\ issued_at' = [issued_at EXCEPT ![t] = now]

Login ==
  /\ \E t \in Refresh : NewPair(t, t)
  /\ UNCHANGED <<now, blacklist, pc, request, loggedout>>

(* Logout does not look its tokens up before it revokes them.              *)
Start(r) ==
  /\ pc[r] = "idle"
  /\ \E what \in {"call", "refresh", "logout"}, t \in issued, s \in issued :
       /\ doing' = [doing EXCEPT ![r] = what]
       /\ cookie' = [cookie EXCEPT ![r] = t]
       /\ bearer' = [bearer EXCEPT ![r] = issued_at[s]]
       /\ late' = [late EXCEPT ![r] =
            \/ what = "call" /\ AccessToken(issued_at[s]) \in loggedout
            \/ what = "refresh" /\ RefreshToken(t) \in loggedout]
       /\ pc' = [pc EXCEPT ![r] = IF what = "logout" THEN "decoding" ELSE "checking"]
  /\ UNCHANGED <<now, table, blacklist, loggedout>>

(* Mutant of Check: only refresh tokens are looked up.                     *)
CheckRefreshOnly(r) ==
  /\ pc[r] = "checking"
  /\ pc' = [pc EXCEPT ![r] =
       IF doing[r] = "refresh" /\ Subject(r) \in blacklist THEN "refused" ELSE "decoding"]
  /\ UNCHANGED <<now, table, blacklist, request, loggedout>>

Check(r) ==
  /\ pc[r] = "checking"
  /\ pc' = [pc EXCEPT ![r] = IF Subject(r) \in blacklist THEN "refused" ELSE "decoding"]
  /\ UNCHANGED <<now, table, blacklist, request, loggedout>>

(* A token is good to the end of the second it expires in.                 *)
Decode(r) ==
  /\ pc[r] = "decoding"
  /\ pc' = [pc EXCEPT ![r] =
       IF now > Expiry(Subject(r)) THEN "refused"
       ELSE IF doing[r] = "call" THEN "accepted" ELSE "inserting"]
  /\ UNCHANGED <<now, table, blacklist, request, loggedout>>

(* The row is there: IntegrityError, which rotation answers with 401 and   *)
(* logout does not catch.                                                  *)
InsertConflicts(r) ==
  /\ pc[r] = "inserting" /\ Subject(r) \in blacklist
  /\ pc' = [pc EXCEPT ![r] = "refused"]
  /\ UNCHANGED <<now, table, blacklist, request, loggedout>>

(* The parts of Insert for a rotation and for logout's two tokens.         *)
Inserted(r) ==
  \/ /\ doing[r] = "refresh"
     /\ pc' = [pc EXCEPT ![r] = "issuing"]
     /\ UNCHANGED <<doing, loggedout>>
  \/ /\ doing[r] = "logout"
     /\ pc' = [pc EXCEPT ![r] = "decoding"]
     /\ doing' = [doing EXCEPT ![r] = "logout_refresh"]
     /\ UNCHANGED loggedout
  \/ /\ doing[r] = "logout_refresh"
     /\ pc' = [pc EXCEPT ![r] = "accepted"]
     /\ loggedout' = loggedout \cup {AccessToken(bearer[r]), RefreshToken(cookie[r])}
     /\ UNCHANGED doing

(* Mutant of Insert: logout takes a row that is there for its own.         *)
InsertForgiving(r) ==
  /\ pc[r] = "inserting"
  /\ Subject(r) \notin blacklist \/ doing[r] = "logout_refresh"
  /\ blacklist' = blacklist \cup {Subject(r)}
  /\ Inserted(r)
  /\ UNCHANGED <<now, table, bearer, cookie, late>>

(* Mutant of Insert: no constraint stands behind the lookup.               *)
InsertTwice(r) ==
  /\ pc[r] = "inserting"
  /\ blacklist' = blacklist \cup {Subject(r)}
  /\ Inserted(r)
  /\ UNCHANGED <<now, table, bearer, cookie, late>>

(* FastCRUD's create commits, so each row stands by itself.                *)
Insert(r) ==
  /\ pc[r] = "inserting" /\ Subject(r) \notin blacklist
  /\ blacklist' = blacklist \cup {Subject(r)}
  /\ Inserted(r)
  /\ UNCHANGED <<now, table, bearer, cookie, late>>

Issue(r) ==
  /\ pc[r] = "issuing"
  /\ \E t \in Refresh : NewPair(t, cookie[r])
  /\ pc' = [pc EXCEPT ![r] = "accepted"]
  /\ UNCHANGED <<now, blacklist, request, loggedout>>

(* A crash, a lost connection or a request that is dropped.                *)
Abort(r) ==
  /\ pc[r] \notin Settled
  /\ pc' = [pc EXCEPT ![r] = "refused"]
  /\ UNCHANGED <<now, table, blacklist, request, loggedout>>

(* Mutant of Cleanup: the comparison is turned round.                      *)
CleanupLive ==
  /\ blacklist' = {tok \in blacklist : Expiry(tok) + ZoneOffset <= now}
  /\ UNCHANGED <<now, table, pc, request, loggedout>>

(* expires_at is the expiry in the host's local time, the cutoff is UTC    *)
(* with its fraction of a second.                                          *)
Cleanup ==
  /\ blacklist' = {tok \in blacklist : Expiry(tok) + ZoneOffset > now}
  /\ UNCHANGED <<now, table, pc, request, loggedout>>

Tick ==
  /\ now < MaxTime
  /\ now' = now + 1
  /\ UNCHANGED <<table, blacklist, pc, request, loggedout>>

Next ==
  \/ Login \/ Cleanup \/ Tick
  \/ \E r \in Requests :
       Start(r) \/ Check(r) \/ Decode(r) \/ InsertConflicts(r) \/ Insert(r)
         \/ Issue(r) \/ Abort(r)

Spec == Init /\ [][Next]_vars
-----------------------------------------------------------------------------
Successors(t) == {s \in issued : s # t /\ parent[s] = t}

(* A refresh token that has not expired has bought at most one pair: of    *)
(* several tabs that send the same cookie, and of a client that sends it   *)
(* again, one rotation wins (rotate_refresh_token).                         *)
OneUse ==
  \A t \in issued : now < Expiry(RefreshToken(t)) =>
    \A s1, s2 \in Successors(t) : s1 = s2

(* A logout that answers success has ended its session: no rotation of the *)
(* same cookie, running beside it or later, has left a pair behind          *)
(* (blacklist_tokens against rotate_refresh_token).                         *)
LogoutIsFinal ==
  \A t \in issued :
    RefreshToken(t) \in loggedout /\ now < Expiry(RefreshToken(t)) => Successors(t) = {}

(* A call or a refresh begun after its token was logged out is not         *)
(* accepted while the token would still have been good, although the row   *)
(* is looked up and the time compared at different moments and cleanup      *)
(* runs in between (verify_token).                                          *)
RevokedIsRefused ==
  [][\A r \in Requests :
       late[r] /\ pc'[r] = "accepted" /\ pc[r] # "accepted" => now >= Expiry(Subject(r))]_vars

(* Requests that look a token up, decode it, insert its row and issue the  *)
(* pair in steps of their own trade it as in one step: the trade is the    *)
(* insert (rotate_refresh_token, token_blacklist.token is unique).         *)
Rotation(t) ==
  IF t \notin issued THEN "none"
  ELSE IF now >= Expiry(RefreshToken(t)) THEN "expired"
  ELSE IF \E r \in Requests : pc[r] = "issuing" /\ cookie[r] = t THEN "owing"
  ELSE IF RefreshToken(t) \in blacklist THEN "spent" ELSE "valid"

rotation == INSTANCE RefreshRotation WITH state <- [t \in Refresh |-> Rotation(t)]

RotatesAtomically == rotation!Spec
-----------------------------------------------------------------------------
(* Hosts on UTC or east of it; west of it Cleanup takes rows too early.    *)
ZoneNotWest == ZoneOffset >= 0

(* What the blacklist says of a token once it has been put there.          *)
Held(tok) == tok \in blacklist \/ now >= Expiry(tok)

Working(r) == pc[r] \notin Settled

Phases ==
  \A r \in Requests :
    /\ Working(r) => cookie[r] \in issued
    /\ pc[r] = "checking" => doing[r] \in {"call", "refresh"}
    /\ pc[r] = "issuing" => doing[r] = "refresh"
    /\ pc[r] = "inserting" => doing[r] # "call"

LineageKnown ==
  /\ \A s \in issued : parent[s] \in issued
  /\ \A t \in Refresh : RefreshToken(t) \in blacklist \cup loggedout => t \in issued

ConsumedIsHeld ==
  /\ \A s \in issued : parent[s] # s => Held(RefreshToken(parent[s]))
  /\ \A r \in Requests : pc[r] = "issuing" => Held(RefreshToken(cookie[r]))
  /\ \A tok \in loggedout : Held(tok)
  /\ \A r \in Requests :
       Working(r) /\ doing[r] = "logout_refresh" => Held(AccessToken(bearer[r]))

ConsumedOnce ==
  \A r \in Requests :
    pc[r] = "issuing" /\ now < Expiry(RefreshToken(cookie[r])) =>
      /\ Successors(cookie[r]) = {}
      /\ RefreshToken(cookie[r]) \notin loggedout
      /\ \A q \in Requests : pc[q] = "issuing" /\ cookie[q] = cookie[r] => q = r

LateIsExpired ==
  \A r \in Requests : late[r] /\ Working(r) =>
    /\ doing[r] \in {"call", "refresh"}
    /\ Subject(r) \in loggedout
    /\ pc[r] # "checking" => now >= Expiry(Subject(r))

(* The inductive invariant behind the theorems.                            *)
IInv ==
  /\ TypeOK /\ Phases /\ LineageKnown /\ ConsumedIsHeld
  /\ ConsumedOnce /\ LateIsExpired /\ OneUse /\ LogoutIsFinal
=============================================================================

------------------------------ MODULE Sessions ------------------------------
(***************************************************************************)
(* The sessions of one user: login, token refresh with rotation, the check *)
(* of an access token, logout, password change, profile change, withdrawal,*)
(* suspension and activation.  The user row is in the database; the refresh*)
(* token in force, the black list of access tokens and two caches of the   *)
(* user's status are in Redis, and every call of Redis may fail, with its  *)
(* effect or without.  Requests interleave at every await.                 *)
(*                                                                         *)
(* Token n stands for the refresh token and the access token issued in one *)
(* response.  Time is in ticks of a fraction of a second.                  *)
(***************************************************************************)
EXTENDS Naturals, Sequences

CONSTANTS
    Requests,      \* requests in flight at a time
    Scenarios,     \* the sets of operations a behaviour may be made of
    AccessLife,    \* ACCESS_TOKEN_EXPIRE_SECONDS, in ticks
    CacheTtl,      \* USER_STATUS_CACHE_TTL_SECONDS, in ticks
    Second,        \* ticks in a second
    RequestMax,    \* bound: ticks a request takes
    MaxRequests,   \* bound: requests
    MaxFaults,     \* bound: calls of Redis that fail
    MaxTime        \* bound: MaxTime[ops] ticks in a behaviour of operations ops

VARIABLES
    now,
    status,        \* users.status (WITHDRAWN: deleted_at is set)
    since,         \* when status last changed
    refresh,       \* user_refresh:{id}: the token whose digest is stored, 0 for none
    status_cache,  \* user:status:{id}, [val, ends]
    auth_cache,    \* user:auth:{id}, [val, ends]
    blacklist,     \* blacklist[n]: when the entry for access token n ends
    expiry,        \* expiry[n]: when access token n expires, 0 if it was not issued
    held,          \* the tokens clients have been given
    req,           \* req[r]: a request, the await it is at and what it has read
    begun,
    faults,        \* calls of Redis that failed
    ops,
    rotations,     \* history: the rotations that succeeded
    revoked,       \* history: the tokens that were in force when a revocation ran
    logged_out,    \* history: the access tokens whose logout was answered
    grant          \* history: the last access granted

store == <<refresh, status_cache, auth_cache, blacklist>>
account == <<status, since>>
history == <<rotations, revoked, logged_out, grant>>
vars == <<now, account, store, expiry, held, req, begun, faults, ops, history>>

Active == "ACTIVE"
Statuses == {Active, "SUSPENDED", "WITHDRAWN"}
Idle == [op |-> "idle", at |-> "idle", token |-> 0, new |-> 0, seen |-> "", start |-> 0,
         clean |-> TRUE, late |-> FALSE]
NoEntry == [val |-> "", ends |-> 0]
Cached(c) == c.val
Expire(c) == c' = IF c.ends <= now' THEN NoEntry ELSE c
Entry(val) == [val |-> val, ends |-> now + CacheTtl]
Ok == UNCHANGED faults
Fail == faults < MaxFaults /\ faults' = faults + 1
Put(c, val) == (c' = Entry(val) /\ Ok) \/ (c' = c /\ Fail)      \* best effort
Issue == Append(expiry, 0)

Begin(r, op, request) ==
    /\ req[r] = Idle /\ op \in ops /\ begun < MaxRequests /\ begun' = begun + 1
    /\ req' = [req EXCEPT ![r] = [request EXCEPT !.op = op, !.start = now]]
    /\ UNCHANGED <<now, ops>>
At(r, at) == req[r].at = at /\ UNCHANGED <<now, begun, ops>>
Goto(r, at) == req' = [req EXCEPT ![r].at = at]
End(r) == req' = [req EXCEPT ![r] = Idle]
-----------------------------------------------------------------------------
(* AuthService.login: the status and the password are read, then the digest*)
(* is stored (an error is a 500), then the status cache is filled.         *)
login(r) ==
    /\ Begin(r, "login", [Idle EXCEPT !.at = "login store", !.new = Len(expiry) + 1])
    /\ status = Active
    /\ expiry' = Append(expiry, now + AccessLife)
    /\ blacklist' = Append(blacklist, 0)
    /\ Ok /\ UNCHANGED <<account, refresh, status_cache, auth_cache, held, history>>

login_store(r) ==
    /\ At(r, "login store")
    /\ \/ refresh' = req[r].new /\ Goto(r, "login warm") /\ Ok
       \/ refresh' \in {refresh, req[r].new} /\ End(r) /\ Fail
    /\ UNCHANGED <<account, status_cache, auth_cache, blacklist, expiry, held, history>>

login_warm(r) ==
    /\ At(r, "login warm") /\ End(r)
    /\ Put(status_cache, Active)
    /\ held' = held \cup {req[r].new}
    /\ UNCHANGED <<account, refresh, auth_cache, blacklist, expiry, history>>
-----------------------------------------------------------------------------
(* _ensure_user_may_refresh: the cached status, or the row, which is then  *)
(* cached; only ACTIVE may go on.                                          *)
refresh_tokens(r) ==
    \E t \in held :
        LET begin(at) == Begin(r, "refresh", [Idle EXCEPT !.token = t, !.at = at]) IN
        /\ \/ Cached(status_cache) = Active /\ begin("rotate") /\ Ok
           \/ Cached(status_cache) = "" /\ begin("refresh db") /\ Ok
           \/ begin("refresh db") /\ Fail
        /\ UNCHANGED <<account, store, expiry, held, history>>

ensure_user_may_refresh(r) ==
    /\ At(r, "refresh db")
    /\ IF status = "WITHDRAWN" THEN End(r)
       ELSE req' = [req EXCEPT ![r].at = "refresh cache", ![r].seen = status]
    /\ Ok /\ UNCHANGED <<account, store, expiry, held, history>>

\* Mutated: only the withdrawn are turned away.
may_refresh_suspended(seen) == seen # "WITHDRAWN"

may_refresh(seen) == seen = Active

refresh_cache(r) ==
    /\ At(r, "refresh cache")
    /\ Put(status_cache, req[r].seen)
    /\ IF may_refresh(req[r].seen) THEN Goto(r, "rotate") ELSE End(r)
    /\ UNCHANGED <<account, refresh, auth_cache, blacklist, expiry, held, history>>

(* A rotation that succeeds: the client gets the new pair.                 *)
Won(r, n, via, issued) ==
    /\ rotations' = rotations \cup {[token |-> req[r].token, new |-> n, via |-> via,
                                     dead |-> req[r].token \in revoked]}
    /\ held' = held \cup {n}
    /\ expiry' = [issued EXCEPT ![n] = now + AccessLife]
    /\ grant' = [kind |-> "refresh", token |-> n, at |-> now, late |-> FALSE]
    /\ End(r)

\* Mutated: SET without the comparison.
rotate_any(cur, token, new) == new

(* The Lua script: compare the digest in force and replace it, in one step.*)
(* ttl_seconds is the life of a refresh token; with a life of 0, for which *)
(* nothing is stored, every token has expired when it is issued.           *)
rotate_cas(cur, token, new) == IF cur = token THEN new ELSE cur

try_refresh_rotation_redis(r) ==
    LET n == Len(expiry) + 1
        t == req[r].token
    IN  /\ At(r, "rotate")
        /\ blacklist' = Append(blacklist, 0)
        /\ \/ /\ refresh' = rotate_cas(refresh, t, n) /\ Ok
              /\ IF refresh' = n THEN Won(r, n, "lua", Issue)
                 ELSE End(r) /\ expiry' = Issue /\ UNCHANGED <<held, rotations, grant>>
           \/ /\ refresh' \in {refresh, rotate_cas(refresh, t, n)} /\ Fail
              /\ req' = [req EXCEPT ![r].at = "sequential get", ![r].new = n]
              /\ expiry' = Issue
              /\ UNCHANGED <<held, rotations, grant>>
        /\ UNCHANGED <<account, status_cache, auth_cache, revoked, logged_out>>

(* _refresh_rotation_sequential: the same as two calls.                    *)
sequential_get(r) ==
    /\ At(r, "sequential get")
    /\ \/ IF refresh = req[r].token THEN Goto(r, "sequential set") /\ Ok ELSE End(r) /\ Ok
       \/ End(r) /\ Fail
    /\ UNCHANGED <<account, store, expiry, held, history>>

sequential_set(r) ==
    LET n == req[r].new IN
    /\ At(r, "sequential set")
    /\ \/ refresh' = n /\ Won(r, n, "sequential", expiry) /\ Ok
       \/ refresh' \in {refresh, n} /\ End(r) /\ Fail /\ UNCHANGED <<held, expiry, rotations, grant>>
    /\ UNCHANGED <<account, status_cache, auth_cache, blacklist, revoked, logged_out>>
-----------------------------------------------------------------------------
(* resolve_access_token_user, which every authenticated request runs first:*)
(* black list, snapshot cache, row, then both caches are filled.           *)
Authenticated == {"use", "logout", "password", "withdraw", "update_me"}

ensure_jti_not_blacklisted(r) ==
    \E op \in Authenticated, t \in held :
        LET begin(clean) == Begin(r, op, [Idle EXCEPT !.at = "snapshot", !.token = t, !.clean = clean,
                                                     !.late = t \in logged_out])
        IN  /\ now < expiry[t]
            /\ \/ now >= blacklist[t] /\ begin(TRUE) /\ Ok
               \/ begin(FALSE) /\ Fail                \* fail-open
            /\ UNCHANGED <<account, store, expiry, held, history>>

After(op) == CASE op = "logout" -> "blacklist" [] op = "password" -> "change password"
               [] op = "withdraw" -> "revoke" [] op = "update_me" -> "invalidate" [] OTHER -> "idle"
Grant(r) ==
    /\ grant' = [kind |-> "access", token |-> req[r].token, at |-> now,
                 late |-> req[r].late /\ req[r].clean]
    /\ IF req[r].op = "use" THEN End(r) ELSE Goto(r, After(req[r].op))
    /\ UNCHANGED <<rotations, revoked, logged_out>>

get_auth_cache(r) ==
    LET val == Cached(auth_cache) IN
    /\ At(r, "snapshot")
    /\ \/ val = Active /\ Grant(r) /\ Ok
       \/ val \notin {Active, ""} /\ End(r) /\ Ok /\ UNCHANGED history
       \/ val = "" /\ Goto(r, "user row") /\ Ok /\ UNCHANGED history
       \/ Goto(r, "user row") /\ Fail /\ UNCHANGED history
    /\ UNCHANGED <<account, store, expiry, held>>

get_user_by_id(r) ==
    /\ At(r, "user row")
    /\ IF status = "WITHDRAWN" THEN End(r)
       ELSE req' = [req EXCEPT ![r].at = "fill", ![r].seen = status]
    /\ Ok /\ UNCHANGED <<account, store, expiry, held, history>>

fill_caches(r) ==
    /\ At(r, "fill")
    /\ \/ Ok /\ auth_cache' = Entry(req[r].seen) /\ status_cache' = Entry(req[r].seen)
       \/ Fail /\ auth_cache' \in {auth_cache, Entry(req[r].seen)}
               /\ status_cache' \in {status_cache, Entry(req[r].seen)}
    /\ IF req[r].seen = Active THEN Grant(r) ELSE End(r) /\ UNCHANGED history
    /\ UNCHANGED <<account, refresh, blacklist, expiry, held>>
-----------------------------------------------------------------------------
\* Mutated: seconds given where the store counts in smaller units.
ttl_in_wrong_unit(t) == IF expiry[t] > now THEN (expiry[t] - now) \div Second ELSE 0

(* AuthService.logout: the access token is black-listed for the whole      *)
(* seconds it has left, then the refresh token goes.                       *)
remaining_ttl(t) == IF expiry[t] > now THEN ((expiry[t] - now) \div Second) * Second ELSE 0

logout_blacklist(r) ==
    LET t == req[r].token
        listed == IF remaining_ttl(t) > 0 THEN [blacklist EXCEPT ![t] = now + remaining_ttl(t)]
                  ELSE blacklist
    IN  /\ At(r, "blacklist")
        /\ \/ blacklist' = listed /\ Goto(r, "revoke") /\ Ok
           \/ blacklist' \in {blacklist, listed} /\ End(r) /\ Fail
        /\ UNCHANGED <<account, refresh, status_cache, auth_cache, expiry, held, history>>

(* revoke_refresh_for_user, the common step of logout, password change,    *)
(* withdrawal (before the row) and suspension (after it).  An error ends   *)
(* the request.                                                            *)
revoke_refresh_for_user(r) ==
    LET op == req[r].op IN
    /\ At(r, "revoke")
    /\ \/ /\ refresh' = 0 /\ Ok
          /\ CASE op = "withdraw" -> Goto(r, "delete user")
               [] op = "suspend" -> Goto(r, "invalidate")
               [] OTHER -> End(r)
          /\ logged_out' = IF op = "logout" THEN logged_out \cup {req[r].token} ELSE logged_out
       \/ refresh' \in {refresh, 0} /\ End(r) /\ Fail /\ UNCHANGED logged_out
    /\ revoked' = IF refresh' = 0 THEN revoked \cup ({refresh} \ {0}) ELSE revoked
    /\ UNCHANGED <<account, status_cache, auth_cache, blacklist, expiry, held, rotations, grant>>

update_password(r) ==
    /\ At(r, "change password")
    /\ IF status = "WITHDRAWN" THEN End(r) ELSE Goto(r, "revoke")
    /\ Ok /\ UNCHANGED <<account, store, expiry, held, history>>

delete_user(r) ==
    /\ At(r, "delete user")
    /\ IF status = "WITHDRAWN" THEN End(r) /\ UNCHANGED <<status, since>>
       ELSE status' = "WITHDRAWN" /\ since' = now /\ Goto(r, "invalidate")
    /\ Ok /\ UNCHANGED <<store, expiry, held, history>>

(* AdminService._set_user_status: the row is read, then updated if it is   *)
(* still there.                                                            *)
set_user_status_read(r) ==
    \E op \in {"suspend", "activate"} :
        /\ status # "WITHDRAWN"
        /\ Begin(r, op, [Idle EXCEPT !.at = "set status"])
        /\ Ok /\ UNCHANGED <<account, store, expiry, held, history>>

set_user_status(r) ==
    LET to == IF req[r].op = "suspend" THEN "SUSPENDED" ELSE Active IN
    /\ At(r, "set status")
    /\ Goto(r, IF req[r].op = "suspend" THEN "revoke" ELSE "invalidate")
    /\ IF status \in {"WITHDRAWN", to} THEN UNCHANGED <<status, since>>
       ELSE status' = to /\ since' = now
    /\ Ok /\ UNCHANGED <<store, expiry, held, history>>

(* invalidate_user_status_cache: one DEL of both keys, best effort.        *)
invalidate_user_status_cache(r) ==
    /\ At(r, "invalidate") /\ End(r)
    /\ \/ UNCHANGED <<status_cache, auth_cache>> /\ Fail
       \/ status_cache' = NoEntry /\ auth_cache' = NoEntry /\ Ok
    /\ UNCHANGED <<account, refresh, blacklist, expiry, held, history>>

Tick == /\ now < MaxTime[ops] /\ now' = now + 1
        /\ \A r \in Requests : req[r] # Idle => now < req[r].start + RequestMax
        /\ Expire(status_cache) /\ Expire(auth_cache)
        /\ UNCHANGED <<account, refresh, blacklist, expiry, held, req, begun, faults, ops, history>>

Init == /\ now = 0 /\ status = Active /\ since = 0
        /\ refresh = 1 /\ status_cache = NoEntry /\ auth_cache = NoEntry
        /\ blacklist = <<0>> /\ expiry = <<AccessLife>> /\ held = {1}
        /\ req = [r \in Requests |-> Idle] /\ begun = 0 /\ faults = 0 /\ ops \in Scenarios
        /\ rotations = {} /\ revoked = {} /\ logged_out = {}
        /\ grant = [kind |-> "none", token |-> 1, at |-> 0, late |-> FALSE]

Next == \/ \E r \in Requests :
              \/ login(r) \/ login_store(r) \/ login_warm(r)
              \/ refresh_tokens(r) \/ ensure_user_may_refresh(r) \/ refresh_cache(r)
              \/ try_refresh_rotation_redis(r) \/ sequential_get(r) \/ sequential_set(r)
              \/ ensure_jti_not_blacklisted(r) \/ get_auth_cache(r) \/ get_user_by_id(r)
              \/ fill_caches(r) \/ logout_blacklist(r) \/ revoke_refresh_for_user(r)
              \/ update_password(r) \/ delete_user(r) \/ set_user_status_read(r)
              \/ set_user_status(r) \/ invalidate_user_status_cache(r)
        \/ Tick
Spec == Init /\ [][Next]_vars
-----------------------------------------------------------------------------
(* Types: a refresh token in force, or held by a client, has been issued.  *)
TypeOK == /\ now \in 0 .. MaxTime[ops] /\ status \in Statuses /\ since \in 0 .. now
          /\ refresh \in 0 .. Len(expiry) /\ held \subseteq 1 .. Len(expiry)
          /\ Len(blacklist) = Len(expiry) /\ begun \in 0 .. MaxRequests

(* Of several requests that present the same refresh token one wins: a     *)
(* second rotation of a token happens only past the sequential fallback,   *)
(* and a token that a logout, a password change or a suspension has revoked*)
(* never wins the script's comparison again.                               *)
RotationIsSingleUse ==
    \A w \in rotations :
        /\ w.via = "lua" => ~w.dead
        /\ \A v \in rotations : w.token = v.token /\ w # v => "sequential" \in {w.via, v.via}

(* A user who is not active any more gets access, by token or by refresh,  *)
(* only for one life of a cache entry and the two requests around it: the  *)
(* one that read the row before the change and the one that hit the cache. *)
SuspensionStep == grant' # grant /\ status # Active => now <= since + CacheTtl + 2 * RequestMax
SuspensionTakesEffect == [][SuspensionStep]_vars

(* After a logout was answered the access token is refused, except in the  *)
(* fraction of a second that the black list entry's TTL was rounded off by *)
(* and when the look at the black list failed.                             *)
LogoutStep == grant' # grant /\ grant'.late => now + Second > expiry[grant'.token]
LogoutSticks == [][LogoutStep]_vars
=============================================================================

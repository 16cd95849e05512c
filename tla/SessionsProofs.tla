--------------------------- MODULE SessionsProofs ---------------------------
(***************************************************************************)
(* Refresh rotation and logout, for any number of concurrent requests and  *)
(* any number of failing calls of Redis.                                   *)
(***************************************************************************)
EXTENDS Sessions, SequenceTheorems, TLAPS

(* Leaves are tried with Zenon, those with arithmetic then with SMT.       *)
USE ZenonT(4), SMTT(30), SMTT(40), ZenonT(60)

(* What is assumed of the constants.                                       *)
Sound == AccessLife \in Nat /\ CacheTtl \in Nat /\ Second \in Nat \ {0}

Ops == {"idle", "login", "refresh", "use", "logout", "password", "withdraw", "update_me", "suspend", "activate"}
Places == {"idle", "login store", "login warm", "refresh db", "refresh cache", "rotate", "sequential get",
           "sequential set", "snapshot", "user row", "fill", "blacklist", "change password", "revoke",
           "delete user", "set status", "invalidate"}
Asks == [op : Ops, at : Places, token : Nat, new : Nat, seen : Statuses \cup {""}, start : Nat,
         clean : BOOLEAN, late : BOOLEAN]

Issued == 1 .. Len(expiry)

Typed ==
    /\ now \in Nat /\ status \in Statuses
    /\ expiry \in Seq(Nat) /\ blacklist \in Seq(Nat) /\ Len(blacklist) = Len(expiry)
    /\ req \in [Requests -> Asks]
    /\ refresh \in Issued \cup {0} /\ held \subseteq Issued /\ revoked \subseteq Issued
    /\ logged_out \subseteq held

(* Where a request has issued a token no client has yet, where it has been *)
(* given one, and where it has passed the black list.                      *)
PendingAt == {"login store", "login warm", "sequential get", "sequential set"}
CarryAt == {"refresh db", "refresh cache", "rotate", "sequential get", "sequential set",
            "snapshot", "user row", "fill", "blacklist"}
CheckedAt == {"snapshot", "user row", "fill"}
LogsOut(x) == x.at = "revoke" /\ x.op = "logout"

(* A token that is pending is nobody else's.                               *)
Unshared ==
    \A r \in Requests : req[r].at \in PendingAt =>
        /\ req[r].new \in Issued \ held
        /\ \A p \in Requests \ {r} : req[p].at \in PendingAt => req[p].new # req[r].new

Carried ==
    \A r \in Requests :
        /\ req[r].at \in CarryAt \/ LogsOut(req[r]) => req[r].token \in held
        /\ req[r].at = "change password" => req[r].op # "logout"

(* A token that a request may still put in force has not been in force.    *)
(* For one whose script failed, perhaps with effect, this is so while the  *)
(* token it was given is in force.                                         *)
Unused ==
    \A r \in Requests :
        (req[r].at \in {"login store", "sequential set"} \/ (req[r].at = "sequential get" /\ refresh = req[r].token))
            => req[r].new \notin revoked /\ refresh # req[r].new

(* Neither a revoked token nor one the script has replaced is in force.    *)
InForce ==
    /\ refresh \notin revoked
    /\ \A w \in rotations : /\ w.via \in {"lua", "sequential"} /\ w.token \in held
                            /\ w.via = "lua" => w.token # refresh

Over(t) == now + Second > expiry[t]
Listed(t) == blacklist[t] + Second > expiry[t] \/ Over(t)

(* A token that is logged out is on the black list, or all but expired.    *)
Refused ==
    /\ \A t \in logged_out : Listed(t)
    /\ \A r \in Requests : /\ LogsOut(req[r]) => Listed(req[r].token)
                           /\ req[r].at \in CheckedAt /\ req[r].late /\ req[r].clean => Over(req[r].token)

SessInv == Typed /\ Unshared /\ Carried /\ Unused /\ InForce /\ RotationIsSingleUse /\ Refused

\* The other requests stay, and r is left as x.
Only(r, x) == /\ req' \in [Requests -> Asks] /\ req'[r] = x
              /\ \A p \in Requests \ {r} : req'[p] = req[p]
-----------------------------------------------------------------------------
\* Tokens are numbers.
LEMMA HeldTyped == ASSUME Typed PROVE Len(expiry) \in Nat /\ held \subseteq Nat
BY DEF Typed, Issued

\* A step that assigns a whole request touches no other.
LEMMA PutMoves ==
  ASSUME Typed, NEW r \in Requests, NEW x \in Asks, req' = [req EXCEPT ![r] = x] PROVE Only(r, x)
BY DEF Typed, Only

\* A request that has not begun.
LEMMA IdleTyped == Idle \in Asks /\ Idle.at = "idle"
BY DEF Idle, Asks, Ops, Places, Statuses

\* The end of a request.
LEMMA EndMoves ==
  ASSUME Typed, NEW r \in Requests, End(r) PROVE Only(r, Idle)
BY IdleTyped, PutMoves DEF End

\* A request at its next await keeps what it carries.
LEMMA GotoMoves ==
  ASSUME Typed, NEW r \in Requests, NEW at \in Places, Goto(r, at)
  PROVE  \E x \in Asks : Only(r, x) /\ x.at = at /\ x.token = req[r].token /\ x.new = req[r].new
                         /\ x.clean = req[r].clean /\ x.late = req[r].late /\ x.op = req[r].op
<1>1. req[r] \in Asks BY DEF Typed
<1> DEFINE x == [req[r] EXCEPT !.at = at]
<1>2. x \in Asks /\ x.at = at /\ x.token = req[r].token /\ x.new = req[r].new
      /\ x.clean = req[r].clean /\ x.late = req[r].late /\ x.op = req[r].op
  BY <1>1 DEF Asks
<1>3. req' = [req EXCEPT ![r] = x] BY DEF Goto
<1> QED BY <1>2, <1>3, PutMoves

\* The same, with the status it has read.
LEMMA SeenMoves ==
  ASSUME Typed, NEW r \in Requests, NEW at \in Places, NEW s \in Statuses,
         req' = [req EXCEPT ![r].at = at, ![r].seen = s]
  PROVE  \E x \in Asks : Only(r, x) /\ x.at = at /\ x.token = req[r].token /\ x.new = req[r].new
                         /\ x.clean = req[r].clean /\ x.late = req[r].late /\ x.op = req[r].op
<1>1. req[r] \in Asks /\ req \in [Requests -> Asks] BY DEF Typed
<1> DEFINE x == [req[r] EXCEPT !.at = at, !.seen = s]
<1>2. x \in Asks /\ x.at = at /\ x.token = req[r].token /\ x.new = req[r].new
      /\ x.clean = req[r].clean /\ x.late = req[r].late /\ x.op = req[r].op
  BY <1>1 DEF Asks
<1>3. req' = [req EXCEPT ![r] = x] BY <1>1 DEF Asks
<1> QED BY <1>2, <1>3, PutMoves

\* A request that begins carries what it was given.
LEMMA BeginMoves ==
  ASSUME Typed, NEW r \in Requests, NEW op \in Ops, NEW request \in Asks, Begin(r, op, request)
  PROVE  /\ req[r].at = "idle"
         /\ \E x \in Asks : Only(r, x) /\ x.at = request.at /\ x.token = request.token /\ x.new = request.new
                            /\ x.clean = request.clean /\ x.late = request.late /\ x.op = op
<1> DEFINE x == [request EXCEPT !.op = op, !.start = now]
<1>1. x \in Asks /\ x.at = request.at /\ x.token = request.token /\ x.new = request.new
      /\ x.clean = request.clean /\ x.late = request.late /\ x.op = op
  BY DEF Asks, Typed
<1>2. req' = [req EXCEPT ![r] = x] /\ req[r] = Idle BY DEF Begin
<1> QED BY <1>1, <1>2, PutMoves, IdleTyped
-----------------------------------------------------------------------------
\* A step that only moves r to a place where it has issued nothing.
LEMMA FrameKeeps ==
  ASSUME Sound, SessInv, NEW r \in Requests, NEW x \in Asks, Only(r, x),
         UNCHANGED <<now, refresh, held, revoked, rotations, expiry, blacklist, logged_out>>,
         status' \in Statuses, x.at \notin PendingAt,
         x.at \in CarryAt \/ LogsOut(x) => x.token \in held,
         x.at = "change password" => x.op # "logout",
         LogsOut(x) => Listed(x.token),
         x.at \in CheckedAt /\ x.late /\ x.clean => Over(x.token)
  PROVE  SessInv'
<1>1. Typed' BY DEF SessInv, Typed, Only, Issued
<1>2. Unshared' BY DEF SessInv, Unshared, Only, Issued
<1>3. Carried' BY DEF SessInv, Carried, Only
<1>4. Unused' BY DEF SessInv, Unused, Only, PendingAt
<1>5. InForce' /\ RotationIsSingleUse' BY DEF SessInv, InForce, RotationIsSingleUse
<1>6. Refused' BY DEF SessInv, Refused, Only, Listed, Over
<1> QED BY <1>1, <1>2, <1>3, <1>4, <1>5, <1>6 DEF SessInv

\* The end of a request.
LEMMA EndKeeps ==
  ASSUME Sound, SessInv, NEW r \in Requests, End(r),
         UNCHANGED <<now, refresh, held, revoked, rotations, expiry, blacklist, logged_out>>,
         status' \in Statuses
  PROVE  SessInv'
<1>1. Only(r, Idle) /\ Idle \in Asks /\ Idle.at = "idle"
  BY EndMoves, IdleTyped DEF SessInv
<1> QED BY <1>1, FrameKeeps DEF PendingAt, CarryAt, CheckedAt, LogsOut

\* From one place to the next with what the request has.
LEMMA GotoKeeps ==
  ASSUME Sound, SessInv, NEW r \in Requests, NEW at \in Places, Goto(r, at),
         UNCHANGED <<now, refresh, held, revoked, rotations, expiry, blacklist, logged_out>>,
         status' \in Statuses, at \notin PendingAt,
         at \in CarryAt => req[r].at \in CarryAt,
         at \in CheckedAt => req[r].at \in CheckedAt,
         at \in {"revoke", "change password"} => req[r].op # "logout"
  PROVE  SessInv'
<1>1. PICK x \in Asks : Only(r, x) /\ x.at = at /\ x.token = req[r].token /\ x.new = req[r].new
                        /\ x.clean = req[r].clean /\ x.late = req[r].late /\ x.op = req[r].op
  BY GotoMoves DEF SessInv
<1>2. ~LogsOut(x) BY <1>1 DEF LogsOut
<1>3. x.at \in CarryAt => x.token \in held BY <1>1 DEF SessInv, Carried
<1>4. x.at \in CheckedAt /\ x.late /\ x.clean => Over(x.token)
  BY <1>1 DEF SessInv, Refused
<1> QED BY <1>1, <1>2, <1>3, <1>4, FrameKeeps

\* The same with the status that was read.
LEMMA SeenKeeps ==
  ASSUME Sound, SessInv, NEW r \in Requests, NEW at \in Places,
         req' = [req EXCEPT ![r].at = at, ![r].seen = status],
         UNCHANGED <<now, status, refresh, held, revoked, rotations, expiry, blacklist, logged_out>>,
         at \notin PendingAt \cup {"revoke", "change password"},
         at \in CarryAt => req[r].at \in CarryAt,
         at \in CheckedAt => req[r].at \in CheckedAt
  PROVE  SessInv'
<1>0. Typed /\ status \in Statuses BY DEF SessInv, Typed
<1>1. PICK x \in Asks : Only(r, x) /\ x.at = at /\ x.token = req[r].token /\ x.new = req[r].new
                        /\ x.clean = req[r].clean /\ x.late = req[r].late /\ x.op = req[r].op
  BY <1>0, SeenMoves
<1>2. ~LogsOut(x) BY <1>1 DEF LogsOut
<1>3. x.at \in CarryAt => x.token \in held BY <1>1 DEF SessInv, Carried
<1>4. x.at \in CheckedAt /\ x.late /\ x.clean => Over(x.token)
  BY <1>1 DEF SessInv, Refused
<1> QED BY <1>0, <1>1, <1>2, <1>3, <1>4, FrameKeeps
-----------------------------------------------------------------------------
\* Requests that only look at the tokens.
LEMMA RefreshReads ==
  ASSUME Sound, SessInv, NEW r \in Requests,
         refresh_tokens(r) \/ ensure_user_may_refresh(r) \/ refresh_cache(r)
  PROVE  SessInv'
<1>0. Typed /\ status \in Statuses BY DEF SessInv, Typed
<1>1. CASE refresh_tokens(r)
  <2>1. PICK t \in held, at \in {"rotate", "refresh db"} :
            /\ Begin(r, "refresh", [Idle EXCEPT !.token = t, !.at = at])
            /\ UNCHANGED <<account, store, expiry, held, history>>
    BY <1>1 DEF refresh_tokens
  <2> DEFINE q == [Idle EXCEPT !.token = t, !.at = at]
  <2>2. t \in Nat BY <1>0, HeldTyped
  <2>3. q \in Asks /\ q.at = at /\ q.token = t
    BY <2>2, IdleTyped DEF Idle, Asks, Places
  <2>4. Begin(r, "refresh", q) BY <2>1
  <2> HIDE DEF q
  <2>5. PICK x \in Asks : Only(r, x) /\ x.at = q.at /\ x.token = q.token /\ x.new = q.new
                          /\ x.clean = q.clean /\ x.late = q.late /\ x.op = "refresh"
    <3>1. PICK op \in Ops : op = "refresh" BY DEF Ops
    <3>2. Begin(r, op, q) BY <2>4, <3>1
    <3>3. \E x \in Asks : Only(r, x) /\ x.at = q.at /\ x.token = q.token /\ x.new = q.new
                          /\ x.clean = q.clean /\ x.late = q.late /\ x.op = op
      BY <1>0, <2>3, <3>2, BeginMoves
    <3> QED BY <3>1, <3>3
  <2>6. UNCHANGED now BY <2>4 DEF Begin
  <2> QED BY <1>0, <2>1, <2>3, <2>5, <2>6, FrameKeeps
         DEF account, store, history, PendingAt, CheckedAt, LogsOut
<1>2. CASE ensure_user_may_refresh(r)
  <2>1. /\ req[r].at = "refresh db"
        /\ UNCHANGED <<now, status, refresh, held, revoked, rotations, expiry, blacklist, logged_out>>
    BY <1>2 DEF ensure_user_may_refresh, At, account, store, history
  <2>2. CASE End(r) BY <1>0, <2>1, <2>2, EndKeeps
  <2>3. CASE req' = [req EXCEPT ![r].at = "refresh cache", ![r].seen = status]
    BY <2>1, <2>3, SeenKeeps DEF Places, PendingAt, CarryAt, CheckedAt
  <2> QED BY <1>2, <2>2, <2>3 DEF ensure_user_may_refresh
<1>3. CASE refresh_cache(r)
  <2>1. /\ req[r].at = "refresh cache"
        /\ UNCHANGED <<now, status, refresh, held, revoked, rotations, expiry, blacklist, logged_out>>
    BY <1>3 DEF refresh_cache, At, account, store, history
  <2>2. CASE End(r) BY <1>0, <2>1, <2>2, EndKeeps
  <2>3. CASE Goto(r, "rotate")
    BY <1>0, <2>1, <2>3, GotoKeeps DEF Places, PendingAt, CarryAt, CheckedAt
  <2> QED BY <1>3, <2>2, <2>3 DEF refresh_cache
<1> QED BY <1>1, <1>2, <1>3

\* A request whose access token is logged out gets past the black list only
\* in the last second of the token.
LEMMA BlacklistChecked ==
  ASSUME Sound, SessInv, NEW r \in Requests, ensure_jti_not_blacklisted(r) PROVE SessInv'
<1>0. Typed /\ status \in Statuses BY DEF SessInv, Typed
<1>1. PICK op \in Authenticated, t \in held, clean \in BOOLEAN :
          /\ Begin(r, op, [Idle EXCEPT !.at = "snapshot", !.token = t, !.clean = clean,
                                       !.late = t \in logged_out])
          /\ clean => now >= blacklist[t]
          /\ UNCHANGED <<account, store, expiry, held, history>>
  BY DEF ensure_jti_not_blacklisted
<1> DEFINE q == [Idle EXCEPT !.at = "snapshot", !.token = t, !.clean = clean, !.late = t \in logged_out]
<1>2. t \in Nat /\ t \in Issued BY <1>0, HeldTyped DEF Typed
<1>3. /\ q \in Asks /\ q.at = "snapshot" /\ q.token = t /\ q.clean = clean
      /\ q.late => t \in logged_out
  <2> DEFINE z(l) == [Idle EXCEPT !.at = "snapshot", !.token = t, !.clean = clean, !.late = l]
  <2>1. \A l \in BOOLEAN : z(l) \in Asks /\ z(l).at = "snapshot" /\ z(l).token = t
                            /\ z(l).clean = clean /\ z(l).late = l
    BY <1>2, IdleTyped DEF Idle, Asks, Places
  <2>2. CASE t \in logged_out
    <3>1. (t \in logged_out) = TRUE BY <2>2
    <3>2. q = z(TRUE) BY <3>1
    <3> QED BY <2>1, <2>2, <3>2
  <2>3. CASE t \notin logged_out
    <3>1. (t \in logged_out) = FALSE BY <2>3
    <3>2. q = z(FALSE) BY <3>1
    <3> QED BY <2>1, <3>2
  <2> QED BY <2>2, <2>3
<1>4. Begin(r, op, q) /\ op \in Ops BY <1>1 DEF Authenticated, Ops
<1> HIDE DEF q
<1>5. PICK x \in Asks : Only(r, x) /\ x.at = q.at /\ x.token = q.token /\ x.new = q.new
                        /\ x.clean = q.clean /\ x.late = q.late /\ x.op = op
  BY <1>0, <1>3, <1>4, BeginMoves
<1>6. UNCHANGED now BY <1>4 DEF Begin
<1>7. now \in Nat /\ blacklist[t] \in Nat /\ expiry[t] \in Nat BY <1>0, <1>2 DEF Typed, Issued
<1>8. x.late /\ x.clean => Over(x.token)
  BY <1>1, <1>3, <1>5, <1>7 DEF SessInv, Refused, Listed, Over, Sound
<1> QED BY <1>0, <1>1, <1>3, <1>5, <1>6, <1>8, FrameKeeps
       DEF account, store, history, PendingAt, CheckedAt, LogsOut

\* Access granted: what is left of the request.
LEMMA GrantKeeps ==
  ASSUME Sound, SessInv, NEW r \in Requests, Grant(r), req[r].at \in CheckedAt,
         UNCHANGED <<now, status, refresh, held, expiry, blacklist>>
  PROVE  SessInv'
<1>0. Typed /\ status \in Statuses /\ req[r] \in Asks BY DEF SessInv, Typed
<1>1. UNCHANGED <<rotations, revoked, logged_out>> BY DEF Grant
<1>2. CASE End(r) BY <1>0, <1>1, <1>2, EndKeeps
<1>3. CASE Goto(r, After(req[r].op))
  <2>1. /\ After(req[r].op) \in {"blacklist", "change password", "revoke", "invalidate", "idle"}
        /\ After(req[r].op) \in {"revoke", "change password"} => req[r].op # "logout"
    BY DEF After
  <2>2. req[r].at \in CarryAt BY DEF CheckedAt, CarryAt
  <2> QED
    BY <1>0, <1>1, <1>3, <2>1, <2>2, GotoKeeps DEF Places, PendingAt, CarryAt,
       CheckedAt
<1> QED BY <1>2, <1>3 DEF Grant

\* The look at the snapshot cache, the row, and the fill of the caches.
LEMMA AccessReads ==
  ASSUME Sound, SessInv, NEW r \in Requests, get_auth_cache(r) \/ get_user_by_id(r) \/ fill_caches(r)
  PROVE  SessInv'
<1>0. Typed /\ status \in Statuses BY DEF SessInv, Typed
<1>1. CASE get_auth_cache(r)
  <2>1. req[r].at = "snapshot" /\ UNCHANGED <<now, status, refresh, held, expiry, blacklist>>
    BY <1>1 DEF get_auth_cache, At, account, store
  <2>2. CASE Grant(r) BY <2>1, <2>2, GrantKeeps DEF CheckedAt
  <2>3. CASE End(r) /\ UNCHANGED history BY <1>0, <2>1, <2>3, EndKeeps DEF history
  <2>4. CASE Goto(r, "user row") /\ UNCHANGED history
    BY <1>0, <2>1, <2>4, GotoKeeps DEF history, Places, PendingAt, CarryAt,
       CheckedAt
  <2> QED BY <1>1, <2>2, <2>3, <2>4 DEF get_auth_cache
<1>2. CASE get_user_by_id(r)
  <2>1. /\ req[r].at = "user row"
        /\ UNCHANGED <<now, status, refresh, held, revoked, rotations, expiry, blacklist, logged_out>>
    BY <1>2 DEF get_user_by_id, At, account, store, history
  <2>2. CASE End(r) BY <1>0, <2>1, <2>2, EndKeeps
  <2>3. CASE req' = [req EXCEPT ![r].at = "fill", ![r].seen = status]
    BY <2>1, <2>3, SeenKeeps DEF Places, PendingAt, CarryAt, CheckedAt
  <2> QED BY <1>2, <2>2, <2>3 DEF get_user_by_id
<1>3. CASE fill_caches(r)
  <2>1. req[r].at = "fill" /\ UNCHANGED <<now, status, refresh, held, expiry, blacklist>>
    BY <1>3 DEF fill_caches, At, account
  <2>2. CASE Grant(r) BY <2>1, <2>2, GrantKeeps DEF CheckedAt
  <2>3. CASE End(r) /\ UNCHANGED history BY <1>0, <2>1, <2>3, EndKeeps DEF history
  <2> QED BY <1>3, <2>2, <2>3 DEF fill_caches
<1> QED BY <1>1, <1>2, <1>3

\* Steps on the account's row and its caches.
LEMMA AccountSteps ==
  ASSUME Sound, SessInv, NEW r \in Requests,
         \/ update_password(r) \/ delete_user(r) \/ set_user_status_read(r)
         \/ set_user_status(r) \/ invalidate_user_status_cache(r)
  PROVE  SessInv'
<1>0. Typed /\ status \in Statuses BY DEF SessInv, Typed
<1>1. CASE update_password(r)
  <2>1. /\ req[r].at = "change password"
        /\ UNCHANGED <<now, status, refresh, held, revoked, rotations, expiry, blacklist, logged_out>>
    BY <1>1 DEF update_password, At, account, store, history
  <2>2. CASE End(r) BY <1>0, <2>1, <2>2, EndKeeps
  <2>3. CASE Goto(r, "revoke")
    <3>1. req[r].op # "logout" BY <2>1 DEF SessInv, Carried
    <3> QED
      BY <1>0, <2>1, <2>3, <3>1, GotoKeeps DEF Places, PendingAt, CarryAt,
         CheckedAt
  <2> QED BY <1>1, <2>2, <2>3 DEF update_password
<1>2. CASE delete_user(r)
  <2>1. /\ req[r].at = "delete user" /\ status' \in Statuses
        /\ UNCHANGED <<now, refresh, held, revoked, rotations, expiry, blacklist, logged_out>>
    BY <1>0, <1>2 DEF delete_user, At, store, history, Statuses
  <2>2. CASE End(r) BY <2>1, <2>2, EndKeeps
  <2>3. CASE Goto(r, "invalidate")
    BY <2>1, <2>3, GotoKeeps DEF Places, PendingAt, CarryAt, CheckedAt
  <2> QED BY <1>2, <2>2, <2>3 DEF delete_user
<1>3. CASE set_user_status_read(r)
  <2>1. PICK op \in {"suspend", "activate"} :
            /\ Begin(r, op, [Idle EXCEPT !.at = "set status"])
            /\ UNCHANGED <<account, store, expiry, held, history>>
    BY <1>3 DEF set_user_status_read
  <2> DEFINE q == [Idle EXCEPT !.at = "set status"]
  <2>2. q \in Asks /\ q.at = "set status" BY IdleTyped DEF Idle, Asks, Places
  <2>3. Begin(r, op, q) /\ op \in Ops BY <2>1 DEF Ops
  <2> HIDE DEF q
  <2>4. PICK x \in Asks : Only(r, x) /\ x.at = q.at /\ x.token = q.token /\ x.new = q.new
                          /\ x.clean = q.clean /\ x.late = q.late /\ x.op = op
    BY <1>0, <2>2, <2>3, BeginMoves
  <2>5. UNCHANGED now BY <2>3 DEF Begin
  <2> QED BY <1>0, <2>1, <2>2, <2>4, <2>5, FrameKeeps
         DEF account, store, history, PendingAt, CarryAt, CheckedAt, LogsOut
<1>4. CASE set_user_status(r)
  <2>1. /\ req[r].at = "set status" /\ status' \in Statuses
        /\ UNCHANGED <<now, refresh, held, revoked, rotations, expiry, blacklist, logged_out>>
    BY <1>0, <1>4 DEF set_user_status, At, store, history, Statuses, Active
  <2>2. CASE Goto(r, "revoke") /\ req[r].op = "suspend"
    BY <2>1, <2>2, GotoKeeps DEF Places, PendingAt, CarryAt, CheckedAt
  <2>3. CASE Goto(r, "invalidate")
    BY <2>1, <2>3, GotoKeeps DEF Places, PendingAt, CarryAt, CheckedAt
  <2> QED BY <1>4, <2>2, <2>3 DEF set_user_status
<1>5. CASE invalidate_user_status_cache(r)
  <2>1. UNCHANGED <<now, status, refresh, held, revoked, rotations, expiry, blacklist, logged_out>>
    BY <1>5 DEF invalidate_user_status_cache, At, account, history
  <2> QED BY <1>0, <1>5, <2>1, EndKeeps DEF invalidate_user_status_cache
<1> QED BY <1>1, <1>2, <1>3, <1>4, <1>5
-----------------------------------------------------------------------------
\* One more token is issued.
LEMMA OneMoreIssued ==
  ASSUME Typed, NEW e \in Nat, blacklist' = Append(blacklist, 0),
         \/ expiry' = Append(expiry, e)
         \/ expiry' = [Append(expiry, 0) EXCEPT ![Len(expiry) + 1] = e]
  PROVE  /\ expiry' \in Seq(Nat) /\ blacklist' \in Seq(Nat) /\ Len(blacklist') = Len(expiry')
         /\ Issued' = Issued \cup {Len(expiry) + 1} /\ Len(expiry) + 1 \notin Issued
         /\ Len(expiry) + 1 \in Nat \ {0}
         /\ \A t \in Issued : expiry'[t] = expiry[t] /\ blacklist'[t] = blacklist[t]
<1>1. CASE expiry' = Append(expiry, e) BY <1>1 DEF Typed, Issued
<1>2. CASE expiry' = [Append(expiry, 0) EXCEPT ![Len(expiry) + 1] = e]
  <2> DEFINE s == Append(expiry, 0)
             n == Len(expiry) + 1
  <2>1. /\ s \in Seq(Nat) /\ Len(s) = n /\ n \in 1 .. Len(s)
        /\ \A t \in Issued : s[t] = expiry[t] /\ t \in 1 .. Len(s) /\ t # n
    BY DEF Typed, Issued
  <2>2. expiry' = [s EXCEPT ![n] = e] BY <1>2
  <2> HIDE DEF s
  <2>3. /\ [s EXCEPT ![n] = e] \in Seq(Nat) /\ Len([s EXCEPT ![n] = e]) = Len(s)
        /\ \A j \in 1 .. Len(s) : [s EXCEPT ![n] = e][j] = IF j = n THEN e ELSE s[j]
    BY <2>1, ExceptSeq
  <2>4. expiry' \in Seq(Nat) /\ Len(expiry') = n /\ \A t \in Issued : expiry'[t] = expiry[t]
    BY <2>1, <2>2, <2>3
  <2>5. Issued' = Issued \cup {n} /\ n \notin Issued /\ n \in Nat \ {0}
    BY <2>4 DEF Typed, Issued
  <2>6. blacklist' \in Seq(Nat) /\ Len(blacklist') = n /\ \A t \in Issued : blacklist'[t] = blacklist[t]
    BY DEF Typed, Issued
  <2> QED BY <2>4, <2>5, <2>6
<1> QED BY <1>1, <1>2

\* What a step that moves refresh tokens leaves to be shown: nothing about
\* access tokens.
LEMMA AccessKept ==
  ASSUME Sound, SessInv, Typed', NEW r \in Requests, NEW x \in Asks, Only(r, x),
         UNCHANGED <<now, logged_out>>, held \subseteq held',
         \A t \in held : expiry'[t] = expiry[t] /\ blacklist'[t] = blacklist[t],
         x.at \notin CheckedAt \cup {"revoke", "change password"},
         x.at \in CarryAt => x.token \in held'
  PROVE  Carried' /\ Refused'
<1>1. Carried' BY DEF SessInv, Carried, Only, LogsOut
<1>2. \A t \in held : (Over(t) => Over(t)') /\ (Listed(t) => Listed(t)')
  BY DEF Over, Listed
<1>3. \A t \in logged_out' : Listed(t)' BY <1>2 DEF SessInv, Refused, Typed
<1>4. ASSUME NEW p \in Requests, LogsOut(req'[p])
      PROVE  blacklist'[req'[p].token] + Second > expiry'[req'[p].token] \/ now' + Second > expiry'[req'[p].token]
  <2>1. p # r /\ req'[p] = req[p] BY <1>4 DEF Only, LogsOut
  <2>2. req[p].token \in held /\ Listed(req[p].token)
    BY <1>4, <2>1 DEF SessInv, Carried, Refused
  <2> QED BY <2>1, <2>2 DEF Listed, Over
<1>5. ASSUME NEW p \in Requests, req'[p].at \in CheckedAt, req'[p].late, req'[p].clean
      PROVE  now' + Second > expiry'[req'[p].token]
  <2>1. p # r /\ req'[p] = req[p] BY <1>5 DEF Only
  <2>2. req[p].token \in held /\ Over(req[p].token)
    BY <1>5, <2>1 DEF SessInv, Carried, Refused, CheckedAt, CarryAt
  <2> QED BY <2>1, <2>2 DEF Over
<1>6. Refused'
  <2>1. \A p \in Requests : /\ LogsOut(req[p])' => Listed(req[p].token)'
                            /\ req'[p].at \in CheckedAt /\ req'[p].late /\ req'[p].clean => Over(req[p].token)'
    BY <1>4, <1>5 DEF LogsOut, Listed, Over
  <2> QED BY <1>3, <2>1 DEF Refused
<1> QED BY <1>1, <1>6

\* A login issues a token that is pending until its answer.
LEMMA LoginKeeps == ASSUME Sound, SessInv, NEW r \in Requests, login(r) PROVE SessInv'
<1>0. Typed /\ status \in Statuses /\ now \in Nat BY DEF SessInv, Typed
<1>n. PICK n \in Nat : n = Len(expiry) + 1 BY <1>0, HeldTyped
<1> DEFINE q == [Idle EXCEPT !.at = "login store", !.new = n]
<1>1. now + AccessLife \in Nat BY <1>0 DEF Sound
<1>2. /\ expiry' \in Seq(Nat) /\ blacklist' \in Seq(Nat) /\ Len(blacklist') = Len(expiry')
      /\ Issued' = Issued \cup {n} /\ n \notin Issued /\ n \in Nat \ {0}
      /\ \A t \in Issued : expiry'[t] = expiry[t] /\ blacklist'[t] = blacklist[t]
  BY <1>0, <1>n, <1>1, OneMoreIssued DEF login
<1>3. q \in Asks /\ q.at = "login store" /\ q.new = n
  BY <1>2, IdleTyped DEF Idle, Asks, Places
<1>4. Begin(r, "login", q) BY <1>n DEF login
<1>5. UNCHANGED <<now, status, refresh, held, revoked, rotations, logged_out>>
  BY <1>4 DEF login, Begin, account, history
<1> HIDE DEF q
<1>6. PICK x \in Asks : Only(r, x) /\ x.at = "login store" /\ x.new = n
  <2>1. PICK op \in Ops : op = "login" BY DEF Ops
  <2>2. Begin(r, op, q) BY <1>4, <2>1
  <2>3. /\ req[r].at = "idle"
        /\ \E x \in Asks : Only(r, x) /\ x.at = q.at /\ x.token = q.token /\ x.new = q.new
                           /\ x.clean = q.clean /\ x.late = q.late /\ x.op = op
    <3>1. Typed /\ q \in Asks BY <1>0, <1>3
    <3> QED BY <3>1, <2>2, BeginMoves
  <2> QED BY <1>3, <2>3
<1>7. Typed' BY <1>0, <1>2, <1>5, <1>6 DEF Typed, Only
<1>8. Unshared'
  <2>1. \A p \in Requests \ {r} : req'[p].at \in PendingAt =>
            /\ req'[p].new \in Issued \ held
            /\ \A u \in Requests \ {r, p} : req'[u].at \in PendingAt => req'[u].new # req'[p].new
    BY <1>6 DEF SessInv, Unshared, Only
  <2>2. req'[r].new = n /\ n \notin held BY <1>0, <1>2, <1>6 DEF Only, Typed
  <2> QED BY <1>2, <1>5, <2>1, <2>2 DEF Unshared
<1>9. Unused' BY <1>0, <1>2, <1>5, <1>6 DEF SessInv, Unused, Only, Typed
<1>10. InForce' /\ RotationIsSingleUse' BY <1>5 DEF SessInv, InForce, RotationIsSingleUse
<1>11. Carried' /\ Refused'
  BY <1>0, <1>2, <1>5, <1>6, <1>7, AccessKept DEF Typed, CheckedAt, CarryAt
<1> QED BY <1>7, <1>8, <1>9, <1>10, <1>11 DEF SessInv

\* A pending token may be put in force: it is nobody else's, and was never
\* in force.
LEMMA PendingInForce ==
  ASSUME Sound, SessInv, NEW r \in Requests, NEW x \in Asks, Only(r, x),
         req[r].at \in {"login store", "sequential set"}, refresh' \in {refresh, req[r].new},
         UNCHANGED <<now, status, expiry, blacklist, held, revoked, rotations, logged_out>>,
         \/ x.at = "idle"
         \/ x.at = "login warm" /\ x.new = req[r].new
  PROVE  SessInv'
<1>0. Typed /\ status \in Statuses /\ req[r].at \in PendingAt
  BY DEF SessInv, Typed, PendingAt
<1>1. req[r].new \in Issued \ held /\ req[r].new \notin revoked
  BY <1>0 DEF SessInv, Unshared, Unused
<1>2. Typed' BY <1>0, <1>1 DEF Typed, Only, Issued
<1>3. Unshared'
  <2>1. \A p \in Requests : req'[p].at \in PendingAt => req[p].at \in PendingAt /\ req'[p].new = req[p].new
    BY <1>0 DEF Only, PendingAt
  <2>2. Issued' = Issued BY DEF Issued
  <2> QED BY <2>1, <2>2 DEF SessInv, Unshared
<1>4. Unused'
  <2> SUFFICES ASSUME NEW p \in Requests,
                      \/ req'[p].at \in {"login store", "sequential set"}
                      \/ req'[p].at = "sequential get" /\ refresh' = req'[p].token
               PROVE  req'[p].new \notin revoked /\ refresh' # req'[p].new
    BY DEF Unused
  <2>1. p # r /\ req'[p] = req[p] BY DEF Only
  <2>2. req[p].at \in PendingAt /\ req[p].new # req[r].new
    BY <1>0, <2>1 DEF SessInv, Unshared, PendingAt
  <2>3. req[p].at = "sequential get" => req[p].token \in held
    BY DEF SessInv, Carried, CarryAt
  <2> QED BY <1>1, <2>1, <2>2, <2>3 DEF SessInv, Unused
<1>5. InForce' BY <1>1 DEF SessInv, InForce
<1>6. RotationIsSingleUse' BY DEF SessInv, RotationIsSingleUse
<1>7. Carried' /\ Refused' BY <1>2, AccessKept DEF CheckedAt, CarryAt
<1> QED BY <1>2, <1>3, <1>4, <1>5, <1>6, <1>7 DEF SessInv

\* A login's digest is stored: its token is in force before a client has it.
LEMMA LoginStoreKeeps == ASSUME Sound, SessInv, NEW r \in Requests, login_store(r) PROVE SessInv'
<1>0. Typed BY DEF SessInv
<1>1. /\ req[r].at = "login store" /\ refresh' \in {refresh, req[r].new}
      /\ UNCHANGED <<now, status, expiry, blacklist, held, revoked, rotations, logged_out>>
  BY DEF login_store, At, account, history
<1>2. CASE End(r)
  <2>1. Only(r, Idle) /\ Idle \in Asks /\ Idle.at = "idle" BY <1>0, <1>2, EndMoves, IdleTyped
  <2> QED BY <1>1, <2>1, PendingInForce
<1>3. CASE Goto(r, "login warm")
  <2>0. PICK at \in Places : at = "login warm" BY DEF Places
  <2>1. PICK x \in Asks : Only(r, x) /\ x.at = "login warm" /\ x.new = req[r].new
    BY <1>0, <1>3, <2>0, GotoMoves
  <2> QED BY <1>1, <2>1, PendingInForce
<1> QED BY <1>2, <1>3 DEF login_store

\* A login is answered: its token is a client's from here on.
LEMMA LoginWarmKeeps == ASSUME Sound, SessInv, NEW r \in Requests, login_warm(r) PROVE SessInv'
<1>0. Typed BY DEF SessInv
<1> DEFINE m == req[r].new
<1>1. /\ req[r].at = "login warm" /\ held' = held \cup {m}
      /\ UNCHANGED <<now, status, refresh, expiry, blacklist, revoked, rotations, logged_out>>
  BY DEF login_warm, At, account, history
<1>2. Only(r, Idle) /\ Idle \in Asks /\ Idle.at = "idle"
  BY <1>0, EndMoves, IdleTyped DEF login_warm
<1>3. m \in Issued \ held BY <1>1 DEF SessInv, Unshared, PendingAt
<1>4. Typed' BY <1>0, <1>1, <1>2, <1>3 DEF Typed, Only, Issued
<1>5. Unshared' BY <1>1, <1>2 DEF SessInv, Unshared, Only, PendingAt, Issued
<1>6. Unused' BY <1>1, <1>2 DEF SessInv, Unused, Only
<1>7. InForce' /\ RotationIsSingleUse'
  BY <1>1 DEF SessInv, InForce, RotationIsSingleUse
<1>8. Carried' /\ Refused' BY <1>1, <1>2, <1>4, AccessKept DEF CheckedAt, CarryAt
<1> QED BY <1>4, <1>5, <1>6, <1>7, <1>8 DEF SessInv

\* A rotation by the script: it wins with the token in force, and fails, with
\* its effect or without, before the new token is anybody's.
LEMMA RotationKeeps == ASSUME Sound, SessInv, NEW r \in Requests, try_refresh_rotation_redis(r) PROVE SessInv'
<1>0. Typed /\ now \in Nat /\ refresh \in Issued \cup {0} /\ held \subseteq Issued /\ revoked \subseteq Issued
  BY DEF SessInv, Typed
<1>n. PICK n \in Nat : n = Len(expiry) + 1 BY <1>0, HeldTyped
<1>t. req[r].at = "rotate" /\ req[r].token \in held
  BY DEF try_refresh_rotation_redis, At, SessInv, Carried, CarryAt
<1>1. PICK e \in Nat : \/ expiry' = Append(expiry, e)
                       \/ expiry' = [Append(expiry, 0) EXCEPT ![Len(expiry) + 1] = e]
  <2>1. now + AccessLife \in Nat BY <1>0 DEF Sound
  <2> QED BY <2>1 DEF try_refresh_rotation_redis, Won, Issue
<1>2. /\ expiry' \in Seq(Nat) /\ blacklist' \in Seq(Nat) /\ Len(blacklist') = Len(expiry')
      /\ Issued' = Issued \cup {n} /\ n \notin Issued /\ n # 0
      /\ \A t \in Issued : expiry'[t] = expiry[t] /\ blacklist'[t] = blacklist[t]
  BY <1>0, <1>n, <1>1, OneMoreIssued DEF try_refresh_rotation_redis
<1>3. UNCHANGED <<now, status, revoked, logged_out>>
  BY DEF try_refresh_rotation_redis, At, account
<1>4. \/ refresh' = refresh
      \/ refresh' = n /\ refresh = req[r].token
  BY <1>n DEF try_refresh_rotation_redis, rotate_cas
<1>5. CASE refresh' = n /\ Won(r, n, "lua", Issue)
  <2>1. Only(r, Idle) /\ Idle \in Asks /\ Idle.at = "idle" BY <1>0, <1>5, EndMoves, IdleTyped DEF Won
  <2>2. held' = held \cup {n} BY <1>5 DEF Won
  <2>3. refresh = req[r].token BY <1>0, <1>2, <1>4, <1>5
  <2>4. Typed' BY <1>0, <1>2, <1>3, <1>5, <2>1, <2>2 DEF Typed, Only
  <2>5. Unshared'
    <3>1. \A p \in Requests : req'[p].at \in PendingAt => req[p].at \in PendingAt /\ req'[p] = req[p]
      BY <2>1 DEF Only, PendingAt
    <3> QED BY <1>2, <2>2, <3>1 DEF SessInv, Unshared
  <2>6. Unused'
    <3> SUFFICES ASSUME NEW p \in Requests,
                        \/ req'[p].at \in {"login store", "sequential set"}
                        \/ req'[p].at = "sequential get" /\ refresh' = req'[p].token
                 PROVE  req'[p].new \notin revoked' /\ refresh' # req'[p].new
      BY DEF Unused
    <3>1. p # r /\ req'[p] = req[p] BY <2>1 DEF Only
    <3>2. req[p].new \in Issued BY <3>1 DEF SessInv, Unshared, PendingAt
    <3>3. req[p].at # "sequential get"
      BY <1>0, <1>2, <1>5, <3>1 DEF SessInv, Carried, CarryAt
    <3> QED BY <1>2, <1>3, <1>5, <3>1, <3>2, <3>3 DEF SessInv, Unused
  <2> DEFINE t == req[r].token
  <2>7. /\ t \notin revoked /\ \A v \in rotations : v.via = "lua" => v.token # t
        /\ \A v \in rotations : v.token \in held /\ v.via \in {"lua", "sequential"}
    BY <2>3 DEF SessInv, InForce
  <2> DEFINE w == [token |-> t, new |-> n, via |-> "lua", dead |-> FALSE]
  <2>8. rotations' = rotations \cup {w} /\ w.token = t /\ w.via = "lua" /\ ~w.dead
    <3>1. (req[r].token \in revoked) = FALSE BY <2>7
    <3>2. rotations' = rotations \cup {w} BY <1>5, <3>1 DEF Won
    <3> QED BY <3>2
  <2> HIDE DEF t, w
  <2>9. t \in held BY <1>t DEF t
  <2>10. InForce'
    BY <1>0, <1>2, <1>3, <1>5, <2>2, <2>7, <2>8, <2>9 DEF InForce
  <2>11. RotationIsSingleUse' BY <2>7, <2>8 DEF SessInv, RotationIsSingleUse
  <2>12. Carried' /\ Refused'
    BY <1>0, <1>2, <1>3, <2>1, <2>2, <2>4, AccessKept DEF CheckedAt, CarryAt
  <2> QED BY <2>4, <2>5, <2>6, <2>10, <2>11, <2>12 DEF SessInv
<1>6. ASSUME NEW x \in Asks, Only(r, x), UNCHANGED <<held, rotations>>,
             \/ x.at = "idle" /\ refresh' = refresh
             \/ x.at = "sequential get" /\ x.new = n /\ x.token = req[r].token
      PROVE  SessInv'
  <2>1. Typed' BY <1>0, <1>2, <1>3, <1>4, <1>6 DEF Typed, Only
  <2>2. Unshared'
    <3>1. \A p \in Requests \ {r} : req'[p].at \in PendingAt =>
              /\ req'[p].new \in Issued \ held
              /\ \A u \in Requests \ {r, p} : req'[u].at \in PendingAt => req'[u].new # req'[p].new
      BY <1>6 DEF SessInv, Unshared, Only
    <3>2. n \notin held /\ req'[r] = x /\ (x.at \in PendingAt => x.new = n)
      BY <1>0, <1>2, <1>6 DEF Only, PendingAt
    <3>3. \A p \in Requests \ {r} : req'[p].at \in PendingAt => req'[p].new # n BY <1>2, <3>1
    <3>4. Issued' = Issued \cup {n} /\ held' = held BY <1>2, <1>6
    <3> QED BY <3>1, <3>2, <3>3, <3>4 DEF Unshared
  <2>3. Unused'
    <3> SUFFICES ASSUME NEW p \in Requests,
                        \/ req'[p].at \in {"login store", "sequential set"}
                        \/ req'[p].at = "sequential get" /\ refresh' = req'[p].token
                 PROVE  req'[p].new \notin revoked' /\ refresh' # req'[p].new
      BY DEF Unused
    <3>1. CASE p = r
      <4>1. x.at = "sequential get" /\ refresh' = x.token /\ x.new = n /\ x.token \in held
        BY <1>6, <1>t, <3>1 DEF Only
      <4> QED BY <1>0, <1>2, <1>3, <1>6, <3>1, <4>1 DEF Only
    <3>2. CASE p # r
      <4>1. req'[p] = req[p] BY <1>6, <3>2 DEF Only
      <4>2. req[p].new \in Issued BY <4>1 DEF SessInv, Unshared, PendingAt
      <4>3. req[p].at = "sequential get" => req[p].token \in held
        BY DEF SessInv, Carried, CarryAt
      <4> QED BY <1>0, <1>2, <1>3, <1>4, <4>1, <4>2, <4>3 DEF SessInv, Unused
    <3> QED BY <3>1, <3>2
  <2>4. InForce' BY <1>0, <1>2, <1>3, <1>4, <1>6 DEF SessInv, InForce
  <2>5. RotationIsSingleUse' BY <1>6 DEF SessInv, RotationIsSingleUse
  <2>6. Carried' /\ Refused'
    BY <1>0, <1>2, <1>3, <1>6, <1>t, <2>1, AccessKept DEF CheckedAt, CarryAt
  <2> QED BY <2>1, <2>2, <2>3, <2>4, <2>5, <2>6 DEF SessInv
<1>7. CASE End(r) /\ refresh' # n /\ UNCHANGED <<held, rotations>>
  <2>1. Only(r, Idle) /\ Idle \in Asks /\ Idle.at = "idle" BY <1>0, <1>7, EndMoves, IdleTyped
  <2> QED BY <1>4, <1>6, <1>7, <2>1
<1>8. CASE req' = [req EXCEPT ![r].at = "sequential get", ![r].new = n] /\ UNCHANGED <<held, rotations>>
  <2> DEFINE x == [req[r] EXCEPT !.at = "sequential get", !.new = n]
  <2>1. req[r] \in Asks /\ req \in [Requests -> Asks] BY <1>0 DEF Typed
  <2>2. x \in Asks /\ x.at = "sequential get" /\ x.token = req[r].token /\ x.new = n
    BY <2>1 DEF Asks, Places
  <2>3. req' = [req EXCEPT ![r] = x] BY <1>8, <2>1 DEF Asks
  <2>4. Only(r, x) BY <1>0, <2>2, <2>3, PutMoves
  <2> HIDE DEF x
  <2> QED BY <1>6, <1>8, <2>2, <2>4
<1> QED BY <1>n, <1>5, <1>7, <1>8 DEF try_refresh_rotation_redis

\* The fallback reads the token in force, then writes its own.
LEMMA SequentialKeeps ==
  ASSUME Sound, SessInv, NEW r \in Requests, sequential_get(r) \/ sequential_set(r) PROVE SessInv'
<1>0. Typed /\ now \in Nat /\ held \subseteq Issued BY DEF SessInv, Typed
<1>1. CASE sequential_get(r)
  <2>1. /\ req[r].at = "sequential get"
        /\ UNCHANGED <<now, status, refresh, held, revoked, rotations, expiry, blacklist, logged_out>>
    BY <1>1 DEF sequential_get, At, account, store, history
  <2>2. CASE End(r)
    <3>1. status' \in Statuses BY <1>0, <2>1 DEF Typed
    <3> QED BY <2>1, <2>2, <3>1, EndKeeps
  <2>3. CASE refresh = req[r].token /\ Goto(r, "sequential set")
    <3>0. PICK at \in Places : at = "sequential set" BY DEF Places
    <3>1. PICK x \in Asks : Only(r, x) /\ x.at = "sequential set" /\ x.token = req[r].token /\ x.new = req[r].new
      BY <1>0, <2>3, <3>0, GotoMoves
    <3>2. Typed' BY <1>0, <2>1, <3>1 DEF Typed, Only, Issued
    <3>3. Unshared'
      <4>1. \A p \in Requests : req'[p].at \in PendingAt => req[p].at \in PendingAt /\ req'[p].new = req[p].new
        BY <2>1, <3>1 DEF Only, PendingAt
      <4>2. Issued' = Issued BY <2>1 DEF Issued
      <4> QED BY <2>1, <4>1, <4>2 DEF SessInv, Unshared
    <3>4. Unused' BY <2>1, <2>3, <3>1 DEF SessInv, Unused, Only
    <3>5. InForce' /\ RotationIsSingleUse' BY <2>1 DEF SessInv, InForce, RotationIsSingleUse
    <3>6. req[r].token \in held BY <2>1 DEF SessInv, Carried, CarryAt
    <3>7. Carried' /\ Refused'
      BY <2>1, <3>1, <3>2, <3>6, AccessKept DEF CheckedAt, CarryAt
    <3> QED BY <3>2, <3>3, <3>4, <3>5, <3>7 DEF SessInv
  <2> QED BY <1>1, <2>2, <2>3 DEF sequential_get
<1>2. CASE sequential_set(r)
  <2>1. /\ req[r].at = "sequential set" /\ End(r) /\ refresh' \in {refresh, req[r].new}
        /\ UNCHANGED <<now, status, blacklist, revoked, logged_out>>
    BY <1>2 DEF sequential_set, At, Won, account
  <2>2. Only(r, Idle) /\ Idle \in Asks /\ Idle.at = "idle"
    BY <1>0, <2>1, EndMoves, IdleTyped
  <2>3. CASE UNCHANGED <<held, expiry, rotations>>
    BY <2>1, <2>2, <2>3, PendingInForce
  <2>4. CASE refresh' = req[r].new /\ Won(r, req[r].new, "sequential", expiry)
    <3>1. /\ req[r].new \in Issued \ held /\ req[r].new \notin revoked /\ req[r].token \in held
          /\ \A p \in Requests \ {r} : req[p].at \in PendingAt => req[p].new # req[r].new
      BY <2>1 DEF SessInv, Unshared, Unused, Carried, PendingAt, CarryAt
    <3>n. PICK n \in Issued : n = req[r].new BY <3>1
    <3>2. held' = held \cup {n} /\ refresh' = n BY <2>4, <3>n DEF Won
    <3>3. expiry' \in Seq(Nat) /\ Len(expiry') = Len(expiry) /\ \A t \in held : expiry'[t] = expiry[t]
      <4>1. expiry \in Seq(Nat) /\ n \in 1 .. Len(expiry) /\ now + AccessLife \in Nat
        BY <1>0 DEF Typed, Issued, Sound
      <4>2. expiry' = [expiry EXCEPT ![n] = now + AccessLife] BY <2>4, <3>n DEF Won
      <4>3. held \subseteq 1 .. Len(expiry) /\ n \notin held BY <1>0, <3>1, <3>n DEF Issued
      <4> QED BY <4>1, <4>2, <4>3, ExceptSeq
    <3>4. Issued' = Issued BY <3>3 DEF Issued
    <3>5. Typed' BY <1>0, <2>1, <2>2, <3>2, <3>3, <3>4 DEF Typed, Only
    <3>6. Unshared'
      <4>1. \A p \in Requests : req'[p].at \in PendingAt => p # r /\ req[p].at \in PendingAt /\ req'[p] = req[p]
        BY <2>2 DEF Only, PendingAt
      <4> QED BY <3>1, <3>n, <3>2, <3>4, <4>1 DEF SessInv, Unshared
    <3>7. Unused'
      <4> SUFFICES ASSUME NEW p \in Requests,
                          \/ req'[p].at \in {"login store", "sequential set"}
                          \/ req'[p].at = "sequential get" /\ refresh' = req'[p].token
                   PROVE  req'[p].new \notin revoked' /\ refresh' # req'[p].new
        BY DEF Unused
      <4>1. p # r /\ req'[p] = req[p] BY <2>2 DEF Only
      <4>2. req[p].at \in PendingAt BY <4>1 DEF PendingAt
      <4>3. req[p].at # "sequential get"
        BY <3>1, <3>n, <3>2, <4>1 DEF SessInv, Carried, CarryAt
      <4> QED BY <2>1, <3>1, <3>n, <3>2, <4>1, <4>2, <4>3 DEF SessInv, Unused
    <3> DEFINE w == [token |-> req[r].token, new |-> n, via |-> "sequential", dead |-> req[r].token \in revoked]
    <3>8. rotations' = rotations \cup {w} BY <2>4, <3>n DEF Won
    <3>9. w.token = req[r].token /\ w.via = "sequential" OBVIOUS
    <3> HIDE DEF w
    <3>10. InForce' BY <2>1, <3>1, <3>n, <3>2, <3>8, <3>9 DEF SessInv, InForce
    <3>11. RotationIsSingleUse' BY <3>8, <3>9 DEF SessInv, RotationIsSingleUse
    <3>12. Carried' /\ Refused'
      BY <2>1, <2>2, <3>2, <3>3, <3>5, AccessKept DEF CheckedAt, CarryAt
    <3> QED BY <3>5, <3>6, <3>7, <3>10, <3>11, <3>12 DEF SessInv
  <2> QED BY <1>2, <2>3, <2>4 DEF sequential_set
<1> QED BY <1>1, <1>2
-----------------------------------------------------------------------------
\* Whole seconds fall short by less than a second.
LEMMA RoundedDown ==
  ASSUME NEW d \in Nat, NEW s \in Nat \ {0}
  PROVE  (d \div s) * s \in Nat /\ (d \div s) * s + s > d
<1>1. d \div s \in Nat /\ d % s \in 0 .. (s - 1) /\ d = s * (d \div s) + (d % s) OBVIOUS
<1> DEFINE k == d \div s
           m == d % s
<1>2. k \in Nat /\ m \in 0 .. (s - 1) /\ d = s * k + m BY <1>1
<1> HIDE DEF k, m
<1>3. k * s \in Nat /\ k * s + s > d BY <1>2
<1> QED BY <1>3 DEF k

\* The black list entry of a logout lasts until the last second of the token.
LEMMA LogoutKeeps == ASSUME Sound, SessInv, NEW r \in Requests, logout_blacklist(r) PROVE SessInv'
<1>0. Typed /\ now \in Nat /\ Second \in Nat \ {0} BY DEF SessInv, Typed, Sound
<1>1. /\ req[r].at = "blacklist" /\ req[r].token \in held
      /\ UNCHANGED <<now, status, refresh, held, revoked, rotations, expiry, logged_out>>
  BY DEF logout_blacklist, At, account, history, SessInv, Carried, CarryAt
<1>t. PICK t \in held : t = req[r].token BY <1>1
<1>2. t \in Issued /\ expiry[t] \in Nat /\ blacklist \in Seq(Nat) /\ t \in 1 .. Len(blacklist)
  BY <1>0 DEF Typed, Issued
<1>3. remaining_ttl(t) \in Nat /\ (now + remaining_ttl(t) + Second > expiry[t])
  <2>1. CASE expiry[t] > now
    <3>1. PICK d \in Nat : d = expiry[t] - now BY <1>0, <1>2, <2>1
    <3>2. remaining_ttl(t) = (d \div Second) * Second BY <2>1, <3>1 DEF remaining_ttl
    <3>3. (d \div Second) * Second \in Nat /\ (d \div Second) * Second + Second > d BY <1>0, RoundedDown
    <3>4. PICK m \in Nat : m = (d \div Second) * Second /\ m + Second > d BY <3>3
    <3>5. remaining_ttl(t) = m BY <3>2, <3>4
    <3>6. m + Second > expiry[t] - now BY <3>1, <3>4
    <3>7. now + m + Second > expiry[t] BY <1>0, <1>2, <3>6
    <3> QED BY <3>5, <3>7
  <2>2. CASE ~(expiry[t] > now) BY <1>0, <1>2, <2>2 DEF remaining_ttl
  <2> QED BY <2>1, <2>2
<1>4. \/ blacklist' = blacklist
      \/ blacklist' = [blacklist EXCEPT ![t] = now + remaining_ttl(t)]
  BY <1>t DEF logout_blacklist
<1>5. /\ blacklist' \in Seq(Nat) /\ Len(blacklist') = Len(blacklist)
      /\ \A u \in 1 .. Len(blacklist) : blacklist'[u] = blacklist[u]
                                        \/ (u = t /\ blacklist'[u] = now + remaining_ttl(t))
  <2>1. CASE blacklist' = blacklist BY <1>2, <2>1
  <2>2. CASE blacklist' = [blacklist EXCEPT ![t] = now + remaining_ttl(t)]
    <3>1. PICK e \in Nat : e = now + remaining_ttl(t) BY <1>0, <1>3
    <3>2. blacklist' = [blacklist EXCEPT ![t] = e] BY <2>2, <3>1
    <3>3. /\ [blacklist EXCEPT ![t] = e] \in Seq(Nat) /\ Len([blacklist EXCEPT ![t] = e]) = Len(blacklist)
          /\ \A j \in 1 .. Len(blacklist) : [blacklist EXCEPT ![t] = e][j] = IF j = t THEN e ELSE blacklist[j]
      BY <1>2, ExceptSeq
    <3> QED BY <3>1, <3>2, <3>3
  <2> QED BY <1>4, <2>1, <2>2
<1>6. \A u \in Issued : Listed(u) => Listed(u)'
  BY <1>0, <1>1, <1>2, <1>3, <1>5 DEF Typed, Issued, Listed, Over
<1>7. ASSUME NEW x \in Asks, Only(r, x), x.at \in {"idle", "revoke"}, x.token = t \/ x.at = "idle",
             x.at = "revoke" => blacklist[t]' + Second > expiry[t] \/ Over(t)
      PROVE  SessInv'
  <2>1. Typed' BY <1>0, <1>1, <1>5, <1>7 DEF Typed, Only, Issued
  <2>2. Unshared' BY <1>1, <1>7 DEF SessInv, Unshared, Only, PendingAt, Issued
  <2>3. Carried' BY <1>1, <1>7 DEF SessInv, Carried, Only, CarryAt, LogsOut
  <2>4. Unused' BY <1>1, <1>7 DEF SessInv, Unused, Only
  <2>5. InForce' /\ RotationIsSingleUse' BY <1>1 DEF SessInv, InForce, RotationIsSingleUse
  <2>6. \A u \in logged_out' : Listed(u)' BY <1>0, <1>1, <1>6 DEF SessInv, Refused, Typed
  <2>7. ASSUME NEW p \in Requests, LogsOut(req[p])' PROVE Listed(req[p].token)'
    <3>1. CASE p = r BY <1>1, <1>7, <2>7, <3>1 DEF Only, LogsOut, Listed, Over
    <3>2. CASE p # r
      <4>1. req'[p] = req[p] BY <1>7, <3>2 DEF Only
      <4>2. req[p].token \in Issued /\ Listed(req[p].token)
        BY <1>0, <2>7, <4>1 DEF SessInv, Refused, Carried, LogsOut, Typed
      <4>3. PICK u \in Issued : u = req[p].token BY <4>2
      <4>4. Listed(u)' BY <1>6, <4>2, <4>3
      <4> QED BY <4>1, <4>3, <4>4 DEF Listed, Over
    <3> QED BY <3>1, <3>2
  <2>8. \A p \in Requests : req'[p].at \in CheckedAt /\ req'[p].late /\ req'[p].clean => Over(req[p].token)'
    BY <1>1, <1>7 DEF SessInv, Refused, Only, CheckedAt, Over
  <2>9. Refused' BY <2>6, <2>7, <2>8 DEF Refused
  <2> QED BY <2>1, <2>2, <2>3, <2>4, <2>5, <2>9 DEF SessInv
<1>8. CASE End(r)
  <2>1. Only(r, Idle) /\ Idle \in Asks /\ Idle.at = "idle" BY <1>0, <1>8, EndMoves, IdleTyped
  <2> QED BY <1>7, <2>1
<1>9. CASE Goto(r, "revoke") /\ (IF remaining_ttl(t) > 0 THEN blacklist' = [blacklist EXCEPT ![t] = now + remaining_ttl(t)]
                                 ELSE TRUE)
  <2>0. PICK at \in Places : at = "revoke" BY DEF Places
  <2>1. PICK x \in Asks : Only(r, x) /\ x.at = "revoke" /\ x.token = t
    BY <1>0, <1>9, <1>t, <2>0, GotoMoves
  <2>2. blacklist[t]' + Second > expiry[t] \/ Over(t)
    BY <1>0, <1>2, <1>3, <1>9 DEF Over
  <2> QED BY <1>7, <2>1, <2>2
<1> QED BY <1>8, <1>9, <1>t DEF logout_blacklist

\* A revocation: the token in force is none from here on.
LEMMA RevocationKeeps == ASSUME Sound, SessInv, NEW r \in Requests, revoke_refresh_for_user(r) PROVE SessInv'
<1>0. Typed /\ refresh \in Issued \cup {0} /\ held \subseteq Issued /\ revoked \subseteq Issued /\ 0 \notin Issued
  BY DEF SessInv, Typed, Issued
<1>1. /\ req[r].at = "revoke" /\ refresh' \in {refresh, 0}
      /\ revoked' = IF refresh' = 0 THEN revoked \cup ({refresh} \ {0}) ELSE revoked
      /\ UNCHANGED <<now, status, held, rotations, expiry, blacklist>>
  BY DEF revoke_refresh_for_user, At, account
<1>2. \/ logged_out' = logged_out
      \/ logged_out' = logged_out \cup {req[r].token} /\ LogsOut(req[r])
  BY <1>1 DEF revoke_refresh_for_user, LogsOut
<1>3. LogsOut(req[r]) => req[r].token \in held /\ Listed(req[r].token)
  BY DEF SessInv, Carried, Refused
<1>4. ASSUME NEW x \in Asks, Only(r, x), x.at \in {"idle", "delete user", "invalidate"} PROVE SessInv'
  <2>1. Issued' = Issued BY <1>1 DEF Issued
  <2>2. Typed' BY <1>0, <1>1, <1>2, <1>3, <1>4, <2>1 DEF Typed, Only
  <2>3. Unshared' BY <1>1, <1>4, <2>1 DEF SessInv, Unshared, Only, PendingAt
  <2>4. Carried' BY <1>1, <1>4 DEF SessInv, Carried, Only, CarryAt, LogsOut
  <2>5. Unused'
    <3> SUFFICES ASSUME NEW p \in Requests,
                        \/ req'[p].at \in {"login store", "sequential set"}
                        \/ req'[p].at = "sequential get" /\ refresh' = req'[p].token
                 PROVE  req'[p].new \notin revoked' /\ refresh' # req'[p].new
      BY DEF Unused
    <3>1. p # r /\ req'[p] = req[p] BY <1>4 DEF Only
    <3>2. req[p].new \in Issued BY <3>1 DEF SessInv, Unshared, PendingAt
    <3>3. req[p].at = "sequential get" => req[p].token # 0
      BY <1>0 DEF SessInv, Carried, CarryAt
    <3>4. req[p].new \notin revoked /\ refresh # req[p].new
      BY <1>1, <3>1, <3>3 DEF SessInv, Unused
    <3> QED BY <1>0, <1>1, <3>1, <3>2, <3>4
  <2>6. InForce' BY <1>0, <1>1 DEF SessInv, InForce
  <2>7. RotationIsSingleUse' BY <1>1 DEF SessInv, RotationIsSingleUse
  <2>8. \A u \in logged_out' : Listed(u)'
    BY <1>1, <1>2, <1>3 DEF SessInv, Refused, Listed, Over
  <2>9. \A p \in Requests : /\ LogsOut(req[p])' => Listed(req[p].token)'
                            /\ req'[p].at \in CheckedAt /\ req'[p].late /\ req'[p].clean => Over(req[p].token)'
    BY <1>1, <1>4 DEF SessInv, Refused, Only, CheckedAt, LogsOut, Listed, Over
  <2>10. Refused' BY <2>8, <2>9 DEF Refused
  <2> QED BY <2>2, <2>3, <2>4, <2>5, <2>6, <2>7, <2>10 DEF SessInv
<1>5. CASE End(r)
  <2>1. Only(r, Idle) /\ Idle \in Asks /\ Idle.at = "idle" BY <1>0, <1>5, EndMoves, IdleTyped
  <2> QED BY <1>4, <2>1
<1>6. ASSUME NEW at \in {"delete user", "invalidate"}, Goto(r, at) PROVE SessInv'
  <2>0. at \in Places BY DEF Places
  <2>1. PICK x \in Asks : Only(r, x) /\ x.at = at BY <1>0, <1>6, <2>0, GotoMoves
  <2> QED BY <1>4, <2>1
<1>7. End(r) \/ Goto(r, "delete user") \/ Goto(r, "invalidate")
  BY DEF revoke_refresh_for_user
<1> QED BY <1>5, <1>6, <1>7

\* Time: what is over stays over.
LEMMA TimeKeeps == ASSUME Sound, SessInv, Tick PROVE SessInv'
<1>1. /\ now \in Nat /\ now' = now + 1 /\ expiry \in Seq(Nat)
      /\ UNCHANGED <<status, refresh, held, req, revoked, rotations, expiry, blacklist, logged_out>>
  BY DEF Tick, SessInv, Typed, account, history
<1>2. \A u \in held : (Over(u) => Over(u)') /\ (Listed(u) => Listed(u)')
  <2>1. \A u \in held : expiry[u] \in Nat BY DEF SessInv, Typed, Issued
  <2> QED BY <1>1, <2>1 DEF Over, Listed, Sound
<1>3. Typed' BY <1>1 DEF SessInv, Typed, Issued
<1>4. Unshared' /\ Carried' /\ Unused'
  BY <1>1 DEF SessInv, Unshared, Carried, Unused, Issued
<1>5. InForce' /\ RotationIsSingleUse' BY <1>1 DEF SessInv, InForce, RotationIsSingleUse
<1>6. \A u \in logged_out' : Listed(u)' BY <1>1, <1>2 DEF SessInv, Refused, Typed
<1>7. ASSUME NEW p \in Requests
      PROVE  /\ LogsOut(req[p])' => Listed(req[p].token)'
             /\ req'[p].at \in CheckedAt /\ req'[p].late /\ req'[p].clean => Over(req[p].token)'
  <2>1. LogsOut(req[p]) \/ req[p].at \in CheckedAt => req[p].token \in held
    BY DEF SessInv, Carried, CheckedAt, CarryAt
  <2>2. /\ LogsOut(req[p]) => Listed(req[p].token)
        /\ req[p].at \in CheckedAt /\ req[p].late /\ req[p].clean => Over(req[p].token)
    BY DEF SessInv, Refused
  <2>3. ASSUME NEW u \in held, u = req[p].token
        PROVE  (Listed(u) => Listed(req[p].token)') /\ (Over(u) => Over(req[p].token)')
    BY <1>1, <1>2, <2>3 DEF Listed, Over
  <2> QED BY <1>1, <2>1, <2>2, <2>3 DEF LogsOut
<1>8. Refused' BY <1>6, <1>7 DEF Refused
<1> QED BY <1>3, <1>4, <1>5, <1>8 DEF SessInv
-----------------------------------------------------------------------------
\* The start: one session, nothing in flight.
LEMMA SessInit == ASSUME Sound, Init PROVE SessInv
<1>1. /\ expiry \in Seq(Nat) /\ blacklist \in Seq(Nat) /\ Len(expiry) = 1 /\ Len(blacklist) = 1
      /\ Issued = {1}
  BY DEF Init, Sound, Issued
<1>2. req \in [Requests -> Asks] /\ \A r \in Requests : req[r].at = "idle"
  BY IdleTyped DEF Init
<1>3. Typed BY <1>1, <1>2 DEF Init, Typed, Statuses, Active
<1>4. Unshared /\ Carried /\ Unused
  BY <1>2 DEF Unshared, Carried, Unused, PendingAt, CarryAt, LogsOut
<1>5. InForce /\ RotationIsSingleUse BY DEF Init, InForce, RotationIsSingleUse
<1>6. Refused BY <1>2 DEF Init, Refused, LogsOut, CheckedAt
<1> QED BY <1>3, <1>4, <1>5, <1>6 DEF SessInv

\* Every step keeps the invariant.
LEMMA SessNext == ASSUME Sound, SessInv, [Next]_vars PROVE SessInv'
<1>1. CASE UNCHANGED vars
  <2>1. UNCHANGED <<now, status, refresh, held, req, revoked, rotations, expiry, blacklist, logged_out>>
    BY <1>1 DEF vars, account, store, history
  <2>2. Typed' /\ Unshared' /\ Carried' /\ Unused'
    BY <2>1 DEF SessInv, Typed, Unshared, Carried, Unused, Issued
  <2>3. InForce' /\ RotationIsSingleUse'
    BY <2>1 DEF SessInv, InForce, RotationIsSingleUse
  <2>4. Refused' BY <2>1 DEF SessInv, Refused, LogsOut, Listed, Over
  <2> QED BY <2>2, <2>3, <2>4 DEF SessInv
<1>2. CASE Tick BY <1>2, TimeKeeps
<1>3. ASSUME NEW r \in Requests,
             \/ login(r) \/ login_store(r) \/ login_warm(r)
             \/ refresh_tokens(r) \/ ensure_user_may_refresh(r) \/ refresh_cache(r)
             \/ try_refresh_rotation_redis(r) \/ sequential_get(r) \/ sequential_set(r)
             \/ ensure_jti_not_blacklisted(r) \/ get_auth_cache(r) \/ get_user_by_id(r)
             \/ fill_caches(r) \/ logout_blacklist(r) \/ revoke_refresh_for_user(r)
             \/ update_password(r) \/ delete_user(r) \/ set_user_status_read(r)
             \/ set_user_status(r) \/ invalidate_user_status_cache(r)
      PROVE  SessInv'
  BY <1>3, LoginKeeps, LoginStoreKeeps, LoginWarmKeeps, RefreshReads,
     RotationKeeps, SequentialKeeps,
     BlacklistChecked, AccessReads, LogoutKeeps, RevocationKeeps, AccountSteps
<1> QED BY <1>1, <1>2, <1>3 DEF Next

\* Only a request past the black list, or a rotation, is granted anything.
LEMMA GrantsAreDue == ASSUME Sound, SessInv, [Next]_vars PROVE LogoutStep
<1>1. CASE UNCHANGED grant BY <1>1 DEF LogoutStep
<1>2. ASSUME NEW r \in Requests, Grant(r), req[r].at \in CheckedAt PROVE LogoutStep
  <2>1. req[r].late /\ req[r].clean => now + Second > expiry[req[r].token]
    BY <1>2 DEF SessInv, Refused, Over
  <2>2. CASE req[r].late /\ req[r].clean
    <3>1. grant'.token = req[r].token BY <1>2 DEF Grant
    <3> QED BY <2>1, <2>2, <3>1 DEF LogoutStep
  <2>3. CASE ~(req[r].late /\ req[r].clean)
    <3>1. ~grant'.late BY <1>2, <2>3 DEF Grant
    <3> QED BY <3>1 DEF LogoutStep
  <2> QED BY <2>2, <2>3
<1>3. ASSUME NEW r \in Requests, NEW n, NEW via, NEW issued, Won(r, n, via, issued) PROVE LogoutStep
  <2>1. ~grant'.late BY <1>3 DEF Won
  <2> QED BY <2>1 DEF LogoutStep
<1>4. CASE UNCHANGED vars \/ Tick BY <1>1, <1>4 DEF vars, history, Tick
<1>5. ASSUME NEW r \in Requests,
             \/ login(r) \/ login_store(r) \/ login_warm(r)
             \/ refresh_tokens(r) \/ ensure_user_may_refresh(r) \/ refresh_cache(r)
             \/ sequential_get(r) \/ ensure_jti_not_blacklisted(r) \/ get_user_by_id(r)
             \/ logout_blacklist(r) \/ revoke_refresh_for_user(r)
             \/ update_password(r) \/ delete_user(r) \/ set_user_status_read(r)
             \/ set_user_status(r) \/ invalidate_user_status_cache(r)
      PROVE  UNCHANGED grant
  BY <1>5 DEF history, login, login_store, login_warm, refresh_tokens,
     ensure_user_may_refresh, refresh_cache,
     sequential_get, ensure_jti_not_blacklisted, get_user_by_id, logout_blacklist, revoke_refresh_for_user,
     update_password, delete_user, set_user_status_read, set_user_status, invalidate_user_status_cache
<1>6. ASSUME NEW r \in Requests, get_auth_cache(r) \/ fill_caches(r)
      PROVE  UNCHANGED grant \/ (Grant(r) /\ req[r].at \in CheckedAt)
  BY <1>6 DEF get_auth_cache, fill_caches, At, CheckedAt, history
<1>7. ASSUME NEW r \in Requests, try_refresh_rotation_redis(r) \/ sequential_set(r)
      PROVE  UNCHANGED grant \/ (\E n, via, issued : Won(r, n, via, issued))
  BY <1>7 DEF try_refresh_rotation_redis, sequential_set
<1> QED BY <1>1, <1>2, <1>3, <1>4, <1>5, <1>6, <1>7 DEF Next

(* A refresh token wins the script's comparison at most once, a token that *)
(* a logout, a password change or a suspension has revoked never does, and *)
(* a second rotation is always one of the fallback's: for any number of    *)
(* requests and of failing calls of Redis.                                 *)
THEOREM RotationsAreSingleUse == ASSUME Sound PROVE Spec => []RotationIsSingleUse
<1>1. Init => SessInv BY SessInit
<1>2. SessInv /\ [Next]_vars => SessInv' BY SessNext
<1>3. SessInv => RotationIsSingleUse BY DEF SessInv
<1> QED BY <1>1, <1>2, <1>3, PTL DEF Spec

(* An access token whose logout was answered is refused, except in its last*)
(* second and where the look at the black list failed.                     *)
THEOREM LogoutsStick == ASSUME Sound PROVE Spec => LogoutSticks
<1>1. Init => SessInv BY SessInit
<1>2. SessInv /\ [Next]_vars => SessInv' BY SessNext
<1>3. SessInv /\ [Next]_vars => [LogoutStep]_vars BY GrantsAreDue
<1> QED BY <1>1, <1>2, <1>3, PTL DEF Spec, LogoutSticks

-----------------------------------------------------------------------------
(***************************************************************************)
(* How long a user who is not active any more is let in: one life of a     *)
(* cache entry and two requests, for any number of requests, any lives and *)
(* any calls of Redis that fail.                                           *)
(***************************************************************************)

(* What is assumed of the constants.                                       *)
Bounded == Sound /\ RequestMax \in Nat

Vals == Statuses \cup {""}
Entries == [val : Vals, ends : Nat]

(* A cache entry at time n, with the row at st since s: it is dropped when *)
(* it ends, and one that says ACTIVE of a user who is not was written by a *)
(* request that began before the change.                                   *)
Good(c, n, s, st) ==
    /\ c \in Entries
    /\ c.ends <= n + CacheTtl
    /\ c.val # "" => n <= c.ends
    /\ c.val = Active /\ st # Active => c.ends <= s + RequestMax + CacheTtl

(* A request: it takes RequestMax at most; if it has found the user active *)
(* it began before the change, or while an entry from then was alive.      *)
Knows == {"refresh cache", "fill"}
Logs == {"login store", "login warm"}
Rotates == {"rotate", "sequential get", "sequential set"}
Timely(x, n, s, st) ==
    x.at # "idle" =>
        /\ x.start <= n /\ n <= x.start + RequestMax
        /\ st # Active =>
              /\ (x.at \in Knows /\ x.seen = Active) \/ x.at \in Logs => x.start <= s
              /\ x.at \in Rotates => x.start <= s + RequestMax + CacheTtl

TimeInv ==
    /\ since \in Nat /\ since <= now
    /\ Good(status_cache, now, since, status) /\ Good(auth_cache, now, since, status)
    /\ \A r \in Requests : Timely(req[r], now, since, status)

AllInv == SessInv /\ TimeInv
-----------------------------------------------------------------------------
(* At a fixed time n, with the row at st since s.                          *)

\* The row changes: what was good is good.
LEMMA GoodLater ==
  ASSUME Bounded, NEW c, NEW n \in Nat, NEW s \in Nat, NEW z \in Nat, NEW st, NEW su,
         Good(c, n, s, st), s <= z, su # Active => st # Active \/ z = n
  PROVE  Good(c, n, z, su)
<1>1. CacheTtl \in Nat /\ RequestMax \in Nat BY DEF Bounded, Sound
<1>2. c.ends \in Nat BY DEF Good, Entries
<1>3. PICK e \in Nat : e = c.ends BY <1>2
<1>4. e <= n + CacheTtl => e <= n + RequestMax + CacheTtl BY <1>1
<1>5. e <= s + RequestMax + CacheTtl => e <= z + RequestMax + CacheTtl BY <1>1
<1> QED BY <1>3, <1>4, <1>5 DEF Good

\* The same of a request.
LEMMA TimelyLater ==
  ASSUME Bounded, NEW x \in Asks, NEW n \in Nat, NEW s \in Nat, NEW z \in Nat, NEW st, NEW su,
         Timely(x, n, s, st), s <= z, su # Active => st # Active \/ z = n
  PROVE  Timely(x, n, z, su)
<1>1. CacheTtl \in Nat /\ RequestMax \in Nat BY DEF Bounded, Sound
<1>2. x.start \in Nat BY DEF Asks
<1>3. PICK e \in Nat : e = x.start BY <1>2
<1>4. e <= n => e <= n + RequestMax + CacheTtl BY <1>1
<1>5. e <= s + RequestMax + CacheTtl => e <= z + RequestMax + CacheTtl BY <1>1
<1>6. e <= s => e <= z OBVIOUS
<1> QED BY <1>3, <1>4, <1>5, <1>6 DEF Timely

\* An entry written now.
LEMMA GoodNew ==
  ASSUME Bounded, NEW v \in Vals, NEW n \in Nat, NEW s \in Nat, NEW st,
         v = Active /\ st # Active => n <= s + RequestMax
  PROVE  Good([val |-> v, ends |-> n + CacheTtl], n, s, st)
<1>1. CacheTtl \in Nat /\ RequestMax \in Nat BY DEF Bounded, Sound
<1>2. PICK e \in Nat : e = n + CacheTtl BY <1>1
<1>3. n <= s + RequestMax => e <= s + RequestMax + CacheTtl BY <1>1, <1>2
<1>4. n <= e /\ e <= n + CacheTtl BY <1>1, <1>2
<1> DEFINE c == [val |-> v, ends |-> e]
<1>5. c \in Entries /\ c.val = v /\ c.ends = e BY DEF Entries
<1> HIDE DEF c
<1>6. Good(c, n, s, st) BY <1>3, <1>4, <1>5 DEF Good
<1> QED BY <1>2, <1>6 DEF c

\* No entry at all.
LEMMA GoodNone ==
  ASSUME Bounded, NEW n \in Nat, NEW s \in Nat, NEW st PROVE Good(NoEntry, n, s, st)
<1>1. CacheTtl \in Nat BY DEF Bounded, Sound
<1>2. NoEntry \in Entries /\ NoEntry.val = "" /\ NoEntry.ends = 0 BY DEF NoEntry, Entries, Vals
<1>3. 0 <= n + CacheTtl BY <1>1
<1> QED BY <1>2, <1>3 DEF Good, Active

\* A tick: an entry that ends is dropped, a request that is due has ended.
LEMMA GoodTicks ==
  ASSUME Bounded, NEW c, NEW n \in Nat, NEW s \in Nat, NEW st, Good(c, n, s, st), ~(c.ends <= n + 1)
  PROVE  Good(c, n + 1, s, st)
<1>1. CacheTtl \in Nat BY DEF Bounded, Sound
<1>2. c.ends \in Nat BY DEF Good, Entries
<1>3. PICK e \in Nat : e = c.ends BY <1>2
<1>4. e <= n + CacheTtl => e <= n + 1 + CacheTtl BY <1>1
<1>5. n + 1 <= e BY <1>3
<1> QED BY <1>3, <1>4, <1>5 DEF Good

\* The same of a request: one that is due has ended.
LEMMA TimelyTicks ==
  ASSUME Bounded, NEW x \in Asks, NEW n \in Nat, NEW s \in Nat, NEW st, Timely(x, n, s, st),
         x.at # "idle" => n < x.start + RequestMax
  PROVE  Timely(x, n + 1, s, st)
<1>1. RequestMax \in Nat BY DEF Bounded, Sound
<1>2. x.start \in Nat BY DEF Asks
<1>3. PICK e \in Nat : e = x.start BY <1>2
<1>4. (e <= n => e <= n + 1) /\ (n < e + RequestMax => n + 1 <= e + RequestMax) BY <1>1
<1> QED BY <1>3, <1>4 DEF Timely

\* A request goes on: x becomes y.
LEMMA TimelyMoves ==
  ASSUME Bounded, NEW x \in Asks, NEW y \in Asks, NEW n \in Nat, NEW s \in Nat, NEW st,
         Timely(x, n, s, st), x.at # "idle", y.start = x.start,
         y.at \in Knows /\ y.seen = Active => st = Active,
         y.at \in Logs => x.at \in Logs,
         y.at \in Rotates => x.at \in Rotates \/ (x.at \in Knows /\ x.seen = Active)
  PROVE  Timely(y, n, s, st)
<1>1. CacheTtl \in Nat /\ RequestMax \in Nat BY DEF Bounded, Sound
<1>2. x.start \in Nat BY DEF Asks
<1>3. PICK e \in Nat : e = x.start BY <1>2
<1>4. e <= s => e <= s + RequestMax + CacheTtl BY <1>1
<1> QED BY <1>3, <1>4 DEF Timely

\* A request begins.
LEMMA TimelyBegins ==
  ASSUME Bounded, NEW y \in Asks, NEW n \in Nat, NEW s \in Nat, NEW st, y.start = n,
         y.at \notin Knows, y.at \in Logs => st = Active,
         y.at \in Rotates /\ st # Active => n <= s + RequestMax + CacheTtl
  PROVE  Timely(y, n, s, st)
<1>1. n <= n /\ n <= n + RequestMax BY DEF Bounded
<1> QED BY <1>1 DEF Timely

\* The bound, for who has found the user active and for a hit.
LEMMA InTime ==
  ASSUME Bounded, NEW x \in Asks, NEW n \in Nat, NEW s \in Nat, NEW st, Timely(x, n, s, st), st # Active
  PROVE  /\ (x.at \in Knows /\ x.seen = Active) \/ x.at \in Logs => n <= s + RequestMax
         /\ (x.at \in Knows /\ x.seen = Active) \/ x.at \in Rotates => n <= s + CacheTtl + 2 * RequestMax
<1>1. CacheTtl \in Nat /\ RequestMax \in Nat BY DEF Bounded, Sound
<1>2. x.start \in Nat BY DEF Asks
<1>3. PICK e \in Nat : e = x.start BY <1>2
<1>4. e <= s /\ n <= e + RequestMax => n <= s + RequestMax /\ n <= s + CacheTtl + 2 * RequestMax BY <1>1
<1>5. e <= s + RequestMax + CacheTtl /\ n <= e + RequestMax => n <= s + CacheTtl + 2 * RequestMax
  BY <1>1
<1>6. \A at \in Knows \cup Logs \cup Rotates : at # "idle"
  BY DEF Knows, Logs, Rotates
<1> QED BY <1>3, <1>4, <1>5, <1>6 DEF Timely

\* A hit on an entry that says ACTIVE.
LEMMA HitInTime ==
  ASSUME Bounded, NEW c, NEW n \in Nat, NEW s \in Nat, NEW st, Good(c, n, s, st), c.val = Active, st # Active
  PROVE  n <= s + RequestMax + CacheTtl /\ n <= s + CacheTtl + 2 * RequestMax
<1>1. CacheTtl \in Nat /\ RequestMax \in Nat BY DEF Bounded, Sound
<1>2. c.ends \in Nat BY DEF Good, Entries
<1>3. PICK e \in Nat : e = c.ends BY <1>2
<1>4. n <= e /\ e <= s + RequestMax + CacheTtl BY <1>3 DEF Good, Active
<1>5. n <= s + RequestMax + CacheTtl BY <1>1, <1>4
<1> QED BY <1>1, <1>5
-----------------------------------------------------------------------------
\* What a step may do to the row, and to the requests other than r.
RowStep == /\ now' = now /\ since' \in Nat /\ since <= since' /\ since' <= now
           /\ status' # Active => status # Active \/ since' = now
Others(r) == \A p \in Requests \ {r} : req'[p] = req[p]
CachesGood == Good(status_cache, now, since, status) /\ Good(auth_cache, now, since, status)

\* The numbers the arguments are about.
LEMMA Numbers ==
  ASSUME AllInv PROVE now \in Nat /\ since \in Nat /\ since <= now /\ req \in [Requests -> Asks] /\ Typed
BY DEF AllInv, SessInv, Typed, TimeInv

\* Caches that are left alone.
LEMMA CachesStay ==
  ASSUME Bounded, AllInv, RowStep, UNCHANGED <<status_cache, auth_cache>> PROVE CachesGood'
<1>0. now \in Nat /\ since \in Nat BY Numbers
<1>1. Good(status_cache, now, since, status) /\ Good(auth_cache, now, since, status)
  BY DEF AllInv, TimeInv
<1>2. now' = now /\ since' \in Nat /\ since <= since' /\ (status' # Active => status # Active \/ since' = now)
  BY DEF RowStep
<1>3. Good(status_cache, now, since', status') /\ Good(auth_cache, now, since', status')
  BY <1>0, <1>1, <1>2, GoodLater
<1> QED BY <1>2, <1>3 DEF CachesGood

\* Caches of which some are written.
LEMMA CachesWritten ==
  ASSUME Bounded, AllInv, UNCHANGED <<now, since, status>>, NEW v \in Vals,
         v = Active /\ status # Active => now <= since + RequestMax,
         status_cache' \in {status_cache, Entry(v)}, auth_cache' \in {auth_cache, Entry(v)}
  PROVE  CachesGood' /\ RowStep
<1>0. now \in Nat /\ since \in Nat /\ since <= now BY Numbers
<1>1. Good(status_cache, now, since, status) /\ Good(auth_cache, now, since, status)
  BY DEF AllInv, TimeInv
<1>2. Good([val |-> v, ends |-> now + CacheTtl], now, since, status) BY <1>0, GoodNew
<1>3. Good(Entry(v), now, since, status) BY <1>2 DEF Entry
<1>4. Good(status_cache', now, since, status) /\ Good(auth_cache', now, since, status) BY <1>1, <1>3
<1>5. CachesGood' BY <1>4 DEF CachesGood
<1> QED BY <1>0, <1>5 DEF RowStep

\* What one request does leaves the others in time.
LEMMA TimeKept ==
  ASSUME Bounded, AllInv, SessInv', RowStep, CachesGood', NEW r \in Requests, Others(r),
         Timely(req'[r], now, since', status')
  PROVE  AllInv'
<1>0. now \in Nat /\ since \in Nat /\ req \in [Requests -> Asks] BY Numbers
<1>1. now' = now /\ since' \in Nat /\ since <= since' /\ (status' # Active => status # Active \/ since' = now)
      /\ since' <= now
  BY DEF RowStep
<1>2. ASSUME NEW p \in Requests PROVE Timely(req'[p], now, since', status')
  <2>1. CASE p = r BY <2>1
  <2>2. CASE p # r
    <3>1. req'[p] = req[p] BY <2>2 DEF Others
    <3>2. Timely(req[p], now, since, status) /\ req[p] \in Asks BY <1>0 DEF AllInv, TimeInv
    <3>3. Timely(req[p], now, since', status') BY <1>0, <1>1, <3>2, TimelyLater
    <3> QED BY <3>1, <3>3
  <2> QED BY <2>1, <2>2
<1>3. TimeInv' BY <1>1, <1>2 DEF TimeInv, CachesGood
<1> QED BY <1>3 DEF AllInv

\* The end of a request.
LEMMA EndInTime ==
  ASSUME Bounded, AllInv, SessInv', RowStep, CachesGood', NEW r \in Requests, End(r) PROVE AllInv'
<1>0. Typed BY Numbers
<1>1. Only(r, Idle) /\ Idle.at = "idle" BY <1>0, EndMoves, IdleTyped
<1>2. Others(r) /\ req'[r] = Idle BY <1>1 DEF Only, Others
<1>3. Timely(req'[r], now, since', status') BY <1>1, <1>2 DEF Timely
<1> QED BY <1>2, <1>3, TimeKept

\* A request goes on to at, and no farther than what it knows takes it.
Way(from, seen, at) == /\ from # "idle" /\ at \notin Knows
                       /\ at \in Logs => from \in Logs
                       /\ at \in Rotates => from \in Rotates \/ (from \in Knows /\ seen = Active)

\* The step of a request that goes on as y.
LEMMA MoveInTime ==
  ASSUME Bounded, AllInv, SessInv', RowStep, CachesGood', NEW r \in Requests, NEW y \in Asks,
         req' = [req EXCEPT ![r] = y], y.start = req[r].start, req[r].at # "idle",
         Way(req[r].at, req[r].seen, y.at) \/ (y.at \in Knows /\ y.seen = status /\ status' = status)
  PROVE  AllInv'
<1>0. now \in Nat /\ since \in Nat /\ req \in [Requests -> Asks] /\ req[r] \in Asks BY Numbers
<1>1. Others(r) /\ req'[r] = y BY <1>0 DEF Others
<1>2. now' = now /\ since' \in Nat /\ since <= since' /\ (status' # Active => status # Active \/ since' = now)
  BY DEF RowStep
<1>3. Timely(req[r], now, since, status) BY DEF AllInv, TimeInv
<1>4. Timely(req[r], now, since', status') BY <1>0, <1>2, <1>3, TimelyLater
<1>5. /\ y.at \in Knows /\ y.seen = Active => status' = Active
      /\ y.at \in Logs => req[r].at \in Logs
      /\ y.at \in Rotates => req[r].at \in Rotates \/ (req[r].at \in Knows /\ req[r].seen = Active)
  BY DEF Way, Knows, Logs, Rotates
<1>6. Timely(y, now, since', status') BY <1>0, <1>2, <1>4, <1>5, TimelyMoves
<1> QED BY <1>1, <1>6, TimeKept

\* The same for a step to the next place.
LEMMA GoInTime ==
  ASSUME Bounded, AllInv, SessInv', RowStep, CachesGood', NEW r \in Requests, NEW at \in Places, Goto(r, at),
         Way(req[r].at, req[r].seen, at)
  PROVE  AllInv'
<1>0. req[r] \in Asks BY Numbers
<1> DEFINE y == [req[r] EXCEPT !.at = at]
<1>1. y \in Asks /\ y.at = at /\ y.start = req[r].start BY <1>0 DEF Asks
<1>2. req' = [req EXCEPT ![r] = y] BY DEF Goto
<1> HIDE DEF y
<1>3. Way(req[r].at, req[r].seen, y.at) /\ req[r].at # "idle" BY <1>1 DEF Way
<1> QED BY <1>1, <1>2, <1>3, MoveInTime

\* The same for a read of the row.
LEMMA SeeInTime ==
  ASSUME Bounded, AllInv, SessInv', RowStep, CachesGood', NEW r \in Requests, NEW at \in Knows,
         req' = [req EXCEPT ![r].at = at, ![r].seen = status], req[r].at # "idle", status' = status
  PROVE  AllInv'
<1>0. req[r] \in Asks /\ req \in [Requests -> Asks] /\ status \in Statuses BY Numbers DEF Typed
<1> DEFINE y == [req[r] EXCEPT !.at = at, !.seen = status]
<1>1. y \in Asks /\ y.at = at /\ y.start = req[r].start /\ y.seen = status
  BY <1>0 DEF Asks, Knows, Places
<1>2. req' = [req EXCEPT ![r] = y] BY <1>0 DEF Asks
<1> HIDE DEF y
<1> QED BY <1>1, <1>2, MoveInTime

\* A request begins.
LEMMA BeginInTime ==
  ASSUME Bounded, AllInv, SessInv', RowStep, CachesGood', UNCHANGED <<status, since>>,
         NEW r \in Requests, NEW op \in Ops, NEW q \in Asks, Begin(r, op, q),
         q.at \notin Knows, q.at \in Logs => status = Active,
         q.at \in Rotates /\ status # Active => now <= since + RequestMax + CacheTtl
  PROVE  AllInv'
<1>0. now \in Nat /\ since \in Nat /\ req \in [Requests -> Asks] BY Numbers
<1> DEFINE y == [q EXCEPT !.op = op, !.start = now]
<1>1. y \in Asks /\ y.at = q.at /\ y.start = now BY <1>0 DEF Asks
<1>2. req' = [req EXCEPT ![r] = y] BY DEF Begin
<1> HIDE DEF y
<1>3. Others(r) /\ req'[r] = y BY <1>0, <1>2 DEF Others
<1>4. Timely(y, now, since, status) BY <1>0, <1>1, TimelyBegins
<1>5. Timely(req'[r], now, since', status') BY <1>3, <1>4
<1> QED BY <1>3, <1>5, TimeKept
-----------------------------------------------------------------------------
\* A step that leaves row, clock and caches alone.
LEMMA Quiet ==
  ASSUME Bounded, AllInv, UNCHANGED <<now, status, since, status_cache, auth_cache>>
  PROVE  RowStep /\ CachesGood'
<1>1. RowStep BY Numbers DEF RowStep
<1> QED BY <1>1, CachesStay

\* Login: the status was ACTIVE when it began.
LEMMA LoginInTime ==
  ASSUME Bounded, AllInv, SessInv', NEW r \in Requests, login(r) \/ login_store(r) \/ login_warm(r)
  PROVE  AllInv'
<1>0. now \in Nat /\ since \in Nat /\ req[r] \in Asks /\ Typed /\ Timely(req[r], now, since, status)
  BY Numbers DEF AllInv, TimeInv
<1>1. CASE login(r)
  <2>n. PICK n \in Nat : n = Len(expiry) + 1 BY <1>0, HeldTyped
  <2> DEFINE q == [Idle EXCEPT !.at = "login store", !.new = n]
  <2>1. q \in Asks /\ q.at = "login store" BY IdleTyped DEF Idle, Asks, Places
  <2>2. Begin(r, "login", q) /\ status = Active BY <1>1, <2>n DEF login
  <2> HIDE DEF q
  <2>3. UNCHANGED <<now, status, since, status_cache, auth_cache>>
    BY <1>1, <2>2 DEF login, Begin, account
  <2>4. RowStep /\ CachesGood' BY <2>3, Quiet
  <2>5. PICK op \in Ops : op = "login" BY DEF Ops
  <2>6. Begin(r, op, q) BY <2>2, <2>5
  <2>7. q.at \notin Knows /\ q.at \notin Rotates BY <2>1 DEF Knows, Rotates
  <2> QED BY <2>1, <2>2, <2>3, <2>4, <2>6, <2>7, BeginInTime
<1>2. CASE login_store(r)
  <2>1. UNCHANGED <<now, status, since, status_cache, auth_cache>> /\ req[r].at = "login store"
    BY <1>2 DEF login_store, At, account
  <2>2. RowStep /\ CachesGood' BY <2>1, Quiet
  <2>3. CASE End(r) BY <2>2, <2>3, EndInTime
  <2>4. CASE Goto(r, "login warm")
    <3>1. PICK at \in Places : at = "login warm" BY DEF Places
    <3>2. Way(req[r].at, req[r].seen, at)
      BY <2>1, <3>1 DEF Way, Knows, Logs, Rotates
    <3>3. Goto(r, at) BY <2>4, <3>1
    <3> QED BY <2>2, <3>2, <3>3, GoInTime
  <2> QED BY <1>2, <2>3, <2>4 DEF login_store
<1>3. CASE login_warm(r)
  <2>1. /\ UNCHANGED <<now, status, since, auth_cache>> /\ req[r].at = "login warm" /\ End(r)
        /\ status_cache' \in {status_cache, Entry(Active)}
    BY <1>3 DEF login_warm, At, account, Put
  <2>2. status # Active => now <= since + RequestMax
    BY <1>0, <2>1, InTime DEF Logs
  <2>3. PICK v \in Vals : v = Active BY DEF Vals, Statuses
  <2>4. RowStep /\ CachesGood' BY <2>1, <2>2, <2>3, CachesWritten
  <2> QED BY <2>1, <2>4, EndInTime
<1> QED BY <1>1, <1>2, <1>3

\* The status check of a refresh: a hit of the cache, or the row.
LEMMA RefreshInTime ==
  ASSUME Bounded, AllInv, SessInv', NEW r \in Requests,
         refresh_tokens(r) \/ ensure_user_may_refresh(r) \/ refresh_cache(r)
  PROVE  AllInv'
<1>0. now \in Nat /\ since \in Nat /\ req[r] \in Asks /\ Typed /\ Timely(req[r], now, since, status)
      /\ Good(status_cache, now, since, status)
  BY Numbers DEF AllInv, TimeInv
<1>1. CASE refresh_tokens(r)
  <2>1. PICK t \in held, at \in {"rotate", "refresh db"} :
            /\ Begin(r, "refresh", [Idle EXCEPT !.token = t, !.at = at])
            /\ at = "rotate" => status_cache.val = Active
            /\ UNCHANGED <<account, store, expiry, held, history>>
    BY <1>1 DEF refresh_tokens, Cached
  <2> DEFINE q == [Idle EXCEPT !.token = t, !.at = at]
  <2>2. t \in Nat BY <1>0, HeldTyped
  <2>3. q \in Asks /\ q.at = at BY <2>2, IdleTyped DEF Idle, Asks, Places
  <2>4. Begin(r, "refresh", q) BY <2>1
  <2> HIDE DEF q
  <2>5. UNCHANGED <<now, status, since, status_cache, auth_cache>>
    BY <2>1, <2>4 DEF Begin, account, store
  <2>6. RowStep /\ CachesGood' BY <2>5, Quiet
  <2>7. PICK op \in Ops : op = "refresh" BY DEF Ops
  <2>8. Begin(r, op, q) BY <2>4, <2>7
  <2>9. q.at \notin Knows /\ q.at \notin Logs BY <2>3 DEF Knows, Logs
  <2>10. at = "rotate" /\ status # Active => now <= since + RequestMax + CacheTtl
    BY <1>0, <2>1, HitInTime
  <2>11. q.at \in Rotates => at = "rotate" BY <2>3 DEF Rotates
  <2> QED BY <2>3, <2>5, <2>6, <2>8, <2>9, <2>10, <2>11, BeginInTime
<1>2. CASE ensure_user_may_refresh(r)
  <2>1. UNCHANGED <<now, status, since, status_cache, auth_cache>> /\ req[r].at = "refresh db"
    BY <1>2 DEF ensure_user_may_refresh, At, account, store
  <2>2. RowStep /\ CachesGood' BY <2>1, Quiet
  <2>3. CASE End(r) BY <2>2, <2>3, EndInTime
  <2>4. CASE req' = [req EXCEPT ![r].at = "refresh cache", ![r].seen = status]
    BY <2>1, <2>2, <2>4, SeeInTime DEF Knows
  <2> QED BY <1>2, <2>3, <2>4 DEF ensure_user_may_refresh
<1>3. CASE refresh_cache(r)
  <2>1. /\ UNCHANGED <<now, status, since, auth_cache>> /\ req[r].at = "refresh cache"
        /\ status_cache' \in {status_cache, Entry(req[r].seen)}
    BY <1>3 DEF refresh_cache, At, account, Put
  <2>2. req[r].seen = Active /\ status # Active => now <= since + RequestMax
    BY <1>0, <2>1, InTime DEF Knows
  <2>3. PICK v \in Vals : v = req[r].seen BY <1>0 DEF Vals, Asks
  <2>4. RowStep /\ CachesGood' BY <2>1, <2>2, <2>3, CachesWritten
  <2>5. CASE End(r) BY <2>4, <2>5, EndInTime
  <2>6. CASE Goto(r, "rotate") /\ req[r].seen = Active
    <3>1. PICK at \in Places : at = "rotate" BY DEF Places
    <3>2. Way(req[r].at, req[r].seen, at)
      BY <2>1, <2>6, <3>1 DEF Way, Knows, Logs, Rotates
    <3>3. Goto(r, at) BY <2>6, <3>1
    <3> QED BY <2>4, <3>2, <3>3, GoInTime
  <2> QED BY <1>3, <2>5, <2>6 DEF refresh_cache, may_refresh
<1> QED BY <1>1, <1>2, <1>3

\* The rotation itself.
LEMMA RotationInTime ==
  ASSUME Bounded, AllInv, SessInv', NEW r \in Requests,
         try_refresh_rotation_redis(r) \/ sequential_get(r) \/ sequential_set(r)
  PROVE  AllInv'
<1>0. req[r] \in Asks /\ req \in [Requests -> Asks] /\ Typed BY Numbers
<1>1. UNCHANGED <<now, status, since, status_cache, auth_cache>> /\ req[r].at \in Rotates
  BY DEF try_refresh_rotation_redis, sequential_get, sequential_set, At,
     account, store, Rotates
<1>2. RowStep /\ CachesGood' BY <1>1, Quiet
<1>3. CASE End(r) BY <1>2, <1>3, EndInTime
<1>4. CASE Goto(r, "sequential set")
  <2>1. PICK at \in Places : at = "sequential set" BY DEF Places
  <2>2. Way(req[r].at, req[r].seen, at)
    BY <1>1, <2>1 DEF Way, Knows, Logs, Rotates
  <2>3. Goto(r, at) BY <1>4, <2>1
  <2> QED BY <1>2, <2>2, <2>3, GoInTime
<1>5. CASE req' = [req EXCEPT ![r].at = "sequential get", ![r].new = Len(expiry) + 1]
  <2>n. PICK n \in Nat : n = Len(expiry) + 1 BY <1>0, HeldTyped
  <2> DEFINE y == [req[r] EXCEPT !.at = "sequential get", !.new = n]
  <2>1. y \in Asks /\ y.at = "sequential get" /\ y.start = req[r].start
    BY <1>0 DEF Asks, Places
  <2>2. req' = [req EXCEPT ![r] = y] BY <1>0, <1>5, <2>n DEF Asks
  <2> HIDE DEF y
  <2>3. Way(req[r].at, req[r].seen, y.at) /\ req[r].at # "idle"
    BY <1>1, <2>1 DEF Way, Knows, Logs, Rotates
  <2> QED BY <1>2, <2>1, <2>2, <2>3, MoveInTime
<1> QED
  BY <1>3, <1>4, <1>5 DEF try_refresh_rotation_redis, sequential_get,
     sequential_set, Won

\* A request that only passes places where nothing was found.
Plain == Places \ (Knows \cup Logs \cup Rotates)

\* Such a step keeps the invariant.
LEMMA PlainInTime ==
  ASSUME Bounded, AllInv, SessInv', RowStep, CachesGood', NEW r \in Requests, NEW at \in Plain, Goto(r, at),
         req[r].at # "idle"
  PROVE  AllInv'
<1>1. at \in Places /\ Way(req[r].at, req[r].seen, at) BY DEF Plain, Way
<1> QED BY <1>1, GoInTime

\* The check of an access token begins.
LEMMA CheckInTime ==
  ASSUME Bounded, AllInv, SessInv', NEW r \in Requests, ensure_jti_not_blacklisted(r) PROVE AllInv'
<1>0. Typed BY Numbers
<1>1. PICK op \in Authenticated, t \in held, clean \in BOOLEAN :
          /\ Begin(r, op, [Idle EXCEPT !.at = "snapshot", !.token = t, !.clean = clean,
                                       !.late = t \in logged_out])
          /\ UNCHANGED <<account, store, expiry, held, history>>
  BY DEF ensure_jti_not_blacklisted
<1> DEFINE z(l) == [Idle EXCEPT !.at = "snapshot", !.token = t, !.clean = clean, !.late = l]
<1>2. t \in Nat BY <1>0, HeldTyped
<1>3. \A l \in BOOLEAN : z(l) \in Asks /\ z(l).at = "snapshot"
  BY <1>2, IdleTyped DEF Idle, Asks, Places
<1>4. PICK l \in BOOLEAN : Begin(r, op, z(l))
  <2>1. CASE t \in logged_out
    <3>1. (t \in logged_out) = TRUE BY <2>1
    <3>2. Begin(r, op, z(TRUE)) BY <1>1, <3>1
    <3> QED BY <3>2
  <2>2. CASE t \notin logged_out
    <3>1. (t \in logged_out) = FALSE BY <2>2
    <3>2. Begin(r, op, z(FALSE)) BY <1>1, <3>1
    <3> QED BY <3>2
  <2> QED BY <2>1, <2>2
<1> DEFINE q == z(l)
<1>5. q \in Asks /\ q.at = "snapshot" /\ Begin(r, op, q) BY <1>3, <1>4
<1> HIDE DEF q
<1>6. UNCHANGED <<now, status, since, status_cache, auth_cache>> BY <1>1, <1>5 DEF Begin, account, store
<1>7. RowStep /\ CachesGood' BY <1>6, Quiet
<1>8. q.at \notin Knows \cup Logs \cup Rotates BY <1>5 DEF Knows, Logs, Rotates
<1>9. op \in Ops BY DEF Authenticated, Ops
<1> QED BY <1>5, <1>6, <1>7, <1>8, <1>9, BeginInTime

\* What is left of a request whose access was granted.
LEMMA GrantInTime ==
  ASSUME Bounded, AllInv, SessInv', RowStep, CachesGood', NEW r \in Requests, Grant(r), req[r].at # "idle"
  PROVE  AllInv'
<1>1. CASE End(r) BY <1>1, EndInTime
<1>2. CASE Goto(r, After(req[r].op))
  <2>1. After(req[r].op) \in Plain
    BY DEF After, Plain, Places, Knows, Logs, Rotates
  <2>2. PICK at \in Plain : at = After(req[r].op) BY <2>1
  <2>3. Goto(r, at) BY <1>2, <2>2
  <2> QED BY <2>3, PlainInTime
<1> QED BY <1>1, <1>2 DEF Grant

\* The snapshot cache, the row, and the fill of both caches.
LEMMA AccessInTime ==
  ASSUME Bounded, AllInv, SessInv', NEW r \in Requests, get_auth_cache(r) \/ get_user_by_id(r) \/ fill_caches(r)
  PROVE  AllInv'
<1>0. now \in Nat /\ since \in Nat /\ req[r] \in Asks /\ Timely(req[r], now, since, status)
  BY Numbers DEF AllInv, TimeInv
<1>1. CASE get_auth_cache(r)
  <2>1. UNCHANGED <<now, status, since, status_cache, auth_cache>> /\ req[r].at = "snapshot"
    BY <1>1 DEF get_auth_cache, At, account, store
  <2>2. RowStep /\ CachesGood' BY <2>1, Quiet
  <2>3. CASE Grant(r) BY <2>1, <2>2, <2>3, GrantInTime
  <2>4. CASE End(r) BY <2>2, <2>4, EndInTime
  <2>5. CASE Goto(r, "user row")
    <3>1. PICK at \in Plain : at = "user row"
      BY DEF Plain, Places, Knows, Logs, Rotates
    <3>2. Goto(r, at) BY <2>5, <3>1
    <3> QED BY <2>1, <2>2, <3>2, PlainInTime
  <2> QED BY <1>1, <2>3, <2>4, <2>5 DEF get_auth_cache
<1>2. CASE get_user_by_id(r)
  <2>1. UNCHANGED <<now, status, since, status_cache, auth_cache>> /\ req[r].at = "user row"
    BY <1>2 DEF get_user_by_id, At, account, store
  <2>2. RowStep /\ CachesGood' BY <2>1, Quiet
  <2>3. CASE End(r) BY <2>2, <2>3, EndInTime
  <2>4. CASE req' = [req EXCEPT ![r].at = "fill", ![r].seen = status]
    BY <2>1, <2>2, <2>4, SeeInTime DEF Knows
  <2> QED BY <1>2, <2>3, <2>4 DEF get_user_by_id
<1>3. CASE fill_caches(r)
  <2>1. /\ UNCHANGED <<now, status, since>> /\ req[r].at = "fill"
        /\ status_cache' \in {status_cache, Entry(req[r].seen)}
        /\ auth_cache' \in {auth_cache, Entry(req[r].seen)}
    BY <1>3 DEF fill_caches, At, account
  <2>2. req[r].seen = Active /\ status # Active => now <= since + RequestMax
    BY <1>0, <2>1, InTime DEF Knows
  <2>3. PICK v \in Vals : v = req[r].seen BY <1>0 DEF Vals, Asks
  <2>4. RowStep /\ CachesGood' BY <2>1, <2>2, <2>3, CachesWritten
  <2>5. CASE Grant(r) BY <2>1, <2>4, <2>5, GrantInTime
  <2>6. CASE End(r) BY <2>4, <2>6, EndInTime
  <2> QED BY <1>3, <2>5, <2>6 DEF fill_caches
<1> QED BY <1>1, <1>2, <1>3

\* Logout, revocation and the steps on the row: a change of the row is now.
LEMMA RowInTime ==
  ASSUME Bounded, AllInv, SessInv', NEW r \in Requests,
         \/ logout_blacklist(r) \/ revoke_refresh_for_user(r) \/ update_password(r) \/ delete_user(r)
         \/ set_user_status(r)
  PROVE  AllInv'
<1>0. now \in Nat /\ since \in Nat /\ since <= now BY Numbers
<1>1. UNCHANGED <<now, status_cache, auth_cache>> /\ req[r].at # "idle"
  BY DEF logout_blacklist, revoke_refresh_for_user, update_password,
     delete_user, set_user_status, At, store
<1>2. UNCHANGED <<status, since>> \/ since' = now
  BY DEF logout_blacklist, revoke_refresh_for_user, update_password,
     delete_user, set_user_status, account
<1>3. RowStep BY <1>0, <1>1, <1>2 DEF RowStep
<1>4. CachesGood' BY <1>1, <1>3, CachesStay
<1>5. \/ End(r)
      \/ \E at \in Plain : Goto(r, at)
  <2>1. {"revoke", "delete user", "invalidate"} \subseteq Plain
    BY DEF Plain, Places, Knows, Logs, Rotates
  <2>2. End(r) \/ Goto(r, "revoke") \/ Goto(r, "delete user") \/ Goto(r, "invalidate")
    BY DEF logout_blacklist, revoke_refresh_for_user, update_password,
       delete_user, set_user_status
  <2> QED BY <2>1, <2>2
<1>6. CASE End(r) BY <1>3, <1>4, <1>6, EndInTime
<1>7. ASSUME NEW at \in Plain, Goto(r, at) PROVE AllInv' BY <1>1, <1>3, <1>4, <1>7, PlainInTime
<1> QED BY <1>5, <1>6, <1>7

\* The admin's read, and the DEL of both keys.
LEMMA AdminInTime ==
  ASSUME Bounded, AllInv, SessInv', NEW r \in Requests,
         set_user_status_read(r) \/ invalidate_user_status_cache(r)
  PROVE  AllInv'
<1>0. now \in Nat /\ since \in Nat /\ since <= now BY Numbers
<1>1. CASE set_user_status_read(r)
  <2>1. PICK op \in {"suspend", "activate"} :
            /\ Begin(r, op, [Idle EXCEPT !.at = "set status"])
            /\ UNCHANGED <<account, store, expiry, held, history>>
    BY <1>1 DEF set_user_status_read
  <2> DEFINE q == [Idle EXCEPT !.at = "set status"]
  <2>2. q \in Asks /\ q.at = "set status" BY IdleTyped DEF Idle, Asks, Places
  <2>3. Begin(r, op, q) /\ op \in Ops BY <2>1 DEF Ops
  <2> HIDE DEF q
  <2>4. UNCHANGED <<now, status, since, status_cache, auth_cache>>
    BY <2>1, <2>3 DEF Begin, account, store
  <2>5. RowStep /\ CachesGood' BY <2>4, Quiet
  <2>6. q.at \notin Knows \cup Logs \cup Rotates BY <2>2 DEF Knows, Logs, Rotates
  <2> QED BY <2>2, <2>3, <2>4, <2>5, <2>6, BeginInTime
<1>2. CASE invalidate_user_status_cache(r)
  <2>1. End(r) /\ UNCHANGED <<now, status, since>> BY <1>2 DEF invalidate_user_status_cache, At, account
  <2>2. RowStep BY <1>0, <2>1 DEF RowStep
  <2>3. CASE UNCHANGED <<status_cache, auth_cache>>
    <3>1. CachesGood' BY <2>2, <2>3, CachesStay
    <3> QED BY <2>1, <2>2, <3>1, EndInTime
  <2>4. CASE status_cache' = NoEntry /\ auth_cache' = NoEntry
    <3>1. Good(NoEntry, now, since, status) BY <1>0, GoodNone
    <3>2. CachesGood' BY <2>1, <2>4, <3>1 DEF CachesGood
    <3> QED BY <2>1, <2>2, <3>2, EndInTime
  <2> QED BY <1>2, <2>3, <2>4 DEF invalidate_user_status_cache
<1> QED BY <1>1, <1>2

\* Time passes only while every request has time left.
LEMMA TickInTime == ASSUME Bounded, AllInv, SessInv', Tick PROVE AllInv'
<1>0. now \in Nat /\ since \in Nat /\ since <= now /\ req \in [Requests -> Asks] BY Numbers
<1>1. now' = now + 1 /\ UNCHANGED <<status, since, req>> BY DEF Tick, account
<1>2. Good(status_cache, now, since, status) /\ Good(auth_cache, now, since, status)
  BY DEF AllInv, TimeInv
<1>3. now + 1 \in Nat /\ since <= now + 1 BY <1>0
<1>4. Good(NoEntry, now + 1, since, status) BY <1>0, <1>3, GoodNone
<1>5. Good(status_cache', now + 1, since, status)
  <2>1. status_cache' = IF status_cache.ends <= now + 1 THEN NoEntry ELSE status_cache
    BY <1>1 DEF Tick, Expire
  <2>2. CASE status_cache.ends <= now + 1 BY <1>4, <2>1, <2>2
  <2>3. CASE ~(status_cache.ends <= now + 1)
    <3>1. Good(status_cache, now + 1, since, status)
      BY <1>0, <1>2, <2>3, GoodTicks
    <3> QED BY <2>1, <2>3, <3>1
  <2> QED BY <2>2, <2>3
<1>6. Good(auth_cache', now + 1, since, status)
  <2>1. auth_cache' = IF auth_cache.ends <= now + 1 THEN NoEntry ELSE auth_cache
    BY <1>1 DEF Tick, Expire
  <2>2. CASE auth_cache.ends <= now + 1 BY <1>4, <2>1, <2>2
  <2>3. CASE ~(auth_cache.ends <= now + 1)
    <3>1. Good(auth_cache, now + 1, since, status) BY <1>0, <1>2, <2>3, GoodTicks
    <3> QED BY <2>1, <2>3, <3>1
  <2> QED BY <2>2, <2>3
<1>7. ASSUME NEW r \in Requests PROVE Timely(req[r], now + 1, since, status)
  <2>1. req[r] \in Asks /\ Timely(req[r], now, since, status) BY <1>0 DEF AllInv, TimeInv
  <2>2. req[r].at # "idle" => now < req[r].start + RequestMax
    <3>1. req[r].at # "idle" => req[r] # Idle BY IdleTyped
    <3> QED BY <3>1 DEF Tick
  <2> QED BY <1>0, <2>1, <2>2, TimelyTicks
<1>8. TimeInv' BY <1>0, <1>1, <1>3, <1>5, <1>6, <1>7 DEF TimeInv
<1> QED BY <1>8 DEF AllInv
-----------------------------------------------------------------------------
\* The start.
LEMMA TimeInit == ASSUME Bounded, Init PROVE AllInv
<1>1. SessInv BY SessInit DEF Bounded
<1>2. now = 0 /\ since = 0 /\ status_cache = NoEntry /\ auth_cache = NoEntry BY DEF Init
<1>3. Good(NoEntry, 0, 0, status) BY GoodNone
<1>4. \A r \in Requests : req[r].at = "idle" BY IdleTyped DEF Init
<1>5. TimeInv BY <1>2, <1>3, <1>4 DEF TimeInv, Timely
<1> QED BY <1>1, <1>5 DEF AllInv

\* Every step keeps the invariant.
LEMMA TimeNext == ASSUME Bounded, AllInv, [Next]_vars PROVE AllInv'
<1>0. SessInv' BY SessNext DEF Bounded, AllInv
<1>1. CASE UNCHANGED vars
  <2>1. UNCHANGED <<now, status, since, status_cache, auth_cache, req>> BY <1>1 DEF vars, account, store
  <2>2. TimeInv' BY <2>1 DEF AllInv, TimeInv
  <2> QED BY <1>0, <2>2 DEF AllInv
<1>2. CASE Tick BY <1>0, <1>2, TickInTime
<1>3. ASSUME NEW r \in Requests,
             \/ login(r) \/ login_store(r) \/ login_warm(r)
             \/ refresh_tokens(r) \/ ensure_user_may_refresh(r) \/ refresh_cache(r)
             \/ try_refresh_rotation_redis(r) \/ sequential_get(r) \/ sequential_set(r)
             \/ ensure_jti_not_blacklisted(r) \/ get_auth_cache(r) \/ get_user_by_id(r)
             \/ fill_caches(r) \/ logout_blacklist(r) \/ revoke_refresh_for_user(r)
             \/ update_password(r) \/ delete_user(r) \/ set_user_status_read(r)
             \/ set_user_status(r) \/ invalidate_user_status_cache(r)
      PROVE  AllInv'
  BY <1>0, <1>3, LoginInTime, RefreshInTime, RotationInTime, CheckInTime,
     AccessInTime, RowInTime, AdminInTime
<1> QED BY <1>1, <1>2, <1>3 DEF Next

\* A grant comes from a rotation, from a hit, or from a fill that saw ACTIVE.
LEMMA GrantsInTime == ASSUME Bounded, AllInv, [Next]_vars PROVE SuspensionStep
<1>0. now \in Nat /\ since \in Nat /\ req \in [Requests -> Asks] BY Numbers
<1>1. CASE UNCHANGED grant BY <1>1 DEF SuspensionStep
<1>2. ASSUME NEW r \in Requests, status # Active,
             req[r].at \in Rotates \/ (req[r].at = "fill" /\ req[r].seen = Active)
      PROVE  now <= since + CacheTtl + 2 * RequestMax
  <2>1. req[r] \in Asks /\ Timely(req[r], now, since, status) BY <1>0 DEF AllInv, TimeInv
  <2> QED BY <1>0, <1>2, <2>1, InTime DEF Knows
<1>3. ASSUME auth_cache.val = Active, status # Active PROVE now <= since + CacheTtl + 2 * RequestMax
  <2>1. Good(auth_cache, now, since, status) BY DEF AllInv, TimeInv
  <2> QED BY <1>0, <1>3, <2>1, HitInTime
<1>4. CASE UNCHANGED vars \/ Tick BY <1>1, <1>4 DEF vars, history, Tick
<1>5. ASSUME NEW r \in Requests,
             \/ login(r) \/ login_store(r) \/ login_warm(r)
             \/ refresh_tokens(r) \/ ensure_user_may_refresh(r) \/ refresh_cache(r)
             \/ sequential_get(r) \/ ensure_jti_not_blacklisted(r) \/ get_user_by_id(r)
             \/ logout_blacklist(r) \/ revoke_refresh_for_user(r)
             \/ update_password(r) \/ delete_user(r) \/ set_user_status_read(r)
             \/ set_user_status(r) \/ invalidate_user_status_cache(r)
      PROVE  UNCHANGED grant
  BY <1>5 DEF history, login, login_store, login_warm, refresh_tokens,
     ensure_user_may_refresh, refresh_cache,
     sequential_get, ensure_jti_not_blacklisted, get_user_by_id, logout_blacklist, revoke_refresh_for_user,
     update_password, delete_user, set_user_status_read, set_user_status, invalidate_user_status_cache
<1>6. ASSUME NEW r \in Requests, get_auth_cache(r)
      PROVE  UNCHANGED grant \/ auth_cache.val = Active
  BY <1>6 DEF get_auth_cache, history, Cached
<1>7. ASSUME NEW r \in Requests, fill_caches(r)
      PROVE  UNCHANGED grant \/ (req[r].at = "fill" /\ req[r].seen = Active)
  BY <1>7 DEF fill_caches, At, history
<1>8. ASSUME NEW r \in Requests, try_refresh_rotation_redis(r) \/ sequential_set(r)
      PROVE  req[r].at \in Rotates
  BY <1>8 DEF try_refresh_rotation_redis, sequential_set, At, Rotates
<1>9. ASSUME NEW r \in Requests,
             get_auth_cache(r) \/ fill_caches(r) \/ try_refresh_rotation_redis(r) \/ sequential_set(r)
      PROVE  SuspensionStep
  <2>1. status # Active => UNCHANGED grant \/ now <= since + CacheTtl + 2 * RequestMax
    BY <1>2, <1>3, <1>6, <1>7, <1>8, <1>9
  <2> QED BY <2>1 DEF SuspensionStep
<1> QED BY <1>1, <1>4, <1>5, <1>9 DEF Next

(* A user who is suspended or has withdrawn is let in, by access token or  *)
(* by refresh, for at most one life of a cache entry and two requests after*)
(* the change of the row, however requests interleave with it and whichever*)
(* invalidations of the caches fail.                                       *)
THEOREM SuspensionsTakeEffect == ASSUME Bounded PROVE Spec => SuspensionTakesEffect
<1>1. Init => AllInv BY TimeInit
<1>2. AllInv /\ [Next]_vars => AllInv' BY TimeNext
<1>3. AllInv /\ [Next]_vars => [SuspensionStep]_vars BY GrantsInTime
<1> QED BY <1>1, <1>2, <1>3, PTL DEF Spec, SuspensionTakesEffect
=============================================================================

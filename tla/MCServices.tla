----------------------------- MODULE MCServices -----------------------------
(***************************************************************************)
(* Instances for TLC of the components that share no state in the models.  *)
(* They are checked side by side in one run: Init chooses the part that a  *)
(* behaviour is about, and the variables v1 .. v17 are those of that part, *)
(* the ones it has no use for staying 0.                                   *)
(***************************************************************************)
EXTENDS Naturals, Sequences, FiniteSets

CONSTANTS NoRow, Nobody   \* model values

VARIABLES part, v1, v2, v3, v4, v5, v6, v7, v8, v9, v10, v11, v12, v13, v14, v15, v16, v17
vars == <<part, v1, v2, v3, v4, v5, v6, v7, v8, v9, v10, v11, v12, v13, v14, v15, v16, v17>>

above4 == <<v5, v6, v7, v8, v9, v10, v11, v12, v13, v14, v15, v16, v17>>
above8 == <<v9, v10, v11, v12, v13, v14, v15, v16, v17>>
above9 == <<v10, v11, v12, v13, v14, v15, v16, v17>>
above10 == <<v11, v12, v13, v14, v15, v16, v17>>
above11 == <<v12, v13, v14, v15, v16, v17>>
unused11 == v12 = 0 /\ v13 = 0 /\ v14 = 0 /\ v15 = 0 /\ v16 = 0 /\ v17 = 0
unused10 == v11 = 0 /\ unused11
unused9 == v10 = 0 /\ unused10
unused8 == v9 = 0 /\ unused9
unused4 == v5 = 0 /\ v6 = 0 /\ v7 = 0 /\ v8 = 0 /\ unused8
-----------------------------------------------------------------------------
(* A post by `a' with a comment by the withdrawn user `w', who also liked  *)
(* both.                                                                   *)
post1 == <<"post", 1>>
comment1 == <<"comment", 1>>
PostRow == [author |-> "a", deleted |-> FALSE, blinded |-> FALSE, comments |-> 1, likes |-> 1,
            reports |-> 0, version |-> 1, tags |-> {}]
CommentRow == [post |-> post1, author |-> "w", parent |-> 0, deleted |-> FALSE, blinded |-> FALSE,
               likes |-> 1, reports |-> 0]
Seed == [k \in {post1, comment1} \cup {<<"like", t, "w">> : t \in {post1, comment1}}
               \cup {<<"user", u>> : u \in {"a", "b", "w"}} |->
            CASE k = post1 -> PostRow [] k = comment1 -> CommentRow [] OTHER -> TRUE]

TagLists == {<<>>, <<"#Dog", "cat", "dog">>, <<"cat", "dog">>, <<"!!">>}
TagName == [t \in {"#Dog", "dog", "cat", "!!"} |->
               CASE t = "cat" -> "cat" [] t = "!!" -> "" [] OTHER -> "dog"]
Together == {{"create_comment", "delete_comment", "delete_post", "moderate"},
             {"like", "unlike", "delete_post", "purge"},
             {"report", "reset", "moderate", "purge"},
             {"update_post", "delete_post", "moderate"},
             {"block", "like", "create_comment", "purge"},
             {"like", "unlike", "delete_comment", "report"}}
Writers == {"a", "b"}
Withdrawn == {"w"}
Tx == {"x1", "x2"}

C == INSTANCE Community WITH
        Users <- Writers, Gone <- Withdrawn, Tx <- Tx, Threshold <- 2, Seed <- Seed,
        TagLists <- TagLists, TagName <- TagName, Scenarios <- Together,
        MaxRequests <- 3, MaxComments <- 3, NoRow <- NoRow, None <- Nobody,
        db <- v1, ov <- v2, req <- v3, begun <- v4, ops <- v5, sent <- v6, past <- v7, answer <- v8

(* Rotation does not depend on how long tokens live, only on the expiry of *)
(* the cached status; suspension and logout are about time.                *)
Brief == {{"login", "refresh"}, {"password", "refresh"}}
Long == {{"use", "logout"}, {"refresh", "suspend"}, {"withdraw", "activate"}, {"update_me", "suspend"}}

Sessions == Brief \cup Long
Ticks == [ops \in Sessions |-> IF ops \in Brief THEN 1 ELSE 4]
InFlight == {"q1", "q2"}

S == INSTANCE Sessions WITH
        Requests <- InFlight, Scenarios <- Sessions, MaxTime <- Ticks,
        AccessLife <- 3, CacheTtl <- 1, Second <- 2, RequestMax <- 1, MaxRequests <- 3, MaxFaults <- 1,
        now <- v1, status <- v2, since <- v3, refresh <- v4, status_cache <- v5, auth_cache <- v6,
        blacklist <- v7, expiry <- v8, held <- v9, req <- v10, begun <- v11, faults <- v12, ops <- v13,
        rotations <- v14, revoked <- v15, logged_out <- v16, grant <- v17

Traffic == {{"chat", "login"}, {"presign"}}
Process == {"i1"}
Client == {"c1"}

L == INSTANCE RateLimit WITH
        Instances <- Process, Clients <- Client, Traffic <- Traffic,
        Window <- 2, Limit <- 1, MaxKeys <- 1, CloseAt <- 2, MaxTime <- 3, MaxChecks <- 4,
        now <- v1, shared <- v2, memory <- v3, gate <- v4, admitted <- v5, forgotten <- v6,
        checks <- v7, traffic <- v8

(* A user's WebSocket on each of two instances, two event streams of one   *)
(* user, a direct message and two notifications.                           *)
Place == [a1 |-> [kind |-> "ws", user |-> "a", inst |-> "i1"],
          b2 |-> [kind |-> "ws", user |-> "b", inst |-> "i2"],
          n1 |-> [kind |-> "sse", user |-> "b", inst |-> "i2"],
          n2 |-> [kind |-> "sse", user |-> "b", inst |-> "i2"]]
Post == [dm |-> [kind |-> "ws", inst |-> "i1", targets |-> <<"b", "a">>],
         nt |-> [kind |-> "sse", inst |-> "i1", targets |-> <<"b">>],
         nu |-> [kind |-> "sse", inst |-> "i2", targets |-> <<"b">>]]
Present == {{"a1", "dm"}, {"b2", "dm"}, {"n1", "nt"}, {"n1", "n2", "nu"}}
Processes == {"i1", "i2"}
Streams == DOMAIN Place
Messages == DOMAIN Post

R == INSTANCE Realtime WITH
        Instances <- Processes, Sockets <- Streams, Messages <- Messages, Place <- Place, Post <- Post,
        Scenarios <- Present,
        Cap <- 1, QueueMax <- 1, WatchdogIdle <- 0, WatchdogPong <- 0, MaxFaults <- 1,
        handler <- v1, client <- v2, registry <- v3, queue <- v4, got <- v5, fan <- v6, inbox <- v7,
        listener <- v8, faults <- v9, expected <- v10, excused <- v11

Members == {1, 2}
Owner == [s1 |-> 1, s2 |-> 2, q |-> 2]
Sockets == DOMAIN Owner
Peers == [s1 |-> <<2, 2>>, s2 |-> <<1, 1>>, q |-> <<1>>]
Rest == {"q"}
Doings == {{"block", "fail"}, {"withdraw"}, {"read"}, {"mark"}}

H == INSTANCE Chat WITH
        Users <- Members, Sockets <- Sockets, Owner <- Owner, Peers <- Peers, Rest <- Rest, Reader <- 1,
        CacheMax <- 1, Limit <- 1, Scenarios <- Doings, MaxChanges <- 2,
        db <- v1, tx <- v2, room_cache <- v3, todo <- v4, clock <- v5, changes <- v6, scenario <- v7,
        reader <- v8, marking <- v9, late <- v10
-----------------------------------------------------------------------------
(* Rows 3, 4 and 5 reply to row 1, and the author of row 2 was purged.     *)
Rows == 1 .. 5
Row(x, state, likes, age, reports) ==
    [state |-> state, author |-> <<"a", "nobody", "b", "a", "b">>[x], likes |-> likes, age |-> age,
     reports |-> reports]
Walked == {[x \in Rows |-> Row(x, IF x = 5 THEN "none" ELSE "shown", 0, 0, 0)]}
Trees == {[x \in Rows |-> Row(x, IF x = 5 THEN "shown" ELSE state[x], IF x = 1 THEN n ELSE 0, 0, 0)] :
             state \in [1 .. 4 -> {"shown", "deleted", "blinded"}], n \in {0, 1}}
Reported == {[x \in Rows |-> Row(x, IF x = hidden THEN "blinded" ELSE "shown", 0, 0,
                                 IF x > 3 THEN reports[x - 2] ELSE reports[x])] :
                hidden \in Rows, reports \in [1 .. 3 -> 0 .. 2]}
Ranked == {[x \in Rows |-> Row(x, IF x > k THEN "none" ELSE "shown", IF x = 1 THEN n ELSE 0,
                               IF x > 3 THEN 0 ELSE age[x], 0)] :
                k \in 0 .. 3, n \in {0, 1}, age \in [1 .. 3 -> 0 .. 2]}

Tagged == {t \in Ranked : t[1].likes = 0 /\ t[3].age = 0}

Tables == [walk |-> Walked, pages |-> Trees \cup Reported, trending |-> Ranked, hashtags |-> Tagged]
Lists == DOMAIN Tables
Changes == [walk |-> 2, pages |-> 0, trending |-> 1, hashtags |-> 1]
Tags == <<{1, 2}, {2}, {3}, {}, {}>>
Parent == <<0, 0, 1, 1, 1>>
Authors == {"a", "b", "nobody"}
Filters == {Rows, {1, 3, 5}}
Sizes == {1, 2}
Walks == {"latest", "oldest"}

F == INSTANCE Feeds WITH
        Rows <- Rows, Parent <- Parent, Authors <- Authors, None <- "nobody", Sizes <- Sizes,
        Previews <- 1, MinPosts <- 2, PoolSize <- 3, TopLimit <- 2, Tags <- Tags, MinTags <- 2,
        Walks <- Walks, Filters <- Filters,
        Scenarios <- Lists, Tables <- Tables, MaxChanges <- Changes,
        table <- v1, blocked <- v2, walk <- v3, steady <- v4, pool <- v5, top <- v6, scenario <- v7,
        changes <- v8

Choose(d) == [op |-> "set", keep |-> {}, new |-> {}, rep |-> d]
Save(keep, new, d) == [op |-> "upsert", keep |-> keep, new |-> new, rep |-> d]
Inputs == [p |-> {Choose("a"), Choose("b"), Save({"a"}, {}, "none"), Save({"a", "b"}, {"c"}, "c")},
           q |-> {Choose("a"), Choose("b"), Save({"b"}, {"d"}, "b"), Save({"a", "c"}, {"d"}, "c")},
           r |-> {Choose("b"), Choose("c"), Choose("d")}]
Saves == DOMAIN Inputs
Pets == {"a", "b", "c", "d"}
Owned == {"a", "b"}

D == INSTANCE Dogs WITH
        Ids <- Pets, Existing <- Owned, Requests <- Saves, Inputs <- Inputs,
        dogs <- v1, ov <- v2, req <- v3, asked <- v4

Cleanup == <<"orphan_post_image_cleanup", "withdrawn_user_purge">>

P == INSTANCE Lifespan WITH
        Instances <- Processes, Jobs <- Cleanup, Sweep <- 1, Attempts <- 2, None <- Nobody,
        MaxPasses <- 2, MaxFaults <- 1,
        at <- v1, tries <- v2, open <- v3, pass <- v4, passes <- v5, busy <- v6, lock <- v7,
        outlived <- v8, faults <- v9
-----------------------------------------------------------------------------
Init == \/ part = "community" /\ C!Init /\ unused8
        \/ part = "sessions" /\ S!Init
        \/ part = "limits" /\ L!Init /\ unused8
        \/ part = "realtime" /\ R!Init /\ unused11
        \/ part = "chat" /\ H!Init /\ unused10
        \/ part = "feeds" /\ F!Init /\ unused8
        \/ part = "dogs" /\ D!Init /\ unused4
        \/ part = "lifespan" /\ P!Init /\ unused9

Next == \/ part = "community" /\ C!Next /\ UNCHANGED <<part, above8>>
        \/ part = "sessions" /\ S!Next /\ UNCHANGED part
        \/ part = "limits" /\ L!Next /\ UNCHANGED <<part, above8>>
        \/ part = "realtime" /\ R!Next /\ UNCHANGED <<part, above11>>
        \/ part = "chat" /\ H!Next /\ UNCHANGED <<part, above10>>
        \/ part = "feeds" /\ F!Next /\ UNCHANGED <<part, above8>>
        \/ part = "dogs" /\ D!Next /\ UNCHANGED <<part, above4>>
        \/ part = "lifespan" /\ P!Next /\ UNCHANGED <<part, above9>>

Spec == Init /\ [][Next]_vars
-----------------------------------------------------------------------------
(* Every part keeps its types.                                             *)
TypeOK == /\ part = "community" => C!TypeOK
          /\ part = "sessions" => S!TypeOK
          /\ part = "limits" => L!TypeOK
          /\ part = "realtime" => R!TypeOK
          /\ part = "chat" => H!TypeOK
          /\ part = "feeds" => F!TypeOK
          /\ part = "dogs" => D!TypeOK
          /\ part = "lifespan" => P!TypeOK

(* Counters and published events agree with the committed rows.            *)
DisplayMatchesRows == part = "community" => C!DisplayMatchesRows
(* The report that reaches the threshold hides its target as it commits.   *)
BlindedAtThreshold == [][part = "community" => C!BlindedStep]_vars
(* An edit overwrites no version it has not read and loses no hashtag.     *)
EditsAreExact == [][part = "community" => C!EditStep]_vars
(* The script lets one of the requests with a refresh token win, and none  *)
(* once the token is revoked.                                              *)
RotationIsSingleUse == part = "sessions" => S!RotationIsSingleUse
(* A suspended or withdrawn user is let in for a bounded time only.        *)
SuspensionTakesEffect == [][part = "sessions" => S!SuspensionStep]_vars
(* A logged-out access token is refused from the answer of the logout on.  *)
LogoutSticks == [][part = "sessions" => S!LogoutStep]_vars
(* A store admits at most two limits' worth in any window's length.        *)
BurstBounded == part = "limits" => L!BurstBounded
(* A message reaches each socket of its targets, and once.                 *)
ReachedOnce == part = "realtime" => R!ReachedOnce
(* The registries hold the sockets that are served, within the cap.        *)
RegistryIsTrue == part = "realtime" => R!RegistryIsTrue
(* A cached room is the pair's room and is no way around a block.          *)
RoomCacheIsSafe == part = "chat" => H!RoomCacheIsSafe
(* Reading on after a reconnect leaves no message out.                     *)
ResyncHasNoHoles == part = "chat" => H!ResyncHasNoHoles
(* Marking a room as read lowers the reader's own unread count only.       *)
ReadingIsOnesOwn == [][part = "chat" => H!ReadingStep]_vars
(* A client paging by keyset sees each row once and misses none that stays.*)
WalkIsExact == part = "feeds" => F!WalkIsExact
(* Pages by offset tile their list; a trending answer honours the blocks.  *)
ListsAreExact == part = "feeds" => F!ListsAreExact
(* An owner has at most one representative dog, the one asked for last.    *)
OneRepresentative == part = "dogs" => D!OneRepresentative
(* A cleanup job runs alone under its lock, and on open connections.       *)
JobsRunProtected == part = "lifespan" => P!JobsRunProtected
=============================================================================

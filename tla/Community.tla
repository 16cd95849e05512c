----------------------------- MODULE Community -----------------------------
(***************************************************************************)
(* Comments, likes, reports, moderation, blocks, post edits and deletes    *)
(* and the purge of withdrawn users.  Every request is one PostgreSQL      *)
(* transaction at READ COMMITTED on rows it shares with the others.        *)
(*                                                                         *)
(* `db' is the committed database, a function from row keys to rows.  A    *)
(* transaction's writes are kept in ov[x] until it commits, and the rows   *)
(* it has written are the rows it has locked.  A statement sees what is    *)
(* committed when it runs with the transaction's own writes on top (View)  *)
(* and waits while another transaction holds a row it is to write (Free).  *)
(* A statement that waits re-reads the row once it has it, so its WHERE    *)
(* clause is a guard of the step in which it runs; what it has aggregated  *)
(* from other rows it does not read again, so that is a step of its own.   *)
(* A statement takes all its rows at once, and one that takes the last     *)
(* lock of a transaction is one step with the commit.                      *)
(***************************************************************************)
EXTENDS Naturals, FiniteSets, Sequences, SequencesExt, Relation

CONSTANTS
    Users,        \* users that send requests
    Gone,         \* users withdrawn long enough ago to be purged
    TagLists,     \* the hashtag lists an edit may carry, as the client wrote them
    TagName,      \* what a hashtag as written is normalised to ("" when nothing is left)
    Tx,           \* database sessions serving requests
    Threshold,    \* settings.REPORT_BLIND_THRESHOLD
    Seed,         \* the committed rows at the start
    Scenarios,    \* the sets of operations a behaviour may be made of
    MaxRequests,  \* bound: requests started
    MaxComments,  \* bound: comments ever created
    NoRow,        \* the mark of a row a transaction has deleted
    None          \* SQL NULL

VARIABLES
    db,         \* committed rows
    ov,         \* ov[x]: the rows transaction x has written and not committed
    req,        \* req[x]: the request session x serves and the statement it is at
    begun,      \* requests started
    ops,        \* the operations of this behaviour
    sent,       \* notification events published
    past,       \* history: "moderated" once a comment was blinded or unblinded,
                \* "overlapped" once two purges ran at the same time
    answer      \* answer[x]: how the last post edit of session x ended

vars == <<db, ov, req, begun, ops, sent, past, answer>>

(* Row keys.  The target of a like or a report is the key of a post or a   *)
(* comment (likes/service.py _Target, reports/targets.py ModerationTarget).*)
Comment(c) == <<"comment", c>>
Link(t, u) == <<"like", t, u>>
Block(u, v) == <<"block", u, v>>
Report(t, u, n) == <<"report", t, u, n>>
Notif(to, cause) == <<"notif", to, cause>>
User(u) == <<"user", u>>
Tag(n) == <<"tag", n>>
Rows(v, table) == {k \in DOMAIN v : k[1] = table}
Targets(v) == Rows(v, "post") \cup Rows(v, "comment")
IsPost(t) == t[1] = "post"

NewPost(u) == [author |-> u, deleted |-> FALSE, blinded |-> FALSE, comments |-> 0,
               likes |-> 0, reports |-> 0, version |-> 1, tags |-> {}]
NewComment(p, u, parent) == [post |-> p, author |-> u, parent |-> parent, deleted |-> FALSE,
                             blinded |-> FALSE, likes |-> 0, reports |-> 0]

EmptyRows == [k \in {} |-> None]
One(k, row) == [j \in {k} |-> row]
Overlay(base, rows) ==
    [k \in {j \in DOMAIN base \cup DOMAIN rows : j \notin DOMAIN rows \/ rows[j] # NoRow} |->
        IF k \in DOMAIN rows THEN rows[k] ELSE base[k]]
Merge(rows, more) ==
    [k \in DOMAIN rows \cup DOMAIN more |-> IF k \in DOMAIN rows THEN rows[k] ELSE more[k]]
View(x) == Overlay(db, ov[x])

(* A request: the operation and its next statement, who sends it, the row  *)
(* it is about, a number it has read or was given, the author it has read, *)
(* and for an edit the hashtags with how many of them are in.  A purge has *)
(* the ids it selected in who, the tables whose counters it has still to   *)
(* lower in names, and by how much in t.                                   *)
Idle == [op |-> "idle", at |-> "idle", u |-> None, t |-> None, n |-> 0, who |-> None,
         names |-> <<>>, done |-> 0]
Busy(op, at, u, t, n, who) ==
    [Idle EXCEPT !.op = op, !.at = at, !.u = u, !.t = t, !.n = n, !.who = who]

Alive(v, k) == k \in DOMAIN v /\ ~v[k].deleted
author_not_blocked_clause(v, author, viewer) == Block(viewer, author) \notin DOMAIN v
post_visible(v, p, viewer) ==
    Alive(v, p) /\ ~v[p].blinded /\ author_not_blocked_clause(v, v[p].author, viewer)
reply_visible(v, c, viewer) ==
    Alive(v, c) /\ ~v[c].blinded /\ author_not_blocked_clause(v, v[c].author, viewer)

live_comments(v, p) == {c \in Rows(v, "comment") : v[c].post = p /\ ~v[c].deleted}
live_reports(v, t) == {k \in Rows(v, "report") : k[2] = t /\ ~v[k].deleted}
links_of(v, t) == {l \in Rows(v, "like") : l[2] = t}
purgeable(v) == {u \in Gone : User(u) \in DOMAIN v}
liked_by(v, us, table) == {t \in Rows(v, table) : \E u \in us : Link(t, u) \in DOMAIN v}

(* The rows a DELETE of users us reaches through the foreign keys: links,  *)
(* reports, blocks and notifications go, posts and comments lose the author*)
owned(v, us) == {k \in DOMAIN v : \/ k[1] = "like" /\ k[3] \in us
                                  \/ k[1] = "report" /\ k[3] \in us
                                  \/ k[1] = "block" /\ {k[2], k[3]} \cap us # {}
                                  \/ k[1] = "notif" /\ k[2] \in us
                                  \/ k[1] = "user" /\ k[2] \in us}
authored(v, us) == {k \in Targets(v) : v[k].author \in us}

(* The rows the next statement of x writes.                                *)
Wants(x) ==
    LET r == req[x] IN
    CASE r.at \in {"insert_comment", "count", "reset", "flush"} -> {r.t}
      [] r.at \in {"link", "unlink"} -> {Link(r.t, r.u)}
      [] r.at = "set_count" -> {View(x)[r.t].post}
      [] r.at = "comments" -> live_comments(db, r.t)
      [] r.at = "likes" -> links_of(db, r.t)
      [] r.at = "tag" -> {Tag(r.names[r.done + 1])} \ DOMAIN View(x)
      [] r.at = "decrement" -> DOMAIN r.t
      [] r.at = "delete_users" -> owned(db, r.who) \cup authored(db, r.who)
      [] r.at = "block" -> {Block(r.u, r.t[2])}
      [] OTHER -> {}
FreeOf(x, K) == \A y \in Tx \ {x} : DOMAIN ov[y] \cap K = {}

Starts(x, op) == /\ req[x] = Idle /\ op \in ops /\ begun < MaxRequests
                 /\ begun' = begun + 1
                 /\ UNCHANGED <<ops, sent>>
Continues(x, op, at) == /\ req[x].op = op /\ req[x].at = at
                        /\ FreeOf(x, Wants(x))
                        /\ UNCHANGED <<begun, ops, sent>>
Goto(x, r) == req' = [req EXCEPT ![x] = r]
Step(x, at) == Goto(x, [req[x] EXCEPT !.at = at])
Write(x, rows) == /\ ov' = [ov EXCEPT ![x] = Merge(rows, @)]
                  /\ UNCHANGED <<db, past, answer>>
Reads == UNCHANGED <<db, ov, past, answer>>
(* Leaving `async with db.begin()': the writes become visible, the row     *)
(* locks are released.                                                     *)
Commit(x, rows) == /\ db' = Overlay(db, Merge(rows, ov[x]))
                   /\ ov' = [ov EXCEPT ![x] = EmptyRows]
Commits(x, rows) == Commit(x, rows) /\ UNCHANGED <<past, answer>>
(* Leaving it with an exception: nothing the transaction wrote remains.    *)
Rollback(x) == /\ ov' = [ov EXCEPT ![x] = EmptyRows]
               /\ Goto(x, Idle)
               /\ UNCHANGED <<db, past>>
Max0(n) == IF n < 0 THEN 0 ELSE n
-----------------------------------------------------------------------------
(* CommentService.create_comment.  The post's visibility and author and the*)
(* parent are read first; the insert, the count and the notification row   *)
(* follow in the same transaction, and the event is published after the    *)
(* commit.  A blinded parent is not rejected.                              *)
parent_ok(v, p, parent) ==
    \/ parent = 0
    \/ /\ Alive(v, Comment(parent))
       /\ v[Comment(parent)].post = p
       /\ v[Comment(parent)].parent = 0

Creating == {x \in Tx : req[x].at = "insert_comment"}

create_comment_check(x) ==
    \E u \in Users, p \in Rows(db, "post"),
       parent \in {0} \cup {k[2] : k \in Rows(db, "comment")} :
        /\ Starts(x, "create_comment")
        /\ Cardinality(Rows(db, "comment")) + Cardinality(Creating) < MaxComments
        /\ post_visible(db, p, u) /\ parent_ok(db, p, parent)
        /\ Goto(x, Busy("create_comment", "insert_comment", u, p, parent, db[p].author))
        /\ Reads

(* NotificationService.record: a row for the author of the target, unless  *)
(* the author is gone or is the one who acts.                              *)
notifies(r) == r.who \notin {None, r.u}
record(r, cause) == IF notifies(r) THEN One(Notif(r.who, cause), FALSE) ELSE EmptyRows
AfterCommit(x, cause) ==
    Goto(x, IF notifies(req[x])
            THEN [req[x] EXCEPT !.at = "publish", !.t = Notif(req[x].who, cause)]
            ELSE Idle)

(* The recipient was purged since it was read: the foreign key fails.      *)
recipient_exists(r) == notifies(r) => User(r.who) \in DOMAIN db

increment_comment_count(row) == [row EXCEPT !.comments = @ + 1]

create_comment_insert(x) ==
    LET r == req[x]
        c == Comment(Cardinality(Rows(db, "comment")) + 1)
    IN  /\ Continues(x, "create_comment", "insert_comment")
        /\ IF recipient_exists(r)
           THEN /\ Commits(x, Merge(One(c, NewComment(r.t, r.u, r.n)),
                              Merge(One(r.t, increment_comment_count(db[r.t])), record(r, c))))
                /\ AfterCommit(x, c)
           ELSE Rollback(x) /\ UNCHANGED answer

publish_after_commit(x) ==
    /\ req[x].at = "publish"
    /\ sent' = sent \cup {req[x].t}
    /\ Goto(x, Idle)
    /\ Reads /\ UNCHANGED <<begun, ops>>

(* CommentService.delete_comment, for the author or an administrator: the  *)
(* guarded UPDATE yields the post only if the comment was on display, and  *)
(* only then the count goes down.                                          *)
decrement_comment_count(row) == [row EXCEPT !.comments = Max0(@ - 1)]

delete_comment(x) ==
    \E c \in Rows(db, "comment") :
        LET gone == One(c, [db[c] EXCEPT !.deleted = TRUE]) IN
        /\ Starts(x, "delete_comment")
        /\ FreeOf(x, {c}) /\ Alive(db, c)
        /\ IF db[c].blinded
           THEN Commits(x, gone) /\ UNCHANGED req
           ELSE Write(x, gone) /\ Goto(x, Busy("delete_comment", "count", None, db[c].post, 0, None))

delete_comment_count(x) ==
    /\ Continues(x, "delete_comment", "count")
    /\ Commits(x, One(req[x].t, decrement_comment_count(db[req[x].t])))
    /\ Goto(x, Idle)
-----------------------------------------------------------------------------
(* PostService.delete_post: the post row, then its live comments, then its *)
(* like rows, in one transaction.                                          *)
soft_delete(x) ==
    \E p \in Rows(db, "post") :
        /\ Starts(x, "delete_post")
        /\ FreeOf(x, {p}) /\ Alive(db, p)
        /\ Write(x, One(p, [db[p] EXCEPT !.deleted = TRUE]))
        /\ Goto(x, Busy("delete_post", "comments", None, p, 0, None))

soft_delete_by_post(x) ==
    /\ Continues(x, "delete_post", "comments")
    /\ Write(x, [c \in live_comments(db, req[x].t) |-> [db[c] EXCEPT !.deleted = TRUE]])
    /\ Step(x, "likes")

delete_by_post_id(x) ==
    /\ Continues(x, "delete_post", "likes")
    /\ Commits(x, [l \in links_of(db, req[x].t) |-> NoRow])
    /\ Goto(x, Idle)

(* PostService.update_post.  The post is read with its version and a       *)
(* version the client sent is compared with it; the hashtags are replaced; *)
(* the ORM writes the row only when the transaction commits (the session   *)
(* has autoflush off) with the version it read in the WHERE clause, which  *)
(* is after the handler that turns StaleDataError into a conflict.         *)
normalize_hashtags(raw) ==
    LET names == SelectSeq([i \in DOMAIN raw |-> TagName[raw[i]]], LAMBDA s : s # "")
        First(i) == \A j \in 1 .. i - 1 : names[j] # names[i]
        kept == SetToSortSeq({i \in DOMAIN names : First(i)}, <)
    IN  [i \in DOMAIN kept |-> names[kept[i]]]

update_post_read(x) ==
    \E p \in Rows(db, "post"), raw \in TagLists \cup {None} : \E version \in 0 .. db[p].version :
        LET names == IF raw = None THEN None ELSE normalize_hashtags(raw) IN
        /\ Starts(x, "update_post")
        /\ Alive(db, p) /\ ~db[p].blinded
        /\ UNCHANGED <<db, ov, past>>
        /\ IF version \in {0, db[p].version}
           THEN /\ Goto(x, [Busy("update_post", IF names \in {None, <<>>} THEN "flush" ELSE "tag",
                                 None, p, db[p].version, None) EXCEPT !.names = names])
                /\ UNCHANGED answer
           ELSE answer' = [answer EXCEPT ![x] = "conflict"] /\ UNCHANGED req

(* sync_post_hashtags inserts the names in the order of the list, waiting  *)
(* for a transaction that is inserting the same name.                      *)
sync_post_hashtags(x) ==
    LET r == req[x] IN
    /\ Continues(x, "update_post", "tag")
    /\ Write(x, [k \in Wants(x) |-> TRUE])
    /\ Goto(x, [r EXCEPT !.done = @ + 1, !.at = IF r.done + 1 = Len(r.names) THEN "flush" ELSE "tag"])

(* ... then reads back which of them exist and links those.                *)
linked_tags(v, names) == {n \in Range(names) : Tag(n) \in DOMAIN v}
new_tags(x) == IF req[x].names = None THEN db[req[x].t].tags ELSE linked_tags(View(x), req[x].names)

\* Mutated: no version column in the WHERE clause.
last_edit_wins(row, read) == TRUE

version_matches(row, read) == row.version = read

update_post_flush(x) ==
    LET r == req[x] IN
    /\ Continues(x, "update_post", "flush")
    /\ UNCHANGED past
    /\ IF version_matches(db[r.t], r.n)
       THEN /\ Commit(x, One(r.t, [db[r.t] EXCEPT !.version = r.n + 1, !.tags = new_tags(x)]))
            /\ answer' = [answer EXCEPT ![x] = "ok"]
            /\ Goto(x, Idle)
       ELSE Rollback(x) /\ answer' = [answer EXCEPT ![x] = "error"]
-----------------------------------------------------------------------------
(* LikeService._like and _unlike, for posts and comments.                  *)
like_check(x) ==
    \E u \in Users, t \in Targets(db) :
        /\ Starts(x, "like")
        /\ IF IsPost(t) THEN post_visible(db, t, u) ELSE reply_visible(db, t, u)
        /\ Goto(x, Busy("like", "link", u, t, 0, db[t].author))
        /\ Reads

\* Mutated: the insert's ON CONFLICT answer is ignored.
like_counts_again(x) ==
    /\ Continues(x, "like", "link")
    /\ Write(x, One(Link(req[x].t, req[x].u), TRUE)) /\ Step(x, "count")

like_create(x) ==
    LET l == Link(req[x].t, req[x].u) IN
    /\ Continues(x, "like", "link")
    /\ IF l \in DOMAIN db
       THEN Commits(x, EmptyRows) /\ Goto(x, Idle)
       ELSE Write(x, One(l, TRUE)) /\ Step(x, "count")

increment_like_count(row) == [row EXCEPT !.likes = @ + 1]
decrement_like_count(row) == [row EXCEPT !.likes = Max0(@ - 1)]

like_count(x) ==
    LET r == req[x] IN
    /\ Continues(x, "like", "count")
    /\ IF recipient_exists(r)
       THEN /\ Commits(x, Merge(One(r.t, increment_like_count(db[r.t])), record(r, Link(r.t, r.u))))
            /\ AfterCommit(x, Link(r.t, r.u))
       ELSE Rollback(x) /\ UNCHANGED answer

unlike_check(x) ==
    \E u \in Users, t \in Targets(db) :
        /\ Starts(x, "unlike")
        /\ Alive(db, t) /\ (IsPost(t) => ~db[t].blinded)
        /\ Goto(x, Busy("unlike", "unlink", u, t, 0, None))
        /\ Reads

unlike_delete(x) ==
    LET l == Link(req[x].t, req[x].u) IN
    /\ Continues(x, "unlike", "unlink")
    /\ IF l \in DOMAIN db
       THEN Write(x, One(l, NoRow)) /\ Step(x, "count")
       ELSE Commits(x, EmptyRows) /\ Goto(x, Idle)

unlike_count(x) ==
    LET t == req[x].t IN
    /\ Continues(x, "unlike", "count")
    /\ Commits(x, One(t, decrement_like_count(db[t])))
    /\ Goto(x, Idle)
-----------------------------------------------------------------------------
(* ReportService.submit_report: the counter, the report row and, at the    *)
(* threshold, the blind, in one transaction.  For a comment a blind or an  *)
(* unblind that changes the row is followed by a recount of the post.      *)
increment_report_count(row) == [row EXCEPT !.reports = @ + 1]
set_blinded(row) == [row EXCEPT !.blinded = TRUE]
\* Mutated: one report too late.
blinds_above(n) == n > Threshold

blinds_at(n) == n >= Threshold


Settle(x, t, row, more) ==
    IF ~IsPost(t) /\ row.blinded # db[t].blinded
    THEN Write(x, Merge(One(t, row), more)) /\ Goto(x, Busy("moderate", "recount", None, t, 0, None))
    ELSE Commits(x, Merge(One(t, row), more)) /\ Goto(x, Idle)

submit_report(x) ==
    \E u \in Users, t \in Targets(db) :
        LET row == increment_report_count(db[t])
            n == Cardinality({k \in Rows(db, "report") : k[2] = t /\ k[3] = u}) + 1
        IN  /\ Starts(x, "report")
            /\ FreeOf(x, {t}) /\ Alive(db, t) /\ db[t].author # None
            /\ Settle(x, t, IF blinds_at(row.reports) THEN set_blinded(row) ELSE row,
                      One(Report(t, u, n), [deleted |-> FALSE]))

(* AdminService.blind, unblind and reset_reports.                          *)
moderate(x) ==
    \E t \in Targets(db), on \in BOOLEAN :
        /\ Starts(x, "moderate")
        /\ FreeOf(x, {t}) /\ Alive(db, t) /\ db[t].blinded # on
        /\ Settle(x, t, [db[t] EXCEPT !.blinded = on], EmptyRows)

delete_by_target(x) ==
    \E t \in Targets(db) :
        /\ Starts(x, "reset")
        /\ FreeOf(x, live_reports(db, t))
        /\ Write(x, [k \in live_reports(db, t) |-> [deleted |-> TRUE]])
        /\ Goto(x, Busy("reset", "reset", None, t, 0, None))

reset_reports(x) ==
    LET t == req[x].t IN
    /\ Continues(x, "reset", "reset")
    /\ IF Alive(db, t)
       THEN Settle(x, t, [db[t] EXCEPT !.reports = 0, !.blinded = FALSE], EmptyRows)
       ELSE Commits(x, EmptyRows) /\ Goto(x, Idle)

(* CommentModeration._resync_count: a COUNT, then an UPDATE with its value.*)
count_visible_for_post(v, p) ==
    Cardinality({c \in live_comments(v, p) :
                    /\ ~v[c].blinded
                    /\ \/ v[c].parent = 0
                       \/ LET root == v[Comment(v[c].parent)] IN ~root.deleted /\ ~root.blinded})

resync_count(x) ==
    /\ Continues(x, "moderate", "recount")
    /\ Goto(x, [req[x] EXCEPT !.at = "set_count",
                              !.n = count_visible_for_post(View(x), View(x)[req[x].t].post)])
    /\ Reads

set_comment_count(x) ==
    LET p == db[req[x].t].post IN
    /\ Continues(x, "moderate", "set_count")
    /\ Commit(x, One(p, [db[p] EXCEPT !.comments = req[x].n]))
    /\ past' = past \cup {"moderated"}
    /\ Goto(x, Idle)
    /\ UNCHANGED answer
-----------------------------------------------------------------------------
(* UserService.purge_withdrawn_users.  The ids are selected once.  For the *)
(* posts, then the comments, one UPDATE ... FROM an aggregate lowers the   *)
(* like counters: the counts are those of the snapshot the statement       *)
(* starts with, and stay so while it waits for a row.  Then the users are  *)
(* deleted, whose foreign keys take the links along.  The job lock keeps   *)
(* one purge at a time, unless it expires or Redis cannot be asked.        *)
select_purgeable_user_ids(x) ==
    /\ Starts(x, "purge") /\ purgeable(db) # {}
    /\ Goto(x, [Busy("purge", "aggregate", None, None, 0, purgeable(db))
                   EXCEPT !.names = <<"post", "comment">>])
    /\ past' = IF \E y \in Tx : req[y].op = "purge" THEN past \cup {"overlapped"} ELSE past
    /\ UNCHANGED <<db, ov, answer>>

links_by(v, us, t) == Cardinality({u \in us : Link(t, u) \in DOMAIN v})
aggregate(v, us, table) == [t \in liked_by(v, us, table) |-> links_by(v, us, t)]

decrement_snapshot(x) ==
    LET r == req[x] IN
    /\ Continues(x, "purge", "aggregate")
    /\ Goto(x, [r EXCEPT !.at = "decrement", !.t = aggregate(db, r.who, Head(r.names))])
    /\ Reads

decrement_like_counts(x) ==
    LET r == req[x] IN
    /\ Continues(x, "purge", "decrement")
    /\ Write(x, [t \in DOMAIN r.t |-> [db[t] EXCEPT !.likes = Max0(@ - r.t[t])]])
    /\ Goto(x, [r EXCEPT !.at = IF Len(r.names) = 1 THEN "delete_users" ELSE "aggregate",
                         !.names = Tail(@), !.t = None])

purge_users_by_ids(x) ==
    LET us == req[x].who IN
    /\ Continues(x, "purge", "delete_users")
    /\ Commits(x, Merge([k \in owned(db, us) |-> NoRow],
                        [k \in authored(db, us) |-> [View(x)[k] EXCEPT !.author = None]]))
    /\ Goto(x, Idle)

(* UserService.toggle_block_user: look, then delete or insert.             *)
block_exists(x) ==
    \E u \in Users, v \in Users \cup Gone :
        /\ Starts(x, "block") /\ u # v
        /\ Goto(x, Busy("block", "block", u, User(v), IF Block(u, v) \in DOMAIN db THEN 1 ELSE 0, None))
        /\ Reads

toggle_block_user(x) ==
    LET r == req[x]
        k == Block(r.u, r.t[2])
    IN  /\ Continues(x, "block", "block")
        /\ \/ /\ r.n = 1
              /\ Commits(x, One(k, NoRow)) /\ Goto(x, Idle)
           \/ /\ r.n = 0 /\ k \notin DOMAIN db /\ r.t \in DOMAIN db
              /\ Commits(x, One(k, TRUE)) /\ Goto(x, Idle)
           \/ /\ r.n = 0 /\ (k \in DOMAIN db \/ r.t \notin DOMAIN db)
              /\ Rollback(x) /\ UNCHANGED answer
-----------------------------------------------------------------------------
(* PostgreSQL aborts a transaction of a cycle of waiting transactions; a   *)
(* process may die, or lose its connection, between any two statements.    *)
WaitsFor == [p \in Tx \X Tx |-> p[1] # p[2] /\ Wants(p[1]) \cap DOMAIN ov[p[2]] # {}]
deadlocked(x) == TransitiveClosure(WaitsFor, Tx)[x, x]

deadlock_detected(x) == /\ deadlocked(x) /\ Rollback(x)
                        /\ UNCHANGED <<begun, ops, sent, answer>>
crash(x) == /\ req[x] # Idle /\ Rollback(x)
            /\ UNCHANGED <<begun, ops, sent, answer>>

Request(x) == \/ create_comment_check(x) \/ delete_comment(x) \/ soft_delete(x)
              \/ update_post_read(x) \/ like_check(x) \/ unlike_check(x) \/ submit_report(x)
              \/ moderate(x) \/ delete_by_target(x) \/ select_purgeable_user_ids(x)
              \/ block_exists(x)
Proceed(x) == \/ create_comment_insert(x) \/ publish_after_commit(x) \/ delete_comment_count(x)
              \/ soft_delete_by_post(x) \/ delete_by_post_id(x) \/ sync_post_hashtags(x)
              \/ update_post_flush(x) \/ like_create(x) \/ like_count(x) \/ unlike_delete(x)
              \/ unlike_count(x) \/ reset_reports(x) \/ resync_count(x) \/ set_comment_count(x)
              \/ decrement_snapshot(x) \/ decrement_like_counts(x) \/ purge_users_by_ids(x)
               \/ toggle_block_user(x)
Quiet == (\A x \in Tx : req[x] = Idle) /\ UNCHANGED vars

Init == /\ db = Seed /\ ov = [x \in Tx |-> EmptyRows] /\ req = [x \in Tx |-> Idle]
        /\ begun = 0 /\ ops \in Scenarios /\ sent = {} /\ past = {}
        /\ answer = [x \in Tx |-> "none"]

Next == \/ \E x \in Tx : Request(x) \/ Proceed(x) \/ deadlock_detected(x) \/ crash(x)
        \/ Quiet

Spec == Init /\ [][Next]_vars
-----------------------------------------------------------------------------
(* Type invariant: the rows of every table have the columns of their table,*)
(* the counters are natural numbers, and two transactions never hold the   *)
(* same row (row locks of UPDATE, DELETE and unique keys).                 *)
TypeOK ==
    /\ \A p \in Rows(db, "post") : /\ db[p].author \in Users \cup Gone \cup {None}
                                  /\ {db[p].comments, db[p].likes, db[p].reports} \subseteq Nat
    /\ \A c \in Rows(db, "comment") : /\ db[c].post \in Rows(db, "post")
                                     /\ db[c].parent \in 0 .. c[2] - 1
    /\ \A x, y \in Tx : x # y => DOMAIN ov[x] \cap DOMAIN ov[y] = {}
    /\ \A x \in Tx : req[x] = Idle => DOMAIN ov[x] = {}
    /\ begun \in 0 .. MaxRequests

(* What clients are shown never drifts from the committed rows, whatever   *)
(* requests interleave: like_count of a live target is its like rows, with *)
(* post deletes and a purge among them; two purges that overlap, without   *)
(* the job lock, may leave it too low but never too high (the second       *)
(* aggregate still counts the links the first purge removes); as long as   *)
(* no comment has been moderated comment_count is the number of comments   *)
(* not deleted; and an event is published only for a notification that is  *)
(* committed.                                                              *)
DisplayMatchesRows ==
    /\ \A t \in Targets(db) : LET links == Cardinality(links_of(db, t)) IN
          Alive(db, t) => /\ db[t].likes <= links
                          /\ "overlapped" \notin past => db[t].likes = links
    /\ \A p \in Rows(db, "post") :
          Alive(db, p) /\ "moderated" \notin past => db[p].comments = Cardinality(live_comments(db, p))
    /\ \A k \in sent : User(k[2]) \in DOMAIN db => k \in DOMAIN db

(* What the comment list shows of a post to a viewer without blocks: its   *)
(* undeleted comments that are not blinded, and whose root, if they have   *)
(* one, is not blinded (a deleted root stays as a placeholder).            *)
displayed(v, p) ==
    {c \in live_comments(v, p) : ~v[c].blinded /\ (v[c].parent # 0 => ~v[Comment(v[c].parent)].blinded)}

(* comment_count is the number of comments on display, which is how        *)
(* CommentModeration defines it.                                           *)
CommentCountIsDisplayed ==
    \A p \in Rows(db, "post") : Alive(db, p) => db[p].comments = Cardinality(displayed(db, p))

(* A report that brings the count to the threshold hides the target in the *)
(* same commit, however many reports race: no target is left on display    *)
(* with a count at or over the threshold that the last report raised.      *)
BlindedStep ==
    \A t \in Targets(db) :
        (t \in DOMAIN db' /\ db'[t].reports > db[t].reports /\ db'[t].reports >= Threshold)
            => db'[t].blinded
BlindedAtThreshold == [][BlindedStep]_db

(* An edit that commits replaces the version it read, so that none is      *)
(* overwritten unseen, and links all its hashtags, also when another       *)
(* transaction was inserting the same name (the comment in                 *)
(* sync_post_hashtags); one that carries none leaves them as they are.     *)
EditStep ==
    \A x \in Tx : LET p == req[x].t IN
        req[x].at = "flush" /\ req'[x] = Idle /\ db' # db
            => /\ db[p].version = req[x].n
               /\ db'[p].tags = IF req[x].names = None THEN db[p].tags ELSE Range(req[x].names)
EditsAreExact == [][EditStep]_<<db, req>>

(* An edit that loses the race for the version is told so: a 409, as       *)
(* ConcurrentUpdateException promises for StaleDataError, and not a 500.   *)
LosingEditIsAConflict == \A x \in Tx : answer[x] # "error"

(* Likes, comments, reports, moderation, blocks and edits take their rows  *)
(* in one order (reports and links, then comments, then posts), so they    *)
(* never wait for each other in a cycle.  A deadlock needs a post delete or*)
(* a purge, which take posts before comments and links, or two edits that  *)
(* insert new hashtags in opposite orders (sync_post_hashtags).            *)
Everyday == {x \in Tx : req[x].op \notin {"delete_post", "purge"}}
=============================================================================

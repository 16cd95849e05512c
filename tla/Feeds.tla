-------------------------------- MODULE Feeds --------------------------------
(***************************************************************************)
(* The lists clients page through: posts, replies, notifications and blocks*)
(* by keyset, root comments and reported targets by offset, trending posts *)
(* and hashtags from caches.  Rows appear, are hidden and come back, and   *)
(* the viewer blocks and unblocks authors, between any two requests.  A    *)
(* row stands for a post, comment, notification or block, its number for   *)
(* its id: UUIDv7 ids are ordered by creation.                             *)
(***************************************************************************)
EXTENDS Integers, FiniteSets, Sequences, SequencesExt

CONSTANTS
    Rows,        \* 1 .. n
    Parent,      \* Parent[x]: the root a comment replies to, 0 for a root or a post
    Authors,     \* None among them: the author's row was purged
    None,
    Sizes,       \* page sizes
    Previews,    \* REPLY_PREVIEW_LIMIT
    MinPosts,    \* _MIN_POSTS_FOR_TIME_DECAY
    PoolSize,    \* _POOL_SIZE
    TopLimit,    \* limit of a trending request
    Tags,        \* Tags[x]: the hashtags of a post, numbered in the order of their names
    MinTags,     \* _MIN_HASHTAGS_FOR_WINDOW
    Walks,       \* which lists are paged: "latest", "oldest"
    Filters,     \* what a search or a category lets through: sets of rows
    Scenarios,   \* what clients do: "walk", "trending", "hashtags" or none
    Tables,      \* Tables[sc]: the initial tables
    MaxChanges   \* MaxChanges[sc], bound: changes of rows and of blocks

VARIABLES
    table,       \* table[x]: [state, author, likes, age, reports]
    blocked,     \* authors the viewer has blocked
    walk,        \* a client paging by keyset: [sort, size, filter, cursor, seen, over]
    steady,      \* history: rows the list could show at every moment of the walk
    pool,        \* the cached trending lists: [posts, hashtags, all_time]
    top,         \* the answer of the last trending request, and whom it must not show
    scenario, changes

vars == <<table, blocked, walk, steady, pool, top, scenario, changes>>

-----------------------------------------------------------------------------
(* Who sees what.                                                          *)

(* A purged author is nobody a viewer can have blocked.                    *)
author_not_blocked(x) == table[x].author \notin blocked
_post_visible_conditions(x) == table[x].state = "shown" /\ author_not_blocked(x)
_reply_visible_conditions(x) == table[x].state = "shown" /\ author_not_blocked(x)
replies(r) == {x \in Rows : Parent[x] = r /\ _reply_visible_conditions(x)}
Roots == {x \in Rows : Parent[x] = 0}

split_page(rows, size) == [items |-> SubSeq(rows, 1, IF Len(rows) < size THEN Len(rows) ELSE size),
                           has_more |-> Len(rows) > size]
offset_of(page, size) == (page - 1) * size
take(rows, from, size) == SubSeq(rows, from + 1, IF from + size < Len(rows) THEN from + size ELSE Len(rows))

Newest(rows) == SetToSortSeq(rows, LAMBDA x, y : x > y)
Oldest(rows) == SetToSortSeq(rows, LAMBDA x, y : x < y)

-----------------------------------------------------------------------------
(* Keyset pages.                                                           *)

_apply_id_keyset(rows, sort, cursor, size) ==
    LET beyond == {x \in rows : cursor = 0 \/ IF sort = "oldest" THEN x > cursor ELSE x < cursor}
        sorted == IF sort = "oldest" THEN Oldest(beyond) ELSE Newest(beyond)
    IN take(sorted, 0, size + 1)

(* get_all_posts, get_replies_page, list_for_user, get_blocked_users: the  *)
(* same page over different rows.                                          *)
Listed(filter) == {x \in filter : _post_visible_conditions(x)}

NoWalk == [sort |-> "none", size |-> 1, filter |-> {}, cursor |-> 0, seen |-> <<>>, over |-> TRUE]

start_walk ==
    /\ scenario = "walk" /\ walk = NoWalk
    /\ \E sort \in Walks, size \in Sizes, filter \in Filters :
           /\ walk' = [sort |-> sort, size |-> size, filter |-> filter, cursor |-> 0, seen |-> <<>>, over |-> FALSE]
           /\ steady' = Listed(filter)
    /\ UNCHANGED <<table, blocked, pool, top, scenario, changes>>

\* Mutated: LIMIT size, without the row that tells whether there is more.
next_page_not_overfetched ==
    LET page == split_page(take(_apply_id_keyset(Listed(walk.filter), walk.sort, walk.cursor, walk.size),
                                0, walk.size), walk.size) IN
    /\ ~walk.over
    /\ walk' = [walk EXCEPT !.seen = @ \o page.items,
                            !.cursor = IF page.items = <<>> THEN @ ELSE Last(page.items),
                            !.over = ~page.has_more]
    /\ UNCHANGED <<table, blocked, steady, pool, top, scenario, changes>>

(* One request.  The client asks on from the id of the last item.          *)
next_page ==
    LET page == split_page(_apply_id_keyset(Listed(walk.filter), walk.sort, walk.cursor, walk.size), walk.size) IN
    /\ ~walk.over
    /\ walk' = [walk EXCEPT !.seen = @ \o page.items,
                            !.cursor = IF page.items = <<>> THEN @ ELSE Last(page.items),
                            !.over = ~page.has_more]
    /\ UNCHANGED <<table, blocked, steady, pool, top, scenario, changes>>

-----------------------------------------------------------------------------
(* Root comments by offset, each with its newest replies.                  *)

root_listed(r) ==
    /\ table[r].state # "blinded"
    /\ table[r].state # "none"
    /\ table[r].state # "deleted" \/ replies(r) # {}
    /\ author_not_blocked(r)

root_order(sort, x, y) ==
    \/ sort = "popular" /\ table[x].likes > table[y].likes
    \/ (sort = "popular" => table[x].likes = table[y].likes) /\ x > y

page_root_comments(sort, offset, size) ==
    LET roots == {r \in Roots : root_listed(r)}
        Before(x, y) == root_order(sort, x, y)
    IN [rows |-> take(SetToSortSeq(roots, Before), offset, size), total |-> Cardinality(roots)]

(* row_number() <= limit over the visible replies of each root, and their  *)
(* number; a root without one is not in the result.                        *)
get_reply_previews_for_roots(roots, limit) ==
    {<<x, Cardinality(replies(Parent[x]))>> :
        x \in {y \in Rows : /\ Parent[y] \in roots /\ y \in replies(Parent[y])
                            /\ Cardinality({z \in replies(Parent[y]) : z >= y}) <= limit}}

_build_comment_tree(roots, previews) ==
    [k \in DOMAIN roots |->
        LET mine == {p \in previews : Parent[p[1]] = roots[k]}
            count == IF mine = {} THEN 0 ELSE (CHOOSE p \in mine : TRUE)[2]
        IN [id |-> roots[k], replies |-> Newest({p[1] : p \in mine}), reply_count |-> count,
            placeholder |-> table[roots[k]].state = "deleted",
            has_more_replies |-> count > Cardinality(mine)]]

from_page(items, page, size, total) == [items |-> items, has_more |-> page * size < total, total |-> total]

(* The statements of one answer, on tables that do not change between them.*)
get_comments(sort, page, size) ==
    LET found == page_root_comments(sort, offset_of(page, size), size)
        previews == get_reply_previews_for_roots(ToSet(found.rows), Previews)
    IN from_page(_build_comment_tree(found.rows, previews), page, size, found.total)

(* get_replies from a cursor: nothing for a blinded root.                  *)
get_replies(r, cursor, size) ==
    IF table[r].state = "blinded" THEN [items |-> <<>>, has_more |-> FALSE]
    ELSE split_page(_apply_id_keyset(replies(r), "latest", cursor, size), size)

(* Reported posts and comments in one list, by number of reports; what has *)
(* no author any more is not listed.  Creation times go with the ids.      *)
page_reported_targets(offset, size) ==
    LET reported == {x \in Rows : /\ table[x].state \in {"shown", "blinded"} /\ table[x].reports > 0
                                  /\ table[x].author # None}
        Before(x, y) == table[x].reports > table[y].reports \/ (table[x].reports = table[y].reports /\ x > y)
    IN [rows |-> take(SetToSortSeq(reported, Before), offset, size), total |-> Cardinality(reported)]

get_reported_posts(page, size) ==
    LET found == page_reported_targets(offset_of(page, size), size)
    IN from_page(found.rows, page, size, found.total)

-----------------------------------------------------------------------------
(* Trending posts: a pool everybody shares, the viewer's blocks on top.    *)

(* Two rankings: the score, weighted likes over the age (views and comments*)
(* are not told apart here), compared without dividing; and the likes.     *)
W_LIKE == 2
DECAY_AGE_FLOOR == 2
score_above(x, y) == W_LIKE * table[x].likes * (table[y].age + DECAY_AGE_FLOOR) >
                     W_LIKE * table[y].likes * (table[x].age + DECAY_AGE_FLOOR)

get_trending_posts_query(window, decay) ==
    LET posts == {x \in Rows : table[x].state = "shown" /\ table[x].age <= window}
        Above(x, y) == IF decay THEN score_above(x, y) ELSE table[x].likes > table[y].likes
        Before(x, y) == Above(x, y) \/ (~Above(y, x) /\ x > y)
    IN take(SetToSortSeq(posts, Before), 0, PoolSize)

Day == 0
Week == 1
AllTime == 2

_compute_pool ==
    LET day == get_trending_posts_query(Day, TRUE)
        week == IF Len(day) < MinPosts THEN get_trending_posts_query(Week, FALSE) ELSE day
    IN IF week = <<>> THEN get_trending_posts_query(AllTime, FALSE) ELSE week

NoPool == <<0>>
Cached(key, list) == IF pool[key] = NoPool THEN list ELSE pool[key]
\* Mutated: the pool is cut before the blocked authors are taken out.
overlay_after_cut(rows) == SelectSeq(take(rows, 0, TopLimit), LAMBDA x : table[x].author \notin blocked)

overlay(rows) == SelectSeq(rows, LAMBDA x : table[x].author \notin blocked)

get_trending_posts ==
    LET rows == Cached("posts", _compute_pool) IN
    /\ scenario = "trending"
    /\ pool' = [pool EXCEPT !.posts = rows]
    /\ top' = [items |-> take(overlay(rows), 0, TopLimit), pool |-> rows, blocked |-> blocked]
    /\ UNCHANGED <<table, blocked, walk, steady, scenario, changes>>

get_trending_hashtags_query(window) ==
    LET posts(t) == {x \in Rows : table[x].state = "shown" /\ table[x].age <= window /\ t \in Tags[x]}
        used == {t \in UNION ToSet(Tags) : posts(t) # {}}
        count(t) == Cardinality(posts(t))
    IN take(SetToSortSeq(used, LAMBDA s, t : count(s) > count(t) \/ (count(s) = count(t) /\ s < t)), 0, TopLimit)

windowed == Cached("hashtags", get_trending_hashtags_query(Day))
_all_time == Cached("all_time", get_trending_hashtags_query(AllTime))
sparse == Len(windowed) < MinTags

(* The list of the day, unless it is sparse: then that of all time, which  *)
(* is cached under a key of its own and for longer.                        *)
get_trending_hashtags ==
    /\ scenario = "hashtags"
    /\ pool' = [pool EXCEPT !.hashtags = windowed, !.all_time = IF sparse THEN _all_time ELSE @]
    /\ UNCHANGED <<table, blocked, walk, steady, top, scenario, changes>>

pool_expires ==
    /\ \E key \in DOMAIN pool : pool[key] # NoPool /\ pool' = [pool EXCEPT ![key] = NoPool]
    /\ UNCHANGED <<table, blocked, walk, steady, top, scenario, changes>>

-----------------------------------------------------------------------------
(* Meanwhile: rows appear in the order of their ids, are deleted, blinded  *)
(* and unblinded; the viewer blocks and unblocks.                          *)
change_row ==
    /\ changes < MaxChanges[scenario] /\ changes' = changes + 1
    /\ \E x \in Rows :
          \/ /\ table[x].state = "none" /\ \A y \in Rows : y > x => table[y].state = "none"
             /\ table' = [table EXCEPT ![x].state = "shown"]
          \/ table[x].state = "shown" /\ \E to \in {"deleted", "blinded"} : table' = [table EXCEPT ![x].state = to]
          \/ table[x].state = "blinded" /\ table' = [table EXCEPT ![x].state = "shown"]
    /\ steady' = {x \in steady : table'[x].state = "shown"}
    /\ UNCHANGED <<blocked, walk, pool, top, scenario>>

toggle_block ==
    /\ changes < MaxChanges[scenario] /\ changes' = changes + 1
    /\ \E a \in Authors \ {None} : blocked' = IF a \in blocked THEN blocked \ {a} ELSE blocked \cup {a}
    /\ steady' = {x \in steady : table[x].author \notin blocked'}
    /\ UNCHANGED <<table, walk, pool, top, scenario>>

Init ==
    /\ scenario \in Scenarios
    /\ table \in Tables[scenario]
    /\ blocked \in SUBSET (Authors \ {None})
    /\ walk = NoWalk
    /\ steady = {}
    /\ pool = [posts |-> NoPool, hashtags |-> NoPool, all_time |-> NoPool]
    /\ top = [items |-> <<>>, pool |-> <<>>, blocked |-> {}]
    /\ changes = 0

Next ==
    \/ start_walk \/ next_page \/ get_trending_posts \/ get_trending_hashtags \/ pool_expires
    \/ change_row \/ toggle_block
Spec == Init /\ [][Next]_vars

-----------------------------------------------------------------------------
(* Rows keep their type, and what a client has or a pool holds are rows.   *)
TypeOK ==
    /\ \A x \in Rows : table[x].state \in {"none", "shown", "deleted", "blinded"} /\ table[x].author \in Authors
    /\ ToSet(walk.seen) \cup steady \subseteq Rows
    /\ pool.posts = NoPool \/ ToSet(pool.posts) \subseteq Rows
    /\ \A key \in {"hashtags", "all_time"} : pool[key] = NoPool \/ ToSet(pool[key]) \subseteq UNION ToSet(Tags)
    /\ Len(pool.posts) <= PoolSize
    /\ changes \in 0 .. MaxChanges[scenario]

(* A client that pages by keyset gets no row twice, and at the end has     *)
(* every row that could be shown all the while, whatever appeared, went or *)
(* was blocked between its requests (_apply_id_keyset, get_all_posts,      *)
(* split_page).                                                            *)
WalkIsExact ==
    /\ IsInjective(walk.seen)
    /\ (walk.over /\ walk # NoWalk) => steady \subseteq ToSet(walk.seen)

(* Pages by offset, up to the one that says there is no more, are the list.*)
Tiles(Page(_), whole) ==
    LET pages == {p \in 1 .. Cardinality(Rows) + 1 : p = 1 \/ Page(p - 1).has_more}
    IN FlattenSeq([p \in 1 .. Cardinality(pages) |-> Page(p).items]) = whole.items

(* What one request shows is the list it is taken from.  The pages of the  *)
(* comment list tile the roots in their order, and those of the reported   *)
(* list its targets; every root shows its newest replies, and reading on   *)
(* from the last one shown gives the others, each once, exactly when       *)
(* has_more_replies says there are others.  A trending answer shows no     *)
(* author blocked at the time of the request, though the pool is shared    *)
(* and older, and is as long as the pool allows.  The trending hashtags    *)
(* are empty only if no post shown has one or the list of all time was     *)
(* cached when none had (get_comments, get_replies, get_reported_posts,    *)
(* get_trending_posts, get_trending_hashtags).                             *)
ListsAreExact ==
    /\ \A size \in Sizes :
           /\ LET Page(p) == get_reported_posts(p, size) IN Tiles(Page, get_reported_posts(1, Cardinality(Rows)))
           /\ \A sort \in {"latest", "popular"} :
                 LET Page(p) == get_comments(sort, p, size)
                     whole == get_comments(sort, 1, Cardinality(Rows))
                 IN /\ Tiles(Page, whole)
                    /\ {t.id : t \in ToSet(whole.items)} =
                       {r \in Roots : /\ author_not_blocked(r)
                                      /\ table[r].state = "shown" \/ (table[r].state = "deleted" /\ replies(r) # {})}
                    /\ \A t \in ToSet(whole.items) :
                          LET last == IF t.replies = <<>> THEN 0 ELSE Last(t.replies)
                              rest == get_replies(t.id, last, Cardinality(Rows)).items
                          IN /\ t.replies \o rest = Newest(replies(t.id))
                             /\ t.has_more_replies <=> rest # <<>>
                             /\ t.reply_count = Cardinality(replies(t.id))
    /\ LET open == SelectSeq(top.pool, LAMBDA x : table[x].author \notin top.blocked)
       IN top.items = SubSeq(open, 1, IF Len(open) < TopLimit THEN Len(open) ELSE TopLimit)
    /\ _compute_pool = <<>> => \A x \in Rows : table[x].state # "shown"
    /\ (IF sparse THEN _all_time ELSE windowed) = <<>> =>
           pool.all_time = <<>> \/ \A x \in Rows : table[x].state = "shown" => Tags[x] = {}
=============================================================================

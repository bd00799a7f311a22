----------------------------- MODULE Engagement -----------------------------
(***************************************************************************)
(* Likes, comments, comment likes and bookmarks of one content item, the   *)
(* counters derived from them, and the jobs that repair the counters.      *)
(*                                                                         *)
(* The detail tables are the truth; content_items.like_count, ..., are     *)
(* kept beside them, either written through in the transaction that writes *)
(* the detail row (the default) or collected in Redis and flushed each     *)
(* minute ("behind").  A reconciliation job compares both, every 15        *)
(* minutes for items never confirmed and daily for all.                    *)
(*                                                                         *)
(* PostgreSQL runs at READ COMMITTED: a statement sees what is committed,  *)
(* a row lock is held to the end of the transaction.  The last statement   *)
(* that waits for a lock and the commit are one step; what precedes them   *)
(* is one step per statement whose timing matters.                         *)
(***************************************************************************)
EXTENDS Integers, FiniteSets, FiniteSetsExt

CONSTANTS
    Users,      \* people who interact with the item
    Comments,   \* identifiers of the comments they may write
    First,      \* the one that is there at the start
    Conns,      \* database connections that serve requests
    NoOne,      \* holder of a free row lock
    MaxEvents   \* bound: interactions begun and transactions failed, together

ASSUME ConnsFinite == IsFiniteSet(Conns) /\ NoOne \notin Conns
ASSUME FirstIsComment == First \in Comments
ASSUME DetailsFinite == IsFiniteSet(Users) /\ IsFiniteSet(Comments)
ASSUME BoundsAreNat == MaxEvents \in Nat

VARIABLES
    mode,         \* settings.counters_write_through: "through" or "behind"
    item,         \* the row of content_items
    likes,        \* users with a row in content_likes
    favs,         \* users with a row in interaction_favorites
    comments,     \* rows of content_comments
    commentLikes, \* rows of content_comment_likes: pairs <<comment, user>>
    pending,      \* counter deltas that are still in Redis
    tx,           \* what each connection is doing
    scan,         \* the reconciliation job
    flush,        \* the flush job
    events        \* interactions begun and transactions failed so far

rows == <<item, likes, favs, comments, commentLikes>>
jobs == <<scan, flush>>
vars == <<mode, rows, pending, tx, jobs, events>>

Fields == {"like", "comment", "bookmark"}
Zero == [f \in Fields |-> 0]
Only(f, d) == [g \in Fields |-> IF g = f THEN d ELSE 0]

Holders == Conns \cup {NoOne}
Items == [deleted: BOOLEAN, marked: BOOLEAN, lock: Holders,
          count: [Fields -> Nat]]
Rows == [floor: Nat, live: BOOLEAN, stamps: Nat, likes: Nat, lock: Holders]

Requests == [op: {"idle", "like", "unlike", "comment", "praise", "unpraise",
                  "delete", "stamped", "favorite", "unfavorite"},
             user: Users \cup {NoOne}, comment: Comments \cup {NoOne},
             floor: Nat, bump: [Fields -> Int]]
Request(op, u, c, d) ==
    [op |-> op, user |-> u, comment |-> c, floor |-> 0, bump |-> d]
Idle == Request("idle", NoOne, NoOne, Zero)
NoScan == [op |-> "idle", seen |-> Zero, real |-> Zero]
NoFlush == [op |-> "idle", bump |-> Zero]
NoComment == [floor |-> 0, live |-> FALSE, stamps |-> 0, likes |-> 0,
              lock |-> NoOne]
Written(c) == comments[c].floor > 0

-----------------------------------------------------------------------------
(* Counters.                                                               *)

\* A column after a bump: greatest(col + delta, 0).
Bumped(count, delta) ==
    [f \in Fields |-> Max({count[f] + delta[f], 0})]

\* What the detail tables say; deleted comments do not count.
Real == [f \in Fields |->
           CASE f = "like"     -> Cardinality(likes)
             [] f = "comment"  -> Cardinality({c \in Comments : comments[c].live})
             [] f = "bookmark" -> Cardinality(favs)]

\* A bump is written through, or goes to Redis at once: Redis knows of no
\* rollback.  Without Redis the behind mode writes through as well.
Channels == IF mode = "through" THEN {TRUE} ELSE BOOLEAN
Noted(direct, delta) ==
    pending' = IF direct THEN pending
               ELSE [f \in Fields |-> pending[f] + delta[f]]
Bumps(direct, delta) == IF direct THEN delta ELSE Zero

-----------------------------------------------------------------------------
(* Requests.  A connection begins by the statements up to its first wait.  *)

Init ==
    /\ mode \in {"through", "behind"}
    /\ item = [deleted |-> FALSE, marked |-> FALSE, lock |-> NoOne,
               count |-> Only("comment", 1)]
    /\ likes = {} /\ favs = {} /\ commentLikes = {}
    /\ comments = [c \in Comments |->
                     IF c = First THEN [NoComment EXCEPT !.floor = 1, !.live = TRUE]
                     ELSE NoComment]
    /\ pending = Zero
    /\ tx = [p \in Conns |-> Idle]
    /\ scan = NoScan /\ flush = NoFlush
    /\ events = 0

Counted == events < MaxEvents /\ events' = events + 1
Begins(p) == tx[p] = Idle /\ Counted

\* lock_active: the row is locked for update, and must not be deleted.
LockActive(p) ==
    /\ item.lock = NoOne /\ ~item.deleted
    /\ item' = [item EXCEPT !.lock = p]

\* like_item and unlike_item: nothing is done for a like that is there, or a
\* missing one that is taken back.
LikeItem(p, u, like) ==
    /\ Begins(p) /\ LockActive(p)
    /\ like <=> u \notin likes
    /\ \E direct \in Channels :
         LET d == Only("like", IF like THEN 1 ELSE -1) IN
         /\ Noted(direct, d)
         /\ tx' = [tx EXCEPT ![p] = Request(IF like THEN "like" ELSE "unlike",
                                            u, NoOne, Bumps(direct, d))]
    /\ UNCHANGED <<mode, likes, favs, comments, commentLikes, jobs>>

\* The next floor counts the deleted comments too.
NextFloor == Max({comments[c].floor : c \in Comments}) + 1

CreateComment(p) ==
    /\ Begins(p) /\ LockActive(p)
    /\ \E c \in Comments : ~Written(c)
    /\ \E direct \in Channels :
         LET d == Only("comment", 1)
             c == CHOOSE x \in Comments : ~Written(x) IN
         /\ Noted(direct, d)
         /\ tx' = [tx EXCEPT ![p] =
                     [Request("comment", NoOne, c, Bumps(direct, d))
                        EXCEPT !.floor = NextFloor]]
    /\ UNCHANGED <<mode, likes, favs, comments, commentLikes, jobs>>

\* like_comment and unlike_comment lock the item first, the comment last.
LikeComment(p, u, c, like) ==
    /\ Begins(p) /\ LockActive(p)
    /\ comments[c].live
    /\ like <=> <<c, u>> \notin commentLikes
    /\ tx' = [tx EXCEPT ![p] = Request(IF like THEN "praise" ELSE "unpraise",
                                       u, c, Zero)]
    /\ UNCHANGED <<mode, likes, favs, comments, commentLikes, pending, jobs>>

\* delete_comment reads the comment without a lock, ...
DeleteComment(p, c) ==
    /\ Begins(p)
    /\ comments[c].live
    /\ tx' = [tx EXCEPT ![p] = Request("delete", NoOne, c, Zero)]
    /\ UNCHANGED <<mode, rows, pending, jobs>>

\* ... stamps it, which waits for its row, and goes on to the item.
StampComment(p) ==
    /\ tx[p].op = "delete"
    /\ comments[tx[p].comment].lock = NoOne
    /\ comments' = [comments EXCEPT ![tx[p].comment].lock = p]
    /\ \E direct \in Channels :
         /\ Noted(direct, Only("comment", -1))
         /\ tx' = [tx EXCEPT ![p].op = "stamped",
                             ![p].bump = Bumps(direct, Only("comment", -1))]
    /\ UNCHANGED <<mode, item, likes, favs, commentLikes, jobs, events>>

\* Faulty variant of Contended: the count of rows written is not looked at.
ContendedNever(u) == FALSE

\* Two requests of one user for the bookmark wait for each other at the
\* insert or the delete, and the second finds nothing to do.
Contended(u) == \E q \in Conns : /\ tx[q].op \in {"favorite", "unfavorite"}
                                 /\ tx[q].user = u

\* add_favorite and remove_favorite do not lock the item before the bump.
Favorite(p, u, add) ==
    /\ Begins(p)
    /\ ~item.deleted
    /\ add <=> u \notin favs
    /\ ~Contended(u)
    /\ \E direct \in Channels :
         LET d == Only("bookmark", IF add THEN 1 ELSE -1) IN
         /\ Noted(direct, d)
         /\ tx' = [tx EXCEPT ![p] = Request(IF add THEN "favorite" ELSE "unfavorite",
                                            u, NoOne, Bumps(direct, d))]
    /\ UNCHANGED <<mode, rows, jobs>>

\* delete_item marks the item deleted.
DeleteItem(p) ==
    /\ Begins(p)
    /\ ~item.deleted /\ item.lock = NoOne
    /\ item' = [item EXCEPT !.deleted = TRUE]
    /\ UNCHANGED <<mode, likes, favs, comments, commentLikes, pending, tx, jobs>>

-----------------------------------------------------------------------------
(* The last statement and the commit.                                      *)

\* The transaction can get the row lock of the item, if it needs it.
ItemFree(p) == item.lock \in {p, NoOne} \/ tx[p].bump = Zero
CommentFree(p) ==
    tx[p].op \in {"praise", "unpraise"} => comments[tx[p].comment].lock = NoOne

\* The bump of a bookmark is refused for a deleted item, and so may be the
\* read that follows a bump in Redis: the request rolls back.
Refused(p) == tx[p].op \in {"favorite", "unfavorite"} /\ item.deleted

Unlocked(p) == [item EXCEPT !.lock = IF @ = p THEN NoOne ELSE @]
Released(p) == [c \in Comments |->
                  [comments[c] EXCEPT !.lock = IF @ = p THEN NoOne ELSE @]]

\* The comment rows once the transaction is committed.
CommentsAfter(p) ==
    LET c == tx[p].comment IN
    CASE tx[p].op = "comment"  -> [comments EXCEPT ![c] =
                                     [NoComment EXCEPT !.floor = tx[p].floor,
                                                       !.live = TRUE]]
      [] tx[p].op = "stamped"  -> [Released(p) EXCEPT ![c].live = FALSE,
                                                      ![c].stamps = @ + 1]
      [] tx[p].op = "praise"   -> [comments EXCEPT ![c].likes = @ + 1]
      [] tx[p].op = "unpraise" -> [comments EXCEPT ![c].likes = Max({@ - 1, 0})]
      [] OTHER                 -> comments

Changed(p, set, adds, drops, x) ==
    CASE tx[p].op = adds  -> set \cup {x}
      [] tx[p].op = drops -> set \ {x}
      [] OTHER            -> set

Commit(p) ==
    /\ tx[p].op \notin {"idle", "delete"}
    /\ ItemFree(p) /\ CommentFree(p)
    /\ ~(Refused(p) /\ tx[p].bump # Zero)
    /\ item' = [Unlocked(p) EXCEPT !.count = Bumped(@, tx[p].bump)]
    /\ comments' = CommentsAfter(p)
    /\ likes' = Changed(p, likes, "like", "unlike", tx[p].user)
    /\ favs' = Changed(p, favs, "favorite", "unfavorite", tx[p].user)
    /\ commentLikes' = Changed(p, commentLikes, "praise", "unpraise",
                               <<tx[p].comment, tx[p].user>>)
    /\ tx' = [tx EXCEPT ![p] = Idle]
    /\ UNCHANGED <<mode, pending, jobs, events>>

\* get_session: an exception rolls the request back.
Rollback(p) ==
    /\ item' = Unlocked(p) /\ comments' = Released(p)
    /\ tx' = [tx EXCEPT ![p] = Idle]
    /\ UNCHANGED <<mode, likes, favs, commentLikes, pending, jobs>>

Refuse(p) == Refused(p) /\ Rollback(p) /\ UNCHANGED events

\* PostgreSQL ends one of two transactions that wait for each other: one has
\* the item and wants a comment, the other the comment and wants the item.
Deadlocked(p) ==
    \E q \in Conns \ {p} :
       /\ ~ItemFree(p) /\ item.lock = q
       /\ ~CommentFree(q) /\ comments[tx[q].comment].lock = p

BreakDeadlock(p) ==
    /\ \E q \in Conns : Deadlocked(q) /\ p \in {q, item.lock}
    /\ Rollback(p) /\ UNCHANGED events

Fail(p) ==
    /\ tx[p] # Idle /\ Counted
    /\ Rollback(p)

-----------------------------------------------------------------------------
(* The jobs.                                                               *)

Quiet == pending = Zero

\* Faulty variant of Selected: the daily scan passes over confirmed items.
SelectedOnce(full) == ~item.marked

\* The items never confirmed, or all of them.
Selected(full) == item.marked => full

\* reconcile_counts reads counters and details in one statement; the likes
\* of the comments are set right in passing.
Scan(full) ==
    /\ scan = NoScan
    /\ Selected(full)
    /\ scan' = [op |-> "compare", seen |-> item.count, real |-> Real]
    /\ comments' = [c \in Comments |-> [comments[c] EXCEPT
         !.likes = Cardinality({u \in Users : <<c, u>> \in commentLikes})]]
    /\ UNCHANGED <<mode, item, likes, favs, commentLikes, pending, tx, flush,
                   events>>

\* A difference is left alone as long as Redis has a delta for the item.
Compare ==
    /\ scan.op = "compare"
    /\ scan' = IF scan.seen = scan.real \/ Quiet
               THEN [scan EXCEPT !.op = "write"] ELSE NoScan
    /\ UNCHANGED <<mode, rows, pending, tx, flush, events>>

\* The columns get the numbers that were read; the item is confirmed.
Write ==
    /\ scan.op = "write" /\ item.lock = NoOne
    /\ item' = [item EXCEPT !.marked = TRUE,
                            !.count = IF scan.seen = scan.real THEN @ ELSE scan.real]
    /\ scan' = NoScan
    /\ UNCHANGED <<mode, likes, favs, comments, commentLikes, pending, tx, flush,
                   events>>

\* flush_counters: GETDEL, then the update.
Drain ==
    /\ mode = "behind" /\ flush = NoFlush /\ ~Quiet
    /\ flush' = [op |-> "apply", bump |-> pending]
    /\ pending' = Zero
    /\ UNCHANGED <<mode, rows, tx, scan, events>>

Apply ==
    /\ flush.op = "apply" /\ item.lock = NoOne
    /\ item' = [item EXCEPT !.count = Bumped(@, flush.bump)]
    /\ flush' = NoFlush
    /\ UNCHANGED <<mode, likes, favs, comments, commentLikes, pending, tx, scan,
                   events>>

\* A job that fails writes nothing: what was taken from Redis is lost.
JobFails ==
    /\ Counted
    /\ \/ scan # NoScan /\ scan' = NoScan /\ UNCHANGED flush
       \/ flush # NoFlush /\ flush' = NoFlush /\ UNCHANGED scan
    /\ UNCHANGED <<mode, rows, pending, tx>>

-----------------------------------------------------------------------------
Begin(p) ==
    \/ \E u \in Users, on \in BOOLEAN :
          \/ LikeItem(p, u, on)
          \/ Favorite(p, u, on)
          \/ \E c \in Comments : LikeComment(p, u, c, on)
    \/ \E c \in Comments : DeleteComment(p, c)
    \/ CreateComment(p)
    \/ DeleteItem(p)

Proceed(p) == StampComment(p) \/ Commit(p) \/ Refuse(p) \/ BreakDeadlock(p)

Next ==
    \/ \E p \in Conns : Begin(p) \/ Proceed(p) \/ Fail(p)
    \/ \E full \in BOOLEAN : Scan(full)
    \/ Compare \/ Write \/ Drain \/ Apply \/ JobFails

Spec == Init /\ [][Next]_vars

\* A request that was begun goes on; the daily scan and the flush are cron
\* jobs that are run again and again.
FairSpec ==
    /\ Spec
    /\ \A p \in Conns : WF_vars(Proceed(p))
    /\ WF_vars(Scan(TRUE)) /\ WF_vars(Compare) /\ WF_vars(Write)
    /\ WF_vars(Drain) /\ WF_vars(Apply)

-----------------------------------------------------------------------------
(* Properties.                                                             *)

Exact == item.count = Real

\* The columns hold what their types allow: counters are never negative,
\* whatever deltas arrive, and locks are held by connections.
TypeOK ==
    /\ mode \in {"through", "behind"}
    /\ item \in Items
    /\ likes \subseteq Users /\ favs \subseteq Users
    /\ comments \in [Comments -> Rows]
    /\ commentLikes \subseteq Comments \X Users
    /\ pending \in [Fields -> Int]
    /\ tx \in [Conns -> Requests]
    /\ scan \in [op: {"idle", "compare", "write"},
                 seen: [Fields -> Nat], real: [Fields -> Nat]]
    /\ flush \in [op: {"idle", "apply"}, bump: [Fields -> Int]]
    /\ events \in 0..MaxEvents

\* In write-through mode the counters of the item equal its detail rows at
\* every commit, through every interleaving of requests, failures and
\* reconciliation, as long as no comment was stamped deleted by two requests.
DriftExplained ==
    mode = "through" /\ (\A c \in Comments : comments[c].stamps <= 1) => Exact

\* No two comments of the item ever get the same floor, the deleted ones
\* included: create_comment numbers them under the lock of the item.
FloorsDistinct ==
    \A c, d \in Comments :
       Written(c) /\ comments[c].floor = comments[d].floor => c = d

\* The like counter of a comment is the number of its likes, also while the
\* comment is deleted under a request that likes it.
CommentLikesExact ==
    \A c \in Comments :
       comments[c].likes = Cardinality({u \in Users : <<c, u>> \in commentLikes})

\* What is counted and numbered is exact: the counters of the item, those of
\* its comments, and the floors (like, create_comment, delete_comment).
CountsSound == DriftExplained /\ CommentLikesExact /\ FloorsDistinct

\* A deleted item takes no further like, comment or bookmark (the bookmarks
\* in write-through mode), also from requests that began before.
DeletedTakesNothing ==
    [][item.deleted =>
         /\ likes' = likes
         /\ commentLikes' = commentLikes
         /\ {c \in Comments : Written(c)} = {c \in Comments : Written(c)'}
         /\ mode = "through" => favs' = favs]_vars

\* Once interactions and failures have stopped the counters agree with the
\* details for good: the daily scan repairs what lost deltas, deltas of rolled
\* back requests, double deletions and the scan itself had left wrong.
Converges == <>[]Exact

\* The end of an item is final, and its counters come to rest.
ItemSettles == DeletedTakesNothing /\ Converges

=============================================================================

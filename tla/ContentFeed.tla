----------------------------- MODULE ContentFeed -----------------------------
(***************************************************************************)
(* The materialised follow timeline: app/modules/feed and the follow part  *)
(* of app/modules/interaction, for one author and one content source.      *)
(*                                                                         *)
(* A post gets its created_at when it is written and is seen by others     *)
(* when its transaction commits (or, for a draft, when it is published).   *)
(* A cron job reads the posts after the watermark, gives each to the       *)
(* followers of its author, and moves the watermark to the last of them.   *)
(* A new follower gets the latest posts at once, a lost one loses the      *)
(* rows, and a deleted post is taken out of every feed.  Authors with more *)
(* than Cap followers are left to the readers, who ask for their posts.    *)
(*                                                                         *)
(* PostgreSQL runs at READ COMMITTED: a statement sees what is committed,  *)
(* an insert waits for an open transaction that inserts or deletes the     *)
(* same row (uq_feed_item, ON CONFLICT DO NOTHING).                        *)
(***************************************************************************)
EXTENDS Integers, Sequences, FiniteSets, FiniteSetsExt

CONSTANTS
    Readers,    \* people who may follow the author
    Posts,      \* identifiers of the posts the author may write
    Conns,      \* database connections of requests and of the job
    NoOne,      \* no reader, no post
    Cap,        \* settings.feed_fanout_max_followers
    Batch,      \* per_source_limit: posts the job takes at a time
    Backfill,   \* settings.feed_backfill_limit: posts a new follower gets
    MaxChanges  \* bound: follows, unfollows, deletions and failures, together

VARIABLES
    posts,    \* rows of the source: whether others see it, and its created_at
    clock,    \* the last created_at given
    fans,     \* active rows of user_follows
    feed,     \* rows of feed_items: pairs <<reader, post>>
    mark,     \* the watermark of feed_fanout_state
    bigv,     \* the cached answer whether the author is over the cap
    tx,       \* what each connection is doing
    excused,  \* history: pairs the job and the backfill may have missed
    raced,    \* history: rows committed while their reason went away
    changes   \* follows, unfollows, deletions and failures so far

vars == <<posts, clock, fans, feed, mark, bigv, tx, excused, raced, changes>>
unseen == <<clock, bigv>>

Pairs == Readers \X Posts
Idle == [op |-> "idle", who |-> NoOne, todo |-> <<>>, upto |-> 0,
         add |-> {}, drop |-> {}, left |-> {}]

-----------------------------------------------------------------------------
(* The posts.                                                              *)

Stamp(p) == posts[p].at
Live == {p \in Posts : posts[p].st = "live"}
Over(S) == Cardinality(S) > Cap

\* create_item flushes the row: created_at is given, nobody sees it yet.
Create(p) ==
    /\ posts[p].st = "none"
    /\ clock' = clock + 1
    /\ posts' = [posts EXCEPT ![p] = [st |-> "hidden", at |-> clock + 1]]
    /\ UNCHANGED <<fans, feed, mark, bigv, tx, excused, raced, changes>>

\* A post that appears after a younger one may lie behind the watermark, and
\* a reader whose follow is not committed yet has asked before it was there.
MayMiss(p) ==
    IF \E q \in Posts : posts[q].st \in {"live", "gone"} /\ Stamp(q) > Stamp(p)
    THEN Readers \X {p}
    ELSE {tx[c].who : c \in {d \in Conns : tx[d].op = "follow"}} \X {p}

Appear(p) ==
    /\ posts[p].st = "hidden"
    /\ posts' = [posts EXCEPT ![p].st = "live"]
    /\ excused' = excused \cup MayMiss(p)
    /\ UNCHANGED <<unseen, fans, feed, mark, tx, raced, changes>>

-----------------------------------------------------------------------------
(* Transactions.                                                           *)

Others(c) == Conns \ {c}
Dropping(c) == UNION {tx[d].drop : d \in Others(c)}
Adding(c) == UNION {tx[d].add : d \in Others(c)}

\* The rows an insert really adds; it cannot run while Blocked.
Added(rows) == rows \ feed
Blocked(c, rows) == rows \cap (Dropping(c) \cup Adding(c)) # {}

Counted == changes < MaxChanges /\ changes' = changes + 1
Step(c, t) == tx' = [tx EXCEPT ![c] = t]
PairFree(r) == \A c \in Conns : tx[c].who # r

\* bigv_authors: the cached answer, or the count of the followers as the
\* transaction sees it, which is then cached.
BigV(S) == IF bigv = "unknown" THEN (IF Over(S) THEN "yes" ELSE "no") ELSE bigv

\* The latest Backfill posts of those that can be seen.
Latest == {p \in Live : Cardinality({q \in Live : Stamp(q) > Stamp(p)}) < Backfill}

\* follow_user: a new or revived row, then backfill_author, if there is to be
\* a backfill at all, for an author who is not over the cap.
Follow(c, r) ==
    /\ tx[c] = Idle /\ Counted
    /\ r \notin fans /\ PairFree(r)
    /\ LET big   == IF Backfill = 0 THEN bigv ELSE BigV(fans \cup {r})
           given == IF big = "yes" THEN {} ELSE {r} \X Latest
       IN /\ bigv' = big
          /\ ~Blocked(c, given)
          /\ Step(c, [Idle EXCEPT !.op = "follow", !.who = r, !.add = Added(given),
                                  !.left = ({r} \X Live) \ given])
    /\ UNCHANGED <<posts, clock, fans, feed, mark, excused, raced>>

\* remove_author_items deletes the rows that are committed.
RowsOfAuthor(r) == {x \in feed : x[1] = r}

Unfollow(c, r) ==
    /\ tx[c] = Idle /\ Counted
    /\ r \in fans /\ PairFree(r)
    /\ RowsOfAuthor(r) \cap Dropping(c) = {}
    /\ Step(c, [Idle EXCEPT !.op = "unfollow", !.who = r, !.drop = RowsOfAuthor(r)])
    /\ UNCHANGED <<posts, clock, fans, feed, mark, bigv, excused, raced>>

\* remove_source_item.
RowsOfPost(p) == {x \in feed : x[2] = p}

\* delete_item marks the post and takes it out of the feeds.
Delete(c, p) ==
    /\ tx[c] = Idle /\ Counted
    /\ p \in Live /\ PairFree(p)
    /\ RowsOfPost(p) \cap Dropping(c) = {}
    /\ Step(c, [Idle EXCEPT !.op = "delete", !.who = p, !.drop = RowsOfPost(p)])
    /\ UNCHANGED <<posts, clock, fans, feed, mark, bigv, excused, raced>>

-----------------------------------------------------------------------------
(* The fan-out job.                                                        *)

\* Faulty variant of Fresh: the first post after the watermark is passed over.
FreshLater == {p \in Live : Stamp(p) > mark + 1}

\* The posts after the watermark that can be seen.
Fresh == {p \in Live : Stamp(p) > mark}

\* The first Batch of them, oldest first.
InOrder(S) ==
    [i \in 1..Min({Batch, Cardinality(S)}) |->
       CHOOSE p \in S : Cardinality({q \in S : Stamp(q) < Stamp(p)}) = i - 1]

\* Faulty variant of NewMark: the watermark is moved to the present.
NewMarkNow(items) == clock

\* The watermark goes to the last post of the batch.
NewMark(items) == Stamp(items[Len(items)])

\* fanout_batch: read the watermark and the posts after it.
Scan(c) ==
    /\ tx[c] = Idle
    /\ Fresh # {}
    /\ LET items == InOrder(Fresh) IN
       Step(c, [Idle EXCEPT !.op = "fan", !.todo = items, !.upto = NewMark(items)])
    /\ UNCHANGED <<posts, unseen, fans, feed, mark, excused, raced, changes>>

\* _fanout_item: the followers of this moment get the next post of the batch,
\* unless there are too many of them.
FanOut(c) ==
    /\ tx[c].todo # <<>>
    /\ LET rows == fans \X {Head(tx[c].todo)} IN
       IF Over(fans)
       THEN Step(c, [tx[c] EXCEPT !.todo = Tail(@), !.left = @ \cup rows])
       ELSE /\ ~Blocked(c, rows)
            /\ Step(c, [tx[c] EXCEPT !.todo = Tail(@), !.add = @ \cup Added(rows)])
    /\ UNCHANGED <<posts, unseen, fans, feed, mark, excused, raced, changes>>

-----------------------------------------------------------------------------
(* The end of a transaction.                                               *)

\* A row comes too late when its post is deleted or its reader gone, or when
\* the transaction that does so has already taken out the rows it saw.
Unfounded(c) ==
    {x \in tx[c].add :
       \/ posts[x[2]].st = "gone"
       \/ x[1] \notin fans /\ tx[c].who # x[1]
       \/ \E d \in Others(c) : /\ tx[d].op \in {"unfollow", "delete"}
                               /\ tx[d].who \in {x[1], x[2]}}

\* Posts that no later batch has: they are behind the watermark, or will be
\* when a running job commits.
Passed(p) ==
    \/ Stamp(p) <= mark
    \/ \E d \in Conns : tx[d].op = "fan" /\ Stamp(p) <= tx[d].upto

Commit(c) ==
    /\ tx[c] # Idle /\ tx[c].todo = <<>>
    /\ feed' = (feed \ tx[c].drop) \cup tx[c].add
    /\ mark' = IF tx[c].op = "fan" THEN tx[c].upto ELSE mark
    /\ fans' = CASE tx[c].op = "follow"   -> fans \cup {tx[c].who}
                 [] tx[c].op = "unfollow" -> fans \ {tx[c].who}
                 [] OTHER                 -> fans
    /\ posts' = IF tx[c].op = "delete"
                THEN [posts EXCEPT ![tx[c].who].st = "gone"] ELSE posts
    /\ excused' = excused \cup {x \in tx[c].left : Passed(x[2])}
    /\ raced' = (raced \cup Unfounded(c)) \cap feed'
    /\ Step(c, Idle)
    /\ UNCHANGED <<unseen, changes>>

\* An exception or a crash: nothing of it is committed, the watermark stays.
Fail(c) ==
    /\ tx[c] # Idle /\ Counted
    /\ Step(c, Idle)
    /\ UNCHANGED <<posts, unseen, fans, feed, mark, excused, raced>>

\* A timeline is read, and asks whether the author is over the cap.
ReadBigV ==
    /\ bigv = "unknown"
    /\ bigv' = BigV(fans)
    /\ UNCHANGED <<posts, clock, fans, feed, mark, tx, excused, raced, changes>>

\* The cached answer expires after _BIGV_CACHE_TTL_S.
ForgetBigV ==
    /\ bigv # "unknown" /\ bigv' = "unknown"
    /\ UNCHANGED <<posts, clock, fans, feed, mark, tx, excused, raced, changes>>

-----------------------------------------------------------------------------
Init ==
    /\ posts = [p \in Posts |-> [st |-> "none", at |-> 0]]
    /\ fans \in SUBSET Readers
    /\ clock = 0 /\ mark = 0 /\ changes = 0
    /\ feed = {} /\ excused = {} /\ raced = {}
    /\ bigv = "unknown"
    /\ tx = [c \in Conns |-> Idle]

Next ==
    \/ \E p \in Posts : Create(p) \/ Appear(p)
    \/ \E c \in Conns :
          \/ \E r \in Readers : Follow(c, r) \/ Unfollow(c, r)
          \/ \E p \in Posts : Delete(c, p)
          \/ Scan(c) \/ FanOut(c) \/ Commit(c) \/ Fail(c)
    \/ ReadBigV \/ ForgetBigV

Spec == Init /\ [][Next]_vars

\* The job is a cron job, run every two minutes on some connection, and a
\* transaction that was begun goes on.
FairSpec ==
    /\ Spec
    /\ WF_vars(\E c \in Conns : Scan(c))
    /\ \A c \in Conns : WF_vars(FanOut(c) \/ Commit(c))

-----------------------------------------------------------------------------
(* Properties.                                                             *)

Txs == [op: {"idle", "follow", "unfollow", "delete", "fan"},
        who: Readers \cup Posts \cup {NoOne}, todo: Seq(Posts), upto: Nat,
        add: SUBSET Pairs, drop: SUBSET Pairs, left: SUBSET Pairs]

\* Rows, watermark and transactions have their shape.
TypeOK ==
    /\ posts \in [Posts -> [st: {"none", "hidden", "live", "gone"}, at: Nat]]
    /\ clock \in Nat /\ mark \in 0..clock
    /\ fans \subseteq Readers /\ feed \subseteq Pairs
    /\ bigv \in {"unknown", "yes", "no"}
    /\ tx \in [Conns -> Txs]
    /\ excused \subseteq Pairs /\ raced \subseteq feed
    /\ changes \in 0..MaxChanges

\* Every follower has every post behind the watermark in the feed, through
\* overlapping jobs, failures, and follows that race the job.  Excused are
\* posts that appear after a younger one, posts that appear while the follow
\* is being committed, posts left to the readers by the cap, and posts older
\* than those a follow backfills that the job had passed by then.
FansServed ==
    \A r \in fans, p \in Live :
       Stamp(p) <= mark /\ <<r, p>> \notin excused => <<r, p>> \in feed

\* A feed has only posts that are there, of an author the reader follows.  The
\* exceptions are rows that the job or a follow, having read the post or the
\* follower before, commits during or after the deletion or the unfollow.
RowsJustified ==
    \A x \in feed \ raced : x[1] \in fans /\ posts[x[2]].st # "gone"

\* A timeline has what it should and nothing else (fan_out_posts, follow,
\* unfollow, delete).
TimelineSound == FansServed /\ RowsJustified

\* A post that can be seen reaches every follower, although the job takes
\* the posts in batches, fails, and may set the watermark back when it
\* overlaps itself.
Delivered ==
    \A r \in Readers, p \in Posts :
       r \in fans /\ p \in Live ~>
          <<r, p>> \in feed \cup excused \/ r \notin fans \/ p \notin Live

=============================================================================

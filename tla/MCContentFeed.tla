---------------------------- MODULE MCContentFeed ----------------------------
(***************************************************************************)
(* ContentFeed with names of its own, so that it can stand beside the      *)
(* counters of the content.                                                *)
(***************************************************************************)
EXTENDS Integers, Sequences, FiniteSets

CONSTANTS
    Readers, Posts, Cap, Batch, Backfill, MaxChanges,     \* of ContentFeed
    FeedConns, Nobody                                     \* its Conns and NoOne

VARIABLES posts, clock, fans, feed, mark, bigv, feedTx, excused, raced, changes

Feed == INSTANCE ContentFeed WITH Conns <- FeedConns, NoOne <- Nobody, tx <- feedTx

ASSUME FeedAssumption ==
    /\ Cap \in Nat /\ Batch \in Nat \ {0} /\ Backfill \in Nat /\ MaxChanges \in Nat
    /\ Nobody \notin Readers \cup Posts
    /\ IsFiniteSet(Readers) /\ IsFiniteSet(Posts)

FeedSpec == Feed!FairSpec

\* A timeline has what it should and nothing else (fan_out_posts, follow,
\* unfollow, delete).
TimelineSound == Feed!TimelineSound

\* A post that can be seen reaches every follower, although the job takes
\* the posts in batches, fails, and may set the watermark back when it
\* overlaps itself (fan_out_source).
Delivered == Feed!Delivered

==============================================================================

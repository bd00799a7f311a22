--------------------------- MODULE ContentProofs ---------------------------
(***************************************************************************)
(* What people see of the content: the counters and floors of an item are  *)
(* exact for any number of people, comments, connections and failures, and *)
(* timelines are complete and justified for any number of readers, posts,  *)
(* connections and failures, any cap and any batch size.                   *)
(***************************************************************************)
EXTENDS Engagement, MCContentFeed, FiniteSetTheorems, WellFoundedInduction, TLAPS

-----------------------------------------------------------------------------
(* Engagement: the inductive invariant                                     *)

\* Requests that hold the row of the item from their first statement on.
Locking == {"like", "unlike", "comment", "praise", "unpraise"}
OnFavs == {"favorite", "unfavorite"}

\* The bump a request carries in write-through mode.
BumpOf(op) ==
    CASE op = "like"       -> Only("like", 1)
      [] op = "unlike"     -> Only("like", -1)
      [] op = "comment"    -> Only("comment", 1)
      [] op = "stamped"    -> Only("comment", -1)
      [] op = "favorite"   -> Only("bookmark", 1)
      [] op = "unfavorite" -> Only("bookmark", -1)
      [] OTHER             -> Zero

\* What a request has read is still so when it commits.
HoldsItem(p) == tx[p].op \in Locking => item.lock = p /\ ~item.deleted

LikeFits(p) ==
    /\ tx[p].op = "like" => tx[p].user \in Users \ likes
    /\ tx[p].op = "unlike" => tx[p].user \in likes

FavFits(p) ==
    /\ tx[p].op = "favorite" => tx[p].user \in Users \ favs
    /\ tx[p].op = "unfavorite" => tx[p].user \in favs
    /\ \A q \in Conns : tx[p].op \in OnFavs /\ tx[q].op \in OnFavs /\ tx[p].user = tx[q].user
                          => p = q

CommentFits(p) ==
    /\ tx[p].op = "comment" =>
         /\ tx[p].comment \in Comments /\ ~Written(tx[p].comment)
         /\ tx[p].floor <= events + 1
         /\ \A c \in Comments : comments[c].floor < tx[p].floor
    /\ tx[p].op \in {"delete", "stamped", "praise", "unpraise"} =>
         tx[p].comment \in Comments /\ Written(tx[p].comment)

PraiseFits(p) ==
    /\ tx[p].op \in {"praise", "unpraise"} => tx[p].user \in Users
    /\ tx[p].op = "praise" => <<tx[p].comment, tx[p].user>> \notin commentLikes
    /\ tx[p].op = "unpraise" => <<tx[p].comment, tx[p].user>> \in commentLikes

TxFits(p) ==
    /\ HoldsItem(p) /\ LikeFits(p) /\ FavFits(p) /\ CommentFits(p) /\ PraiseFits(p)
    /\ mode = "through" => tx[p].bump = BumpOf(tx[p].op)

\* A comment that is not written yet is empty; one that is written is live
\* until it is stamped.
CommentOK(c) ==
    /\ comments[c].floor <= events + 1
    /\ comments[c].live <=> Written(c) /\ comments[c].stamps = 0
    /\ ~Written(c) => /\ comments[c].stamps = 0
                      /\ \A u \in Users : <<c, u>> \notin commentLikes

Once == \A c \in Comments : comments[c].stamps <= 1

\* Without a double deletion the write-through mode leaves the jobs nothing
\* to do.
JobsIdle ==
    mode = "through" =>
        /\ pending = Zero /\ flush = NoFlush
        /\ Once => scan.seen = scan.real

IInv ==
    /\ TypeOK /\ (\A p \in Conns : TxFits(p)) /\ (\A c \in Comments : CommentOK(c))
    /\ JobsIdle /\ CountsSound

-----------------------------------------------------------------------------
(* Numbers and sets                                                        *)

\* greatest(a, 0).
LEMMA MaxZero ==
  ASSUME NEW a \in Int
  PROVE  Max({a, 0}) = IF a >= 0 THEN a ELSE 0
<1> DEFINE S == {a, 0}
           m == IF a >= 0 THEN a ELSE 0
<1>1. m \in S /\ \A y \in S : m >= y
  OBVIOUS
<1>2. \A x \in S : (\A y \in S : x >= y) => x = m
  OBVIOUS
<1> HIDE DEF S, m
<1>3. Max(S) = m
  BY <1>1, <1>2 DEF Max
<1> QED
  BY <1>3 DEF S, m

\* A set of numbers that is bounded has a greatest element.
LEMMA MaxFacts ==
  ASSUME NEW S \in SUBSET Nat, S # {}, NEW n \in Nat, \A x \in S : x <= n
  PROVE  Max(S) \in S /\ \A x \in S : x <= Max(S)
<1> DEFINE R == OpToRel(<, Nat)
           T == {k \in Nat : \A x \in S : x <= k}
<1>1. IsWellFoundedOn(R, Nat)
  BY NatLessThanWellFounded
<1>2. T # {} /\ T \subseteq Nat
  OBVIOUS
<1>3. PICK k \in T : \A y \in T : ~(<<y, k>> \in R)
  BY <1>1, <1>2, WFMin
<1>4. \A a, b \in Nat : a < b => <<a, b>> \in R
  BY DEF OpToRel
<1> HIDE DEF R
<1>5. k \in S
  <2> SUFFICES ASSUME k \notin S PROVE FALSE
    OBVIOUS
  <2>1. PICK x \in S : TRUE
    OBVIOUS
  <2>2. k \in Nat /\ k > 0 /\ k - 1 \in Nat /\ \A y \in S : y <= k - 1
    BY <2>1
  <2>3. k - 1 \in T /\ k - 1 < k
    BY <2>2
  <2>4. <<k - 1, k>> \in R
    BY <1>4, <2>2, <2>3
  <2> QED
    BY <1>3, <2>3, <2>4
<1> QED
  BY <1>5 DEF Max

\* One row more, one row less.
LEMMA OneMore ==
  ASSUME NEW S, IsFiniteSet(S), NEW x, x \notin S
  PROVE  /\ Cardinality(S \cup {x}) = Cardinality(S) + 1
         /\ Cardinality(S) \in Nat
<1>1. Cardinality(S \cup {x}) = Cardinality(S) + 1
  BY FS_AddElement
<1> QED
  BY <1>1, FS_CardinalityType

\* A set without one of its elements has one element less.
LEMMA OneLess ==
  ASSUME NEW S, IsFiniteSet(S), NEW x \in S
  PROVE  /\ Cardinality(S \ {x}) = Cardinality(S) - 1
         /\ Cardinality(S) \in Nat \ {0}
<1>1. Cardinality(S \ {x}) = Cardinality(S) - 1
  BY FS_RemoveElement
<1>2. IsFiniteSet(S \ {x})
  BY FS_Subset
<1> QED
  BY <1>1, <1>2, FS_CardinalityType

\* A bump of nothing changes no column, and columns stay natural numbers.
LEMMA BumpedType ==
  ASSUME NEW k \in [Fields -> Nat], NEW d \in [Fields -> Int]
  PROVE  /\ Bumped(k, d) \in [Fields -> Nat]
         /\ \A f \in Fields : k[f] + d[f] >= 0 => Bumped(k, d)[f] = k[f] + d[f]
<1>1. \A f \in Fields : k[f] + d[f] \in Int
  OBVIOUS
<1>2. \A f \in Fields : Max({k[f] + d[f], 0})
                          = IF k[f] + d[f] >= 0 THEN k[f] + d[f] ELSE 0
  BY <1>1, MaxZero
<1>3. \A f \in Fields : Max({k[f] + d[f], 0}) \in Nat
  BY <1>1, <1>2
<1> QED
  BY <1>2, <1>3 DEF Bumped

\* Increments of counters are integers by field.
LEMMA DeltaTypes ==
  /\ Zero \in [Fields -> Int] /\ Zero \in [Fields -> Nat]
  /\ \A f \in Fields, d \in Int : Only(f, d) \in [Fields -> Int]
  /\ \A f \in Fields, d \in Nat : Only(f, d) \in [Fields -> Nat]
BY DEF Zero, Only

\* Adding nothing leaves the counters as they are.
LEMMA BumpedZero ==
  ASSUME NEW k \in [Fields -> Nat]
  PROVE  Bumped(k, Zero) = k
<1>1. \A f \in Fields : Zero[f] = 0 /\ k[f] + Zero[f] = k[f] /\ k[f] >= 0
  BY DEF Zero
<1>2. \A f \in Fields : Bumped(k, Zero)[f] = k[f]
  BY <1>1, BumpedType, DeltaTypes
<1>3. Bumped(k, Zero) = [f \in Fields |-> Bumped(k, Zero)[f]]
  BY DEF Bumped
<1>4. k = [f \in Fields |-> k[f]]
  OBVIOUS
<1> QED
  BY <1>2, <1>3, <1>4

-----------------------------------------------------------------------------
(* What the details say                                                    *)

\* A step that only moves the locks of the comments.
SameComments ==
    /\ comments' \in [Comments -> Rows]
    /\ \A c \in Comments : /\ comments'[c].floor = comments[c].floor
                           /\ comments'[c].live = comments[c].live
                           /\ comments'[c].stamps = comments[c].stamps

Live == {c \in Comments : comments[c].live}
Likers(c) == {u \in Users : <<c, u>> \in commentLikes}

\* Detail tables are finite, so their rows can be counted.
LEMMA Finite ==
  ASSUME TypeOK
  PROVE  /\ IsFiniteSet(likes) /\ IsFiniteSet(favs) /\ IsFiniteSet(Live)
         /\ \A c \in Comments : IsFiniteSet(Likers(c))
<1>1. \A S \in SUBSET Users : IsFiniteSet(S)
  BY FS_Subset, DetailsFinite
<1>2. \A S \in SUBSET Comments : IsFiniteSet(S)
  BY FS_Subset, DetailsFinite
<1> QED
  BY <1>1, <1>2 DEF TypeOK, Live, Likers

\* The three counts that a reconciliation takes.
LEMMA RealIs ==
  /\ Real = [f \in Fields |-> Real[f]]
  /\ Real["like"] = Cardinality(likes)
  /\ Real["comment"] = Cardinality(Live)
  /\ Real["bookmark"] = Cardinality(favs)
<1>1. Real = [f \in Fields |-> Real[f]]
  <2> DEFINE e(f) == CASE f = "like"     -> Cardinality(likes)
                       [] f = "comment"  -> Cardinality({c \in Comments : comments[c].live})
                       [] f = "bookmark" -> Cardinality(favs)
  <2>1. Real = [f \in Fields |-> e(f)]
    BY DEF Real
  <2> HIDE DEF e
  <2> QED
    BY <2>1
<1>2. "like" \in Fields /\ "comment" \in Fields /\ "bookmark" \in Fields
  BY DEF Fields
<1>3. Real["like"] = Cardinality(likes)
  BY <1>2 DEF Real
<1>4. Real["comment"] = Cardinality(Live)
  BY <1>2 DEF Real, Live
<1>5. Real["bookmark"] = Cardinality(favs)
  BY <1>2 DEF Real
<1> QED
  BY <1>1, <1>3, <1>4, <1>5

\* The same in the next state.
LEMMA RealIsNext ==
  (/\ Real = [f \in Fields |-> Real[f]]
   /\ Real["like"] = Cardinality(likes)
   /\ Real["comment"] = Cardinality(Live)
   /\ Real["bookmark"] = Cardinality(favs))'
BY RealIs, PTL

\* Counts of rows are natural numbers.
LEMMA RealType ==
  ASSUME TypeOK
  PROVE  Real \in [Fields -> Nat]
<1>1. /\ Cardinality(likes) \in Nat /\ Cardinality(favs) \in Nat
      /\ Cardinality(Live) \in Nat
  BY Finite, FS_CardinalityType
<1>2. \A f \in Fields : Real[f] \in Nat
  BY <1>1, RealIs DEF Fields
<1>3. [f \in Fields |-> Real[f]] \in [Fields -> Nat]
  BY <1>2
<1>4. Real = [f \in Fields |-> Real[f]]
  BY RealIs
<1> QED
  BY <1>3, <1>4, Zenon

\* The same in the next state.
LEMMA RealTypeNext == (TypeOK => Real \in [Fields -> Nat])'
<1>1. TypeOK => Real \in [Fields -> Nat]
  BY RealType
<1> QED
  BY <1>1, PTL

\* Steps that leave the details alone leave their numbers alone.
LEMMA RealKept ==
  ASSUME TypeOK, SameComments, likes' = likes, favs' = favs
  PROVE  Real' = Real
<1>1. Live' = Live
  BY DEF SameComments, Live, TypeOK
<1>2. /\ Real' = [f \in Fields |-> Real'[f]]
      /\ Real'["like"] = Cardinality(likes')
      /\ Real'["comment"] = Cardinality(Live')
      /\ Real'["bookmark"] = Cardinality(favs')
  BY RealIsNext
<1>3. \A f \in Fields : Real'[f] = Real[f]
  BY <1>1, <1>2, RealIs DEF Fields
<1>4. [f \in Fields |-> Real'[f]] = [f \in Fields |-> Real[f]]
  BY <1>3
<1>5. Real' = [f \in Fields |-> Real'[f]] /\ Real = [f \in Fields |-> Real[f]]
  BY <1>2, RealIs, Zenon
<1> QED
  BY <1>4, <1>5, Zenon

-----------------------------------------------------------------------------
(* The start                                                               *)

\* An idle connection has nothing to add.
LEMMA IdleFacts ==
  /\ Idle \in Requests /\ Idle.op = "idle" /\ Idle.bump = Zero
  /\ BumpOf("idle") = Zero
  /\ NoScan.seen = NoScan.real
BY DeltaTypes DEF Idle, Request, Requests, BumpOf, NoScan

\* No details, no counts, every connection idle.
LEMMA StartHolds == Init => IInv
<1> SUFFICES ASSUME Init PROVE IInv
  OBVIOUS
<1> USE FirstIsComment, DetailsFinite, BoundsAreNat
<1>1. TypeOK
  <2>1. item \in Items
    <3>1. Only("comment", 1) \in [Fields -> Nat]
      BY DeltaTypes DEF Fields
    <3> QED
      BY <3>1 DEF Init, Items, Holders
  <2>2. NoComment \in Rows /\ [NoComment EXCEPT !.floor = 1, !.live = TRUE] \in Rows
    BY DEF NoComment, Rows, Holders
  <2>3. comments \in [Comments -> Rows]
    BY <2>2 DEF Init
  <2>4. tx \in [Conns -> Requests]
    BY IdleFacts DEF Init
  <2>5. /\ NoScan \in [op: {"idle", "compare", "write"},
                       seen: [Fields -> Nat], real: [Fields -> Nat]]
        /\ NoFlush \in [op: {"idle", "apply"}, bump: [Fields -> Int]]
    BY DeltaTypes DEF NoScan, NoFlush
  <2> QED
    BY <2>1, <2>3, <2>4, <2>5, DeltaTypes DEF Init, TypeOK
<1>2. \A c \in Comments :
        /\ comments[c].floor = IF c = First THEN 1 ELSE 0
        /\ comments[c].live <=> c = First
        /\ comments[c].stamps = 0 /\ comments[c].likes = 0
  BY DEF Init, NoComment
<1>3. ASSUME NEW p \in Conns PROVE TxFits(p)
  <2>1. tx[p] = Idle /\ \A q \in Conns : tx[q] = Idle
    BY DEF Init
  <2> QED
    BY <2>1, IdleFacts DEF TxFits, HoldsItem, LikeFits, FavFits, CommentFits,
         PraiseFits, Locking, OnFavs
<1>4. ASSUME NEW c \in Comments PROVE CommentOK(c)
  <2>1. events = 0 /\ commentLikes = {}
    BY DEF Init
  <2> QED
    BY <1>2, <2>1 DEF CommentOK, Written
<1>5. JobsIdle
  BY IdleFacts DEF Init, JobsIdle
<1>6. Exact
  <2>1. Live = {First}
    BY <1>2 DEF Live
  <2>2. Cardinality(Live) = 1 /\ Cardinality(likes) = 0 /\ Cardinality(favs) = 0
    BY <2>1, FS_Singleton, FS_EmptySet DEF Init
  <2>3. \A f \in Fields : Real[f] = Only("comment", 1)[f]
    BY <2>2, RealIs DEF Fields, Only
  <2>4. Only("comment", 1) = [f \in Fields |-> Only("comment", 1)[f]]
    BY DEF Only
  <2>5. Real = Only("comment", 1)
    BY <2>3, <2>4, RealIs
  <2> QED
    BY <2>5 DEF Exact, Init
<1>7. CommentLikesExact
  <2>1. \A c \in Comments : {u \in Users : <<c, u>> \in commentLikes} = {}
    BY DEF Init
  <2> QED
    BY <1>2, <2>1, FS_EmptySet DEF CommentLikesExact
<1>8. FloorsDistinct
  BY <1>2 DEF FloorsDistinct, Written
<1> QED
  BY <1>1, <1>3, <1>4, <1>5, <1>6, <1>7, <1>8 DEF IInv, CountsSound, DriftExplained

-----------------------------------------------------------------------------
(* Steps of one connection that write no detail                            *)

\* The connection has no say over the others' locks.
LocksKept(p) ==
    \A q \in Conns \ {p} :
       item.lock = q => item'.lock = q /\ item'.deleted = item.deleted

\* What another request has read still holds after a step of p that respects
\* the row locks.
LEMMA OthersKeep ==
  ASSUME IInv, NEW p \in Conns, NEW q \in Conns \ {p}, TxFits(p)',
         SameComments, LocksKept(p), events' \in Nat, events' >= events,
         UNCHANGED <<mode, likes, favs, commentLikes>>,
         tx' \in [Conns -> Requests], \A r \in Conns \ {p} : tx'[r] = tx[r]
  PROVE  TxFits(q)'
<1>0. TxFits(q) /\ tx'[q] = tx[q] /\ tx[q] \in Requests
  BY DEF IInv, TypeOK
<1>1. HoldsItem(q)'
  BY <1>0 DEF TxFits, HoldsItem, LocksKept
<1>2. LikeFits(q)'
  BY <1>0 DEF TxFits, LikeFits
<1>3. FavFits(q)'
  <2>1. \A r \in Conns \ {p} : FavFits(r) /\ tx'[r] = tx[r]
    BY DEF IInv, TxFits
  <2> QED
    BY <1>0, <2>1 DEF TxFits, FavFits
<1>4. CommentFits(q)'
  <2>1. events \in Nat /\ tx[q].floor \in Nat /\ \A c \in Comments : comments[c].floor \in Nat
    BY <1>0, BoundsAreNat DEF IInv, TypeOK, Requests, Rows
  <2>2. \A c \in Comments : comments'[c].floor = comments[c].floor
    BY DEF SameComments
  <2> QED
    BY <1>0, <2>1, <2>2 DEF TxFits, CommentFits, Written
<1>5. PraiseFits(q)'
  BY <1>0 DEF TxFits, PraiseFits
<1> QED
  BY <1>0, <1>1, <1>2, <1>3, <1>4, <1>5 DEF TxFits

\* Comments whose numbers are not written stay in order.
LEMMA CommentsKeep ==
  ASSUME IInv, SameComments, events' \in Nat, events' >= events,
         commentLikes' = commentLikes
  PROVE  /\ \A c \in Comments : CommentOK(c)'
         /\ FloorsDistinct'
         /\ Once' <=> Once
<1>1. /\ events \in Nat
      /\ \A c \in Comments : comments[c].floor \in Nat /\ comments[c].stamps \in Nat
  BY BoundsAreNat DEF IInv, TypeOK, Rows
<1>2. \A c \in Comments : CommentOK(c)'
  <2> TAKE c \in Comments
  <2>1. CommentOK(c)
    BY DEF IInv
  <2> QED
    BY <1>1, <2>1 DEF CommentOK, SameComments, Written
<1>3. FloorsDistinct'
  BY DEF IInv, CountsSound, FloorsDistinct, SameComments, Written
<1>4. Once' <=> Once
  BY DEF Once, SameComments
<1> QED
  BY <1>2, <1>3, <1>4

\* A step of a request before its commit: no detail row and no counter changes.
LEMMA ConnStep ==
  ASSUME IInv, TypeOK', NEW p \in Conns, TxFits(p)',
         SameComments, \A c \in Comments : comments'[c].likes = comments[c].likes,
         LocksKept(p), item'.count = item.count, events' >= events,
         UNCHANGED <<mode, likes, favs, commentLikes, jobs>>,
         mode = "through" => pending' = pending,
         \A r \in Conns \ {p} : tx'[r] = tx[r]
  PROVE  IInv'
<1>0. TypeOK /\ events' \in Nat /\ tx' \in [Conns -> Requests]
  BY BoundsAreNat DEF IInv, TypeOK
<1>1. \A q \in Conns : TxFits(q)'
  BY <1>0, OthersKeep
<1>2. (\A c \in Comments : CommentOK(c)') /\ FloorsDistinct' /\ (Once' <=> Once)
  BY <1>0, CommentsKeep
<1>3. JobsIdle'
  BY <1>2 DEF IInv, JobsIdle, jobs
<1>4. DriftExplained'
  <2>1. Real' = Real
    BY <1>0, RealKept
  <2> QED
    BY <1>2, <2>1 DEF IInv, CountsSound, DriftExplained, Exact, Once
<1>5. CommentLikesExact'
  BY DEF IInv, CountsSound, CommentLikesExact
<1> QED
  BY <1>1, <1>2, <1>3, <1>4, <1>5 DEF IInv, CountsSound

\* lock_active: the item exists, is locked by p, and no one else has it.
LEMMA LockFacts ==
  ASSUME IInv, NEW p \in Conns, LockActive(p)
  PROVE  /\ item' \in Items /\ item'.lock = p /\ ~item'.deleted
         /\ item'.count = item.count /\ LocksKept(p)
         /\ \A q \in Conns : tx[q].op \notin Locking
<1>1. item \in Items
  BY DEF IInv, TypeOK
<1>2. /\ item' \in Items /\ item'.lock = p /\ ~item'.deleted
      /\ item'.count = item.count
  BY <1>1 DEF LockActive, Items, Holders
<1>3. LocksKept(p)
  BY ConnsFinite DEF LockActive, LocksKept
<1>4. \A q \in Conns : tx[q].op \notin Locking
  BY ConnsFinite DEF LockActive, IInv, TxFits, HoldsItem
<1> QED
  BY <1>2, <1>3, <1>4

\* A bump is kept for the commit in write-through mode, or collected in Redis.
LEMMA NotedFacts ==
  ASSUME IInv, NEW direct \in Channels, NEW d \in [Fields -> Int], Noted(direct, d)
  PROVE  /\ pending' \in [Fields -> Int] /\ Bumps(direct, d) \in [Fields -> Int]
         /\ mode = "through" => pending' = pending /\ Bumps(direct, d) = d
<1>1. pending \in [Fields -> Int] /\ direct \in BOOLEAN
  BY DEF IInv, TypeOK, Channels
<1>2. [f \in Fields |-> pending[f] + d[f]] \in [Fields -> Int]
  BY <1>1
<1>3. mode = "through" => direct
  BY DEF Channels
<1> QED
  BY <1>1, <1>2, <1>3, DeltaTypes DEF Noted, Bumps

\* The frame of a step that gives one connection a new request.
LEMMA NewRequest ==
  ASSUME IInv, NEW p \in Conns, NEW new \in Requests, tx' = [tx EXCEPT ![p] = new],
         item' \in Items, comments' \in [Comments -> Rows],
         pending' \in [Fields -> Int], events' \in 0..MaxEvents,
         UNCHANGED <<mode, likes, favs, commentLikes, jobs>>
  PROVE  TypeOK' /\ tx'[p] = new /\ \A r \in Conns \ {p} : tx'[r] = tx[r]
<1>1. tx \in [Conns -> Requests]
  BY DEF IInv, TypeOK
<1>2. tx' \in [Conns -> Requests]
  BY <1>1
<1>3. TypeOK'
  BY <1>2 DEF IInv, TypeOK, jobs
<1> QED
  BY <1>1, <1>3

\* The bound on interactions and failures holds.
LEMMA CountedFacts ==
  ASSUME IInv, Counted
  PROVE  events' \in 0..MaxEvents /\ events' >= events /\ events' = events + 1
BY BoundsAreNat DEF IInv, TypeOK, Counted

\* Comments that nobody writes keep their state.
LEMMA SameWhenUnchanged ==
  ASSUME IInv, comments' = comments
  PROVE  /\ comments' \in [Comments -> Rows] /\ SameComments
         /\ \A c \in Comments : comments'[c].likes = comments[c].likes
BY DEF IInv, TypeOK, SameComments

\* like_item and unlike_item, up to the commit.
LEMMA LikeItemKeeps ==
  ASSUME IInv, NEW p \in Conns, NEW u \in Users, NEW on \in BOOLEAN, LikeItem(p, u, on)
  PROVE  IInv'
<1>0. /\ Begins(p) /\ LockActive(p) /\ Counted
      /\ on <=> u \notin likes
      /\ comments' = comments
      /\ UNCHANGED <<mode, likes, favs, commentLikes, jobs>>
  BY DEF LikeItem, Begins
<1> DEFINE d == Only("like", IF on THEN 1 ELSE -1)
           o == IF on THEN "like" ELSE "unlike"
<1>1. PICK direct \in Channels :
        /\ Noted(direct, d)
        /\ tx' = [tx EXCEPT ![p] = Request(o, u, NoOne, Bumps(direct, d))]
  BY DEF LikeItem
<1>2. d \in [Fields -> Int]
  <2>1. "like" \in Fields /\ (IF on THEN 1 ELSE -1) \in Int
    BY DEF Fields
  <2> QED
    BY <2>1, DeltaTypes
<1>3. d = BumpOf(o) /\ o \in Locking
  BY DEF BumpOf, Locking
<1> HIDE DEF d
<1> DEFINE new == Request(o, u, NoOne, Bumps(direct, d))
<1>4. /\ pending' \in [Fields -> Int] /\ Bumps(direct, d) \in [Fields -> Int]
      /\ mode = "through" => pending' = pending /\ Bumps(direct, d) = d
  BY <1>1, <1>2, NotedFacts
<1>5. /\ new \in Requests /\ new.op = o /\ new.user = u
      /\ new.bump = Bumps(direct, d)
  BY <1>4 DEF Request, Requests
<1>6. tx' = [tx EXCEPT ![p] = new]
  BY <1>1
<1> HIDE DEF new
<1>7. /\ item' \in Items /\ item'.lock = p /\ ~item'.deleted
      /\ item'.count = item.count /\ LocksKept(p)
  BY <1>0, LockFacts
<1>8. TypeOK' /\ tx'[p] = new /\ \A r \in Conns \ {p} : tx'[r] = tx[r]
  BY <1>0, <1>4, <1>5, <1>6, <1>7, CountedFacts, SameWhenUnchanged, NewRequest
<1>9. TxFits(p)'
  <2>1. tx'[p].op = o /\ tx'[p].user = u /\ o \in {"like", "unlike"}
    BY <1>5, <1>8
  <2>2. HoldsItem(p)'
    BY <1>7 DEF HoldsItem
  <2>3. LikeFits(p)'
    BY <1>0, <2>1 DEF LikeFits
  <2>4. FavFits(p)' /\ CommentFits(p)' /\ PraiseFits(p)'
    BY <2>1 DEF FavFits, CommentFits, PraiseFits, OnFavs
  <2>5. mode' = "through" => tx'[p].bump = BumpOf(tx'[p].op)
    BY <1>0, <1>3, <1>4, <1>5, <1>8
  <2> QED
    BY <2>2, <2>3, <2>4, <2>5 DEF TxFits
<1> QED
  BY <1>0, <1>4, <1>7, <1>8, <1>9, CountedFacts, SameWhenUnchanged, ConnStep

\* add_favorite and remove_favorite, up to the commit.
LEMMA FavoriteKeeps ==
  ASSUME IInv, NEW p \in Conns, NEW u \in Users, NEW on \in BOOLEAN, Favorite(p, u, on)
  PROVE  IInv'
<1>0. /\ Begins(p) /\ Counted
      /\ on <=> u \notin favs
      /\ ~Contended(u)
      /\ comments' = comments /\ item' = item
      /\ UNCHANGED <<mode, likes, favs, commentLikes, jobs>>
  BY DEF Favorite, Begins, rows
<1> DEFINE d == Only("bookmark", IF on THEN 1 ELSE -1)
           o == IF on THEN "favorite" ELSE "unfavorite"
<1>1. PICK direct \in Channels :
        /\ Noted(direct, d)
        /\ tx' = [tx EXCEPT ![p] = Request(o, u, NoOne, Bumps(direct, d))]
  BY DEF Favorite
<1>2. d \in [Fields -> Int]
  <2>1. "bookmark" \in Fields /\ (IF on THEN 1 ELSE -1) \in Int
    BY DEF Fields
  <2> QED
    BY <2>1, DeltaTypes
<1>3. d = BumpOf(o)
  BY DEF BumpOf
<1> HIDE DEF d
<1> DEFINE new == Request(o, u, NoOne, Bumps(direct, d))
<1>4. /\ pending' \in [Fields -> Int] /\ Bumps(direct, d) \in [Fields -> Int]
      /\ mode = "through" => pending' = pending /\ Bumps(direct, d) = d
  BY <1>1, <1>2, NotedFacts
<1>5. /\ new \in Requests /\ new.op = o /\ new.user = u
      /\ new.bump = Bumps(direct, d)
  BY <1>4 DEF Request, Requests
<1>6. tx' = [tx EXCEPT ![p] = new]
  BY <1>1
<1> HIDE DEF new
<1>7. item' \in Items /\ item'.count = item.count /\ LocksKept(p)
  BY <1>0 DEF IInv, TypeOK, LocksKept
<1>8. TypeOK' /\ tx'[p] = new /\ \A r \in Conns \ {p} : tx'[r] = tx[r]
  BY <1>0, <1>4, <1>5, <1>6, <1>7, CountedFacts, SameWhenUnchanged, NewRequest
<1>9. TxFits(p)'
  <2>1. tx'[p].op = o /\ tx'[p].user = u /\ o \in {"favorite", "unfavorite"}
    BY <1>5, <1>8
  <2>2. FavFits(p)'
    <3>1. \A q \in Conns \ {p} : tx'[q].op \in OnFavs => tx'[q].user # u
      BY <1>0, <1>8 DEF Contended, OnFavs
    <3> QED
      BY <1>0, <2>1, <3>1 DEF FavFits
  <2>3. HoldsItem(p)' /\ LikeFits(p)' /\ CommentFits(p)' /\ PraiseFits(p)'
    BY <2>1 DEF HoldsItem, LikeFits, CommentFits, PraiseFits, Locking
  <2>4. mode' = "through" => tx'[p].bump = BumpOf(tx'[p].op)
    BY <1>0, <1>3, <1>4, <1>5, <1>8
  <2> QED
    BY <2>2, <2>3, <2>4 DEF TxFits
<1> QED
  BY <1>0, <1>4, <1>7, <1>8, <1>9, CountedFacts, SameWhenUnchanged, ConnStep

\* The floor of a new comment is above every floor that was given.
LEMMA NextFloorFacts ==
  ASSUME IInv
  PROVE  /\ NextFloor \in Nat /\ NextFloor <= events + 2
         /\ \A c \in Comments : comments[c].floor < NextFloor
<1> DEFINE S == {comments[c].floor : c \in Comments}
<1>1. events \in Nat /\ \A c \in Comments : comments[c].floor \in Nat
  BY BoundsAreNat DEF IInv, TypeOK, Rows
<1>2. \A c \in Comments : comments[c].floor <= events + 1
  BY DEF IInv, CommentOK
<1>3. S \in SUBSET Nat /\ S # {} /\ \A x \in S : x <= events + 1
  BY <1>1, <1>2, FirstIsComment
<1>4. events + 1 \in Nat
  BY <1>1
<1> HIDE DEF S
<1>5. Max(S) \in S /\ \A x \in S : x <= Max(S)
  BY <1>3, <1>4, MaxFacts
<1>6. Max(S) \in Nat /\ Max(S) <= events + 1
  BY <1>3, <1>5
<1>7. \A c \in Comments : comments[c].floor <= Max(S)
  BY <1>5 DEF S
<1>8. NextFloor = Max(S) + 1
  BY DEF NextFloor, S
<1> QED
  BY <1>1, <1>6, <1>7, <1>8

\* create_comment, up to the commit.
LEMMA CreateCommentKeeps ==
  ASSUME IInv, NEW p \in Conns, CreateComment(p)
  PROVE  IInv'
<1>0. /\ Begins(p) /\ LockActive(p) /\ Counted
      /\ \E x \in Comments : ~Written(x)
      /\ comments' = comments
      /\ UNCHANGED <<mode, likes, favs, commentLikes, jobs>>
  BY DEF CreateComment, Begins
<1> DEFINE d == Only("comment", 1)
           k == CHOOSE x \in Comments : ~Written(x)
<1>1. PICK direct \in Channels :
        /\ Noted(direct, d)
        /\ tx' = [tx EXCEPT ![p] = [Request("comment", NoOne, k, Bumps(direct, d))
                                      EXCEPT !.floor = NextFloor]]
  BY DEF CreateComment
<1>2. d \in [Fields -> Int]
  <2>1. "comment" \in Fields /\ 1 \in Int
    BY DEF Fields
  <2> QED
    BY <2>1, DeltaTypes
<1>3. d = BumpOf("comment")
  BY DEF BumpOf
<1> HIDE DEF d
<1>4. /\ pending' \in [Fields -> Int] /\ Bumps(direct, d) \in [Fields -> Int]
      /\ mode = "through" => pending' = pending /\ Bumps(direct, d) = d
  BY <1>1, <1>2, NotedFacts
<1>c. PICK c \in Comments : c = k /\ ~Written(c)
  BY <1>0
<1> HIDE DEF k
<1> DEFINE b == Bumps(direct, d)
<1>n. PICK n \in Nat : n = NextFloor
  BY NextFloorFacts
<1> DEFINE new == [Request("comment", NoOne, c, b) EXCEPT !.floor = n]
<1>5. /\ new \in Requests /\ new.op = "comment" /\ new.comment = c
      /\ new.floor = n /\ new.bump = b
  BY <1>4 DEF Request, Requests
<1>6. tx' = [tx EXCEPT ![p] = new]
  BY <1>1, <1>c, <1>n
<1> HIDE DEF new
<1>7. /\ item' \in Items /\ item'.lock = p /\ ~item'.deleted
      /\ item'.count = item.count /\ LocksKept(p)
  BY <1>0, LockFacts
<1>8. TypeOK' /\ tx'[p] = new /\ \A r \in Conns \ {p} : tx'[r] = tx[r]
  BY <1>0, <1>4, <1>5, <1>6, <1>7, CountedFacts, SameWhenUnchanged, NewRequest
<1>9. TxFits(p)'
  <2>1. tx'[p].op = "comment" /\ tx'[p].comment = c /\ tx'[p].floor = n
    BY <1>5, <1>8
  <2>2. HoldsItem(p)'
    BY <1>7 DEF HoldsItem
  <2>3. CommentFits(p)'
    <3>1. ~Written(c)'
      BY <1>0, <1>c DEF Written
    <3>2. events \in Nat /\ events' = events + 1
      BY <1>0, CountedFacts, BoundsAreNat DEF IInv, TypeOK
    <3>3. n <= events' + 1
      BY <1>n, <3>2, NextFloorFacts
    <3>4. \A x \in Comments : comments'[x].floor < n
      BY <1>0, <1>n, NextFloorFacts
    <3> QED
      BY <2>1, <3>1, <3>3, <3>4 DEF CommentFits, Written
  <2>4. LikeFits(p)' /\ FavFits(p)' /\ PraiseFits(p)'
    BY <2>1 DEF FavFits, LikeFits, PraiseFits, OnFavs
  <2>5. mode' = "through" => tx'[p].bump = BumpOf(tx'[p].op)
    BY <1>0, <1>3, <1>4, <1>5, <1>8
  <2> QED
    BY <2>2, <2>3, <2>4, <2>5 DEF TxFits
<1> QED
  BY <1>0, <1>4, <1>7, <1>8, <1>9, CountedFacts, SameWhenUnchanged, ConnStep

\* like_comment and unlike_comment, up to the commit.
LEMMA LikeCommentKeeps ==
  ASSUME IInv, NEW p \in Conns, NEW u \in Users, NEW c \in Comments, NEW on \in BOOLEAN,
         LikeComment(p, u, c, on)
  PROVE  IInv'
<1> DEFINE o == IF on THEN "praise" ELSE "unpraise"
           new == Request(o, u, c, Zero)
<1>0. /\ Begins(p) /\ LockActive(p) /\ Counted /\ comments[c].live
      /\ on <=> <<c, u>> \notin commentLikes
      /\ comments' = comments /\ pending' = pending
      /\ tx' = [tx EXCEPT ![p] = new]
      /\ UNCHANGED <<mode, likes, favs, commentLikes, jobs>>
  BY DEF LikeComment, Begins
<1>1. /\ new \in Requests /\ new.op = o /\ new.user = u /\ new.comment = c
      /\ new.bump = Zero
  BY DeltaTypes DEF Request, Requests
<1> HIDE DEF new
<1>2. /\ item' \in Items /\ item'.lock = p /\ ~item'.deleted
      /\ item'.count = item.count /\ LocksKept(p)
  BY <1>0, LockFacts
<1>3. pending' \in [Fields -> Int]
  BY <1>0 DEF IInv, TypeOK
<1>4. TypeOK' /\ tx'[p] = new /\ \A r \in Conns \ {p} : tx'[r] = tx[r]
  BY <1>0, <1>1, <1>2, <1>3, CountedFacts, SameWhenUnchanged, NewRequest
<1>5. TxFits(p)'
  <2>1. tx'[p].op = o /\ tx'[p].user = u /\ tx'[p].comment = c
    BY <1>1, <1>4
  <2>2. HoldsItem(p)'
    BY <1>2 DEF HoldsItem
  <2>3. Written(c)'
    BY <1>0 DEF IInv, CommentOK, Written
  <2>4. CommentFits(p)'
    BY <2>1, <2>3 DEF CommentFits
  <2>5. PraiseFits(p)'
    BY <1>0, <2>1 DEF PraiseFits
  <2>6. LikeFits(p)' /\ FavFits(p)'
    BY <2>1 DEF FavFits, LikeFits, OnFavs
  <2>7. tx'[p].bump = BumpOf(tx'[p].op)
    BY <1>1, <1>4 DEF BumpOf
  <2> QED
    BY <2>2, <2>4, <2>5, <2>6, <2>7 DEF TxFits
<1> QED
  BY <1>0, <1>2, <1>4, <1>5, CountedFacts, SameWhenUnchanged, ConnStep

\* delete_comment reads the row without a lock.
LEMMA DeleteCommentKeeps ==
  ASSUME IInv, NEW p \in Conns, NEW c \in Comments, DeleteComment(p, c)
  PROVE  IInv'
<1> DEFINE new == Request("delete", NoOne, c, Zero)
<1>0. /\ Begins(p) /\ Counted /\ comments[c].live
      /\ comments' = comments /\ pending' = pending /\ item' = item
      /\ tx' = [tx EXCEPT ![p] = new]
      /\ UNCHANGED <<mode, likes, favs, commentLikes, jobs>>
  BY DEF DeleteComment, Begins, rows
<1>1. new \in Requests /\ new.op = "delete" /\ new.comment = c /\ new.bump = Zero
  BY DeltaTypes DEF Request, Requests
<1> HIDE DEF new
<1>2. item' \in Items /\ item'.count = item.count /\ LocksKept(p)
  BY <1>0 DEF IInv, TypeOK, LocksKept
<1>3. pending' \in [Fields -> Int]
  BY <1>0 DEF IInv, TypeOK
<1>4. TypeOK' /\ tx'[p] = new /\ \A r \in Conns \ {p} : tx'[r] = tx[r]
  BY <1>0, <1>1, <1>2, <1>3, CountedFacts, SameWhenUnchanged, NewRequest
<1>5. TxFits(p)'
  <2>1. tx'[p].op = "delete" /\ tx'[p].comment = c
    BY <1>1, <1>4
  <2>2. Written(c)'
    BY <1>0 DEF IInv, CommentOK, Written
  <2>3. CommentFits(p)'
    BY <2>1, <2>2 DEF CommentFits
  <2>4. HoldsItem(p)' /\ LikeFits(p)' /\ FavFits(p)' /\ PraiseFits(p)'
    BY <2>1 DEF HoldsItem, FavFits, LikeFits, PraiseFits, OnFavs, Locking
  <2>5. tx'[p].bump = BumpOf(tx'[p].op)
    BY <1>1, <1>4 DEF BumpOf
  <2> QED
    BY <2>3, <2>4, <2>5 DEF TxFits
<1> QED
  BY <1>0, <1>2, <1>4, <1>5, CountedFacts, SameWhenUnchanged, ConnStep

\* delete_comment writes deleted_at and takes one off the counter.
LEMMA StampCommentKeeps ==
  ASSUME IInv, NEW p \in Conns, StampComment(p)
  PROVE  IInv'
<1> DEFINE d == Only("comment", -1)
<1>0. /\ tx[p].op = "delete" /\ tx[p] \in Requests
      /\ events' = events /\ item' = item
      /\ UNCHANGED <<mode, likes, favs, commentLikes, jobs>>
  BY DEF StampComment, IInv, TypeOK
<1>1. PICK direct \in Channels :
        /\ Noted(direct, d)
        /\ tx' = [tx EXCEPT ![p].op = "stamped", ![p].bump = Bumps(direct, d)]
  BY DEF StampComment
<1>2. d \in [Fields -> Int]
  <2>1. "comment" \in Fields /\ -1 \in Int
    BY DEF Fields
  <2> QED
    BY <2>1, DeltaTypes
<1>3. d = BumpOf("stamped")
  BY DEF BumpOf
<1> HIDE DEF d
<1>4. /\ pending' \in [Fields -> Int] /\ Bumps(direct, d) \in [Fields -> Int]
      /\ mode = "through" => pending' = pending /\ Bumps(direct, d) = d
  BY <1>1, <1>2, NotedFacts
<1> DEFINE b == Bumps(direct, d)
<1>c. PICK c \in Comments : c = tx[p].comment /\ Written(c)
  BY <1>0 DEF IInv, TxFits, CommentFits
<1>r. PICK r \in Requests : r = tx[p]
  BY <1>0
<1> DEFINE new == [r EXCEPT !.op = "stamped", !.bump = b]
<1>5. new \in Requests /\ new.op = "stamped" /\ new.comment = c /\ new.bump = b
  BY <1>4, <1>c, <1>r DEF Requests
<1>6. tx' = [tx EXCEPT ![p] = new]
  BY <1>1, <1>r DEF IInv, TypeOK
<1> HIDE DEF new, b
<1>7. item' \in Items /\ item'.count = item.count /\ LocksKept(p)
  BY <1>0 DEF IInv, TypeOK, LocksKept
<1>8. /\ comments' \in [Comments -> Rows] /\ SameComments
      /\ \A x \in Comments : comments'[x].likes = comments[x].likes
  <2>1. comments' = [comments EXCEPT ![c].lock = p]
    BY <1>c DEF StampComment
  <2>2. comments \in [Comments -> Rows]
    BY DEF IInv, TypeOK
  <2> QED
    BY <2>1, <2>2 DEF SameComments, Rows, Holders
<1>9. events' \in 0..MaxEvents /\ events' >= events
  BY <1>0, BoundsAreNat DEF IInv, TypeOK
<1>10. TypeOK' /\ tx'[p] = new /\ \A q \in Conns \ {p} : tx'[q] = tx[q]
  BY <1>0, <1>4, <1>5, <1>6, <1>7, <1>8, <1>9, NewRequest
<1>11. TxFits(p)'
  <2>1. tx'[p].op = "stamped" /\ tx'[p].comment = c
    BY <1>5, <1>10
  <2>2. Written(c)'
    BY <1>8, <1>c DEF SameComments, Written
  <2>3. CommentFits(p)'
    BY <2>1, <2>2 DEF CommentFits
  <2>4. HoldsItem(p)' /\ LikeFits(p)' /\ FavFits(p)' /\ PraiseFits(p)'
    BY <2>1 DEF HoldsItem, FavFits, LikeFits, PraiseFits, OnFavs, Locking
  <2>5. mode' = "through" => tx'[p].bump = BumpOf(tx'[p].op)
    BY <1>0, <1>3, <1>4, <1>5, <1>10 DEF b
  <2> QED
    BY <2>3, <2>4, <2>5 DEF TxFits
<1> QED
  BY <1>0, <1>4, <1>7, <1>8, <1>9, <1>10, <1>11, ConnStep

\* delete_item under the row lock.
LEMMA DeleteItemKeeps ==
  ASSUME IInv, NEW p \in Conns, DeleteItem(p)
  PROVE  IInv'
<1>0. /\ tx[p] = Idle /\ Counted /\ item.lock = NoOne /\ item \in Items
      /\ item' = [item EXCEPT !.deleted = TRUE]
      /\ comments' = comments /\ pending' = pending /\ tx' = tx
      /\ UNCHANGED <<mode, likes, favs, commentLikes, jobs>>
  BY DEF DeleteItem, Begins, IInv, TypeOK
<1>1. item' \in Items /\ item'.count = item.count
  BY <1>0 DEF Items
<1>2. LocksKept(p)
  BY <1>0, ConnsFinite DEF LocksKept
<1>3. TypeOK'
  <2>1. pending' \in [Fields -> Int] /\ tx' = [tx EXCEPT ![p] = Idle]
    BY <1>0 DEF IInv, TypeOK
  <2> QED
    BY <1>0, <1>1, <2>1, IdleFacts, CountedFacts, SameWhenUnchanged, NewRequest
<1>4. TxFits(p)'
  <2>1. tx'[p] = Idle
    BY <1>0
  <2> QED
    BY <2>1, IdleFacts DEF TxFits, HoldsItem, LikeFits, FavFits, CommentFits,
         PraiseFits, Locking, OnFavs
<1> QED
  BY <1>0, <1>1, <1>2, <1>3, <1>4, CountedFacts, SameWhenUnchanged, ConnStep

\* A rollback releases the locks and forgets what was read.
LEMMA RollbackKeeps ==
  ASSUME IInv, NEW p \in Conns, Rollback(p), events' \in 0..MaxEvents, events' >= events
  PROVE  IInv'
<1>0. /\ item' = Unlocked(p) /\ item \in Items /\ comments' = Released(p)
      /\ comments \in [Comments -> Rows]
      /\ tx' = [tx EXCEPT ![p] = Idle] /\ pending' = pending
      /\ UNCHANGED <<mode, likes, favs, commentLikes, jobs>>
  BY DEF Rollback, IInv, TypeOK
<1>1. item' \in Items /\ item'.count = item.count
  BY <1>0 DEF Items, Unlocked, Holders
<1>2. LocksKept(p)
  BY <1>0 DEF LocksKept, Unlocked, Items
<1>3. /\ comments' \in [Comments -> Rows] /\ SameComments
      /\ \A x \in Comments : comments'[x].likes = comments[x].likes
  BY <1>0 DEF Released, SameComments, Rows, Holders
<1>4. pending' \in [Fields -> Int]
  BY <1>0 DEF IInv, TypeOK
<1>5. TypeOK' /\ tx'[p] = Idle /\ \A q \in Conns \ {p} : tx'[q] = tx[q]
  BY <1>0, <1>1, <1>3, <1>4, IdleFacts, NewRequest
<1>6. TxFits(p)'
  BY <1>5, IdleFacts DEF TxFits, HoldsItem, LikeFits, FavFits, CommentFits,
       PraiseFits, Locking, OnFavs
<1> QED
  BY <1>0, <1>1, <1>2, <1>3, <1>5, <1>6, ConnStep

-----------------------------------------------------------------------------
(* The jobs                                                                *)

\* The frame of a step of a job: it writes the counters, at most.
LEMMA JobStep ==
  ASSUME IInv, TypeOK', SameComments, events' >= events,
         \A c \in Comments : comments'[c].likes = comments[c].likes,
         item'.lock = item.lock, item'.deleted = item.deleted,
         UNCHANGED <<mode, likes, favs, commentLikes, tx>>,
         JobsIdle', mode = "through" /\ Once => item'.count = item.count
  PROVE  IInv'
<1>0. /\ TypeOK /\ events \in Nat /\ events' \in Nat
      /\ \A c \in Comments : comments[c].floor \in Nat
      /\ \A q \in Conns : tx[q].floor \in Nat
  BY BoundsAreNat DEF IInv, TypeOK, Rows, Requests
<1>1. ASSUME NEW q \in Conns PROVE TxFits(q)'
  <2>1. TxFits(q)
    BY DEF IInv
  <2>2. HoldsItem(q)' /\ LikeFits(q)' /\ FavFits(q)' /\ PraiseFits(q)'
    BY <2>1 DEF TxFits, HoldsItem, LikeFits, FavFits, PraiseFits
  <2>3. CommentFits(q)'
    BY <1>0, <2>1 DEF TxFits, CommentFits, SameComments, Written
  <2> QED
    BY <2>1, <2>2, <2>3 DEF TxFits
<1>2. (\A c \in Comments : CommentOK(c)') /\ FloorsDistinct' /\ (Once' <=> Once)
  BY <1>0, CommentsKeep
<1>3. DriftExplained'
  <2>1. Real' = Real
    BY <1>0, RealKept
  <2> QED
    BY <1>2, <2>1 DEF IInv, CountsSound, DriftExplained, Exact, Once
<1>4. CommentLikesExact'
  BY DEF IInv, CountsSound, CommentLikesExact
<1> QED
  BY <1>1, <1>2, <1>3, <1>4 DEF IInv, CountsSound

\* reconcile reads the counters and counts the details.
LEMMA ScanKeeps ==
  ASSUME IInv, NEW full \in BOOLEAN, Scan(full)
  PROVE  IInv'
<1>0. /\ UNCHANGED <<mode, item, likes, favs, commentLikes, pending, tx, flush, events>>
      /\ scan' = [op |-> "compare", seen |-> item.count, real |-> Real]
      /\ TypeOK /\ comments \in [Comments -> Rows] /\ item \in Items
  BY DEF Scan, IInv, TypeOK
<1>1. \A c \in Comments :
        comments[c].likes = Cardinality({u \in Users : <<c, u>> \in commentLikes})
  BY DEF IInv, CountsSound, CommentLikesExact
<1>2. \A c \in Comments : [comments[c] EXCEPT !.likes = comments[c].likes] = comments[c]
  BY <1>0 DEF Rows
<1>3. comments' = [c \in Comments |-> [comments[c] EXCEPT
         !.likes = Cardinality({u \in Users : <<c, u>> \in commentLikes})]]
  BY DEF Scan
<1>4. comments' = comments
  <2>1. \A c \in Comments : comments'[c] = comments[c]
    BY <1>1, <1>2, <1>3
  <2> QED
    BY <1>0, <1>3, <2>1
<1>5. item.count \in [Fields -> Nat] /\ Real \in [Fields -> Nat]
  BY <1>0, RealType DEF Items
<1>6. TypeOK'
  <2>1. scan' \in [op: {"idle", "compare", "write"},
                   seen: [Fields -> Nat], real: [Fields -> Nat]]
    BY <1>0, <1>5
  <2> QED
    BY <1>0, <1>4, <2>1 DEF TypeOK
<1>7. JobsIdle'
  <2>1. mode = "through" /\ Once => item.count = Real
    BY DEF IInv, CountsSound, DriftExplained, Once, Exact
  <2>2. scan'.seen = item.count /\ scan'.real = Real
    BY <1>0
  <2>3. Once' <=> Once
    BY <1>4 DEF Once
  <2> QED
    BY <1>0, <2>1, <2>2, <2>3 DEF IInv, JobsIdle
<1>8. events' >= events
  BY <1>0, BoundsAreNat DEF TypeOK
<1> QED
  BY <1>0, <1>4, <1>6, <1>7, <1>8, SameWhenUnchanged, JobStep

\* reconcile compares the two.
LEMMA CompareKeeps ==
  ASSUME IInv, Compare
  PROVE  IInv'
<1>0. /\ UNCHANGED <<mode, item, likes, favs, comments, commentLikes, pending, tx,
                     flush, events>>
      /\ scan' = [scan EXCEPT !.op = "write"] \/ scan' = NoScan
      /\ TypeOK
  BY DEF Compare, IInv, rows
<1>1. /\ scan' \in [op: {"idle", "compare", "write"},
                    seen: [Fields -> Nat], real: [Fields -> Nat]]
      /\ \/ scan'.seen = scan.seen /\ scan'.real = scan.real
         \/ scan'.seen = scan'.real
  <2>1. scan \in [op: {"idle", "compare", "write"},
                  seen: [Fields -> Nat], real: [Fields -> Nat]]
    BY <1>0 DEF TypeOK
  <2>2. CASE scan' = [scan EXCEPT !.op = "write"]
    BY <2>1, <2>2
  <2>3. CASE scan' = NoScan
    BY <2>3, DeltaTypes DEF NoScan
  <2> QED
    BY <1>0, <2>2, <2>3
<1>2. TypeOK'
  BY <1>0, <1>1 DEF TypeOK
<1>3. JobsIdle'
  BY <1>0, <1>1 DEF IInv, JobsIdle, Once
<1>4. events' >= events
  BY <1>0, BoundsAreNat DEF TypeOK
<1> QED
  BY <1>0, <1>2, <1>3, <1>4, SameWhenUnchanged, JobStep

\* reconcile writes the counts only over the counters that it read.
LEMMA WriteKeeps ==
  ASSUME IInv, Write
  PROVE  IInv'
<1>0. /\ UNCHANGED <<mode, likes, favs, comments, commentLikes, pending, tx,
                     flush, events>>
      /\ scan' = NoScan
      /\ item' = [item EXCEPT !.marked = TRUE,
                    !.count = IF scan.seen = scan.real THEN @ ELSE scan.real]
      /\ TypeOK /\ item \in Items /\ scan.real \in [Fields -> Nat]
  BY DEF Write, IInv, TypeOK
<1>1. /\ item' \in Items /\ item'.lock = item.lock /\ item'.deleted = item.deleted
      /\ scan.seen = scan.real => item'.count = item.count
  BY <1>0 DEF Items
<1>2. TypeOK'
  BY <1>0, <1>1, DeltaTypes DEF TypeOK, NoScan
<1>3. JobsIdle'
  BY <1>0, IdleFacts DEF IInv, JobsIdle
<1>4. events' >= events
  BY <1>0, BoundsAreNat DEF TypeOK
<1>5. mode = "through" /\ Once => item'.count = item.count
  BY <1>1 DEF IInv, JobsIdle
<1> QED
  BY <1>0, <1>1, <1>2, <1>3, <1>4, <1>5, SameWhenUnchanged, JobStep

\* flush takes the collected increments out of Redis.
LEMMA DrainKeeps ==
  ASSUME IInv, Drain
  PROVE  IInv'
<1>0. /\ UNCHANGED <<mode, item, likes, favs, comments, commentLikes, tx, scan, events>>
      /\ flush' = [op |-> "apply", bump |-> pending] /\ pending' = Zero
      /\ mode = "behind" /\ TypeOK
  BY DEF Drain, IInv, rows
<1>1. TypeOK'
  BY <1>0, DeltaTypes DEF TypeOK
<1>2. JobsIdle'
  BY <1>0 DEF JobsIdle
<1>3. events' >= events
  BY <1>0, BoundsAreNat DEF TypeOK
<1> QED
  BY <1>0, <1>1, <1>2, <1>3, SameWhenUnchanged, JobStep

\* flush adds them to the counters.
LEMMA ApplyKeeps ==
  ASSUME IInv, Apply
  PROVE  IInv'
<1>0. /\ UNCHANGED <<mode, likes, favs, comments, commentLikes, pending, tx,
                     scan, events>>
      /\ flush' = NoFlush /\ flush.op = "apply"
      /\ item' = [item EXCEPT !.count = Bumped(@, flush.bump)]
      /\ TypeOK /\ item \in Items /\ flush.bump \in [Fields -> Int]
  BY DEF Apply, IInv, TypeOK
<1>1. mode # "through"
  BY <1>0 DEF IInv, JobsIdle, NoFlush
<1>2. Bumped(item.count, flush.bump) \in [Fields -> Nat]
  BY <1>0, BumpedType DEF Items
<1>3. item' \in Items /\ item'.lock = item.lock /\ item'.deleted = item.deleted
  BY <1>0, <1>2 DEF Items
<1>4. TypeOK'
  BY <1>0, <1>3, DeltaTypes DEF TypeOK, NoFlush
<1>5. JobsIdle'
  BY <1>0, <1>1 DEF JobsIdle
<1>6. events' >= events
  BY <1>0, BoundsAreNat DEF TypeOK
<1> QED
  BY <1>0, <1>1, <1>3, <1>4, <1>5, <1>6, SameWhenUnchanged, JobStep

\* A job that fails changes nothing in the database.
LEMMA JobFailsKeeps ==
  ASSUME IInv, JobFails
  PROVE  IInv'
<1>0. /\ UNCHANGED <<mode, item, likes, favs, comments, commentLikes, pending, tx>>
      /\ scan' \in {scan, NoScan} /\ flush' \in {flush, NoFlush}
      /\ TypeOK /\ Counted
  BY DEF JobFails, IInv, rows
<1>1. TypeOK'
  <2>1. /\ NoScan \in [op: {"idle", "compare", "write"},
                       seen: [Fields -> Nat], real: [Fields -> Nat]]
        /\ NoFlush \in [op: {"idle", "apply"}, bump: [Fields -> Int]]
    BY DeltaTypes DEF NoScan, NoFlush
  <2> QED
    BY <1>0, <2>1, CountedFacts DEF TypeOK
<1>2. JobsIdle'
  BY <1>0, IdleFacts DEF IInv, JobsIdle, Once
<1> QED
  BY <1>0, <1>1, <1>2, CountedFacts, SameWhenUnchanged, JobStep

-----------------------------------------------------------------------------
(* The commit                                                              *)

\* What a commit does to the comments, column by column.
CommentWritten(p, d) == tx[p].op = "comment" /\ d = tx[p].comment
CommentStamped(p, d) == tx[p].op = "stamped" /\ d = tx[p].comment
CommentPraised(p, d, o) == tx[p].op = o /\ d = tx[p].comment

\* What a commit writes into the rows of the comments.
LEMMA CommitComments ==
  ASSUME IInv, NEW p \in Conns
  PROVE  /\ CommentsAfter(p) \in [Comments -> Rows]
         /\ \A d \in Comments :
              LET new == CommentsAfter(p)[d]
                  old == comments[d] IN
              /\ new.floor = IF CommentWritten(p, d) THEN tx[p].floor ELSE old.floor
              /\ new.live = IF CommentWritten(p, d) THEN TRUE
                            ELSE IF CommentStamped(p, d) THEN FALSE ELSE old.live
              /\ new.stamps = IF CommentStamped(p, d) THEN old.stamps + 1 ELSE old.stamps
              /\ new.likes = IF CommentPraised(p, d, "praise") THEN old.likes + 1
                             ELSE IF CommentPraised(p, d, "unpraise")
                                  THEN Max({old.likes - 1, 0}) ELSE old.likes
<1> USE DEF CommentWritten, CommentStamped, CommentPraised
<1>0. /\ comments \in [Comments -> Rows] /\ tx[p] \in Requests /\ tx[p].floor \in Nat
      /\ TxFits(p)
  BY DEF IInv, TypeOK, Requests
<1>1. CASE tx[p].op = "comment"
  <2>1. PICK c \in Comments : c = tx[p].comment /\ ~Written(c)
    BY <1>0, <1>1 DEF TxFits, CommentFits
  <2>2. comments[c].stamps = 0 /\ comments[c].likes = 0
    <3>1. comments[c].stamps = 0 /\ {u \in Users : <<c, u>> \in commentLikes} = {}
      BY <2>1 DEF IInv, CommentOK
    <3> QED
      BY <3>1, FS_EmptySet DEF IInv, CountsSound, CommentLikesExact
  <2> DEFINE row == [NoComment EXCEPT !.floor = tx[p].floor, !.live = TRUE]
  <2>3. /\ row \in Rows /\ row.floor = tx[p].floor /\ row.live = TRUE
        /\ row.stamps = 0 /\ row.likes = 0
    BY <1>0 DEF NoComment, Rows, Holders
  <2>4. CommentsAfter(p) = [comments EXCEPT ![c] = row]
    BY <1>1, <2>1 DEF CommentsAfter
  <2> HIDE DEF row
  <2>5. CommentsAfter(p) \in [Comments -> Rows]
    BY <1>0, <2>3, <2>4
  <2>6. \A d \in Comments : CommentsAfter(p)[d] = IF d = c THEN row ELSE comments[d]
    BY <1>0, <2>4
  <2> QED
    BY <1>1, <2>1, <2>2, <2>3, <2>5, <2>6
<1>2. CASE tx[p].op = "stamped"
  <2>1. PICK c \in Comments : c = tx[p].comment
    BY <1>0, <1>2 DEF TxFits, CommentFits
  <2>2. /\ Released(p) \in [Comments -> Rows]
        /\ \A d \in Comments : /\ Released(p)[d].floor = comments[d].floor
                               /\ Released(p)[d].live = comments[d].live
                               /\ Released(p)[d].stamps = comments[d].stamps
                               /\ Released(p)[d].likes = comments[d].likes
    BY <1>0 DEF Released, Rows, Holders
  <2>3. CommentsAfter(p) = [Released(p) EXCEPT ![c].live = FALSE, ![c].stamps = @ + 1]
    BY <1>2, <2>1 DEF CommentsAfter
  <2>r. PICK R \in [Comments -> Rows] : R = Released(p)
    BY <2>2
  <2>s. PICK old \in Rows : old = R[c]
    BY <2>r
  <2> DEFINE dead == [old EXCEPT !.live = FALSE]
             row == [dead EXCEPT !.stamps = @ + 1]
  <2>4. /\ dead \in Rows /\ dead.floor = old.floor /\ dead.live = FALSE
        /\ dead.stamps = old.stamps /\ dead.likes = old.likes
    BY DEF Rows
  <2>5. CommentsAfter(p) = [R EXCEPT ![c] = row]
    <3> DEFINE R1 == [R EXCEPT ![c].live = FALSE]
    <3>1. CommentsAfter(p) = [R1 EXCEPT ![c].stamps = @ + 1]
      BY <2>3, <2>r
    <3>2. R1 = [R EXCEPT ![c] = dead]
      BY <2>s
    <3> HIDE DEF dead, R1
    <3>3. R1[c] = dead
      BY <3>2
    <3>4. CommentsAfter(p) = [R1 EXCEPT ![c] = row]
      BY <3>1, <3>2, <3>3
    <3> QED
      BY <3>2, <3>4
  <2> HIDE DEF dead
  <2>6. /\ row \in Rows /\ row.floor = old.floor /\ row.live = FALSE
        /\ row.stamps = old.stamps + 1 /\ row.likes = old.likes
    BY <2>4 DEF Rows
  <2> HIDE DEF row
  <2>7. CommentsAfter(p) \in [Comments -> Rows]
    BY <2>5, <2>6
  <2>8. \A d \in Comments : CommentsAfter(p)[d] = IF d = c THEN row ELSE R[d]
    BY <2>5
  <2>9. /\ old.floor = comments[c].floor /\ old.stamps = comments[c].stamps
        /\ old.likes = comments[c].likes
    BY <2>2, <2>r, <2>s
  <2>10. \A d \in Comments :
           /\ CommentsAfter(p)[d].floor = comments[d].floor
           /\ CommentsAfter(p)[d].live = IF d = c THEN FALSE ELSE comments[d].live
           /\ CommentsAfter(p)[d].stamps = IF d = c THEN comments[d].stamps + 1
                                           ELSE comments[d].stamps
           /\ CommentsAfter(p)[d].likes = comments[d].likes
    <3> TAKE d \in Comments
    <3>1. CASE d = c
      BY <3>1, <2>6, <2>8, <2>9
    <3>2. CASE d # c
      BY <3>2, <2>2, <2>r, <2>8
    <3> QED
      BY <3>1, <3>2
  <2> QED
    BY <1>2, <2>1, <2>7, <2>10
<1>3. CASE tx[p].op \in {"praise", "unpraise"}
  <2>1. PICK c \in Comments : c = tx[p].comment
    BY <1>0, <1>3 DEF TxFits, CommentFits
  <2>n. PICK n \in Nat : n = IF tx[p].op = "praise" THEN comments[c].likes + 1
                             ELSE Max({comments[c].likes - 1, 0})
    <3>1. comments[c].likes \in Nat /\ comments[c].likes - 1 \in Int
      BY <1>0 DEF Rows
    <3> QED
      BY <3>1, MaxZero
  <2> DEFINE row == [comments[c] EXCEPT !.likes = n]
  <2>2. /\ row \in Rows /\ row.floor = comments[c].floor /\ row.live = comments[c].live
        /\ row.stamps = comments[c].stamps /\ row.likes = n
    BY <1>0 DEF Rows
  <2>3. CommentsAfter(p) = [comments EXCEPT ![c] = row]
    <3>1. CASE tx[p].op = "praise"
      BY <3>1, <1>0, <2>1, <2>n DEF CommentsAfter
    <3>2. CASE tx[p].op = "unpraise"
      BY <3>2, <1>0, <2>1, <2>n DEF CommentsAfter
    <3> QED
      BY <1>3, <3>1, <3>2
  <2> HIDE DEF row
  <2>4. CommentsAfter(p) \in [Comments -> Rows]
    BY <1>0, <2>2, <2>3
  <2>5. \A d \in Comments : CommentsAfter(p)[d] = IF d = c THEN row ELSE comments[d]
    BY <1>0, <2>3
  <2> QED
    BY <1>3, <2>1, <2>2, <2>n, <2>4, <2>5
<1>4. CASE tx[p].op \notin {"comment", "stamped", "praise", "unpraise"}
  <2>1. CommentsAfter(p) = comments
    BY <1>4 DEF CommentsAfter
  <2> QED
    BY <1>0, <1>4, <2>1
<1> QED
  BY <1>1, <1>2, <1>3, <1>4

\* A commit as a whole: what it needs and what it leaves.
LEMMA CommitFacts ==
  ASSUME IInv, NEW p \in Conns, Commit(p)
  PROVE  /\ item' \in Items /\ item'.deleted = item.deleted /\ LocksKept(p)
         /\ item'.count = Bumped(item.count, tx[p].bump)
         /\ TypeOK' /\ tx'[p] = Idle /\ \A q \in Conns \ {p} : tx'[q] = tx[q]
<1>0. /\ tx[p] \in Requests /\ item \in Items /\ tx \in [Conns -> Requests]
      /\ TxFits(p)
  BY DEF IInv, TypeOK
<1>1. Bumped(item.count, tx[p].bump) \in [Fields -> Nat]
  BY <1>0, BumpedType DEF Items, Requests
<1>2. /\ item' \in Items /\ item'.deleted = item.deleted
      /\ item'.count = Bumped(item.count, tx[p].bump)
      /\ item'.lock = IF item.lock = p THEN NoOne ELSE item.lock
  <2>1. item' = [Unlocked(p) EXCEPT !.count = Bumped(item.count, tx[p].bump)]
    BY <1>0 DEF Commit, Unlocked, Items
  <2> QED
    BY <1>0, <1>1, <2>1 DEF Unlocked, Items, Holders
<1>3. LocksKept(p)
  BY <1>2 DEF LocksKept
<1>4. tx' \in [Conns -> Requests] /\ tx'[p] = Idle /\ \A q \in Conns \ {p} : tx'[q] = tx[q]
  BY <1>0, IdleFacts DEF Commit
<1>5. likes' \subseteq Users
  <2>1. likes \subseteq Users
    BY DEF IInv, TypeOK
  <2>2. tx[p].op = "like" => tx[p].user \in Users
    BY <1>0 DEF TxFits, LikeFits
  <2> QED
    BY <2>1, <2>2 DEF Commit, Changed
<1>6. favs' \subseteq Users
  <2>1. favs \subseteq Users
    BY DEF IInv, TypeOK
  <2>2. tx[p].op = "favorite" => tx[p].user \in Users
    BY <1>0 DEF TxFits, FavFits
  <2> QED
    BY <2>1, <2>2 DEF Commit, Changed
<1>7. commentLikes' \subseteq Comments \X Users
  <2>1. commentLikes \subseteq Comments \X Users
    BY DEF IInv, TypeOK
  <2>2. tx[p].op = "praise" => tx[p].user \in Users /\ tx[p].comment \in Comments
    BY <1>0 DEF TxFits, PraiseFits, CommentFits
  <2> QED
    BY <2>1, <2>2 DEF Commit, Changed
<1>8. comments' \in [Comments -> Rows]
  BY CommitComments DEF Commit
<1>9. TypeOK'
  <2>1. UNCHANGED <<mode, pending, scan, flush, events>>
    BY DEF Commit, jobs
  <2> QED
    BY <1>2, <1>4, <1>5, <1>6, <1>7, <1>8, <2>1 DEF IInv, TypeOK
<1> QED
  BY <1>2, <1>3, <1>4, <1>9

\* The columns of a comment after a commit.
LEMMA CommitColumns ==
  ASSUME IInv, NEW p \in Conns, Commit(p), NEW d \in Comments
  PROVE  /\ comments'[d].floor = IF CommentWritten(p, d) THEN tx[p].floor
                                 ELSE comments[d].floor
         /\ comments'[d].live = IF CommentWritten(p, d) THEN TRUE
                                ELSE IF CommentStamped(p, d) THEN FALSE
                                ELSE comments[d].live
         /\ comments'[d].stamps = IF CommentStamped(p, d) THEN comments[d].stamps + 1
                                  ELSE comments[d].stamps
         /\ comments'[d].likes = IF CommentPraised(p, d, "praise")
                                 THEN comments[d].likes + 1
                                 ELSE IF CommentPraised(p, d, "unpraise")
                                      THEN Max({comments[d].likes - 1, 0})
                                      ELSE comments[d].likes
<1>1. comments' = CommentsAfter(p)
  BY DEF Commit
<1> QED
  BY <1>1, CommitComments

\* The requests of the others are as good as before.
LEMMA CommitOthers ==
  ASSUME IInv, NEW p \in Conns, Commit(p), NEW q \in Conns \ {p}
  PROVE  TxFits(q)'
<1>0. /\ TxFits(p) /\ TxFits(q) /\ tx'[q] = tx[q] /\ tx'[p] = Idle
      /\ tx[q] \in Requests /\ tx[p] \in Requests
      /\ events' = events /\ mode' = mode /\ LocksKept(p)
  BY CommitFacts DEF IInv, TypeOK, Commit
<1>1. HoldsItem(q)'
  BY <1>0 DEF TxFits, HoldsItem, LocksKept
<1>2. tx[p].op \in Locking => tx[q].op \notin Locking
  BY <1>0 DEF TxFits, HoldsItem
<1>3. LikeFits(q)'
  <2>1. CASE tx[q].op \in {"like", "unlike"}
    <3>1. tx[p].op \notin {"like", "unlike"}
      BY <1>2, <2>1 DEF Locking
    <3>2. likes' = likes
      BY <3>1 DEF Commit, Changed
    <3> QED
      BY <1>0, <3>2 DEF TxFits, LikeFits
  <2>2. CASE tx[q].op \notin {"like", "unlike"}
    BY <1>0, <2>2 DEF LikeFits
  <2> QED
    BY <2>1, <2>2
<1>4. FavFits(q)'
  <2>1. tx[q].op \in OnFavs /\ tx[p].op \in OnFavs => tx[p].user # tx[q].user
    BY <1>0 DEF TxFits, FavFits
  <2>2. tx[q].op \in OnFavs => (tx[q].user \in favs' <=> tx[q].user \in favs)
    BY <2>1 DEF Commit, Changed, OnFavs
  <2>3. \A r \in Conns : tx'[r].op \in OnFavs => tx'[r] = tx[r]
    <3>1. Idle.op \notin OnFavs
      BY IdleFacts DEF OnFavs
    <3>2. \A r \in Conns \ {p} : tx'[r] = tx[r]
      BY CommitFacts
    <3> QED
      BY <1>0, <3>1, <3>2
  <2> QED
    BY <1>0, <2>2, <2>3 DEF TxFits, FavFits, OnFavs
<1>5. CommentFits(q)'
  <2>1. CASE tx[q].op = "comment"
    <3>1. tx[p].op # "comment"
      BY <1>2, <2>1 DEF Locking
    <3>2. \A c \in Comments : comments'[c].floor = comments[c].floor
      BY <3>1, CommitColumns DEF CommentWritten
    <3> QED
      BY <1>0, <2>1, <3>2 DEF TxFits, CommentFits, Written
  <2>2. CASE tx[q].op \in {"delete", "stamped", "praise", "unpraise"}
    <3>1. PICK c \in Comments : c = tx[q].comment /\ Written(c)
      BY <1>0, <2>2 DEF TxFits, CommentFits
    <3>2. ~CommentWritten(p, c)
      BY <1>0, <3>1 DEF CommentWritten, TxFits, CommentFits
    <3>3. comments'[c].floor = comments[c].floor
      BY <3>2, CommitColumns
    <3> QED
      BY <1>0, <2>2, <3>1, <3>3 DEF CommentFits, Written
  <2> QED
    BY <1>0, <2>1, <2>2 DEF CommentFits
<1>6. PraiseFits(q)'
  <2>1. CASE tx[q].op \in {"praise", "unpraise"}
    <3>1. tx[p].op \notin {"praise", "unpraise"}
      BY <1>2, <2>1 DEF Locking
    <3>2. commentLikes' = commentLikes
      BY <3>1 DEF Commit, Changed
    <3> QED
      BY <1>0, <3>2 DEF TxFits, PraiseFits
  <2>2. CASE tx[q].op \notin {"praise", "unpraise"}
    BY <1>0, <2>2 DEF PraiseFits
  <2> QED
    BY <2>1, <2>2
<1> QED
  BY <1>0, <1>1, <1>3, <1>4, <1>5, <1>6 DEF TxFits

\* The comments stay in order: floors are given once, and what is stamped was
\* written before.
LEMMA CommitOrder ==
  ASSUME IInv, NEW p \in Conns, Commit(p)
  PROVE  /\ \A c \in Comments : CommentOK(c)'
         /\ FloorsDistinct'
         /\ Once' => Once
<1>0. /\ TxFits(p) /\ events' = events /\ events \in Nat /\ tx[p].floor \in Nat
      /\ \A c \in Comments : /\ CommentOK(c) /\ comments[c].floor \in Nat
                             /\ comments[c].stamps \in Nat
                             /\ comments[c].live \in BOOLEAN
  BY BoundsAreNat DEF IInv, TypeOK, Rows, Requests, Commit
<1>1. ASSUME NEW c \in Comments PROVE CommentOK(c)'
  <2>1. CASE CommentWritten(p, c)
    <3>1. ~CommentStamped(p, c) /\ ~Written(c) /\ tx[p].floor <= events + 1
          /\ comments[c].floor < tx[p].floor
      BY <1>0, <2>1 DEF CommentWritten, CommentStamped, TxFits, CommentFits
    <3>2. comments'[c].floor = tx[p].floor /\ comments'[c].live = TRUE
          /\ comments'[c].stamps = comments[c].stamps
      BY <2>1, <3>1, CommitColumns
    <3> QED
      BY <1>0, <3>1, <3>2 DEF CommentOK, Written
  <2>2. CASE CommentStamped(p, c)
    <3>1. ~CommentWritten(p, c) /\ Written(c)
      BY <1>0, <2>2 DEF CommentWritten, CommentStamped, TxFits, CommentFits
    <3>2. comments'[c].floor = comments[c].floor /\ comments'[c].live = FALSE
          /\ comments'[c].stamps = comments[c].stamps + 1
      BY <2>2, <3>1, CommitColumns
    <3> QED
      BY <1>0, <3>1, <3>2 DEF CommentOK, Written
  <2>3. CASE ~CommentWritten(p, c) /\ ~CommentStamped(p, c)
    <3>1. comments'[c].floor = comments[c].floor /\ comments'[c].live = comments[c].live
          /\ comments'[c].stamps = comments[c].stamps
      BY <2>3, CommitColumns
    <3>2. ~Written(c) => \A u \in Users : <<c, u>> \notin commentLikes'
      <4> SUFFICES ASSUME ~Written(c), NEW u \in Users PROVE <<c, u>> \notin commentLikes'
        OBVIOUS
      <4>1. <<c, u>> \notin commentLikes
        BY <1>0 DEF CommentOK
      <4>2. tx[p].op = "praise" => tx[p].comment # c
        BY <1>0 DEF TxFits, CommentFits
      <4> QED
        BY <4>1, <4>2 DEF Commit, Changed
    <3> QED
      BY <1>0, <3>1, <3>2 DEF CommentOK, Written
  <2> QED
    BY <2>1, <2>2, <2>3
<1>2. FloorsDistinct'
  <2> SUFFICES ASSUME NEW c \in Comments, NEW d \in Comments, Written(c)',
                      comments'[c].floor = comments'[d].floor
               PROVE  c = d
    BY DEF FloorsDistinct, Written
  <2>0. \A x, y \in Comments : comments[x].floor > 0 /\ comments[x].floor = comments[y].floor
                                 => x = y
    BY DEF IInv, CountsSound, FloorsDistinct, Written
  <2>1. CASE tx[p].op # "comment"
    <3>1. \A x \in Comments : ~CommentWritten(p, x)
      BY <2>1 DEF CommentWritten
    <3>2. comments'[c].floor = comments[c].floor /\ comments'[d].floor = comments[d].floor
      BY <3>1, CommitColumns
    <3> QED
      BY <2>0, <3>2 DEF Written
  <2>2. CASE tx[p].op = "comment"
    <3>1. \A x \in Comments : comments[x].floor < tx[p].floor
      BY <1>0, <2>2 DEF TxFits, CommentFits
    <3>2. \A x \in Comments : CommentWritten(p, x) <=> x = tx[p].comment
      BY <2>2 DEF CommentWritten
    <3>3. /\ comments'[c].floor = IF c = tx[p].comment THEN tx[p].floor
                                  ELSE comments[c].floor
          /\ comments'[d].floor = IF d = tx[p].comment THEN tx[p].floor
                                  ELSE comments[d].floor
      BY <3>2, CommitColumns
    <3>4. comments'[c].floor > 0 /\ comments'[c].floor = comments'[d].floor
      BY DEF Written
    <3>5. comments[c].floor # tx[p].floor /\ comments[d].floor # tx[p].floor
      BY <1>0, <3>1
    <3>6. CASE c = tx[p].comment \/ d = tx[p].comment
      BY <3>3, <3>4, <3>5, <3>6
    <3>7. CASE c # tx[p].comment /\ d # tx[p].comment
      BY <2>0, <3>3, <3>4, <3>7
    <3> QED
      BY <3>6, <3>7
  <2> QED
    BY <2>1, <2>2
<1>3. Once' => Once
  <2>1. ASSUME NEW c \in Comments
        PROVE  comments'[c].stamps \in Nat /\ comments[c].stamps <= comments'[c].stamps
    <3>1. comments'[c].stamps \in {comments[c].stamps, comments[c].stamps + 1}
      BY CommitColumns
    <3> QED
      BY <1>0, <3>1
  <2> QED
    BY <1>0, <2>1 DEF Once
<1> QED
  BY <1>1, <1>2, <1>3

\* The like counter of a comment follows its likes.
LEMMA CommitPraises ==
  ASSUME IInv, NEW p \in Conns, Commit(p)
  PROVE  CommentLikesExact'
<1> SUFFICES ASSUME NEW c \in Comments
             PROVE  comments'[c].likes = Cardinality({u \in Users : <<c, u>> \in commentLikes'})
  BY DEF CommentLikesExact
<1>0. /\ TypeOK /\ TxFits(p) /\ comments[c].likes \in Nat
      /\ comments[c].likes = Cardinality(Likers(c)) /\ IsFiniteSet(Likers(c))
  BY Finite DEF IInv, TypeOK, CountsSound, CommentLikesExact, Likers, Rows
<1> DEFINE L == {u \in Users : <<c, u>> \in commentLikes'}
<1>1. CASE CommentPraised(p, c, "praise")
  <2>1. PICK u \in Users : u = tx[p].user /\ <<c, u>> \notin commentLikes
    BY <1>0, <1>1 DEF CommentPraised, TxFits, PraiseFits
  <2>2. commentLikes' = commentLikes \cup {<<c, u>>}
    BY <1>1, <2>1 DEF Commit, Changed, CommentPraised
  <2>3. L = Likers(c) \cup {u} /\ u \notin Likers(c)
    BY <2>1, <2>2 DEF Likers
  <2>4. Cardinality(L) = Cardinality(Likers(c)) + 1
    BY <1>0, <2>3, OneMore
  <2>5. comments'[c].likes = comments[c].likes + 1
    BY <1>1, CommitColumns
  <2> QED
    BY <1>0, <2>4, <2>5
<1>2. CASE CommentPraised(p, c, "unpraise")
  <2>1. PICK u : u = tx[p].user /\ <<c, u>> \in commentLikes /\ u \in Users
    BY <1>0, <1>2 DEF CommentPraised, TxFits, PraiseFits
  <2>2. commentLikes' = commentLikes \ {<<c, u>>}
    BY <1>2, <2>1 DEF Commit, Changed, CommentPraised
  <2>3. L = Likers(c) \ {u} /\ u \in Likers(c)
    BY <2>1, <2>2 DEF Likers
  <2>4. Cardinality(L) = Cardinality(Likers(c)) - 1 /\ Cardinality(Likers(c)) \in Nat \ {0}
    BY <1>0, <2>3, OneLess
  <2>5. comments'[c].likes = Max({comments[c].likes - 1, 0})
    <3>1. ~CommentPraised(p, c, "praise")
      BY <1>2 DEF CommentPraised
    <3> QED
      BY <1>2, <3>1, CommitColumns
  <2>6. comments[c].likes - 1 \in Int /\ comments[c].likes - 1 >= 0
    BY <1>0, <2>4
  <2> QED
    BY <1>0, <2>4, <2>5, <2>6, MaxZero
<1>3. CASE ~CommentPraised(p, c, "praise") /\ ~CommentPraised(p, c, "unpraise")
  <2>1. comments'[c].likes = comments[c].likes
    BY <1>3, CommitColumns
  <2>2. L = Likers(c)
    BY <1>3 DEF Likers, Commit, Changed, CommentPraised
  <2> QED
    BY <1>0, <2>1, <2>2
<1> QED
  BY <1>1, <1>2, <1>3

\* The details move by what the request carries as its bump, unless it stamps
\* a comment that was stamped before.
LEMMA CommitMoves ==
  ASSUME IInv, NEW p \in Conns, Commit(p), Once'
  PROVE  \A f \in Fields : Real'[f] = Real[f] + BumpOf(tx[p].op)[f]
<1>0. /\ TypeOK /\ TxFits(p) /\ Real \in [Fields -> Nat]
      /\ IsFiniteSet(likes) /\ IsFiniteSet(favs) /\ IsFiniteSet(Live)
  BY Finite, RealType DEF IInv
<1>1. /\ Cardinality(likes) \in Nat /\ Cardinality(favs) \in Nat
      /\ Cardinality(Live) \in Nat
  BY <1>0, FS_CardinalityType
<1>2. Cardinality(likes') = Cardinality(likes) + BumpOf(tx[p].op)["like"]
  <2>1. CASE tx[p].op = "like"
    <3>1. tx[p].user \notin likes /\ likes' = likes \cup {tx[p].user}
      BY <1>0, <2>1 DEF TxFits, LikeFits, Commit, Changed
    <3>2. Cardinality(likes') = Cardinality(likes) + 1
      BY <1>0, <3>1, OneMore
    <3>3. BumpOf(tx[p].op)["like"] = 1
      BY <2>1 DEF BumpOf, Only, Fields
    <3> QED
      BY <3>2, <3>3
  <2>2. CASE tx[p].op = "unlike"
    <3>1. tx[p].user \in likes /\ likes' = likes \ {tx[p].user}
      BY <1>0, <2>2 DEF TxFits, LikeFits, Commit, Changed
    <3>2. Cardinality(likes') = Cardinality(likes) - 1
      BY <1>0, <3>1, OneLess
    <3>3. BumpOf(tx[p].op)["like"] = -1
      BY <2>2 DEF BumpOf, Only, Fields
    <3> QED
      BY <1>1, <3>2, <3>3
  <2>3. CASE tx[p].op \notin {"like", "unlike"}
    <3>1. likes' = likes
      BY <2>3 DEF Commit, Changed
    <3>2. BumpOf(tx[p].op)["like"] = 0
      BY <2>3 DEF BumpOf, Only, Zero, Fields
    <3> QED
      BY <1>1, <3>1, <3>2
  <2> QED
    BY <2>1, <2>2, <2>3
<1>3. Cardinality(favs') = Cardinality(favs) + BumpOf(tx[p].op)["bookmark"]
  <2>1. CASE tx[p].op = "favorite"
    <3>1. tx[p].user \notin favs /\ favs' = favs \cup {tx[p].user}
      BY <1>0, <2>1 DEF TxFits, FavFits, Commit, Changed
    <3>2. Cardinality(favs') = Cardinality(favs) + 1
      BY <1>0, <3>1, OneMore
    <3>3. BumpOf(tx[p].op)["bookmark"] = 1
      BY <2>1 DEF BumpOf, Only, Fields
    <3> QED
      BY <3>2, <3>3
  <2>2. CASE tx[p].op = "unfavorite"
    <3>1. tx[p].user \in favs /\ favs' = favs \ {tx[p].user}
      BY <1>0, <2>2 DEF TxFits, FavFits, Commit, Changed
    <3>2. Cardinality(favs') = Cardinality(favs) - 1
      BY <1>0, <3>1, OneLess
    <3>3. BumpOf(tx[p].op)["bookmark"] = -1
      BY <2>2 DEF BumpOf, Only, Fields
    <3> QED
      BY <1>1, <3>2, <3>3
  <2>3. CASE tx[p].op \notin {"favorite", "unfavorite"}
    <3>1. favs' = favs
      BY <2>3 DEF Commit, Changed
    <3>2. BumpOf(tx[p].op)["bookmark"] = 0
      BY <2>3 DEF BumpOf, Only, Zero, Fields
    <3> QED
      BY <1>1, <3>1, <3>2
  <2> QED
    BY <2>1, <2>2, <2>3
<1>4. Cardinality(Live') = Cardinality(Live) + BumpOf(tx[p].op)["comment"]
  <2>0. Live' = {d \in Comments : comments'[d].live}
    BY DEF Live
  <2>1. CASE tx[p].op = "comment"
    <3>1. PICK c \in Comments : c = tx[p].comment /\ ~Written(c)
      BY <1>0, <2>1 DEF TxFits, CommentFits
    <3>2. c \notin Live
      BY <3>1 DEF Live, IInv, CommentOK
    <3>3. \A d \in Comments : comments'[d].live <=> d = c \/ comments[d].live
      <4> TAKE d \in Comments
      <4>1. (CommentWritten(p, d) <=> d = c) /\ ~CommentStamped(p, d)
        BY <2>1, <3>1 DEF CommentWritten, CommentStamped
      <4> QED
        BY <4>1, CommitColumns
    <3>4. Live' = Live \cup {c}
      BY <2>0, <3>3 DEF Live
    <3>5. Cardinality(Live') = Cardinality(Live) + 1
      BY <1>0, <3>2, <3>4, OneMore
    <3>6. BumpOf(tx[p].op)["comment"] = 1
      BY <2>1 DEF BumpOf, Only, Fields
    <3> QED
      BY <3>5, <3>6
  <2>2. CASE tx[p].op = "stamped"
    <3>1. PICK c \in Comments : c = tx[p].comment /\ Written(c)
      BY <1>0, <2>2 DEF TxFits, CommentFits
    <3>2. \A d \in Comments : /\ CommentStamped(p, d) <=> d = c
                              /\ ~CommentWritten(p, d)
      BY <2>2, <3>1 DEF CommentWritten, CommentStamped
    <3>3. comments'[c].stamps = comments[c].stamps + 1 /\ comments[c].stamps \in Nat
      BY <1>0, <3>2, CommitColumns DEF TypeOK, Rows
    <3>4. comments'[c].stamps <= 1
      BY DEF Once
    <3>5. c \in Live
      BY <3>1, <3>3, <3>4 DEF Live, IInv, CommentOK
    <3>6. \A d \in Comments : comments'[d].live <=> d # c /\ comments[d].live
      BY <3>2, CommitColumns
    <3>7. Live' = Live \ {c}
      BY <2>0, <3>6 DEF Live
    <3>8. Cardinality(Live') = Cardinality(Live) - 1
      BY <1>0, <3>5, <3>7, OneLess
    <3>9. BumpOf(tx[p].op)["comment"] = -1
      BY <2>2 DEF BumpOf, Only, Fields
    <3> QED
      BY <1>1, <3>8, <3>9
  <2>3. CASE tx[p].op \notin {"comment", "stamped"}
    <3>1. \A d \in Comments : ~CommentWritten(p, d) /\ ~CommentStamped(p, d)
      BY <2>3 DEF CommentWritten, CommentStamped
    <3>2. \A d \in Comments : comments'[d].live = comments[d].live
      BY <3>1, CommitColumns
    <3>3. Live' = Live
      BY <2>0, <3>2 DEF Live
    <3>4. BumpOf(tx[p].op)["comment"] = 0
      BY <2>3 DEF BumpOf, Only, Zero, Fields
    <3> QED
      BY <1>1, <3>3, <3>4
  <2> QED
    BY <2>1, <2>2, <2>3
<1> QED
  BY <1>2, <1>3, <1>4, RealIs, RealIsNext DEF Fields

\* The commit: details and counters change together.
LEMMA CommitKeeps ==
  ASSUME IInv, NEW p \in Conns, Commit(p)
  PROVE  IInv'
<1>0. /\ TypeOK /\ TypeOK' /\ TxFits(p) /\ item \in Items
      /\ item'.count = Bumped(item.count, tx[p].bump)
      /\ tx'[p] = Idle /\ mode' = mode
      /\ UNCHANGED <<pending, scan, flush>>
  BY CommitFacts DEF IInv, TypeOK, Commit, jobs
<1>1. \A q \in Conns : TxFits(q)'
  <2>1. TxFits(p)'
    BY <1>0, IdleFacts DEF TxFits, HoldsItem, LikeFits, FavFits, CommentFits,
         PraiseFits, Locking, OnFavs
  <2> QED
    BY <2>1, CommitOthers
<1>2. (\A c \in Comments : CommentOK(c)') /\ FloorsDistinct' /\ (Once' => Once)
  BY CommitOrder
<1>3. JobsIdle'
  BY <1>0, <1>2 DEF IInv, JobsIdle
<1>4. DriftExplained'
  <2> SUFFICES ASSUME mode = "through", Once' PROVE item'.count = Real'
    BY <1>0 DEF DriftExplained, Exact, Once
  <2>1. item.count = Real /\ tx[p].bump = BumpOf(tx[p].op)
    BY <1>0, <1>2 DEF IInv, CountsSound, DriftExplained, Exact, Once, TxFits
  <2>2. \A f \in Fields : Real'[f] = item.count[f] + tx[p].bump[f]
    BY <2>1, CommitMoves
  <2>3. Real' \in [Fields -> Nat]
    BY <1>0, RealTypeNext
  <2>4. tx[p].bump \in [Fields -> Int] /\ item.count \in [Fields -> Nat]
    BY <1>0 DEF TypeOK, Requests, Items
  <2>5. \A f \in Fields : item.count[f] + tx[p].bump[f] >= 0
    BY <2>2, <2>3
  <2>6. \A f \in Fields : item'.count[f] = Real'[f]
    BY <1>0, <2>2, <2>4, <2>5, BumpedType
  <2>7. item'.count \in [Fields -> Nat]
    BY <1>0, <2>4, BumpedType
  <2> QED
    BY <2>3, <2>6, <2>7
<1> QED
  BY <1>0, <1>1, <1>2, <1>3, <1>4, CommitPraises DEF IInv, CountsSound

-----------------------------------------------------------------------------
(* The theorems                                                            *)

\* Every step preserves the inductive invariant.
LEMMA StepHolds == IInv /\ [Next]_vars => IInv'
<1> SUFFICES ASSUME IInv, [Next]_vars PROVE IInv'
  OBVIOUS
<1>1. ASSUME NEW p \in Conns, Begin(p) PROVE IInv'
  BY <1>1, LikeItemKeeps, FavoriteKeeps, LikeCommentKeeps, DeleteCommentKeeps,
     CreateCommentKeeps, DeleteItemKeeps DEF Begin
<1>2. ASSUME NEW p \in Conns, Proceed(p) PROVE IInv'
  <2>1. events' = events => events' \in 0..MaxEvents /\ events' >= events
    BY BoundsAreNat DEF IInv, TypeOK
  <2> QED
    BY <1>2, <2>1, StampCommentKeeps, CommitKeeps, RollbackKeeps
       DEF Proceed, Refuse, BreakDeadlock
<1>3. ASSUME NEW p \in Conns, Fail(p) PROVE IInv'
  BY <1>3, CountedFacts, RollbackKeeps DEF Fail
<1>4. ASSUME NEW full \in BOOLEAN, Scan(full) PROVE IInv'
  BY <1>4, ScanKeeps
<1>5. CASE UNCHANGED vars
  <2>1. /\ UNCHANGED <<mode, item, likes, favs, comments, commentLikes, pending, tx,
                       scan, flush, events>>
        /\ TypeOK
    BY <1>5 DEF vars, rows, jobs, IInv
  <2>2. TypeOK' /\ JobsIdle' /\ events' >= events
    BY <2>1, BoundsAreNat DEF TypeOK, IInv, JobsIdle, Once
  <2> QED
    BY <2>1, <2>2, SameWhenUnchanged, JobStep
<1> QED
  BY <1>1, <1>2, <1>3, <1>4, <1>5, CompareKeeps, WriteKeeps, DrainKeeps, ApplyKeeps,
     JobFailsKeeps DEF Next

\* The inductive invariant holds in every state of every behaviour.
THEOREM Invariance == Spec => []IInv
BY StartHolds, StepHolds, PTL DEF Spec

\* Whatever is bumped, lost or repaired, the counters of items and comments
\* are natural numbers and the locks belong to connections.
THEOREM TypeCorrect == Spec => []TypeOK
<1>1. IInv => TypeOK
  BY DEF IInv
<1> QED
  BY <1>1, Invariance, PTL

\* like_item, create_comment, add_favorite and the rest keep counters and
\* details equal in write-through mode, for every number of people, comments,
\* connections and failures, as long as no comment is deleted twice; floors
\* are distinct and comment likes are exact in both modes.
THEOREM CountsCorrect == Spec => []CountsSound
<1>1. IInv => CountsSound
  BY DEF IInv
<1> QED
  BY <1>1, Invariance, PTL

\* A step on a deleted item.
TakesNothing ==
    item.deleted =>
      /\ likes' = likes
      /\ commentLikes' = commentLikes
      /\ {c \in Comments : Written(c)} = {c \in Comments : Written(c)'}
      /\ mode = "through" => favs' = favs

\* Most steps write no detail at all.
LEMMA NoDetail ==
  ASSUME IInv, UNCHANGED <<likes, favs, commentLikes>>,
         \A c \in Comments : comments'[c].floor = comments[c].floor
  PROVE  TakesNothing
BY DEF TakesNothing, Written

\* A commit after the deletion of its item adds no detail row.
LEMMA CommitTakesNothing ==
  ASSUME IInv, NEW p \in Conns, Commit(p)
  PROVE  TakesNothing
<1> SUFFICES ASSUME item.deleted
             PROVE  /\ likes' = likes /\ commentLikes' = commentLikes
                    /\ \A c \in Comments : comments'[c].floor = comments[c].floor
                    /\ mode = "through" => favs' = favs
  BY DEF TakesNothing, Written
<1>0. TxFits(p)
  BY DEF IInv
<1>1. tx[p].op \notin Locking
  BY <1>0 DEF TxFits, HoldsItem
<1>2. likes' = likes /\ commentLikes' = commentLikes
  BY <1>1 DEF Commit, Changed, Locking
<1>3. \A c \in Comments : comments'[c].floor = comments[c].floor
  <2>1. \A c \in Comments : ~CommentWritten(p, c)
    BY <1>1 DEF CommentWritten, Locking
  <2> QED
    BY <2>1, CommitColumns
<1>4. ASSUME mode = "through" PROVE favs' = favs
  <2>1. CASE tx[p].op \in OnFavs
    <3>1. tx[p].bump = Zero
      BY <2>1 DEF Commit, Refused, OnFavs
    <3>2. BumpOf(tx[p].op)["bookmark"] # 0
      BY <2>1 DEF BumpOf, Only, OnFavs, Fields
    <3>3. Zero["bookmark"] = 0
      BY DEF Zero, Fields
    <3> QED
      BY <1>0, <1>4, <3>1, <3>2, <3>3 DEF TxFits
  <2>2. CASE tx[p].op \notin OnFavs
    BY <2>2 DEF Commit, Changed, OnFavs
  <2> QED
    BY <2>1, <2>2
<1> QED
  BY <1>2, <1>3, <1>4

\* A request that began before its item was deleted adds nothing after it:
\* lock_active for likes, comments and their likes, the bump that is refused
\* for bookmarks.
THEOREM NothingAfterDeletion == Spec => DeletedTakesNothing
<1>1. ASSUME IInv, [Next]_vars PROVE TakesNothing
  <2>0. TypeOK /\ comments \in [Comments -> Rows]
    BY <1>1 DEF IInv, TypeOK
  <2>1. ASSUME NEW p \in Conns, Rollback(p) PROVE TakesNothing
    <3>1. \A c \in Comments : comments'[c].floor = comments[c].floor
      BY <2>0, <2>1 DEF Rollback, Released, Rows
    <3> QED
      BY <1>1, <2>1, <3>1, NoDetail DEF Rollback
  <2>2. ASSUME NEW p \in Conns, StampComment(p) PROVE TakesNothing
    <3>1. \A c \in Comments : comments'[c].floor = comments[c].floor
      BY <2>0, <2>2 DEF StampComment, Rows
    <3> QED
      BY <1>1, <2>2, <3>1, NoDetail DEF StampComment
  <2>3. ASSUME NEW p \in Conns, Begin(p) PROVE TakesNothing
    <3>1. UNCHANGED <<likes, favs, commentLikes, comments>>
      BY <2>3 DEF Begin, LikeItem, Favorite, LikeComment, DeleteComment, CreateComment,
           DeleteItem, rows
    <3> QED
      BY <1>1, <3>1, NoDetail
  <2>4. ASSUME NEW full \in BOOLEAN, Scan(full) PROVE TakesNothing
    <3>1. \A c \in Comments : comments'[c].floor = comments[c].floor
      BY <2>0, <2>4 DEF Scan, Rows
    <3> QED
      BY <1>1, <2>4, <3>1, NoDetail DEF Scan
  <2>5. CASE Compare \/ Write \/ Drain \/ Apply \/ JobFails \/ UNCHANGED vars
    <3>1. UNCHANGED <<likes, favs, commentLikes, comments>>
      BY <2>5 DEF Compare, Write, Drain, Apply, JobFails, vars, rows
    <3> QED
      BY <1>1, <3>1, NoDetail
  <2>6. ASSUME NEW p \in Conns, Proceed(p) \/ Fail(p) PROVE TakesNothing
    BY <1>1, <2>1, <2>2, <2>6, CommitTakesNothing
       DEF Proceed, Fail, Refuse, BreakDeadlock
  <2> QED
    BY <1>1, <2>3, <2>4, <2>5, <2>6 DEF Next
<1>2. ASSUME IInv, [Next]_vars
      PROVE  [item.deleted =>
                /\ likes' = likes
                /\ commentLikes' = commentLikes
                /\ {c \in Comments : Written(c)} = {c \in Comments : Written(c)'}
                /\ mode = "through" => favs' = favs]_vars
  BY <1>1, <1>2 DEF TakesNothing
<1> QED
  BY <1>2, Invariance, PTL DEF Spec, DeletedTakesNothing


-----------------------------------------------------------------------------
(* The follow timeline: the inductive invariant                            *)

Shown == {p \in Posts : posts[p].st \in {"live", "gone"}}

\* created_at is given once and never twice; the watermark, and the one a job
\* is about to write, are those of posts that have been visible.
StampsOK ==
    /\ \A p \in Posts : posts[p].st # "none" => Feed!Stamp(p) \in 1..clock
    /\ \A p, q \in Posts :
         posts[p].st # "none" /\ posts[q].st # "none" /\ Feed!Stamp(p) = Feed!Stamp(q) => p = q

Reached(m) == m > 0 => \E q \in Shown : Feed!Stamp(q) = m

\* What a transaction carries, by its kind.
Shape(c) ==
    /\ feedTx[c].op = "idle" => feedTx[c] = Feed!Idle
    /\ feedTx[c].op \in {"follow", "unfollow"} => feedTx[c].who \in Readers
    /\ feedTx[c].op = "delete" => feedTx[c].who \in Shown
    /\ feedTx[c].op = "fan" => feedTx[c].who = Nobody
    /\ feedTx[c].op # "fan" => feedTx[c].todo = <<>>
    /\ feedTx[c].op \notin {"unfollow", "delete"} => feedTx[c].drop = {}
    /\ feedTx[c].op \in {"unfollow", "delete"} => feedTx[c].add = {}
    /\ feedTx[c].op = "unfollow" => \A x \in feedTx[c].drop : x[1] = feedTx[c].who
    /\ feedTx[c].op = "delete" => \A x \in feedTx[c].drop : x[2] = feedTx[c].who
    /\ feedTx[c].op = "fan" => Reached(feedTx[c].upto)

\* One transaction at a time for a follow relation.
Apart == \A c, d \in FeedConns : feedTx[c].who # Nobody /\ feedTx[c].who = feedTx[d].who => c = d

\* Rows that have come since an unfollow or a deletion took out what it saw
\* are known as raced.
DropCovers(c) ==
    /\ feedTx[c].op = "unfollow" => \A x \in feed \ raced : x[1] = feedTx[c].who => x \in feedTx[c].drop
    /\ feedTx[c].op = "delete" => \A x \in feed \ raced : x[2] = feedTx[c].who => x \in feedTx[c].drop

\* A follow that is not committed yet brings every visible post.
FollowCovers(c) ==
    feedTx[c].op = "follow" =>
        \A p \in Feed!Live : <<feedTx[c].who, p>> \in feed \cup feedTx[c].add \cup feedTx[c].left \cup excused

\* A job has served the followers of this moment with the posts up to its
\* new watermark, but for those it still has to do: also when other jobs
\* have moved the watermark back or readers have come and gone.
FanCovers(c) ==
    feedTx[c].op = "fan" =>
        \A r \in fans, p \in Feed!Live :
           Feed!Stamp(p) <= feedTx[c].upto =>
              \/ <<r, p>> \in feed \cup feedTx[c].add \cup feedTx[c].left \cup excused
              \/ \E i \in 1..Len(feedTx[c].todo) : feedTx[c].todo[i] = p

FeedInv ==
    /\ Feed!TypeOK /\ StampsOK /\ Reached(mark) /\ Apart
    /\ \A c \in FeedConns : Shape(c) /\ DropCovers(c) /\ FollowCovers(c) /\ FanCovers(c)
    /\ TimelineSound

-----------------------------------------------------------------------------
(* The order of a batch                                                    *)

\* The smaller of two stamps, as the batch takes it.
LEMMA MinOfTwo ==
  ASSUME NEW a \in Nat, NEW b \in Nat
  PROVE  Feed!Min({a, b}) = IF a <= b THEN a ELSE b
<1> DEFINE S == {a, b}
           m == IF a <= b THEN a ELSE b
<1>1. m \in S /\ \A y \in S : m =< y
  OBVIOUS
<1>2. \A x \in S : (\A y \in S : x =< y) => x = m
  OBVIOUS
<1> HIDE DEF S, m
<1>3. Feed!Min(S) = m
  BY <1>1, <1>2 DEF Feed!Min
<1> QED
  BY <1>3 DEF S, m

\* The place of a post in a set, counted from 0.
Rank(S, p) == Cardinality({q \in S : Feed!Stamp(q) < Feed!Stamp(p)})

\* Posts with distinct stamps have the places 0 to n - 1.
LEMMA RankFacts ==
  ASSUME Feed!TypeOK, StampsOK, NEW S \in SUBSET Feed!Live, S # {}
  PROVE  /\ IsFiniteSet(S) /\ Cardinality(S) \in Nat \ {0}
         /\ \A p \in S : Rank(S, p) \in 0..(Cardinality(S) - 1)
         /\ \A p, q \in S : Feed!Stamp(p) < Feed!Stamp(q) => Rank(S, p) < Rank(S, q)
         /\ \A i \in 0..(Cardinality(S) - 1) : \E p \in S : Rank(S, p) = i
<1> DEFINE n == Cardinality(S)
           B(p) == {q \in S : Feed!Stamp(q) < Feed!Stamp(p)}
<1>0. IsFiniteSet(S)
  <2>1. S \in SUBSET Posts
    BY DEF Feed!Live
  <2> QED
    BY <2>1, FS_Subset, FeedAssumption
<1>1. n \in Nat \ {0}
  BY <1>0, FS_CardinalityType, FS_EmptySet
<1>2. \A p \in S : Feed!Stamp(p) \in Nat
  BY DEF Feed!Live, Feed!TypeOK, Feed!Stamp
<1>3. \A p \in S : IsFiniteSet(B(p)) /\ Cardinality(B(p)) \in Nat
  BY <1>0, FS_Subset, FS_CardinalityType
<1>4. \A p \in S : Rank(S, p) = Cardinality(B(p))
  BY DEF Rank
<1>5. ASSUME NEW p \in S PROVE Rank(S, p) \in 0..(n - 1)
  <2>1. B(p) \in SUBSET S /\ B(p) # S
    BY <1>2
  <2>2. Cardinality(B(p)) <= n /\ Cardinality(B(p)) # n
    BY <1>0, <2>1, FS_Subset
  <2> HIDE DEF n, B
  <2> QED
    BY <1>1, <1>3, <1>4, <2>2
<1>6. ASSUME NEW p \in S, NEW q \in S, Feed!Stamp(p) < Feed!Stamp(q)
      PROVE  Rank(S, p) < Rank(S, q)
  <2>1. B(p) \in SUBSET B(q) /\ B(p) # B(q)
    <3>1. p \in B(q) /\ p \notin B(p)
      BY <1>2, <1>6
    <3>2. \A x \in B(p) : x \in B(q)
      BY <1>2, <1>6
    <3> QED
      BY <3>1, <3>2
  <2> HIDE DEF B
  <2>2. Cardinality(B(p)) <= Cardinality(B(q)) /\ Cardinality(B(p)) # Cardinality(B(q))
    BY <1>3, <2>1, FS_Subset
  <2> QED
    BY <1>3, <1>4, <2>2
<1>7. ASSUME NEW i \in 0..(n - 1) PROVE \E p \in S : Rank(S, p) = i
  <2> DEFINE T == 0..(n - 1)
             f == [p \in S |-> Rank(S, p)]
  <2>1. f \in [S -> T]
    BY <1>5
  <2>2. \A p, q \in S : f[p] = f[q] => p = q
    <3> SUFFICES ASSUME NEW p \in S, NEW q \in S, f[p] = f[q] PROVE p = q
      OBVIOUS
    <3>1. Rank(S, p) = Rank(S, q) /\ Rank(S, p) \in Nat /\ Rank(S, q) \in Nat
      BY <1>3, <1>4
    <3>2. ~(Feed!Stamp(p) < Feed!Stamp(q)) /\ ~(Feed!Stamp(q) < Feed!Stamp(p))
      BY <1>6, <3>1
    <3>3. Feed!Stamp(p) = Feed!Stamp(q)
      BY <1>2, <3>2
    <3>4. p \in Posts /\ q \in Posts /\ posts[p].st # "none" /\ posts[q].st # "none"
      BY DEF Feed!Live
    <3> QED
      BY <3>3, <3>4 DEF StampsOK
  <2>3. f \in Injection(S, T)
    BY <2>1, <2>2 DEF Injection, IsInjective
  <2>4. IsFiniteSet(T) /\ Cardinality(T) = n
    <3>1. 0 \in Int /\ n - 1 \in Int /\ n \in Nat \ {0}
      BY <1>1
    <3>2. IsFiniteSet(T) /\ Cardinality(T) = IF 0 > n - 1 THEN 0 ELSE (n - 1) - 0 + 1
      BY <3>1, FS_Interval
    <3> HIDE DEF n
    <3> QED
      BY <3>1, <3>2
  <2>5. f \in Surjection(S, T)
    BY <2>3, <2>4, FS_Injection
  <2>6. \E p \in S : f[p] = i
    BY <2>5 DEF Surjection
  <2> QED
    BY <2>6
<1> QED
  BY <1>0, <1>1, <1>5, <1>6, <1>7

\* A batch is a sequence of the set that leaves out nothing older than its
\* last post.
LEMMA InOrderFacts ==
  ASSUME Feed!TypeOK, StampsOK, NEW S \in SUBSET Feed!Live, S # {}
  PROVE  /\ Feed!InOrder(S) \in Seq(S) /\ Len(Feed!InOrder(S)) \in Nat \ {0}
         /\ Feed!InOrder(S)[Len(Feed!InOrder(S))] \in S
         /\ \A p \in S :
              Feed!Stamp(p) <= Feed!Stamp(Feed!InOrder(S)[Len(Feed!InOrder(S))])
                => \E i \in 1..Len(Feed!InOrder(S)) : Feed!InOrder(S)[i] = p
<1> DEFINE n == Cardinality(S)
           k == Feed!Min({Batch, n})
           L == Feed!InOrder(S)
<1>1. /\ n \in Nat \ {0}
      /\ \A p \in S : Rank(S, p) \in 0..(n - 1)
      /\ \A p, q \in S : Feed!Stamp(p) < Feed!Stamp(q) => Rank(S, p) < Rank(S, q)
      /\ \A i \in 0..(n - 1) : \E p \in S : Rank(S, p) = i
  BY RankFacts
<1>2. k \in Nat \ {0} /\ k <= n
  <2> HIDE DEF n
  <2>1. k = IF Batch <= n THEN Batch ELSE n
    BY <1>1, MinOfTwo, FeedAssumption
  <2> QED
    BY <1>1, <2>1, FeedAssumption
<1>3. L = [i \in 1..k |-> CHOOSE p \in S : Rank(S, p) = i - 1]
  BY DEF Feed!InOrder, Rank, Feed!Cardinality, Cardinality
<1> HIDE DEF n, k, L
<1>4. ASSUME NEW i \in 1..k PROVE L[i] \in S /\ Rank(S, L[i]) = i - 1
  <2>1. i - 1 \in 0..(n - 1)
    BY <1>1, <1>2
  <2>2. \E p \in S : Rank(S, p) = i - 1
    BY <1>1, <2>1
  <2>3. L[i] = CHOOSE p \in S : Rank(S, p) = i - 1
    BY <1>3
  <2> QED
    BY <2>2, <2>3
<1>5. L \in Seq(S) /\ Len(L) = k
  <2>1. L \in [1..k -> S]
    BY <1>3, <1>4
  <2> QED
    BY <1>2, <2>1
<1>6. L[k] \in S /\ Rank(S, L[k]) = k - 1
  BY <1>2, <1>4
<1>7. ASSUME NEW p \in S, Feed!Stamp(p) <= Feed!Stamp(L[k])
      PROVE  \E i \in 1..k : L[i] = p
  <2>0. \A q \in S : /\ Feed!Stamp(q) \in Nat /\ q \in Posts /\ posts[q].st # "none"
                     /\ Rank(S, q) \in Nat
    BY <1>1 DEF Feed!Live, Feed!TypeOK, Feed!Stamp
  <2>1. Rank(S, p) <= k - 1
    <3>1. CASE Feed!Stamp(p) < Feed!Stamp(L[k])
      BY <3>1, <1>1, <1>2, <1>6, <2>0
    <3>2. CASE Feed!Stamp(p) = Feed!Stamp(L[k])
      <4>1. p = L[k]
        BY <3>2, <1>6, <2>0 DEF StampsOK
      <4> QED
        BY <4>1, <1>2, <1>6
    <3> QED
      BY <1>7, <3>1, <3>2, <1>6, <2>0
  <2>2. Rank(S, p) + 1 \in 1..k
    BY <1>2, <2>0, <2>1
  <2>3. L[Rank(S, p) + 1] \in S /\ Rank(S, L[Rank(S, p) + 1]) = Rank(S, p)
    BY <1>4, <2>0, <2>2
  <2>q. PICK q \in S : q = L[Rank(S, p) + 1] /\ Rank(S, q) = Rank(S, p)
    BY <2>3
  <2>4. ~(Feed!Stamp(q) < Feed!Stamp(p)) /\ ~(Feed!Stamp(p) < Feed!Stamp(q))
    BY <1>1, <2>0, <2>q
  <2>5. q = p
    BY <2>0, <2>4 DEF StampsOK
  <2> QED
    BY <2>2, <2>q, <2>5
<1> QED
  BY <1>2, <1>5, <1>6, <1>7 DEF L

-----------------------------------------------------------------------------
(* The start                                                               *)

\* An idle connection carries nothing.
LEMMA FeedIdleFacts ==
  /\ Feed!Idle \in Feed!Txs /\ Feed!Idle.op = "idle" /\ Feed!Idle.who = Nobody /\ Feed!Idle.todo = <<>>
  /\ Feed!Idle.upto = 0 /\ Feed!Idle.add = {} /\ Feed!Idle.drop = {} /\ Feed!Idle.left = {}
<1>1. <<>> \in Seq(Posts)
  OBVIOUS
<1> QED
  BY <1>1 DEF Feed!Idle, Feed!Txs

\* The tables start empty and every connection is idle.
LEMMA FeedStartHolds == Feed!Init => FeedInv
<1> SUFFICES ASSUME Feed!Init PROVE FeedInv
  OBVIOUS
<1>1. Feed!TypeOK
  <2>1. feedTx \in [FeedConns -> Feed!Txs]
    BY FeedIdleFacts DEF Feed!Init
  <2>2. posts \in [Posts -> [st: {"none", "hidden", "live", "gone"}, at: Nat]]
    BY DEF Feed!Init
  <2> QED
    BY <2>1, <2>2, FeedAssumption DEF Feed!Init, Feed!TypeOK
<1>2. Feed!Live = {} /\ \A p \in Posts : posts[p].st = "none"
  BY DEF Feed!Init, Feed!Live
<1>3. StampsOK /\ Reached(mark)
  BY <1>2 DEF StampsOK, Reached, Feed!Init
<1>4. \A c \in FeedConns : feedTx[c] = Feed!Idle
  BY DEF Feed!Init
<1>5. Apart /\ \A c \in FeedConns : Shape(c) /\ DropCovers(c) /\ FollowCovers(c) /\ FanCovers(c)
  BY <1>4, FeedIdleFacts DEF Apart, Shape, DropCovers, FollowCovers, FanCovers
<1>6. TimelineSound
  BY <1>2 DEF TimelineSound, Feed!TimelineSound, Feed!FansServed, Feed!RowsJustified, Feed!Init
<1> QED
  BY <1>1, <1>3, <1>5, <1>6 DEF FeedInv

-----------------------------------------------------------------------------
(* The posts                                                               *)

\* Create: a post takes the next created_at, and nobody sees it yet.
LEMMA CreateKeeps ==
  ASSUME FeedInv, NEW p \in Posts, Feed!Create(p)
  PROVE  FeedInv'
<1>0. /\ Feed!TypeOK /\ StampsOK /\ posts[p].st = "none" /\ clock \in Nat
      /\ clock' = clock + 1 /\ mark \in 0..clock
      /\ UNCHANGED <<fans, feed, mark, bigv, feedTx, excused, raced, changes>>
      /\ posts \in [Posts -> [st: {"none", "hidden", "live", "gone"}, at: Nat]]
  BY DEF FeedInv, Feed!TypeOK, Feed!Create
<1>1. /\ posts' \in [Posts -> [st: {"none", "hidden", "live", "gone"}, at: Nat]]
      /\ posts'[p].st = "hidden" /\ posts'[p].at = clock + 1
      /\ \A q \in Posts \ {p} : posts'[q] = posts[q]
  BY <1>0 DEF Feed!Create
<1>2. Feed!TypeOK'
  BY <1>0, <1>1 DEF Feed!TypeOK
<1>3. StampsOK'
  <2>1. \A q \in Posts : posts'[q].st # "none" => Feed!Stamp(q)' \in 1..clock'
    BY <1>0, <1>1 DEF StampsOK, Feed!Stamp
  <2>2. \A q, r \in Posts :
          posts'[q].st # "none" /\ posts'[r].st # "none" /\ Feed!Stamp(q)' = Feed!Stamp(r)' => q = r
    <3> SUFFICES ASSUME NEW q \in Posts, NEW r \in Posts, posts'[q].st # "none",
                        posts'[r].st # "none", posts'[q].at = posts'[r].at
                 PROVE  q = r
      BY DEF Feed!Stamp
    <3>1. \A x \in Posts \ {p} : posts[x].st # "none" => posts[x].at < clock + 1
      BY <1>0 DEF StampsOK, Feed!Stamp
    <3>2. CASE q # p /\ r # p
      BY <3>2, <1>0, <1>1 DEF StampsOK, Feed!Stamp
    <3>3. CASE q = p \/ r = p
      BY <3>3, <1>0, <1>1, <3>1
    <3> QED
      BY <3>2, <3>3
  <2> QED
    BY <2>1, <2>2 DEF StampsOK
<1>4. Feed!Live' = Feed!Live /\ Shown' = Shown /\ p \notin Feed!Live /\ p \notin Shown
  BY <1>0, <1>1 DEF Feed!Live, Shown
<1>5. \A q \in Feed!Live \cup Shown : Feed!Stamp(q)' = Feed!Stamp(q)
  BY <1>1, <1>4 DEF Feed!Stamp, Feed!Live, Shown
<1>6. \A m : Reached(m) => Reached(m)'
  BY <1>4, <1>5 DEF Reached
<1>7. Reached(mark)'
  BY <1>0, <1>6 DEF FeedInv
<1>8. Apart'
  BY <1>0 DEF FeedInv, Apart
<1>9. ASSUME NEW c \in FeedConns
      PROVE  Shape(c)' /\ DropCovers(c)' /\ FollowCovers(c)' /\ FanCovers(c)'
  <2>1. Shape(c) /\ DropCovers(c) /\ FollowCovers(c) /\ FanCovers(c) /\ feedTx'[c] = feedTx[c]
    BY <1>0 DEF FeedInv
  <2>2. Shape(c)'
    BY <2>1, <1>4, <1>6 DEF Shape
  <2>3. DropCovers(c)' /\ FollowCovers(c)'
    BY <1>0, <1>4, <2>1 DEF DropCovers, FollowCovers
  <2>4. FanCovers(c)'
    BY <1>0, <1>4, <1>5, <2>1 DEF FanCovers
  <2> QED
    BY <2>2, <2>3, <2>4
<1>10. Feed!FansServed'
  BY <1>0, <1>4, <1>5 DEF FeedInv, TimelineSound, Feed!TimelineSound, Feed!FansServed
<1>11. Feed!RowsJustified'
  <2>1. \A q \in Posts : posts[q].st # "gone" => posts'[q].st # "gone"
    BY <1>1
  <2>2. feed \subseteq Feed!Pairs
    BY <1>0 DEF Feed!TypeOK
  <2> QED
    BY <1>0, <2>1, <2>2 DEF FeedInv, TimelineSound, Feed!TimelineSound, Feed!RowsJustified, Feed!Pairs
<1> QED
  BY <1>2, <1>3, <1>7, <1>8, <1>9, <1>10, <1>11 DEF FeedInv, TimelineSound, Feed!TimelineSound

\* Appear: a late commit shows a post; whoever it passed by is excused.
LEMMA AppearKeeps ==
  ASSUME FeedInv, NEW p \in Posts, Feed!Appear(p)
  PROVE  FeedInv'
<1>0. /\ Feed!TypeOK /\ StampsOK /\ posts[p].st = "hidden" /\ mark \in Nat
      /\ UNCHANGED <<clock, bigv, fans, feed, mark, feedTx, raced, changes>>
      /\ excused' = excused \cup Feed!MayMiss(p)
      /\ posts' = [posts EXCEPT ![p].st = "live"]
      /\ posts \in [Posts -> [st: {"none", "hidden", "live", "gone"}, at: Nat]]
  BY DEF FeedInv, Feed!TypeOK, Feed!Appear, Feed!unseen
<1>1. /\ posts' \in [Posts -> [st: {"none", "hidden", "live", "gone"}, at: Nat]]
      /\ posts'[p].st = "live" /\ posts'[p].at = posts[p].at
      /\ \A q \in Posts \ {p} : posts'[q] = posts[q]
  BY <1>0
<1>2. Feed!MayMiss(p) \subseteq Feed!Pairs
  <2>1. \A d \in FeedConns : feedTx[d].op = "follow" => feedTx[d].who \in Readers
    BY DEF FeedInv, Shape
  <2> QED
    BY <2>1 DEF Feed!MayMiss, Feed!Pairs
<1>3. Feed!TypeOK'
  BY <1>0, <1>1, <1>2 DEF Feed!TypeOK
<1>4. \A q \in Posts : Feed!Stamp(q)' = Feed!Stamp(q) /\ (posts'[q].st # "none" <=> posts[q].st # "none")
  BY <1>0, <1>1 DEF Feed!Stamp
<1>5. StampsOK'
  BY <1>0, <1>4 DEF StampsOK
<1>6. /\ Feed!Live' = Feed!Live \cup {p} /\ Shown \subseteq Shown' /\ Feed!Live \subseteq Posts
      /\ Shown \subseteq Posts /\ p \notin Shown
  BY <1>0, <1>1 DEF Feed!Live, Shown
<1>7. \A m : Reached(m) => Reached(m)'
  BY <1>4, <1>6 DEF Reached
<1>8. ASSUME NEW m \in Nat, Reached(m), Feed!Stamp(p) <= m
      PROVE  \A r \in Readers : <<r, p>> \in excused'
  <2>0. Feed!Stamp(p) \in Nat \ {0} /\ \A q \in Shown : posts[q].st # "none" /\ Feed!Stamp(q) \in Nat
    BY <1>0 DEF StampsOK, Feed!TypeOK, Feed!Stamp, Shown
  <2>1. PICK q \in Shown : Feed!Stamp(q) = m
    BY <1>8, <2>0 DEF Reached
  <2>2. Feed!Stamp(q) # Feed!Stamp(p)
    BY <1>0, <1>6, <2>1, <2>0 DEF StampsOK
  <2>3. Feed!Stamp(q) > Feed!Stamp(p)
    BY <1>8, <2>0, <2>1, <2>2
  <2>4. Feed!MayMiss(p) = Readers \X {p}
    BY <2>1, <2>3 DEF Feed!MayMiss, Shown
  <2> QED
    BY <1>0, <2>4
<1>9. ASSUME NEW c \in FeedConns, feedTx[c].op = "follow"
      PROVE  <<feedTx[c].who, p>> \in excused'
  <2>1. feedTx[c].who \in Readers
    BY <1>9 DEF FeedInv, Shape
  <2> QED
    BY <1>0, <1>9, <2>1 DEF Feed!MayMiss
<1>10. ASSUME NEW c \in FeedConns
       PROVE  Shape(c)' /\ DropCovers(c)' /\ FollowCovers(c)' /\ FanCovers(c)'
  <2>1. /\ Shape(c) /\ DropCovers(c) /\ FollowCovers(c) /\ FanCovers(c)
        /\ feedTx'[c] = feedTx[c] /\ feedTx[c] \in Feed!Txs
    BY <1>0 DEF FeedInv, Feed!TypeOK
  <2>2. Shape(c)'
    BY <2>1, <1>6, <1>7 DEF Shape
  <2>3. DropCovers(c)'
    BY <1>0, <2>1 DEF DropCovers
  <2>4. FollowCovers(c)'
    <3> SUFFICES ASSUME feedTx[c].op = "follow", NEW q \in Feed!Live'
                 PROVE  <<feedTx[c].who, q>> \in feed \cup feedTx[c].add \cup feedTx[c].left \cup excused'
      BY <1>0, <2>1 DEF FollowCovers
    <3>1. CASE q \in Feed!Live
      BY <3>1, <1>0, <2>1 DEF FollowCovers
    <3>2. CASE q = p
      BY <3>2, <1>9
    <3> QED
      BY <1>6, <3>1, <3>2
  <2>5. FanCovers(c)'
    <3> SUFFICES ASSUME feedTx[c].op = "fan", NEW r \in fans, NEW q \in Feed!Live',
                        Feed!Stamp(q) <= feedTx[c].upto
                 PROVE  \/ <<r, q>> \in feed \cup feedTx[c].add \cup feedTx[c].left \cup excused'
                        \/ \E i \in 1..Len(feedTx[c].todo) : feedTx[c].todo[i] = q
      BY <1>0, <1>4, <1>6, <2>1 DEF FanCovers
    <3>1. CASE q \in Feed!Live
      BY <3>1, <1>0, <2>1 DEF FanCovers
    <3>2. CASE q = p
      <4>1. feedTx[c].upto \in Nat /\ Reached(feedTx[c].upto)
        BY <2>1 DEF Shape, Feed!Txs
      <4>2. r \in Readers
        BY <1>0 DEF Feed!TypeOK
      <4> QED
        BY <3>2, <4>1, <4>2, <1>8
    <3> QED
      BY <1>6, <3>1, <3>2
  <2> QED
    BY <2>2, <2>3, <2>4, <2>5
<1>11. Reached(mark)' /\ Apart'
  BY <1>0, <1>7 DEF FeedInv, Apart
<1>12. Feed!FansServed'
  <2> SUFFICES ASSUME NEW r \in fans, NEW q \in Feed!Live', Feed!Stamp(q) <= mark,
                      <<r, q>> \notin excused'
               PROVE  <<r, q>> \in feed
    BY <1>0, <1>4, <1>6 DEF Feed!FansServed
  <2>1. CASE q \in Feed!Live
    BY <2>1, <1>0 DEF FeedInv, TimelineSound, Feed!TimelineSound, Feed!FansServed
  <2>2. CASE q = p
    BY <2>2, <1>0, <1>8 DEF FeedInv, Feed!TypeOK
  <2> QED
    BY <1>6, <2>1, <2>2
<1>13. Feed!RowsJustified'
  <2>1. \A q \in Posts : posts[q].st # "gone" => posts'[q].st # "gone"
    BY <1>1
  <2>2. feed \subseteq Feed!Pairs
    BY <1>0 DEF Feed!TypeOK
  <2> QED
    BY <1>0, <2>1, <2>2 DEF FeedInv, TimelineSound, Feed!TimelineSound, Feed!RowsJustified, Feed!Pairs
<1> QED
  BY <1>3, <1>5, <1>10, <1>11, <1>12, <1>13 DEF FeedInv, TimelineSound, Feed!TimelineSound

-----------------------------------------------------------------------------
(* Steps of a transaction before its end                                   *)

\* What a transaction must bring for its next state t.
Fits(c, t) ==
    /\ t.op = "idle" => t = Feed!Idle
    /\ t.op \in {"follow", "unfollow"} => t.who \in Readers
    /\ t.op = "delete" => t.who \in Shown
    /\ t.op = "fan" => t.who = Nobody
    /\ t.op # "fan" => t.todo = <<>>
    /\ t.op \notin {"unfollow", "delete"} => t.drop = {}
    /\ t.op \in {"unfollow", "delete"} => t.add = {}
    /\ t.op = "unfollow" => \A x \in t.drop : x[1] = t.who
    /\ t.op = "delete" => \A x \in t.drop : x[2] = t.who
    /\ t.op = "fan" => Reached(t.upto)
    /\ t.op = "unfollow" => \A x \in feed \ raced : x[1] = t.who => x \in t.drop
    /\ t.op = "delete" => \A x \in feed \ raced : x[2] = t.who => x \in t.drop
    /\ t.op = "follow" => \A p \in Feed!Live : <<t.who, p>> \in feed \cup t.add \cup t.left \cup excused
    /\ t.op = "fan" =>
         \A r \in fans, p \in Feed!Live :
            Feed!Stamp(p) <= t.upto =>
               \/ <<r, p>> \in feed \cup t.add \cup t.left \cup excused
               \/ \E i \in 1..Len(t.todo) : t.todo[i] = p
    /\ t.who # Nobody => \A d \in FeedConns \ {c} : feedTx[d].who # t.who

\* A step inside a transaction: only what connection c carries changes.
LEMMA StepKeeps ==
  ASSUME FeedInv, NEW c \in FeedConns, NEW t \in Feed!Txs, Fits(c, t), Feed!Step(c, t),
         UNCHANGED <<posts, clock, fans, feed, mark, excused, raced>>,
         bigv' \in {"unknown", "yes", "no"}, changes' \in 0..MaxChanges
  PROVE  FeedInv'
<1>0. feedTx \in [FeedConns -> Feed!Txs] /\ Feed!TypeOK
  BY DEF FeedInv, Feed!TypeOK
<1>1. /\ feedTx' \in [FeedConns -> Feed!Txs] /\ feedTx'[c] = t
      /\ \A d \in FeedConns \ {c} : feedTx'[d] = feedTx[d]
  BY <1>0 DEF Feed!Step
<1>2. Feed!TypeOK'
  BY <1>0, <1>1 DEF Feed!TypeOK
<1>3. Feed!Live' = Feed!Live /\ Shown' = Shown /\ \A p : Feed!Stamp(p)' = Feed!Stamp(p)
  BY DEF Feed!Live, Shown, Feed!Stamp
<1>4. \A m : Reached(m) <=> Reached(m)'
  BY <1>3 DEF Reached
<1>5. StampsOK' /\ Reached(mark)'
  BY <1>3, <1>4 DEF FeedInv, StampsOK
<1>6. Apart'
  BY <1>1 DEF FeedInv, Apart, Fits
<1>7. TimelineSound'
  BY <1>3 DEF FeedInv, TimelineSound, Feed!TimelineSound, Feed!FansServed, Feed!RowsJustified
<1>8. ASSUME NEW d \in FeedConns
      PROVE  Shape(d)' /\ DropCovers(d)' /\ FollowCovers(d)' /\ FanCovers(d)'
  <2>1. CASE d = c
    <3>1. Shape(d)'
      BY <2>1, <1>1, <1>3, <1>4 DEF Fits, Shape
    <3>2. DropCovers(d)' /\ FollowCovers(d)'
      BY <2>1, <1>1, <1>3 DEF Fits, DropCovers, FollowCovers
    <3>3. FanCovers(d)'
      BY <2>1, <1>1, <1>3 DEF Fits, FanCovers
    <3> QED
      BY <3>1, <3>2, <3>3
  <2>2. CASE d # c
    <3>0. feedTx'[d] = feedTx[d] /\ Shape(d) /\ DropCovers(d) /\ FollowCovers(d) /\ FanCovers(d)
      BY <2>2, <1>1 DEF FeedInv
    <3>1. Shape(d)'
      BY <3>0, <1>3, <1>4 DEF Shape
    <3>2. DropCovers(d)' /\ FollowCovers(d)'
      BY <3>0, <1>3 DEF DropCovers, FollowCovers
    <3>3. FanCovers(d)'
      BY <3>0, <1>3 DEF FanCovers
    <3> QED
      BY <3>1, <3>2, <3>3
  <2> QED
    BY <2>1, <2>2
<1> QED
  BY <1>2, <1>5, <1>6, <1>7, <1>8 DEF FeedInv

\* The bound on changes holds.
LEMMA FeedCountedFacts ==
  ASSUME FeedInv, Feed!Counted
  PROVE  changes' \in 0..MaxChanges
BY FeedAssumption DEF FeedInv, Feed!TypeOK, Feed!Counted

\* The cached answer of the cap is one of three.
LEMMA BigVType ==
  ASSUME FeedInv, NEW S
  PROVE  Feed!BigV(S) \in {"unknown", "yes", "no"}
BY DEF FeedInv, Feed!TypeOK, Feed!BigV

\* follow_user: the transaction carries each visible post of the author, to
\* be given or to be left.
LEMMA FollowKeeps ==
  ASSUME FeedInv, NEW c \in FeedConns, NEW r \in Readers, Feed!Follow(c, r)
  PROVE  FeedInv'
<1>0. /\ Feed!Counted /\ Feed!PairFree(r)
      /\ UNCHANGED <<posts, clock, fans, feed, mark, excused, raced>>
  BY DEF Feed!Follow
<1> DEFINE big   == IF Backfill = 0 THEN bigv ELSE Feed!BigV(fans \cup {r})
           given == IF big = "yes" THEN {} ELSE {r} \X Feed!Latest
           left  == ({r} \X Feed!Live) \ given
           t     == [Feed!Idle EXCEPT !.op = "follow", !.who = r, !.add = Feed!Added(given), !.left = left]
<1>1. /\ given \subseteq Feed!Pairs /\ left \subseteq Feed!Pairs
      /\ \A p \in Feed!Live : <<r, p>> \in given \cup left
  BY DEF Feed!Pairs, Feed!Live, Feed!Latest
<1>2. \A d \in FeedConns : feedTx[d].who # r
  BY <1>0 DEF Feed!PairFree
<1>3. r # Nobody
  BY FeedAssumption
<1>4. bigv' \in {"unknown", "yes", "no"}
  <2>1. bigv' = big /\ bigv \in {"unknown", "yes", "no"}
    BY DEF Feed!Follow, FeedInv, Feed!TypeOK
  <2> QED
    BY <2>1, BigVType
<1>5. Feed!Step(c, t)
  BY DEF Feed!Follow
<1> HIDE DEF big, given, left
<1>6. Feed!Added(given) \subseteq Feed!Pairs /\ \A x \in given : x \in feed \cup Feed!Added(given)
  BY <1>1 DEF Feed!Added
<1>7. /\ t \in Feed!Txs /\ t.op = "follow" /\ t.who = r /\ t.add = Feed!Added(given) /\ t.drop = {}
      /\ t.left = left /\ t.todo = <<>>
  BY <1>1, <1>6, FeedIdleFacts DEF Feed!Txs, Feed!Idle
<1> HIDE DEF t
<1>8. \A p \in Feed!Live : <<r, p>> \in feed \cup t.add \cup t.left
  BY <1>1, <1>6, <1>7
<1>9. Fits(c, t)
  BY <1>2, <1>7, <1>8 DEF Fits
<1> QED
  BY <1>0, <1>4, <1>5, <1>7, <1>9, FeedCountedFacts, StepKeeps

\* unfollow_user: the DELETE takes the reader's rows that it sees.
LEMMA UnfollowKeeps ==
  ASSUME FeedInv, NEW c \in FeedConns, NEW r \in Readers, Feed!Unfollow(c, r)
  PROVE  FeedInv'
<1> DEFINE t == [Feed!Idle EXCEPT !.op = "unfollow", !.who = r, !.drop = Feed!RowsOfAuthor(r)]
<1>0. /\ Feed!Counted /\ Feed!PairFree(r) /\ Feed!Step(c, t)
      /\ UNCHANGED <<posts, clock, fans, feed, mark, bigv, excused, raced>>
  BY DEF Feed!Unfollow
<1>1. Feed!RowsOfAuthor(r) \subseteq Feed!Pairs
  BY DEF Feed!RowsOfAuthor, FeedInv, Feed!TypeOK
<1>2. /\ t \in Feed!Txs /\ t.op = "unfollow" /\ t.who = r /\ t.add = {}
      /\ t.drop = Feed!RowsOfAuthor(r) /\ t.todo = <<>>
  BY <1>1, FeedIdleFacts DEF Feed!Txs, Feed!Idle
<1> HIDE DEF t
<1>3. \A d \in FeedConns : feedTx[d].who # r
  BY <1>0 DEF Feed!PairFree
<1>4. \A x \in feed : x[1] = r <=> x \in Feed!RowsOfAuthor(r)
  BY DEF Feed!RowsOfAuthor
<1>5. \A x \in Feed!RowsOfAuthor(r) : x[1] = r
  BY DEF Feed!RowsOfAuthor
<1>6. Fits(c, t)
  BY <1>2, <1>3, <1>4, <1>5 DEF Fits
<1> QED
  BY <1>0, <1>2, <1>6, FeedCountedFacts, StepKeeps DEF FeedInv, Feed!TypeOK

\* delete_item: the DELETE takes the rows of the post that it sees.
LEMMA DeleteKeeps ==
  ASSUME FeedInv, NEW c \in FeedConns, NEW p \in Posts, Feed!Delete(c, p)
  PROVE  FeedInv'
<1> DEFINE t == [Feed!Idle EXCEPT !.op = "delete", !.who = p, !.drop = Feed!RowsOfPost(p)]
<1>0. /\ Feed!Counted /\ Feed!PairFree(p) /\ Feed!Step(c, t)
      /\ UNCHANGED <<posts, clock, fans, feed, mark, bigv, excused, raced>>
  BY DEF Feed!Delete
<1>1. Feed!RowsOfPost(p) \subseteq Feed!Pairs
  BY DEF Feed!RowsOfPost, FeedInv, Feed!TypeOK
<1>2. /\ t \in Feed!Txs /\ t.op = "delete" /\ t.who = p /\ t.add = {}
      /\ t.drop = Feed!RowsOfPost(p) /\ t.todo = <<>>
  BY <1>1, FeedIdleFacts DEF Feed!Txs, Feed!Idle
<1> HIDE DEF t
<1>3. \A d \in FeedConns : feedTx[d].who # p
  BY <1>0 DEF Feed!PairFree
<1>4. \A x \in feed : x[2] = p <=> x \in Feed!RowsOfPost(p)
  BY DEF Feed!RowsOfPost
<1>5. \A x \in Feed!RowsOfPost(p) : x[2] = p
  BY DEF Feed!RowsOfPost
<1>6. p \in Shown
  BY DEF Feed!Delete, Feed!Live, Shown
<1>7. Fits(c, t)
  BY <1>2, <1>3, <1>4, <1>5, <1>6 DEF Fits
<1> QED
  BY <1>0, <1>2, <1>7, FeedCountedFacts, StepKeeps DEF FeedInv, Feed!TypeOK

\* fanout_batch picks the oldest posts behind the watermark.
LEMMA FeedScanKeeps ==
  ASSUME FeedInv, NEW c \in FeedConns, Feed!Scan(c)
  PROVE  FeedInv'
<1> DEFINE items == Feed!InOrder(Feed!Fresh)
<1>0. /\ UNCHANGED <<posts, clock, bigv, fans, feed, mark, excused, raced, changes>>
      /\ Feed!Step(c, [Feed!Idle EXCEPT !.op = "fan", !.todo = items, !.upto = Feed!NewMark(items)])
      /\ Feed!Fresh # {} /\ Feed!TypeOK /\ StampsOK
  BY DEF Feed!Scan, Feed!unseen, FeedInv
<1>1. Feed!Fresh \in SUBSET Feed!Live /\ Feed!Fresh \subseteq Posts
  BY DEF Feed!Fresh, Feed!Live
<1>2. /\ items \in Seq(Feed!Fresh) /\ Len(items) \in Nat \ {0}
      /\ items[Len(items)] \in Feed!Fresh
      /\ \A p \in Feed!Fresh : Feed!Stamp(p) <= Feed!Stamp(items[Len(items)])
                            => \E i \in 1..Len(items) : items[i] = p
  BY <1>0, <1>1, InOrderFacts
<1>3. items \in Seq(Posts)
  BY <1>1, <1>2
<1> HIDE DEF items
<1>s. PICK seq \in Seq(Posts) : seq = items
  BY <1>3
<1>q. PICK q \in Feed!Fresh : q = items[Len(items)]
  BY <1>2
<1>u. PICK u \in Nat : u = Feed!Stamp(q)
  BY <1>0, <1>1 DEF Feed!TypeOK, Feed!Stamp
<1> DEFINE t == [Feed!Idle EXCEPT !.op = "fan", !.todo = seq, !.upto = u]
<1>4. Feed!Step(c, t)
  BY <1>0, <1>s, <1>q, <1>u DEF Feed!NewMark
<1>5. /\ t \in Feed!Txs /\ t.op = "fan" /\ t.who = Nobody /\ t.add = {} /\ t.drop = {}
      /\ t.todo = seq /\ t.upto = u
  BY FeedIdleFacts DEF Feed!Txs, Feed!Idle
<1> HIDE DEF t
<1>6. Reached(u)
  BY <1>1, <1>q, <1>u DEF Reached, Shown, Feed!Live, Feed!Fresh
<1>7. ASSUME NEW r \in fans, NEW p \in Feed!Live, Feed!Stamp(p) <= u
      PROVE  \/ <<r, p>> \in feed \cup excused
             \/ \E i \in 1..Len(seq) : seq[i] = p
  <2>1. CASE p \in Feed!Fresh
    BY <2>1, <1>2, <1>7, <1>s, <1>q, <1>u
  <2>2. CASE p \notin Feed!Fresh
    <3>1. Feed!Stamp(p) <= mark
      BY <2>2, <1>0 DEF Feed!Fresh, Feed!Live, Feed!TypeOK, Feed!Stamp
    <3> QED
      BY <3>1 DEF FeedInv, TimelineSound, Feed!TimelineSound, Feed!FansServed
  <2> QED
    BY <2>1, <2>2
<1>8. Fits(c, t)
  BY <1>5, <1>6, <1>7 DEF Fits
<1> QED
  BY <1>0, <1>4, <1>5, <1>8, StepKeeps DEF FeedInv, Feed!TypeOK

\* One post of a batch: a row for each follower, none above the cap.
LEMMA FanOutKeeps ==
  ASSUME FeedInv, NEW c \in FeedConns, Feed!FanOut(c)
  PROVE  FeedInv'
<1>0. /\ UNCHANGED <<posts, clock, bigv, fans, feed, mark, excused, raced, changes>>
      /\ feedTx[c] \in Feed!Txs /\ feedTx[c].todo # <<>> /\ Shape(c) /\ FanCovers(c)
      /\ fans \subseteq Readers
  BY DEF Feed!FanOut, Feed!unseen, FeedInv, Feed!TypeOK
<1>1. feedTx[c].op = "fan" /\ feedTx[c].who = Nobody /\ feedTx[c].drop = {} /\ Reached(feedTx[c].upto)
  BY <1>0 DEF Shape
<1>o. PICK o \in Feed!Txs : o = feedTx[c]
  BY <1>0
<1>2. /\ o.todo \in Seq(Posts) /\ o.todo # <<>> /\ o.add \subseteq Feed!Pairs
      /\ o.left \subseteq Feed!Pairs
  BY <1>0, <1>o DEF Feed!Txs
<1>3. Head(o.todo) \in Posts /\ Tail(o.todo) \in Seq(Posts)
  BY <1>2
<1> DEFINE sent == fans \X {Head(o.todo)}
<1>4. sent \subseteq Feed!Pairs
  BY <1>0, <1>3 DEF Feed!Pairs
<1>5. ASSUME NEW i \in 1..Len(o.todo)
      PROVE  \/ o.todo[i] = Head(o.todo)
             \/ \E j \in 1..Len(Tail(o.todo)) : Tail(o.todo)[j] = o.todo[i]
  <2>1. CASE i = 1
    BY <2>1, <1>2
  <2>2. CASE i # 1
    <3>1. i - 1 \in 1..Len(Tail(o.todo)) /\ Tail(o.todo)[i - 1] = o.todo[i]
      BY <2>2, <1>2
    <3> QED
      BY <3>1
  <2> QED
    BY <2>1, <2>2
<1>6. ASSUME NEW t \in Feed!Txs, t.op = "fan", t.who = Nobody, t.drop = {}, t.upto = o.upto,
             t.todo = Tail(o.todo), o.add \subseteq t.add, o.left \subseteq t.left,
             sent \subseteq feed \cup t.add \cup t.left, Feed!Step(c, t)
      PROVE  FeedInv'
  <2>1. ASSUME NEW r \in fans, NEW p \in Feed!Live, Feed!Stamp(p) <= o.upto
        PROVE  \/ <<r, p>> \in feed \cup t.add \cup t.left \cup excused
               \/ \E i \in 1..Len(t.todo) : t.todo[i] = p
    <3>1. \/ <<r, p>> \in feed \cup o.add \cup o.left \cup excused
          \/ \E i \in 1..Len(o.todo) : o.todo[i] = p
      BY <1>0, <1>1, <1>o, <2>1 DEF FanCovers
    <3>2. p = Head(o.todo) => <<r, p>> \in sent
      OBVIOUS
    <3> QED
      BY <1>5, <1>6, <3>1, <3>2
  <2>2. Fits(c, t)
    BY <1>1, <1>o, <1>6, <2>1 DEF Fits
  <2> QED
    BY <1>0, <1>6, <2>2, StepKeeps DEF FeedInv, Feed!TypeOK
<1>7. CASE Feed!Over(fans)
  <2> DEFINE t == [o EXCEPT !.todo = Tail(@), !.left = @ \cup sent]
  <2>0. o.left \cup sent \subseteq Feed!Pairs
    BY <1>2, <1>4
  <2>1. /\ t \in Feed!Txs /\ t.op = "fan" /\ t.who = Nobody /\ t.drop = {} /\ t.upto = o.upto
        /\ t.todo = Tail(o.todo) /\ t.add = o.add /\ t.left = o.left \cup sent
    <3> HIDE DEF sent
    <3> QED
      BY <1>1, <1>o, <1>3, <2>0 DEF Feed!Txs
  <2>2. Feed!Step(c, t)
    BY <1>7, <1>o DEF Feed!FanOut
  <2> HIDE DEF t
  <2> QED
    BY <1>6, <2>1, <2>2
<1>8. CASE ~Feed!Over(fans)
  <2> DEFINE t == [o EXCEPT !.todo = Tail(@), !.add = @ \cup Feed!Added(sent)]
  <2>0. o.add \cup Feed!Added(sent) \subseteq Feed!Pairs
    BY <1>2, <1>4 DEF Feed!Added
  <2>1. /\ t \in Feed!Txs /\ t.op = "fan" /\ t.who = Nobody /\ t.drop = {} /\ t.upto = o.upto
        /\ t.todo = Tail(o.todo) /\ t.add = o.add \cup Feed!Added(sent) /\ t.left = o.left
    <3> HIDE DEF sent
    <3> QED
      BY <1>1, <1>o, <1>3, <2>0 DEF Feed!Txs
  <2>2. Feed!Step(c, t)
    BY <1>8, <1>o DEF Feed!FanOut
  <2>3. sent \subseteq feed \cup t.add
    BY <2>1 DEF Feed!Added
  <2> HIDE DEF t
  <2> QED
    BY <1>6, <2>1, <2>2, <2>3
<1> QED
  BY <1>7, <1>8

\* A rollback leaves the tables as they were.
LEMMA FailKeeps ==
  ASSUME FeedInv, NEW c \in FeedConns, Feed!Fail(c)
  PROVE  FeedInv'
<1>0. /\ Feed!Counted /\ Feed!Step(c, Feed!Idle)
      /\ UNCHANGED <<posts, clock, bigv, fans, feed, mark, excused, raced>>
  BY DEF Feed!Fail, Feed!unseen
<1>1. Fits(c, Feed!Idle)
  BY FeedIdleFacts DEF Fits
<1> QED
  BY <1>0, <1>1, FeedIdleFacts, FeedCountedFacts, StepKeeps DEF FeedInv, Feed!TypeOK

\* Nothing but the cached answer changes.
LEMMA BigVKeeps ==
  ASSUME FeedInv, UNCHANGED <<posts, clock, fans, feed, mark, feedTx, excused, raced, changes>>,
         bigv' \in {"unknown", "yes", "no"}
  PROVE  FeedInv'
<1>1. Feed!TypeOK'
  BY DEF FeedInv, Feed!TypeOK
<1>2. Feed!Live' = Feed!Live /\ Shown' = Shown /\ \A p : Feed!Stamp(p)' = Feed!Stamp(p)
  BY DEF Feed!Live, Shown, Feed!Stamp
<1>3. \A m : Reached(m) <=> Reached(m)'
  BY <1>2 DEF Reached
<1>4. StampsOK' /\ Reached(mark)' /\ Apart'
  BY <1>2, <1>3 DEF FeedInv, StampsOK, Apart
<1>5. TimelineSound'
  BY <1>2 DEF FeedInv, TimelineSound, Feed!TimelineSound, Feed!FansServed, Feed!RowsJustified
<1>6. ASSUME NEW d \in FeedConns
      PROVE  Shape(d)' /\ DropCovers(d)' /\ FollowCovers(d)' /\ FanCovers(d)'
  BY <1>2, <1>3 DEF FeedInv, Shape, DropCovers, FollowCovers, FanCovers
<1> QED
  BY <1>1, <1>4, <1>5, <1>6 DEF FeedInv

-----------------------------------------------------------------------------
(* The commit                                                              *)

\* The commit: rows, the follow relation and the watermark change at once.
LEMMA FeedCommitKeeps ==
  ASSUME FeedInv, NEW c \in FeedConns, Feed!Commit(c)
  PROVE  FeedInv'
<1>0. /\ Feed!TypeOK /\ feedTx \in [FeedConns -> Feed!Txs] /\ feedTx[c] \in Feed!Txs /\ Shape(c)
      /\ DropCovers(c) /\ FollowCovers(c) /\ FanCovers(c)
      /\ posts \in [Posts -> [st: {"none", "hidden", "live", "gone"}, at: Nat]]
      /\ feed \subseteq Feed!Pairs /\ raced \subseteq feed /\ mark \in 0..clock /\ clock \in Nat
      /\ UNCHANGED <<clock, bigv, changes>>
      /\ feed' = (feed \ feedTx[c].drop) \cup feedTx[c].add
      /\ feedTx[c].op # "idle" /\ feedTx[c].todo = <<>>
  BY DEF FeedInv, Feed!TypeOK, Feed!Commit, Feed!unseen, Shape
<1>o. PICK o \in Feed!Txs : o = feedTx[c]
  BY <1>0
<1>t. /\ feedTx' \in [FeedConns -> Feed!Txs] /\ feedTx'[c] = Feed!Idle
      /\ \A d \in FeedConns \ {c} : feedTx'[d] = feedTx[d]
  BY <1>0, FeedIdleFacts DEF Feed!Commit, Feed!Step
<1>1. /\ posts' \in [Posts -> [st: {"none", "hidden", "live", "gone"}, at: Nat]]
      /\ \A p \in Posts : Feed!Stamp(p)' = Feed!Stamp(p)
      /\ \A p \in Posts : posts'[p].st = IF o.op = "delete" /\ p = o.who THEN "gone"
                                         ELSE posts[p].st
  <2>1. CASE o.op = "delete"
    <3>1. posts' = [posts EXCEPT ![o.who].st = "gone"] /\ o.who \in Posts
      BY <2>1, <1>0, <1>o DEF Feed!Commit, Shape, Shown
    <3> QED
      BY <2>1, <1>0, <3>1 DEF Feed!Stamp
  <2>2. CASE o.op # "delete"
    <3>1. posts' = posts
      BY <2>2, <1>o DEF Feed!Commit
    <3> QED
      BY <2>2, <1>0, <3>1 DEF Feed!Stamp
  <2> QED
    BY <2>1, <2>2
<1>d. o.op = "delete" => o.who \in Posts /\ posts[o.who].st # "none"
  BY <1>0, <1>o DEF Shape, Shown
<1>2. /\ \A p \in Posts : posts'[p].st # "none" => posts[p].st # "none"
      /\ Feed!Live' \subseteq Feed!Live /\ Shown \subseteq Shown' /\ Shown' \subseteq Posts
      /\ Feed!Live \subseteq Posts /\ Shown \subseteq Posts
      /\ o.op = "delete" => o.who \notin Feed!Live'
  BY <1>1, <1>d DEF Feed!Live, Shown
<1>3. fans' \subseteq Readers /\ mark' \in 0..clock /\ excused \subseteq excused'
      /\ excused' \subseteq Feed!Pairs
      /\ Reached(mark')
  <2>1. fans' \subseteq Readers
    BY <1>0, <1>o DEF Feed!Commit, Feed!TypeOK, Shape
  <2>2. o.op = "fan" => o.upto \in 0..clock /\ Reached(o.upto)
    <3>1. o.op = "fan" => Reached(o.upto) /\ o.upto \in Nat
      BY <1>0, <1>o DEF Shape, Feed!Txs
    <3>2. \A q \in Shown : Feed!Stamp(q) \in 1..clock
      BY DEF FeedInv, StampsOK, Shown
    <3> QED
      BY <1>0, <3>1, <3>2 DEF Reached
  <2>3. mark' \in 0..clock /\ Reached(mark')
    BY <1>0, <1>o, <2>2 DEF Feed!Commit, FeedInv
  <2> QED
    BY <1>0, <1>o, <2>1, <2>3 DEF Feed!Commit, Feed!TypeOK, Feed!Txs
<1>l. \A x \in o.left : Feed!Passed(x[2]) => x \in excused'
  BY <1>o DEF Feed!Commit
<1>4. feed' \subseteq Feed!Pairs /\ raced' \subseteq feed'
  <2>1. o.add \subseteq Feed!Pairs
    BY DEF Feed!Txs
  <2> QED
    BY <1>0, <1>o, <2>1 DEF Feed!Commit
<1>5. Feed!TypeOK'
  BY <1>0, <1>1, <1>3, <1>4, <1>t DEF Feed!TypeOK
<1>6. StampsOK'
  BY <1>0, <1>1, <1>2 DEF FeedInv, StampsOK
<1>7. \A m : Reached(m) => Reached(m)'
  BY <1>1, <1>2 DEF Reached
<1>8. Reached(mark)'
  BY <1>3, <1>7
<1>9. Apart'
  BY <1>t, FeedIdleFacts DEF FeedInv, Apart
<1>10. \A x \in feed' \ raced' :
         \/ x \in feed \ raced /\ x \notin o.drop
         \/ x \in o.add /\ x \notin Feed!Unfounded(c)
  BY <1>0, <1>o DEF Feed!Commit
<1>11. Feed!RowsJustified'
  <2> SUFFICES ASSUME NEW x \in feed' \ raced'
               PROVE  x[1] \in fans' /\ posts'[x[2]].st # "gone"
    BY DEF Feed!RowsJustified
  <2>0. x \in Feed!Pairs /\ x[1] \in Readers /\ x[2] \in Posts
    BY <1>4 DEF Feed!Pairs
  <2>1. CASE x \in feed \ raced /\ x \notin o.drop
    <3>1. x[1] \in fans /\ posts[x[2]].st # "gone"
      BY <2>1 DEF FeedInv, TimelineSound, Feed!TimelineSound, Feed!RowsJustified
    <3>2. o.op = "unfollow" => x[1] # o.who
      BY <2>1, <1>0, <1>o DEF DropCovers
    <3>3. o.op = "delete" => x[2] # o.who
      BY <2>1, <1>0, <1>o DEF DropCovers
    <3>4. x[1] \in fans'
      BY <1>o, <3>1, <3>2 DEF Feed!Commit
    <3> QED
      BY <1>1, <2>0, <3>1, <3>3, <3>4
  <2>2. CASE x \in o.add /\ x \notin Feed!Unfounded(c)
    <3>1. posts[x[2]].st # "gone" /\ (x[1] \in fans \/ o.who = x[1])
      BY <2>2, <1>o DEF Feed!Unfounded
    <3>2. o.op \in {"follow", "fan"}
      BY <2>2, <1>0, <1>o DEF Shape, Feed!Txs
    <3>3. o.op = "fan" => o.who # x[1]
      BY <1>0, <1>o, <2>0, FeedAssumption DEF Shape
    <3>4. x[1] \in fans'
      BY <1>o, <3>1, <3>2, <3>3 DEF Feed!Commit
    <3> QED
      BY <1>1, <2>0, <3>1, <3>2, <3>4
  <2> QED
    BY <1>10, <2>1, <2>2
\* Rows of the pairs that still matter are not taken out.
<1>12. ASSUME NEW r \in Readers, NEW p \in Feed!Live', <<r, p>> \in feed,
              ~(o.op = "unfollow" /\ o.who = r)
       PROVE  <<r, p>> \in feed'
  <2>1. o.op = "delete" => o.who # p
    BY <1>2
  <2>2. <<r, p>> \notin o.drop
    BY <1>0, <1>12, <1>o, <2>1 DEF Shape
  <2> QED
    BY <1>0, <1>o, <1>12, <2>2
<1>13. ASSUME NEW r \in fans'
       PROVE  /\ ~(o.op = "unfollow" /\ o.who = r) /\ r \in Readers
              /\ r \in fans \/ (o.op = "follow" /\ o.who = r)
  BY <1>o, <1>3 DEF Feed!Commit
\* A reader who has just come has every visible post that no later batch has.
<1>14. ASSUME NEW p \in Feed!Live', Feed!Passed(p), o.op = "follow"
       PROVE  <<o.who, p>> \in feed' \cup excused'
  <2>1. <<o.who, p>> \in feed \cup o.add \cup o.left \cup excused
    BY <1>0, <1>2, <1>o, <1>14 DEF FollowCovers
  <2>2. o.drop = {}
    BY <1>0, <1>o, <1>14 DEF Shape
  <2>3. <<o.who, p>>[2] = p
    OBVIOUS
  <2>4. <<o.who, p>> \in o.left => <<o.who, p>> \in excused'
    BY <1>l, <1>14, <2>3
  <2> QED
    BY <1>0, <1>3, <1>o, <2>1, <2>2, <2>4
<1>15. Feed!FansServed'
  <2> SUFFICES ASSUME NEW r \in fans', NEW p \in Feed!Live', Feed!Stamp(p)' <= mark',
                      <<r, p>> \notin excused'
               PROVE  <<r, p>> \in feed'
    BY DEF Feed!FansServed
  <2>0. Feed!Stamp(p)' = Feed!Stamp(p) /\ p \in Feed!Live /\ p \in Posts
    BY <1>1, <1>2
  <2>1. CASE o.op = "follow" /\ o.who = r
    <3>1. mark' = mark
      BY <2>1, <1>o DEF Feed!Commit
    <3>2. Feed!Passed(p)
      BY <2>0, <3>1 DEF Feed!Passed
    <3> QED
      BY <2>1, <3>2, <1>14
  <2>2. CASE o.op = "fan"
    <3>1. r \in fans /\ mark' = o.upto
      BY <2>2, <1>o, <1>13 DEF Feed!Commit
    <3>2. <<r, p>> \in feed \cup o.add \cup o.left \cup excused
      <4>1. Len(o.todo) = 0
        BY <1>0, <1>o
      <4>2. \A i \in 1..Len(o.todo) : FALSE
        BY <4>1
      <4> QED
        BY <2>2, <2>0, <1>0, <1>o, <3>1, <4>2 DEF FanCovers
    <3>3. o.drop = {}
      BY <2>2, <1>0, <1>o DEF Shape
    <3>4. Feed!Passed(p)
      BY <2>0, <2>2, <3>1, <1>o DEF Feed!Passed
    <3>5. <<r, p>> \in o.left => <<r, p>> \in excused'
      <4>1. <<r, p>>[2] = p
        OBVIOUS
      <4> QED
        BY <1>l, <3>4, <4>1
    <3> QED
      BY <1>0, <1>3, <1>o, <3>2, <3>3, <3>5
  <2>3. CASE o.op # "fan" /\ ~(o.op = "follow" /\ o.who = r)
    <3>1. mark' = mark /\ r \in fans
      BY <2>3, <1>o, <1>13 DEF Feed!Commit
    <3>2. <<r, p>> \in feed
      BY <2>0, <3>1, <1>3 DEF FeedInv, TimelineSound, Feed!TimelineSound, Feed!FansServed
    <3> QED
      BY <3>2, <1>12, <1>13
  <2> QED
    BY <2>1, <2>2, <2>3
<1>16. ASSUME NEW d \in FeedConns
       PROVE  Shape(d)' /\ DropCovers(d)' /\ FollowCovers(d)' /\ FanCovers(d)'
  <2>1. CASE d = c
    BY <2>1, <1>t, FeedIdleFacts DEF Shape, DropCovers, FollowCovers, FanCovers
  <2>2. CASE d # c
    <3>0. /\ feedTx'[d] = feedTx[d] /\ Shape(d) /\ DropCovers(d) /\ FollowCovers(d) /\ FanCovers(d)
          /\ feedTx[d] \in Feed!Txs
      BY <2>2, <1>0, <1>t DEF FeedInv
    <3>1. Shape(d)'
      BY <3>0, <1>2, <1>7 DEF Shape
    <3>2. DropCovers(d)'
      <4>1. \A x \in feed' \ raced' :
              \/ x \in feed \ raced
              \/ ~(feedTx[d].op \in {"unfollow", "delete"} /\ feedTx[d].who \in {x[1], x[2]})
        BY <2>2, <1>10, <1>o DEF Feed!Unfounded, Feed!Others
      <4> QED
        BY <3>0, <4>1 DEF DropCovers
    <3>3. FollowCovers(d)'
      <4> SUFFICES ASSUME feedTx[d].op = "follow", NEW p \in Feed!Live'
                   PROVE  <<feedTx[d].who, p>> \in feed' \cup feedTx[d].add \cup feedTx[d].left \cup excused'
        BY <3>0 DEF FollowCovers
      <4>1. <<feedTx[d].who, p>> \in feed \cup feedTx[d].add \cup feedTx[d].left \cup excused
        BY <1>2, <3>0 DEF FollowCovers
      <4>2. feedTx[d].who \in Readers /\ feedTx[d].who # Nobody
        BY <3>0, FeedAssumption DEF Shape
      <4>3. o.who # feedTx[d].who
        BY <2>2, <1>o, <4>2 DEF FeedInv, Apart
      <4> QED
        BY <1>3, <1>12, <4>1, <4>2, <4>3
    <3>4. FanCovers(d)'
      <4> SUFFICES ASSUME feedTx[d].op = "fan", NEW r \in fans', NEW p \in Feed!Live',
                          Feed!Stamp(p) <= feedTx[d].upto
                   PROVE  \/ <<r, p>> \in feed' \cup feedTx[d].add \cup feedTx[d].left \cup excused'
                          \/ \E i \in 1..Len(feedTx[d].todo) : feedTx[d].todo[i] = p
        BY <3>0, <1>1, <1>2 DEF FanCovers
      <4>1. CASE o.op = "follow" /\ o.who = r
        <5>1. Feed!Passed(p)
          BY DEF Feed!Passed
        <5> QED
          BY <4>1, <5>1, <1>14
      <4>2. CASE ~(o.op = "follow" /\ o.who = r)
        <5>1. r \in fans /\ p \in Feed!Live
          BY <4>2, <1>2, <1>13
        <5>2. \/ <<r, p>> \in feed \cup feedTx[d].add \cup feedTx[d].left \cup excused
              \/ \E i \in 1..Len(feedTx[d].todo) : feedTx[d].todo[i] = p
          BY <3>0, <5>1 DEF FanCovers
        <5> QED
          BY <1>3, <1>12, <1>13, <5>2
      <4> QED
        BY <4>1, <4>2
    <3> QED
      BY <3>1, <3>2, <3>3, <3>4
  <2> QED
    BY <2>1, <2>2
<1> QED
  BY <1>5, <1>6, <1>8, <1>9, <1>11, <1>15, <1>16 DEF FeedInv, TimelineSound, Feed!TimelineSound

-----------------------------------------------------------------------------
(* The theorems                                                            *)

\* Every step preserves the inductive invariant.
LEMMA FeedStepHolds == FeedInv /\ [Feed!Next]_(Feed!vars) => FeedInv'
<1> SUFFICES ASSUME FeedInv, [Feed!Next]_(Feed!vars) PROVE FeedInv'
  OBVIOUS
<1>1. ASSUME NEW p \in Posts, Feed!Create(p) \/ Feed!Appear(p) PROVE FeedInv'
  BY <1>1, CreateKeeps, AppearKeeps
<1>2. ASSUME NEW c \in FeedConns, NEW r \in Readers, Feed!Follow(c, r) \/ Feed!Unfollow(c, r) PROVE FeedInv'
  BY <1>2, FollowKeeps, UnfollowKeeps
<1>3. ASSUME NEW c \in FeedConns, NEW p \in Posts, Feed!Delete(c, p) PROVE FeedInv'
  BY <1>3, DeleteKeeps
<1>4. ASSUME NEW c \in FeedConns, Feed!Scan(c) \/ Feed!FanOut(c) \/ Feed!Commit(c) \/ Feed!Fail(c) PROVE FeedInv'
  BY <1>4, FeedScanKeeps, FanOutKeeps, FeedCommitKeeps, FailKeeps
<1>5. CASE Feed!ReadBigV
  BY <1>5, BigVType, BigVKeeps DEF Feed!ReadBigV
<1>6. CASE Feed!ForgetBigV
  BY <1>6, BigVKeeps DEF Feed!ForgetBigV
<1>7. CASE UNCHANGED Feed!vars
  BY <1>7, BigVKeeps DEF Feed!vars, FeedInv, Feed!TypeOK
<1> QED
  BY <1>1, <1>2, <1>3, <1>4, <1>5, <1>6, <1>7 DEF Feed!Next

\* The inductive invariant holds in every state of every behaviour.
THEOREM FeedInvariance == Feed!Spec => []FeedInv
BY FeedStartHolds, FeedStepHolds, PTL DEF Feed!Spec

\* The watermark never passes the last created_at, and what transactions
\* carry are rows of readers and posts.
THEOREM FeedTyped == Feed!Spec => []Feed!TypeOK
<1>1. FeedInv => Feed!TypeOK
  BY DEF FeedInv
<1> QED
  BY <1>1, FeedInvariance, PTL

\* fanout_batch, follow_user, unfollow_user and delete_item leave no follower
\* without a post behind the watermark and no unjustified row, for any number
\* of overlapping jobs and requests, but for the excused and raced pairs.
THEOREM TimelineCorrect == Feed!Spec => []TimelineSound
<1>1. FeedInv => TimelineSound
  BY DEF FeedInv
<1> QED
  BY <1>1, FeedInvariance, PTL

=============================================================================

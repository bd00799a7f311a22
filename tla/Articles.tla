------------------------------ MODULE Articles ------------------------------
(***************************************************************************)
(* Official articles: one slug, its categories, likes and comment tree.    *)
(* An edit reads the row, computes, and writes under the row's lock; the   *)
(* unit of work writes only the columns whose value differs from the one   *)
(* that was loaded.                                                        *)
(***************************************************************************)
EXTENDS Requests, TLC

CONSTANTS Users, Cats, Tags, MaxComments, NoRow

\* A row of articles; `dated`: published is not NULL.
Article(id, status, dated, cat, tags) ==
    [id |-> id, status |-> status, dated |-> dated, version |-> 1, cat |-> cat,
     tags |-> tags, likes |-> 0, comments |-> 0]

\* A row of article_comments (0: no parent).
ArticleComment(u, p) == [user |-> u, parent |-> p, live |-> TRUE]

Statuses == {"draft", "pending", "published", "rejected"}

\* A field that a patch leaves out.
Keep == "keep"

Init ==
    /\ \E s \in {"draft", "pending", "published"}, cat \in Cats :
         db = [row |-> Article(MaxRequests + 1, s, s = "published", cat, {}), cats |-> Cats,
               liked |-> {}, comments |-> <<>>, queued |-> {}]
    /\ hist = [raced |-> FALSE]
    /\ Resting

Exists == db.row # NoRow
Live == {k \in DOMAIN db.comments : db.comments[k].live}

\* The row a request loaded is still there: the same id, not just the slug.
Same(r) == Exists /\ db.row.id = r.seen.id

Load(c, r) == Begin(c, r @@ [seen |-> db.row]) /\ UNCHANGED <<db, hist>>

----------------------------------------------------------------------------
(* Articles *)

\* slug_taken and _require_category; articles.slug is unique.
CreateArticle(c, s, cat, tags) ==
    /\ ~Exists
    /\ cat \in db.cats
    /\ AtOnce(c)
    /\ db' = [db EXCEPT !.row = Article(left, s, s = "published", cat, tags)]
    /\ UNCHANGED hist

\* sync_for_article: the list replaces the tags; an empty one leaves them.
SyncTags(old, new) == IF new = {} THEN old ELSE new

\* create_article, for blogs and seeds: a second call under the slug updates.
PublishArticle(c, cat, tags) ==
    /\ cat \in db.cats
    /\ AtOnce(c)
    /\ db' = [db EXCEPT !.row = IF Exists
                                THEN [@ EXCEPT !.cat = cat, !.tags = SyncTags(@, tags)]
                                ELSE Article(left, "draft", TRUE, cat, tags)]
    /\ UNCHANGED hist

\* update_article_ex dates an article that had no date when it was loaded.
Dated(r) == r.status = "published" /\ ~r.seen.dated

\* update_article_ex.  `expect` is the version of the page that was edited, 0
\* when the client sends none; what the patch leaves out is kept, and a new
\* category must exist.
LoadUpdate(c, s, cat, expect, tags) ==
    /\ Exists
    /\ cat \in db.cats \cup {Keep}
    /\ expect <= db.row.version
    /\ Load(c, [op |-> "update", status |-> s, cat |-> cat, expect |-> expect, tags |-> tags])

LoadSoftDelete(c) == Exists /\ Load(c, [op |-> "soft"])

LoadHardDelete(c) ==
    /\ Exists
    /\ db.row.status \notin {"published", "pending"}
    /\ Load(c, [op |-> "hard"])

LoadReview(c, yes) ==
    /\ Exists
    /\ db.row.status = "pending"
    /\ Load(c, [op |-> "review", yes |-> yes])

\* The status or the date is no longer the one the request computed from.
Stale(r) == db.row.status # r.seen.status \/ db.row.dated # r.seen.dated

Write(c, op, row) ==
    LET r == tx[c] IN
    /\ r.op = op
    /\ IF Same(r)
       THEN /\ db' = [db EXCEPT !.row = row]
            /\ hist' = [raced |-> hist.raced \/ (row # db.row /\ Stale(r))]
       ELSE UNCHANGED <<db, hist>>
    /\ Finish(c)

Patched(new, old) == IF new = Keep THEN old ELSE new

\* update_cas: nothing is written when a version was sent and has passed, or
\* (foreign key) when the category is gone.
Updated(r, a) ==
    IF r.expect \notin {0, a.version} \/ r.cat \notin db.cats \cup {Keep} THEN a
    ELSE [a EXCEPT !.status = Patched(r.status, @), !.dated = @ \/ Dated(r), !.version = @ + 1,
                   !.cat = Patched(r.cat, @), !.tags = SyncTags(@, r.tags)]

\* status becomes rejected and published NULL, each only if it was not.
SoftDeleted(r, a) ==
    [a EXCEPT !.status = IF r.seen.status = "rejected" THEN @ ELSE "rejected",
              !.dated = @ /\ ~r.seen.dated]

Reviewed(r, a) ==
    [a EXCEPT !.status = IF r.yes THEN "published" ELSE "rejected", !.dated = @ \/ r.yes]

WriteUpdate(c) == Write(c, "update", Updated(tx[c], db.row))
WriteSoftDelete(c) == Write(c, "soft", SoftDeleted(tx[c], db.row))
WriteReview(c) == Write(c, "review", Reviewed(tx[c], db.row))

\* The foreign keys take likes, comments and tags with the row.
WriteHardDelete(c) ==
    LET r == tx[c] IN
    /\ r.op = "hard"
    /\ db' = IF Same(r) THEN [db EXCEPT !.row = NoRow, !.liked = {}, !.comments = <<>>] ELSE db
    /\ Finish(c)
    /\ UNCHANGED hist

----------------------------------------------------------------------------
(* Likes *)

\* toggle_article_like looks for the like first.
LoadLike(c, u) ==
    /\ Exists
    /\ Load(c, [op |-> "like", user |-> u, had |-> u \in db.liked])

\* Faulty variant of LikeCounts: the counter follows what was read.
LikeCountsRead(r) == TRUE

\* claim_like inserted, release_like deleted a row: only then it counts.
LikeCounts(r) == r.had = (r.user \in db.liked)

WriteLike(c) ==
    LET r == tx[c] IN
    /\ r.op = "like"
    /\ db' = IF ~Same(r) THEN db
             ELSE [db EXCEPT
               !.liked = IF r.had THEN @ \ {r.user} ELSE @ \cup {r.user},
               !.row.likes = IF ~LikeCounts(r) THEN @ ELSE IF r.had THEN @ - 1 ELSE @ + 1,
               !.queued = IF LikeCounts(r) /\ ~r.had THEN @ \cup {<<r.user, r.seen.id>>} ELSE @]
    /\ Finish(c)
    /\ UNCHANGED hist

----------------------------------------------------------------------------
(* Comments *)

\* The parent is looked up by id alone: a deleted comment can be answered.
LoadComment(c, u, p) ==
    /\ Exists
    /\ Len(db.comments) < MaxComments
    /\ p \in DOMAIN db.comments \cup {0}
    /\ Load(c, [op |-> "comment", user |-> u, parent |-> p])

WriteComment(c) ==
    LET r == tx[c] IN
    /\ r.op = "comment"
    /\ Len(db.comments) < MaxComments
    /\ db' = IF ~Same(r) THEN db
             ELSE [db EXCEPT !.comments = Append(@, ArticleComment(r.user, r.parent)),
                             !.row.comments = @ + 1]
    /\ Finish(c)
    /\ UNCHANGED hist

\* The comment and all below it.
Subtree(k) ==
    LET Below[x \in DOMAIN db.comments] ==
          x = k \/ (db.comments[x].parent # 0 /\ Below[db.comments[x].parent])
    IN  {x \in DOMAIN db.comments : Below[x]}

\* check_owner admits the author, or a holder of the permission, while the
\* comment lives.
LoadDeleteComment(c, k) ==
    /\ k \in Live
    /\ Load(c, [op |-> "uncomment", comment |-> k, under |-> Subtree(k)])

\* soft_delete_where hits the rows that are not deleted yet.
Removed(r) == r.under \cap Live

WriteDeleteComment(c) ==
    LET r == tx[c] IN
    /\ r.op = "uncomment"
    /\ db' = IF ~Same(r) THEN db
             ELSE [db EXCEPT
               !.comments = [x \in DOMAIN @ |-> [@[x] EXCEPT !.live = @ /\ x \notin r.under]],
               !.row.comments = @ - Cardinality(Removed(r))]
    /\ Finish(c)
    /\ UNCHANGED hist

----------------------------------------------------------------------------
(* Categories *)

\* slug_taken, and the unique slug; update_category_ex keeps the id.
CreateCategory(c, cat) ==
    /\ cat \notin db.cats
    /\ AtOnce(c)
    /\ db' = [db EXCEPT !.cats = @ \cup {cat}]
    /\ UNCHANGED hist

\* count_in_category, read without a lock.
LoadDeleteCategory(c, cat) ==
    /\ cat \in db.cats
    /\ Exists => db.row.cat # cat
    /\ Begin(c, [op |-> "uncat", cat |-> cat])
    /\ UNCHANGED <<db, hist>>

\* articles.category_id references the category: the delete fails.
CategoryFree(cat) == Exists => db.row.cat # cat

WriteDeleteCategory(c) ==
    /\ tx[c].op = "uncat"
    /\ db' = IF CategoryFree(tx[c].cat) THEN [db EXCEPT !.cats = @ \ {tx[c].cat}] ELSE db
    /\ Finish(c)
    /\ UNCHANGED hist

----------------------------------------------------------------------------

Next ==
    \/ \E c \in Conns :
         \/ \E s \in Statuses \ {"rejected"}, cat \in Cats : CreateArticle(c, s, cat, {})
         \/ \E cat \in Cats, tags \in {{}, Tags} : PublishArticle(c, cat, tags)
         \/ \E s \in Statuses \cup {Keep}, cat \in Cats \cup {Keep}, v \in 0..(MaxRequests + 1) : LoadUpdate(c, s, cat, v, Tags)
         \/ \E yes \in BOOLEAN : LoadReview(c, yes)
         \/ LoadSoftDelete(c) \/ LoadHardDelete(c)
         \/ WriteUpdate(c) \/ WriteSoftDelete(c) \/ WriteReview(c) \/ WriteHardDelete(c)
         \/ \E u \in Users : LoadLike(c, u) \/ \E p \in 0..MaxComments : LoadComment(c, u, p)
         \/ \E k \in 1..MaxComments : LoadDeleteComment(c, k)
         \/ WriteLike(c) \/ WriteComment(c) \/ WriteDeleteComment(c)
         \/ \E cat \in Cats : CreateCategory(c, cat) \/ LoadDeleteCategory(c, cat)
         \/ WriteDeleteCategory(c)
         \/ Fail(c)

Spec == Init /\ [][Next]_vars

----------------------------------------------------------------------------

\* The counters on the row are the rows that are live, and the category of
\* an article exists.
CountsExact ==
    Exists => /\ db.row.likes = Cardinality(db.liked)
              /\ db.row.comments = Cardinality(Live)
              /\ db.row.cat \in db.cats

\* A published article has a date, unless two edits of its status overlapped.
PublishedDated == Exists /\ db.row.status = "published" => db.row.dated \/ hist.raced

\* Whoever likes the article has been reported to the points engine.
LikesReported == \A u \in db.liked : <<u, db.row.id>> \in db.queued

ArticlesSound == CountsExact /\ PublishedDated /\ LikesReported

=============================================================================

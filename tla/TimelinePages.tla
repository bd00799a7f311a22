---------------------------- MODULE TimelinePages ----------------------------
(***************************************************************************)
(* Reading a timeline page by page.  A page merges the reader's rows of    *)
(* feed_items with what the sources hold now of authors above the cap and  *)
(* of followed boards, in batches, leaves out what the rules hide and what *)
(* it already has, and ends with a cursor for the next one.  Items are     *)
(* numbered in the order of (created_at, id), an old draft may appear late.*)
(* Between any two batches the feed goes on changing.  One reader, who     *)
(* follows "fan", "star" and one board; how rows come to be is the matter  *)
(* of ContentFeed, how rules do that of Moderation.                        *)
(***************************************************************************)
EXTENDS Requests, SequencesExt

CONSTANTS
    Items,          \* 1..n
    Patterns,       \* possible items: their author, source and whether on the board
    Limit,          \* items of a page
    MaxScan         \* candidates looked at for a page: max(200, limit * 10)

Top == Cardinality(Items) + 1
Follows == {"fan", "star"}
Stars(bigv) == IF bigv THEN {"star"} ELSE {}

\* `bigv`, `hidden`: the cap and the rules as the reader's process knows them.
\* `cursor`: what the reader sends next, Top for none.
Init ==
    /\ \E kind \in Patterns, mode \in {"follow", "hot"}, live \in {{}, Items}, full, bigv \in BOOLEAN :
         db = [kind |-> kind, mode |-> mode, live |-> live, bigv |-> bigv, hidden |-> {}, cursor |-> Top,
               rows |-> IF full THEN {i \in live : kind[i].author \in Follows \/ kind[i].board} ELSE {},
               over |-> FALSE]
    /\ hist = [seen |-> {}, due |-> {}, again |-> FALSE, live |-> FALSE, cut |-> FALSE]
    /\ Resting

----------------------------------------------------------------------------
(* The queries: the n highest below the key *)

Highest(S, n) == {i \in S : Cardinality({j \in S : j > i}) < n}

Window(S, key, n) == Highest({i \in S : i < key}, n)

LoadMaterializedPage(key, n) == Window(db.rows, key, n)

Source(s) == {i \in db.live : db.kind[i].source = s}

\* _discussion_conditions: by author or on a followed board.
Discussions(authors, board, key, n) ==
    Window({i \in Source("discussion") : db.kind[i].author \in authors \/ (board /\ db.kind[i].board)}, key, n)

\* Columns, questions, projects and blog posts.
ByAuthor(s, authors, key, n) == Window({i \in Source(s) : db.kind[i].author \in authors}, key, n)

\* Articles have no author: only the hot timeline has them.
Articles(key, n) == Window(Source("article"), key, n)

\* FOLLOW_SOURCES without discussions; two stand for four.
AuthorSources == {"column", "blog"}

Everyone == {db.kind[i].author : i \in Items}

----------------------------------------------------------------------------
(* What a batch reads; an item is twice in it when it has a row and is read *)
(* from its source too                                                      *)

RealtimeSupplement(authors, key, n) ==
    Discussions(authors, TRUE, key, n)
        \cup (IF authors = {} THEN {} ELSE UNION {ByAuthor(s, authors, key, n) : s \in AuthorSources})

RealtimeItems(key, n) ==
    IF db.mode = "hot"
    THEN Discussions(Everyone, FALSE, key, n) \cup Articles(key, n)
           \cup UNION {ByAuthor(s, Everyone, key, n) : s \in AuthorSources}
    ELSE Discussions(Follows, TRUE, key, n) \cup UNION {ByAuthor(s, Follows, key, n) : s \in AuthorSources}

Fetch(r, n) ==
    IF r.rows
    THEN (LoadMaterializedPage(r.key, n) \X {"row"})
           \cup (RealtimeSupplement(Stars(r.bigv), r.key, n) \X {"live"})
    ELSE RealtimeItems(r.key, n) \X {"live"}

Sorted(cands) == SetToSortSeq(cands, LAMBDA a, b : a[1] > b[1] \/ (a[1] = b[1] /\ a[2] = "row" /\ b[2] = "live"))

----------------------------------------------------------------------------
(* Requests *)

Smaller(a, b) == IF a < b THEN a ELSE b

NewScan(rows, key) ==
    [op |-> "page", rows |-> rows, key |-> key, bigv |-> db.bigv, hidden |-> db.hidden, batch |-> Limit + 1,
     scanned |-> 0, visible |-> {}, any |-> FALSE, end |-> FALSE]

\* What the reader must get: it may be seen, and some query of the page
\* would return it; `live`: its first page was read from the sources.
Owed(d, i, live) ==
    /\ i \in d.live \ d.hidden
    /\ \/ d.mode = "hot"
       \/ i \in d.rows
       \/ d.kind[i].source = "discussion" /\ d.kind[i].board
       \/ d.kind[i].source # "article" /\ d.kind[i].author \in IF live THEN Follows ELSE Stars(d.bigv)

\* get_timeline: rows first for the follow timeline.  The rules and the
\* authors above the cap are read once per request.
GetTimeline(c) ==
    /\ ~db.over /\ tx[c] = Idle
    /\ Continue(c, NewScan(db.mode = "follow", db.cursor))
    /\ hist' = IF db.cursor = Top THEN [hist EXCEPT !.due = {i \in Items : Owed(db, i, FALSE)}]
               ELSE [hist EXCEPT !.cut = @ \/ hist.live]
    /\ UNCHANGED db

\* Faulty variant of LastScanned: the last candidate read is the next key.
LastRead(cands, size) == Last(cands)[1]

\* The next key is the last candidate looked at: a source that was read up to
\* its limit may have more above the last candidate of another one.
LastScanned(cands, size) == cands[Smaller(size, Len(cands))][1]

\* One batch of _collect_page.
CollectBatch(c) ==
    LET r == tx[c]
        size == Smaller(r.batch, MaxScan - r.scanned)
        cands == Sorted(Fetch(r, size))
        looked == {cands[k][1] : k \in 1..Smaller(size, Len(cands))}
        visible == Highest(r.visible \cup (looked \ r.hidden), Limit + 1)
        scanned == r.scanned + Smaller(size, Len(cands))
    IN  /\ r.op = "page" /\ ~r.end
        /\ Continue(c, IF cands = <<>> THEN [r EXCEPT !.end = TRUE]
                       ELSE [r EXCEPT !.visible = visible, !.scanned = scanned, !.any = TRUE,
                                      !.key = LastScanned(cands, size), !.batch = Smaller(2 * @, 100),
                                      !.end = \/ Len(cands) < size \/ Cardinality(visible) > Limit
                                              \/ scanned >= MaxScan])
        /\ UNCHANGED <<db, hist>>

\* No candidate on the first page: the sources are read instead of the rows.
NothingMaterialized(r) == r.rows /\ ~r.any /\ db.cursor = Top

FallBack(c) ==
    /\ tx[c].op = "page" /\ tx[c].end /\ NothingMaterialized(tx[c])
    /\ Continue(c, NewScan(FALSE, Top))
    /\ hist' = [hist EXCEPT !.live = TRUE, !.due = {i \in Items : Owed(db, i, TRUE)}]
    /\ UNCHANGED db

\* The cursor of the answer, Top for none: the last item of a full page with
\* more behind it, or where the scan stopped.
NextCursor(r, page) ==
    IF Cardinality(r.visible) > Limit THEN CHOOSE i \in page : \A j \in page : i <= j
    ELSE IF r.scanned >= MaxScan THEN r.key ELSE Top

FinishPage(c) ==
    LET r == tx[c]
        page == Highest(r.visible, Limit)
        next == NextCursor(r, page)
    IN  /\ r.op = "page" /\ r.end /\ ~NothingMaterialized(r)
        /\ db' = [db EXCEPT !.cursor = next, !.over = next = Top]
        /\ hist' = [hist EXCEPT !.seen = @ \cup page,
                                !.again = @ \/ \E i \in page, j \in hist.seen : i >= j]
        /\ Finish(c)

----------------------------------------------------------------------------
(* The feed goes on: another request or job, until the reader is through *)

Change(d) ==
    /\ ~db.over /\ left > 0 /\ left' = left - 1
    /\ db' = d
    /\ hist' = [hist EXCEPT !.due = {i \in @ : Owed(d, i, hist.live)}]
    /\ UNCHANGED tx

Appear(i) == i \notin db.live /\ Change([db EXCEPT !.live = @ \cup {i}])

\* A deletion takes the rows along.
DeleteItem(i) == i \in db.live /\ Change([db EXCEPT !.live = @ \ {i}, !.rows = @ \ {i}])

\* The job, or the backfill of a new follow.
Materialize(i) ==
    /\ i \in db.live \ db.rows
    /\ db.kind[i].author \in Follows \/ db.kind[i].board
    /\ Change([db EXCEPT !.rows = @ \cup {i}])

\* A rule is added or withdrawn; star passes the cap, or falls below it.
Moderate(i) == Change([db EXCEPT !.hidden = IF i \in @ THEN @ \ {i} ELSE @ \cup {i}])
PassCap == Change([db EXCEPT !.bigv = ~@])

Next ==
    \/ \E c \in Conns : GetTimeline(c) \/ CollectBatch(c) \/ FallBack(c) \/ FinishPage(c)
    \/ \E i \in Items : Appear(i) \/ DeleteItem(i) \/ Materialize(i) \/ Moderate(i)
    \/ PassCap

Spec == Init /\ [][Next]_vars

----------------------------------------------------------------------------

\* A reader who follows the cursors to the end has seen everything that was
\* there for it all the time, whatever came, went, was hidden or materialised
\* meanwhile, unless its first page fell back to the sources and a second one
\* was asked for, which reads rows again.
NothingSkipped == db.over => hist.due \subseteq hist.seen \/ hist.cut

\* Pages go strictly down: nothing is shown twice or above what was shown.
PagesDescend == ~hist.again

PagesSound == NothingSkipped /\ PagesDescend

=============================================================================

----------------------------- MODULE SearchIndex -----------------------------
(***************************************************************************)
(* The external search index (Meilisearch, OpenSearch) and the database    *)
(* that it follows.  Changes send events through the outbox; a consumer    *)
(* reads the current row and writes or deletes the document; a rebuild     *)
(* drops the index and reads everything again, in batches.  Searches ask   *)
(* the engine and read the rows of its hits.                               *)
(***************************************************************************)
EXTENDS Requests

CONSTANTS
    Posts,      \* content items
    Files       \* versions of one document of the library: 1..n

Items == Posts \cup Files

\* A row is absent, shown (published, approved) or gone; a post has a text.
\* index[i] is the text indexed, 0 for none.
Init ==
    /\ db = [state |-> [i \in Items |-> "absent"], text |-> [i \in Items |-> 1],
             index |-> [i \in Items |-> 0], events |-> [i \in Items |-> 0]]
    /\ hist = [overtaken |-> {}, silent |-> {}, crossed |-> {}, broken |-> {}, leaked |-> FALSE]
    /\ Resting

Shown(d, i) == d.state[i] = "shown"

\* index_doc: the document of a row that may be seen; of a file only when no
\* later version is approved.
IndexDoc(i) ==
    IF Shown(db, i) /\ (i \in Files => \A n \in Files : n > i => ~Shown(db, n)) THEN db.text[i] ELSE 0

Enqueued(e, S) == [i \in Items |-> IF i \in S THEN e[i] + 1 ELSE e[i]]

----------------------------------------------------------------------------
(* Changes, each with its event in one transaction *)

\* create_item, publish_blog_item: published, or published anew.
Publish(c, p) ==
    /\ db.state[p] # "gone"
    /\ AtOnce(c)
    /\ db' = [db EXCEPT !.state[p] = "shown", !.text[p] = IF Shown(db, p) THEN @ + 1 ELSE @,
                        !.events = Enqueued(@, {p})]
    /\ UNCHANGED hist

\* delete_item: a soft delete.
DeleteItem(c, p) ==
    /\ Shown(db, p)
    /\ AtOnce(c)
    /\ db' = [db EXCEPT !.state[p] = "gone", !.events = Enqueued(@, {p})]
    /\ UNCHANGED hist

\* The file, and the approved versions of its document.
Concerned(f) == {f} \cup {o \in Files : Shown(db, o)}

Reviewing == {c \in Conns : tx[c].op = "file"}

\* review_file and delete_file lock the row of this version only.
ReviewFile(c, f) ==
    /\ db.state[f] = "absent" /\ \A o \in Reviewing : tx[o].f # f
    /\ Begin(c, [op |-> "file", f |-> f, to |-> "shown", tell |-> Concerned(f), was |-> db.state])
    /\ UNCHANGED <<db, hist>>

DeleteFile(c, f) ==
    /\ Shown(db, f) /\ \A o \in Reviewing : tx[o].f # f
    /\ Begin(c, [op |-> "file", f |-> f, to |-> "gone", tell |-> Concerned(f), was |-> db.state])
    /\ UNCHANGED <<db, hist>>

CommitFile(c) ==
    /\ tx[c].op = "file"
    /\ db' = [db EXCEPT !.state[tx[c].f] = tx[c].to, !.events = Enqueued(@, tx[c].tell)]
    /\ hist' = [hist EXCEPT !.crossed = @ \cup {o \in Files : Shown(db, o) /\ tx[c].was[o] # "shown"}]
    /\ Finish(c)

----------------------------------------------------------------------------
(* Consumers *)

\* apply_content_event, apply_file_event: the row as it is now.
ReadRow(c, i) ==
    /\ tx[c] = Idle
    /\ db.events[i] > 0
    /\ db' = [db EXCEPT !.events[i] = @ - 1]
    /\ Continue(c, [op |-> "sync", docs |-> [x \in {i} |-> IndexDoc(x)], late |-> {}])
    /\ UNCHANGED hist

\* Items that a consumer or a rebuild holds a document of.
Held(c) == IF tx[c].op \in {"sync", "rebuild"} THEN DOMAIN tx[c].docs ELSE {}

\* The request on c goes on as r; what it has written overtakes the
\* documents of S that others read before.
Overtake(c, S, r) ==
    tx' = [o \in Conns |-> IF o = c THEN r
                           ELSE IF Held(o) \cap S = {} THEN tx[o] ELSE [tx[o] EXCEPT !.late = @ \cup S]]

Written(c) == [i \in Items |-> IF i \in Held(c) THEN tx[c].docs[i] ELSE db.index[i]]

\* engine.upsert or engine.delete.  The engine may refuse the document and
\* say so only in its response, which nobody reads.
SyncItem(c) ==
    /\ tx[c].op = "sync"
    /\ LET S == Held(c) IN
       \/ /\ db' = [db EXCEPT !.index = Written(c)]
          /\ hist' = [hist EXCEPT !.overtaken = (@ \ S) \cup tx[c].late, !.silent = @ \ S,
                                  !.crossed = @ \ {i \in S : tx[c].docs[i] = IndexDoc(i)}]
       \/ hist' = [hist EXCEPT !.silent = @ \cup S] /\ UNCHANGED db
    /\ Overtake(c, Held(c), Idle)
    /\ UNCHANGED left

\* An error that is raised: the event is delivered again.
SyncFails(c) ==
    /\ tx[c].op = "sync"
    /\ db' = [db EXCEPT !.events = Enqueued(@, Held(c))]
    /\ Finish(c)
    /\ UNCHANGED hist

----------------------------------------------------------------------------
(* rebuild_index *)

Nothing == [i \in {} |-> 0]

DropIndex(c) ==
    /\ Begin(c, [op |-> "rebuild", todo |-> Items, docs |-> Nothing, late |-> {}])
    /\ db' = [db EXCEPT !.index = [i \in Items |-> 0]]
    /\ hist' = [hist EXCEPT !.broken = {c}, !.silent = {}, !.overtaken = {}]

\* index_docs_batch: the next batch of what can be seen.
IndexDocsBatch(c) ==
    /\ tx[c].op = "rebuild" /\ tx[c].docs = Nothing
    /\ \E i \in {x \in tx[c].todo : x \in Files => tx[c].todo \cap Posts = {}} :
         Continue(c, [tx[c] EXCEPT !.todo = @ \ {i}, !.docs =
                        IF IndexDoc(i) = 0 THEN Nothing ELSE [x \in {i} |-> IndexDoc(i)]])
    /\ UNCHANGED <<db, hist>>

UpsertBatch(c) ==
    /\ tx[c].op = "rebuild" /\ tx[c].docs # Nothing
    /\ LET S == Held(c) IN
       /\ db' = [db EXCEPT !.index = Written(c)]
       /\ hist' = [hist EXCEPT !.overtaken = @ \cup tx[c].late]
       /\ Overtake(c, S, [tx[c] EXCEPT !.docs = Nothing, !.late = {}])
    /\ UNCHANGED left

RebuildEnds(c) ==
    /\ tx[c].op = "rebuild" /\ tx[c].todo = {} /\ tx[c].docs = Nothing
    /\ hist' = [hist EXCEPT !.broken = @ \ {c}]
    /\ Finish(c)
    /\ UNCHANGED db

\* It stops half way: the flow tries again, the command line does not.
RebuildFails(c) == tx[c].op = "rebuild" /\ Fail(c)

----------------------------------------------------------------------------
(* Searches *)

\* search_ids.
SearchIds(c) ==
    /\ Begin(c, [op |-> "find", ids |-> {i \in Posts : db.index[i] # 0}])
    /\ UNCHANGED <<db, hist>>

\* Faulty variant of Recheck: the engine's hits are answered as they are.
RecheckNone(ids) == ids

\* list_published_by_ids: the rows decide.
Recheck(ids) == {i \in ids : IndexDoc(i) # 0}

\* search_items: what the engine found or, when it failed, the rows that
\* match (_pg_hits); either way only what the rows allow is answered.
EngineHits(c) ==
    /\ tx[c].op = "find"
    /\ \E ids \in {tx[c].ids, Items} :
         hist' = [hist EXCEPT !.leaked = @ \/ \E i \in Recheck(ids) : ~Shown(db, i)]
    /\ Finish(c)
    /\ UNCHANGED db

Next ==
    \E c \in Conns :
        \/ \E p \in Posts : Publish(c, p) \/ DeleteItem(c, p)
        \/ \E f \in Files : ReviewFile(c, f) \/ DeleteFile(c, f)
        \/ CommitFile(c)
        \/ \E i \in Items : ReadRow(c, i)
        \/ SyncItem(c) \/ SyncFails(c)
        \/ DropIndex(c) \/ IndexDocsBatch(c) \/ UpsertBatch(c) \/ RebuildEnds(c) \/ RebuildFails(c)
        \/ SearchIds(c) \/ EngineHits(c)

Spec == Init /\ [][Next]_vars

----------------------------------------------------------------------------

\* Somebody will still look at the item.
Due(i) == db.events[i] > 0 \/ \E c \in Conns : i \in Held(c)

\* The index holds exactly what may be seen, in its present text, as soon as
\* no event is due: unless a document was written after one that was read
\* later, the engine refused it silently, two versions of a document were
\* reviewed at once, or a rebuild is not finished.
IndexCurrent ==
    \A i \in Items : db.index[i] = IndexDoc(i) \/ Due(i) \/ hist.broken # {}
                     \/ i \in hist.overtaken \cup hist.silent \cup hist.crossed

\* Nothing that may not be seen is answered, however old the index is.
NothingLeaks == ~hist.leaked

SearchSound == IndexCurrent /\ NothingLeaks

=============================================================================

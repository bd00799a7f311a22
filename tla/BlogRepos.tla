----------------------------- MODULE BlogRepos -----------------------------
(***************************************************************************)
(* A blog series under one repository name: its row, its bare repository   *)
(* on disk, one file whose text is kept in the database, pushes that are   *)
(* copied there, and the weekly job that quarantines and removes           *)
(* directories without a row.  Disk changes are not undone by a rollback.  *)
(* Texts are numbered by the time they were written.                       *)
(***************************************************************************)
EXTENDS Requests

CONSTANTS Users, NoConn

\* The row of blog_content of the file (0: none) with updated_at.
BlogContent == [text : Nat, at : Nat, version : Nat]
NoFile == [text |-> 0, at |-> 0, version |-> 0]

\* `series`, `id`: the committed row of blog_series; `dir`, `head`: the directory
\* and its last commit; `ledger`: the row of blog_repo_quarantine, none, new
\* or older than seven days; `lock`: the job's lock in Redis.
Init ==
    /\ db = [series |-> FALSE, id |-> 0, dir |-> FALSE, head |-> 0, file |-> NoFile, stars |-> {},
             item |-> 0, ledger |-> "none", lock |-> NoConn]
    /\ hist = [now |-> 1, written |-> 0, crossed |-> FALSE, early |-> FALSE, missed |-> FALSE, wiped |-> FALSE]
    /\ Resting

Tick == [hist EXCEPT !.now = @ + 1]

----------------------------------------------------------------------------
(* Series *)

\* create_series: the name, then init_bare_repo, which wants no directory.
CreateSeries(c) ==
    /\ ~db.series
    /\ ~db.dir
    /\ Begin(c, [op |-> "create"])
    /\ db' = [db EXCEPT !.dir = TRUE, !.head = 0]
    /\ UNCHANGED hist

\* repo_name is unique.
CommitCreate(c) ==
    /\ tx[c].op = "create"
    /\ db' = [db EXCEPT !.series = TRUE, !.id = @ + 1]
    /\ Finish(c)
    /\ hist' = [hist EXCEPT !.written = 0]

\* The directory is gone when the request fails: its row stays.
Wiped(c) == tx[c].op = "delete"

\* delete_series flushes the deletions of ledger and series and removes the
\* directory; the commit comes when the request ends.
DeleteSeries(c) ==
    /\ db.series
    /\ Open("delete") = {}
    /\ Begin(c, [op |-> "delete"])
    /\ db' = [db EXCEPT !.dir = FALSE]
    /\ UNCHANGED hist

CommitDelete(c) ==
    /\ tx[c].op = "delete"
    /\ db' = [db EXCEPT !.series = FALSE, !.ledger = "none", !.file = NoFile, !.stars = {}]
    /\ Finish(c)
    /\ UNCHANGED hist

\* toggle_star; the pair is the primary key.
ToggleStar(c, u) ==
    /\ db.series
    /\ Open("delete") = {}
    /\ AtOnce(c)
    /\ db' = [db EXCEPT !.stars = IF u \in @ THEN @ \ {u} ELSE @ \cup {u}]
    /\ UNCHANGED hist

----------------------------------------------------------------------------
(* The file *)

\* write_series_file loads the row and dates it; an equal text changes
\* nothing.  The write is early for a push whose commits git already has and
\* which has no date yet.
WriteFile(c) ==
    /\ db.series
    /\ Begin(c, [op |-> "write", id |-> db.id, seen |-> db.file, dated |-> hist.now, early |-> Open("push") # {}])
    /\ hist' = Tick
    /\ UNCHANGED db

\* The loaded row, with a new text; the version counts from the loaded one.
Rewritten(r, text) == [text |-> text, at |-> r.dated, version |-> r.seen.version + 1]

\* The series the request loaded is gone, or replaced by another.
Gone(r) == ~db.series \/ db.id # r.id

\* Both insert: uq_blog_content_series_path lets one.
Collides(r) == r.seen = NoFile /\ db.file # NoFile

CommitWrite(c) ==
    LET r == tx[c] IN
    /\ r.op = "write"
    /\ IF Gone(r) \/ Collides(r) THEN UNCHANGED <<db, hist>>
       ELSE /\ db' = [db EXCEPT !.file = Rewritten(r, r.dated)]
            /\ hist' = [hist EXCEPT !.written = r.dated, !.crossed = @ \/ db.file # r.seen, !.early = @ \/ r.early]
    /\ Finish(c)

\* publish_series_file: the text of the row becomes the content item.
Publish(c) ==
    /\ db.series
    /\ db.file # NoFile
    /\ AtOnce(c)
    /\ db' = [db EXCEPT !.item = db.file.text]
    /\ UNCHANGED hist

----------------------------------------------------------------------------
(* Pushes *)

\* git_http_backend: the directory, the owner of the series, then git itself,
\* which moves HEAD.
Push(c) ==
    /\ db.dir
    /\ db.series
    /\ Begin(c, [op |-> "push"])
    /\ db' = [db EXCEPT !.head = hist.now]
    /\ hist' = Tick

\* maybe_backfill_after_push, when git has returned, in a session of its own:
\* the series is looked for, and only now the push gets its date.
Stamp(c) ==
    /\ tx[c].op = "push"
    /\ IF db.series THEN Continue(c, [op |-> "stamped", id |-> db.id, at |-> hist.now]) /\ hist' = Tick
       ELSE Finish(c) /\ UNCHANGED hist
    /\ UNCHANGED db

\* The rows of the changed paths, then HEAD's text, if there is a commit.
Backfill(c) ==
    LET r == tx[c] IN
    /\ r.op = "stamped"
    /\ IF ~Gone(r) /\ db.dir /\ db.head > 0
       THEN /\ Continue(c, [op |-> "fill", id |-> r.id, at |-> r.at, dated |-> hist.now,
                            seen |-> db.file, text |-> db.head])
            /\ hist' = Tick
       ELSE Finish(c) /\ UNCHANGED hist
    /\ UNCHANGED db

\* Faulty variant of PushWins: the push always wins.
PushWinsEver(r) == TRUE

\* The push is younger than the row it loaded.
PushWins(r) == r.seen = NoFile \/ r.at > r.seen.at

CommitBackfill(c) ==
    LET r == tx[c] IN
    /\ r.op = "fill"
    /\ IF Gone(r) \/ ~PushWins(r) THEN UNCHANGED <<db, hist>>
       ELSE IF Collides(r) THEN UNCHANGED db /\ hist' = [hist EXCEPT !.crossed = TRUE]
       ELSE /\ db' = [db EXCEPT !.file = Rewritten(r, r.text)]
            /\ hist' = [hist EXCEPT !.crossed = @ \/ db.file # r.seen \/ db.head # r.text]
    /\ Finish(c)

----------------------------------------------------------------------------
(* reconcile_blog_repos *)

\* _should_lock; then the rows and the ledger are read.
StartJob(c) ==
    /\ db.lock = NoConn
    /\ Begin(c, [op |-> "job", live |-> db.series, ledger |-> db.ledger])
    /\ db' = [db EXCEPT !.lock = c]
    /\ UNCHANGED hist

\* What the directory calls for: clear the ledger, quarantine, remove after
\* the row was looked for again, or nothing.
Verdict(r) ==
    IF ~db.dir \/ r.live THEN "clear"
    ELSE IF r.ledger = "none" THEN "quarantine"
    ELSE IF r.ledger = "old" /\ ~db.series THEN "remove"
    ELSE "keep"

Inspect(c) ==
    /\ tx[c].op = "job"
    /\ Continue(c, [op |-> "judged", verdict |-> Verdict(tx[c])])
    /\ UNCHANGED <<db, hist>>

\* rmtree; the row of the ledger goes only if the directory is gone.
Remove(c) ==
    /\ tx[c].op = "judged"
    /\ tx[c].verdict = "remove"
    /\ db' = [db EXCEPT !.dir = FALSE]
    /\ hist' = [hist EXCEPT !.wiped = @ \/ Open("create") # {} \/ db.series]
    /\ Continue(c, [op |-> "judged", verdict |-> "clear"])

Release(c) == IF db.lock = c THEN NoConn ELSE db.lock

CommitJob(c) ==
    /\ tx[c].op = "judged"
    /\ tx[c].verdict # "remove"
    /\ db' = [db EXCEPT !.lock = Release(c),
                        !.ledger = CASE tx[c].verdict = "clear" -> "none"
                                     [] tx[c].verdict = "quarantine" -> IF @ = "none" THEN "new" ELSE @
                                     [] tx[c].verdict = "keep" -> @]
    /\ Finish(c)
    /\ UNCHANGED hist

FailJob(c) ==
    /\ tx[c].op \in {"job", "judged"}
    /\ db' = [db EXCEPT !.lock = Release(c)]
    /\ Finish(c)
    /\ UNCHANGED hist

\* The lock lives an hour, a quarantine seven days.
ExpireLock == db.lock # NoConn /\ db' = [db EXCEPT !.lock = NoConn] /\ UNCHANGED <<tx, hist, left>>
Age == db.ledger = "new" /\ db' = [db EXCEPT !.ledger = "old"] /\ UNCHANGED <<tx, hist, left>>

\* A request fails before its commit; the disk keeps what it did.
FailRequest(c) ==
    /\ tx[c].op \in {"create", "delete", "write", "push", "stamped", "fill"}
    /\ hist' = [hist EXCEPT !.wiped = @ \/ Wiped(c), !.missed = @ \/ tx[c].op \in {"push", "stamped", "fill"}]
    /\ Finish(c)
    /\ UNCHANGED db

----------------------------------------------------------------------------

Next ==
    \/ \E c \in Conns :
         \/ CreateSeries(c) \/ CommitCreate(c) \/ DeleteSeries(c) \/ CommitDelete(c)
         \/ \E u \in Users : ToggleStar(c, u)
         \/ WriteFile(c) \/ CommitWrite(c) \/ Publish(c)
         \/ Push(c) \/ Stamp(c) \/ Backfill(c) \/ CommitBackfill(c)
         \/ StartJob(c) \/ Inspect(c) \/ Remove(c) \/ CommitJob(c) \/ FailJob(c)
         \/ FailRequest(c)
    \/ ExpireLock \/ Age

Spec == Init /\ [][Next]_vars

----------------------------------------------------------------------------

\* A series has its repository, unless a deletion failed after the directory
\* was gone or the job removed the directory of a series being created.
RepoKept == db.series /\ Open("delete") = {} => db.dir \/ hist.wiped

\* When pushes and writes did not overlap and no copy was lost, the file is
\* the younger of the last push and the last write.
FileCurrent ==
    /\ db.series /\ tx = [c \in Conns |-> Idle]
    /\ ~hist.crossed /\ ~hist.missed /\ ~hist.wiped
    => db.file.text >= db.head

\* A push never takes a younger write away, unless the write got its date
\* after git had moved HEAD and before the push got its own.
WriteKept ==
    db.file # NoFile /\ ~hist.crossed /\ ~hist.early /\ hist.written > db.head => db.file.text = hist.written

BlogSound == RepoKept /\ FileCurrent /\ WriteKept

=============================================================================

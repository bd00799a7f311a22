------------------------------ MODULE BotMedia ------------------------------
(***************************************************************************)
(* Media of the bot: a row of bot_media_objects and an object, both named  *)
(* by the hash of the content, shared by all messages that use it.  The    *)
(* count of references is read with the row and written back as a number;  *)
(* the row is locked from its deletion to the commit, and the object goes  *)
(* in between.  One content; the object store is external.                 *)
(***************************************************************************)
EXTENDS Requests

None == [id |-> 0]

\* `past`: the retention is over.  `holders` counts the references the bot
\* has and did not give back; the other fields of hist name the overlaps and
\* failures the properties except.
Init ==
    /\ db = [row |-> None, object |-> FALSE, ids |-> 0]
    /\ hist = [holders |-> 0, over |-> FALSE, raced |-> FALSE, purged |-> FALSE, torn |-> FALSE,
               twice |-> FALSE, under |-> FALSE, cut |-> FALSE, unread |-> FALSE]
    /\ Resting

Ours(r) == db.row # None /\ db.row.id = r.id

\* A flushed DELETE holds the row until the end of its transaction.
Locked == \E o \in Conns : tx[o].op = "delete" /\ tx[o].step \in {"dropped", "gone"} /\ tx[o].mine

\* The count was written since the request read it.
Raced(r) == Ours(r) /\ db.row.refs # r.refs

----------------------------------------------------------------------------
(* create_media *)

\* _find_by_hash.  `keep`: the row is not to expire.
Upload(c) ==
    \E keep \in BOOLEAN :
        /\ Begin(c, [op |-> "upload", step |-> "read", id |-> db.row.id, keep |-> keep,
                     refs |-> IF db.row = None THEN 0 ELSE db.row.refs])
        /\ UNCHANGED <<db, hist>>

Uploading(c, step) == tx[c].op = "upload" /\ tx[c].step = step

\* The row exists: UPDATE with the new count and retention, and commit.  An
\* UPDATE that finds no row is an error.
Bump(c) ==
    /\ Uploading(c, "read") /\ tx[c].id # 0 /\ ~Locked
    /\ IF Ours(tx[c])
       THEN /\ db' = [db EXCEPT !.row = [@ EXCEPT !.refs = tx[c].refs + 1, !.keep = tx[c].keep, !.past = FALSE]]
            /\ hist' = [hist EXCEPT !.holders = @ + 1, !.raced = @ \/ Raced(tx[c])]
       ELSE UNCHANGED <<db, hist>>
    /\ Finish(c)

\* There is none: the object is saved unless the store has it.
SaveObject(c) ==
    /\ Uploading(c, "read") /\ tx[c].id = 0
    /\ db' = [db EXCEPT !.object = TRUE]
    /\ Continue(c, [tx[c] EXCEPT !.step = "saved"])
    /\ UNCHANGED hist

\* INSERT and commit; the unique hash refuses a second row.
Register(c) ==
    /\ Uploading(c, "saved") /\ ~Locked
    /\ IF db.row = None
       THEN /\ db' = [db EXCEPT !.ids = @ + 1,
                                !.row = [id |-> db.ids + 1, refs |-> 1, keep |-> tx[c].keep, past |-> FALSE]]
            /\ hist' = [hist EXCEPT !.holders = @ + 1]
       ELSE UNCHANGED <<db, hist>>
    /\ Finish(c)

----------------------------------------------------------------------------
(* delete_media, by the bot for a message of its, and by purge_expired *)

Returning(c) == tx[c].op = "delete" /\ ~tx[c].purge

Read(c, purge) ==
    /\ Begin(c, [op |-> "delete", step |-> "read", id |-> db.row.id, refs |-> db.row.refs, purge |-> purge,
                 mine |-> FALSE])
    /\ UNCHANGED db

\* Nothing ties a deletion to a reference: the bot may repeat one.
Delete(c) ==
    /\ db.row # None
    /\ Read(c, FALSE)
    /\ hist' = [hist EXCEPT !.over = @ \/ hist.holders <= Cardinality({o \in Conns : Returning(o)})]

\* purge_expired, for operators; nothing in the repository calls it.
Purge(c) ==
    /\ db.row # None /\ db.row.past
    /\ Read(c, TRUE)
    /\ hist' = [hist EXCEPT !.purged = TRUE]

Deleting(c, step) == tx[c].op = "delete" /\ tx[c].step = step

Returned(h, r) == IF r.purge \/ h.holders = 0 THEN h ELSE [h EXCEPT !.holders = @ - 1]

\* Others still use it.
Release(c) ==
    /\ Deleting(c, "read") /\ tx[c].refs > 1 /\ ~Locked
    /\ IF Ours(tx[c])
       THEN /\ db' = [db EXCEPT !.row = [@ EXCEPT !.refs = tx[c].refs - 1]]
            /\ hist' = [Returned(hist, tx[c]) EXCEPT !.raced = @ \/ Raced(tx[c])]
       ELSE UNCHANGED <<db, hist>>
    /\ Finish(c)

\* The last one: a DELETE that finds no row is only a warning.
DropRow(c) ==
    /\ Deleting(c, "read") /\ tx[c].refs = 1 /\ ~Locked
    /\ Continue(c, [tx[c] EXCEPT !.step = "dropped", !.mine = Ours(tx[c])])
    /\ hist' = [hist EXCEPT !.raced = @ \/ Raced(tx[c])]
    /\ UNCHANGED db

\* The object goes, or stays with a warning when the store fails.
DropObject(c) ==
    /\ Deleting(c, "dropped")
    /\ \E gone \in BOOLEAN : db' = [db EXCEPT !.object = @ /\ ~gone]
    /\ hist' = [hist EXCEPT !.twice = @ \/ ~tx[c].mine,
                            !.under = @ \/ \E o \in Conns : Uploading(o, "saved"),
                            !.cut = @ \/ \E o \in Conns : tx[o].op = "serve"]
    /\ Continue(c, [tx[c] EXCEPT !.step = "gone"])

CommitDelete(c) ==
    /\ Deleting(c, "gone")
    /\ db' = IF tx[c].mine THEN [db EXCEPT !.row = None] ELSE db
    /\ hist' = Returned(hist, tx[c])
    /\ Finish(c)

----------------------------------------------------------------------------
(* serve_media: row and object are looked up, then the body is sent *)

Serve(c) ==
    /\ db.row # None /\ ~db.row.past /\ db.object
    /\ Begin(c, [op |-> "serve"])
    /\ UNCHANGED <<db, hist>>

SendBody(c) ==
    /\ tx[c].op = "serve"
    /\ hist' = [hist EXCEPT !.unread = @ \/ ~db.object]
    /\ Finish(c)
    /\ UNCHANGED db

Age ==
    /\ db.row # None /\ ~db.row.keep /\ ~db.row.past
    /\ db' = [db EXCEPT !.row.past = TRUE]
    /\ UNCHANGED <<tx, hist, left>>

\* The request fails, or its commit does: a deletion keeps its row and may
\* have lost the object.
Aborted(c) ==
    /\ tx[c] # Idle
    /\ hist' = [hist EXCEPT !.torn = @ \/ (Deleting(c, "gone") /\ ~db.object)]
    /\ Finish(c)
    /\ UNCHANGED db

Next ==
    \/ Age
    \/ \E c \in Conns :
         \/ Upload(c) \/ Bump(c) \/ SaveObject(c) \/ Register(c)
         \/ Delete(c) \/ Purge(c) \/ Release(c) \/ DropRow(c) \/ DropObject(c) \/ CommitDelete(c)
         \/ Serve(c) \/ SendBody(c) \/ Aborted(c)

Spec == Init /\ [][Next]_vars

----------------------------------------------------------------------------

\* A row has its object, unless a commit failed behind its removal, or it was
\* removed by a second deletion or under an upload that had found it there.
RowHasObject ==
    \/ db.row = None \/ db.object \/ Locked
    \/ hist.torn \/ hist.twice \/ hist.under

\* The row counts the references the bot has, and is there while it has one,
\* unless two requests wrote the count from one reading, it was purged, or
\* the bot gave back more than it had.
RefsCounted ==
    hist.raced \/ hist.purged \/ hist.over
        \/ hist.holders = IF db.row = None THEN 0 ELSE db.row.refs

\* A body that was announced is sent, unless the object was deleted meanwhile.
BodySent == hist.unread => hist.cut

MediaSound == RowHasObject /\ RefsCounted /\ BodySent

=============================================================================

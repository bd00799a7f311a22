------------------------------- MODULE Boards -------------------------------
(***************************************************************************)
(* Boards: applications for a slug, their review, boards made by other     *)
(* ways, edits under an optimistic version, bans and the admission of      *)
(* posts.  `bans` counts rows of board_bans; `posts` the discussions of a  *)
(* user on a board today.                                                  *)
(***************************************************************************)
EXTENDS Requests

CONSTANTS Users, Slugs, Apps, NoUser, DailyLimit

\* A new row of board_applications; `cooling`: rejected within the last day.
BoardApplication(u, s) == [user |-> u, slug |-> s, status |-> "pending", cooling |-> FALSE]

\* A new row of boards: its owner, the optimistic version and the last edit.
Board(u) == [owner |-> u, version |-> 1, text |-> 0]

\* Rows of board_bans that have not expired.
BoardBan == [Slugs \X Users -> Nat]

Rows == DOMAIN db.apps
Taken(s) == s \in DOMAIN db.boards

Init ==
    /\ db = [apps |-> <<>>, boards |-> <<>>, made |-> [a \in Apps |-> 0],
             bans |-> [p \in Slugs \X Users |-> 0], posts |-> [p \in Slugs \X Users |-> 0]]
    /\ hist = [flipped |-> {}, lost |-> FALSE, overlaps |-> [p \in Slugs \X Users |-> 0]]
    /\ Resting

Put(f, k, v) == [x \in DOMAIN f \cup {k} |-> IF x = k THEN v ELSE f[x]]

----------------------------------------------------------------------------
(* Applications *)

\* has_pending, slug_taken of both tables, latest_rejected with its cooldown.
MayApply(u, s) ==
    /\ ~Taken(s)
    /\ \A a \in Rows : db.apps[a].slug = s =>
         db.apps[a].status = "rejected" /\ (db.apps[a].user = u => ~db.apps[a].cooling)

SubmitApplication(c, u, s) ==
    /\ MayApply(u, s)
    /\ Begin(c, [op |-> "submit", user |-> u, slug |-> s])
    /\ UNCHANGED <<db, hist>>

\* uq_board_applications_slug_active: live applications by slug.
Live(s) == {a \in Rows : db.apps[a].slug = s /\ db.apps[a].status # "rejected"}

Insert(c) ==
    LET r == tx[c] IN
    /\ r.op = "submit"
    /\ \/ Live(r.slug) # {} /\ UNCHANGED db
       \/ Live(r.slug) = {} /\ \E a \in Apps \ Rows :
            db' = [db EXCEPT !.apps = Put(@, a, BoardApplication(r.user, r.slug))]
    /\ Finish(c)
    /\ UNCHANGED hist

\* The cooldown of a rejection ends.
Cool(a) ==
    /\ a \in Rows
    /\ db.apps[a].cooling
    /\ db' = [db EXCEPT !.apps[a].cooling = FALSE]
    /\ UNCHANGED <<tx, hist, left>>

\* Reads without a lock: the status, and for an approval the slug.
Review(c, a, yes) ==
    /\ a \in Rows
    /\ db.apps[a].status = "pending"
    /\ yes => ~Taken(db.apps[a].slug)
    /\ Begin(c, [op |-> "review", app |-> a, yes |-> yes])
    /\ UNCHANGED <<db, hist>>

\* create_board_ex reads the slug again after the application was written,
\* and boards.slug is unique.
SlugConflict(a) == Taken(db.apps[a].slug)

\* The row is written by its key, after waiting for a rival's commit.  A
\* taken slug, or a live application of someone else, undoes everything.
DecideBoard(c) ==
    LET r == tx[c]
        s == db.apps[r.app].slug
        d == [db EXCEPT !.apps[r.app].status = IF r.yes THEN "approved" ELSE "rejected",
                        !.apps[r.app].cooling = ~r.yes]
    IN
    /\ r.op = "review"
    /\ IF r.yes /\ (SlugConflict(r.app) \/ Live(s) \ {r.app} # {})
       THEN UNCHANGED <<db, hist>>
       ELSE /\ db' = IF r.yes
                     THEN [d EXCEPT !.boards = Put(@, s, Board(db.apps[r.app].user)), !.made[r.app] = @ + 1]
                     ELSE d
            /\ hist' = [hist EXCEPT !.flipped =
                          IF db.apps[r.app].status = "pending" THEN @ ELSE @ \cup {r.app}]
    /\ Finish(c)

\* An administrator makes a board; the unique slug decides between rivals.
AdminCreateBoard(c, s) ==
    /\ ~Taken(s)
    /\ AtOnce(c)
    /\ db' = [db EXCEPT !.boards = Put(@, s, Board(NoUser))]
    /\ UNCHANGED hist

\* ensure_by_slug: publishing a blog makes the board, ON CONFLICT DO NOTHING.
EnsureBySlug(c, s) ==
    /\ AtOnce(c)
    /\ db' = IF Taken(s) THEN db ELSE [db EXCEPT !.boards = Put(@, s, Board(NoUser))]
    /\ UNCHANGED hist

----------------------------------------------------------------------------
(* Editing: the client sends the version it has seen, or none *)

Owns(u, s) == Taken(s) /\ db.boards[s].owner = u

Edit(c, u, s, checked) ==
    /\ Owns(u, s)
    /\ Begin(c, [op |-> "edit", slug |-> s, checked |-> checked, id |-> left,
                 seen |-> db.boards[s]])
    /\ UNCHANGED <<db, hist>>

\* Faulty variant of NewVersion: an edit without a version leaves it.
NewVersionIfChecked(r) ==
    IF r.checked THEN db.boards[r.slug].version + 1 ELSE db.boards[r.slug].version

\* update_cas: every write raises the version, checked or not.
NewVersion(r) == db.boards[r.slug].version + 1

UpdateCas(c) ==
    LET r == tx[c] IN
    /\ r.op = "edit"
    /\ IF r.checked /\ db.boards[r.slug].version # r.seen.version
       THEN UNCHANGED <<db, hist>>
       ELSE /\ db' = [db EXCEPT !.boards[r.slug].version = NewVersion(r),
                                !.boards[r.slug].text = r.id]
            /\ hist' = [hist EXCEPT !.lost = @ \/ (r.checked /\ db.boards[r.slug].text # r.seen.text)]
    /\ Finish(c)

----------------------------------------------------------------------------
(* Bans and posts *)

Banned(s, u) == db.bans[<<s, u>>] > 0

\* ban_user looks for an active ban and inserts; no index excludes a second.
Ban(c, u, s, v) ==
    /\ Owns(u, s)
    /\ ~Banned(s, v)
    /\ Begin(c, [op |-> "ban", slug |-> s, user |-> v])
    /\ UNCHANGED <<db, hist>>

InsertBan(c) ==
    /\ tx[c].op = "ban"
    /\ db' = [db EXCEPT !.bans[<<tx[c].slug, tx[c].user>>] = @ + 1]
    /\ Finish(c)
    /\ UNCHANGED hist

\* unban_user deletes every row of the pair.
Unban(c, u, s, v) ==
    /\ Owns(u, s)
    /\ AtOnce(c)
    /\ db' = [db EXCEPT !.bans[<<s, v>>] = 0]
    /\ UNCHANGED hist

\* expires_at passes.
Expire(s, v) ==
    /\ Banned(s, v)
    /\ db' = [db EXCEPT !.bans[<<s, v>>] = @ - 1]
    /\ UNCHANGED <<tx, hist, left>>

\* check_post_allowed: the board, the ban, today's posts.
PostAllowed(s, u) == Taken(s) /\ ~Banned(s, u) /\ db.posts[<<s, u>>] < DailyLimit

CheckPost(c, u, s) ==
    /\ PostAllowed(s, u)
    /\ Begin(c, [op |-> "post", slug |-> s, user |-> u])
    /\ hist' = [hist EXCEPT !.overlaps[<<s, u>>] =
                  @ + Cardinality({o \in Open("post") : tx[o].slug = s /\ tx[o].user = u})]
    /\ UNCHANGED db

\* The rest of create_item: nothing counts again.
CreatePost(c) ==
    /\ tx[c].op = "post"
    /\ db' = [db EXCEPT !.posts[<<tx[c].slug, tx[c].user>>] = @ + 1]
    /\ Finish(c)
    /\ UNCHANGED hist

----------------------------------------------------------------------------

Next ==
    \/ \E c \in Conns :
         \/ \E u \in Users, s \in Slugs : SubmitApplication(c, u, s) \/ CheckPost(c, u, s)
         \/ \E u \in Users, s \in Slugs, checked \in BOOLEAN : Edit(c, u, s, checked)
         \/ \E u, v \in Users, s \in Slugs : Ban(c, u, s, v) \/ Unban(c, u, s, v)
         \/ \E a \in Apps, yes \in BOOLEAN : Review(c, a, yes)
         \/ \E s \in Slugs : AdminCreateBoard(c, s) \/ EnsureBySlug(c, s)
         \/ Insert(c) \/ DecideBoard(c) \/ UpdateCas(c) \/ InsertBan(c) \/ CreatePost(c)
         \/ Fail(c)
    \/ \E a \in Apps : Cool(a)
    \/ \E s \in Slugs, v \in Users : Expire(s, v)

Spec == Init /\ [][Next]_vars

----------------------------------------------------------------------------

\* One live application per slug; an approved one has made its board, once;
\* a rejected one has a board of its own only where a rival's approval was
\* overwritten.
BoardsMatch ==
    /\ \A s \in Slugs : Cardinality(Live(s)) <= 1
    /\ \A a \in Rows :
         /\ db.made[a] <= 1
         /\ db.apps[a].status = "approved" => db.made[a] = 1 /\ Owns(db.apps[a].user, db.apps[a].slug)
         /\ db.apps[a].status = "rejected" /\ db.made[a] > 0 => a \in hist.flipped

\* An edit that names its version never overwrites a text its author has not
\* seen, whatever edits without a version come between.
NoLostEdit == ~hist.lost

\* More posts than the daily limit come only from requests that overlap.
LimitExplained == \A p \in Slugs \X Users : db.posts[p] <= DailyLimit + hist.overlaps[p]

BoardsSound == BoardsMatch /\ NoLostEdit /\ LimitExplained

=============================================================================

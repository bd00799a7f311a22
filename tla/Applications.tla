---------------------------- MODULE Applications ----------------------------
(***************************************************************************)
(* Applications that an administrator decides: for a column (columns) or   *)
(* for the incubation of a project (projects).  The two desks differ in    *)
(* how they guard against two reviewers at once, and the projects desk     *)
(* promotes the applicant in the auth service before its own commit.       *)
(***************************************************************************)
EXTENDS Requests

CONSTANTS Users, Titles, Apps

\* A new row of column_applications; `cooling`: rejected less than
\* APPLICATION_COOLDOWN ago.
ColumnApplication(u, t) == [user |-> u, title |-> t, status |-> "pending", cooling |-> FALSE]

\* A new row of project_applications, which know no cooldown.
ProjectApplication(u, t) == [user |-> u, title |-> t, status |-> "pending", cooling |-> FALSE]

Rows == DOMAIN db.apps

WithStatus(st) == {a \in Rows : db.apps[a].status = st}

\* `made`: columns or projects per application; `posts`: who posted in the
\* column of which application; `granted`: users the auth service promoted.
Init ==
    /\ \E d \in {"column", "project"} :
         db = [desk |-> d, apps |-> <<>>, made |-> [a \in Apps |-> 0], posts |-> {}, granted |-> {}]
    /\ hist = [flipped |-> {}]
    /\ Resting

Add(a, row) == [db EXCEPT !.apps = [x \in Rows \cup {a} |-> IF x = a THEN row ELSE db.apps[x]]]

----------------------------------------------------------------------------
(* Submitting: the reads, then the insert in its savepoint *)

\* has_pending and latest_rejected: nothing pending, no recent rejection.
MayApply(u) ==
    \A a \in Rows : db.apps[a].user = u => db.apps[a].status # "pending" /\ ~db.apps[a].cooling

CreateApplication(c, u, t) ==
    /\ db.desk = "column"
    /\ MayApply(u)
    /\ Begin(c, [op |-> "submit", user |-> u, title |-> t])
    /\ UNCHANGED <<db, hist>>

PendingDuplicate(u, t) == \E a \in WithStatus("pending") : db.apps[a].user = u /\ db.apps[a].title = t

SubmitApplication(c, u, t) ==
    /\ db.desk = "project"
    /\ ~PendingDuplicate(u, t)
    /\ Begin(c, [op |-> "submit", user |-> u, title |-> t])
    /\ UNCHANGED <<db, hist>>

\* Faulty variant of Taken: no partial unique indexes.
TakenNever(u, t) == u \notin Users

\* uq_column_applications_pending_user, uq_project_applications_pending
Taken(u, t) ==
    \E a \in WithStatus("pending") : db.apps[a].user = u /\ (db.desk = "project" => db.apps[a].title = t)

\* A violated index becomes a business error and no row.
Insert(c) ==
    LET r == tx[c] IN
    /\ r.op = "submit"
    /\ \/ Taken(r.user, r.title) /\ UNCHANGED db
       \/ ~Taken(r.user, r.title) /\ \E a \in Apps \ Rows :
            db' = Add(a, IF db.desk = "column" THEN ColumnApplication(r.user, r.title)
                                               ELSE ProjectApplication(r.user, r.title))
    /\ Finish(c)
    /\ UNCHANGED hist

\* _assert_reapply_allowed: a day after the rejection.
Cool(a) ==
    /\ a \in Rows
    /\ db.apps[a].cooling
    /\ db' = [db EXCEPT !.apps[a].cooling = FALSE]
    /\ UNCHANGED <<tx, hist, left>>

----------------------------------------------------------------------------
(* The columns desk: the status is read without a lock, the row is written *)
(* by its key after waiting for a rival's commit                           *)

\* The endpoint refuses the applicant as reviewer.
ReviewColumn(c, u, a, yes) ==
    /\ db.desk = "column"
    /\ a \in WithStatus("pending")
    /\ u # db.apps[a].user
    /\ Begin(c, [op |-> "review", app |-> a, yes |-> yes])
    /\ UNCHANGED <<db, hist>>

\* _ensure_column_for_application: once per application.
EnsureColumn(d, a) == [d EXCEPT !.made[a] = IF @ = 0 THEN 1 ELSE @]

DecideColumn(c) ==
    LET r == tx[c]
        d == [db EXCEPT !.apps[r.app].status = IF r.yes THEN "approved" ELSE "rejected",
                        !.apps[r.app].cooling = ~r.yes]
    IN
    /\ r.op = "review" /\ db.desk = "column"
    /\ db' = IF r.yes THEN EnsureColumn(d, r.app) ELSE d
    /\ hist' = [hist EXCEPT !.flipped = IF r.app \in WithStatus("pending") THEN @ ELSE @ \cup {r.app}]
    /\ Finish(c)

\* Posting in a column: it exists and belongs to the author.
PublishColumnPost(c, u, a) ==
    /\ db.desk = "column" /\ a \in Rows
    /\ db.made[a] > 0 /\ db.apps[a].user = u
    /\ AtOnce(c)
    /\ db' = [db EXCEPT !.posts = @ \cup {<<a, u>>}]
    /\ UNCHANGED hist

----------------------------------------------------------------------------
(* The projects desk: UPDATE ... WHERE status = 'pending' is the claim     *)

ReviewProject(c, a, yes) ==
    /\ db.desk = "project"
    /\ a \in WithStatus("pending")
    /\ Begin(c, [op |-> "review", app |-> a, yes |-> yes])
    /\ UNCHANGED <<db, hist>>

\* A claimed row is locked until the promotion and the commit are done.
Unlocked(a) == \A o \in Open("claimed") \cup Open("promoted") : tx[o].app # a

Claimable(a) == a \in WithStatus("pending")

Claim(c) ==
    LET r == tx[c] IN
    /\ r.op = "review" /\ db.desk = "project"
    /\ Unlocked(r.app)
    /\ IF Claimable(r.app) THEN Continue(c, [r EXCEPT !.op = "claimed"]) ELSE Finish(c)
    /\ UNCHANGED <<db, hist>>

\* grant_incubation_from_business: the auth service commits on its own.
Promote(c) ==
    /\ tx[c].op = "claimed" /\ tx[c].yes
    /\ db' = [db EXCEPT !.granted = @ \cup {db.apps[tx[c].app].user}]
    /\ Continue(c, [tx[c] EXCEPT !.op = "promoted"])
    /\ UNCHANGED hist

\* The commit: the decision, and for an approval the project and its members.
DecideProject(c) ==
    LET r == tx[c] IN
    /\ r.op = "promoted" \/ (r.op = "claimed" /\ ~r.yes)
    /\ db' = [db EXCEPT !.apps[r.app].status = IF r.yes THEN "approved" ELSE "rejected",
                        !.made[r.app] = IF r.yes THEN @ + 1 ELSE @]
    /\ Finish(c)
    /\ UNCHANGED hist

----------------------------------------------------------------------------

Next ==
    \/ \E c \in Conns :
         \/ \E u \in Users, t \in Titles : CreateApplication(c, u, t) \/ SubmitApplication(c, u, t)
         \/ Insert(c)
         \/ \E a \in Apps, yes \in BOOLEAN :
              ReviewProject(c, a, yes) \/ \E u \in Users : ReviewColumn(c, u, a, yes)
         \/ DecideColumn(c) \/ Claim(c) \/ Promote(c) \/ DecideProject(c)
         \/ \E u \in Users, a \in Apps : PublishColumnPost(c, u, a)
         \/ Fail(c)
    \/ \E a \in Apps : Cool(a)

Spec == Init /\ [][Next]_vars

----------------------------------------------------------------------------

\* Two submissions that both passed their reads leave one pending row.
OnePending ==
    \A a, b \in WithStatus("pending") : a # b /\ db.apps[a].user = db.apps[b].user =>
        db.desk = "project" /\ db.apps[a].title # db.apps[b].title

\* Decisions and what they make agree, whichever reviewers overlap: nothing is
\* made twice; an approval has its column or its project with the promotion;
\* a pending application has nothing; and a rejected one has something only
\* where a rival's approval was overwritten, which the projects desk excludes.
OutcomeExact ==
    \A a \in Rows :
        /\ db.made[a] <= 1
        /\ a \in WithStatus("approved") =>
             db.made[a] = 1 /\ (db.desk = "project" => db.apps[a].user \in db.granted)
        /\ a \in WithStatus("pending") => db.made[a] = 0
        /\ a \in WithStatus("rejected") /\ db.made[a] = 1 => a \in hist.flipped /\ db.desk = "column"

\* Both, and posts stand in existing columns.
ApplicationsSound == OnePending /\ OutcomeExact /\ \A p \in db.posts : db.made[p[1]] = 1

=============================================================================

------------------------------- MODULE UserDim -------------------------------
(***************************************************************************)
(* user_dim, the wide table of users for reports: the business database's  *)
(* copy of users and profiles of the auth database.  Every change sends an *)
(* event whose consumer copies the user's row; a periodic reconciliation,  *)
(* under a lock in Redis, copies the rows whose users.updated_at is later  *)
(* than their sync_ts.  The two databases share no transaction.            *)
(***************************************************************************)
EXTENDS Requests

CONSTANTS
    Users,      \* 1..n, in the order of the scan
    Window,     \* RECONCILE_WINDOW, users per round
    NoConn      \* nobody holds the lock

\* A user is a version of its users row with updated_at, and a version of
\* its profile; a copied row has both versions and sync_ts.  At first the
\* table is empty (it is filled by the first reconciliation), or all copied.
NoCopy == [v |-> 0, p |-> 0, ts |-> 0]

Init ==
    /\ \E copy \in {NoCopy, [v |-> 1, p |-> 1, ts |-> 1]} :
         db = [src |-> [u \in Users |-> [v |-> 1, p |-> 1, at |-> 1]], dim |-> [u \in Users |-> copy],
               clock |-> 1, events |-> [u \in Users |-> 0], lock |-> NoConn]
    /\ hist = [masked |-> {}, older |-> {}, unsent |-> {}, expired |-> {}]
    /\ Resting

Missing(u) == db.dim[u] = NoCopy

----------------------------------------------------------------------------
(* The source *)

Changing(u) == \E o \in Open("user") : tx[o].u = u

\* A change of the users row stamps updated_at when it is flushed; the row
\* stays locked until the commit.
FlushUser(c, u) ==
    /\ ~Changing(u)
    /\ Begin(c, [op |-> "user", u |-> u, at |-> db.clock + 1])
    /\ db' = [db EXCEPT !.clock = @ + 1]
    /\ UNCHANGED hist

\* The event is in the outbox with the change.
CommitUser(c) ==
    /\ tx[c].op = "user"
    /\ LET u == tx[c].u IN
       db' = [db EXCEPT !.src[u].v = @ + 1, !.src[u].at = tx[c].at, !.events[u] = @ + 1]
    /\ Finish(c)
    /\ UNCHANGED hist

\* A change of the profile alone leaves users.updated_at.
ChangeProfile(c, u) ==
    /\ AtOnce(c)
    /\ db' = [db EXCEPT !.src[u].p = @ + 1, !.events[u] = @ + 1]
    /\ UNCHANGED hist

----------------------------------------------------------------------------
(* sync_dim_for_ids *)

Loading(from, ids) == [op |-> "sync", at |-> "load", from |-> from, ids |-> ids]

\* One read of the source.
LoadSourceRows(c) ==
    /\ tx[c].op = "sync" /\ tx[c].at = "load"
    /\ Continue(c, [op |-> "sync", at |-> "stamp", from |-> tx[c].from, ids |-> tx[c].ids,
                    rows |-> [u \in tx[c].ids |-> db.src[u]]])
    /\ UNCHANGED <<db, hist>>

\* A change of the users row that the rows read do not have, and that is not
\* later than a stamp of now: committed since the read, or still to be.
Hidden(c, u) == Changing(u) \/ tx[c].rows[u].v # db.src[u].v

\* One stamp for all the rows, taken when the awaited read has returned.
StampRows(c) ==
    /\ tx[c].op = "sync" /\ tx[c].at = "stamp"
    /\ Continue(c, [op |-> "sync", at |-> "write", from |-> tx[c].from, ids |-> tx[c].ids,
                    rows |-> tx[c].rows, ts |-> db.clock, hides |-> {u \in tx[c].ids : Hidden(c, u)}])
    /\ UNCHANGED <<db, hist>>

\* Faulty variant of Copy: stamped when it is written.
CopyStampedLate(c, u) == [v |-> tx[c].rows[u].v, p |-> tx[c].rows[u].p, ts |-> db.clock]

\* _rows_for: the row as it was read, with the stamp.
Copy(c, u) == [v |-> tx[c].rows[u].v, p |-> tx[c].rows[u].p, ts |-> tx[c].ts]

\* The periodic job and the flow take the lock; where Redis is not there
\* they run without one.
Locked == {"reconcile", "flow"}

Unlocked == {"unlocked", "unlockedflow"}

\* The copy is over; a reconciler releases its lock, and the flow goes on
\* after a full round.
GoesOn(c, full) == full /\ tx[c].from \in {"flow", "unlockedflow"}

Done(c, full) ==
    IF tx[c].from \in Locked THEN Continue(c, [op |-> "release", at |-> "get", again |-> GoesOn(c, full)])
    ELSE IF GoesOn(c, full) THEN Continue(c, [op |-> "round"])
    ELSE Finish(c)

\* ON CONFLICT DO UPDATE: whatever is there is overwritten.
UpsertDimRows(c) ==
    /\ tx[c].op = "sync" /\ tx[c].at = "write"
    /\ db' = [db EXCEPT !.dim = [u \in Users |-> IF u \in tx[c].ids THEN Copy(c, u) ELSE @[u]]]
    /\ LET newest == {u \in tx[c].ids : tx[c].rows[u].p = db.src[u].p} IN
       hist' = [hist EXCEPT
         !.masked = (@ \ tx[c].ids) \cup tx[c].hides,
         !.older = (@ \ newest) \cup {u \in tx[c].ids : tx[c].rows[u].p < db.dim[u].p},
         !.unsent = @ \ newest]
    /\ Done(c, Cardinality(tx[c].ids) = Window)

\* An error; the event's consumer logs it and the event is done.
SyncFails(c) ==
    /\ tx[c].op = "sync"
    /\ hist' = [hist EXCEPT !.unsent = IF tx[c].from = "event" THEN @ \cup tx[c].ids ELSE @]
    /\ Done(c, FALSE)
    /\ UNCHANGED db

----------------------------------------------------------------------------
(* Who copies *)

\* invalidate_user_snap, the consumer of the event: refresh_user_dim_event.
RefreshUserDimEvent(c, u) ==
    /\ tx[c] = Idle
    /\ db.events[u] > 0
    /\ db' = [db EXCEPT !.events[u] = @ - 1]
    /\ Continue(c, Loading("event", {u}))
    /\ UNCHANGED hist

\* Mode "ids" of the flow: an operator fills in named users (all of them).
SyncIds(c, ids) == Begin(c, Loading("ids", ids)) /\ UNCHANGED <<db, hist>>

\* Never copied, or updated after the copy's stamp.
Stale(at, copy) == copy = NoCopy \/ at > copy.ts

FirstN(S, n) == {u \in S : Cardinality({x \in S : x < u}) < n}

\* The candidates of one round: two scans, one in each database.
Candidates(seen, dim) == FirstN({u \in Users : Stale(seen[u], dim[u])}, Window)

ScanSource(c, from) == [op |-> "scan", from |-> from, seen |-> [u \in Users |-> db.src[u].at]]

\* reconcile_user_dim_incremental after the second scan.
ScanDim(c) ==
    /\ tx[c].op = "scan"
    /\ LET ids == Candidates(tx[c].seen, db.dim) IN
       IF ids # {} THEN Continue(c, Loading(tx[c].from, ids)) ELSE Done(c, FALSE)
    /\ UNCHANGED <<db, hist>>

\* Mode "incremental": one round without the lock.
Incremental(c) == Begin(c, ScanSource(c, "incremental")) /\ UNCHANGED <<db, hist>>

LockFree == db.lock = NoConn

TakeLock(c) == db' = [db EXCEPT !.lock = c] /\ hist' = [hist EXCEPT !.expired = @ \ {c}]

\* reconcile_user_dim_periodic: SET NX with a token; taken means skipped.
ReconcilePeriodic(c, from) ==
    /\ LockFree
    /\ Begin(c, ScanSource(c, from))
    /\ TakeLock(c)

\* Without Redis there is no lock.
ReconcileUnlocked(c, from) == Begin(c, ScanSource(c, from)) /\ UNCHANGED <<db, hist>>

\* The cron handler: the flow if it can be triggered, else one round here.
ReconcileUserDim(c) ==
    \/ \E from \in Locked : ReconcilePeriodic(c, from)
    \/ \E from \in Unlocked : ReconcileUnlocked(c, from)

\* orchestrate_user_dim: a full round is followed by another.
NextRound(c) ==
    /\ tx[c].op = "round"
    /\ \/ LockFree /\ Continue(c, ScanSource(c, "flow")) /\ TakeLock(c)
       \/ ~LockFree /\ Finish(c) /\ UNCHANGED <<db, hist>>
       \/ Continue(c, ScanSource(c, "unlockedflow")) /\ UNCHANGED <<db, hist>>

\* Those that took the lock.
Running == {c \in Conns : tx[c].op = "release" \/ (tx[c].op \in {"scan", "sync"} /\ tx[c].from \in Locked)}

\* The lock lives an hour, also when its holder is gone.
LockExpires ==
    /\ ~LockFree
    /\ db' = [db EXCEPT !.lock = NoConn]
    /\ hist' = [hist EXCEPT !.expired = @ \cup (Running \cap {db.lock})]
    /\ UNCHANGED <<tx, left>>

\* The release compares the token, then deletes.
Mine(c) == db.lock = c

ReleaseGet(c) ==
    /\ tx[c].op = "release" /\ tx[c].at = "get"
    /\ Continue(c, [tx[c] EXCEPT !.at = IF Mine(c) THEN "del" ELSE "end"])
    /\ UNCHANGED <<db, hist>>

\* Another reconciler loses its lock when ours expired between the two.
ReleaseDel(c) ==
    /\ tx[c].op = "release" /\ tx[c].at \in {"del", "end"}
    /\ db' = [db EXCEPT !.lock = IF tx[c].at = "del" THEN NoConn ELSE @]
    /\ hist' = [hist EXCEPT !.expired =
         IF tx[c].at = "del" /\ c \in @ THEN @ \cup (Running \cap {db.lock}) ELSE @]
    /\ IF tx[c].again THEN Continue(c, [op |-> "round"]) ELSE Finish(c)

\* Redis is lost before the release: the lock stays, the job fails.
ReleaseFails(c) == tx[c].op = "release" /\ Finish(c) /\ UNCHANGED <<db, hist>>

Next ==
    \/ \E c \in Conns, u \in Users : FlushUser(c, u) \/ ChangeProfile(c, u) \/ RefreshUserDimEvent(c, u)
    \/ \E c \in Conns :
         \/ SyncIds(c, Users)
         \/ CommitUser(c) \/ LoadSourceRows(c) \/ StampRows(c) \/ UpsertDimRows(c) \/ SyncFails(c) \/ ScanDim(c)
         \/ Incremental(c) \/ ReconcileUserDim(c) \/ NextRound(c)
         \/ ReleaseGet(c) \/ ReleaseDel(c) \/ ReleaseFails(c)
    \/ LockExpires

Spec == Init /\ [][Next]_vars

----------------------------------------------------------------------------

\* The safety net: a copy that misses a change of the users row is found by
\* the next scan, whether or not its event was lost, unless the change was
\* committed, or already flushed, between the read and the stamp of the rows.
NetCatches ==
    \A u \in Users : ~Missing(u) /\ db.dim[u].v # db.src[u].v
        => Stale(db.src[u].at, db.dim[u]) \/ u \in hist.masked

\* The event of the last change of the profile is due, or its consumer is
\* still to read the profile or has read it as it is.
Announced(u) ==
    \/ db.events[u] > 0
    \/ \E c \in Open("sync") :
         /\ tx[c].from = "event" /\ u \in tx[c].ids
         /\ tx[c].at = "load" \/ tx[c].rows[u].p = db.src[u].p

\* A change of the profile reaches the copy by its event alone: the copy
\* misses it only while it is announced, and for good when the consumer
\* failed or an older copy was written over a newer one.
ProfilesArrive ==
    \A u \in Users : ~Missing(u) /\ db.dim[u].p # db.src[u].p
        => Announced(u) \/ u \in hist.unsent \/ u \in hist.older

\* Reconcilers that took the lock run one at a time, except after an hour:
\* each still has the lock that it took.
OneReconciler == \A c \in Running : db.lock = c \/ c \in hist.expired

DimSound == NetCatches /\ ProfilesArrive /\ OneReconciler

=============================================================================

------------------------------- MODULE StarHope -------------------------------
(***************************************************************************)
(* StarHope: the devices of a user synchronise entities through push and   *)
(* pull.  A push carries the device's own time of each change and is       *)
(* merged by last write wins; a pull asks for what changed after a cursor, *)
(* which is the server's time at the start of the previous pull.  One      *)
(* entity is modelled; all clocks agree.  What a device does with an       *)
(* answer is not in this repository: it takes what is not older than its   *)
(* own copy.                                                               *)
(***************************************************************************)
EXTENDS Requests

CONSTANTS
    Devices,    \* each uses its own connection: Devices \subseteq Conns
    MaxNow      \* bound on the clock

\* A row or a device's copy of it: when it was changed, the change (0 for
\* none) and whether it is deleted.
None == [at |-> 0, val |-> 0, gone |-> TRUE]

Same(a, b) == a.gone = b.gone /\ (a.gone \/ a.val = b.val)

Init ==
    /\ db = [now |-> 1, row |-> None, copy |-> [d \in Devices |-> None],
             born |-> FALSE, dirty |-> {}, since |-> [d \in Devices |-> 0]]
    /\ hist = [newest |-> 0, crossed |-> FALSE, late |-> {}]
    /\ Resting

\* Time passes.
Tick ==
    /\ db.now < MaxNow
    /\ db' = [db EXCEPT !.now = @ + 1]
    /\ UNCHANGED <<tx, hist, left>>

\* The user creates the entity on one device, or changes or deletes it on
\* any that has it.
Change(d, gone) ==
    /\ tx[d] = Idle
    /\ left > 0 /\ left' = left - 1
    /\ IF db.born THEN db.copy[d] # None ELSE ~gone
    /\ gone => ~db.copy[d].gone
    /\ db' = [db EXCEPT !.born = TRUE, !.copy[d] = [at |-> db.now, val |-> left, gone |-> gone], !.dirty = @ \cup {d}]
    /\ UNCHANGED <<tx, hist>>

----------------------------------------------------------------------------
(* push_entity *)

\* An upsert wins over what is not newer, a delete over what is older; there
\* is nothing to delete in an absent row.
Accepted(row, w) ==
    IF row = None THEN ~w.gone ELSE IF w.gone THEN w.at > row.at ELSE w.at >= row.at

\* The row as the ORM writes it: a changed row whose updated_at was set to
\* the value it had gets the server's time (onupdate).
Stamped(row, w) == IF w.at = row.at /\ w # row THEN [w EXCEPT !.at = db.now] ELSE w

\* The rows are read without a lock.
BeginPush(d) ==
    /\ d \in db.dirty /\ tx[d] = Idle
    /\ Continue(d, [op |-> "push", row |-> db.row, w |-> db.copy[d]])
    /\ UNCHANGED <<db, hist>>

\* The server's time up to which a device has been told everything.
Reached(d) == IF tx[d].op = "pull" /\ tx[d].cursor > db.since[d] THEN tx[d].cursor ELSE db.since[d]

\* flush and commit.  Two inserts of one key: the second fails.
CommitPush(d) ==
    /\ tx[d].op = "push"
    /\ LET row == tx[d].row
           w   == tx[d].w
           new == Stamped(row, w) IN
       /\ row = None /\ Accepted(row, w) => db.row = None
       /\ IF Accepted(row, w)
          THEN /\ db' = [db EXCEPT !.row = new, !.dirty = @ \ {d},
                            !.copy[d] = [new EXCEPT !.at = w.at]]
               /\ hist' = [hist EXCEPT !.crossed = @ \/ row # db.row,
                             !.newest = IF new.at > @ THEN new.at ELSE @,
                             !.late = @ \cup {o \in Devices : new.at <= Reached(o)}]
          ELSE /\ db' = [db EXCEPT !.dirty = @ \ {d}]
               /\ hist' = [hist EXCEPT !.late = IF w.at = row.at THEN @ \cup {d} ELSE @]
    /\ Finish(d)

PushFails(d) == tx[d].op = "push" /\ Fail(d)

----------------------------------------------------------------------------
(* pull_entity *)

\* The cursor of an answer; it is taken before the rows are read.
BeginPull(d) ==
    /\ Begin(d, [op |-> "pull", cursor |-> db.now, got |-> None, read |-> FALSE])
    /\ UNCHANGED <<db, hist>>

\* list_changed, list_tombstones.
Changed(row, since) == row # None /\ row.at > since

ReadChanged(d) ==
    /\ tx[d].op = "pull" /\ ~tx[d].read
    /\ Continue(d, [tx[d] EXCEPT !.read = TRUE,
                                 !.got = IF Changed(db.row, db.since[d]) THEN db.row ELSE None])
    /\ UNCHANGED <<db, hist>>

\* Faulty variant of Cursor: the time when the answer is sent.
CursorAtEnd(d) == db.now

Cursor(d) == tx[d].cursor

\* The device takes the answer and its cursor.
Apply(d) ==
    /\ tx[d].op = "pull" /\ tx[d].read
    /\ LET take == tx[d].got # None /\ tx[d].got.at >= db.copy[d].at IN
       /\ db' = [db EXCEPT !.since[d] = Cursor(d),
                           !.copy[d] = IF take THEN tx[d].got ELSE @,
                           !.dirty = IF take THEN @ \ {d} ELSE @]
       /\ hist' = [hist EXCEPT !.late = IF Same(db'.copy[d], db.row) THEN @ \ {d} ELSE @]
    /\ Finish(d)

PullFails(d) == tx[d].op = "pull" /\ Fail(d)

Next ==
    \/ Tick
    \/ \E d \in Devices :
        \/ \E gone \in BOOLEAN : Change(d, gone)
        \/ BeginPush(d) \/ CommitPush(d) \/ PushFails(d)
        \/ BeginPull(d) \/ ReadChanged(d) \/ Apply(d) \/ PullFails(d)

Spec == Init /\ [][Next]_vars

----------------------------------------------------------------------------

\* The last write wins: the row is the newest change that any push brought,
\* a deletion included, unless two pushes overlapped.
NewestKept == hist.crossed \/ db.row.at = hist.newest

\* A device without changes of its own either agrees with the server or gets
\* the row in its next pull, or the change reached the server after the
\* device's cursor had passed the time stamped on it, its deletion was of
\* the same instant as the row, or two pushes overlapped.
NothingMissed ==
    \A d \in Devices \ db.dirty :
        \/ Same(db.copy[d], db.row)
        \/ Changed(db.row, db.since[d])
        \/ d \in hist.late \/ hist.crossed

StarHopeSound == NewestKept /\ NothingMissed

=============================================================================

---------------------------- MODULE Notifications ----------------------------
(***************************************************************************)
(* In-app notifications and the WebSocket gateway.  A consumer turns an    *)
(* event of the points topic into rows, merging it into an unread row of   *)
(* the same key while that is recent, commits, and only then publishes a   *)
(* frame per row through Redis.  Each API process holds its sockets in a   *)
(* table; one task subscribes to Redis and sends every frame to the        *)
(* sockets of its user and channel, one after the other.                   *)
(***************************************************************************)
EXTENDS Requests

CONSTANTS
    Author, Parent,     \* who wrote the item, and the comment replied to
    Sockets             \* WebSocket connections

\* The aggregation keys of one actor and one item.
Keys == {"content_commented", "comment_replied"}

Owner(k) == IF k = "content_commented" THEN Author ELSE Parent

Users == {Author, Parent}

Channels == {"upload", "notify"}

\* A socket that does not serve: not yet opened (fresh) or ended.
Ended(fresh) == [on |-> FALSE, fresh |-> fresh, user |-> Author, chans |-> {}]

Init ==
    /\ db = [rows |-> <<>>, due |-> {}, enabled |-> [k \in Keys |-> TRUE],
             sock |-> [s \in Sockets |-> Ended(TRUE)], table |-> {}, task |-> "none",
             wire |-> <<>>, sending |-> {}]
    /\ hist = [applied |-> [k \in Keys |-> 0], states |-> {}, readAs |-> {}, pushed |-> {},
               twice |-> FALSE, astray |-> FALSE, muted |-> {}]
    /\ Resting

----------------------------------------------------------------------------
(* The notification subscription *)

\* _resolve_targets: a comment concerns the author of the item, a reply also
\* the author of the comment it answers.
ResolveTargets(e) ==
    IF e = "reply" THEN <<"content_commented", "comment_replied">> ELSE <<"content_commented">>

Comment(c, e) ==
    /\ AtOnce(c)
    /\ db' = [db EXCEPT !.due = @ \cup {e}]
    /\ UNCHANGED hist

\* notify_from_point_event begins.
Resolve(c, e) ==
    /\ e \in db.due /\ tx[c] = Idle
    /\ \A o \in Conns : tx[o].op \in {"notify", "push"} => tx[o].event # e
    /\ Continue(c, [op |-> "notify", event |-> e, todo |-> ResolveTargets(e), made |-> <<>>])
    /\ UNCHANGED <<db, hist>>

Notifying == Open("notify")

\* Keys and rows that the open transaction on o has locked.
LockedKeys(o) == {tx[o].made[i].key : i \in DOMAIN tx[o].made}

\* Faulty variant of KeyFree: no advisory lock, no row lock.
KeyFreeEver(c, k) == TRUE

\* lock_aggregate_key: transactions of one key take turns.
KeyFree(c, k) == \A o \in Notifying \ {c} : k \notin LockedKeys(o)

\* find_recent_unread.
Recent(k) == {i \in DOMAIN db.rows : db.rows[i].key = k /\ ~db.rows[i].old /\ ~db.rows[i].read}

\* create_notification for the next target: the row to merge into (0 for a
\* new one), with its count, and the preference as it is now.
CreateNotification(c) ==
    /\ tx[c].op = "notify" /\ tx[c].todo # <<>>
    /\ LET k == Head(tx[c].todo) IN
       /\ KeyFree(c, k)
       /\ \E i \in IF Recent(k) = {} THEN {0} ELSE Recent(k) :
            Continue(c, [tx[c] EXCEPT !.todo = Tail(@), !.made = Append(@,
                [key |-> k, row |-> i, count |-> IF i = 0 THEN 1 ELSE db.rows[i].count + 1,
                 push |-> db.enabled[k]])])
    /\ UNCHANGED <<db, hist>>

\* The new rows among the first n that the request has made.
NewRows(made, n) == SelectSeq(SubSeq(made, 1, n), LAMBDA w : w.row = 0)

\* The row that the i-th write concerns, once it is committed.
RowOf(made, i) == IF made[i].row # 0 THEN made[i].row ELSE Len(db.rows) + Len(NewRows(made, i))

Merged(made) == [i \in DOMAIN db.rows |->
    IF \E j \in DOMAIN made : made[j].row = i
    THEN [db.rows[i] EXCEPT !.count = (CHOOSE w \in {made[j] : j \in DOMAIN made} : w.row = i).count]
    ELSE db.rows[i]]

Added(made) ==
    LET new == NewRows(made, Len(made)) IN
    [j \in DOMAIN new |-> [key |-> new[j].key, count |-> 1, read |-> FALSE, old |-> FALSE]]

Frame(made, i) == [user |-> Owner(made[i].key), chan |-> "notify", row |-> RowOf(made, i),
                   count |-> made[i].count]

CommitNotify(c) ==
    /\ tx[c].op = "notify" /\ tx[c].todo = <<>>
    /\ LET made == tx[c].made
           all  == [i \in DOMAIN made |-> [push |-> made[i].push, frame |-> Frame(made, i)]] IN
       /\ db' = [db EXCEPT !.rows = Merged(made) \o Added(made)]
       /\ hist' = [hist EXCEPT
            !.applied = [k \in Keys |-> IF k \in LockedKeys(c) THEN @[k] + 1 ELSE @[k]],
            !.states = @ \cup {<<all[i].frame.row, all[i].frame.count>> : i \in DOMAIN made}]
       /\ Continue(c, [op |-> "push", event |-> tx[c].event,
                       frames |-> SelectSeq(all, LAMBDA f : f.push)])

\* A deadlock, a lost connection, a crash: the event comes again.
NotifyFails(c) == tx[c].op = "notify" /\ Fail(c)

\* publish: Redis hands the frame to whoever is subscribed, or to nobody.
Publish(c) ==
    /\ tx[c].op = "push" /\ tx[c].frames # <<>>
    /\ LET f == Head(tx[c].frames).frame IN
       /\ \/ db' = [db EXCEPT !.wire = IF db.task = "up" THEN Append(@, f) ELSE @]
          \/ UNCHANGED db
       /\ hist' = [hist EXCEPT !.twice = @ \/ f \in hist.pushed, !.pushed = @ \cup {f}]
    /\ Continue(c, [tx[c] EXCEPT !.frames = Tail(@)])

\* record_processed; after a crash before it the event is applied again.
Processed(c) ==
    /\ tx[c].op = "push"
    /\ \/ tx[c].frames = <<>> /\ db' = [db EXCEPT !.due = @ \ {tx[c].event}]
       \/ left > 0 /\ UNCHANGED db
    /\ tx' = [tx EXCEPT ![c] = Idle]
    /\ left' = IF db' = db THEN left - 1 ELSE left
    /\ UNCHANGED hist

----------------------------------------------------------------------------
(* The user's own requests *)

Locked(i) == \E o \in Notifying : \E j \in DOMAIN tx[o].made : tx[o].made[j].row = i

\* mark_read: all unread rows of the user, or some of them.
MarkRead(c, u) ==
    /\ AtOnce(c)
    /\ \E S \in SUBSET {i \in DOMAIN db.rows : Owner(db.rows[i].key) = u /\ ~db.rows[i].read} :
         /\ S # {} /\ \A i \in S : ~Locked(i)
         /\ db' = [db EXCEPT !.rows = [i \in DOMAIN @ |-> IF i \in S THEN [@[i] EXCEPT !.read = TRUE] ELSE @[i]]]
         /\ hist' = [hist EXCEPT !.readAs = @ \cup {<<i, db.rows[i].count>> : i \in S}]

\* set_preferences.
SetPreferences(c, k) ==
    /\ AtOnce(c)
    /\ db' = [db EXCEPT !.enabled[k] = ~@]
    /\ UNCHANGED hist

\* The aggregation window of a row ends.
WindowEnds(i) ==
    /\ ~db.rows[i].old /\ left > 0 /\ left' = left - 1
    /\ ~Locked(i)
    /\ db' = [db EXCEPT !.rows[i].old = TRUE]
    /\ UNCHANGED <<tx, hist>>

----------------------------------------------------------------------------
(* Sockets *)

\* ws_events: authorised, then register and ensure_subscription.
Connect(c, s, u, chans) ==
    /\ db.sock[s].fresh
    /\ AtOnce(c)
    /\ db' = [db EXCEPT !.sock[s] = [on |-> TRUE, fresh |-> FALSE, user |-> u, chans |-> chans],
                        !.table = @ \cup {<<u, ch, s>> : ch \in chans},
                        !.task = IF @ = "none" THEN "down" ELSE @]
    /\ UNCHANGED hist

\* unregister: from every channel.
Unregistered(s) == {t \in db.table : t[3] # s}

\* The peer leaves, a ping fails, or a refresh is not of this user: the
\* endpoint ends.
Disconnect(s) ==
    /\ db.sock[s].on
    /\ db' = [db EXCEPT !.sock[s] = Ended(FALSE), !.table = Unregistered(s)]
    /\ UNCHANGED <<tx, hist, left>>

\* _sub_loop subscribes, and loses what was published when it must anew.
Subscribe ==
    /\ db.task = "down"
    /\ db' = [db EXCEPT !.task = "up"]
    /\ UNCHANGED <<tx, hist, left>>

SubscriptionLost ==
    /\ db.task = "up" /\ left > 0 /\ left' = left - 1
    /\ db' = [db EXCEPT !.task = "down", !.wire = <<>>, !.sending = {}]
    /\ UNCHANGED <<tx, hist>>

\* publish_upload_bound, from the worker that registered an upload.
PublishUpload(c, u) ==
    /\ db.task = "up"
    /\ AtOnce(c)
    /\ db' = [db EXCEPT !.wire = Append(@, [user |-> u, chan |-> "upload", row |-> 0, count |-> 0])]
    /\ UNCHANGED hist

Audience(f) == {t[3] : t \in {x \in db.table : x[1] = f.user /\ x[2] = f.chan}}

\* dispatch: the sockets are copied under the lock, then sent to one by one.
Dispatch ==
    /\ db.task = "up" /\ db.wire # <<>> /\ db.sending = {}
    /\ LET f == Head(db.wire) IN
       db' = [db EXCEPT !.wire = Tail(@), !.sending = {[s |-> s, f |-> f] : s \in Audience(f)}]
    /\ UNCHANGED <<tx, hist, left>>

\* One send.  It fails when the endpoint has ended, or in time: the socket
\* then leaves the table, while its endpoint goes on.
Send(m) ==
    /\ db.task = "up"
    /\ \/ /\ db.sock[m.s].on
          /\ db' = [db EXCEPT !.sending = @ \ {m}]
          /\ hist' = [hist EXCEPT !.astray = @ \/ m.f.user # db.sock[m.s].user
                                               \/ m.f.chan \notin db.sock[m.s].chans]
       \/ /\ db' = [db EXCEPT !.sending = @ \ {m}, !.table = Unregistered(m.s)]
          /\ hist' = [hist EXCEPT !.muted = IF db.sock[m.s].on THEN @ \cup {m.s} ELSE @]
    /\ UNCHANGED <<tx, left>>

Next ==
    \/ \E c \in Conns :
        \/ \E e \in {"comment", "reply"} : Comment(c, e) \/ Resolve(c, e)
        \/ CreateNotification(c) \/ CommitNotify(c) \/ NotifyFails(c) \/ Publish(c) \/ Processed(c)
        \/ \E u \in Users : MarkRead(c, u) \/ PublishUpload(c, u)
        \/ \E k \in Keys : SetPreferences(c, k)
        \/ \E s \in Sockets, u \in Users, chans \in {{"upload"}, Channels} : Connect(c, s, u, chans)
    \/ \E i \in DOMAIN db.rows : WindowEnds(i)
    \/ \E s \in Sockets : Disconnect(s)
    \/ Subscribe \/ SubscriptionLost \/ Dispatch
    \/ \E m \in db.sending : Send(m)

Spec == Init /\ [][Next]_vars

----------------------------------------------------------------------------

RowsOf(k) == {i \in DOMAIN db.rows : db.rows[i].key = k}

\* Every application of an event is counted in exactly one row: merging loses
\* none and counts none twice.  At most one row of a key can be merged into,
\* and the count of a row does not change once it was read.
CountsExact ==
    /\ \A k \in Keys : hist.applied[k] =
         Cardinality({<<i, n>> \in RowsOf(k) \X (1..MaxRequests) : n <= db.rows[i].count})
    /\ \A k \in Keys : Cardinality(Recent(k)) <= 1
    /\ \A r \in hist.readAs : db.rows[r[1]].count = r[2]

\* A frame shows a state that its row was committed in, and no event id
\* (row and count) is published twice.
FramesTrue == (\A f \in hist.pushed : <<f.row, f.count>> \in hist.states) /\ ~hist.twice

\* The table holds the channels of every open socket and nothing of a closed
\* one, except for sockets that a failed send removed; a frame reaches only
\* sockets of its user that asked for its channel.
SocketsServed ==
    /\ \A t \in db.table : db.sock[t[3]].on /\ db.sock[t[3]].user = t[1]
    /\ \A s \in Sockets \ hist.muted : \A ch \in db.sock[s].chans : <<db.sock[s].user, ch, s>> \in db.table
    /\ ~hist.astray

NotifySound == CountsExact /\ FramesTrue /\ SocketsServed

=============================================================================

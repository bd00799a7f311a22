------------------------------ MODULE ReadCache ------------------------------
(***************************************************************************)
(* The read-through cache of public pages in Redis, for one entry: an item *)
(* under a fixed key with an invalidation generation, or a list whose key  *)
(* holds the version of its collection.  Reads of one process share one    *)
(* flight; processes exclude each other by a lock that expires.  Writers   *)
(* invalidate inside their transaction, before it commits.  A connection   *)
(* stands for the flight of a process or for a writer.                     *)
(***************************************************************************)
EXTENDS Requests

CONSTANTS
    NoConn,
    MaxWaiters      \* bound on the readers of a process that share a flight

\* `value` counts the committed writes; `cache` holds 0 for nothing; `ver`:
\* collection_version; `token`: the generation, 0 when absent; `gens`: the
\* generations given out; `lock`: l2_lock's key.
Init ==
    /\ \E k \in {"item", "list"} :
         db = [kind |-> k, value |-> 1, cache |-> [v \in 0..MaxRequests |-> 0], ver |-> 0,
               token |-> 0, gens |-> 0, lock |-> NoConn]
    /\ hist = [early |-> FALSE, lost |-> FALSE, behind |-> FALSE]
    /\ Resting

\* cache_get, under the key of the moment.
CacheGet(v) == db.cache[v]

----------------------------------------------------------------------------
(* Writers *)

\* cache_invalidate: a new generation and the entry deleted, in one MULTI;
\* bump_collection_version: INCR.
Invalidated ==
    IF db.kind = "item"
    THEN [db EXCEPT !.gens = @ + 1, !.token = db.gens + 1, !.cache[0] = 0]
    ELSE [db EXCEPT !.ver = @ + 1]

\* The write has flushed, and invalidates; without Redis nothing happens.
Write(c) ==
    /\ Open("write") = {}
    /\ Begin(c, [op |-> "write"])
    /\ \/ db' = Invalidated /\ UNCHANGED hist
       \/ UNCHANGED db /\ hist' = [hist EXCEPT !.lost = TRUE]

\* A flight that will fill what it loaded before this commit.
Holding(o) == tx[o].op = "fill" /\ tx[o].mayFill /\ tx[o].token = db.token /\ tx[o].ver = db.ver

\* Between the invalidation and the commit the old value came back.
CommitWrite(c) ==
    /\ tx[c].op = "write"
    /\ db' = [db EXCEPT !.value = @ + 1]
    /\ hist' = [hist EXCEPT !.early = @ \/ CacheGet(db.ver) # 0 \/ \E o \in Conns : Holding(o)]
    /\ Finish(c)

----------------------------------------------------------------------------
(* Readers *)

\* A miss opens a flight: `since` is the value committed when it began.
Miss(c) ==
    /\ CacheGet(db.ver) = 0
    /\ Begin(c, [op |-> "want", ver |-> db.ver, since |-> db.value, refs |-> 1])
    /\ UNCHANGED <<db, hist>>

\* A reader of the same process joins the flight, also one that is done and
\* not yet left; a waiter that is cancelled leaves it.
Flying(c) == tx[c].op \in {"want", "load", "fill", "done"}

Join(c) ==
    /\ Flying(c)
    /\ tx[c].refs < MaxWaiters /\ left > 0
    /\ tx' = [tx EXCEPT ![c].refs = @ + 1]
    /\ left' = left - 1
    /\ UNCHANGED <<db, hist>>

Cancel(c) ==
    /\ Flying(c) /\ tx[c].op # "done"
    /\ tx[c].refs > 0
    /\ Continue(c, [tx[c] EXCEPT !.refs = @ - 1])
    /\ UNCHANGED <<db, hist>>

\* The flight is dropped from the table by the last to leave, or by the task
\* when everyone has left before.
Land(c, value) ==
    /\ hist' = [hist EXCEPT !.behind = @ \/ value < tx[c].since]
    /\ IF tx[c].refs = 0 THEN Finish(c) ELSE Continue(c, [op |-> "done", refs |-> tx[c].refs, value |-> value])

Leave(c) ==
    /\ tx[c].op = "done"
    /\ IF tx[c].refs = 1 THEN Finish(c) ELSE Continue(c, [tx[c] EXCEPT !.refs = @ - 1])
    /\ UNCHANGED <<db, hist>>

\* l2_lock taken, or given up on (`held` FALSE: no fill); then the entry is
\* read again, and the generation.
Acquire(c) ==
    /\ tx[c].op = "want"
    /\ \E held \in {FALSE} \cup {x \in {TRUE} : db.lock = NoConn} :
         LET d == IF held THEN [db EXCEPT !.lock = c] ELSE db
             r == tx[c]
         IN  IF CacheGet(r.ver) # 0
             THEN UNCHANGED db /\ Land(c, CacheGet(r.ver))
             ELSE /\ db' = d
                  /\ Continue(c, [op |-> "load", ver |-> r.ver, since |-> r.since, refs |-> r.refs,
                                  mayFill |-> held, token |-> db.token])
                  /\ UNCHANGED hist

\* The loader reads what is committed.
Load(c) ==
    LET r == tx[c] IN
    /\ r.op = "load"
    /\ Continue(c, [op |-> "fill", ver |-> r.ver, since |-> r.since, refs |-> r.refs,
                    mayFill |-> r.mayFill, token |-> r.token, value |-> db.value])
    /\ UNCHANGED <<db, hist>>

Release(c) == IF db.lock = c THEN NoConn ELSE db.lock

\* Faulty variant of MayFill: the generation is not compared.
MayFillEver(r) == r.mayFill /\ CacheGet(r.ver) = 0

\* _set_if_not_invalidated: the generation is the one read before loading and
\* nobody else has filled, in one WATCH/MULTI.
MayFill(r) == r.mayFill /\ db.token = r.token /\ CacheGet(r.ver) = 0

\* Redis may refuse the SET.
Fill(c) ==
    LET r == tx[c] IN
    /\ r.op = "fill"
    /\ \E ok \in BOOLEAN :
         db' = [db EXCEPT !.lock = Release(c), !.cache[r.ver] = IF MayFill(r) /\ ok THEN r.value ELSE @]
    /\ Land(c, r.value)

----------------------------------------------------------------------------
(* Time *)

\* TTL of the entry, and of the lock.
ExpireEntry ==
    /\ CacheGet(db.ver) # 0
    /\ db' = [db EXCEPT !.cache[db.ver] = 0]
    /\ UNCHANGED <<tx, hist, left>>

ExpireLock == db.lock # NoConn /\ db' = [db EXCEPT !.lock = NoConn] /\ UNCHANGED <<tx, hist, left>>

\* The generation lives as long as a loader may take to fill: when it is
\* gone, loaders that started before it was set are too old.
Aged(r) == r.op \in {"load", "fill"} /\ r.token # db.token

ExpireGuard ==
    /\ db.token # 0
    /\ db' = [db EXCEPT !.token = 0]
    /\ tx' = [c \in Conns |-> IF Aged(tx[c]) THEN [tx[c] EXCEPT !.mayFill = FALSE] ELSE tx[c]]
    /\ UNCHANGED <<hist, left>>

----------------------------------------------------------------------------

Next ==
    \/ \E c \in Conns :
         \/ Write(c) \/ CommitWrite(c)
         \/ Miss(c) \/ Join(c) \/ Cancel(c) \/ Leave(c) \/ Acquire(c) \/ Load(c) \/ Fill(c)
         \/ tx[c].op = "write" /\ Fail(c)
    \/ ExpireEntry \/ ExpireLock \/ ExpireGuard

Spec == Init /\ [][Next]_vars

----------------------------------------------------------------------------

\* A hit is what is committed, unless Redis missed an invalidation or the old
\* value came back between an invalidation and its commit: nothing else, in
\* particular no loader that crossed an invalidation, leaves an old entry.
HitsFresh == CacheGet(db.ver) # 0 => CacheGet(db.ver) = db.value \/ hist.early \/ hist.lost

\* A flight never brings less than was committed when it began, with the same
\* two exceptions.
FlightsFresh == hist.behind => hist.early \/ hist.lost

\* Flights do not leak: an entry of the table has a waiter or a running task.
NoLeak == \A c \in Conns : tx[c].op = "done" => tx[c].refs > 0

CacheSound == HitsFresh /\ FlightsFresh /\ NoLeak

=============================================================================

----------------------------- MODULE IdWhitelist -----------------------------
(***************************************************************************)
(* The Bloom filter of user ids in Redis: an id that is not in the bitmap  *)
(* is refused without a look-up, once a complete scan of the users table   *)
(* has set the mark `seeded`.  Redis keeps nothing over a restart.         *)
(***************************************************************************)
EXTENDS Requests

CONSTANTS MaxId     \* ids are 1..MaxId, in the order of the scan

Ids == 1..MaxId

\* _positions: the bits of an id; two ids may share some.
Positions(i) == {i, i + 1}

Init ==
    /\ \E users \in {{}, {1}} : db = [users |-> users, bits |-> {}, seeded |-> FALSE]
    /\ hist = [unadded |-> {}]
    /\ Resting

\* add, add_many: SETBITs; they fail without an error when Redis is away.
Add(S) == db' = [db EXCEPT !.bits = @ \cup UNION {Positions(i) : i \in S}]

Owed(S) == hist' = [hist EXCEPT !.unadded = @ \cup S]
Paid(S) == hist' = [hist EXCEPT !.unadded = @ \ S]

----------------------------------------------------------------------------
(* New users *)

Unused(i) == i \notin db.users /\ \A c \in Conns : tx[c].op \in {"user", "demo"} => tx[c].id # i

\* create_user_with_profile adds the id before the request commits.
CreateUser(c, i) ==
    /\ Unused(i)
    /\ Begin(c, [op |-> "user", id |-> i])
    /\ \/ Add({i}) /\ Paid({i})
       \/ UNCHANGED db /\ Owed({i})

CommitUser(c) ==
    /\ tx[c].op = "user"
    /\ db' = [db EXCEPT !.users = @ \cup {tx[c].id}]
    /\ Finish(c)
    /\ UNCHANGED hist

\* ensure_demo_user commits first; scripts of the operators never add.
EnsureDemoUser(c, i) ==
    /\ Unused(i)
    /\ Begin(c, [op |-> "demo", id |-> i])
    /\ db' = [db EXCEPT !.users = @ \cup {i}]
    /\ Owed({i})

AddDemoUser(c) ==
    /\ tx[c].op = "demo"
    /\ \/ Add({tx[c].id}) /\ Paid({tx[c].id})
       \/ UNCHANGED <<db, hist>>
    /\ Finish(c)

----------------------------------------------------------------------------
(* backfill_user_ids: at the start of the auth process and every day *)

Seed(c) ==
    /\ Open("seed") \cup Open("mark") = {}
    /\ Begin(c, [op |-> "seed", cursor |-> 0, total |-> 0])
    /\ UNCHANGED <<db, hist>>

After(k) == {i \in db.users : i > k}

\* A page of one id; a page that is not written ends the scan.
SeedPage(c) ==
    /\ tx[c].op = "seed"
    /\ \E i \in After(tx[c].cursor) :
         /\ \A j \in After(tx[c].cursor) : i <= j
         /\ Add({i}) /\ Paid({i})
         /\ Continue(c, [op |-> "seed", cursor |-> i, total |-> tx[c].total + 1])

\* Every page was written.  An empty table is not marked.
LastPage(c) ==
    /\ tx[c].op = "seed"
    /\ After(tx[c].cursor) = {}
    /\ IF tx[c].total > 0 THEN Continue(c, [op |-> "mark"]) ELSE Finish(c)
    /\ UNCHANGED <<db, hist>>

\* A call of its own: users may have come, and Redis may have restarted.
MarkSeeded(c) ==
    /\ tx[c].op = "mark"
    /\ db' = [db EXCEPT !.seeded = TRUE]
    /\ Finish(c)
    /\ UNCHANGED hist

\* bloom_filter_seed_ttl_s passes; the operators clear the mark.
ExpireSeeded == db.seeded /\ db' = [db EXCEPT !.seeded = FALSE] /\ UNCHANGED <<tx, hist, left>>

\* What an open scan or registration has added is gone with the rest.
Forgotten == UNION {CASE tx[c].op = "seed" -> {i \in db.users : i <= tx[c].cursor}
                      [] tx[c].op = "mark" -> db.users
                      [] tx[c].op = "user" -> {tx[c].id}
                      [] OTHER -> {} : c \in Conns}

RestartRedis ==
    /\ db.bits # {}
    /\ db' = [db EXCEPT !.bits = {}, !.seeded = FALSE]
    /\ Owed(Forgotten)
    /\ UNCHANGED <<tx, left>>

----------------------------------------------------------------------------

Next ==
    \/ \E c \in Conns :
         \/ \E i \in Ids : CreateUser(c, i) \/ EnsureDemoUser(c, i)
         \/ CommitUser(c) \/ AddDemoUser(c)
         \/ Seed(c) \/ SeedPage(c) \/ LastPage(c) \/ MarkSeeded(c)
         \/ Fail(c)
    \/ ExpireSeeded \/ RestartRedis

Spec == Init /\ [][Next]_vars

----------------------------------------------------------------------------

\* definitely_absent: some bit is 0, and the bitmap is marked complete.
DefinitelyAbsent(i) == db.seeded /\ ~(Positions(i) \subseteq db.bits)

\* A user that exists is refused only when its id was never added, or was
\* added by a scan or a registration that a restart of Redis cut in two.
NobodyRefused == \A i \in db.users : DefinitelyAbsent(i) => i \in hist.unadded

=============================================================================

------------------------------- MODULE Startup -------------------------------
(***************************************************************************)
(* Processes start together and each brings the schema up to date in the   *)
(* background, one at a time under a lock in Redis if Redis is there, and  *)
(* retries until it succeeds; only then is it ready.  A connection of      *)
(* Requests is a process here, a request one life of it.                   *)
(***************************************************************************)
EXTENDS Requests

CONSTANTS
    Tables,     \* tables of the metadata
    NoConn      \* nobody holds the lock

\* The channel is configured: create_all or alembic, for the database of the
\* business or of auth.  Under create_all some tables exist from an older
\* release and lack a column: the table may be too large for DDL at the
\* start, the column may be NOT NULL without a default.
Channels == {"create_all", "alembic", "auth_create_all", "auth_alembic"}
Alembic == db.channel \in {"alembic", "auth_alembic"}

Init ==
    /\ \E channel \in Channels, old, large, hard \in SUBSET Tables :
         /\ large \cup hard \subseteq old
         /\ channel # "create_all" => large \cup hard = {}
         /\ channel \notin {"create_all", "auth_create_all"} => old = {}
         /\ db = [channel |-> channel, tables |-> old, columns |-> {}, large |-> large, hard |-> hard, warned |-> {},
                  head |-> FALSE, shared |-> FALSE, caggs |-> FALSE, seeded |-> FALSE,
                  lock |-> NoConn, ready |-> {}]
    /\ hist = [unlocked |-> {}]
    /\ Resting

\* _create_auth_all runs without the lock.
Locks == db.channel # "auth_create_all"
At(c, s) == tx[c].op = "boot" /\ tx[c].at = s
Go(c, s) == Continue(c, [tx[c] EXCEPT !.at = s])
Booting(at, held, saw, failed) == [op |-> "boot", at |-> at, held |-> held, saw |-> saw, failed |-> failed]

----------------------------------------------------------------------------
(* A process begins *)

\* core.secrets_bootstrap: the command is executed when the secrets were
\* fetched or are not required; a process that may not start is left out.
Bootstrap(c) ==
    /\ Begin(c, Booting("lock", FALSE, {}, FALSE))
    /\ db' = [db EXCEPT !.ready = @ \ {c}]
    /\ UNCHANGED hist

\* acquire_migration_lock: SET NX; without Redis the process goes on.
AcquireMigrationLock(c) ==
    /\ At(c, "lock")
    /\ \/ Locks /\ db.lock = NoConn
          /\ db' = [db EXCEPT !.lock = c]
          /\ hist' = [hist EXCEPT !.unlocked = @ \ {c}]
          /\ Continue(c, Booting("schema", TRUE, {}, FALSE))
       \/ Go(c, "schema") /\ UNCHANGED db /\ hist' = [hist EXCEPT !.unlocked = @ \cup {c}]
       \/ Locks /\ db.lock # NoConn /\ Go(c, "waiting") /\ UNCHANGED <<db, hist>>

\* The poll finds it free; after two minutes the process goes on without.
WaitForLock(c) ==
    /\ At(c, "waiting")
    /\ IF db.lock = NoConn
       THEN Continue(c, Booting("schema", TRUE, {}, FALSE)) /\ db' = [db EXCEPT !.lock = c]
                /\ hist' = [hist EXCEPT !.unlocked = @ \ {c}]
       ELSE Go(c, "schema") /\ UNCHANGED db /\ hist' = [hist EXCEPT !.unlocked = @ \cup {c}]

\* _renew_loop fails for as long as the lock lives, or Redis restarts.
LockExpires ==
    /\ db.lock # NoConn
    /\ db' = [db EXCEPT !.lock = NoConn]
    /\ hist' = [hist EXCEPT !.unlocked = @ \cup {db.lock}]
    /\ UNCHANGED <<tx, left>>

\* _delete_if_owner, under WATCH.
Mine(c) == db.lock = c

Released(c, d) == IF tx[c].held /\ Mine(c) THEN [d EXCEPT !.lock = NoConn] ELSE d

----------------------------------------------------------------------------
(* The schema *)

\* ensure_shared_objects: what another process made meanwhile is accepted.
\* create_all then looks for the tables that are missing (checkfirst).
EnsureSharedObjects(c) ==
    /\ At(c, "schema") /\ ~Alembic
    /\ Continue(c, Booting("create", tx[c].held, Tables \ db.tables, FALSE))
    /\ UNCHANGED <<db, hist>>

\* _run_upgrade reads the version, in a thread of its own.
RunUpgrade(c) ==
    /\ At(c, "schema") /\ Alembic
    /\ Continue(c, Booting("upgrade", tx[c].held, IF db.head THEN {} ELSE Tables, FALSE))
    /\ UNCHANGED <<db, hist>>

\* A table that came into being meanwhile is DuplicateTable.
Collides(c) == tx[c].saw \cap db.tables # {}

\* _sync_additive_schema raises when a large table lacks its column, ...
TooLarge(missing) == (db.large \ missing) \ db.columns # {}

\* ... passes over a column that it cannot add, and adds the others.
Additive(missing) == (Tables \ missing) \ (db.hard \cup db.large)

\* scripts/online_ddl.py: an operator adds the column to a large table, fills
\* it batch by batch and is told when a row is left without a value.
AddColumnOnline(c, t) ==
    /\ t \in db.large
    /\ AtOnce(c)
    /\ db' = [db EXCEPT !.columns = @ \cup {t}, !.hard = @ \ {t}]
    /\ UNCHANGED hist

\* The transaction of _create_all: tables (with their columns), columns,
\* hypertables, each of the latter in a savepoint of its own: a column that
\* fails is warned of and left to the next start.
CreateAll(c) ==
    /\ At(c, "create")
    /\ ~Collides(c)
    /\ ~TooLarge(tx[c].saw)
    /\ \E failed \in SUBSET (Additive(tx[c].saw) \ db.columns) :
         db' = [db EXCEPT !.tables = Tables, !.shared = TRUE, !.warned = failed,
                          !.columns = @ \cup tx[c].saw \cup (Additive(tx[c].saw) \ failed)]
    /\ Go(c, IF db.channel = "create_all" THEN "caggs" ELSE "release")
    /\ UNCHANGED hist

\* 0001_initial creates every table with all its columns, without looking
\* whether one is there.
Migrated(d) == [d EXCEPT !.tables = Tables, !.shared = TRUE, !.columns = Tables, !.head = TRUE]

\* The transaction of the migrations.
Upgrade(c) ==
    /\ At(c, "upgrade")
    /\ ~Collides(c)
    /\ db' = IF tx[c].saw = {} THEN db ELSE Migrated(db)
    /\ Go(c, IF db.channel = "alembic" THEN "caggs" ELSE "release")
    /\ UNCHANGED hist

\* _ensure_continuous_aggregates: a failed statement is logged, no more.
EnsureCaggs(c) ==
    /\ At(c, "caggs")
    /\ \/ db' = [db EXCEPT !.caggs = TRUE]
       \/ UNCHANGED db
    /\ Go(c, IF db.channel = "alembic" THEN "seed" ELSE "release")
    /\ UNCHANGED hist

\* The lock is given back, whether the schema was made or not; create_all
\* seeds after that, alembic before.
ReleaseLock(c) ==
    /\ At(c, "release")
    /\ db' = Released(c, db)
    /\ LET next == IF tx[c].failed THEN "lock" ELSE IF db.channel = "create_all" THEN "seed" ELSE "flag"
       IN Continue(c, Booting(next, FALSE, {}, FALSE))
    /\ UNCHANGED hist

\* _seed_base_data: ON CONFLICT DO NOTHING.
SeedBaseData(c) ==
    /\ At(c, "seed")
    /\ db' = [db EXCEPT !.seeded = TRUE]
    /\ Go(c, IF db.channel = "alembic" THEN "release" ELSE "flag")
    /\ UNCHANGED hist

\* Any of it raises: the lock is released and the loop tries again.
StepFails(c) ==
    /\ tx[c].op = "boot" /\ tx[c].at \in {"schema", "create", "upgrade", "caggs", "seed"}
    /\ IF tx[c].held THEN Continue(c, [tx[c] EXCEPT !.at = "release", !.failed = TRUE])
       ELSE Continue(c, Booting("lock", FALSE, {}, FALSE))
    /\ UNCHANGED <<db, hist>>

\* Faulty variant of Flagged: the flag is set by a failed attempt, too.
FlaggedEver(c) == At(c, "flag") \/ (At(c, "release") /\ tx[c].failed)

Flagged(c) == At(c, "flag")

\* init_db sets the flag that readiness reports.
SetInitialized(c) ==
    /\ Flagged(c)
    /\ db' = [db EXCEPT !.ready = @ \cup {c}]
    /\ Finish(c)
    /\ UNCHANGED hist

----------------------------------------------------------------------------
(* The end of a process *)

\* lifespan's end cancels the task: the lock is released at once.  A thread
\* that runs the migrations is not cancelled and goes on.
Shutdown(c) ==
    /\ tx[c].op = "boot"
    /\ db' = Released(c, db)
    /\ IF tx[c].at = "upgrade"
       THEN Continue(c, [op |-> "thread", saw |-> tx[c].saw]) /\ hist' = [hist EXCEPT !.unlocked = @ \cup {c}]
       ELSE Finish(c) /\ UNCHANGED hist

ThreadEnds(c) ==
    /\ tx[c].op = "thread"
    /\ \/ /\ ~Collides(c) /\ tx[c].saw # {}
          /\ db' = Migrated(db)
       \/ UNCHANGED db
    /\ Finish(c)
    /\ UNCHANGED hist

\* A crash leaves the lock to expire.
Crash(c) ==
    /\ tx[c].op = "boot" \/ c \in db.ready
    /\ db' = [db EXCEPT !.ready = @ \ {c}]
    /\ Finish(c)
    /\ UNCHANGED hist

Next ==
    \/ \E c \in Conns :
         \/ Bootstrap(c) \/ (\E t \in Tables : AddColumnOnline(c, t)) \/ AcquireMigrationLock(c) \/ WaitForLock(c)
         \/ EnsureSharedObjects(c) \/ RunUpgrade(c) \/ CreateAll(c) \/ Upgrade(c) \/ EnsureCaggs(c)
         \/ ReleaseLock(c) \/ SeedBaseData(c) \/ StepFails(c) \/ SetInitialized(c)
         \/ Shutdown(c) \/ ThreadEnds(c) \/ Crash(c)
    \/ LockExpires

Spec == Init /\ [][Next]_vars

----------------------------------------------------------------------------

\* A process that reports ready has every table and every column that its
\* code reads (but for those it warned of), and the default grants, whatever
\* failed, raced or crashed on the way; a table too large to be changed
\* keeps it from being ready.
ReadyComplete ==
    db.ready # {} => /\ db.tables = Tables /\ db.shared
                     /\ db.columns = Tables \ (db.hard \cup db.warned)
                     /\ db.channel \in {"create_all", "alembic"} => db.seeded

Migrating == {c \in Conns : tx[c].op = "thread" \/ At(c, "create") \/ At(c, "upgrade")}

\* Two processes change the schema together only where the lock gave way:
\* it was not there, was waited for in vain, ran out, or a migration was
\* left behind by the process that started it.
OneMigrator == Cardinality(Migrating \ hist.unlocked) <= 1

\* Who runs under the lock has it, and nobody else takes it away.
HolderHolds == \A c \in Conns : tx[c].op = "boot" /\ tx[c].held => db.lock = c \/ c \in hist.unlocked

StartupSound == ReadyComplete /\ OneMigrator /\ HolderHolds

=============================================================================

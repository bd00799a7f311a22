--------------------------- MODULE UserSnapCache ---------------------------
(***************************************************************************)
(* The read-through cache of one user's snapshot, `user:snap:{id}`:        *)
(* core/user_cache.py, core/local_cache.py, core/user_cache_events.py, the *)
(* loader in auth/snapshot.py and the invalidation that auth/events.py     *)
(* sends and auth/tasks.py runs.                                           *)
(*                                                                         *)
(* A snapshot has a content c, numbered by the committed changes of the    *)
(* user and the profile, and a source version sv, which the code takes     *)
(* from User.updated_at: a change of the profile alone gives a new content *)
(* with the same sv.  Content 0 with sv 0 stands for "no such user"; in    *)
(* Redis it is the negative entry, which never enters an L1 cache.         *)
(*                                                                         *)
(* A reader is one run of _load_user_snapshot: a coroutine of an API       *)
(* process that can be overtaken at every await.  The look-up that         *)
(* get_user_snapshot makes before it is the same read, so a reader that    *)
(* ends with a hit stands for it, and so does the part that a batch        *)
(* (read_snaps_state, _load_batch_uncached) has in this user.              *)
(***************************************************************************)
EXTENDS Integers, TLC

CONSTANTS
  Procs,            \* API processes, each with an L1 cache
  Readers,          \* coroutines
  ProcOf,           \* the process a coroutine belongs to
  None,             \* a key that is not there
  MaxVersion,       \* bound: committed versions of the user
  MaxEvents,        \* bound: changing requests
  MaxFaults,        \* bound: Redis restarts, failing calls, dying workers
  MaxCas,           \* _MAX_CAS_RETRY, 8 in the code
  Stamp             \* distance of two microsecond stamps, above any INCR count

ASSUME SizesAssumption ==
  /\ MaxVersion \in Nat \ {0} /\ MaxEvents \in Nat /\ MaxFaults \in Nat
  /\ MaxCas \in Nat \ {0}
  /\ Stamp \in Nat /\ Stamp > MaxEvents + 1
  /\ None \notin [c : Nat, sv : Nat]
ASSUME ProcOfAssumption == ProcOf \in [Readers -> Procs]

VARIABLES
  db,        \* committed content and source version in the auth database
  tx,        \* the request changing the user: "idle", "open" or "sent"
  events,    \* invalidation events committed to the outbox, not yet handled
  sent,      \* requests so far (bounds the model)
  worker,    \* invalidate_user_snap: "idle" or "publish"
  snap,      \* Redis: the snapshot, or None
  epoch,     \* Redis: the invalidation epoch, 0 when the key is absent
  clock,     \* microsecond stamps handed out to initialise the epoch
  restarts,  \* Redis restarts so far
  faults,    \* failures so far
  l1,        \* per process: the snapshot in its own cache, or None
  bcast,     \* per process: published invalidations it has not received
  reader,    \* per coroutine: where it is and what it holds
  floor,     \* history: the content of db at the last invalidation done in Redis
  l1floor    \* history, per process: the same for the last one it has heard of

writer == <<db, tx, events, sent>>
redis  == <<snap, epoch, clock, restarts>>
vars   == <<db, tx, events, sent, worker, snap, epoch, clock, restarts,
            faults, l1, bcast, reader, floor, l1floor>>

Versions == 0 .. MaxVersion
Snaps    == {s \in [c : Versions, sv : Versions] : s.sv <= s.c /\ (s.c = 0 <=> s.sv = 0)}
Missing  == [c |-> 0, sv |-> 0]

(* The awaits of read_snap_state, current_epoch and write_if_newer.        *)
Steps == {"idle", "get", "got", "epoch", "init", "reget", "fetch", "watch",
          "decide", "exec", "written"}

(* same  : no l1_delete in this process since the revision was captured    *)
(* got   : the reply of the snapshot GET                                   *)
(* cap   : expected_epoch;   ver : the source version fetched              *)
(* cur   : the epoch and snapshot read under WATCH                         *)
(* clean : the watched keys have not been touched since                    *)
(* tries : attempts of the WATCH/MULTI loop                                *)
Idle == [at |-> "idle", same |-> TRUE, got |-> None, cap |-> 0, ver |-> Missing,
         cur |-> [epoch |-> 0, snap |-> None], clean |-> TRUE, tries |-> 0]

Init ==
  /\ db = Missing /\ tx = "idle" /\ events = 0 /\ sent = 0 /\ worker = "idle"
  /\ snap = None /\ epoch = 0 /\ clock = 0
  /\ restarts = 0 /\ faults = 0
  /\ l1 = [p \in Procs |-> None]
  /\ bcast = [p \in Procs |-> {}]
  /\ reader = [r \in Readers |-> Idle]
  /\ floor = 0 /\ l1floor = [p \in Procs |-> 0]

-----------------------------------------------------------------------------
(* Every write to a watched key aborts the transactions watching it.       *)
Watching == {r \in Readers : reader[r].at \in {"decide", "exec"}}
Touched ==
  [r \in Readers |-> IF r \in Watching THEN [reader[r] EXCEPT !.clean = FALSE]
                                       ELSE reader[r]]
TouchedBut(r, new) == [Touched EXCEPT ![r] = new]

(* l1_delete bumps the revision that the coroutines of p compare with.     *)
Comparing(p) ==
  {r \in Readers : ProcOf[r] = p /\ reader[r].at \in {"get", "got", "exec", "written"}}
Forgotten(p) ==
  [r \in Readers |-> IF r \in Comparing(p) THEN [reader[r] EXCEPT !.same = FALSE]
                                           ELSE reader[r]]

Becomes(r, new) == reader' = [reader EXCEPT ![r] = new]

-----------------------------------------------------------------------------
(* create_user_with_profile: a new user sends no event; a negative entry   *)
(* ends with its short TTL.                                                *)
CreateUser ==
  /\ db = Missing
  /\ db' = [c |-> 1, sv |-> 1]
  /\ UNCHANGED <<tx, events, sent, worker, redis, l1, bcast, reader, floor, l1floor>>

(* The changing request: service code flushes the user row, sends the      *)
(* event through a session of its own, and get_auth_session commits (or    *)
(* rolls back) only after the endpoint has returned.                       *)
WriteUser ==
  /\ tx = "idle" /\ db # Missing /\ db.c < MaxVersion /\ sent < MaxEvents
  /\ tx' = "open"
  /\ sent' = sent + 1
  /\ UNCHANGED <<db, events, worker, redis, l1, bcast, reader, floor, l1floor>>

(* _enqueue_committed: failing to send is logged and ignored.              *)
NotifyUser ==
  /\ tx = "open"
  /\ tx' = "sent"
  /\ events' = events + 1
  /\ UNCHANGED <<db, sent, worker, redis, l1, bcast, reader, floor, l1floor>>

NotifyFails ==
  /\ tx = "open"
  /\ tx' = "sent"
  /\ UNCHANGED <<db, events, sent, worker, redis, l1, bcast, reader, floor, l1floor>>

(* Only a change of the user row itself moves updated_at.                  *)
CommitUser ==
  /\ tx = "sent"
  /\ tx' = "idle"
  /\ \E moved \in {0, 1} :
       db' = [c |-> db.c + 1, sv |-> db.sv + moved]
  /\ UNCHANGED <<events, sent, worker, redis, l1, bcast, reader, floor, l1floor>>

RollbackUser ==
  /\ tx = "sent"
  /\ tx' = "idle"
  /\ UNCHANGED <<db, events, sent, worker, redis, l1, bcast, reader, floor, l1floor>>

-----------------------------------------------------------------------------
(* user_cache.invalidate_user_snap in a worker: INCR epoch and DEL snap in *)
(* one transaction, then the broadcast.                                    *)
Invalidate ==
  /\ worker = "idle" /\ events > 0
  /\ epoch' = epoch + 1
  /\ snap' = None
  /\ floor' = db.c
  /\ reader' = Touched
  /\ worker' = "publish"
  /\ UNCHANGED <<writer, clock, restarts, l1, bcast, l1floor>>

(* A failing transaction is skipped silently and the event acknowledged.   *)
InvalidateSkips ==
  /\ worker = "idle" /\ events > 0
  /\ events' = events - 1
  /\ UNCHANGED <<db, tx, sent, worker, redis, l1, bcast, reader, floor, l1floor>>

(* publish_invalidate reaches the processes that are subscribed just now.  *)
PublishInvalidate ==
  /\ worker = "publish"
  /\ \E heard \in SUBSET Procs :
       bcast' = [p \in Procs |-> IF p \in heard THEN bcast[p] \cup {floor} ELSE bcast[p]]
  /\ worker' = "idle"
  /\ events' = events - 1
  /\ UNCHANGED <<db, tx, sent, redis, l1, reader, floor, l1floor>>

(* The worker dies before it acknowledges: the event is delivered again.   *)
WorkerDies ==
  /\ worker = "publish"
  /\ worker' = "idle"
  /\ UNCHANGED <<writer, redis, l1, bcast, reader, floor, l1floor>>

(* _sub_loop: delete the key from this process's own cache.                *)
Hear(p) ==
  /\ \E f \in bcast[p] :
       /\ bcast' = [bcast EXCEPT ![p] = @ \ {f}]
       /\ l1floor' = [l1floor EXCEPT ![p] = IF f > @ THEN f ELSE @]
  /\ l1' = [l1 EXCEPT ![p] = None]
  /\ reader' = Forgotten(p)
  /\ UNCHANGED <<writer, worker, redis, floor>>

(* Lazy expiry and LRU eviction of the L1 entry; TTL expiry in Redis.      *)
ExpireLocal(p) ==
  /\ l1[p] # None
  /\ l1' = [l1 EXCEPT ![p] = None]
  /\ UNCHANGED <<writer, worker, redis, bcast, reader, floor, l1floor>>

ExpireSnap ==
  /\ snap # None
  /\ snap' = None
  /\ UNCHANGED <<writer, worker, epoch, clock, restarts, l1, bcast, reader, floor, l1floor>>

(* Redis restarts empty.  redis-py turns a connection lost while watching  *)
(* into a WatchError.                                                      *)
RestartRedis ==
  /\ restarts' = restarts + 1
  /\ snap' = None /\ epoch' = 0
  /\ reader' = Touched
  /\ UNCHANGED <<writer, worker, clock, l1, bcast, floor, l1floor>>

-----------------------------------------------------------------------------
(* read_snap_state: an L1 hit returns at once and changes nothing; a miss  *)
(* captures the revision.                                                  *)
LocalHit(r) == reader[r].at = "idle" /\ l1[ProcOf[r]] # None /\ UNCHANGED vars

LocalMiss(r) ==
  /\ reader[r].at = "idle" /\ l1[ProcOf[r]] = None
  /\ Becomes(r, [Idle EXCEPT !.at = "get"])
  /\ UNCHANGED <<writer, worker, redis, l1, bcast, floor, l1floor>>

(* The GET of the snapshot; a failing GET counts as a miss.                *)
GetSnap(r) ==
  /\ reader[r].at = "get"
  /\ Becomes(r, [reader[r] EXCEPT !.at = "got", !.got = snap])
  /\ UNCHANGED <<writer, worker, redis, l1, bcast, floor, l1floor>>

GetFails(r) ==
  /\ reader[r].at = "get"
  /\ Becomes(r, [reader[r] EXCEPT !.at = "got"])
  /\ UNCHANGED <<writer, worker, redis, l1, bcast, floor, l1floor>>

(* Faulty variant of UseSnap: the L1 entry is set whatever happened while  *)
(* the reply was on its way.                                               *)
UseSnapUnchecked(r) ==
  LET g == reader[r].got IN
  /\ reader[r].at = "got" /\ g # None
  /\ l1' = IF g # Missing THEN [l1 EXCEPT ![ProcOf[r]] = g] ELSE l1
  /\ Becomes(r, Idle)
  /\ UNCHANGED <<writer, worker, redis, bcast, floor, l1floor>>

(* A hit in Redis; l1_set_if_unchanged mirrors a positive value when no    *)
(* invalidation was heard since and nobody else filled the entry.          *)
UseSnap(r) ==
  LET p == ProcOf[r]
      g == reader[r].got
  IN /\ reader[r].at = "got" /\ g # None
     /\ l1' = IF g # Missing /\ reader[r].same /\ l1[p] = None
                THEN [l1 EXCEPT ![p] = g] ELSE l1
     /\ Becomes(r, Idle)
     /\ UNCHANGED <<writer, worker, redis, bcast, floor, l1floor>>

MissSnap(r) ==
  /\ reader[r].at = "got" /\ reader[r].got = None
  /\ Becomes(r, [Idle EXCEPT !.at = "epoch"])
  /\ UNCHANGED <<writer, worker, redis, l1, bcast, floor, l1floor>>

-----------------------------------------------------------------------------
(* current_epoch: GET, and when the key is absent SET NX of a time stamp   *)
(* and GET again.                                                          *)
GetEpoch(r) ==
  /\ reader[r].at = "epoch"
  /\ Becomes(r, IF epoch = 0 THEN [reader[r] EXCEPT !.at = "init"]
                ELSE [reader[r] EXCEPT !.at = "fetch", !.cap = epoch])
  /\ UNCHANGED <<writer, worker, redis, l1, bcast, floor, l1floor>>

InitEpoch(r) ==
  /\ reader[r].at = "init"
  /\ IF epoch = 0
       THEN /\ clock' = clock + 1
            /\ epoch' = Stamp * clock'
            /\ reader' = TouchedBut(r, [reader[r] EXCEPT !.at = "reget"])
       ELSE /\ UNCHANGED <<clock, epoch>>
            /\ Becomes(r, [reader[r] EXCEPT !.at = "reget"])
  /\ UNCHANGED <<writer, worker, snap, restarts, l1, bcast, floor, l1floor>>

RegetEpoch(r) ==
  /\ reader[r].at = "reget"
  /\ Becomes(r, [reader[r] EXCEPT !.at = "fetch", !.cap = epoch])
  /\ UNCHANGED <<writer, worker, redis, l1, bcast, floor, l1floor>>

(* Any failing call of the three: epoch 0.                                 *)
EpochFails(r) ==
  /\ reader[r].at \in {"epoch", "init", "reget"}
  /\ Becomes(r, [reader[r] EXCEPT !.at = "fetch", !.cap = 0])
  /\ UNCHANGED <<writer, worker, redis, l1, bcast, floor, l1floor>>

(* _retrieve_fields: the committed row, or the absence of one.             *)
Fetch(r) ==
  /\ reader[r].at = "fetch"
  /\ Becomes(r, [reader[r] EXCEPT !.at = "watch", !.ver = db])
  /\ UNCHANGED <<writer, worker, redis, l1, bcast, floor, l1floor>>

-----------------------------------------------------------------------------
(* write_if_newer: WATCH both keys and read them.                          *)
Watch(r) ==
  /\ reader[r].at = "watch"
  /\ Becomes(r, [reader[r] EXCEPT !.at = "decide", !.clean = TRUE,
                   !.cur = [epoch |-> epoch, snap |-> snap]])
  /\ UNCHANGED <<writer, worker, redis, l1, bcast, floor, l1floor>>

Older(r) == reader[r].cur.snap # None /\ reader[r].cur.snap.sv > reader[r].ver.sv
Invalidated(r) == reader[r].cur.epoch # reader[r].cap

(* Faulty variants of Refused: one of the two conditions is missing.       *)
RefusedByEpoch(r) == Invalidated(r)
RefusedByVersion(r) == Older(r)

(* A newer snapshot or another epoch: give up, for good.                   *)
Refused(r) == Older(r) \/ Invalidated(r)

Decide(r) ==
  /\ reader[r].at = "decide"
  /\ Becomes(r, IF Refused(r) THEN Idle
                ELSE [reader[r] EXCEPT !.at = "exec", !.same = TRUE, !.cur = Idle.cur])
  /\ UNCHANGED <<writer, worker, redis, l1, bcast, floor, l1floor>>

(* EXEC: the SET takes place unless a watched key was touched.             *)
Exec(r) ==
  /\ reader[r].at = "exec" /\ reader[r].clean
  /\ snap' = reader[r].ver
  /\ reader' = TouchedBut(r, [reader[r] EXCEPT !.at = "written", !.cap = 0, !.tries = 0])
  /\ UNCHANGED <<writer, worker, epoch, clock, restarts, l1, bcast, floor, l1floor>>

(* WatchError: try again, at most MaxCas attempts in all.                  *)
ExecAborts(r) ==
  /\ reader[r].at = "exec" /\ ~ reader[r].clean
  /\ Becomes(r, IF reader[r].tries + 1 = MaxCas THEN Idle
                ELSE [reader[r] EXCEPT !.at = "watch", !.same = TRUE, !.clean = TRUE,
                                       !.tries = @ + 1])
  /\ UNCHANGED <<writer, worker, redis, l1, bcast, floor, l1floor>>

(* Back from EXEC: mirror a positive value in L1 unless an invalidation    *)
(* was heard meanwhile or the entry there is newer.                        *)
Mirror(r) ==
  LET p == ProcOf[r]
      v == reader[r].ver
  IN /\ reader[r].at = "written"
     /\ l1' = IF v # Missing /\ reader[r].same /\ ~ (l1[p] # None /\ l1[p].sv > v.sv)
                THEN [l1 EXCEPT ![p] = v] ELSE l1
     /\ Becomes(r, Idle)
     /\ UNCHANGED <<writer, worker, redis, bcast, floor, l1floor>>

(* Any failing call of write_if_newer counts as not written, also when the *)
(* SET took place and only its reply was lost.                             *)
WriteFails(r) ==
  /\ reader[r].at \in {"watch", "decide", "exec", "written"}
  /\ Becomes(r, Idle)
  /\ UNCHANGED <<writer, worker, redis, l1, bcast, floor, l1floor>>

-----------------------------------------------------------------------------
Reading(r) ==
  \/ LocalHit(r) \/ LocalMiss(r) \/ GetSnap(r) \/ UseSnap(r) \/ MissSnap(r)
  \/ GetEpoch(r) \/ InitEpoch(r) \/ RegetEpoch(r) \/ Fetch(r)
  \/ Watch(r) \/ Decide(r) \/ Exec(r) \/ ExecAborts(r) \/ Mirror(r)

Working ==
  \/ CreateUser \/ WriteUser \/ NotifyUser \/ CommitUser \/ RollbackUser
  \/ Invalidate \/ PublishInvalidate \/ ExpireSnap
  \/ \E p \in Procs : Hear(p) \/ ExpireLocal(p)
  \/ \E r \in Readers : Reading(r)

Failing ==
  \/ NotifyFails \/ InvalidateSkips \/ WorkerDies \/ RestartRedis
  \/ \E r \in Readers : GetFails(r) \/ EpochFails(r) \/ WriteFails(r)

Sound == UNCHANGED faults
Fault == faults < MaxFaults /\ faults' = faults + 1

Next == (Working /\ Sound) \/ (Failing /\ Fault)

Spec == Init /\ [][Next]_vars

-----------------------------------------------------------------------------
MaybeSnap == Snaps \cup {None}

ReaderType ==
  [at : Steps, same : BOOLEAN, got : MaybeSnap, cap : Nat, ver : Snaps,
   cur : [epoch : Nat, snap : MaybeSnap], clean : BOOLEAN,
   tries : 0 .. MaxCas - 1]

(* The types; the retry loop of write_if_newer makes at most MaxCas        *)
(* attempts and the negative entry never enters an L1 cache.               *)
TypeOK ==
  /\ db \in Snaps /\ tx \in {"idle", "open", "sent"}
  /\ sent \in 0 .. MaxEvents /\ events \in 0 .. MaxEvents
  /\ worker \in {"idle", "publish"}
  /\ snap \in MaybeSnap /\ epoch \in Nat /\ clock \in Nat
  /\ faults \in 0 .. MaxFaults /\ restarts \in 0 .. faults
  /\ l1 \in [Procs -> MaybeSnap \ {Missing}]
  /\ bcast \in [Procs -> SUBSET Versions]
  /\ reader \in [Readers -> ReaderType]
  /\ floor \in Versions /\ l1floor \in [Procs -> Versions]

(* No resurrection in Redis: once an invalidation has run there, no reader *)
(* that fetched before it puts back a content older than what was          *)
(* committed when it ran, as long as Redis has kept its keys.              *)
NoStaleSnap == snap # None /\ restarts = 0 => snap.c >= floor

(* No resurrection in a process: once a process has heard of an            *)
(* invalidation, its own cache never again holds what that one removed, as *)
(* long as Redis has kept its keys.                                        *)
NoStaleLocal ==
  restarts = 0 => \A p \in Procs : l1[p] # None => l1[p].c >= l1floor[p]

(* Neither cache resurrects what an invalidation removed                   *)
(* (invalidate_user, _cas_set and the L1 of a process).                    *)
CacheFresh == NoStaleSnap /\ NoStaleLocal

(* Readers overtaking each other never move the source version backwards   *)
(* while the entry stays there.                                            *)
SnapMonotone == [][snap # None /\ snap' # None => snap'.sv >= snap.sv]_vars

(* Nobody is changing, reading or invalidating.                            *)
Quiet ==
  /\ tx = "idle" /\ events = 0 /\ worker = "idle"
  /\ \A r \in Readers : reader[r].at = "idle"

(* auth/events.py on the event sent at every change: after the worker has  *)
(* consumed it, the next read gets the new value of the database.          *)
QuietFresh == Quiet => snap \in {None, db}

-----------------------------------------------------------------------------
(* The instance that TLC checks.                                           *)

\* All coroutines in one process, ...
OneProcess == [r \in Readers |-> CHOOSE p \in Procs : TRUE]

\* ... where they are alike.
Alike == Permutations(Readers)
============================================================================

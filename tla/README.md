# TLA+ verification of LKM Service

LKM Service is the backend of a community site: Python, FastAPI, SQLAlchemy on PostgreSQL (READ COMMITTED), Redis, and
Pulsar or RabbitMQ between its processes. This directory holds TLA+ models of the parts whose correctness depends on
interleavings, failures and order, the TLC configurations that check them on small instances, and TLAPS proofs for every
size. `PROJECT.json` records which definition models which lines, which run checks which property, the mutants
that show each property can fail, the findings and the hazards.

All models share some facts about the code:

* `get_session` (core/db/session.py) and `get_auth_session` give a request one transaction, committed when the
  endpoint returns and rolled back by any exception. Writes show to others at commit; a statement sees what was committed
  when it began; row locks, advisory locks and unique-index waits last to the end of the transaction.
* A coroutine can be overtaken at every `await`, and a process can die between any two of them.
* The bus delivers at least once. On Pulsar, acknowledgement errors are swallowed and the message comes again.

## 1. Inventory

| Component | State | Operations | Hard part | What makes it correct |
|---|---|---|---|---|
| Transactional outbox and relay (core/db/outbox.py, core/outbox_relay.py) | outbox_events, outbox_event_keys, archive, event_failures, leader lease | enqueue, claim, publish, settle, fold, archive | replicas racing for claims, stale claims, sends that outlive their timeout, crashes | no event dropped, duplicates bounded, settled rows stay, all rows settle |
| Failure and dead-letter administration (admin/event_failure_router.py, admin/dlq_router.py, core/worker_dlq.py) | event_failures.replayed_at, dlq_messages | replay, requeue, discard | two operators, a replay beside the relay | one pending row per event |
| Bus consumer, dispatch, dead-letter worker (core/bus, core/worker.py) | backlog, redelivery counts, event_processed | receive, run with dedup, ack, nack, store a dead letter | timed-out coroutines that go on, redelivery, lost acks | handler serialised per event, each repeated run accounted for, no message lost |
| User snapshot cache (core/user_cache.py, core/local_cache.py, auth/snapshot.py) | Redis snapshot and epoch, L1 caches | read through, compare-and-set, invalidate, broadcast | stale backfill after an invalidation | no resurrection of invalidated content |
| Questions, bounties, points ledger (qa, points) | questions, answers, balances, ledger | ask, answer, accept, close, expire, reward | concurrent spending, duplicate events, lock order | ledger explains balances, escrow given away once |
| Points engine (points/engine.py) | behaviour counters, achievements, tasks, check-ins | three subscriptions per event, check-in | redelivery, two handlers creating one row | each event counted and paid once, streaks true |
| File library (files) | library_files, upload sessions, object store, archive, backup | create, direct upload, confirm, notify, review, delete, archive, back up, sweep | objects and rows change in different systems | live rows have content, no orphaned content, exact counts |
| Bot media (files/bot_media.py) | bot_media_objects, objects | upload, delete, purge, serve | a count written from an old reading, the object goes before the commit | a row has its object and counts its users |
| Accounts and sessions (auth) | users, refresh_tokens, tv:min in Redis | login, refresh, logout, reset, admission, grants | token reuse races, revocation racing issue | one rotation per token, revoked stays revoked, versions grow |
| Registration, codes, links, OAuth, passkeys (auth/service_onboarding.py, service_oauth.py, service_passkey.py) | verifications, states, challenges, accounts | give a proof, present it, register, bind | one proof twice, two registrations of one name | a proof signs in one account, accounts stay distinct |
| Account settings (auth/router_settings.py) | users.email, users.phone, user_oauths | request code, bind, unbind | unbinding the last two ways at once | an account keeps a way in |
| Second factor and recovery (auth/service_2fa.py, service_recovery.py) | totp, recovery codes, temporary tokens, recovery transactions | set up, verify, remove, recover | one counter or code twice, removal beside set-up | accepted once, no recovery without the factor |
| Administrator sessions and roles (auth/admin_router.py, service_roles.py, core/rbac_roles.py) | refresh chain, cookies, blocked jti, roles | login, refresh, step-up, select roles, change roles, log out | a cookie signed from old roles | role changes and logouts bind every accepted cookie, separation policies hold |
| Seam to auth (auth/user_http.py, auth/circuit_breaker.py) | circuit of a process, the two databases | call, answer, probe, cancel | lost answers, cancelled probes, two commits | one probe, nothing committed here without its counterpart |
| User dimension (auth/user_dim_sync.py, app/flows/user_dim.py) | user_dim, sync_ts, Redis lock | copy by event, incremental and full reconciliation | stamped late, lock expires | a lost copy is found, one reconciler |
| User id whitelist, read-through cache (core/bloom.py, core/cache.py, cache_lock.py, singleflight.py) | bitmap and mark; entries, versions, locks, flights | add, scan; read, fill, invalidate | filling after an invalidation, Redis restart | nobody refused, hits no older than the invalidation |
| Engagement (content counters, comment, interaction) | detail rows, counters, Redis deltas | like, comment, bookmark, delete, flush, reconcile | counters next to their detail rows | counters exact or explained, and they converge |
| Follow timeline (feed) | user_follows, feed_items, watermark, cap cache, page cursors | fan out, follow, unfollow, delete, read a page | watermark against late commits; pages merged from several limited queries while the feed changes | followers served, rows justified, nothing skipped or shown twice between cursors |
| Columns and projects, boards, articles (columns, projects, content) | applications, boards, versions, bans, articles, counters | apply, review, edit, ban, post, like, comment | two reviewers, edits with and without a version, promotion in another service | one pending row, no lost edit, exact counters |
| Exams (exam) | attempts, certificates, promotion in auth | create, submit, rank | commit here after the promotion there | one certificate, promotions match |
| Treehole (treehole) | letters, reactions, conversations, bottles, reports | write, light, reply, pick, hide, report | two visitors at once, rate limits counted in rows | once per visitor, no orphans |
| Blog and Git (blog) | series rows, bare repositories, file copies | create, delete, write, push, back fill, reconcile | disk is not rolled back | a series keeps its repository, copies follow |
| Search (search) | documents of the external index | sync by event, rebuild, search | events handled out of order, rebuild in between | index current when nothing is due, nothing hidden shown |
| Starhope (starhope) | entities with client times | push, pull | cursors against commits in flight | newest kept, nothing missed |
| Notifications, WebSocket gateway (notification, app/ws) | rows, merged counts, sockets | consume, merge, read, publish, connect | redelivery, frames against closing sockets | each event counted once, frames only to their user |
| Moderation, reports (admin/moderation, admin/reports_writer.py) | rules, version, reports | change rule, evaluate a page, report, digest | version raised before the commit | pages obey committed rules |
| Bot administration (admin/bot_admin_router.py) | parts of the bot, audit trail, streams | switch, install, delete, ticket, logs | effect, audit and commit apart | effects are in the trail, the trail is true |
| Start-up and readiness (core/db/init_db.py, health, auth/jwt_keys.py) | schema, lock, readiness, keys | migrate, retry, shut down, probe, refresh keys | processes starting together, lock expiry, key rotation | ready only with schema, dependencies and key |
| Daily statistics, analytics, previews, scheduler, HTTP and GraphQL composition, rate limiters, storage backends, plug-in host, process assembly, observability, configuration, scripts | none, or external | | | not modelled (section 9) |

How they interact: every business change writes its event with `enqueue_outbox` in its own transaction; the relay
publishes; workers consume with an idempotency ledger; points, search, notifications and cache invalidation are
handlers of such events. `auth` is a separate service with its own database: it sends `user.updated`, the business side
caches user snapshots, replicates users into `user_dim` and calls it over HTTP through a circuit breaker. Content,
comment, interaction and feed call each other through ports, in the caller's transaction.

## 2. Modules

| Module | Models |
|---|---|
| `EventDelivery` | abstract: an event is absent, queued, delivered or failed |
| `OutboxRelay` | enqueue, replicas of `run_outbox_loop`, the lease, claims, publish outcomes, archive, replay, requeue; implements `EventDelivery` (`DeliveryRefined`) |
| `EventConsumer`, instantiated by `MCEventConsumer` | subscriptions, `_dispatch_with_dedup`, timeouts, redelivery, `worker_dlq` |
| `UserSnapCache` | `_load_user_snapshot`, `write_if_newer`, `current_epoch`, invalidation, L1 |
| `QABounty` | qa service on the points ledger |
| `FileLibrary` | files service, repository and jobs over an object store |
| `AuthSessions`, instantiated by `MCAuthSessions` | sessions and token version of one account |
| `Engagement` | likes, comments and bookmarks of one item and the counter jobs |
| `ContentFeed`, instantiated by `MCContentFeed` | materialised follow timeline of one author |
| `Requests` | what the modules below share: connections, transactions, failing requests |
| `Applications`, `Boards`, `Articles`, `Exams`, `Treehole`, `BlogRepos`, `SearchIndex`, `PointsEngine`, `StarHope`, `Moderation`, `TimelinePages`, `Notifications` | the services of the community, composed by `MCCommunity` |
| `SecondFactor`, `SignIn`, `LoginWays`, `AdminSessions`, `AuthSeam`, `UserDim`, `IdWhitelist`, `ReadCache`, `Startup`, `AdminOps`, `BotMedia`, `Readiness` | identity and the platform, composed by `MCPlatform` |
| `EventPipelineProofs` (relay and consumer), `AccountProofs` (snapshot cache and sessions), `ContentProofs` (engagement and timeline), `QABountyProofs`, `FileLibraryProofs`, `PlatformProofs` and `IdentityProofs` (the components of `MCPlatform`) | the theorems (section 4) |

The three instantiating modules give the constants, variables and properties of a component names of their own, so that one
proof module can speak of two components; their runs check the component through the instance that the theorems are about.

How state and actions correspond to the code:

* **OutboxRelay.** A row keeps its identity through pending, published, archived, folded and replayed, so moving it between
  tables is a change of `st`. `Claim`, `Dispatch`, `BrokerAccepts`, `PublishReturns`, `Finish`, `Tail` are the awaits of
  `relay_poll`; `late` counts the sends of each row whose caller timed out. Time is two flags: due or backing off, fresh or stale claim.
  `LockTarget` to `CommitReplay` are the statements of `replay_failure` and `requeue`, with the lock on
  `outbox_event_keys` as `KeyLocked`. `Finish` writes under the `locked_by` fence (`StillOwned`).
* **EventConsumer.** `task` is a coroutine; `attached` says that the receive thread still waits for it. The advisory lock is
  held in the states `Locked`. `gaps` counts runs whose handler had committed when the ledger entry was lost.
* **UserSnapCache.** `reader.at` names the await a coroutine has reached; `clean` is what WATCH reports at EXEC. `floor` and
  `l1floor` are history: the content committed when the last invalidation ran.
* **QABounty, AuthSessions.** A slot or connection runs one transaction after another; `todo` or `at` is the next statement that
  can wait, `holder` or `rowLock` are row locks. PostgreSQL's deadlock detection is `BreakDeadlock`. The unique key of the ledger
  includes `created_at` (points/models.py:59) and so refuses nothing: a row of a key that is there already is inserted next to it
  (`copy`, `Inserted`). `BookedOnce`, in `LedgerSound`, says that this never happens; the lock of the balance row and the look-up under it
  see to that, and the mutant of `LedgerSound` leaves the lock out.
* **FileLibrary.** `hot`, `archive`, `backup` are the objects by content hash, `up` the direct-upload objects. Row changes appear
  at `Commit`, object changes at once. The library starts empty or with a file that was approved before backups were made.
* **Engagement.** `mode` is `settings.counters_write_through`. The last waiting statement and the commit are one step.
* **ContentFeed.** `Create` gives a post its `created_at`, `Appear` makes it visible: that gap is the late commit. `Follow` fills in
  the latest `feed_backfill_limit` posts (`Backfill`; 50 by default, 0 turns it off); the older ones are `left` out, and when the follow
  commits, those of them that no later batch brings (`Passed`) are `excused`. Apart from these, `excused` and `raced` are pairs and rows that the
  code's own races give up (section 7).
* **The modules on `Requests`.** `db` is a record of the service's tables and of what it keeps in Redis, on disk or in another
  service; `tx[c]` is what the request on connection `c` has read; an action is the stretch of a handler between two
  points where another request can come between (`Begin` with its first reads, steps with an effect that a rollback does not
  undo, the commit). `Fail` is any error before the commit. `hist` is history for the properties; its fields named for a race or a
  failure are the exceptions of section 7: a property holds unless exactly that happened.
* **UserDim.** `LoadSourceRows`, `StampRows` and `UpsertDimRows` are the awaited read, `now_iso()` after it, and the awaited write of
  `sync_dim_for_ids`; `Hidden` are the changes that come between the first two. `ReconcilePeriodic` takes the lock, `ReconcileUnlocked` is the same job
  where `get_redis` gives None; the lock protects only those that took it.
* **Readiness.** The refresh loop and each probe without a key have a fetch of their own (`LoopAsks`/`LoopArrives`, `ProbeAsks`/`ProbeArrives`),
  which takes AUTH's key of the moment it is asked and stores it unconditionally when it comes (`Keeps`).
* **BlogRepos.** `Push` moves HEAD, `Stamp` is `push_at = now` after git has returned, `Backfill` reads the rows and HEAD's text.
* **Treehole.** The rate limit counts the rows of one kind. The flags of a conversation are read with the request and rewritten at its
  commit (`Shown`), so a side that hides or blocks in between is known as `crossed`.
* **Exams.** A certificate is dated when it is inserted (`Now`), before the call to auth, so submissions may commit in another order.
* **IdWhitelist.** The scan is complete at its last page (`LastPage`); `MarkSeeded` is a later call.
* **Startup.** An ADD COLUMN that fails on a table is warned of and left to the next start (`warned`), whatever the reason;
  any step that needs the database may fail, also the one of the continuous aggregates.

`MCCommunity` and `MCPlatform` compose services that share no state: `focus` chooses one in `Init`, so the state graph is the
union of the components' graphs and one run asks each component its question. Components that do interact do so
inside a module: relay and operators, ledger and bounties, rows and objects, business and auth, cache and database.

Definitions named "Faulty variant of ..." are not part of any specification; `PROJECT.json` uses them as mutants.

## 3. Runs

| Run | Checks | Instance |
|---|---|---|
| `outbox_races` | `NoEventDropped`, `CopiesBounded`, `OnePendingRow`, `DeliveryRefined` | 2 replicas without lease, 2 operators, 1 event, 3 rows, 1 dead letter, 1 fault |
| `outbox_settles` | `FoldedForAReason`, `RowsSettle` (settled rows stay, queued rows settle) | 2 replicas with lease, 2 events (one unpublishable), 2 tries, 2 faults |
| `consumer` | `ConsumerSound` (handlers serialised, effects accounted, no message lost), `CopiesSettled` | 2 messages (with and without event id), 2 coroutines, 2 redeliveries, 2 faults |
| `usersnap` | `CacheFresh` (no stale snapshot in Redis or a process), `SnapMonotone` | 2 coroutines of one process, 2 versions, 1 invalidation, 1 fault |
| `bounty` | `LedgerSound` (ledger explains balances, no overdraft), `BountyFair` (escrow exact, shares earned) | 2 slots, 2 questions of authors who answer each other, 4 answers, 2 points events, 1 abort |
| `files` | `LibrarySound` (content there, nothing left over, exact counts, registered once, uploads kept, numbers distinct), `SessionsSwept` | 2 connections, 2 files of one content, 1 upload, 4 requests, 1 failure |
| `auth` | `SessionsSound` (rotated once, ended stay ended and their access tokens are outdated), `RightsSettle` (levels rise, the precheck settles) | 2 connections, 3 sessions, 4 requests, 1 abort |
| `engagement` | `CountsSound` (drift explained, floors distinct, comment likes exact), `ItemSettles` (deleted takes nothing, counters converge) | 1 user, 2 comments, 2 connections, both modes, 3 interactions or failures |
| `feed` | `TimelineSound` (followers served, rows justified), `Delivered` | 2 readers, 2 posts, 2 connections, cap 1, batch 1, backfill 1, 2 changes or failures |
| `community` | one invariant per service: `ApplicationsSound`, `BoardsSound`, `ArticlesSound`, `ExamsSound`, `TreeholeSound`, `BlogSound`, `SearchSound`, `PointsSound`, `StarHopeSound`, `PagesSound` (`TimelinePages` and `Moderation`), `NotifySound` | 2 connections and 2 to 5 requests each, bounds in `MCCommunity` |
| `platform` | `FactorSound`, `SignInSound` (`SignIn` and `LoginWays`), `AdminSound`, `SeamSound`, `DimSound`, `StartupSound`, `CachesSound` (`IdWhitelist` and `ReadCache`), `BotSound` (`AdminOps` and `BotMedia`), `ReadinessSound` | 2 connections or processes and 2 to 5 requests each, bounds in `MCPlatform` |
| `breaker` (violation) | `HalfOpenProbes` | 2 calls at once, threshold 2, 4 calls |

What they show:

* Claims, the fence and the key lock alone keep every event and bound duplicates; the lease is an optimisation. Each copy
  beyond one per attempt is paid for by a crash, a stall or an error. With the lease and fairness each row settles.
* A handler never runs twice at once for one event and subscription; a second run needs an interruption between the
  handler's commit and the ledger's. Each message ends acknowledged or in `dlq_messages`.
* After an invalidation no overtaken reader brings back older content, in Redis or in a process, while Redis keeps its keys.
* Whatever order requests take their locks in, balances equal the ledger, none is negative, and each escrow is paid out
  or refunded exactly once. Redelivered events count once for points, counters, achievements and tasks; nothing in the
  database would refuse a second ledger row of an event, the lock alone keeps it out.
* Content is there for each live file (unless a deletion's own commit fails), counts and document numbers are
  exact, and an upload becomes one file.
* Refresh tokens rotate once, ended sessions stay ended, levels (except by `upgrade_to_normal`) and versions only grow. Every
  code, link, state, challenge, recovery code and temporary token is accepted once, an account keeps a way in, and
  a changed role binds each cookie still accepted.
* In write-through mode counters equal detail rows unless one comment is deleted by two requests; the daily scan repairs
  every drift.
* Followers get each post that becomes visible in order, new followers the latest ones of the past, and a reader who follows the
  cursors of a timeline misses nothing that was there all the time and sees nothing twice; the rest is in section 7.
* Unique indexes, conditional updates and row locks carry the services whose checks come before their writes: one pending
  application, one certificate, one reaction, one pending report, one migrator, one reconciler (among those that find Redis).
* The ranking of a competition has everyone once, best first and, of equal scores, the earlier certificate first, in whatever order
  submissions commit. A message in the treehole brings its conversation back for the side that had hidden it.
* A process follows AUTH's key while its refresh loop and its probes overlap: an older answer is left only where it was asked for
  when there was no key at all, and until the next round.

### Bounds

Two actors of a kind are enough for each race here: each conflict is about one row, key, token, content or message, and
has a holder and a challenger. In each module the second message, post, comment or file is there because an order or a
count is being compared. Retry limits are 1 or 2 where the code has 5 or 8: the first and the last attempt differ, those
between do not. Request and fault counts (`MaxStarts`, `MaxEvents`, `MaxChanges`, `MaxFaults`, `MaxAborts`, `MaxFails`,
`MaxRequests`) are the only bounds on behaviours; each is large enough that every action happens and every mutant is caught.
`feed` has a backfill of one post of two, so that a new follower gets the later and not the earlier; none at all (0) and other limits are
covered by the proof. `ExamsSound` has two users, so that rankings have two rows, with equal and different scores, and two certificates of one
user. `ReadinessSound` has two connections and two requests: two probes at once, beside the refresh loop, while the key changes.
In `bounty`, two shares for three answers reach the limit of acceptances, and two closings that pay each other's author reach a
database deadlock. `TimelinePages` has five items in two arrangements of authors, sources and boards, pages of one and a scan
limit of three: pages end for each of the three reasons (full, exhausted, scan limit), and items stand on both sides of a cursor
while up to two changes come. `BotMedia` needs five requests: an upload overlapping a whole life of the same content.
Symmetry of connections is used in `community` and `platform`, of coroutines and slots in `usersnap` and `bounty`, which check
no liveness. Runs with `CHECK_DEADLOCK FALSE` have bounded work and really stop.

### Fairness

* `OutboxRelay`: the loop of a live replica goes on, timers fire, a dead replica is restarted, the lease expires.
  Nothing is assumed of operators or producers.
* `EventConsumer`: a coroutine goes on or its cancellation arrives, the broker redelivers and moves to the dead-letter
  topic, a ready message is received by some worker.
* `FileLibrary`: requests end, and the hourly sweep runs. `ContentFeed`: the job runs every two minutes and
  transactions go on.
* `AuthSessions`: requests go on, the database breaks deadlocks, and `tv:min` expires (it is set with a TTL).
* `Engagement`: requests go on, the flush job and the daily full scan run. The quarter-hourly scan is not assumed.

All of it is weak fairness of steps that nothing else disables for ever, as given by the scheduler registrations
(`register_cron_job`), the supervisors and the TTLs. The modules on `Requests` state safety only: their requests end or fail on
their own, and their jobs' convergence is stated as what holds when nothing is due.

## 4. Proofs

The theorems hold for every value of the constants: any number of replicas, connections, coroutines, rows, messages,
retries and faults. `tlapm` checks each proof to the last leaf. `Spec` is that of the component.

| Module | Theorem | Statement |
|---|---|---|
| `EventPipelineProofs` | `EventsKept` | `Spec => []NoEventDropped` |
| | `QueuedOnce` | `Spec => []OnePendingRow` |
| | `FoldsJustified` | `Spec => []FoldedForAReason` |
| | `CopiesPaid` | `Spec => []CopiesBounded` |
| | `SettledStay` | `Spec => SettledRowsStay`, the safety half of `RowsSettle` |
| | `DeliveryImplemented` | `Spec => DeliveryRefined`: the relay implements `EventDelivery` |
| | `ConsumerCorrect` | `Spec => []ConsumerSound` |
| | `OneThreadPerCopy` | `Spec => []HeldByOne`: an acknowledgement is never of a copy that another thread works on |
| `AccountProofs` | `CacheCorrect` | `Spec => []CacheFresh` |
| | `SnapNeverBack` | `Spec => SnapMonotone` |
| | `SessionsCorrect` | `Spec => []SessionsSound` |
| | `LevelOnlyRises` | `Spec => LevelRises`, the safety half of `RightsSettle` |
| `ContentProofs` | `CountsCorrect` | `Spec => []CountsSound` |
| | `NothingAfterDeletion` | `Spec => DeletedTakesNothing`, the safety half of `ItemSettles` |
| | `TimelineCorrect` | `Spec => []TimelineSound` |
| `QABountyProofs` | `LedgerCorrect` | `Spec => []LedgerSound`: balances are sums of their ledger rows, none is overdrawn |
| | `BountyCorrect` | `Spec => []BountyFair`: an escrow is given away exactly once, for accepted answers |
| | `SettledFinal` | `Spec => [][NothingTakenBack]_vars`: ledger rows and acceptances stay, a settled question is never changed again |
| `FileLibraryProofs` | `BooksCorrect` | `Spec => [](RefsExact /\ RegisteredOnce /\ DocumentsDistinct)`, whatever fails |
| | `LibraryCorrect` | `Spec => []LibrarySound`, if only the jobs (`archive`, `backup`, `cleanup`) fail before they commit |
| `IdentityProofs` | `SignInCorrect` | `Spec => []SignInSound`: registration, proofs, GitHub and passkeys (`SignIn`), the ways in of an account (`LoginWays`) |
| | `FactorCorrect` | `Spec => []FactorSound` |
| | `AdminCorrect` | `Spec => []AdminSound` |
| `PlatformProofs` | `SeamCorrect` | `Spec => []SeamSound` |
| | `DimCorrect` | `Spec => []DimSound` |
| | `CachesCorrect` | `Spec => []CachesSound`: the id whitelist and the read-through cache |
| | `StartupCorrect` | `Spec => []StartupSound` |
| | `ReadinessCorrect` | `Spec => []ReadinessSound` |
| | `BotCorrect` | `Spec => []BotSound`: administration of the bot and its media |

With the safety invariant each proof establishes type correctness (`TypeCorrect`, `ConsumerTyped`, `SessionsTyped`, `FeedTyped`, or the
part `...Typed` of the invariant of a platform component) and its inductive invariant: `IInv`, `ConsumerInv`, `SessionsInv`,
`FeedInv`, `RInv` and `CInv` of the library, and on the platform one for each of the twelve components (`SeamInv` to `FacInv`).

### Assumptions

Only the named `ASSUME`s of the modules, which TLC evaluates on each run: bounds are natural numbers, limits that the code has at
least 1 are not 0, null values (`None`, `NoOne`, `NoEvent`) are no rows, connections or events, parameter functions have
their types. Replicas, connections, users, comments, readers, posts, questions and answers that are counted are finite sets
(`ReplicasAssumption`, `ConnsFinite`, `DetailsFinite`, `FeedAssumption`, `BountyAssumption`, `PlatformAssumption`), as rows and processes are. The library has at least one
row to give out, and `None` is no file. In `UserSnapCache` a fresh epoch of a
restarted Redis (`Stamp`, a time in microseconds) is above every epoch that was counted up (`SizesAssumption`).

The theorems on the platform hold for any number of connections, requests, ids, users, tables, keys, tokens and recoveries,
any threshold of the circuit and any window of the reconciliation. What `MCPlatform` fixes there is fixed for them too: four roles with
their hierarchy and separation sets, two user names, the two accounts of `LoginWays`, the soft and hard dependencies of readiness, the
number of proofs given out, and three TOTP steps.

### Inductive invariants

None of the properties is inductive: a committed table is right because of what the transactions in flight know about it. In
each proof `IInv` states that knowledge, and the steps show that no other actor can spoil it.

* **OutboxRelay.** `HandOK`: what a replica knows of the row in its hand; one that answered "ok" has a copy in the broker, which
  is why settling the row as published does not drop it. `RowsOK`: only pending rows have an owner, so a row that
  passes the fence is pending. `ChainOK`: the pending row of an event is its newest one, and a replayed row has a newer one.
  `OperatorsOK`: what an operator may rely on under its locks. The argument for a step goes by what it writes: `Quiet` steps
  keep every outcome, and `FinishWrites`, `TailWrites`, `EnqueueWrites`, `CommitWrites` describe the four that do not.
  `CopiesBounded` needs `ChargeOK`, an account per row: copies sent, sends that outlived their caller and claims that have not
  sent yet are together at most the recorded attempts, the faults and one for the claim in force. The refinement needs no more than `IInv`:
  each step moves the phase of one event along an edge of `EventDelivery`, or of none.
* **EventConsumer.** `LockHeldOnce` (the advisory lock has one holder per subscription and event), `LedgerFollows` (a running
  handler is not in the ledger, a dispatch that ended well is), `EffectsAccounted`, `DeadStored` and `AckedProcessed` (what left a
  queue is stored), `HeldByOne`.
* **UserSnapCache.** `FloorsOrdered` orders the history of invalidations; `EpochDates`: a captured epoch that is still current
  dates the fetched content after the last invalidation; `WatchHolds`: what WATCH covers is still what was compared;
  `MirrorFresh`: the same for a process and its revision. The last two parts hold while Redis has not restarted, the rest always,
  which is why `SnapMonotone` holds across restarts and `CacheFresh` has its exception.
* **AuthSessions.** `OwnsApart` and `IssueFresh`: token rows in flight belong to one transaction. `RowHeld`: a transaction with a
  new user row holds the lock and adds one to the version if it revokes. `SnapCovered`: what a revocation saw is revoked or is
  being revoked by it, and is of the version it outdates. `ReadPast`, `TablesAgree`. `EndedOutdated` came out of this proof: a session
  that a revocation ended has an access token below the user's version.
* **Engagement.** `TxFits`: what a request read still holds when it commits (its detail row is still absent or present, its
  floor still unused), because of the item's row lock, the unique index of bookmarks or the row lock of the comment; and in
  write-through mode it carries exactly the bump of its operation. `CommentOK`; `JobsIdle`: in this mode the flush has nothing
  to add and a scan compares equals. Counting uses the cardinality theorems of the library.
* **ContentFeed.** `FanCovers` and `FollowCovers`: a job or a follow in flight brings, has brought or is about to bring every post it is
  responsible for, for the followers of this moment; `DropCovers`: rows an unfollow or a deletion did not see are known
  as raced (`FollowCovers` includes what the backfill leaves out); `Reached`: a watermark, and one about to be written, is that of a post that was visible; `StampsOK`, `Apart`,
  `Shape`. That a batch cut off at `Batch` posts is served in order is a pigeonhole argument about ranks (`RankFacts`,
  `InOrderFacts`).
* **QABounty.** `LedgerIs`: under each key the ledger has at most the one row that the tables explain (an escrow for each question asked,
  a share for each accepted answer, a refund for each settled question with a rest). `PlanOK`: what a transaction has booked and
  will book is exactly what it decided, in whatever order and however far it has come. `HeldOK`: what it
  decided under the lock of the question is still so. `BookOK`: it holds the balance of every row it has booked, no committed
  row has that key (which is why `Inserted` always makes the first copy), and the balance covers its rows. `AskOK`, `Shape`. From `LedgerIs`, the row looked up by
  a bounty request is never found; only an event delivered again meets its own row. The sums are `MapThenSumSet` over sets of
  rows: what they are after one row more, for a union and for equal amounts (`SumWith`, `SumUnion`, `SumEqual`) is proved by
  taking the least counterexample, since the induction theorems of the library cannot be used.
* **FileLibrary.** `RInv` is about rows and holds whatever fails, since a rollback takes back everything it speaks of. `Fine`: the hash
  lock makes a reference count that was read still the count at the commit (`MakerOK`, `JudgeOK`), and the number a transaction took is
  the next one of its document (`NumberOK`), with `Dense`: numbers have no gaps, so the type bound is never exceeded.
  `Away`: two transactions in flight share no locked content, row, session or document. `CInv` is about objects, which a rollback does
  not bring back. `Byte`: the object of a file about to be committed is stored, a request that wiped a content is taking its last
  live file. `Content` and `UploadOK` add these to the rows. `LibraryCorrect` has its hypothesis because the code does: an upload that
  fails after it has written leaves its object without a row, a registration that fails after it has dropped the uploaded object
  cannot be repeated, and a deletion that fails after it has wiped the content leaves a file without one (sections 5 and 7).

* **AuthSeam.** `ProbeInCharge`: a probe exists only in the half-open state that remembers it, and is the only one, unless a call of an earlier
  closed state came back late. `AnswersCovered`: each yes on its way stands for a commit in auth that nothing here has used yet, a
  matter of counting; `StaleDecision`: a decision that was overtaken is known as such.
* **AdminOps, BotMedia.** `OpsTraced`: what happened at the bot is audited, about to be, or known as lost; `OpsTrail`: each row of the trail is
  about something that happened or is about to; `OpsFollows`: between two requests that do not cross, the state of a part is what the last row
  says. `MediaCounted`: while no two writers overlap, the row counts the holders and the requests giving back are at most that many, so that the one
  that deletes is the last; `MediaKept`: a row without its object is one whose deletion is about to finish.
* **IdWhitelist, ReadCache.** A scan has added every user up to its cursor, or they are `unadded`; one that is to set the mark has added all. `CacheFresh`: a value that may still be stored under the present key is
  the committed one, and one under an older key is not older than any reader that waits for that key.
* **Readiness, Startup.** `ReadyNotes`: what a probe has written down was true at some moment since it began; `ReadyKeys`: keys on their way
  are keys that AUTH has had; `ReadyOrder`: what the refresh loop asked for with a key in hand is at least as new as the newest
  key that came and as those that probes still wait for, since probes ask only where there is none. `BootReached`: what a process has done is what its step says; `BootLocked`: who works at the schema holds the lock, or is
  one from whom it was taken.
* **UserDim.** `DimLacks`: a row that the copy misses will be found by the next scan, also a change flushed and not yet committed, unless it is
  `masked`; a missed profile is announced, or known to be lost (`Told`). `DimCarries`: the same of rows read and not yet stamped, or stamped and not yet
  written.
* **AdminSessions.** `AdmRow`: a refresh token without a successor is the last of its session, so a session that was ended can only live on in a
  token that crossed the logout; `AdmCookie`: a cookie carries the version under which its roles were read; `AdmTx` and `AdmLocks`: what a request
  read under the row lock still holds; `AdmRoles`: the version is the number of role changes, and roles assigned keep the separation.
* **LoginWays.** `WaysTx`: whose ways were counted has another one still, because of the row lock (`WaysLocks`); a code held is unused.
* **SignIn.** `SignOnce`: what was accepted is gone; `SignUsers`: accounts are numbered and distinct; `SignSees`: the account that a request found still
  has the address; `SignKey`: the count a passkey login carries is above the last accepted one unless another login was open. The proof needs to know
  registrations of a passkey apart, not only their owners: the rows of `passkey` are numbered for that.
* **SecondFactor.** `FacSpent`: a code, token, link or counter that was accepted cannot be accepted again; `FacShown`: every mark of a second factor is that
  of a transaction it was shown for; `FacSeen`: what a set-up read is so still, or it was overtaken.

Every inductive invariant was checked by TLC on the instance of its run before it was proved.

### Only model-checked

* Liveness (`RowsSettle`, `CopiesSettled`, `Delivered`, `SessionsSwept`, the settling halves of `RightsSettle` and `ItemSettles`):
  fairness and `ENABLED` are out of the prover's reach.
* The ranking of exams, the role hierarchy, the page merge and the subtree of comments: what these definitions compute for every
  input needs an induction over data.
* The services of `MCCommunity`: their eleven invariants have no theorems so far (section 8).

## 5. Findings

One has a run, `breaker`: a probe of the half-open circuit that is cancelled by the request's hard time-out is recorded neither as
success nor as failure, and the circuit refuses every later call of the process (auth/user_http.py:104).

The others were met as the reason for an exception in a property, or as a definition that fails:

* Requeuing a dead letter while the row of its first delivery still reads pending marks the letter requeued, but nothing is sent
  again (core/worker_dlq.py:109; `OutboxRelay.RequeueRedelivers`).
* `user.updated` is committed before the change it announces; handled in between, the old value is cached again until its
  TTL (auth/service.py:51; `UserSnapCache.QuietFresh`).
* Content is deleted from the store before the row's deletion is committed (files/service.py:540); so is a blog repository
  (blog/service.py:294).
* `_get_or_create_stats` loses its row lock when another transaction creates the row first (points/engine.py:92).
* The count of wrong second-factor codes is rolled back with the request that fails (auth/service_2fa.py:62).
* A timeline whose first page came from the sources continues with rows (feed/service.py:254).
* The reference count of bot media is read, changed and written without a lock (files/bot_media.py:193).
* A check-in takes the date before it waits for its row: one that waited over midnight behind a check-in of the new day sets the
  last day back and restarts the streak (points/service.py:468; `hist.overtaken` of `PointsEngine`).
* A push is dated only after git has returned: a write in the editor committed in between is overwritten by it
  (blog/git_http.py:174; `hist.early` of `BlogRepos`).
* A restart of Redis during the scan of the id whitelist leaves the mark on a partly filled bitmap, and the users written before it are
  refused until the next scan (auth/bloom_seed.py:76; `hist.unadded` of `IdWhitelist`).

## 6. Hazards

`PROJECT.json` lists, per line, what tests hardly reach and which property watches it. A note says where the code itself
gives something up, so that the property excuses exactly that.

## 7. Known divergences without a run

Met while modelling; the properties are stated so that they hold around them.

Events, caches and jobs:

* A Redis restart loses the epoch, and a reader from before it may write old content (core/user_cache.py:446;
  `restarts = 0` in the properties). A profile change alone does not change the source version (auth/snapshot.py:227) and is not
  caught by the reconciliation of auth/tasks.py:71 or app/flows/user_dim.py:163. Two batches with the same first id, last id and size share a flight
  (auth/snapshot.py:283).
* Collection versions and cache entries are invalidated before the commit (articles/service.py:61, admin/moderation/service.py:49): a
  read in between caches the old state again. Readers join a flight that began before the invalidation.
* A change of a users row that is committed, or flushed and uncommitted, between the read and the stamp of its copy is found by no later
  scan (auth/user_dim_sync.py:170; `masked`), and an older read may be written over a newer one (`older`). Without Redis
  reconcilers run at the same time (auth/user_dim_sync.py:276).
* An ADD COLUMN that fails is only warned of (core/db/init_db.py:152): the process gets ready without the column.
* A shutdown releases the migration lock while the thread that migrates goes on (core/db/init_db.py).
* Two search events of one row are applied in any order (search/sync.py:3), and a rebuild drops what is written meanwhile
  (app/flows/search_reindex_body.py:10).
* A notification event redelivered after its commit is counted into the merged row again (notification/tasks.py:162); the version
  of a frame is not monotone (tasks.py:217); a slow socket is unregistered and stays open (app/ws/manager.py:98).
* The review digest stores its notifications without a frame for them, although admin/review_digest.py:3 names the channel. Starhope cursors are server times, changes carry client times.
* A fetch of AUTH's key that was asked for before there was any can replace a newer key by an older one, until the next round
  (auth/jwt_keys.py:255; `back`).

Identity:

* A logout revokes the sessions its UPDATE saw; one issued meanwhile stays live until the version check
  (auth/service_auth.py:849), hence "live when it began" in `EndedStayEnded`.
* `upgrade_to_normal` takes no lock before it reads the level, and two decisions on one admission can both pass the pending
  check (auth/service_admission.py:92-96), like two reviews of a column (columns/service.py:162) or of a board.
* The count of failed logins is written in the transaction that the failing login rolls back (auth/service_auth.py:566; `Deny`).
* `verify_second_factor` accepts a TOTP code again within its window (auth/service_2fa.py:389).

Content, files and administration:

* Registering an upload deletes its object before the commit; a failed commit leaves a session that cannot be retried
  (files/service.py:852). A media row whose object was lost this way is not healed by the next upload, which finds the row.
* Two requests deleting one comment both decrement its item's counter until the next scan (comment/service.py:189). Two reports
  of one target pass the check of content/service.py:436 together.
* A post committed after a younger one has been fanned out lies behind the watermark and is skipped, although
  feed/fanout.py:173 says none is (`excused`). A job or a follow in flight can add rows for a deleted post or a lost follower
  (`raced`). Posts of an author who falls below the cap are not materialised later.
  Of posts behind the watermark a new follower gets the latest `feed_backfill_limit` only (interaction/service.py:265).
* Two edits of an article's status that overlap may publish it without a date (`raced`, set only when the row is written).
* A message of the treehole rewrites the flags of its conversation as they were read: what a side hides or blocks meanwhile does not stop it.
* The board for questions is looked for and then created (content/write_api.py:23). Deletion and review of a board do not raise the
  version that `update_cas` compares (core/db/repository.py:271). An empty list of tags leaves an article's tags
  (articles/repository.py:289). Exams created through the endpoint are not published by it.
* Refusals of the bot panel other than tickets are not audited (admin/bot_admin_router.py:353), and a log stream that nobody reads
  stays open.

## 8. Plan

Done: the event pipeline first (everything else relies on it), then the cache, bounties, files, sessions, engagement and the
timeline; then the services of the community, identity and the platform.

Proved: the event pipeline with its refinement, the cache, sessions, engagement, the timeline, bounties, the ledger, the
file library, identity and the platform (section 4).

Next, in order:

1. Theorems for the services of `MCCommunity`, with their bounds as constants as in `MCPlatform`.
2. An atomic ledger above `QABounty`, and at-least-once delivery with an effect ledger over `EventConsumer` composed with
   `EventDelivery`.
3. Board follows in `ContentFeed`; images and previews are left out.

## 9. Not modelled

Payload contents, wording, formatting, the order of listings, permission checks that change no state, metrics and tracing; image
and document processing; the search engines' ranking; Git itself; cryptography; limits in real time. Components left out
are listed with the reason in `PROJECT.json`.

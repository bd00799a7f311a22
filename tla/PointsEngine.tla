---------------------------- MODULE PointsEngine ----------------------------
(***************************************************************************)
(* What a user's events bring: points, counters with their achievements,   *)
(* daily tasks, and the daily check-in.  An event reaches three            *)
(* subscriptions, each at least once and in its own transaction; the two   *)
(* that write user_behavior_stats serialise on its row, which the first of *)
(* them creates.  One user; every event counts for the same counter,       *)
(* achievement and daily task, a check-in for a task of its own.           *)
(***************************************************************************)
EXTENDS Requests, FiniteSetsExt

CONSTANTS
    Events,
    Threshold,      \* of the two achievements: counted events, and the streak
    Requirement,    \* of the tasks: events a day, and check-ins a day
    LastDay         \* bound on the days of a behaviour

NoStat == [there |-> FALSE]

\* user_behavior_stats: the JSON column `stats` (the counter, the marks of
\* what was processed, the copy of the streak), and the columns of check-ins.
UserBehaviorStat == [there |-> TRUE, count |-> 0, marks |-> {}, copy |-> 0, streak |-> 0, last |-> 0]

\* user_achievements: progress and unlocked, both FALSE-like at first.
UserAchievement == [progress |-> 0, unlocked |-> FALSE]

\* user_task_progress of a task and a day.
UserTaskProgress == [progress |-> 0, completed |-> FALSE, rewarded |-> FALSE]

\* The two daily tasks, by what advances them.
Categories == {"post", "checkin"}

\* `ledger`: the refs of points_ledger; `balance`: bookings in user_balances.
Init ==
    /\ db = [stat |-> NoStat, posts |-> UserAchievement, streaks |-> UserAchievement,
             tasks |-> [t \in Categories \X (1..LastDay) |-> UserTaskProgress],
             ledger |-> {}, balance |-> 0, day |-> 1]
    /\ hist = [days |-> {}, stale |-> FALSE, overtaken |-> FALSE, done |-> {}]
    /\ Resting

----------------------------------------------------------------------------
(* Points *)

\* reward, under the lock of the balance: the ref is looked up first.
Unbooked(d, ref) == ref \notin d.ledger

Reward(d, ref) ==
    IF Unbooked(d, ref) THEN [d EXCEPT !.ledger = @ \cup {ref}, !.balance = @ + 1] ELSE d

\* apply_point_reward: the subscription points-reward.
ApplyPointReward(c, e) ==
    /\ AtOnce(c)
    /\ db' = Reward(db, <<"event", e>>)
    /\ UNCHANGED hist

----------------------------------------------------------------------------
(* The row of user_behavior_stats *)

\* Who holds the row's lock, or has inserted it and not committed.
Holders == Open("held")

\* apply_point_stats and apply_point_daily_tasks.
Consume(c, e, ns) ==
    /\ Begin(c, [op |-> "look", kind |-> ns, event |-> e])
    /\ UNCHANGED <<db, hist>>

\* do_checkin: the date is taken before the row is locked.
Checkin(c) ==
    /\ Begin(c, [op |-> "look", kind |-> "checkin", today |-> db.day])
    /\ UNCHANGED <<db, hist>>

Hold(c, stat) == Continue(c, [op |-> "held", was |-> tx[c], stat |-> stat])

\* SELECT ... FOR UPDATE waits for a committed row, and misses one that is
\* only inserted.
Look(c) ==
    /\ tx[c].op = "look"
    /\ IF db.stat.there THEN Holders = {} /\ Hold(c, db.stat)
                        ELSE Continue(c, [tx[c] EXCEPT !.op = "insert"])
    /\ UNCHANGED <<db, hist>>

\* The insert waits for a rival's.  When the rival won, a check-in looks
\* again under the lock, _get_or_create_stats reads without it.
Insert(c) ==
    /\ tx[c].op = "insert"
    /\ Holders = {}
    /\ IF ~db.stat.there THEN Hold(c, UserBehaviorStat)
       ELSE IF tx[c].kind = "checkin" THEN Continue(c, [tx[c] EXCEPT !.op = "look"])
       ELSE Continue(c, [op |-> "read", was |-> tx[c], stat |-> db.stat])
    /\ UNCHANGED <<db, hist>>

\* The next FOR UPDATE locks the row but keeps the object that is loaded.
Relock(c) ==
    /\ tx[c].op = "read"
    /\ Holders = {}
    /\ Continue(c, [tx[c] EXCEPT !.op = "held"])
    /\ hist' = [hist EXCEPT !.stale = @ \/ tx[c].stat # db.stat]
    /\ UNCHANGED db

----------------------------------------------------------------------------
(* What is written under the lock *)

\* _recheck_achievements.
Recheck(a, n) == [progress |-> Min({n, Threshold}), unlocked |-> a.unlocked \/ n >= Threshold]

\* _advance_tasks, on the row of one task and day.
Advance(d, cat, day) ==
    LET row == <<cat, day>>
        t == d.tasks[row]
        p == Min({t.progress + 1, Requirement[cat]})
        full == ~t.completed /\ p >= Requirement[cat]
        pay == full /\ ~t.rewarded
        up == [progress |-> p, completed |-> t.completed \/ full, rewarded |-> t.rewarded \/ pay]
        e == [d EXCEPT !.tasks[row] = up]
    IN  IF pay THEN Reward(e, <<"task", row>>) ELSE e

\* Faulty variant of AlreadyProcessed: a redelivery is not recognised.
AlreadyProcessedNever(stat, mark) == FALSE

AlreadyProcessed(stat, mark) == mark \in stat.marks

Written(stat) == IF db.stat.there THEN db ELSE [db EXCEPT !.stat = stat]

\* apply_stats_side_effects: count, and the achievement of posts.
CommitStats(c) ==
    LET r == tx[c]
        mark == <<"stats", r.was.event>>
        n == r.stat.count + 1
        d == Written(r.stat)
    IN
    /\ r.op = "held" /\ r.was.kind = "stats"
    /\ db' = IF AlreadyProcessed(r.stat, mark) THEN d
             ELSE [d EXCEPT !.stat = [@ EXCEPT !.count = n, !.marks = r.stat.marks \cup {mark},
                                               !.copy = r.stat.copy],
                            !.posts = Recheck(@, n)]
    /\ hist' = [hist EXCEPT !.done = @ \cup {r.was.event}]
    /\ Finish(c)

\* apply_task_side_effects: the date is taken under the lock.
CommitTasks(c) ==
    LET r == tx[c]
        mark == <<"tasks", r.was.event>>
        d == Written(r.stat)
    IN
    /\ r.op = "held" /\ r.was.kind = "tasks"
    /\ db' = IF AlreadyProcessed(r.stat, mark) THEN d
             ELSE Advance([d EXCEPT !.stat = [@ EXCEPT !.count = r.stat.count,
                                                       !.marks = r.stat.marks \cup {mark}, !.copy = r.stat.copy]],
                          "post", db.day)
    /\ Finish(c)
    /\ UNCHANGED hist

NextStreak(stat, today) == IF stat.last > 0 /\ stat.last = today - 1 THEN stat.streak + 1 ELSE 1

\* do_checkin: once a day; points, the streak's achievement and the task.
CommitCheckin(c) ==
    LET r == tx[c]
        today == r.was.today
        n == NextStreak(r.stat, today)
        d == Written(r.stat)
        e == [d EXCEPT !.stat = [@ EXCEPT !.streak = n, !.last = today, !.copy = n],
                       !.streaks = Recheck(@, n)]
    IN
    /\ r.op = "held" /\ r.was.kind = "checkin"
    /\ IF r.stat.last = today THEN db' = d /\ UNCHANGED hist
       ELSE /\ db' = Advance(Reward(e, <<"checkin", today>>), "checkin", today)
            /\ hist' = [hist EXCEPT !.days = @ \cup {today},
                                    !.overtaken = @ \/ r.stat.last > today]
    /\ Finish(c)

Tomorrow ==
    /\ db.day < LastDay
    /\ db' = [db EXCEPT !.day = @ + 1]
    /\ UNCHANGED <<tx, hist, left>>

----------------------------------------------------------------------------

Next ==
    \/ \E c \in Conns :
         \/ \E e \in Events : ApplyPointReward(c, e) \/ \E ns \in {"stats", "tasks"} : Consume(c, e, ns)
         \/ Checkin(c) \/ Look(c) \/ Insert(c) \/ Relock(c)
         \/ CommitStats(c) \/ CommitTasks(c) \/ CommitCheckin(c)
         \/ Fail(c)
    \/ Tomorrow

Spec == Init /\ [][Next]_vars

----------------------------------------------------------------------------
(* What the pages show *)

\* list_achievements: what the row of the achievement says.
ListAchievements == [posts |-> db.posts, streaks |-> db.streaks]

\* list_tasks: today's rows.
ListTasks == [cat \in Categories |-> db.tasks[<<cat, db.day>>]]

\* However often events are delivered, each books, counts and advances once,
\* unless an object loaded before the lock was written back.
CountedOnce ==
    ~hist.stale /\ db.stat.there =>
        /\ db.stat.count = Cardinality({m \in db.stat.marks : m[1] = "stats"})
        /\ hist.done \subseteq {m[2] : m \in {x \in db.stat.marks : x[1] = "stats"}}
        /\ ListAchievements.posts = [progress |-> Min({db.stat.count, Threshold}),
                                     unlocked |-> db.stat.count >= Threshold]

\* Bookings are counted once each, and a completed task is paid, once.
PaidExactly ==
    /\ db.balance = Cardinality(db.ledger)
    /\ \A row \in DOMAIN db.tasks : db.tasks[row].completed = (<<"task", row>> \in db.ledger)
    /\ \A cat \in Categories : ListTasks[cat].completed = (ListTasks[cat].progress = Requirement[cat])

\* Each day of a check-in was paid, once; the streak is the run of days that
\* ends with the last check-in, unless a check-in that waited over midnight
\* came after one of the new day; and a streak once long enough stays
\* honoured.
StreakTrue ==
    LET run(n) == \A k \in 0..(n - 1) : db.stat.last - k \in hist.days
    IN  db.stat.there =>
          /\ \A d \in 1..LastDay : (d \in hist.days) = (<<"checkin", d>> \in db.ledger)
          /\ hist.days # {} /\ ~hist.overtaken =>
                               /\ db.stat.last = Max(hist.days)
                               /\ run(db.stat.streak) /\ ~run(db.stat.streak + 1)
          /\ db.stat.streak >= Threshold => ListAchievements.streaks.unlocked

PointsSound == CountedOnce /\ PaidExactly /\ StreakTrue

=============================================================================

------------------------------ MODULE Moderation ------------------------------
(***************************************************************************)
(* Moderation: the rules that hide or lower content when a timeline is     *)
(* read, their cache, the queue of reports and its daily digest.  The      *)
(* rules are cached under a version in Redis that every change of a rule   *)
(* raises, before the change is committed.                                 *)
(***************************************************************************)
EXTENDS Requests

CONSTANTS
    Reporters,      \* users who report one target
    Limit           \* the cap of a penalty, in units of a rule's weight

\* A rule hides what it matches or lowers it; 0 is a disabled rule.
Actions == {"off", "derank", "hide"}

\* rules are the committed rules of two patterns; ver the version in Redis;
\* cache what is cached under a version, reports the pending reports.
Init ==
    /\ db = [rules |-> <<"off", "off">>, ver |-> 0, cache |-> <<>>, reports |-> <<>>, digests |-> 0]
    /\ hist = [early |-> {}, both |-> {}, wrong |-> FALSE]
    /\ Resting

----------------------------------------------------------------------------
(* create_rule, update_rule, delete_rule *)

\* bump_collection_version.
Raised == db.ver + 1

\* The row is written and the version raised; others still see the old row.
ChangeRule(c, r, action) ==
    /\ db.rules[r] # action
    /\ \A o \in Open("rule") : tx[o].r # r
    /\ Begin(c, [op |-> "rule", r |-> r, action |-> action, old |-> db.ver])
    /\ db' = [db EXCEPT !.ver = Raised]
    /\ UNCHANGED hist

CommitRule(c) ==
    /\ tx[c].op = "rule"
    /\ db' = [db EXCEPT !.rules[tx[c].r] = tx[c].action]
    /\ hist' = [hist EXCEPT !.early = @ \cup {v \in DOMAIN db.cache : v > tx[c].old}]
    /\ tx' = [o \in Conns |->
                CASE o = c -> Idle
                  [] tx[o].op = "fill" ->
                     [tx[o] EXCEPT !.fresh = @ \cup {db'.rules}, !.early = @ \/ tx[o].ver > tx[c].old]
                  [] tx[o].op \in {"load", "page"} -> [tx[o] EXCEPT !.fresh = @ \cup {db'.rules}]
                  [] OTHER -> tx[o]]
    /\ UNCHANGED left

RuleFails(c) == tx[c].op = "rule" /\ Fail(c)

----------------------------------------------------------------------------
(* load_active_rules, _filter_hidden and _compute_scores *)

\* Entries of the cache are <<rules>> at the index of their version.
Cached(v) == v \in DOMAIN db.cache

\* collection_version, then the cache under that version.  fresh are the
\* rules that were committed since the page was asked for, early marks rules
\* read before a change whose version is already in use.
LoadRules(c) ==
    /\ Begin(c, IF Cached(db.ver)
                THEN [op |-> "page", rules |-> db.cache[db.ver], fresh |-> {db.rules},
                      early |-> db.ver \in hist.early]
                ELSE [op |-> "load", ver |-> db.ver, fresh |-> {db.rules}])
    /\ UNCHANGED <<db, hist>>

\* The rows are read,
ReadRules(c) ==
    /\ tx[c].op = "load"
    /\ Continue(c, [op |-> "fill", ver |-> tx[c].ver, rules |-> db.rules,
                    fresh |-> tx[c].fresh, early |-> FALSE])
    /\ UNCHANGED <<db, hist>>

\* and put into the cache under the version that was read first.
FillRules(c) ==
    /\ tx[c].op = "fill"
    /\ db' = [db EXCEPT !.cache = [v \in DOMAIN @ \cup {tx[c].ver} |->
                                     IF v = tx[c].ver THEN tx[c].rules ELSE @[v]]]
    /\ hist' = [hist EXCEPT !.early = IF tx[c].early THEN @ \cup {tx[c].ver} ELSE @ \ {tx[c].ver}]
    /\ Continue(c, [op |-> "page", rules |-> tx[c].rules, fresh |-> tx[c].fresh, early |-> FALSE])

\* What one more matching rule makes of the result.
Effect(result, action) ==
    [hide    |-> result.hide \/ action = "hide",
     penalty |-> IF action = "derank" /\ result.penalty < Limit THEN result.penalty + 1
                 ELSE result.penalty]

\* _evaluate for a text that every enabled rule matches.
Evaluate(rules) ==
    LET after[n \in 0..Len(rules)] ==
          IF n = 0 THEN [hide |-> FALSE, penalty |-> 0] ELSE Effect(after[n - 1], rules[n])
    IN  after[Len(rules)]

\* What the rules demand, in any order.
Demanded(rules) ==
    LET lower == Cardinality({r \in DOMAIN rules : rules[r] = "derank"}) IN
    [hide    |-> \E r \in DOMAIN rules : rules[r] = "hide",
     penalty |-> IF lower > Limit THEN Limit ELSE lower]

\* The page is answered: what is hidden is left out, the rest is scored.
AnswerPage(c) ==
    /\ tx[c].op = "page"
    /\ hist' = [hist EXCEPT !.wrong = @ \/ /\ ~tx[c].early
                                           /\ Evaluate(tx[c].rules) \notin {Demanded(f) : f \in tx[c].fresh}]
    /\ Finish(c)
    /\ UNCHANGED db

\* An entry expires.
Expire(v) ==
    /\ db' = [db EXCEPT !.cache = [w \in DOMAIN @ \ {v} |-> @[w]]]
    /\ hist' = [hist EXCEPT !.early = @ \ {v}]
    /\ UNCHANGED <<tx, left>>

----------------------------------------------------------------------------
(* create_if_absent *)

Already(u) == \E i \in DOMAIN db.reports : db.reports[i] = u

\* The reporter's pending report of the target is looked for, without a lock.
Report(c, u) ==
    /\ ~Already(u)
    /\ Begin(c, [op |-> "report", u |-> u])
    /\ UNCHANGED <<db, hist>>

CommitReport(c) ==
    /\ tx[c].op = "report"
    /\ db' = [db EXCEPT !.reports = Append(@, tx[c].u)]
    /\ hist' = [hist EXCEPT !.both = IF \E o \in Open("report") \ {c} : tx[o].u = tx[c].u
                                     THEN @ \cup {tx[c].u} ELSE @]
    /\ Finish(c)

\* send_daily_digest: one row for each administrator when anything waits.
Digest(c) ==
    /\ db.reports # <<>>
    /\ AtOnce(c)
    /\ db' = [db EXCEPT !.digests = @ + 1]
    /\ UNCHANGED hist

Next ==
    \/ \E c \in Conns :
        \/ \E r \in 1..2, action \in Actions : ChangeRule(c, r, action)
        \/ CommitRule(c) \/ RuleFails(c)
        \/ LoadRules(c) \/ ReadRules(c) \/ FillRules(c) \/ AnswerPage(c)
        \/ \E u \in Reporters : Report(c, u)
        \/ CommitReport(c) \/ Digest(c)
    \/ \E v \in DOMAIN db.cache : Expire(v)

Spec == Init /\ [][Next]_vars

----------------------------------------------------------------------------

\* A change of a rule shows at once: the entry under the present version
\* holds the committed rules, unless it was read before a change that had
\* already raised the version was committed.
RulesCurrent == Cached(db.ver) => db.cache[db.ver] = db.rules \/ db.ver \in hist.early

\* A page hides and lowers what rules demand that were committed when it was
\* asked for or later, whatever their order, with the same exception.
PagesModerated == ~hist.wrong

\* A reporter has one pending report of a target, unless two of the same
\* reporter's requests overlapped.
ReportsDistinct ==
    \A i, j \in DOMAIN db.reports : i # j /\ db.reports[i] = db.reports[j] => db.reports[i] \in hist.both

ModerationSound == RulesCurrent /\ PagesModerated /\ ReportsDistinct

=============================================================================

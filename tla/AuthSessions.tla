---------------------------- MODULE AuthSessions ----------------------------
(***************************************************************************)
(* The sessions of one account in the auth service: auth/service_auth.py,  *)
(* service_recovery.py, service_admission.py, service_authz.py and the     *)
(* token version cache of auth/token_revocation.py.                        *)
(*                                                                         *)
(* A session is a refresh token row and the access token issued with it,   *)
(* which carries the token_version of its user.  A request is a            *)
(* transaction (READ COMMITTED): it takes the row locks its statements     *)
(* need in their order, its writes show at commit, and a BizError rolls    *)
(* it back (get_auth_session).  The cached version tv:min is written       *)
(* before the commit and expires.                                          *)
(***************************************************************************)
EXTENDS Integers, Sequences, FiniteSets

CONSTANTS
  Conns,       \* connections
  Tokens,      \* sessions that can be issued
  None,
  Threshold,   \* _FAIL_LOCK_THRESHOLD
  Ops,         \* the operations of this instance
  MaxStarts,   \* bound: requests
  MaxAborts    \* bound: failures of the environment

Levels == 0..2    \* local, normal, admin
Statuses == {"pending", "active", "rejected"}
UserRow == [level : Levels, status : Statuses, version : Nat, attempts : Nat,
            locked : BOOLEAN]

VARIABLES
  user,     \* committed user row: level, status, version, attempts, locked
  session,  \* committed refresh tokens: "none", "live" or "revoked"
  access,   \* the token_version in the access token of a session
  prior,    \* the session whose refresh token was exchanged for this one
  tvmin,    \* tv:min of the account in Redis, 0 when absent
  rowLock,  \* the connection that holds the user row
  tx,       \* per connection: its transaction
  ended,    \* history: sessions that were live when a completed revoke_all began
  starts, aborts

vars == <<user, session, access, prior, tvmin, rowLock, tx, ended, starts, aborts>>
tables == <<user, session, access, prior>>

(* op    : the request; todo : the locks its statements still need         *)
(* arg   : the level, decision or session it is about                      *)
(* read  : the user row as it last read it, new : as it will write it      *)
(* snap  : the sessions an UPDATE of all sessions saw as live              *)
(* owns  : refresh token rows it has updated; issue : the session it adds  *)
Idle == [op |-> "idle", todo |-> <<>>, arg |-> None, read |-> None, new |-> None,
         snap |-> None, owns |-> {}, issue |-> None]

Init ==
  /\ user \in [level : {0}, status : {"pending", "active"}, version : {0},
               attempts : {0}, locked : {FALSE}]
  /\ session = [t \in Tokens |-> "none"]
  /\ access = [t \in Tokens |-> 0] /\ prior = [t \in Tokens |-> None]
  /\ tvmin = 0 /\ rowLock = None
  /\ tx = [c \in Conns |-> Idle]
  /\ ended = {} /\ starts = 0 /\ aborts = 0

-----------------------------------------------------------------------------
Live == {t \in Tokens : session[t] = "live"}
Unused == {t \in Tokens : session[t] = "none" /\ \A c \in Conns : tx[c].issue # t}
Owned(c) == UNION {tx[d].owns : d \in Conns \ {c}}
Step(c, t) == tx' = [tx EXCEPT ![c] = t]

Rollback(c) ==
  /\ Step(c, Idle)
  /\ rowLock' = IF rowLock = c THEN None ELSE rowLock

Begin(c, op, arg, todo) ==
  /\ tx[c] = Idle /\ op \in Ops /\ starts < MaxStarts
  /\ starts' = starts + 1
  /\ Step(c, [Idle EXCEPT !.op = op, !.arg = arg, !.todo = todo, !.read = user])
  /\ UNCHANGED <<tables, tvmin, rowLock, ended, aborts>>

(* login_password: the account must not be locked; a wrong password counts *)
(* a failure, a good one resets the count, and only then the admission is  *)
(* looked at.  Both write the user row.                                    *)
Login(c, good) ==
  /\ ~user.locked
  /\ good => user.status = "active" /\ Unused # {}
  /\ Begin(c, IF good THEN "login" ELSE "mistype", None, <<"user">>)

(* refresh_access_token                                                    *)
Refresh(c, t) ==
  /\ session[t] # "none" /\ Unused # {}
  /\ Begin(c, "refresh", t, <<"token">>)

(* POST /logout: the sessions, then the version.  _reset_password writes   *)
(* the user row first.                                                     *)
Logout(c) == Begin(c, "logout", None, <<"snap", "sessions", "user">>)
Reset(c) == Begin(c, "reset", None, <<"user", "snap", "sessions">>)

(* decide_admission: the status is read without a lock.                    *)
Decide(c, s) ==
  /\ user.status = "pending" /\ s \in {"active", "rejected"}
  /\ Begin(c, "decide", s,
           IF s = "active" THEN <<"user">> ELSE <<"user", "snap", "sessions">>)

(* _apply_upgrades and grant_incubation: the level is read under the lock. *)
Grant(c, n) == n \in Levels /\ Begin(c, "grant", n, <<"user">>)

(* upgrade_to_normal: a local account becomes a normal one.                *)
Upgrade(c) == user.level = 0 /\ Begin(c, "upgrade", 1, <<"user">>)

-----------------------------------------------------------------------------
TokenFree(c) == tx[c].arg \notin Owned(c)

StillLive(c) == session[tx[c].arg] = "live"

(* consume_once, then the checks and the new session.                      *)
Consume(c) ==
  /\ tx[c].todo # <<>> /\ Head(tx[c].todo) = "token"
  /\ TokenFree(c)
  /\ IF StillLive(c) /\ ~user.locked /\ user.status = "active" /\ Unused # {}
       THEN \E t \in Unused :
              /\ Step(c, [tx[c] EXCEPT !.todo = Tail(@), !.owns = {tx[c].arg},
                                       !.issue = t, !.read = user])
              /\ UNCHANGED rowLock
       ELSE Rollback(c)
  /\ UNCHANGED <<tables, tvmin, ended, starts, aborts>>

(* revoke_all_for_user: the UPDATE sees what was committed when it began...*)
Snapshot(c) ==
  /\ tx[c].todo # <<>> /\ Head(tx[c].todo) = "snap"
  /\ Step(c, [tx[c] EXCEPT !.todo = Tail(@), !.snap = Live])
  /\ UNCHANGED <<tables, tvmin, rowLock, ended, starts, aborts>>

(* Faulty variant of Revoke: sessions of an older version are passed over. *)
RevokeCurrent(c) ==
  /\ tx[c].todo # <<>> /\ Head(tx[c].todo) = "sessions"
  /\ tx[c].snap \cap Owned(c) = {}
  /\ Step(c, [tx[c] EXCEPT !.todo = Tail(@),
                 !.owns = {t \in tx[c].snap \cap Live : access[t] = user.version}])
  /\ UNCHANGED <<tables, tvmin, rowLock, ended, starts, aborts>>
(* ... waits for the rows other transactions changed, and changes those    *)
(* that are still live.                                                    *)
Revoke(c) ==
  /\ tx[c].todo # <<>> /\ Head(tx[c].todo) = "sessions"
  /\ tx[c].snap \cap Owned(c) = {}
  /\ Step(c, [tx[c] EXCEPT !.todo = Tail(@), !.owns = tx[c].snap \cap Live])
  /\ UNCHANGED <<tables, tvmin, rowLock, ended, starts, aborts>>

Raises(c) == tx[c].arg > user.level

(* The operations that call bump_token_version.                            *)
Bumps(c) == \/ tx[c].op \in {"logout", "reset"}
            \/ tx[c].op = "decide" /\ tx[c].arg = "rejected"
            \/ tx[c].op = "grant" /\ Raises(c)

(* failed_login_stmt, reset_login_failures_stmt, the fields set by the     *)
(* other operations, and the version.                                      *)
NewRow(c) ==
  LET op == tx[c].op
      bad == user.attempts + 1
      row == CASE op = "mistype" -> [user EXCEPT !.attempts = bad, !.locked = bad >= Threshold]
               [] op \in {"login", "reset"} -> [user EXCEPT !.attempts = 0, !.locked = FALSE]
               [] op = "decide" -> [user EXCEPT !.status = tx[c].arg]
               [] op = "upgrade" \/ (op = "grant" /\ Raises(c)) -> [user EXCEPT !.level = tx[c].arg]
               [] OTHER -> user
  IN IF Bumps(c) THEN [row EXCEPT !.version = @ + 1] ELSE row

(* The user row is locked, written and read again (a login looks at the    *)
(* admission once more); a bump goes to Redis at once.                     *)
WriteUser(c) ==
  /\ tx[c].todo # <<>> /\ Head(tx[c].todo) = "user"
  /\ rowLock = None
  /\ IF tx[c].op = "login" /\ (user.status # "active" \/ Unused = {})
       THEN Rollback(c) /\ UNCHANGED tvmin
       ELSE /\ rowLock' = c
            /\ tvmin' = IF Bumps(c) THEN user.version + 1 ELSE tvmin
            /\ \E t \in IF tx[c].op = "login" THEN Unused ELSE {None} :
                 Step(c, [tx[c] EXCEPT !.todo = Tail(@), !.new = NewRow(c), !.read = user,
                                       !.issue = t])
  /\ UNCHANGED <<tables, ended, starts, aborts>>

(* A wrong password ends in INVALID_CREDENTIALS, after the failure was     *)
(* counted in a savepoint.                                                 *)
Deny(c) ==
  /\ tx[c].op = "mistype" /\ tx[c].todo = <<>>
  /\ Rollback(c)
  /\ UNCHANGED <<tables, tvmin, ended, starts, aborts>>

Commit(c) ==
  /\ tx[c].op \notin {"idle", "mistype"} /\ tx[c].todo = <<>>
  /\ LET t == tx[c] IN
       /\ user' = IF t.new = None THEN user ELSE t.new
       /\ session' = [s \in Tokens |-> IF s \in t.owns THEN "revoked"
                                       ELSE IF s = t.issue THEN "live" ELSE session[s]]
       /\ access' = IF t.issue = None THEN access
                    ELSE [access EXCEPT ![t.issue] = t.read.version]
       /\ prior' = IF t.op = "refresh" THEN [prior EXCEPT ![t.issue] = t.arg] ELSE prior
       /\ ended' = IF t.snap = None THEN ended ELSE ended \cup t.snap
  /\ Rollback(c)
  /\ UNCHANGED <<tvmin, starts, aborts>>

(* A failed commit, a crash, a lost connection.                            *)
Abort(c) ==
  /\ tx[c] # Idle /\ aborts < MaxAborts
  /\ aborts' = aborts + 1
  /\ Rollback(c)
  /\ UNCHANGED <<tables, tvmin, ended, starts>>

(* Faulty variant of Expire: the key is kept while its version is newer.   *)
ExpireNot ==
  /\ 0 < tvmin /\ tvmin <= user.version /\ tvmin' = 0
  /\ UNCHANGED <<tables, rowLock, tx, ended, starts, aborts>>
Expire ==
  /\ tvmin > 0 /\ tvmin' = 0
  /\ UNCHANGED <<tables, rowLock, tx, ended, starts, aborts>>

(* PostgreSQL ends one of two transactions that wait for each other.       *)
Waits(c, d) ==
  /\ tx[c].todo # <<>>
  /\ \/ Head(tx[c].todo) = "user" /\ rowLock = d
     \/ Head(tx[c].todo) = "sessions" /\ tx[c].snap \cap tx[d].owns # {}
     \/ Head(tx[c].todo) = "token" /\ tx[c].arg \in tx[d].owns
BreakDeadlock(c) ==
  /\ \E d \in Conns \ {c} : Waits(c, d) /\ Waits(d, c)
  /\ Rollback(c)
  /\ UNCHANGED <<tables, tvmin, ended, starts, aborts>>

-----------------------------------------------------------------------------
Work(c) == Consume(c) \/ Snapshot(c) \/ Revoke(c) \/ WriteUser(c) \/ Deny(c) \/ Commit(c)

Next ==
  \/ \E c \in Conns :
       \/ \E good \in BOOLEAN : Login(c, good)
       \/ \E t \in Tokens : Refresh(c, t)
       \/ Logout(c) \/ Reset(c) \/ Upgrade(c)
       \/ \E s \in Statuses : Decide(c, s)
       \/ \E n \in Levels : Grant(c, n)
       \/ Work(c) \/ Abort(c) \/ BreakDeadlock(c)
  \/ Expire

Spec == Init /\ [][Next]_vars
FairSpec ==
  /\ Spec /\ WF_vars(Expire) /\ WF_vars(\E c \in Conns : BreakDeadlock(c))
  /\ \A c \in Conns : WF_vars(Work(c))
-----------------------------------------------------------------------------
(* The statements an operation may still have to run.                      *)
Todos(op) ==
  CASE op = "idle" -> {<<>>}
    [] op = "refresh" -> {<<>>, <<"token">>}
    [] op = "logout" -> {<<>>, <<"user">>, <<"sessions", "user">>, <<"snap", "sessions", "user">>}
    [] op \in {"reset", "decide"} ->
         {<<>>, <<"user">>, <<"sessions">>, <<"snap", "sessions">>, <<"user", "snap", "sessions">>}
    [] OTHER -> {<<>>, <<"user">>}

(* What an operation is about.                                             *)
Args(op) ==
  CASE op = "refresh" -> Tokens
    [] op = "decide" -> {"active", "rejected"}
    [] op = "grant" -> Levels
    [] op = "upgrade" -> {1}
    [] OTHER -> {None}

Tx(op) == [op : {op}, todo : Todos(op), arg : Args(op), read : UserRow \cup {None},
           new : UserRow \cup {None}, snap : (SUBSET Tokens) \cup {None},
           owns : SUBSET Tokens, issue : Tokens \cup {None}]

(* Rows, tokens and transactions have their shape.                         *)
TypeOK ==
  /\ user \in UserRow
  /\ session \in [Tokens -> {"none", "live", "revoked"}]
  /\ access \in [Tokens -> Nat] /\ prior \in [Tokens -> Tokens \cup {None}]
  /\ tvmin \in Nat
  /\ rowLock \in Conns \cup {None}
  /\ tx = [c \in Conns |-> tx[c]]
  /\ \A c \in Conns : tx[c].op \in Ops \cup {"idle"} /\ tx[c] \in Tx(tx[c].op)
  /\ ended \subseteq Tokens /\ starts \in 0..MaxStarts /\ aborts \in 0..MaxAborts

(* A refresh token is exchanged for one session at most, however many      *)
(* requests present it at the same time (refresh_access_token).            *)
RotatedOnce == \A s, t \in Tokens : s # t /\ prior[s] # None => prior[s] # prior[t]

(* A session that was live when a logout, a reset or a rejection that went *)
(* through began stays revoked (revoke_all_refresh_tokens).                *)
EndedStayEnded == ended \cap Live = {}

(* The access token of such a session carries a version below the user's,  *)
(* so require_user and check_session, which compare the two, refuse it,    *)
(* also when it was issued while the revocation was already running.       *)
EndedOutdated == \A t \in ended : access[t] < user.version

(* A refresh token is worth one session, and neither it nor its access     *)
(* token is worth anything once it was ended.                              *)
SessionsSound == RotatedOnce /\ EndedStayEnded /\ EndedOutdated

(* Grants never lower the level of an account, whatever runs beside them   *)
(* (_lock_user_row: "only up, never down"); upgrade_to_normal, which takes *)
(* no lock first, is the only operation that may.                          *)
LevelRises ==
  [][user'.level < user.level =>
       \E c \in Conns : tx[c].op = "upgrade" /\ tx'[c] = Idle]_vars

(* tv:min runs ahead of the committed version only while a bump is open or *)
(* after one failed, and then not for ever: current access tokens pass the *)
(* precheck again (set_token_version).                                     *)
PrecheckSettles == tvmin > user.version ~> tvmin <= user.version

(* What an account may do is never taken back by a race, and what a failed *)
(* request took is given back.                                             *)
RightsSettle == LevelRises /\ PrecheckSettles
=============================================================================

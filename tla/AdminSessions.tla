--------------------------- MODULE AdminSessions ---------------------------
(***************************************************************************)
(* The cookie sessions of one administrator and the roles they carry.  A   *)
(* session is a chain of refresh tokens, each rotated into the next, and   *)
(* the access cookies signed on the way; a role change ends the cookies by *)
(* the account's token_version, a logout ends one cookie by its jti.       *)
(* Cookies and refresh tokens are numbered as they are issued.             *)
(***************************************************************************)
EXTENDS Requests

CONSTANTS
    Roles, Primary,     \* role names of the level, and the role of the profile
    Super,              \* the role that manages roles
    Juniors,            \* ROLE_INHERITANCE: the roles a role inherits directly
    SSD, DSD,           \* separation constraints: records [roles, max], 0 < max < |roles|
    Extra,              \* the extra roles assigned at first
    Defaults            \* DEFAULT_GRANTS: the roles with the permission

All == {"all"}    \* a session that never chose its roles

\* users.token_version and lock, user_roles, refresh_tokens, the access
\* cookies in browsers, revoked_access_tokens, the jti keys in Redis, and
\* role_permissions for one permission.
Init ==
    /\ db = [ver |-> 0, locked |-> FALSE, extra |-> Extra, refresh |-> <<>>, cookies |-> <<>>,
             revoked |-> {}, blocked |-> {}, expired |-> {}, grants |-> [r \in Roles |-> "none"]]
    /\ hist = [changes |-> 0, verified |-> {}, out |-> {}, ended |-> {}, crossed |-> {}, off |-> {}]
    /\ Resting

----------------------------------------------------------------------------
(* Roles *)

\* role_closure: three rounds reach every junior of the hierarchy.
Below(R) == R \cup UNION {Juniors[r] : r \in R}
Closure(R) == Below(Below(Below(R)))

Satisfies(R, policy) == \A p \in policy : Cardinality(Closure(R) \cap p.roles) <= p.max

Assigned(extra) == {Primary} \cup extra
Authorized(extra) == Closure(Assigned(extra))

\* Without a selection: the primary role, then whatever fits beside it.
Greedy(extra) ==
    CHOOSE S \in SUBSET Authorized(extra) :
        /\ Primary \in S
        /\ Satisfies(S, DSD)
        /\ \A r \in Authorized(extra) : r \in Closure(S) \/ ~Satisfies(S \cup {r}, DSD)

\* activated_roles raises when the selection is not authorized.
Selectable(extra, sel) ==
    /\ Satisfies(Authorized(extra), SSD)
    /\ sel # All => sel \subseteq Authorized(extra) /\ Satisfies(sel, DSD)

ActivatedRoles(extra, sel) == IF sel = All THEN Greedy(extra) ELSE sel

----------------------------------------------------------------------------
(* Cookies *)

\* Faulty variant of JtiRevoked: only Redis is asked.
JtiRevokedFast(k) == k \in db.blocked

\* is_jti_blocked answers first, the table decides.
JtiRevoked(k) == k \in db.blocked \/ k \in db.revoked

\* _require_admin_from_cookie.
Accepted(k) ==
    /\ k \notin db.expired
    /\ ~JtiRevoked(k)
    /\ ~db.locked
    /\ db.cookies[k].ver = db.ver

\* The roles an accepted cookie carries, if they are still authorized.
InForce(k) ==
    IF Selectable(db.extra, db.cookies[k].roles) THEN ActivatedRoles(db.extra, db.cookies[k].roles) ELSE {}

\* authorize_user, the same verdict for the other process, with the roles.
Authorize(k) == Accepted(k) /\ Selectable(db.extra, db.cookies[k].roles)

\* get_current_admin: Redis first, then the verdict; no answer is a refusal.
CurrentAdmin(k) == k \notin db.blocked /\ Authorize(k)

\* The step-up of the session, required for dangerous operations.
Trusted(k) == CurrentAdmin(k) /\ db.cookies[k].mfa

\* RequirePermission: some role below the active ones holds the permission.
Holds(R) == \E r \in Closure(R) : db.grants[r] = "on"
Permitted(k) == CurrentAdmin(k) /\ Holds(InForce(k))

\* create_admin_access_token; epoch is history.
Cookie(ver, rt, mfa, roles, epoch) == [ver |-> ver, rt |-> rt, mfa |-> mfa, roles |-> roles, epoch |-> epoch]

\* A row of refresh_tokens; `from` is history: the login it comes from.
Row(mfa, roles, from) == [live |-> TRUE, mfa |-> mfa, roles |-> roles, from |-> from, next |-> 0]

Cookies == DOMAIN db.cookies
Tokens == DOMAIN db.refresh

\* Rows locked by an open request.
Held(t) == \E c \in Conns : tx[c].op \in {"refresh", "stepup"} /\ tx[c].rt = t

----------------------------------------------------------------------------
(* Login and refresh *)

\* admin_login reads the account, signs, and stores the refresh token.
Login(c) ==
    /\ ~db.locked
    /\ Begin(c, [op |-> "login", ver |-> db.ver, epoch |-> hist.changes])
    /\ UNCHANGED <<db, hist>>

CommitLogin(c) ==
    LET r == tx[c] t == Len(db.refresh) + 1 IN
    /\ r.op = "login"
    /\ db' = [db EXCEPT !.refresh = Append(@, Row(FALSE, All, t)),
                        !.cookies = Append(@, Cookie(r.ver, t, FALSE, All, r.epoch))]
    /\ Finish(c)
    /\ UNCHANGED hist

Consumable(t) == db.refresh[t].live

\* admin_refresh: consume_once holds the row until the commit.
Refresh(c, t) ==
    /\ Consumable(t)
    /\ ~Held(t)
    /\ Begin(c, [op |-> "refresh", rt |-> t, ver |-> db.ver, epoch |-> hist.changes, locked |-> db.locked])
    /\ UNCHANGED <<db, hist>>

\* A locked account answers early, and the request commits: the token is
\* spent.  A selection no longer authorized raises, and the token is kept.
CommitRefresh(c) ==
    LET r == tx[c] old == db.refresh[r.rt] n == Len(db.refresh) + 1
        spent == [db.refresh EXCEPT ![r.rt].live = FALSE, ![r.rt].next = @ + 1] IN
    /\ r.op = "refresh"
    /\ \/ r.locked /\ db' = [db EXCEPT !.refresh[r.rt].live = FALSE]
       \/ /\ ~r.locked
          /\ old.roles # All => Selectable(db.extra, old.roles)
          /\ db' = [db EXCEPT
                 !.refresh = Append(spent, Row(old.mfa, old.roles, old.from)),
                 !.cookies = Append(@, Cookie(r.ver, n, old.mfa, old.roles, r.epoch))]
    /\ Finish(c)
    /\ UNCHANGED hist

----------------------------------------------------------------------------
(* Step-up and choice of roles: the refresh row is locked, FOR UPDATE *)

\* admin_verify_2fa and activate_admin_roles begin with the same checks.
Enter(c, k) ==
    /\ Accepted(k)
    /\ db.refresh[db.cookies[k].rt].live
    /\ ~Held(db.cookies[k].rt)
    /\ Begin(c, [op |-> "stepup", rt |-> db.cookies[k].rt, k |-> k, ver |-> db.ver, epoch |-> hist.changes])
    /\ UNCHANGED <<db, hist>>

\* The new cookie and the row carry the same trust and the same roles.
Resign(c, mfa, roles) ==
    /\ db' = [db EXCEPT !.refresh[tx[c].rt].mfa = @ \/ mfa,
                        !.refresh[tx[c].rt].roles = roles,
                        !.cookies = Append(@, Cookie(tx[c].ver, tx[c].rt, db.cookies[tx[c].k].mfa \/ mfa,
                                                     roles, tx[c].epoch))]
    /\ Finish(c)

\* verify_user_totp accepted the code.
Verify2fa(c) ==
    /\ tx[c].op = "stepup"
    /\ Selectable(db.extra, db.cookies[tx[c].k].roles)
    /\ Resign(c, TRUE, InForce(tx[c].k))
    /\ hist' = [hist EXCEPT !.verified = @ \cup {db.refresh[tx[c].rt].from}]

Activate(c, S) ==
    /\ tx[c].op = "stepup"
    /\ Selectable(db.extra, S)
    /\ Resign(c, FALSE, S)
    /\ UNCHANGED hist

----------------------------------------------------------------------------
(* Logout *)

\* The row is read without a lock; `late`: a refresh of it is under way.
Logout(c, k) ==
    LET t == db.cookies[k].rt IN
    /\ k \notin db.expired
    /\ Begin(c, [op |-> "logout", k |-> k, rt |-> t, write |-> db.refresh[t].live])
    /\ UNCHANGED <<db, hist>>

\* revoked_at is written, after the lock, and committed.
RevokeRow(c) ==
    /\ tx[c].op = "logout"
    /\ ~Held(tx[c].rt)
    /\ db' = IF tx[c].write THEN [db EXCEPT !.refresh[tx[c].rt].live = FALSE] ELSE db
    /\ hist' = [hist EXCEPT !.crossed = IF db.refresh[tx[c].rt].next > 0
                                        THEN @ \cup {db.refresh[tx[c].rt].from} ELSE @]
    /\ Continue(c, [tx[c] EXCEPT !.op = "blocking"])

\* block_payload_jti: Redis may be away.
BlockJti(c) ==
    /\ tx[c].op = "blocking"
    /\ \E up \in BOOLEAN : db' = IF up THEN [db EXCEPT !.blocked = @ \cup {tx[c].k}] ELSE db
    /\ Continue(c, [tx[c] EXCEPT !.op = "storing"])
    /\ UNCHANGED hist

\* _revoke_jti_persistently, and the commit at the end of the request.
CommitLogout(c) ==
    /\ tx[c].op = "storing"
    /\ db' = [db EXCEPT !.revoked = @ \cup {tx[c].k}]
    /\ hist' = [hist EXCEPT !.out = @ \cup {tx[c].k}, !.ended = @ \cup {db.refresh[tx[c].rt].from}]
    /\ Finish(c)

\* Keys of Redis are lost at a restart and when their shortened TTL ends.
ForgetJti == db.blocked # {} /\ db' = [db EXCEPT !.blocked = {}] /\ UNCHANGED <<tx, hist, left>>

\* A revoked cookie reaches its exp; then its row of revoked_access_tokens may
\* go.  (Any other expired cookie is one that is not used again.)
ExpireCookie(k) ==
    /\ k \in db.revoked \ db.expired
    /\ db' = [db EXCEPT !.expired = @ \cup {k}]
    /\ UNCHANGED <<tx, hist, left>>

Purgeable == db.revoked \cap db.expired

PurgeRevoked(c) ==
    /\ Purgeable # {}
    /\ AtOnce(c)
    /\ db' = [db EXCEPT !.revoked = @ \ Purgeable]
    /\ UNCHANGED hist

----------------------------------------------------------------------------
(* Role and permission management *)

\* _require_role_manager.
Manager(k) == Trusted(k) /\ Super \in InForce(k)

NextVersion == db.ver + 1

\* set_user_role: the row of the account is locked, then read.
AssignRole(c, k, r) ==
    /\ Manager(k)
    /\ r \notin Assigned(db.extra)
    /\ Satisfies(Authorized(db.extra \cup {r}), SSD)
    /\ AtOnce(c)
    /\ db' = [db EXCEPT !.extra = @ \cup {r}, !.ver = NextVersion]
    /\ hist' = [hist EXCEPT !.changes = @ + 1]

RevokeRole(c, k, r) ==
    /\ Manager(k)
    /\ r \in db.extra \ {Primary}
    /\ AtOnce(c)
    /\ db' = [db EXCEPT !.extra = @ \ {r}, !.ver = NextVersion]
    /\ hist' = [hist EXCEPT !.changes = @ + 1]

\* The account is locked by an operator, or the lock ends.
ToggleLock(c) == AtOnce(c) /\ db' = [db EXCEPT !.locked = ~@] /\ UNCHANGED hist

\* set_role_permission: one upsert.
SetPermission(c, r, on) ==
    /\ AtOnce(c)
    /\ db' = [db EXCEPT !.grants[r] = IF on THEN "on" ELSE "off"]
    /\ hist' = [hist EXCEPT !.off = IF on THEN @ \ {r} ELSE @ \cup {r}]

\* ON CONFLICT DO NOTHING.
Seeded(r) == IF db.grants[r] = "none" /\ r \in Defaults THEN "on" ELSE db.grants[r]

\* seed_rbac, at every start.
SeedRbac(c) == AtOnce(c) /\ db' = [db EXCEPT !.grants = [r \in Roles |-> Seeded(r)]] /\ UNCHANGED hist

----------------------------------------------------------------------------

Next ==
    \/ \E c \in Conns :
         \/ Login(c) \/ CommitLogin(c) \/ CommitRefresh(c) \/ Verify2fa(c)
         \/ \E t \in Tokens : Refresh(c, t)
         \/ \E S \in SUBSET Roles : Activate(c, S)
         \/ \E k \in Cookies : Enter(c, k) \/ Logout(c, k)
         \/ RevokeRow(c) \/ BlockJti(c) \/ CommitLogout(c) \/ PurgeRevoked(c)
         \/ \E k \in Cookies, r \in Roles : AssignRole(c, k, r) \/ RevokeRole(c, k, r)
         \/ ToggleLock(c) \/ SeedRbac(c)
         \/ \E r \in Defaults, on \in BOOLEAN : SetPermission(c, r, on)
         \/ Fail(c)
    \/ \E k \in Cookies : ExpireCookie(k)
    \/ ForgetJti

Spec == Init /\ [][Next]_vars

----------------------------------------------------------------------------

\* A cookie signed from the state before a role change is not accepted after
\* it, whatever refresh, step-up or selection was under way.
RoleChangeEnds == \A k \in Cookies : Accepted(k) => db.cookies[k].epoch = hist.changes

\* What an accepted cookie may do stays within the roles now assigned and
\* within both separation policies, and explicit withdrawals are kept.
ForceBounded ==
    \A k \in Cookies : Accepted(k) =>
        /\ InForce(k) \subseteq Authorized(db.extra)
        /\ Satisfies(InForce(k), DSD) /\ Satisfies(Authorized(db.extra), SSD)
        /\ Permitted(k) => \E r \in Closure(InForce(k)) : r \notin hist.off

\* A cookie that was logged out stays refused, over a restart of Redis and
\* over the cleanup of the table.
LoggedOut == \A k \in hist.out : ~Accepted(k)

\* A refresh token has one successor, and a logged-out session has no live
\* token unless a refresh overlapped the logout or another cookie was used.
ChainKept ==
    /\ \A t \in Tokens : db.refresh[t].next <= 1
    /\ \A t \in Tokens : db.refresh[t].live =>
          \A u \in Tokens : u > t => db.refresh[u].from # db.refresh[t].from
    /\ \A t \in Tokens : db.refresh[t].live =>
          db.refresh[t].from \notin hist.ended \ hist.crossed

\* Trust in a second factor is earned in the session that carries it.
TrustEarned == \A k \in Cookies : db.cookies[k].mfa => db.refresh[db.cookies[k].rt].from \in hist.verified

AdminSound == RoleChangeEnds /\ ForceBounded /\ LoggedOut /\ ChainKept /\ TrustEarned

=============================================================================

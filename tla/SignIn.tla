------------------------------- MODULE SignIn -------------------------------
(***************************************************************************)
(* Registration and the ways into an account other than its password: a    *)
(* mailed code or link, GitHub, a passkey.  Each proof is taken by a       *)
(* conditional UPDATE of the same transaction that creates or signs in the *)
(* account; names, addresses and bindings are unique in the database.      *)
(* There is one mail address, one GitHub user and one authenticator.       *)
(***************************************************************************)
EXTENDS Requests

CONSTANTS
    Names,          \* usernames, in the order ensure_unique_username tries them
    HubMail,        \* whether GitHub gives the address of its user
    MaxProofs       \* bound on codes, links, states and challenges

None == "none"

\* users and user_oauths: accounts are numbered, mail and github are BOOLEAN.
Init ==
    /\ \E n \in {0, 1} :
         db = [users |-> IF n = 0 THEN {}
                         ELSE {[id |-> 1, name |-> CHOOSE x \in Names : TRUE, mail |-> TRUE,
                                github |-> FALSE, password |-> TRUE]},
               next |-> n + 1, proofs |-> {}, given |-> 0, pending |-> {},
               passkey |-> [owner |-> n, count |-> 0, row |-> 1], device |-> 0]
    /\ hist = [taken |-> {}, again |-> {}, sessions |-> {}, top |-> 0, overlap |-> FALSE]
    /\ Resting

ByMail == {u \in db.users : u.mail}
ByGithub == {u \in db.users : u.github}
ByName(n) == {u \in db.users : u.name = n}

\* history: proof p was accepted and account i got a session.
Accept(h, p) == [h EXCEPT !.taken = @ \cup {p}, !.again = @ \cup (h.taken \cap {p})]
SignedIn(h, p, i) == [Accept(h, p) EXCEPT !.sessions = @ \cup {[kind |-> p.kind, id |-> i]}]

----------------------------------------------------------------------------
(* Proofs: verification codes, magic links, OAuth states, challenges *)

\* _send_reg_code, login_code_request, request_magic_link, generate_oauth_state,
\* _store_challenge; store_pending_normal_registration also names its account.
Give(c, kind, owner) ==
    /\ db.given < MaxProofs
    /\ kind \in {"login", "link"} => ByMail # {}
    /\ kind = "bind" => owner \in {u.id : u \in db.users}
    /\ kind # "bind" => owner = 0
    /\ AtOnce(c)
    /\ db' = [db EXCEPT !.given = @ + 1,
                        !.proofs = @ \cup {[kind |-> kind, n |-> db.given + 1, owner |-> owner]}]
    /\ UNCHANGED hist

StorePending(c, name) ==
    /\ db.given < MaxProofs /\ db.pending = {}
    /\ AtOnce(c)
    /\ db' = [db EXCEPT !.given = @ + 1, !.pending = {name},
                        !.proofs = @ \cup {[kind |-> "register", n |-> db.given + 1, owner |-> 0]}]
    /\ UNCHANGED hist

\* Of the codes of one purpose only the newest is tried; the others are found
\* by what they are.
Found(kind) ==
    {p \in db.proofs : /\ p.kind = kind
                       /\ kind \in {"register", "login"} =>
                            \A q \in db.proofs : q.kind = kind => q.n <= p.n}

\* consume_once: used or consumed IS FALSE.
Live(p) == p \in db.proofs

\* expires_at; cleanup_expired_challenges deletes the rows.
Expire(p) == db' = [db EXCEPT !.proofs = @ \ {p}] /\ UNCHANGED <<tx, hist, left>>

----------------------------------------------------------------------------
(* New accounts *)

\* Faulty variant of NoDuplicate: the name is checked when it is chosen only.
NoDuplicateMail(u) == u.mail => ByMail = {}

\* The unique columns, when the INSERT meets them (handle_duplicate_user_error).
NoDuplicate(u) == ByName(u.name) = {} /\ (u.mail => ByMail = {}) /\ (u.github => ByGithub = {})

NewUser(name, mail, github, password) ==
    [id |-> db.next, name |-> name, mail |-> mail, github |-> github, password |-> password]

Create(d, u) == [d EXCEPT !.users = @ \cup {u}, !.next = @ + 1]

\* ensure_unique_username: a name nobody had when it was asked.
FreeNames == {n \in Names : ByName(n) = {}}

\* register_local: an existing account is signed in with its password
\* (_login_or_error), which AuthSessions.Login is.
RegisterLocal(c, name) ==
    /\ ByName(name) = {}
    /\ Begin(c, [op |-> "local", name |-> name])
    /\ UNCHANGED <<db, hist>>

CommitLocal(c) ==
    /\ tx[c].op = "local"
    /\ NoDuplicate(NewUser(tx[c].name, FALSE, FALSE, TRUE))
    /\ db' = Create(db, NewUser(tx[c].name, FALSE, FALSE, TRUE))
    /\ Finish(c)
    /\ UNCHANGED hist

\* consume_pending_normal_registration reads the registration, then the code.
ReadPending(c, name) ==
    /\ name \in db.pending
    /\ Begin(c, [op |-> "pending", name |-> name])
    /\ UNCHANGED <<db, hist>>

\* An account that exists is refused: its hash is compared with a hash.
CommitPending(c) ==
    /\ tx[c].op = "pending"
    /\ \E p \in Found("register") :
         LET u == NewUser(tx[c].name, TRUE, FALSE, TRUE) IN
         /\ Live(p) /\ NoDuplicate(u)
         /\ db' = [Create(db, u) EXCEPT !.proofs = @ \ {p}, !.pending = {}]
         /\ hist' = SignedIn(Accept(hist, [kind |-> "pending", n |-> tx[c].name]), p, u.id)
    /\ Finish(c)

----------------------------------------------------------------------------
(* One request: the proof is looked up, and what it leads to is read *)

\* _complete_reg_verify and register_by_verify, login_code, verify_magic_link,
\* handle_oauth_callback, bind_oauth, complete_passkey_registration.
Present(c, p) ==
    /\ p \in Found(p.kind)
    /\ p.kind # "challenge"
    /\ \E name \in FreeNames \cup {None} :
         /\ name = None <=> FreeNames = {}
         /\ Begin(c, [op |-> "present", p |-> p, name |-> name,
                      mail |-> {u.id : u \in ByMail}, github |-> {u.id : u \in ByGithub}])
    /\ UNCHANGED <<db, hist>>

\* The account that was found is signed in.
CommitSignIn(c) ==
    LET r == tx[c] IN
    /\ r.op = "present"
    /\ Live(r.p)
    /\ \E i \in IF r.p.kind = "github" THEN r.github
                ELSE IF r.p.kind = "bind" THEN {} ELSE r.mail :
         hist' = SignedIn(hist, r.p, i)
    /\ db' = [db EXCEPT !.proofs = @ \ {r.p}]
    /\ Finish(c)

\* register_by_verify and handle_oauth_callback create one; an address that
\* GitHub gives and somebody has is refused.
CommitNew(c) ==
    LET r == tx[c]
        hub == r.p.kind = "github"
        u == NewUser(r.name, hub => HubMail, hub, FALSE) IN
    /\ r.op = "present"
    /\ \/ r.p.kind = "register" /\ r.mail = {}
       \/ hub /\ r.github = {} /\ (u.mail => r.mail = {})
    /\ r.name # None
    /\ Live(r.p) /\ NoDuplicate(u)
    /\ db' = [Create(db, u) EXCEPT !.proofs = @ \ {r.p}]
    /\ hist' = SignedIn(hist, r.p, u.id)
    /\ Finish(c)

\* bind_oauth: the account that asked for the state is bound.
CommitBind(c) ==
    LET r == tx[c] IN
    /\ r.op = "present" /\ r.p.kind = "bind"
    /\ r.github = {} /\ ByGithub = {}
    /\ Live(r.p)
    /\ db' = [db EXCEPT !.proofs = @ \ {r.p},
                        !.users = {[u EXCEPT !.github = @ \/ u.id = r.p.owner] : u \in db.users}]
    /\ hist' = Accept(hist, r.p)
    /\ Finish(c)

----------------------------------------------------------------------------
(* Passkeys: the row of the authenticator's credential, numbered *)

\* complete_passkey_registration; delete_credential.
AddPasskey(c, p, i) ==
    /\ p.kind = "challenge" /\ Live(p)
    /\ db.passkey.owner = 0
    /\ AtOnce(c)
    /\ db' = [db EXCEPT !.proofs = @ \ {p}, !.passkey = [owner |-> i, count |-> db.device, row |-> @.row + 1]]
    /\ hist' = [Accept(hist, p) EXCEPT !.top = db.device]

DeletePasskey(c) ==
    /\ db.passkey.owner # 0
    /\ AtOnce(c)
    /\ db' = [db EXCEPT !.passkey.owner = 0, !.passkey.count = 0]
    /\ UNCHANGED hist

\* complete_passkey_login: the authenticator counts, the row is read.
PasskeyLogin(c, p) ==
    /\ p.kind = "challenge" /\ p \in db.proofs
    /\ db.passkey.owner # 0
    /\ db.device + 1 > db.passkey.count
    /\ Begin(c, [op |-> "passkey", p |-> p, row |-> db.passkey.row, owner |-> db.passkey.owner, count |-> db.device + 1])
    /\ db' = [db EXCEPT !.device = @ + 1]
    /\ UNCHANGED hist

\* sign_count = new_sign_count
Counted(count) == count

\* The UPDATE names the row that was read: it fails when that one is deleted.
CommitPasskey(c) ==
    LET r == tx[c] IN
    /\ r.op = "passkey"
    /\ Live(r.p)
    /\ db.passkey.owner # 0 /\ db.passkey.row = r.row
    /\ db' = [db EXCEPT !.proofs = @ \ {r.p}, !.passkey.count = Counted(r.count)]
    /\ hist' = [SignedIn(hist, r.p, r.owner)
                  EXCEPT !.top = IF r.count > @ THEN r.count ELSE @,
                         !.overlap = @ \/ Open("passkey") # {c}]
    /\ Finish(c)

----------------------------------------------------------------------------

Ids == {u.id : u \in db.users}
Kinds == {"register", "login", "link", "github", "challenge"}

Next ==
    \/ \E c \in Conns :
         \/ \E k \in Kinds : Give(c, k, 0)
         \/ \E i \in Ids : Give(c, "bind", i) \/ \E p \in db.proofs : AddPasskey(c, p, i)
         \/ \E n \in Names : StorePending(c, n) \/ RegisterLocal(c, n) \/ ReadPending(c, n)
         \/ \E p \in db.proofs : Present(c, p) \/ PasskeyLogin(c, p)
         \/ CommitLocal(c) \/ CommitPending(c) \/ CommitSignIn(c) \/ CommitNew(c) \/ CommitBind(c)
         \/ DeletePasskey(c) \/ CommitPasskey(c) \/ Fail(c)
    \/ \E p \in db.proofs : Expire(p)

Spec == Init /\ [][Next]_vars

----------------------------------------------------------------------------

\* A code, link, state, challenge or pending registration is accepted once.
AcceptedOnce == hist.again = {}

\* The account that a mailed proof signs in has the address, and the one that
\* GitHub signs in is bound.
RightAccount ==
    \A s \in hist.sessions, u \in db.users : s.id = u.id =>
        /\ s.kind \in {"register", "login", "link"} => u.mail
        /\ s.kind = "github" => u.github

\* Two accounts never share a name, the address or the GitHub user.
Distinct == \A u, v \in db.users : (u.name = v.name \/ (u.mail /\ v.mail) \/ (u.github /\ v.github)) => u = v

\* The stored count is the highest accepted, unless two logins overlapped.
CountKept == db.passkey.owner # 0 => db.passkey.count = hist.top \/ hist.overlap

SignInSound == AcceptedOnce /\ RightAccount /\ Distinct /\ CountKept

=============================================================================

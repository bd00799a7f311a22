---------------------------- MODULE SecondFactor ----------------------------
(***************************************************************************)
(* The second factor of one account (TOTP and recovery codes: its set-up,  *)
(* use and removal) and the recovery of its password, which asks for it.   *)
(* Everything that is accepted once is taken by a conditional UPDATE or a  *)
(* unique INSERT; the TOTP row itself is read without a lock and written   *)
(* column by column.  A wrong code raises, and the count of failures,      *)
(* written in a savepoint, is rolled back with the request (Fail).         *)
(***************************************************************************)
EXTENDS Requests

CONSTANTS
    SetupTokens,    \* tokens an administrator without TOTP got at the login
    Txns,           \* recovery transactions
    MaxNow          \* bound on the 30 second steps

\* A row of totp: secret 0 is no row or an empty one, last 0 is no counter.
Off(t) == ~t.on

User == [level : {"normal", "admin"}, on : BOOLEAN]

Init ==
    /\ \E u \in User :
         db = [level |-> u.level, now |-> 1,
               totp |-> [row |-> u.on, secret |-> IF u.on THEN 1 ELSE 0, on |-> u.on, last |-> 0],
               codes |-> IF u.on THEN {1} ELSE {}, made |-> 1,
               setup |-> [s \in SetupTokens |-> "free"],
               proofs |-> {[kind |-> "code", n |-> k] : k \in 1..2}, mailed |-> 2, txns |-> [t \in Txns |-> "none"],
               contact |-> {}, totpOk |-> {}, tokens |-> {}, used |-> {}, resets |-> 0]
    /\ hist = [taken |-> {}, again |-> {}, confirmed |-> {1}, overlap |-> FALSE,
               proved |-> {}]
    /\ Resting

----------------------------------------------------------------------------
(* What is accepted once *)

\* history: x was accepted, for the second time if it is known already.  What
\* is accepted has a kind: a set-up token and a temporary one have their own.
Setup(s) == [kind |-> "setup", n |-> 0, t |-> s]
Temporary(k) == [kind |-> "temp", n |-> k.n, t |-> k.t]
Accept(h, X) == [h EXCEPT !.taken = @ \cup X, !.again = @ \cup (X \cap h.taken)]

\* A new enrolment has its own counters.
Forget(X) == {x \in X : x \in [kind : {"totp"}, n : 1..(MaxNow + 1)]}

Alters(c) == tx[c].op \in {"begin", "complete", "disable"}
Overlap(h, c) == [h EXCEPT !.overlap = @ \/ \E o \in Conns \ {c} : Alters(o)]

\* consume_recovery_code: UPDATE ... WHERE used IS FALSE.
Unused(k) == k \in db.codes

\* Faulty variant of Fresh: a counter equal to the last one passes.
FreshOrEqual(n) == db.totp.last <= n

\* replay_conditions: last_counter IS NULL OR last_counter < counter.
Fresh(n) == db.totp.last < n

\* verify_totp: the steps around now.  The user knows every secret set up.
Window == {n \in 1..(MaxNow + 1) : n + 1 >= db.now /\ n <= db.now + 1}

\* _verify_totp_guarded and verify_second_factor, on the row the request read.
Factors == {[kind |-> "backup", n |-> k] : k \in db.codes}
             \cup {[kind |-> "totp", n |-> n] : n \in {m \in Window : db.totp.on /\ db.totp.secret # 0}}

Usable(f) == f.kind = "backup" => Unused(f.n)
SpendFactor(d, f) == [d EXCEPT !.codes = IF f.kind = "backup" THEN @ \ {f.n} ELSE @]
FactorTaken(f) == IF f.kind = "backup" THEN {f} ELSE {}

----------------------------------------------------------------------------
(* Set-up *)

NoToken == "none"

\* setup_2fa_begin, setup_2fa_temp (which claims its token by an INSERT).
SetupBegin(c, s) ==
    /\ Off(db.totp)
    /\ s # NoToken => db.level = "admin" /\ db.setup[s] = "free"
    /\ Begin(c, [op |-> "begin", s |-> s, row |-> db.totp.row])
    /\ UNCHANGED <<db, hist>>

\* Only the secret changes: the row was read as not enabled.  A second INSERT
\* of the row, or of the token, is a unique violation.
CommitBegin(c) ==
    LET r == tx[c] IN
    /\ r.op = "begin"
    /\ r.s # NoToken => db.setup[r.s] = "free"
    /\ ~r.row => ~db.totp.row
    /\ db' = [db EXCEPT !.totp.secret = db.made + 1, !.totp.row = TRUE, !.made = @ + 1,
                        !.setup = [s \in SetupTokens |-> IF s = r.s THEN "begun" ELSE @[s]]]
    /\ hist' = Overlap(hist, c)
    /\ Finish(c)

\* setup_2fa_complete(_temp): the code is checked against the secret read.
SetupComplete(c, s) ==
    /\ db.totp.row /\ Off(db.totp) /\ db.totp.secret # 0
    /\ s # NoToken => db.setup[s] = "begun"
    /\ Begin(c, [op |-> "complete", s |-> s, secret |-> db.totp.secret])
    /\ UNCHANGED <<db, hist>>

CommitComplete(c) ==
    LET r == tx[c] IN
    /\ r.op = "complete"
    /\ r.s # NoToken => db.setup[r.s] = "begun"
    /\ db' = [db EXCEPT !.totp.on = TRUE, !.codes = @ \cup {db.made + 1}, !.made = @ + 1,
                        !.setup = [s \in SetupTokens |-> IF s = r.s THEN "done" ELSE @[s]]]
    /\ hist' = Overlap([Accept(hist, IF r.s = NoToken THEN {} ELSE {Setup(r.s)})
                          EXCEPT !.confirmed = @ \cup {r.secret}], c)
    /\ Finish(c)

----------------------------------------------------------------------------
(* Use and removal *)

\* step_up_2fa with a recovery code.
StepUp(c, k) ==
    /\ Unused(k) /\ k <= db.made
    /\ AtOnce(c)
    /\ db' = [db EXCEPT !.codes = @ \ {k}]
    /\ hist' = Accept(hist, {[kind |-> "backup", n |-> k]})

Disable(c, f) ==
    /\ db.totp.on
    /\ f \in Factors
    /\ Begin(c, [op |-> "disable", f |-> f, last |-> db.totp.last])
    /\ UNCHANGED <<db, hist>>

\* disable_2fa: last_counter is written only when it was read as set.
CommitDisable(c) ==
    LET r == tx[c] IN
    /\ r.op = "disable"
    /\ Usable(r.f)
    /\ db' = [db EXCEPT !.totp = [row |-> TRUE, on |-> FALSE, secret |-> 0,
                                  last |-> IF r.last = 0 THEN db.totp.last ELSE 0],
                        !.codes = {}, !.level = "normal"]
    /\ hist' = Overlap([Accept(hist, FactorTaken(r.f)) EXCEPT !.taken = @ \ Forget(@)], c)
    /\ Finish(c)

Tick == db.now < MaxNow /\ db' = [db EXCEPT !.now = @ + 1] /\ UNCHANGED <<tx, hist, left>>

----------------------------------------------------------------------------
(* Recovery of the password *)

\* recover_phone, recover_email, recover_magic_link: a code or a link is sent.
RequestProof(c, kind) ==
    /\ AtOnce(c)
    /\ db' = [db EXCEPT !.proofs = @ \cup {[kind |-> kind, n |-> db.mailed + 1]}, !.mailed = @ + 1]
    /\ UNCHANGED hist

\* A link is found by its hash, of the codes only the newest is tried.
Found == {p \in db.proofs : p.kind = "link" \/ \A q \in db.proofs : q.kind = "code" => q.n <= p.n}

\* recover_by_contact, recover_by_magic_link; _user_requires_mfa.
Recover(c, p, t) ==
    /\ db.level # "admin" /\ p \in Found /\ db.txns[t] = "none"
    /\ Begin(c, [op |-> "recover", p |-> p, mfa |-> db.totp.on, t |-> t])
    /\ UNCHANGED <<db, hist>>

CommitRecover(c) ==
    LET r == tx[c] IN
    /\ r.op = "recover"
    /\ r.p \in db.proofs /\ db.txns[r.t] = "none"
    /\ db' = IF r.mfa
             THEN [db EXCEPT !.proofs = @ \ {r.p}, !.txns[r.t] = "open", !.contact = @ \cup {r.t},
                             !.tokens = @ \cup {[t |-> r.t, n |-> r.p.n]}]
             ELSE [db EXCEPT !.proofs = @ \ {r.p}, !.resets = @ + 1]
    /\ hist' = Accept(hist, {r.p})
    /\ Finish(c)

\* recover_admin_begin
AdminBegin(c, t) ==
    /\ db.level = "admin" /\ db.txns[t] = "none"
    /\ AtOnce(c)
    /\ db' = [db EXCEPT !.txns[t] = "open", !.mailed = @ + 1,
                        !.proofs = @ \cup {[kind |-> "code", n |-> db.mailed + 1]}]
    /\ UNCHANGED hist

\* recover_admin_verify_contact: every code that is taken gives a token.
VerifyContact(c, t) ==
    /\ db.txns[t] = "open"
    /\ \E p \in {q \in Found : q.kind = "code"} :
         /\ db' = [db EXCEPT !.proofs = @ \ {p}, !.contact = @ \cup {t},
                             !.tokens = @ \cup {[t |-> t, n |-> p.n]}]
         /\ hist' = Accept(hist, {p})
    /\ AtOnce(c)

\* verify_2fa: the code is checked on the row that was read ...
Verify(c, k, f) ==
    /\ f \in Factors /\ k \notin db.used
    /\ Begin(c, [op |-> "verify", k |-> k, f |-> f])
    /\ UNCHANGED <<db, hist>>

\* ... and taken, then the token: a unique INSERT into temp_token_usages.
CommitVerify(c) ==
    LET r == tx[c] IN
    /\ r.op = "verify"
    /\ r.k \notin db.used
    /\ IF r.f.kind = "backup" THEN Unused(r.f.n) ELSE Fresh(r.f.n)
    /\ db' = [SpendFactor(db, r.f) EXCEPT !.used = @ \cup {r.k},
                !.totp.last = IF r.f.kind = "totp" THEN r.f.n ELSE @]
    /\ hist' = [Accept(hist, {r.f, Temporary(r.k)}) EXCEPT !.proved = @ \cup {r.k.t}]
    /\ Finish(c)

\* recover_admin_verify_totp, for users as well.
VerifyTotp(c, k) ==
    /\ db.txns[k.t] = "open" /\ k.t \in db.contact /\ k \in db.used
    /\ AtOnce(c)
    /\ db' = [db EXCEPT !.totpOk = @ \cup {k.t}]
    /\ UNCHANGED hist

\* consume_conditions of RecoveryTransactionRepository.
Consumable(t) == db.txns[t] = "open" /\ t \in db.contact /\ t \in db.totpOk

\* recover_user_complete, recover_admin_complete: _consume_recovery_txn and
\* _reset_password.
RecoverComplete(c, t) ==
    /\ Consumable(t)
    /\ AtOnce(c)
    /\ db' = [db EXCEPT !.txns[t] = "consumed", !.resets = @ + 1]
    /\ UNCHANGED hist

ExpireTxn(t) ==
    /\ db.txns[t] = "open"
    /\ db' = [db EXCEPT !.txns[t] = "expired"]
    /\ UNCHANGED <<tx, hist, left>>

----------------------------------------------------------------------------

Next ==
    \/ \E c \in Conns :
         \/ \E s \in SetupTokens \cup {NoToken} : SetupBegin(c, s) \/ SetupComplete(c, s)
         \/ \E k \in 1..db.made : StepUp(c, k)
         \/ \E f \in Factors : Disable(c, f)
         \/ \E kind \in {"code", "link"} : RequestProof(c, kind)
         \/ \E p \in db.proofs, t \in Txns : Recover(c, p, t)
         \/ \E t \in Txns : AdminBegin(c, t) \/ VerifyContact(c, t) \/ RecoverComplete(c, t)
         \/ \E k \in db.tokens : VerifyTotp(c, k) \/ \E f \in Factors : Verify(c, k, f)
         \/ CommitBegin(c) \/ CommitComplete(c) \/ CommitDisable(c)
         \/ CommitRecover(c) \/ CommitVerify(c) \/ Fail(c)
    \/ Tick \/ \E t \in Txns : ExpireTxn(t)

Spec == Init /\ [][Next]_vars

----------------------------------------------------------------------------

\* A recovery code, a mailed proof, a set-up or temporary token, and a TOTP
\* counter shown to verify_2fa since the last removal are each accepted once.
AcceptedOnce == hist.again = {}

\* The password of a recovery transaction is reset only after the second
\* factor was shown for that transaction.
FactorShown == \A t \in Txns : db.txns[t] = "consumed" => t \in hist.proved

\* The factor in force is one the user has confirmed with a code, unless a
\* set-up or a removal was committed while another one was under way.
SecretConfirmed == db.totp.on => db.totp.secret \in hist.confirmed \/ hist.overlap

FactorSound == AcceptedOnce /\ FactorShown /\ SecretConfirmed

=============================================================================

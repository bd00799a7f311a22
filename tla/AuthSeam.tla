------------------------------ MODULE AuthSeam ------------------------------
(***************************************************************************)
(* Business processes reach the auth service over HTTP: every call passes  *)
(* one circuit breaker of the process, is served in a transaction of auth, *)
(* and its answer is acted on in a transaction of the business database.   *)
(* The two commits are apart, answers get lost, callers give up.           *)
(***************************************************************************)
EXTENDS Requests

CONSTANTS
    Threshold   \* auth_http_circuit_failures, at least 1

\* The breaker; auth's side: one account with its admission, its role and
\* the audit rows; the business side: acts committed after an audit, after a
\* grant, and for a session that was judged.
Init ==
    /\ db = [state |-> "closed", failures |-> 0, cooled |-> FALSE, probing |-> FALSE,
             live |-> TRUE, admission |-> "pending", raised |-> FALSE, audits |-> 0, acts |-> 0, promoted |-> FALSE]
    /\ hist = [dropped |-> FALSE, late |-> FALSE, overlapped |-> FALSE, flipped |-> FALSE]
    /\ Resting

----------------------------------------------------------------------------
(* CircuitBreaker *)

\* allow: closed, or open and cooled, which makes this call the probe.
Allow == db.state = "closed" \/ (db.state = "open" /\ db.cooled) \/ (db.state = "half_open" /\ ~db.probing)

Probe == db.state # "closed"

Allowed == IF Probe THEN [db EXCEPT !.state = "half_open", !.probing = TRUE, !.cooled = FALSE] ELSE db

RecordSuccess(d) == [d EXCEPT !.state = "closed", !.failures = 0, !.probing = FALSE, !.cooled = FALSE]

\* Faulty variant of RecordFailure: a failed probe leaves its mark.
RecordFailureMarked(d) ==
    IF d.state = "half_open" THEN [d EXCEPT !.cooled = FALSE]
    ELSE IF d.failures + 1 >= Threshold
         THEN [d EXCEPT !.failures = Threshold, !.state = "open", !.cooled = FALSE]
         ELSE [d EXCEPT !.failures = @ + 1]

\* A failed probe opens the circuit again; otherwise failures are counted
\* (as far as the threshold).
RecordFailure(d) ==
    IF d.state = "half_open" THEN [d EXCEPT !.state = "open", !.probing = FALSE, !.cooled = FALSE]
    ELSE IF d.failures + 1 >= Threshold
         THEN [d EXCEPT !.failures = Threshold, !.state = "open", !.cooled = FALSE]
         ELSE [d EXCEPT !.failures = @ + 1]

\* The reset time is over.
Cool ==
    /\ db.state = "open"
    /\ ~db.cooled
    /\ db' = [db EXCEPT !.cooled = TRUE]
    /\ UNCHANGED <<tx, hist, left>>

----------------------------------------------------------------------------
(* One call *)

\* _request sends it, if the breaker allows.
Call(c, k, say) ==
    /\ Allow
    /\ Begin(c, [op |-> k, at |-> "out", say |-> say, answer |-> "none", probe |-> Probe])
    /\ db' = Allowed
    /\ UNCHANGED hist

AuthorizeViaSeam(c) == Call(c, "authz", "")
WriteAuditViaSeam(c) == Call(c, "audit", "")
GrantViaSeam(c) == Call(c, "grant", "")
DecideAdmissionViaSeam(c, say) == Call(c, "decide", say)

\* Calls that only ask.
FetchUserHttpPayload(c) == Call(c, "ask", "")
FetchUsersHttpBatch(c) == Call(c, "ask", "")
VerifyPasswordViaSeam(c) == Call(c, "ask", "")
FetchAdmission(c) == Call(c, "ask", "")
MintBotSsoTicket(c) == Call(c, "ask", "")

\* A result of a call sent before the circuit opened meets a probe.
Late(c) == db.state = "half_open" /\ ~tx[c].probe

\* The service, when it is there, handles the call in a transaction.
Answer(c, a, d) ==
    /\ tx[c].at = "out"
    /\ db' = d
    /\ Continue(c, [tx[c] EXCEPT !.at = "back", !.answer = a])

\* internal_authz: the session is judged on what is committed now.
ServeAuthz(c) == tx[c].op = "authz" /\ Answer(c, IF db.live THEN "ok" ELSE "no", db) /\ UNCHANGED hist

\* Found or not found; a password matches or it does not.
Readings == {"ok", "no"}

\* The reading endpoints.
ServeAsk(c) == tx[c].op = "ask" /\ (\E a \in Readings : Answer(c, a, db)) /\ UNCHANGED hist

\* internal_audit commits before its caller does.
ServeAudit(c) == tx[c].op = "audit" /\ Answer(c, "ok", [db EXCEPT !.audits = @ + 1]) /\ UNCHANGED hist

\* internal_grant: only ever upwards, and repeating it changes nothing.
ServeGrant(c) == tx[c].op = "grant" /\ Answer(c, "ok", [db EXCEPT !.raised = TRUE]) /\ UNCHANGED hist

\* decide_admission: 409 unless pending, read without a lock.
Decidable(c) == db.admission = "pending"

ReadDecide(c) ==
    /\ tx[c].op = "decide"
    /\ \/ Decidable(c) /\ tx[c].at = "out"
          /\ Continue(c, [tx[c] EXCEPT !.at = "deciding"]) /\ UNCHANGED db
       \/ ~Decidable(c) /\ Answer(c, "conflict", db)
    /\ UNCHANGED hist

\* The status is written over whatever is there; a rejection ends the sessions.
ServeDecide(c) ==
    /\ tx[c].op = "decide"
    /\ tx[c].at = "deciding"
    /\ db' = [db EXCEPT !.admission = tx[c].say, !.live = @ /\ tx[c].say # "rejected"]
    /\ hist' = [hist EXCEPT !.flipped = @ \/ db.admission # "pending",
                            !.overlapped = @ \/ \E o \in Open("decide") \ {c} : tx[o].at = "deciding"]
    /\ Continue(c, [tx[c] EXCEPT !.at = "back", !.answer = "ok"])

\* A failure there is a 5xx and leaves nothing.
ServeError(c) ==
    /\ tx[c].at \in {"out", "deciding"}
    /\ Continue(c, [tx[c] EXCEPT !.at = "back", !.answer = "error"])
    /\ UNCHANGED <<db, hist>>

----------------------------------------------------------------------------
(* What the caller makes of it *)

\* Only a well-formed yes: a refusal ends the request, anything else is
\* UserHttpUnavailable, and the seams that write or judge refuse on it.
GoesOn(a) == a = "ok"

\* The response arrives; a 5xx counts as a failure, the rest as success.
\* Decisions and questions have nothing more to commit on this side.
Reply(c) ==
    /\ tx[c].at = "back"
    /\ db' = IF tx[c].answer = "error" THEN RecordFailure(db) ELSE RecordSuccess(db)
    /\ hist' = [hist EXCEPT !.late = @ \/ Late(c)]
    /\ IF GoesOn(tx[c].answer) /\ tx[c].op \notin {"decide", "ask"}
       THEN Continue(c, [tx[c] EXCEPT !.at = "acting", !.probe = FALSE]) ELSE Finish(c)

\* No connection, a timeout, a response that is lost: UserHttpUnavailable,
\* which every seam turns into UNAVAILABLE, the end of the request.
Lost(c) ==
    /\ tx[c].at \in {"out", "deciding", "back"}
    /\ db' = RecordFailure(db)
    /\ hist' = [hist EXCEPT !.late = @ \/ Late(c)]
    /\ Finish(c)

\* The caller is cancelled while it waits (the hard timeout of GraphQL, the
\* timeout of a job): neither success nor failure is recorded.
Cancel(c) ==
    /\ tx[c].at \in {"out", "deciding", "back"}
    /\ hist' = [hist EXCEPT !.dropped = @ \/ tx[c].probe]
    /\ Finish(c)
    /\ UNCHANGED db

\* The business transaction commits what the call was needed for.
ActAudited(c) ==
    /\ tx[c].at = "acting" /\ tx[c].op = "audit"
    /\ db' = [db EXCEPT !.acts = @ + 1]
    /\ Finish(c)
    /\ UNCHANGED hist

ActGranted(c) ==
    /\ tx[c].at = "acting" /\ tx[c].op = "grant"
    /\ db' = [db EXCEPT !.promoted = TRUE]
    /\ Finish(c)
    /\ UNCHANGED hist

ActAuthorized(c) == tx[c].at = "acting" /\ tx[c].op = "authz" /\ Finish(c) /\ UNCHANGED <<db, hist>>

\* ... or fails, which takes nothing back from auth.
RollBack(c) == tx[c].at = "acting" /\ Finish(c) /\ UNCHANGED <<db, hist>>

----------------------------------------------------------------------------

\* The account's sessions are ended by auth itself.
EndSessions(c) ==
    /\ db.live
    /\ AtOnce(c)
    /\ db' = [db EXCEPT !.live = FALSE]
    /\ UNCHANGED hist

Busy(c) == tx[c] # Idle

Next ==
    \/ \E c \in Conns :
         \/ AuthorizeViaSeam(c) \/ WriteAuditViaSeam(c) \/ GrantViaSeam(c)
         \/ \E say \in {"active", "rejected"} : DecideAdmissionViaSeam(c, say)
         \/ FetchUserHttpPayload(c) \/ FetchUsersHttpBatch(c) \/ VerifyPasswordViaSeam(c)
         \/ FetchAdmission(c) \/ MintBotSsoTicket(c) \/ EndSessions(c)
    \/ \E c \in {x \in Conns : Busy(x)} :
         \/ ServeAuthz(c) \/ ServeAsk(c) \/ ServeAudit(c) \/ ServeGrant(c)
         \/ ReadDecide(c) \/ ServeDecide(c) \/ ServeError(c)
         \/ Reply(c) \/ Lost(c) \/ Cancel(c)
         \/ ActAudited(c) \/ ActGranted(c) \/ ActAuthorized(c) \/ RollBack(c)
    \/ Cool

Spec == Init /\ [][Next]_vars

----------------------------------------------------------------------------

Probes == {c \in Conns : Busy(c) /\ tx[c].probe}

\* A half-open circuit waits for a probe that is under way: it cannot stay
\* shut for ever, unless the probe was cancelled.
ProbeUnderWay == db.state = "half_open" => Probes # {} \/ hist.dropped

\* One probe at a time, unless an older call returned in between.
OneProbe == Cardinality(Probes) <= 1 \/ hist.late

\* Nothing is committed by the business side without its counterpart in
\* auth: an audit row for each act, the promotion.
ActsCovered == db.acts <= db.audits /\ (db.promoted => db.raised)

\* An application is decided once, whatever answers got lost and were
\* retried, unless two decisions overlapped.
DecidedOnce == hist.flipped => hist.overlapped

SeamSound == ProbeUnderWay /\ OneProbe /\ ActsCovered /\ DecidedOnce

\* The breaker's own promise: after the cooling a probe is let through, its
\* success closes the circuit and its failure opens it again, so a half-open
\* circuit always has a probe out.
HalfOpenProbes == db.state = "half_open" => Probes # {}

=============================================================================

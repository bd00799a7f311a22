------------------------------- MODULE Exams -------------------------------
(***************************************************************************)
(* Exams and competitions: attempts, grading, certificates, the promotion  *)
(* of who passes, and the ranking.  The promotion is a call to the auth    *)
(* service, which commits it on its own before the submission commits.     *)
(***************************************************************************)
EXTENDS Requests, SequencesExt

CONSTANTS Users, Exams, Seeded, Attempts, Scores, PassScore

\* Rows of exams: published, promoting (unlock_level or unlock_role set), a
\* competition, with a time window (starts_at, ends_at) or a time limit per
\* attempt.
Exam(published, unlocks, contest, windowed) ==
    [published |-> published, unlocks |-> unlocks, contest |-> contest, windowed |-> windowed, over |-> FALSE]

\* A row of exam_attempts; `late`: time_limit_min has passed since its start.
ExamAttempt(e, u) == [exam |-> e, user |-> u, status |-> "in_progress", passed |-> FALSE, late |-> FALSE]

\* A row of exam_certificates, issued_at the time n.
ExamCertificate(e, u, s, n) == [exam |-> e, user |-> u, score |-> s, issued |-> n]

\* seed_exams publishes; no endpoint publishes an exam.
Init ==
    /\ \E unlocks, contest, windowed \in BOOLEAN :
         db = [exams |-> [e \in {Seeded} |-> Exam(TRUE, unlocks, contest, windowed)], attempts |-> <<>>,
               certs |-> {}, unlocked |-> {}, queued |-> 0]
    /\ hist = [overlaps |-> [u \in Users |-> 0], torn |-> {}]
    /\ Resting

Put(f, k, v) == [x \in DOMAIN f \cup {k} |-> IF x = k THEN v ELSE f[x]]

CertsOf(e, u) == {x \in db.certs : x.exam = e /\ x.user = u}

\* create_exam_ex: is_published keeps its default.
CreateExam(c, e, unlocks, contest) ==
    /\ e \notin DOMAIN db.exams
    /\ AtOnce(c)
    /\ db' = [db EXCEPT !.exams = Put(@, e, Exam(FALSE, unlocks, contest, FALSE))]
    /\ UNCHANGED hist

----------------------------------------------------------------------------

\* _check_window.
InWindow(e) == ~db.exams[e].over

\* The window, and for a promoting exam no certificate yet.
MayTake(e, u) == InWindow(e) /\ (db.exams[e].unlocks => CertsOf(e, u) = {})

StartAttempt(c, e, u) ==
    /\ e \in DOMAIN db.exams
    /\ db.exams[e].published
    /\ MayTake(e, u)
    /\ AtOnce(c)
    /\ \E a \in Attempts \ DOMAIN db.attempts :
         /\ a = Min(Attempts \ DOMAIN db.attempts)
         /\ db' = [db EXCEPT !.attempts = Put(@, a, ExamAttempt(e, u))]
    /\ UNCHANGED hist

\* _check_attempt_deadline: only without a window.
InTime(t) == db.exams[t.exam].windowed \/ ~t.late

Submissions(u) ==
    {c \in Conns : tx[c].op \in {"submit", "graded"} /\ db.attempts[tx[c].attempt].user = u}

\* What submit_attempt reads: the attempt, the exam, the certificates.
SubmitAttempt(c, a, score) ==
    /\ a \in DOMAIN db.attempts
    /\ LET t == db.attempts[a] IN
       /\ t.status # "submitted"
       /\ InTime(t)
       /\ MayTake(t.exam, t.user)
       /\ Begin(c, [op |-> "submit", attempt |-> a, score |-> score, issued |-> 0])
       /\ hist' = [hist EXCEPT !.overlaps[t.user] = @ + Cardinality(Submissions(t.user))]
    /\ UNCHANGED db

Passed(r) == r.score >= PassScore

\* _apply_unlock, at the auth service: it commits there.
ApplyUnlock(r) ==
    LET t == db.attempts[r.attempt] IN
    IF Passed(r) /\ db.exams[t.exam].unlocks
    THEN db' = [db EXCEPT !.unlocked = @ \cup {t.user}]
    ELSE UNCHANGED db

\* The present time: later than every certificate, committed or not.
Now == 1 + Max({0} \cup {x.issued : x \in db.certs} \cup {tx[c].issued : c \in Open("graded")})

\* The attempt's row is written (and locked), the certificate inserted, which
\* dates it, then auth is called.
Grade(c) ==
    LET r == tx[c] IN
    /\ r.op = "submit"
    /\ \A o \in Open("graded") : tx[o].attempt # r.attempt
    /\ ApplyUnlock(r)
    /\ Continue(c, [r EXCEPT !.op = "graded", !.issued = IF Passed(r) THEN Now ELSE 0])
    /\ UNCHANGED hist

CommitSubmission(c) ==
    LET r == tx[c]
        t == db.attempts[r.attempt]
    IN
    /\ r.op = "graded"
    /\ db' = [db EXCEPT
         !.attempts[r.attempt].status = "submitted",
         !.attempts[r.attempt].passed = Passed(r),
         !.certs = IF Passed(r) THEN @ \cup {ExamCertificate(t.exam, t.user, r.score, r.issued)} ELSE @,
         !.queued = IF Passed(r) THEN @ + 1 ELSE @]
    /\ Finish(c)
    /\ UNCHANGED hist

\* The submission is lost after auth was called.
LoseSubmission(c) ==
    /\ tx[c].op = "graded"
    /\ hist' = [hist EXCEPT !.torn = @ \cup {db.attempts[tx[c].attempt].user}]
    /\ Finish(c)
    /\ UNCHANGED db

\* ends_at passes; the time of an attempt passes, where one is asked of it.
Close(e) ==
    /\ e \in DOMAIN db.exams
    /\ db.exams[e].windowed /\ ~db.exams[e].over
    /\ db' = [db EXCEPT !.exams[e].over = TRUE]
    /\ UNCHANGED <<tx, hist, left>>

Expire(a) ==
    /\ a \in DOMAIN db.attempts
    /\ db.attempts[a].status # "submitted" /\ InTime(db.attempts[a]) /\ ~db.exams[db.attempts[a].exam].windowed
    /\ db' = [db EXCEPT !.attempts[a].late = TRUE]
    /\ UNCHANGED <<tx, hist, left>>

----------------------------------------------------------------------------
(* The ranking of a competition *)

\* Faulty variant of Before: of equal scores the later certificate first.
BeforeLater(x, y) == x.score > y.score \/ (x.score = y.score /\ x.issued > y.issued)

\* list_for_exam, and the sort of the winners: by score, the earlier
\* certificate first.
Before(x, y) == x.score > y.score \/ (x.score = y.score /\ x.issued < y.issued)

\* The first certificate of each user, in the same order; nothing for an
\* exam that is not a competition.
Leaderboard(e) ==
    LET rows == SetToSortSeq({x \in db.certs : x.exam = e}, Before)
        best == {rows[k] : k \in {k \in DOMAIN rows : \A j \in 1..(k - 1) : rows[j].user # rows[k].user}}
    IN  IF db.exams[e].contest THEN SetToSortSeq(best, Before) ELSE <<>>

----------------------------------------------------------------------------

Next ==
    \/ \E c \in Conns :
         \/ \E e \in Exams, unlocks, contest \in BOOLEAN : CreateExam(c, e, unlocks, contest)
         \/ \E e \in Exams, u \in Users : StartAttempt(c, e, u)
         \/ \E a \in Attempts, s \in Scores : SubmitAttempt(c, a, s)
         \/ Grade(c) \/ CommitSubmission(c) \/ LoseSubmission(c)
         \/ tx[c].op = "submit" /\ Fail(c)
    \/ \E e \in Exams : Close(e)
    \/ \E a \in Attempts : Expire(a)

Spec == Init /\ [][Next]_vars

----------------------------------------------------------------------------

\* A promoting exam certifies a user once, unless submissions overlapped.
CertsExplained ==
    \A e \in DOMAIN db.exams, u \in Users :
        db.exams[e].unlocks => Cardinality(CertsOf(e, u)) <= 1 + hist.overlaps[u]

\* Who is certified was promoted, and who was promoted is certified or lost a
\* submission after the promotion.
PromotionMatches ==
    LET certified == {u \in Users : \E e \in DOMAIN db.exams : db.exams[e].unlocks /\ CertsOf(e, u) # {}}
        open == {db.attempts[tx[c].attempt].user : c \in Open("graded")}
    IN  /\ certified \subseteq db.unlocked
        /\ db.unlocked \subseteq certified \cup hist.torn \cup open

\* The ranking of a competition lists everyone certified once, each with the
\* earliest of their best certificates, and of two users with one score the
\* first to reach it first, whatever the order in which submissions commit.
RankingSound ==
    \A e \in DOMAIN db.exams :
        LET l == Leaderboard(e) IN
        db.exams[e].contest =>
            /\ {l[k].user : k \in DOMAIN l} = {u \in Users : CertsOf(e, u) # {}}
            /\ \A k \in DOMAIN l : \A x \in CertsOf(e, l[k].user) :
                 x.score < l[k].score \/ (x.score = l[k].score /\ x.issued >= l[k].issued)
            /\ \A k, m \in DOMAIN l : k < m =>
                 /\ l[k].user # l[m].user
                 /\ l[k].score > l[m].score \/ (l[k].score = l[m].score /\ l[k].issued < l[m].issued)

ExamsSound == CertsExplained /\ PromotionMatches /\ RankingSound

=============================================================================

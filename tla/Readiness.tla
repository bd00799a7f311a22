------------------------------ MODULE Readiness ------------------------------
(***************************************************************************)
(* The readiness probe and the public key it depends on.  AUTH signs       *)
(* tokens; another process verifies them with a key of its own or with one *)
(* it fetches from AUTH's JWKS endpoint, in a background loop and, while   *)
(* it has none, in the readiness probe as well.  A probe asks all          *)
(* dependencies at once, each within a time limit.                         *)
(***************************************************************************)
EXTENDS Requests

CONSTANTS
    Hard,       \* dependencies without which the process is not ready
    Soft,       \* dependencies that are only reported
    MaxKey      \* bound on AUTH's signing keys

Probes == Hard \cup Soft \cup {"key"}

Audiences == {"web", "temp"}

\* down are the dependencies that do not answer; key is AUTH's present key,
\* local the key in the process's own configuration, fetched the one from
\* JWKS (0 for none); loop the state of the refresh task and, in "answer",
\* the key that is on its way.  A request for the key is blank when there
\* was none.
Init ==
    /\ db \in [down : {{}, {"auth"}}, inited : {FALSE}, key : {1}, local : {0, 1}, fetched : {0},
               loop : {[st |-> "off", key |-> 0, blank |-> FALSE]}, tokens : {{}}]
    /\ hist = [reached |-> 0, back |-> FALSE, wrong |-> FALSE, said |-> FALSE]
    /\ Resting

----------------------------------------------------------------------------
(* The dependencies *)

\* Requests remember which dependencies they could have found up or down.
Witnessed(down) ==
    tx' = [c \in Conns |-> IF tx[c].op = "ready"
                           THEN [tx[c] EXCEPT !.up = @ \cup (Hard \ down), !.down = @ \cup down] ELSE tx[c]]

\* A dependency goes down or comes back.
Toggle(d) ==
    /\ left > 0 /\ left' = left - 1
    /\ LET down == IF d \in db.down THEN db.down \ {d} ELSE db.down \cup {d} IN
       /\ db' = [db EXCEPT !.down = down]
       /\ Witnessed(down \cup IF db.inited THEN {} ELSE {"db"})
    /\ UNCHANGED hist

\* init_db has finished in the background: until then the database counts
\* as down.
SchemaReady ==
    /\ ~db.inited
    /\ db' = [db EXCEPT !.inited = TRUE]
    /\ Witnessed(db.down)
    /\ UNCHANGED <<hist, left>>

----------------------------------------------------------------------------
(* Keys and tokens *)

\* AUTH restarts with a new key pair.
Rotate ==
    /\ db.key < MaxKey
    /\ db' = [db EXCEPT !.key = @ + 1]
    /\ UNCHANGED <<tx, hist, left>>

\* create_access_token, create_temp_token.
Issue(c, aud) ==
    /\ "auth" \notin db.down
    /\ AtOnce(c)
    /\ db' = [db EXCEPT !.tokens = @ \cup {[key |-> db.key, aud |-> aud]}]
    /\ UNCHANGED hist

\* public_key.
Verifier == IF db.local # 0 THEN db.local ELSE db.fetched

Settled == db.local = 0 /\ ~hist.back

\* decode.
Accepts(t, aud) == Verifier # 0 /\ t.key = Verifier /\ t.aud = aud

\* A token is presented where one for aud is asked for.
Present(c, t, aud) ==
    /\ AtOnce(c)
    /\ hist' = [hist EXCEPT !.wrong =
          \/ @
          \/ Accepts(t, aud) /\ (t.aud # aud \/ (Settled /\ t.key < hist.reached))
          \/ ~Accepts(t, aud) /\ t.aud = aud /\ Settled /\ t.key = db.key /\ hist.reached = db.key]
    /\ UNCHANGED db

----------------------------------------------------------------------------
(* The refresh task *)

Sleeping == [st |-> "sleep", key |-> 0, blank |-> FALSE]

\* The answer k is kept, whatever is there: it may be older than a key held
\* before.
Keeps(k, blank) ==
    hist' = [hist EXCEPT !.reached = IF k > @ THEN k ELSE @, !.back = blank /\ k < hist.reached]

StartRefresh ==
    /\ db.loop.st = "off"
    /\ db' = [db EXCEPT !.loop = Sleeping]
    /\ UNCHANGED <<tx, hist, left>>

\* Cancelled: an answer on its way is dropped.
StopRefresh ==
    /\ db.loop.st # "off"
    /\ db' = [db EXCEPT !.loop = [Sleeping EXCEPT !.st = "off"]]
    /\ UNCHANGED <<tx, hist, left>>

\* refresh_public_key_from_jwks: AUTH answers with its key of the moment.
LoopAsks ==
    /\ db.loop = Sleeping
    /\ db.local = 0
    /\ "auth" \notin db.down
    /\ db' = [db EXCEPT !.loop = [st |-> "answer", key |-> db.key, blank |-> db.fetched = 0]]
    /\ UNCHANGED <<tx, hist, left>>

\* No answer, not 200, or no RSA key in it: the round ends, the key stays.
LoopFails ==
    /\ db.loop.st # "off"
    /\ db.local = 0
    /\ db' = [db EXCEPT !.loop = Sleeping]
    /\ UNCHANGED <<tx, hist, left>>

LoopArrives ==
    /\ db.loop.st = "answer"
    /\ db' = [db EXCEPT !.loop = Sleeping, !.fetched = db.loop.key]
    /\ Keeps(db.loop.key, db.loop.blank)
    /\ UNCHANGED <<tx, left>>

----------------------------------------------------------------------------
(* readiness *)

\* What a probe of a service finds,
Answers(p) == p \notin db.down

\* and the one of the database, which also wants the schema to be there.
Found(p) == Answers(p) /\ (p = "db" => db.inited)

AskReady(c) ==
    /\ Begin(c, [op |-> "ready", todo |-> Probes, bad |-> {}, fetch |-> 0, blank |-> FALSE,
                 up |-> {p \in Hard : Found(p)}, down |-> {p \in Hard \cup Soft : ~Found(p)}])
    /\ UNCHANGED <<db, hist>>

\* One probe ends: with what it found, or as an error after its time limit.
Probe(c, p, late) ==
    /\ tx[c].op = "ready" /\ p \in tx[c].todo \ {"key"}
    /\ Continue(c, [tx[c] EXCEPT !.todo = @ \ {p}, !.bad = IF Found(p) /\ ~late THEN @ ELSE @ \cup {p},
                                 !.down = IF late THEN @ \cup {p} ELSE @])
    /\ UNCHANGED <<db, hist>>

\* _probe_verify_key: there is a key.
ProbeKey(c) ==
    /\ tx[c].op = "ready" /\ "key" \in tx[c].todo /\ tx[c].fetch = 0
    /\ Verifier # 0
    /\ Continue(c, [tx[c] EXCEPT !.todo = @ \ {"key"}])
    /\ UNCHANGED <<db, hist>>

\* Faulty variant of Lacks: every readiness probe asks for the key.
LacksAlways == TRUE

Lacks == Verifier = 0

\* There is none: one is asked for,
ProbeAsks(c) ==
    /\ tx[c].op = "ready" /\ "key" \in tx[c].todo /\ tx[c].fetch = 0
    /\ Lacks /\ "auth" \notin db.down
    /\ Continue(c, [tx[c] EXCEPT !.fetch = db.key, !.blank = Verifier = 0])
    /\ UNCHANGED <<db, hist>>

\* and arrives,
Fetching(c) == tx[c].op = "ready" /\ tx[c].fetch # 0

ProbeArrives(c) ==
    /\ Fetching(c)
    /\ db' = [db EXCEPT !.fetched = tx[c].fetch]
    /\ Keeps(tx[c].fetch, tx[c].blank)
    /\ Continue(c, [tx[c] EXCEPT !.todo = @ \ {"key"}, !.fetch = 0, !.blank = FALSE])

\* or does not within the time limit.
ProbeKeyFails(c) ==
    /\ tx[c].op = "ready" /\ "key" \in tx[c].todo
    /\ Verifier = 0 \/ Fetching(c)
    /\ Continue(c, [tx[c] EXCEPT !.todo = @ \ {"key"}, !.bad = @ \cup {"key"}, !.fetch = 0,
                                 !.blank = FALSE, !.down = @ \cup {"key"}])
    /\ UNCHANGED <<db, hist>>

Ready(bad) == bad \subseteq Soft

\* 200 needs every hard dependency to have been up while it was asked, 503
\* one of them, or the key, to have been missing.
Answer(c) ==
    /\ tx[c].op = "ready" /\ tx[c].todo = {}
    /\ hist' = [hist EXCEPT
          !.said = @ \/ Ready(tx[c].bad),
          !.wrong = @ \/ IF Ready(tx[c].bad) THEN ~(Hard \subseteq tx[c].up)
                         ELSE tx[c].down \subseteq Soft]
    /\ Finish(c)
    /\ UNCHANGED db

Next ==
    \/ \E d \in Hard \cup Soft : Toggle(d)
    \/ SchemaReady \/ Rotate
    \/ StartRefresh \/ StopRefresh \/ LoopAsks \/ LoopFails \/ LoopArrives
    \/ \E c \in Conns :
        \/ \E aud \in Audiences : Issue(c, aud)
        \/ \E t \in db.tokens, aud \in Audiences : Present(c, t, aud)
        \/ AskReady(c)
        \/ \E p \in Hard \cup Soft, late \in BOOLEAN : Probe(c, p, late)
        \/ ProbeKey(c) \/ ProbeAsks(c) \/ ProbeArrives(c) \/ ProbeKeyFails(c)
        \/ Answer(c)

Spec == Init /\ [][Next]_vars

----------------------------------------------------------------------------

\* The process follows AUTH's key: the refresh task and the readiness probes
\* fetch it at the same time while AUTH changes it, and an older answer may
\* come last.  Only one that was asked for before the process had any key
\* does, and the next round that is asked for after that puts it right.
KeyFollows == db.local = 0 /\ db.fetched < hist.reached => hist.back

\* A process that was ever ready can verify tokens: failing rounds and AUTH's
\* outages leave it the last key.
ReadyVerifies == hist.said => Verifier # 0

\* Probes and tokens get the right answer: ready only when every hard
\* dependency was up meanwhile, not ready only when one was not, whatever
\* the soft ones; a token of the present key is taken where it belongs once
\* that key has been fetched, and one of a retired key is not.
AnswersTrue == ~hist.wrong

ReadinessSound == KeyFollows /\ ReadyVerifies /\ AnswersTrue

=============================================================================

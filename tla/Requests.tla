------------------------------ MODULE Requests ------------------------------
(***************************************************************************)
(* What the service modules share.  A request runs on a connection: its    *)
(* reads see what was committed, its writes appear when it commits, and a  *)
(* failure before that leaves nothing of them.  `db` is the committed      *)
(* state of one service (tables, and what it keeps in Redis or in other    *)
(* services), `tx` what each open request has read so far, `hist` history  *)
(* that only properties use, `left` the number of requests still to come.  *)
(* A request that is refused when it begins changes nothing and is left    *)
(* out.                                                                    *)
(***************************************************************************)
EXTENDS Naturals, FiniteSets, Sequences

CONSTANTS
    Conns,          \* database connections, each runs one request at a time
    MaxRequests     \* bound on the requests of a behaviour

VARIABLES db, tx, hist, left

vars == <<db, tx, hist, left>>

Idle == [op |-> "idle"]

Resting == tx = [c \in Conns |-> Idle] /\ left = MaxRequests

\* A request begins on a free connection; r is what its first reads returned.
Begin(c, r) ==
    /\ tx[c] = Idle
    /\ left > 0
    /\ left' = left - 1
    /\ tx' = [tx EXCEPT ![c] = r]

\* The request on c goes on, with r as its local state.
Continue(c, r) == tx' = [tx EXCEPT ![c] = r] /\ UNCHANGED left

\* The request ends: commit (with a change of db) or rollback (without).
Finish(c) == Continue(c, Idle)

\* A whole request in one step: everything it reads is locked or written by
\* one statement, so nothing can come between.
AtOnce(c) == tx[c] = Idle /\ left > 0 /\ left' = left - 1 /\ UNCHANGED tx

\* Open requests of one kind.
Open(op) == {c \in Conns : tx[c].op = op}

\* The request fails before its commit: an error, a lost connection, a crash.
Fail(c) == tx[c] # Idle /\ Finish(c) /\ UNCHANGED <<db, hist>>

=============================================================================

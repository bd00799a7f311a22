--------------------------- MODULE MCAuthSessions ---------------------------
(***************************************************************************)
(* AuthSessions with names of its own, so that it can stand beside the     *)
(* cached snapshot of the same account.                                    *)
(***************************************************************************)
EXTENDS Integers, FiniteSets, Sequences

CONSTANTS
  Conns, Tokens, Threshold, Ops, MaxStarts, MaxAborts,    \* of AuthSessions
  Nothing                                                 \* its None

VARIABLES user, session, access, prior, tvmin, rowLock, authTx, ended, starts, aborts

Auth == INSTANCE AuthSessions WITH None <- Nothing, tx <- authTx

ASSUME AuthAssumption ==
  /\ Threshold \in Nat \ {0} /\ MaxStarts \in Nat /\ MaxAborts \in Nat
  /\ Nothing \notin Conns \cup Tokens /\ Nothing \notin Auth!UserRow

AuthSpec == Auth!FairSpec

\* A refresh token is worth one session, and neither it nor its access token
\* is worth anything once it was ended (refresh_access_token,
\* revoke_all_refresh_tokens).
SessionsSound == Auth!SessionsSound

\* What an account may do is never taken back by a race, and what a failed
\* request took is given back (_lock_user_row, set_token_version).
RightsSettle == Auth!RightsSettle

=============================================================================

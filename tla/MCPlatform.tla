----------------------------- MODULE MCPlatform -----------------------------
(*****************************************************************************)
(* The identity services, the seam to them, and what keeps a process         *)
(* running, each on a small instance; as in MCCommunity a behaviour runs     *)
(* one of them, chosen in Init by `focus`.                                   *)
(*****************************************************************************)
EXTENDS Naturals, FiniteSets, Sequences, TLC

CONSTANTS
    Conns,      \* connections, interchangeable
    NoConn,     \* nobody, where a component records who holds something
    SetupTokens, Txns,          \* of SecondFactor
    Threshold, MaxId, MaxWaiters,       \* of AuthSeam, IdWhitelist, ReadCache
    DimUsers, DimWindow, Tables, MaxKey,   \* of UserDim, Startup, Readiness
    \* bounds on the requests of a behaviour
    FactorRequests, LoginRequests, IdRequests, AdminRequests, SeamRequests, DimRequests, BootRequests, CacheRequests,
    OpsRequests, MediaRequests, WaysRequests, ReadyRequests

ASSUME PlatformAssumption ==
    /\ IsFiniteSet(Conns) /\ NoConn \notin Conns
    /\ {Threshold, MaxId} \subseteq Nat \ {0} /\ MaxWaiters \in Nat /\ MaxKey \in Nat /\ Tables # {}
    /\ {FactorRequests, LoginRequests, IdRequests, AdminRequests, SeamRequests, DimRequests, BootRequests, CacheRequests,
        OpsRequests, MediaRequests, WaysRequests, ReadyRequests} \subseteq Nat

VARIABLES focus, db, tx, hist, left

vars == <<focus, db, tx, hist, left>>

Symmetry == Permutations(Conns)

Roles == {"member", "org", "reviewer", "super"}

Juniors == [r \in Roles |-> CASE r = "super" -> {"org"} [] r = "org" -> {"member"} [] OTHER -> {}]

SSD == {[roles |-> {"org", "reviewer"}, max |-> 1]}

DSD == {[roles |-> {"member", "reviewer"}, max |-> 1]}

----------------------------------------------------------------------------
(* The components, each with its own bounds *)

Factor == INSTANCE SecondFactor WITH MaxRequests <- FactorRequests, MaxNow <- 2

Login == INSTANCE SignIn WITH MaxRequests <- LoginRequests, Names <- {"n1", "n2"}, HubMail <- TRUE, MaxProofs <- 2

Ids == INSTANCE IdWhitelist WITH MaxRequests <- IdRequests

Admin == INSTANCE AdminSessions WITH MaxRequests <- AdminRequests, Primary <- "member", Super <- "super", Extra <- {"super"},
    Defaults <- {"member"}

Seam == INSTANCE AuthSeam WITH MaxRequests <- SeamRequests

Dim == INSTANCE UserDim WITH MaxRequests <- DimRequests, Users <- DimUsers, Window <- DimWindow

Boot == INSTANCE Startup WITH MaxRequests <- BootRequests

Cache == INSTANCE ReadCache WITH MaxRequests <- CacheRequests

Ops == INSTANCE AdminOps WITH MaxRequests <- OpsRequests

Media == INSTANCE BotMedia WITH MaxRequests <- MediaRequests

\* One account with two ways to log in and a local one; two that have some.
Bound(u, w, a) == [user |-> u, way |-> w, addr |-> a]
Starts == {{Bound("u1", "email", 1), Bound("u1", "phone", 1)},
           {Bound("u1", "phone", 1), Bound("u1", "github", 1), Bound("u2", "email", 1)}}

Ways == INSTANCE LoginWays WITH MaxRequests <- WaysRequests, Users <- {"u1", "u2"}, Addresses <- {1, 2}, MaxCodes <- 2

Ready == INSTANCE Readiness WITH MaxRequests <- ReadyRequests, Hard <- {"db", "auth"}, Soft <- {"search"}

----------------------------------------------------------------------------
(* A behaviour runs one component *)

Init ==
    \/ focus = "SecondFactor" /\ Factor!Init
    \/ focus = "SignIn" /\ Login!Init
    \/ focus = "IdWhitelist" /\ Ids!Init
    \/ focus = "AdminSessions" /\ Admin!Init
    \/ focus = "AuthSeam" /\ Seam!Init
    \/ focus = "UserDim" /\ Dim!Init
    \/ focus = "Startup" /\ Boot!Init
    \/ focus = "ReadCache" /\ Cache!Init
    \/ focus = "AdminOps" /\ Ops!Init
    \/ focus = "BotMedia" /\ Media!Init
    \/ focus = "LoginWays" /\ Ways!Init
    \/ focus = "Readiness" /\ Ready!Init

On(component) == focus = component /\ UNCHANGED focus

NextSecondFactor == On("SecondFactor") /\ Factor!Next

NextSignIn == On("SignIn") /\ Login!Next

NextIdWhitelist == On("IdWhitelist") /\ Ids!Next

NextAdminSessions == On("AdminSessions") /\ Admin!Next

NextAuthSeam == On("AuthSeam") /\ Seam!Next

NextUserDim == On("UserDim") /\ Dim!Next

NextStartup == On("Startup") /\ Boot!Next

NextReadCache == On("ReadCache") /\ Cache!Next

NextAdminOps == On("AdminOps") /\ Ops!Next

NextBotMedia == On("BotMedia") /\ Media!Next

NextLoginWays == On("LoginWays") /\ Ways!Next

NextReadiness == On("Readiness") /\ Ready!Next

Next ==
    \/ NextSecondFactor
    \/ NextSignIn
    \/ NextIdWhitelist
    \/ NextAdminSessions
    \/ NextAuthSeam
    \/ NextUserDim
    \/ NextStartup
    \/ NextReadCache
    \/ NextAdminOps
    \/ NextBotMedia
    \/ NextLoginWays
    \/ NextReadiness

Spec == Init /\ [][Next]_vars

----------------------------------------------------------------------------

\* service_2fa and service_recovery: codes, tokens and proofs are accepted
\* once, and no password is recovered without the second factor.
FactorSound == focus = "SecondFactor" => Factor!FactorSound

\* registration, mailed codes and links, GitHub and passkeys: a proof signs in
\* one account, the right one, and accounts stay distinct; router_settings:
\* binding and unbinding at the same time leave an account a way in.
SignInSound ==
    /\ focus = "SignIn" => Login!SignInSound
    /\ focus = "LoginWays" => Ways!WaysSound

\* rbac and the admin cookies: role changes, logouts and separation policies
\* bind every cookie that is still accepted.
AdminSound == focus = "AdminSessions" => Admin!AdminSound

\* user_http and circuit_breaker: a half-open circuit has its one probe, and
\* nothing is committed here without its counterpart in auth.
SeamSound == focus = "AuthSeam" => Seam!SeamSound

\* user_dim: a copy that lost its event is found by the reconciliation, one
\* reconciler at a time.
DimSound == focus = "UserDim" => Dim!DimSound

\* db init: a process that is ready has its schema and its grants, and only
\* one migrates while the lock holds.
StartupSound == focus = "Startup" => Boot!StartupSound

\* bloom and the read-through cache: a user that exists is not refused, and a
\* hit or a shared flight is no older than the last invalidation.
CachesSound ==
    /\ focus = "IdWhitelist" => Ids!NobodyRefused
    /\ focus = "ReadCache" => Cache!CacheSound

\* the bot panel: what took effect is in the audit trail, the trail is true,
\* and streams from the bot are closed.  The bot's media: a row has its
\* object and counts the messages that use it.
BotSound ==
    /\ focus = "AdminOps" => Ops!AuditSound
    /\ focus = "BotMedia" => Media!MediaSound

\* health and the JWKS loop: ready only with every hard dependency and a
\* verification key, which follows AUTH's rotation.
ReadinessSound == focus = "Readiness" => Ready!ReadinessSound

=============================================================================

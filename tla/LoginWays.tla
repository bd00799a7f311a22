------------------------------ MODULE LoginWays ------------------------------
(***************************************************************************)
(* The settings of an account: binding an address with a code sent to it   *)
(* or an account of GitHub, and unbinding one of them.  Binding takes the  *)
(* code and writes the user's row without having locked it; unbinding      *)
(* locks the row, counts the ways to log in that are left and keeps the    *)
(* last.  Addresses and GitHub accounts are numbers; proofs of the second  *)
(* factor are the matter of SecondFactor, those of GitHub of SignIn.       *)
(***************************************************************************)
EXTENDS Requests

CONSTANTS
    Users,
    Starts,         \* bindings there may be at first
    Addresses,      \* 1..n, of each kind
    MaxCodes        \* bound on codes sent

Ways == {"email", "phone", "github"}

\* A code belongs to an address; users.email and users.phone hold one each,
\* user_oauths any number.
Init ==
    /\ \E b \in Starts :
         /\ db = [bound |-> b, level |-> [u \in Users |-> IF \E x \in b : x.user = u THEN "normal" ELSE "local"],
                  codes |-> {}, sent |-> 0]
         /\ hist = [had |-> {x.user : x \in b}, used |-> {}, again |-> FALSE]
    /\ Resting

WaysOf(u) == {x.way : x \in {y \in db.bound : y.user = u}}

Owner(way, addr) == {x.user : x \in {y \in db.bound : y.way = way /\ y.addr = addr}}

\* A row locked FOR UPDATE, by unbind.
LockedUser(u, c) == \E o \in Conns \ {c} : tx[o].op = "unbind" /\ tx[o].user = u

\* The UPDATE of a code holds its row until the end of the transaction.
LockedCode(code, c) == \E o \in Conns \ {c} : tx[o].op = "bind" /\ tx[o].step = "taken" /\ tx[o].code = code

Refuse(c) == Finish(c) /\ UNCHANGED <<db, hist>>

----------------------------------------------------------------------------
(* Binding *)

\* bind_email_request, bind_phone_request.
RequestCode(c, way, addr) ==
    /\ Owner(way, addr) = {} /\ db.sent < MaxCodes
    /\ AtOnce(c)
    /\ db' = [db EXCEPT !.sent = @ + 1, !.codes = @ \cup {[n |-> db.sent + 1, way |-> way, addr |-> addr]}]
    /\ UNCHANGED hist

ExpireCode(code) == db' = [db EXCEPT !.codes = @ \ {code}] /\ UNCHANGED <<tx, hist, left>>

\* _latest_verification; the code entered is the one that was sent last.
Newest(code) == \A d \in db.codes : (d.way = code.way /\ d.addr = code.addr) => d.n <= code.n

\* bind_email_verify, bind_phone_verify: the code is looked up ...
VerifyCode(c, u, code) ==
    /\ Newest(code)
    /\ Begin(c, [op |-> "bind", step |-> "read", user |-> u, way |-> code.way, addr |-> code.addr, code |-> code,
                 level |-> ""])
    /\ UNCHANGED <<db, hist>>

\* ... taken if it is still unused, the address looked for and the user read.
TakeCode(c) ==
    LET r == tx[c] IN
    /\ r.op = "bind" /\ r.step = "read" /\ ~LockedCode(r.code, c)
    /\ IF r.code \in db.codes /\ Owner(r.way, r.addr) = {}
       THEN /\ Continue(c, [r EXCEPT !.step = "taken", !.level = db.level[r.user]])
            /\ UNCHANGED <<db, hist>>
       ELSE Refuse(c)

\* bind_oauth, behind the answer of GitHub.
ConnectGithub(c, u, addr) ==
    /\ Owner("github", addr) = {}
    /\ Begin(c, [op |-> "bind", step |-> "taken", user |-> u, way |-> "github", addr |-> addr,
                 code |-> [n |-> 0, way |-> "github", addr |-> addr], level |-> db.level[u]])
    /\ UNCHANGED <<db, hist>>

Replaced(r) == IF r.way = "github" THEN {} ELSE {x \in db.bound : x.user = r.user /\ x.way = r.way}

\* upgrade_to_normal.
UpgradeToNormal(r) == IF r.level = "local" THEN "normal" ELSE db.level[r.user]

\* The write and the commit; the unique columns refuse a second owner.  The
\* INSERT for GitHub waits for the row too: its foreign key shares it.
CommitBind(c) ==
    LET r == tx[c] IN
    /\ r.op = "bind" /\ r.step = "taken" /\ ~LockedUser(r.user, c)
    /\ IF Owner(r.way, r.addr) = {}
       THEN /\ db' = [db EXCEPT !.bound = (@ \ Replaced(r)) \cup {[user |-> r.user, way |-> r.way, addr |-> r.addr]},
                                !.codes = @ \ {r.code}, !.level[r.user] = UpgradeToNormal(r)]
            /\ hist' = [hist EXCEPT !.had = @ \cup {r.user},
                                    !.again = @ \/ (r.way # "github" /\ r.code \in hist.used),
                                    !.used = IF r.way = "github" THEN @ ELSE @ \cup {r.code}]
            /\ Finish(c)
       ELSE Refuse(c)

----------------------------------------------------------------------------
(* unbind *)

Unbind(c, u, way) ==
    /\ ~LockedUser(u, c)
    /\ Begin(c, [op |-> "unbind", step |-> "locked", user |-> u, way |-> way])
    /\ UNCHANGED <<db, hist>>

\* _count_login_ways, on the row read behind the lock: what authentication
\* had loaded of it is no longer held by the session.
CountWays(c) ==
    LET r == tx[c] IN
    /\ r.op = "unbind" /\ r.step = "locked"
    /\ IF Cardinality(WaysOf(r.user)) > 1 /\ r.way \in WaysOf(r.user)
       THEN Continue(c, [r EXCEPT !.step = "counted"]) /\ UNCHANGED <<db, hist>>
       ELSE Refuse(c)

CommitUnbind(c) ==
    LET r == tx[c] IN
    /\ r.op = "unbind" /\ r.step = "counted"
    /\ db' = [db EXCEPT !.bound = {x \in @ : ~(x.user = r.user /\ x.way = r.way)}]
    /\ Finish(c)
    /\ UNCHANGED hist

Next ==
    \/ \E code \in db.codes : ExpireCode(code)
    \/ \E c \in Conns :
         \/ \E way \in {"email", "phone"}, a \in Addresses : RequestCode(c, way, a)
         \/ \E u \in Users, code \in db.codes : VerifyCode(c, u, code)
         \/ \E u \in Users, a \in Addresses : ConnectGithub(c, u, a)
         \/ \E u \in Users, way \in Ways : Unbind(c, u, way)
         \/ TakeCode(c) \/ CommitBind(c) \/ CountWays(c) \/ CommitUnbind(c) \/ Fail(c)

Spec == Init /\ [][Next]_vars

----------------------------------------------------------------------------

\* An account that could be entered by address or GitHub once always can,
\* whatever is bound and unbound at the same time, and it is no local one.
AccountsReachable == \A u \in hist.had : WaysOf(u) # {} /\ db.level[u] = "normal"

\* Codes bind once; an address or GitHub account has one owner, an owner one
\* address of a kind.
BindingsDistinct ==
    /\ ~hist.again
    /\ \A x, y \in db.bound :
         /\ (x.way = y.way /\ x.addr = y.addr) => x.user = y.user
         /\ (x.way = y.way /\ x.user = y.user /\ x.way # "github") => x.addr = y.addr

WaysSound == AccountsReachable /\ BindingsDistinct

=============================================================================

--------------------------- MODULE IdentityProofs ---------------------------
(***************************************************************************)
(* The identity services keep their promises, for any number of            *)
(* connections, requests, tokens and failures: administrators, the ways    *)
(* into an account, registration and the second factor.                    *)
(***************************************************************************)
EXTENDS MCPlatform, FiniteSetTheorems, TLAPS

LEMMA AppendFacts ==
  ASSUME NEW S, NEW s \in Seq(S), NEW e \in S
  PROVE  /\ Append(s, e) \in Seq(S) /\ DOMAIN s = 1..Len(s) /\ DOMAIN Append(s, e) = 1..(Len(s) + 1)
         /\ \A i \in DOMAIN s : Append(s, e)[i] = s[i]
         /\ Append(s, e)[Len(s) + 1] = e /\ Len(s) \in Nat /\ Append(s, e) # s
<1>1. /\ Append(s, e) \in Seq(S) /\ Len(Append(s, e)) = Len(s) + 1 /\ Len(s) \in Nat
      /\ \A i \in 1..Len(s) : Append(s, e)[i] = s[i]
      /\ Append(s, e)[Len(s) + 1] = e /\ DOMAIN s = 1..Len(s)
  OBVIOUS
<1>2. DOMAIN Append(s, e) = 1..(Len(s) + 1)
  BY <1>1
<1>3. Append(s, e) # s
  <2> SUFFICES ASSUME Append(s, e) = s PROVE FALSE
    OBVIOUS
  <2>1. Len(s) = Len(s) + 1
    BY <1>1, Zenon
  <2> QED
    BY <1>1, <2>1
<1>4. \A i \in DOMAIN s : Append(s, e)[i] = s[i]
  BY <1>1
<1> QED
  BY <1>1, <1>2, <1>3, <1>4

-----------------------------------------------------------------------------
(* The sessions and roles of an administrator                              *)

AdmSelections == SUBSET (Roles \cup {"all"})
AdmRowType == [live : BOOLEAN, mfa : BOOLEAN, roles : AdmSelections, from : Nat, next : Nat]
AdmCookieType == [ver : Nat, rt : Nat, mfa : BOOLEAN, roles : AdmSelections, epoch : Nat]
AdmDb ==
  [ver : Nat, locked : BOOLEAN, extra : SUBSET Roles, refresh : Seq(AdmRowType), cookies : Seq(AdmCookieType),
   revoked : SUBSET Nat, blocked : SUBSET Nat, expired : SUBSET Nat, grants : [Roles -> {"none", "on", "off"}]]
AdmHist ==
  [changes : Nat, verified : SUBSET Nat, out : SUBSET Nat, ended : SUBSET Nat, crossed : SUBSET Nat,
   off : SUBSET Roles]

AdmLogin == [op : {"login"}, ver : Nat, epoch : Nat]
AdmRefresh == [op : {"refresh"}, rt : Nat, ver : Nat, epoch : Nat, locked : BOOLEAN]
AdmStepup == [op : {"stepup"}, rt : Nat, k : Nat, ver : Nat, epoch : Nat]
AdmLogout == [op : {"logout", "blocking", "storing"}, k : Nat, rt : Nat, write : BOOLEAN]
AdmRuns == {Admin!Idle} \cup AdmLogin \cup AdmRefresh \cup AdmStepup \cup AdmLogout

AdmTyped == tx \in [Conns -> AdmRuns] /\ db \in AdmDb /\ hist \in AdmHist

Locks(t) == t.op \in {"refresh", "stepup"}

\* Nobody holds a live token of the session that the row t belongs to.
Dead(t) == \A u \in DOMAIN db.refresh : db.refresh[u].from = db.refresh[t].from => ~db.refresh[u].live

\* A row without a successor is the last of its session.
AdmRow(t) ==
  LET r == db.refresh[t] IN
  /\ r.from \in 1..t /\ r.next <= 1
  /\ r.live => r.next = 0 /\ r.from \notin hist.ended \ hist.crossed
  /\ r.next = 0 => \A u \in DOMAIN db.refresh : u > t => db.refresh[u].from # r.from
  /\ r.mfa => r.from \in hist.verified

AdmCookie(k) ==
  LET e == db.cookies[k] IN
  /\ e.rt \in DOMAIN db.refresh /\ e.epoch = e.ver
  /\ e.mfa => db.refresh[e.rt].from \in hist.verified

\* What a request has read still holds of the row, and after a logout has
\* revoked the row its session is dead or was continued before.
AdmTx(t) ==
  /\ t.op = "login" \/ Locks(t) => t.epoch = t.ver
  /\ Locks(t) => t.rt \in DOMAIN db.refresh /\ db.refresh[t.rt].live
  /\ t.op = "stepup" => t.k \in DOMAIN db.cookies /\ db.cookies[t.k].rt = t.rt
  /\ t.op \in {"logout", "blocking", "storing"} => t.rt \in DOMAIN db.refresh
  /\ t.op = "logout" /\ db.refresh[t.rt].live => t.write
  /\ t.op \in {"blocking", "storing"} => Dead(t.rt) \/ db.refresh[t.rt].from \in hist.crossed

AdmRows == \A t \in DOMAIN db.refresh : AdmRow(t)
AdmCookies == \A k \in DOMAIN db.cookies : AdmCookie(k)
AdmTxs == \A c \in Conns : AdmTx(tx[c])
AdmLocks == \A c, d \in Conns : Locks(tx[c]) /\ Locks(tx[d]) /\ tx[c].rt = tx[d].rt => c = d

\* The roles that are assigned keep the static separation of duties.
AdmFit(extra) == Admin!Satisfies(Admin!Authorized(extra), SSD)

\* Roles, permissions and what was logged out.
AdmRoles ==
  /\ db.ver = hist.changes /\ AdmFit(db.extra)
  /\ \A r \in hist.off : db.grants[r] = "off"
  /\ hist.out \subseteq db.revoked \cup db.expired
  /\ hist.ended \subseteq DOMAIN db.refresh

AdmInv == AdmTyped /\ AdmRows /\ AdmCookies /\ AdmTxs /\ AdmLocks /\ AdmRoles

LEMMA AdmRun ==
  ASSUME AdmTyped, NEW c \in Conns
  PROVE  /\ tx[c] \in AdmRuns /\ db \in AdmDb /\ hist \in AdmHist
         /\ tx[c].op = "login" => tx[c] \in AdmLogin
         /\ tx[c].op = "refresh" => tx[c] \in AdmRefresh
         /\ tx[c].op = "stepup" => tx[c] \in AdmStepup
         /\ tx[c].op \in {"logout", "blocking", "storing"} => tx[c] \in AdmLogout
         /\ tx[c].op = "idle" => tx[c] = Admin!Idle
<1>1. tx[c] \in AdmRuns /\ db \in AdmDb /\ hist \in AdmHist
  BY DEF AdmTyped
<1> QED
  BY <1>1 DEF AdmRuns, Admin!Idle, AdmLogin, AdmRefresh, AdmStepup, AdmLogout

LEMMA AdmStep ==
  ASSUME AdmTyped, NEW c \in Conns, NEW t \in AdmRuns, tx' = [tx EXCEPT ![c] = t]
  PROVE  tx' \in [Conns -> AdmRuns] /\ tx'[c] = t /\ \A d \in Conns : d # c => tx'[d] = tx[d]
BY DEF AdmTyped

\* The rows of the account's refresh tokens and its cookies are typed.
LEMMA AdmTables ==
  ASSUME AdmTyped
  PROVE  /\ db.refresh \in Seq(AdmRowType) /\ db.cookies \in Seq(AdmCookieType)
         /\ Len(db.refresh) \in Nat /\ DOMAIN db.refresh = 1..Len(db.refresh)
         /\ Len(db.cookies) \in Nat /\ DOMAIN db.cookies = 1..Len(db.cookies)
         /\ \A t \in DOMAIN db.refresh : db.refresh[t] \in AdmRowType
         /\ \A k \in DOMAIN db.cookies : db.cookies[k] \in AdmCookieType
<1>1. db.refresh \in Seq(AdmRowType) /\ db.cookies \in Seq(AdmCookieType)
  BY DEF AdmTyped, AdmDb
<1> QED
  BY <1>1

\* Rows may die and be marked, cookies may be added.
LEMMA AdmKeeps ==
  ASSUME AdmInv, NEW c, tx' \in [Conns -> AdmRuns], \A d \in Conns : d # c => tx'[d] = tx[d],
         db' \in AdmDb, hist' \in AdmHist, DOMAIN db'.refresh = DOMAIN db.refresh,
         \A t \in DOMAIN db.refresh :
            /\ db'.refresh[t].from = db.refresh[t].from /\ db'.refresh[t].next = db.refresh[t].next
            /\ db'.refresh[t].live => db.refresh[t].live
            /\ db.refresh[t].live /\ ~db'.refresh[t].live =>
                 \A d \in Conns : d # c /\ Locks(tx[d]) => tx[d].rt # t
            /\ db'.refresh[t].mfa => db.refresh[t].from \in hist'.verified,
         hist.verified \subseteq hist'.verified, hist.crossed \subseteq hist'.crossed,
         \A s \in hist'.ended : s \in hist.ended \/ s \in hist'.crossed \/
            \A t \in DOMAIN db.refresh : db.refresh[t].from = s => ~db'.refresh[t].live,
         DOMAIN db.cookies \subseteq DOMAIN db'.cookies,
         \A k \in DOMAIN db.cookies : db'.cookies[k] = db.cookies[k],
         \A k \in DOMAIN db'.cookies : k \in DOMAIN db.cookies \/ AdmCookie(k)',
         c \in Conns => AdmTx(tx[c])',
         c \in Conns /\ Locks(tx'[c]) => \A d \in Conns : d # c /\ Locks(tx[d]) => tx[d].rt # tx'[c].rt,
         AdmRoles'
  PROVE  AdmInv'
<1>1. AdmTyped /\ AdmRows /\ AdmCookies /\ AdmTxs /\ AdmLocks
  BY DEF AdmInv
<1>2. AdmRows'
  <2>1. ASSUME NEW t \in DOMAIN db.refresh PROVE AdmRow(t)'
    <3>1. AdmRow(t)
      BY <1>1 DEF AdmRows
    <3>2. db'.refresh[t].live => db'.refresh[t].from \notin hist'.ended \ hist'.crossed
      BY <3>1 DEF AdmRow
    <3>3. db'.refresh[t].next = 0 => \A u \in DOMAIN db'.refresh : u > t => db'.refresh[u].from # db'.refresh[t].from
      BY <3>1 DEF AdmRow
    <3> QED
      BY <3>1, <3>2, <3>3 DEF AdmRow
  <2> QED
    BY <2>1 DEF AdmRows
<1>3. AdmCookies'
  <2>1. ASSUME NEW k \in DOMAIN db.cookies PROVE AdmCookie(k)'
    BY <1>1 DEF AdmCookies, AdmCookie
  <2> QED
    BY <2>1 DEF AdmCookies
<1>4. AdmTxs'
  <2>1. ASSUME NEW d \in Conns, d # c PROVE AdmTx(tx[d])'
    <3>1. AdmTx(tx[d]) /\ tx'[d] = tx[d]
      BY <1>1, <2>1 DEF AdmTxs
    <3>2. Locks(tx[d]) => tx[d].rt \in DOMAIN db.refresh /\ db'.refresh[tx[d].rt].live
      BY <2>1, <3>1 DEF AdmTx
    <3>3. \A t \in DOMAIN db.refresh : Dead(t) => Dead(t)'
      BY DEF Dead
    <3>4. /\ tx[d].op \in {"logout", "blocking", "storing"} => tx[d].rt \in DOMAIN db.refresh
          /\ tx[d].op = "logout" /\ db'.refresh[tx[d].rt].live => tx[d].write
      BY <3>1 DEF AdmTx
    <3>5. tx[d].op \in {"blocking", "storing"} => Dead(tx[d].rt)' \/ db'.refresh[tx[d].rt].from \in hist'.crossed
      <4>1. tx'[d].rt = tx[d].rt
        BY <3>1
      <4> QED
        BY <3>1, <3>3, <3>4, <4>1 DEF AdmTx, Dead
    <3>6. tx[d].op = "stepup" => tx[d].k \in DOMAIN db'.cookies /\ db'.cookies[tx[d].k].rt = tx[d].rt
      BY <3>1 DEF AdmTx
    <3> QED
      BY <3>1, <3>2, <3>4, <3>5, <3>6 DEF AdmTx, Dead
  <2> QED
    BY <2>1 DEF AdmTxs
<1>5. AdmLocks'
  BY <1>1 DEF AdmLocks
<1> QED
  BY <1>2, <1>3, <1>4, <1>5 DEF AdmInv, AdmTyped

\* A row is added: a new session, or the successor of the row of c.
LEMMA AdmAdds ==
  ASSUME AdmInv, NEW c \in Conns, tx' \in [Conns -> AdmRuns], \A d \in Conns : d # c => tx'[d] = tx[d],
         tx'[c] = Admin!Idle, db' \in AdmDb, hist' = hist, NEW n \in Nat, n = Len(db.refresh) + 1,
         DOMAIN db'.refresh = 1..n, NEW t0 \in Nat,
         t0 = 0 \/ (t0 \in DOMAIN db.refresh /\ Locks(tx[c]) /\ tx[c].rt = t0),
         \A t \in DOMAIN db.refresh : t # t0 => db'.refresh[t] = db.refresh[t],
         t0 # 0 => /\ db'.refresh[t0].from = db.refresh[t0].from /\ db'.refresh[t0].mfa = db.refresh[t0].mfa
                   /\ ~db'.refresh[t0].live /\ db'.refresh[t0].next = 1,
         db'.refresh[n].next = 0,
         t0 = 0 => db'.refresh[n].from = n /\ ~db'.refresh[n].mfa,
         t0 # 0 => db'.refresh[n].from = db.refresh[t0].from /\ (db'.refresh[n].mfa => db.refresh[t0].mfa),
         DOMAIN db.cookies \subseteq DOMAIN db'.cookies,
         \A k \in DOMAIN db.cookies : db'.cookies[k] = db.cookies[k],
         \A k \in DOMAIN db'.cookies : k \in DOMAIN db.cookies \/
            (db'.cookies[k].rt = n /\ db'.cookies[k].epoch = db'.cookies[k].ver /\ db'.cookies[k].mfa = db'.refresh[n].mfa),
         db'.ver = db.ver, db'.extra = db.extra, db'.grants = db.grants, db'.revoked = db.revoked,
         db'.expired = db.expired
  PROVE  AdmInv'
<1>1. AdmTyped /\ AdmRows /\ AdmCookies /\ AdmTxs /\ AdmLocks /\ AdmRoles
  BY DEF AdmInv
<1>2. DOMAIN db.refresh = 1..(n - 1) /\ \A t \in DOMAIN db.refresh : t \in Nat /\ t < n
  BY <1>1, AdmTables
<1>3. \A t \in DOMAIN db.refresh : db'.refresh[t].from = db.refresh[t].from /\ db'.refresh[t].mfa = db.refresh[t].mfa
                                   /\ (db'.refresh[t].live => db.refresh[t].live /\ t # t0)
  BY <1>2
<1>4. \A t \in DOMAIN db.refresh : AdmRow(t) /\ db.refresh[t].from \in Nat /\ db.refresh[t].next \in Nat
  BY <1>1, AdmTables DEF AdmRows, AdmRowType
<1>5. t0 # 0 => t0 \in DOMAIN db.refresh /\ db.refresh[t0].live /\ db.refresh[t0].next = 0
  BY <1>1, <1>4 DEF AdmTxs, AdmTx, AdmRow
<1>6. \A t \in DOMAIN db.refresh : t # t0 /\ db.refresh[t].next = 0 => db'.refresh[n].from # db.refresh[t].from
  <2> SUFFICES ASSUME NEW t \in DOMAIN db.refresh, t # t0, db.refresh[t].next = 0
               PROVE  db'.refresh[n].from # db.refresh[t].from
    OBVIOUS
  <2>1. CASE t0 = 0
    BY <1>2, <1>4, <2>1 DEF AdmRow
  <2>2. CASE t0 # 0
    <3>1. t > t0 \/ t0 > t
      BY <1>2, <1>5, <2>2
    <3> QED
      BY <1>4, <1>5, <2>2, <3>1 DEF AdmRow
  <2> QED
    BY <2>1, <2>2
<1>7. AdmRows'
  <2>1. ASSUME NEW t \in DOMAIN db.refresh PROVE AdmRow(t)'
    <3>1. \A u \in DOMAIN db'.refresh : u = n \/ u \in DOMAIN db.refresh
      BY <1>2
    <3>2. CASE t = t0
      <4>1. t0 # 0
        BY <1>2, <3>2
      <4> QED
        BY <1>3, <1>4, <3>2, <4>1 DEF AdmRow
    <3>3. CASE t # t0
      BY <1>3, <1>4, <1>6, <3>1, <3>3 DEF AdmRow
    <3> QED
      BY <3>2, <3>3
  <2>2. AdmRow(n)'
    <3>1. db'.refresh[n].from \in 1..n
      BY <1>2, <1>4, <1>5 DEF AdmRow
    <3>2. db'.refresh[n].from \notin hist'.ended \ hist'.crossed
      <4>1. CASE t0 = 0
        BY <1>1, <1>2, <4>1 DEF AdmRoles
      <4>2. CASE t0 # 0
        BY <1>4, <1>5, <4>2 DEF AdmRow
      <4> QED
        BY <4>1, <4>2
    <3>3. \A u \in DOMAIN db'.refresh : ~(u > n)
      OBVIOUS
    <3>4. db'.refresh[n].mfa => db'.refresh[n].from \in hist'.verified
      BY <1>4, <1>5 DEF AdmRow
    <3> QED
      BY <3>1, <3>2, <3>3, <3>4 DEF AdmRow
  <2> QED
    BY <1>2, <2>1, <2>2 DEF AdmRows
<1>8. AdmCookies'
  <2>1. ASSUME NEW k \in DOMAIN db.cookies PROVE AdmCookie(k)'
    <3>1. AdmCookie(k) /\ db'.cookies[k] = db.cookies[k]
      BY <1>1 DEF AdmCookies
    <3> QED
      BY <1>2, <1>3, <3>1 DEF AdmCookie
  <2>2. ASSUME NEW k \in DOMAIN db'.cookies, k \notin DOMAIN db.cookies PROVE AdmCookie(k)'
    <3>1. n \in DOMAIN db'.refresh /\ AdmRow(n)'
      BY <1>7 DEF AdmRows
    <3> QED
      BY <2>2, <3>1 DEF AdmCookie, AdmRow
  <2> QED
    BY <2>1, <2>2 DEF AdmCookies
<1>9. AdmTxs'
  <2>1. ASSUME NEW d \in Conns, d # c PROVE AdmTx(tx[d])'
    <3>1. AdmTx(tx[d]) /\ tx'[d] = tx[d]
      BY <1>1, <2>1 DEF AdmTxs
    <3>2. Locks(tx[d]) => tx[d].rt \in DOMAIN db'.refresh /\ db'.refresh[tx[d].rt].live
      <4>1. Locks(tx[d]) => tx[d].rt \in DOMAIN db.refresh /\ tx[d].rt # t0 /\ db.refresh[tx[d].rt].live
        <5>1. Locks(tx[d]) /\ tx[d].rt = t0 => t0 = 0
          BY <1>1, <2>1 DEF AdmLocks
        <5> QED
          BY <1>2, <3>1, <5>1 DEF AdmTx
      <4> QED
        BY <1>2, <4>1
    <3>3. /\ tx[d].op \in {"logout", "blocking", "storing"} => tx[d].rt \in DOMAIN db.refresh
          /\ tx[d].op = "logout" /\ db'.refresh[tx[d].rt].live => tx[d].write
      BY <1>3, <3>1 DEF AdmTx
    <3>4. \A t \in DOMAIN db.refresh : Dead(t) => \A u \in DOMAIN db'.refresh :
            db'.refresh[u].from = db'.refresh[t].from => ~db'.refresh[u].live
      <4> SUFFICES ASSUME NEW t \in DOMAIN db.refresh, Dead(t), NEW u \in DOMAIN db'.refresh,
                          db'.refresh[u].from = db.refresh[t].from
                   PROVE  ~db'.refresh[u].live
        BY <1>3
      <4>1. CASE u \in DOMAIN db.refresh
        BY <1>3, <4>1 DEF Dead
      <4>2. CASE u = n
        <5>1. CASE t0 = 0
          BY <1>2, <1>4, <4>2, <5>1 DEF AdmRow
        <5>2. CASE t0 # 0
          BY <1>5, <4>2, <5>2 DEF Dead
        <5> QED
          BY <5>1, <5>2
      <4> QED
        BY <1>2, <4>1, <4>2
    <3>5. tx[d].op \in {"blocking", "storing"} => Dead(tx[d].rt)' \/ db'.refresh[tx[d].rt].from \in hist'.crossed
      <4>1. tx'[d].rt = tx[d].rt
        BY <3>1
      <4> QED
        BY <1>3, <3>1, <3>3, <3>4, <4>1 DEF AdmTx, Dead
    <3>6. tx[d].op = "stepup" => tx[d].k \in DOMAIN db'.cookies /\ db'.cookies[tx[d].k].rt = tx[d].rt
      BY <3>1 DEF AdmTx
    <3> QED
      BY <1>2, <3>1, <3>2, <3>3, <3>5, <3>6 DEF AdmTx, Dead
  <2>2. AdmTx(tx[c])'
    BY DEF AdmTx, Locks, Admin!Idle
  <2> QED
    BY <2>1, <2>2 DEF AdmTxs
<1>10. AdmLocks'
  BY <1>1 DEF AdmLocks, Locks, Admin!Idle
<1>11. AdmRoles'
  BY <1>1, <1>2 DEF AdmRoles
<1> QED
  BY <1>7, <1>8, <1>9, <1>10, <1>11 DEF AdmInv, AdmTyped

\* Nobody becomes a reviewer by inheritance.
LEMMA AdmClosure ==
  ASSUME NEW S \in SUBSET Roles
  PROVE  /\ Admin!Closure(S) \in SUBSET Roles /\ S \subseteq Admin!Closure(S)
         /\ "reviewer" \notin S => "reviewer" \notin Admin!Closure(S)
<1>1. \A r \in Roles : Juniors[r] \in SUBSET Roles /\ "reviewer" \notin Juniors[r]
  BY DEF Roles, Juniors
<1>2. ASSUME NEW T \in SUBSET Roles
      PROVE  /\ Admin!Below(T) \in SUBSET Roles /\ T \subseteq Admin!Below(T)
             /\ "reviewer" \notin T => "reviewer" \notin Admin!Below(T)
  BY <1>1 DEF Admin!Below
<1> DEFINE B1 == Admin!Below(S)
           B2 == Admin!Below(B1)
<1>3. B1 \in SUBSET Roles /\ S \subseteq B1 /\ ("reviewer" \notin S => "reviewer" \notin B1)
  BY <1>2
<1>4. B2 \in SUBSET Roles /\ B1 \subseteq B2 /\ ("reviewer" \notin B1 => "reviewer" \notin B2)
  BY <1>2, <1>3
<1>5. /\ Admin!Below(B2) \in SUBSET Roles /\ B2 \subseteq Admin!Below(B2)
      /\ ("reviewer" \notin B2 => "reviewer" \notin Admin!Below(B2))
  BY <1>2, <1>4
<1> QED
  BY <1>3, <1>4, <1>5 DEF Admin!Closure

\* Fewer roles reach fewer.
LEMMA AdmGrows ==
  ASSUME NEW T, NEW S \in SUBSET T
  PROVE  Admin!Closure(S) \subseteq Admin!Closure(T)
<1>1. ASSUME NEW B, NEW A \in SUBSET B PROVE Admin!Below(A) \subseteq Admin!Below(B)
  BY DEF Admin!Below
<1>2. Admin!Below(S) \in SUBSET Admin!Below(T)
  BY <1>1
<1>3. Admin!Below(Admin!Below(S)) \in SUBSET Admin!Below(Admin!Below(T))
  BY <1>1, <1>2
<1> QED
  BY <1>1, <1>3 DEF Admin!Closure

\* Both separations of duties allow one of two roles.
LEMMA AdmPairs ==
  ASSUME NEW A, NEW x, NEW y, x # y
  PROVE  /\ Admin!Cardinality(A \cap {x, y}) \in Nat
         /\ (x \notin A \/ y \notin A => Admin!Cardinality(A \cap {x, y}) <= 1)
         /\ (x \in A /\ y \in A => Admin!Cardinality(A \cap {x, y}) = 2)
<1>1. Admin!Cardinality(A \cap {x, y}) = Cardinality(A \cap {x, y})
  BY DEF Cardinality, Admin!Cardinality
<1>2. Cardinality({}) = 0 /\ Cardinality({x}) = 1 /\ Cardinality({y}) = 1
  BY FS_EmptySet, FS_Singleton
<1>3. Cardinality({x, y}) = 2
  <2>1. IsFiniteSet({x}) /\ y \notin {x} /\ {x, y} = {x} \cup {y}
    BY FS_Singleton
  <2> QED
    BY <1>2, <2>1, FS_AddElement
<1>4. CASE x \in A /\ y \in A
  <2>1. A \cap {x, y} = {x, y}
    BY <1>4
  <2> QED
    BY <1>1, <1>3, <1>4, <2>1
<1>5. CASE x \notin A \/ y \notin A
  <2>1. A \cap {x, y} = {} \/ A \cap {x, y} = {x} \/ A \cap {x, y} = {y}
    BY <1>5
  <2> QED
    BY <1>1, <1>2, <1>5, <2>1
<1> QED
  BY <1>4, <1>5

LEMMA AdmSeparates ==
  ASSUME NEW R
  PROVE  /\ Admin!Satisfies(R, SSD) <=> "org" \notin Admin!Closure(R) \/ "reviewer" \notin Admin!Closure(R)
         /\ Admin!Satisfies(R, DSD) <=> "member" \notin Admin!Closure(R) \/ "reviewer" \notin Admin!Closure(R)
<1> DEFINE C == Admin!Closure(R)
<1>1. "org" # "reviewer" /\ "member" # "reviewer"
  OBVIOUS
<1>2. Admin!Satisfies(R, SSD) <=> Admin!Cardinality(C \cap {"org", "reviewer"}) <= 1
  BY DEF Admin!Satisfies, SSD
<1>3. Admin!Satisfies(R, DSD) <=> Admin!Cardinality(C \cap {"member", "reviewer"}) <= 1
  BY DEF Admin!Satisfies, DSD
<1> HIDE DEF C
<1>4. Admin!Cardinality(C \cap {"org", "reviewer"}) <= 1 <=> "org" \notin C \/ "reviewer" \notin C
  BY <1>1, AdmPairs
<1>5. Admin!Cardinality(C \cap {"member", "reviewer"}) <= 1 <=> "member" \notin C \/ "reviewer" \notin C
  BY <1>1, AdmPairs
<1> QED
  BY <1>2, <1>3, <1>4, <1>5 DEF C

\* A session that chose no roles has some that fit.
LEMMA AdmGreedy ==
  ASSUME NEW extra \in SUBSET Roles
  PROVE  /\ Admin!Authorized(extra) \in SUBSET Roles
         /\ Admin!Greedy(extra) \in SUBSET Admin!Authorized(extra)
         /\ Admin!Satisfies(Admin!Greedy(extra), DSD)
<1> DEFINE A == Admin!Authorized(extra)
           W == A \ {"reviewer"}
           Fits(S) == /\ "member" \in S /\ Admin!Satisfies(S, DSD)
                      /\ \A r \in A : r \in Admin!Closure(S) \/ ~Admin!Satisfies(S \cup {r}, DSD)
<1>1. A \in SUBSET Roles /\ "member" \in A
  <2>1. {"member"} \cup extra \in SUBSET Roles
    BY DEF Roles
  <2> QED
    BY <2>1, AdmClosure DEF Admin!Authorized, Admin!Assigned
<1>2. Fits(W)
  <2>1. W \in SUBSET Roles /\ "reviewer" \notin W /\ "member" \in W
    BY <1>1
  <2>2. W \subseteq Admin!Closure(W) /\ "reviewer" \notin Admin!Closure(W)
    BY <2>1, AdmClosure
  <2>3. Admin!Satisfies(W, DSD)
    BY <2>2, AdmSeparates
  <2>4. ASSUME NEW r \in A, r \notin Admin!Closure(W) PROVE ~Admin!Satisfies(W \cup {r}, DSD)
    <3>1. r = "reviewer"
      BY <2>2, <2>4
    <3>2. W \cup {r} \in SUBSET Roles
      BY <1>1
    <3>3. "member" \in Admin!Closure(W \cup {r}) /\ "reviewer" \in Admin!Closure(W \cup {r})
      BY <2>1, <3>1, <3>2, AdmClosure
    <3> QED
      BY <3>3, AdmSeparates
  <2> QED
    BY <2>1, <2>3, <2>4
<1>3. Admin!Greedy(extra) = CHOOSE S \in SUBSET A : Fits(S)
  BY DEF Admin!Greedy
<1> HIDE DEF Fits
<1>4. Admin!Greedy(extra) \in SUBSET A /\ Fits(Admin!Greedy(extra))
  <2>1. W \in SUBSET A
    OBVIOUS
  <2> QED
    BY <1>2, <1>3, <2>1
<1> QED
  BY <1>1, <1>4 DEF Fits

LEMMA AdmFewer ==
  ASSUME NEW more \in SUBSET Roles, NEW less \in SUBSET more, AdmFit(more)
  PROVE  AdmFit(less)
<1>1. Admin!Authorized(less) \subseteq Admin!Authorized(more)
  <2>1. {"member"} \cup less \in SUBSET ({"member"} \cup more)
    OBVIOUS
  <2> QED
    BY <2>1, AdmGrows DEF Admin!Authorized, Admin!Assigned
<1>2. Admin!Closure(Admin!Authorized(less)) \subseteq Admin!Closure(Admin!Authorized(more))
  BY <1>1, AdmGrows
<1> QED
  BY <1>2, AdmSeparates DEF AdmFit

\* What an accepted cookie may do.
LEMMA AdmForce ==
  ASSUME AdmTyped, NEW k \in DOMAIN db.cookies
  PROVE  /\ Admin!InForce(k) \subseteq Admin!Authorized(db.extra) /\ Admin!Satisfies(Admin!InForce(k), DSD)
         /\ Admin!InForce(k) \in SUBSET Roles
<1>1. db.extra \in SUBSET Roles
  BY DEF AdmTyped, AdmDb
<1>2. CASE Admin!Selectable(db.extra, db.cookies[k].roles) /\ db.cookies[k].roles = Admin!All
  BY <1>1, <1>2, AdmGreedy DEF Admin!InForce, Admin!ActivatedRoles
<1>3. CASE Admin!Selectable(db.extra, db.cookies[k].roles) /\ db.cookies[k].roles # Admin!All
  BY <1>1, <1>3, AdmGreedy DEF Admin!InForce, Admin!ActivatedRoles, Admin!Selectable
<1>4. CASE ~Admin!Selectable(db.extra, db.cookies[k].roles)
  <2>1. Admin!InForce(k) = {}
    BY <1>4 DEF Admin!InForce
  <2>2. "reviewer" \notin Admin!Closure({})
    BY AdmClosure
  <2>3. Admin!Satisfies({}, DSD)
    BY <2>2, AdmSeparates
  <2> QED
    BY <2>1, <2>3
<1> QED
  BY <1>2, <1>3, <1>4

\* A request begins or ends and has written nothing.
LEMMA AdmLight ==
  ASSUME AdmInv, NEW c \in Conns, NEW t \in AdmRuns, tx' = [tx EXCEPT ![c] = t], db' = db, hist' = hist,
         AdmTx(t), Locks(t) => ~Admin!Held(t.rt)
  PROVE  AdmInv'
<1>1. AdmTyped /\ AdmRows /\ AdmRoles /\ db \in AdmDb /\ hist \in AdmHist
  BY DEF AdmInv, AdmTyped
<1>2. tx' \in [Conns -> AdmRuns] /\ tx'[c] = t /\ \A d \in Conns : d # c => tx'[d] = tx[d]
  BY <1>1, AdmStep
<1>3. AdmTx(tx[c])'
  BY <1>2 DEF AdmTx, Dead
<1>4. AdmRoles'
  BY <1>1 DEF AdmRoles
<1>5. \A u \in DOMAIN db.refresh : db.refresh[u].mfa => db.refresh[u].from \in hist.verified
  BY <1>1 DEF AdmRows, AdmRow
<1>6. Locks(t) => \A d \in Conns : d # c /\ Locks(tx[d]) => tx[d].rt # t.rt
  BY DEF Admin!Held, Locks
<1> QED
  BY <1>1, <1>2, <1>3, <1>4, <1>5, <1>6, AdmKeeps

LEMMA AdmOpens ==
  ASSUME AdmInv, NEW c \in Conns,
         \/ Admin!Login(c) \/ \E t \in Admin!Tokens : Admin!Refresh(c, t)
         \/ \E k \in Admin!Cookies : Admin!Enter(c, k) \/ Admin!Logout(c, k)
  PROVE  AdmInv'
<1>1. /\ AdmTyped /\ AdmRoles /\ AdmCookies /\ db.ver \in Nat /\ hist.changes \in Nat /\ db.ver = hist.changes
      /\ db.locked \in BOOLEAN
  BY DEF AdmInv, AdmTyped, AdmDb, AdmHist, AdmRoles
<1>2. CASE Admin!Login(c)
  <2>1. PICK t : t = [op |-> "login", ver |-> db.ver, epoch |-> hist.changes]
    OBVIOUS
  <2>2. t \in AdmRuns /\ AdmTx(t) /\ ~Locks(t)
    BY <1>1, <2>1 DEF AdmRuns, AdmLogin, AdmTx, Locks
  <2> QED
    BY <1>2, <2>1, <2>2, AdmLight DEF Admin!Login, Admin!Begin
<1>3. ASSUME NEW r \in Admin!Tokens, Admin!Refresh(c, r) PROVE AdmInv'
  <2>1. PICK t : t = [op |-> "refresh", rt |-> r, ver |-> db.ver, epoch |-> hist.changes, locked |-> db.locked]
    OBVIOUS
  <2>2. r \in DOMAIN db.refresh /\ r \in Nat /\ db.refresh[r].live
    BY <1>1, <1>3, AdmTables DEF Admin!Tokens, Admin!Refresh, Admin!Consumable
  <2>3. t \in AdmRefresh /\ t.op = "refresh" /\ t.rt = r /\ t.epoch = t.ver
    BY <1>1, <2>1, <2>2 DEF AdmRefresh
  <2>4. t \in AdmRuns /\ AdmTx(t)
    BY <2>2, <2>3 DEF AdmRuns, AdmTx, Locks
  <2> QED
    BY <1>3, <2>1, <2>3, <2>4, AdmLight DEF Admin!Refresh, Admin!Begin
<1>4. ASSUME NEW k \in Admin!Cookies, Admin!Enter(c, k) PROVE AdmInv'
  <2>1. PICK t : t = [op |-> "stepup", rt |-> db.cookies[k].rt, k |-> k, ver |-> db.ver, epoch |-> hist.changes]
    OBVIOUS
  <2>2. /\ k \in DOMAIN db.cookies /\ k \in Nat /\ db.cookies[k].rt \in DOMAIN db.refresh /\ db.cookies[k].rt \in Nat
        /\ db.refresh[db.cookies[k].rt].live
    BY <1>1, <1>4, AdmTables DEF Admin!Cookies, Admin!Enter, AdmCookies, AdmCookie
  <2>3. t \in AdmStepup /\ t.op = "stepup" /\ t.rt = db.cookies[k].rt /\ t.k = k /\ t.epoch = t.ver
    BY <1>1, <2>1, <2>2 DEF AdmStepup
  <2>4. t \in AdmRuns /\ AdmTx(t)
    BY <2>2, <2>3 DEF AdmRuns, AdmTx, Locks
  <2> QED
    BY <1>4, <2>1, <2>3, <2>4, AdmLight DEF Admin!Enter, Admin!Begin
<1>5. ASSUME NEW k \in Admin!Cookies, Admin!Logout(c, k) PROVE AdmInv'
  <2>1. /\ k \in DOMAIN db.cookies /\ k \in Nat /\ db.cookies[k].rt \in DOMAIN db.refresh /\ db.cookies[k].rt \in Nat
    BY <1>1, <1>5, AdmTables DEF Admin!Cookies, AdmCookies, AdmCookie
  <2>2. PICK w \in BOOLEAN : w = db.refresh[db.cookies[k].rt].live
    BY <1>1, <2>1, AdmTables DEF AdmRowType
  <2>3. PICK t : t = [op |-> "logout", k |-> k, rt |-> db.cookies[k].rt, write |-> w]
    OBVIOUS
  <2>4. t \in AdmLogout /\ t.op = "logout" /\ t.rt = db.cookies[k].rt /\ (t.write <=> w)
    BY <2>1, <2>3 DEF AdmLogout
  <2>5. t \in AdmRuns /\ AdmTx(t) /\ ~Locks(t)
    BY <2>1, <2>2, <2>4 DEF AdmRuns, AdmTx, Locks
  <2>6. tx' = [tx EXCEPT ![c] = t] /\ db' = db /\ hist' = hist
    BY <1>5, <2>2, <2>3 DEF Admin!Logout, Admin!Begin
  <2> QED
    BY <2>5, <2>6, AdmLight
<1> QED
  BY <1>2, <1>3, <1>4, <1>5

\* A failed request leaves nothing.
LEMMA AdmFails == ASSUME AdmInv, NEW c \in Conns, Admin!Fail(c) PROVE AdmInv'
<1>1. Admin!Idle \in AdmRuns /\ AdmTx(Admin!Idle) /\ ~Locks(Admin!Idle)
  BY DEF AdmRuns, AdmTx, Locks, Admin!Idle
<1>2. tx' = [tx EXCEPT ![c] = Admin!Idle] /\ db' = db /\ hist' = hist
  BY DEF Admin!Fail, Admin!Finish, Admin!Continue
<1> QED
  BY <1>1, <1>2, AdmLight

\* A statement of nobody's session: roles, permissions, locks, Redis, cleanup.
LEMMA AdmAside ==
  ASSUME AdmInv, tx' = tx, db' \in AdmDb, hist' \in AdmHist, db'.refresh = db.refresh, db'.cookies = db.cookies,
         hist'.verified = hist.verified, hist'.crossed = hist.crossed, hist'.ended = hist.ended, AdmRoles'
  PROVE  AdmInv'
<1>1. AdmRows /\ tx \in [Conns -> AdmRuns] /\ NoConn \notin Conns
  BY PlatformAssumption DEF AdmInv, AdmTyped
<1>2. \A u \in DOMAIN db.refresh : db.refresh[u].mfa => db.refresh[u].from \in hist.verified
  BY <1>1 DEF AdmRows, AdmRow
<1> QED
  BY <1>1, <1>2, AdmKeeps

LEMMA AdmForgets ==
  ASSUME AdmInv,
         \/ Admin!ForgetJti \/ \E k \in Admin!Cookies : Admin!ExpireCookie(k)
         \/ \E c \in Conns : Admin!PurgeRevoked(c) \/ Admin!ToggleLock(c)
  PROVE  AdmInv'
<1>1. db \in AdmDb /\ hist \in AdmHist /\ AdmRoles /\ AdmTyped
  BY DEF AdmInv, AdmTyped
<1>2. tx' = tx /\ hist' = hist
  BY DEF Admin!ForgetJti, Admin!ExpireCookie, Admin!PurgeRevoked, Admin!ToggleLock, Admin!AtOnce
<1>3. \/ db' = [db EXCEPT !.blocked = {}]
      \/ \E k \in DOMAIN db.cookies : db' = [db EXCEPT !.expired = @ \cup {k}]
      \/ db' = [db EXCEPT !.revoked = @ \ (db.revoked \cap db.expired)]
      \/ db' = [db EXCEPT !.locked = ~@]
  BY DEF Admin!ForgetJti, Admin!ExpireCookie, Admin!PurgeRevoked, Admin!Purgeable, Admin!ToggleLock, Admin!Cookies
<1>4. /\ db' \in AdmDb /\ db'.refresh = db.refresh /\ db'.cookies = db.cookies /\ db'.ver = db.ver
      /\ db'.extra = db.extra /\ db'.grants = db.grants
      /\ db.revoked \cup db.expired \subseteq db'.revoked \cup db'.expired
  <2>1. \A k \in DOMAIN db.cookies : k \in Nat
    BY <1>1, AdmTables
  <2>2. CASE db' = [db EXCEPT !.blocked = {}]
    BY <1>1, <2>2 DEF AdmDb
  <2>3. CASE \E k \in DOMAIN db.cookies : db' = [db EXCEPT !.expired = @ \cup {k}]
    <3>1. PICK k \in DOMAIN db.cookies : db' = [db EXCEPT !.expired = @ \cup {k}]
      BY <2>3
    <3>2. k \in Nat
      BY <2>1
    <3>3. db' \in AdmDb
      BY <1>1, <3>1, <3>2 DEF AdmDb
    <3>4. /\ db'.refresh = db.refresh /\ db'.cookies = db.cookies /\ db'.ver = db.ver
          /\ db'.extra = db.extra /\ db'.grants = db.grants /\ db'.revoked = db.revoked
          /\ db'.expired = db.expired \cup {k}
      BY <1>1, <3>1 DEF AdmDb
    <3> QED
      BY <3>3, <3>4
  <2>4. CASE db' = [db EXCEPT !.revoked = @ \ (db.revoked \cap db.expired)]
    BY <1>1, <2>4 DEF AdmDb
  <2>5. CASE db' = [db EXCEPT !.locked = ~@]
    BY <1>1, <2>5 DEF AdmDb
  <2> QED
    BY <1>3, <2>2, <2>3, <2>4, <2>5
<1>5. AdmRoles'
  BY <1>1, <1>2, <1>4 DEF AdmRoles
<1> QED
  BY <1>1, <1>2, <1>4, <1>5, AdmAside

\* Roles and permissions: a change of roles moves the version.
LEMMA AdmManages ==
  ASSUME AdmInv, NEW c \in Conns,
         \/ \E k \in Admin!Cookies, r \in Roles : Admin!AssignRole(c, k, r) \/ Admin!RevokeRole(c, k, r)
         \/ Admin!SeedRbac(c)
         \/ \E r \in {"member"}, on \in BOOLEAN : Admin!SetPermission(c, r, on)
  PROVE  AdmInv'
<1>1. /\ db \in AdmDb /\ hist \in AdmHist /\ AdmRoles /\ db.extra \in SUBSET Roles /\ AdmFit(db.extra)
      /\ db.ver \in Nat /\ hist.changes = db.ver /\ db.grants \in [Roles -> {"none", "on", "off"}]
      /\ hist.off \in SUBSET Roles /\ \A r \in hist.off : db.grants[r] = "off"
  BY DEF AdmInv, AdmTyped, AdmRoles, AdmDb, AdmHist
<1>2. tx' = tx
  BY DEF Admin!AssignRole, Admin!RevokeRole, Admin!SeedRbac, Admin!SetPermission, Admin!AtOnce
<1>3. ASSUME NEW extra \in SUBSET Roles, AdmFit(extra),
             db' = [db EXCEPT !.extra = extra, !.ver = @ + 1], hist' = [hist EXCEPT !.changes = @ + 1]
      PROVE  AdmInv'
  <2>1. /\ db' \in AdmDb /\ db'.refresh = db.refresh /\ db'.cookies = db.cookies /\ db'.ver = db.ver + 1
        /\ db'.extra = extra /\ db'.grants = db.grants /\ db'.revoked = db.revoked /\ db'.expired = db.expired
    <3>1. /\ db'.refresh = db.refresh /\ db'.cookies = db.cookies /\ db'.ver = db.ver + 1
          /\ db'.extra = extra /\ db'.grants = db.grants /\ db'.revoked = db.revoked /\ db'.expired = db.expired
      BY <1>1, <1>3 DEF AdmDb
    <3>2. db.ver + 1 \in Nat
      BY <1>1
    <3>3. db' \in AdmDb
      BY <1>1, <1>3, <3>2 DEF AdmDb
    <3> QED
      BY <3>1, <3>3
  <2>2. /\ hist' \in AdmHist /\ hist'.verified = hist.verified /\ hist'.crossed = hist.crossed
        /\ hist'.ended = hist.ended /\ hist'.changes = hist.changes + 1 /\ hist'.off = hist.off
        /\ hist'.out = hist.out
    BY <1>1, <1>3 DEF AdmHist
  <2>3. AdmRoles'
    BY <1>1, <1>3, <2>1, <2>2 DEF AdmRoles
  <2> QED
    BY <1>2, <2>1, <2>2, <2>3, AdmAside
<1>4. ASSUME NEW k \in Admin!Cookies, NEW r \in Roles, Admin!AssignRole(c, k, r) PROVE AdmInv'
  <2>1. db.extra \cup {r} \in SUBSET Roles /\ AdmFit(db.extra \cup {r})
    BY <1>1, <1>4 DEF Admin!AssignRole, AdmFit
  <2>2. /\ db' = [db EXCEPT !.extra = db.extra \cup {r}, !.ver = @ + 1]
        /\ hist' = [hist EXCEPT !.changes = @ + 1]
    BY <1>1, <1>4 DEF Admin!AssignRole, Admin!NextVersion, AdmDb
  <2> QED
    BY <1>3, <2>1, <2>2
<1>5. ASSUME NEW k \in Admin!Cookies, NEW r \in Roles, Admin!RevokeRole(c, k, r) PROVE AdmInv'
  <2>1. db.extra \ {r} \in SUBSET Roles /\ AdmFit(db.extra \ {r})
    BY <1>1, AdmFewer
  <2>2. /\ db' = [db EXCEPT !.extra = db.extra \ {r}, !.ver = @ + 1]
        /\ hist' = [hist EXCEPT !.changes = @ + 1]
    BY <1>1, <1>5 DEF Admin!RevokeRole, Admin!NextVersion, AdmDb
  <2> QED
    BY <1>3, <2>1, <2>2
<1>6. ASSUME NEW grants \in [Roles -> {"none", "on", "off"}], NEW off \in SUBSET Roles,
               \A r \in off : grants[r] = "off",
             db' = [db EXCEPT !.grants = grants], hist' = [hist EXCEPT !.off = off]
      PROVE  AdmInv'
  <2>1. /\ db' \in AdmDb /\ db'.refresh = db.refresh /\ db'.cookies = db.cookies /\ db'.ver = db.ver
        /\ db'.extra = db.extra /\ db'.grants = grants /\ db'.revoked = db.revoked /\ db'.expired = db.expired
    BY <1>1, <1>6 DEF AdmDb
  <2>2. /\ hist' \in AdmHist /\ hist'.verified = hist.verified /\ hist'.crossed = hist.crossed
        /\ hist'.ended = hist.ended /\ hist'.changes = hist.changes /\ hist'.off = off /\ hist'.out = hist.out
    BY <1>1, <1>6 DEF AdmHist
  <2>3. AdmRoles'
    BY <1>1, <1>6, <2>1, <2>2 DEF AdmRoles
  <2> QED
    BY <1>2, <2>1, <2>2, <2>3, AdmAside
<1>7. CASE Admin!SeedRbac(c)
  <2> DEFINE grants == [r \in Roles |-> Admin!Seeded(r)]
  <2>1. grants \in [Roles -> {"none", "on", "off"}] /\ \A r \in hist.off : grants[r] = "off"
    BY <1>1 DEF Admin!Seeded
  <2>2. hist' = [hist EXCEPT !.off = hist.off]
    BY <1>1, <1>7 DEF Admin!SeedRbac, AdmHist
  <2>3. db' = [db EXCEPT !.grants = grants]
    BY <1>7 DEF Admin!SeedRbac
  <2> HIDE DEF grants
  <2> QED
    BY <1>1, <1>6, <2>1, <2>2, <2>3
<1>8. ASSUME NEW r \in {"member"}, NEW on \in BOOLEAN, Admin!SetPermission(c, r, on) PROVE AdmInv'
  <2> DEFINE grants == [db.grants EXCEPT ![r] = IF on THEN "on" ELSE "off"]
             off == IF on THEN hist.off \ {r} ELSE hist.off \cup {r}
  <2>1. r \in Roles
    BY DEF Roles
  <2>2. grants \in [Roles -> {"none", "on", "off"}] /\ off \in SUBSET Roles
    BY <1>1, <2>1
  <2>3. \A q \in off : grants[q] = "off"
    BY <1>1, <2>1
  <2>4. db' = [db EXCEPT !.grants = grants] /\ hist' = [hist EXCEPT !.off = off]
    BY <1>1, <1>8 DEF Admin!SetPermission, AdmDb, AdmHist
  <2> HIDE DEF grants, off
  <2> QED
    BY <1>6, <2>2, <2>3, <2>4
<1> QED
  BY <1>4, <1>5, <1>7, <1>8

LEMMA AdmBlocks == ASSUME AdmInv, NEW c \in Conns, Admin!BlockJti(c) PROVE AdmInv'
<1>1. /\ AdmTyped /\ AdmRows /\ AdmRoles /\ AdmTx(tx[c]) /\ db \in AdmDb /\ hist \in AdmHist /\ hist' = hist
      /\ tx[c].op = "blocking" /\ tx[c] \in AdmLogout
  BY AdmRun DEF AdmInv, AdmTxs, Admin!BlockJti
<1>2. PICK t : t = [tx[c] EXCEPT !.op = "storing"]
  OBVIOUS
<1>3. t \in AdmRuns /\ t.op = "storing" /\ t.rt = tx[c].rt /\ tx' = [tx EXCEPT ![c] = t]
  BY <1>1, <1>2 DEF AdmRuns, AdmLogout, Admin!BlockJti, Admin!Continue
<1>4. db' = db \/ db' = [db EXCEPT !.blocked = @ \cup {tx[c].k}]
  BY DEF Admin!BlockJti
<1>5. /\ db' \in AdmDb /\ db'.refresh = db.refresh /\ db'.cookies = db.cookies /\ db'.ver = db.ver
      /\ db'.extra = db.extra /\ db'.grants = db.grants /\ db'.revoked = db.revoked /\ db'.expired = db.expired
  <2>1. tx[c].k \in Nat
    BY <1>1 DEF AdmLogout
  <2> QED
    BY <1>1, <1>4, <2>1 DEF AdmDb
<1>6. tx' \in [Conns -> AdmRuns] /\ tx'[c] = t /\ \A d \in Conns : d # c => tx'[d] = tx[d]
  BY <1>1, <1>3, AdmStep
<1>7. AdmTx(tx[c])' /\ ~Locks(tx'[c])
  BY <1>1, <1>3, <1>5, <1>6 DEF AdmTx, Dead, Locks
<1>8. AdmRoles'
  BY <1>1, <1>5 DEF AdmRoles
<1>9. \A u \in DOMAIN db.refresh : db.refresh[u].mfa => db.refresh[u].from \in hist.verified
  BY <1>1 DEF AdmRows, AdmRow
<1> QED
  BY <1>1, <1>5, <1>6, <1>7, <1>8, <1>9, AdmKeeps

\* A new session.
LEMMA AdmLogins == ASSUME AdmInv, NEW c \in Conns, Admin!CommitLogin(c) PROVE AdmInv'
<1>1. /\ AdmTyped /\ db \in AdmDb /\ tx[c].op = "login" /\ tx[c] \in AdmLogin /\ hist' = hist /\ AdmTx(tx[c])
  BY AdmRun DEF AdmInv, AdmTxs, Admin!CommitLogin
<1>2. PICK n \in Nat : n = Len(db.refresh) + 1
  BY <1>1, AdmTables
<1>3. PICK row : row = [live |-> TRUE, mfa |-> FALSE, roles |-> {"all"}, from |-> n, next |-> 0]
  OBVIOUS
<1>4. PICK e : e = [ver |-> tx[c].ver, rt |-> n, mfa |-> FALSE, roles |-> {"all"}, epoch |-> tx[c].epoch]
  OBVIOUS
<1>5. row \in AdmRowType /\ row.next = 0 /\ row.from = n /\ ~row.mfa
  BY <1>3 DEF AdmRowType, AdmSelections
<1>6. e \in AdmCookieType /\ e.rt = n /\ e.epoch = e.ver /\ ~e.mfa
  BY <1>1, <1>4 DEF AdmCookieType, AdmSelections, AdmLogin, AdmTx
<1>7. /\ db' = [db EXCEPT !.refresh = Append(@, row), !.cookies = Append(@, e)]
      /\ tx' = [tx EXCEPT ![c] = Admin!Idle]
  BY <1>2, <1>3, <1>4 DEF Admin!CommitLogin, Admin!Finish, Admin!Continue, Admin!Row, Admin!Cookie, Admin!All
<1>8. /\ db'.refresh = Append(db.refresh, row) /\ db'.cookies = Append(db.cookies, e)
      /\ db'.ver = db.ver /\ db'.extra = db.extra /\ db'.grants = db.grants /\ db'.revoked = db.revoked
      /\ db'.expired = db.expired
  BY <1>1, <1>7 DEF AdmDb
<1>9. /\ db'.refresh \in Seq(AdmRowType) /\ DOMAIN db'.refresh = 1..n /\ db'.refresh[n] = row
      /\ \A t \in DOMAIN db.refresh : db'.refresh[t] = db.refresh[t]
  BY <1>1, <1>2, <1>5, <1>8, AdmTables, AppendFacts
<1>10. /\ db'.cookies \in Seq(AdmCookieType) /\ DOMAIN db.cookies \subseteq DOMAIN db'.cookies
       /\ \A k \in DOMAIN db.cookies : db'.cookies[k] = db.cookies[k]
       /\ \A k \in DOMAIN db'.cookies : k \in DOMAIN db.cookies \/ db'.cookies[k] = e
  BY <1>1, <1>6, <1>8, AdmTables, AppendFacts
<1>11. db' \in AdmDb
  BY <1>1, <1>7, <1>8, <1>9, <1>10 DEF AdmDb
<1>12. Admin!Idle \in AdmRuns
  BY DEF AdmRuns
<1>13. tx' \in [Conns -> AdmRuns] /\ tx'[c] = Admin!Idle /\ \A d \in Conns : d # c => tx'[d] = tx[d]
  BY <1>1, <1>7, <1>12, AdmStep
<1>14. \A k \in DOMAIN db'.cookies : k \in DOMAIN db.cookies \/
         (db'.cookies[k].rt = n /\ db'.cookies[k].epoch = db'.cookies[k].ver /\ db'.cookies[k].mfa = db'.refresh[n].mfa)
  <2>1. e.mfa = row.mfa
    BY <1>3, <1>4
  <2> QED
    BY <1>6, <1>9, <1>10, <2>1
<1>15. ~db'.refresh[n].mfa /\ db'.refresh[n].next = 0 /\ db'.refresh[n].from = n
  BY <1>5, <1>9
<1>16. PICK t0 \in Nat : t0 = 0
  OBVIOUS
<1>17. /\ t0 = 0 \/ (t0 \in DOMAIN db.refresh /\ Locks(tx[c]) /\ tx[c].rt = t0)
       /\ \A t \in DOMAIN db.refresh : t # t0 => db'.refresh[t] = db.refresh[t]
       /\ t0 # 0 => /\ db'.refresh[t0].from = db.refresh[t0].from /\ db'.refresh[t0].mfa = db.refresh[t0].mfa
                    /\ ~db'.refresh[t0].live /\ db'.refresh[t0].next = 1
       /\ t0 = 0 => db'.refresh[n].from = n /\ ~db'.refresh[n].mfa
       /\ t0 # 0 => db'.refresh[n].from = db.refresh[t0].from /\ (db'.refresh[n].mfa => db.refresh[t0].mfa)
  BY <1>9, <1>15, <1>16
<1>18. AdmInv /\ hist' = hist /\ n \in Nat /\ n = Len(db.refresh) + 1
  BY <1>1, <1>2
<1>19. DOMAIN db'.refresh = 1..n /\ db'.refresh[n].next = 0
  BY <1>9, <1>15
<1>20. DOMAIN db.cookies \subseteq DOMAIN db'.cookies /\ \A k \in DOMAIN db.cookies : db'.cookies[k] = db.cookies[k]
  BY <1>10
<1>21. db'.ver = db.ver /\ db'.extra = db.extra /\ db'.grants = db.grants /\ db'.revoked = db.revoked
         /\ db'.expired = db.expired
  BY <1>8
<1> QED
  BY <1>11, <1>13, <1>14, <1>17, <1>18, <1>19, <1>20, <1>21, AdmAdds

\* The row is spent: a successor with its trust and roles, or nothing when
\* the account was locked.
LEMMA AdmRefreshes == ASSUME AdmInv, NEW c \in Conns, Admin!CommitRefresh(c) PROVE AdmInv'
<1>1. /\ AdmTyped /\ AdmRows /\ AdmRoles /\ db \in AdmDb /\ hist \in AdmHist /\ tx[c].op = "refresh"
      /\ tx[c] \in AdmRefresh
      /\ hist' = hist /\ AdmTx(tx[c]) /\ AdmLocks
  BY AdmRun DEF AdmInv, AdmTxs, Admin!CommitRefresh
<1>2. PICK t0 \in DOMAIN db.refresh : t0 = tx[c].rt
  BY <1>1 DEF AdmTx, Locks
<1>3. PICK old \in AdmRowType : old = db.refresh[t0]
  BY <1>1, AdmTables
<1>4. Locks(tx[c]) /\ old.live /\ old.next = 0 /\ t0 \in Nat /\ t0 # 0
  BY <1>1, <1>2, <1>3, AdmTables DEF AdmTx, Locks, AdmRows, AdmRow
<1>5. Admin!Idle \in AdmRuns /\ tx' = [tx EXCEPT ![c] = Admin!Idle]
  BY DEF AdmRuns, Admin!CommitRefresh, Admin!Finish, Admin!Continue
<1>6. tx' \in [Conns -> AdmRuns] /\ tx'[c] = Admin!Idle /\ \A d \in Conns : d # c => tx'[d] = tx[d]
  BY <1>1, <1>5, AdmStep
<1>7. CASE db' = [db EXCEPT !.refresh[t0].live = FALSE]
  <2>1. PICK spent : spent = [old EXCEPT !.live = FALSE]
    OBVIOUS
  <2>2. spent \in AdmRowType /\ ~spent.live /\ spent.from = old.from /\ spent.next = old.next /\ spent.mfa = old.mfa
    BY <1>3, <2>1 DEF AdmRowType
  <2>3. db'.refresh = [db.refresh EXCEPT ![t0] = spent]
    BY <1>1, <1>3, <1>7, <2>1 DEF AdmDb
  <2>4. /\ db'.refresh \in Seq(AdmRowType) /\ DOMAIN db'.refresh = DOMAIN db.refresh /\ db'.refresh[t0] = spent
        /\ \A t \in DOMAIN db.refresh : t # t0 => db'.refresh[t] = db.refresh[t]
    BY <1>1, <1>2, <2>2, <2>3, AdmTables
  <2>5. /\ db' \in AdmDb /\ db'.cookies = db.cookies /\ db'.ver = db.ver
        /\ db'.extra = db.extra /\ db'.grants = db.grants /\ db'.revoked = db.revoked /\ db'.expired = db.expired
    BY <1>1, <1>7, <2>4 DEF AdmDb
  <2>6. \A t \in DOMAIN db.refresh :
            /\ db'.refresh[t].from = db.refresh[t].from /\ db'.refresh[t].next = db.refresh[t].next
            /\ db'.refresh[t].live => db.refresh[t].live
            /\ db.refresh[t].live /\ ~db'.refresh[t].live =>
                 \A d \in Conns : d # c /\ Locks(tx[d]) => tx[d].rt # t
            /\ db'.refresh[t].mfa => db.refresh[t].from \in hist'.verified
    <3> SUFFICES ASSUME NEW t \in DOMAIN db.refresh
                 PROVE  /\ db'.refresh[t].from = db.refresh[t].from /\ db'.refresh[t].next = db.refresh[t].next
                        /\ db'.refresh[t].live => db.refresh[t].live
                        /\ db.refresh[t].live /\ ~db'.refresh[t].live =>
                             \A d \in Conns : d # c /\ Locks(tx[d]) => tx[d].rt # t
                        /\ db'.refresh[t].mfa => db.refresh[t].from \in hist'.verified
      OBVIOUS
    <3>1. db.refresh[t].mfa => db.refresh[t].from \in hist.verified
      BY <1>1 DEF AdmRows, AdmRow
    <3>2. CASE t = t0
      BY <1>1, <1>2, <1>3, <1>4, <2>2, <2>4, <3>1, <3>2 DEF AdmLocks
    <3>3. CASE t # t0
      BY <1>1, <2>4, <3>1, <3>3
    <3> QED
      BY <3>2, <3>3
  <2>7. AdmTx(tx[c])' /\ ~Locks(tx'[c])
    BY <1>6 DEF AdmTx, Locks, Admin!Idle
  <2>8. AdmRoles'
    BY <1>1, <2>4, <2>5 DEF AdmRoles
  <2> QED
    BY <1>1, <1>6, <2>4, <2>5, <2>6, <2>7, <2>8, AdmKeeps
<1>8. CASE db' # [db EXCEPT !.refresh[t0].live = FALSE]
  <2>1. PICK n \in Nat : n = Len(db.refresh) + 1
    BY <1>1, AdmTables
  <2>2. PICK row : row = [live |-> TRUE, mfa |-> old.mfa, roles |-> old.roles, from |-> old.from, next |-> 0]
    OBVIOUS
  <2>3. PICK e : e = [ver |-> tx[c].ver, rt |-> n, mfa |-> old.mfa, roles |-> old.roles, epoch |-> tx[c].epoch]
    OBVIOUS
  <2>4. PICK spent : spent = [old EXCEPT !.live = FALSE, !.next = @ + 1]
    OBVIOUS
  <2>5. row \in AdmRowType /\ row.next = 0 /\ row.from = old.from /\ row.mfa = old.mfa
    BY <1>3, <2>2 DEF AdmRowType
  <2>6. e \in AdmCookieType /\ e.rt = n /\ e.epoch = e.ver /\ e.mfa = old.mfa
    BY <1>1, <1>3, <2>3 DEF AdmCookieType, AdmRowType, AdmRefresh, AdmTx, Locks
  <2>7. spent \in AdmRowType /\ ~spent.live /\ spent.next = 1 /\ spent.from = old.from /\ spent.mfa = old.mfa
    <3>1. spent = [live |-> FALSE, mfa |-> old.mfa, roles |-> old.roles, from |-> old.from, next |-> old.next + 1]
      BY <1>3, <2>4 DEF AdmRowType
    <3>2. old.mfa \in BOOLEAN /\ old.roles \in AdmSelections /\ old.from \in Nat /\ old.next + 1 = 1
      BY <1>3, <1>4 DEF AdmRowType
    <3> QED
      BY <3>1, <3>2 DEF AdmRowType
  <2> DEFINE mid == [db.refresh EXCEPT ![t0] = spent]
  <2>8. db' = [db EXCEPT !.refresh = Append(mid, row), !.cookies = Append(@, e)]
    <3>1. [db.refresh EXCEPT ![t0].live = FALSE, ![t0].next = @ + 1] = mid
      BY <1>1, <1>2, <1>3, <2>4, AdmTables
    <3>2. db' = [db EXCEPT
                   !.refresh = Append([db.refresh EXCEPT ![t0].live = FALSE, ![t0].next = @ + 1],
                                      Admin!Row(db.refresh[t0].mfa, db.refresh[t0].roles, db.refresh[t0].from)),
                   !.cookies = Append(@, Admin!Cookie(tx[c].ver, n, db.refresh[t0].mfa, db.refresh[t0].roles, tx[c].epoch))]
      BY <1>2, <1>8, <2>1 DEF Admin!CommitRefresh
    <3>3. /\ Admin!Row(db.refresh[t0].mfa, db.refresh[t0].roles, db.refresh[t0].from) = row
          /\ Admin!Cookie(tx[c].ver, n, db.refresh[t0].mfa, db.refresh[t0].roles, tx[c].epoch) = e
      BY <1>3, <2>2, <2>3 DEF Admin!Row, Admin!Cookie
    <3> HIDE DEF mid
    <3> QED
      BY <3>1, <3>2, <3>3, Zenon
  <2>9. /\ mid \in Seq(AdmRowType) /\ Len(mid) = Len(db.refresh) /\ DOMAIN mid = DOMAIN db.refresh
        /\ mid[t0] = spent /\ \A t \in DOMAIN db.refresh : t # t0 => mid[t] = db.refresh[t]
    BY <1>1, <1>2, <2>7, AdmTables
  <2> HIDE DEF mid
  <2>10. /\ db'.refresh = Append(mid, row) /\ db'.cookies = Append(db.cookies, e)
         /\ db'.ver = db.ver /\ db'.extra = db.extra /\ db'.grants = db.grants /\ db'.revoked = db.revoked
         /\ db'.expired = db.expired
    BY <1>1, <2>8 DEF AdmDb
  <2>11. /\ db'.refresh \in Seq(AdmRowType) /\ DOMAIN db'.refresh = 1..n /\ db'.refresh[n] = row
         /\ \A t \in DOMAIN db.refresh : db'.refresh[t] = mid[t]
    BY <2>1, <2>5, <2>9, <2>10, AppendFacts
  <2>12. /\ db'.cookies \in Seq(AdmCookieType) /\ DOMAIN db.cookies \subseteq DOMAIN db'.cookies
         /\ \A k \in DOMAIN db.cookies : db'.cookies[k] = db.cookies[k]
         /\ \A k \in DOMAIN db'.cookies : k \in DOMAIN db.cookies \/ db'.cookies[k] = e
    BY <1>1, <2>6, <2>10, AdmTables, AppendFacts
  <2>13. db' \in AdmDb
    BY <1>1, <2>8, <2>10, <2>11, <2>12 DEF AdmDb
  <2>14. \A k \in DOMAIN db'.cookies : k \in DOMAIN db.cookies \/
           (db'.cookies[k].rt = n /\ db'.cookies[k].epoch = db'.cookies[k].ver /\ db'.cookies[k].mfa = db'.refresh[n].mfa)
    BY <2>5, <2>6, <2>11, <2>12
  <2>15. /\ \A t \in DOMAIN db.refresh : t # t0 => db'.refresh[t] = db.refresh[t]
         /\ db'.refresh[t0].from = db.refresh[t0].from /\ db'.refresh[t0].mfa = db.refresh[t0].mfa
         /\ ~db'.refresh[t0].live /\ db'.refresh[t0].next = 1
    BY <1>2, <1>3, <2>7, <2>9, <2>11
  <2>16. /\ db'.refresh[n].next = 0 /\ db'.refresh[n].from = db.refresh[t0].from
         /\ (db'.refresh[n].mfa => db.refresh[t0].mfa)
    BY <1>3, <2>5, <2>11
  <2>17. /\ t0 = 0 \/ (t0 \in DOMAIN db.refresh /\ Locks(tx[c]) /\ tx[c].rt = t0)
         /\ \A t \in DOMAIN db.refresh : t # t0 => db'.refresh[t] = db.refresh[t]
         /\ t0 # 0 => /\ db'.refresh[t0].from = db.refresh[t0].from /\ db'.refresh[t0].mfa = db.refresh[t0].mfa
                      /\ ~db'.refresh[t0].live /\ db'.refresh[t0].next = 1
         /\ t0 = 0 => db'.refresh[n].from = n /\ ~db'.refresh[n].mfa
         /\ t0 # 0 => db'.refresh[n].from = db.refresh[t0].from /\ (db'.refresh[n].mfa => db.refresh[t0].mfa)
    BY <1>2, <1>4, <2>15, <2>16
  <2>18. AdmInv /\ hist' = hist /\ t0 \in Nat /\ n \in Nat /\ n = Len(db.refresh) + 1
    BY <1>1, <1>4, <2>1
  <2>19. DOMAIN db'.refresh = 1..n /\ db'.refresh[n].next = 0
    BY <2>11, <2>16
  <2>20. DOMAIN db.cookies \subseteq DOMAIN db'.cookies /\ \A k \in DOMAIN db.cookies : db'.cookies[k] = db.cookies[k]
    BY <2>12
  <2>21. db'.ver = db.ver /\ db'.extra = db.extra /\ db'.grants = db.grants /\ db'.revoked = db.revoked
           /\ db'.expired = db.expired
    BY <2>10
  <2> QED
    BY <1>6, <2>13, <2>14, <2>17, <2>18, <2>19, <2>20, <2>21, AdmAdds
<1> QED
  BY <1>7, <1>8

\* The row and the new cookie carry trust that the session has earned.
LEMMA AdmResigns ==
  ASSUME AdmInv, NEW c \in Conns, tx[c].op = "stepup", NEW mfa \in BOOLEAN, NEW roles \in AdmSelections,
         Admin!Resign(c, mfa, roles),
         \/ hist' = hist /\ ~mfa
         \/ hist' = [hist EXCEPT !.verified = @ \cup {db.refresh[tx[c].rt].from}]
  PROVE  AdmInv'
<1>1. /\ AdmTyped /\ AdmRows /\ AdmCookies /\ AdmRoles /\ db \in AdmDb /\ hist \in AdmHist /\ tx[c] \in AdmStepup
      /\ AdmTx(tx[c])
  BY AdmRun DEF AdmInv, AdmTxs
<1>2. PICK t0 \in DOMAIN db.refresh : t0 = tx[c].rt /\ t0 \in Nat
  BY <1>1, AdmTables DEF AdmTx, Locks
<1>3. PICK old \in AdmRowType : old = db.refresh[t0]
  BY <1>1, AdmTables
<1>4. PICK k0 \in DOMAIN db.cookies : k0 = tx[c].k /\ db.cookies[k0].rt = t0 /\ db.cookies[k0].mfa \in BOOLEAN
  BY <1>1, <1>2, AdmTables DEF AdmTx, AdmCookieType
<1>5. old.from \in Nat
  BY <1>3 DEF AdmRowType
<1>6. /\ hist' \in AdmHist /\ hist.verified \subseteq hist'.verified /\ (mfa => old.from \in hist'.verified)
      /\ hist'.crossed = hist.crossed /\ hist'.ended = hist.ended /\ hist'.changes = hist.changes
      /\ hist'.off = hist.off
      /\ hist'.out = hist.out
  BY <1>1, <1>2, <1>3, <1>5 DEF AdmHist
<1>7. /\ old.mfa => old.from \in hist.verified
      /\ db.cookies[k0].mfa => old.from \in hist.verified
  BY <1>1, <1>2, <1>3, <1>4 DEF AdmRows, AdmRow, AdmCookies, AdmCookie
<1>8. PICK rowMfa \in BOOLEAN : rowMfa = (old.mfa \/ mfa)
  BY <1>3 DEF AdmRowType
<1>9. PICK ckMfa \in BOOLEAN : ckMfa = (db.cookies[k0].mfa \/ mfa)
  BY <1>4
<1>10. PICK row : row = [old EXCEPT !.mfa = rowMfa, !.roles = roles]
  OBVIOUS
<1>11. PICK e : e = [ver |-> tx[c].ver, rt |-> t0, mfa |-> ckMfa, roles |-> roles, epoch |-> tx[c].epoch]
  OBVIOUS
<1>12. /\ row \in AdmRowType /\ row.live = old.live /\ row.from = old.from /\ row.next = old.next
       /\ (row.mfa => old.from \in hist'.verified)
  <2>1. row.mfa = rowMfa /\ row \in AdmRowType /\ row.live = old.live /\ row.from = old.from /\ row.next = old.next
    BY <1>3, <1>8, <1>10 DEF AdmRowType
  <2>2. rowMfa => old.from \in hist'.verified
    BY <1>6, <1>7, <1>8
  <2> QED
    BY <2>1, <2>2
<1>13. /\ e \in AdmCookieType /\ e.rt = t0 /\ e.epoch = e.ver /\ (e.mfa => old.from \in hist'.verified)
  <2>1. ckMfa => old.from \in hist'.verified
    BY <1>6, <1>7, <1>9
  <2>2. tx[c].ver \in Nat /\ tx[c].epoch \in Nat /\ tx[c].epoch = tx[c].ver
    BY <1>1 DEF AdmStepup, AdmTx, Locks
  <2>3. e.mfa = ckMfa /\ e \in AdmCookieType /\ e.rt = t0 /\ e.epoch = e.ver
    BY <1>2, <1>9, <1>11, <2>2 DEF AdmCookieType
  <2> QED
    BY <2>1, <2>3
<1>14. Admin!Idle \in AdmRuns /\ tx' = [tx EXCEPT ![c] = Admin!Idle]
  BY DEF AdmRuns, Admin!Resign, Admin!Finish, Admin!Continue
<1>15. tx' \in [Conns -> AdmRuns] /\ tx'[c] = Admin!Idle /\ \A d \in Conns : d # c => tx'[d] = tx[d]
  BY <1>1, <1>14, AdmStep
<1> DEFINE mid == [db.refresh EXCEPT ![t0] = row]
<1>16. db' = [db EXCEPT !.refresh = mid, !.cookies = Append(db.cookies, e)]
  <2>1. db' = [db EXCEPT !.refresh[t0].mfa = @ \/ mfa, !.refresh[t0].roles = roles,
                         !.cookies = Append(@, Admin!Cookie(tx[c].ver, t0, db.cookies[k0].mfa \/ mfa, roles, tx[c].epoch))]
    BY <1>2, <1>4 DEF Admin!Resign
  <2>2. Admin!Cookie(tx[c].ver, t0, db.cookies[k0].mfa \/ mfa, roles, tx[c].epoch) = e
    BY <1>9, <1>11, Zenon DEF Admin!Cookie
  <2>3. db' = [db EXCEPT !.refresh[t0].mfa = @ \/ mfa, !.refresh[t0].roles = roles, !.cookies = Append(@, e)]
    BY <2>1, <2>2, Zenon
  <2>4. db.refresh[t0].mfa \/ mfa <=> rowMfa
    BY <1>3, <1>8
  <2>5. [db.refresh EXCEPT ![t0].mfa = @ \/ mfa, ![t0].roles = roles] = mid
    BY <1>1, <1>2, <1>3, <1>8, <1>10, AdmTables
  <2>6. db' = [db EXCEPT !.refresh = [db.refresh EXCEPT ![t0].mfa = @ \/ mfa, ![t0].roles = roles], !.cookies = Append(@, e)]
    BY <1>1, <2>3 DEF AdmDb
  <2> QED
    BY <1>1, <2>5, <2>6 DEF AdmDb
<1>17. /\ mid \in Seq(AdmRowType) /\ DOMAIN mid = DOMAIN db.refresh
       /\ mid[t0] = row /\ \A t \in DOMAIN db.refresh : t # t0 => mid[t] = db.refresh[t]
  BY <1>1, <1>2, <1>12, AdmTables
<1> HIDE DEF mid
<1>18. /\ db'.refresh = mid /\ db'.cookies = Append(db.cookies, e)
       /\ db'.ver = db.ver /\ db'.extra = db.extra /\ db'.grants = db.grants /\ db'.revoked = db.revoked
       /\ db'.expired = db.expired
  BY <1>1, <1>16 DEF AdmDb
<1>19. /\ db'.cookies \in Seq(AdmCookieType) /\ DOMAIN db.cookies \subseteq DOMAIN db'.cookies
       /\ \A k \in DOMAIN db.cookies : db'.cookies[k] = db.cookies[k]
       /\ \A k \in DOMAIN db'.cookies : k \in DOMAIN db.cookies \/ db'.cookies[k] = e
  BY <1>1, <1>13, <1>18, AdmTables, AppendFacts
<1>20. db' \in AdmDb
  BY <1>1, <1>16, <1>17, <1>18, <1>19 DEF AdmDb
<1>21. \A t \in DOMAIN db.refresh :
            /\ db'.refresh[t].from = db.refresh[t].from /\ db'.refresh[t].next = db.refresh[t].next
            /\ db'.refresh[t].live = db.refresh[t].live
            /\ db'.refresh[t].mfa => db.refresh[t].from \in hist'.verified
  <2> SUFFICES ASSUME NEW t \in DOMAIN db.refresh
               PROVE  /\ db'.refresh[t].from = db.refresh[t].from /\ db'.refresh[t].next = db.refresh[t].next
                      /\ db'.refresh[t].live = db.refresh[t].live
                      /\ db'.refresh[t].mfa => db.refresh[t].from \in hist'.verified
    OBVIOUS
  <2>1. CASE t = t0
    BY <1>3, <1>12, <1>17, <1>18, <2>1
  <2>2. CASE t # t0
    BY <1>1, <1>6, <1>17, <1>18, <2>2 DEF AdmRows, AdmRow
  <2> QED
    BY <2>1, <2>2
<1>22. \A k \in DOMAIN db'.cookies : k \in DOMAIN db.cookies \/ AdmCookie(k)'
  BY <1>3, <1>13, <1>17, <1>18, <1>19, <1>21 DEF AdmCookie
<1>23. AdmTx(tx[c])' /\ ~Locks(tx'[c])
  BY <1>15 DEF AdmTx, Locks, Admin!Idle
<1>24. AdmRoles'
  BY <1>1, <1>6, <1>17, <1>18 DEF AdmRoles
<1> QED
  BY <1>6, <1>15, <1>17, <1>18, <1>19, <1>20, <1>21, <1>22, <1>23, <1>24, AdmKeeps

LEMMA AdmSteps ==
  ASSUME AdmInv, NEW c \in Conns, Admin!Verify2fa(c) \/ \E S \in SUBSET Roles : Admin!Activate(c, S)
  PROVE  AdmInv'
<1>1. AdmTyped /\ tx[c].op = "stepup" /\ tx[c] \in AdmStepup /\ AdmTx(tx[c])
  BY AdmRun DEF AdmInv, AdmTxs, Admin!Verify2fa, Admin!Activate
<1>2. tx[c].k \in DOMAIN db.cookies
  BY <1>1 DEF AdmTx
<1>3. Admin!InForce(tx[c].k) \in SUBSET Roles
  BY <1>1, <1>2, AdmForce
<1>4. CASE Admin!Verify2fa(c)
  <2>1. Admin!InForce(tx[c].k) \in AdmSelections /\ TRUE \in BOOLEAN
    BY <1>3 DEF AdmSelections
  <2>2. /\ Admin!Resign(c, TRUE, Admin!InForce(tx[c].k))
        /\ hist' = [hist EXCEPT !.verified = @ \cup {db.refresh[tx[c].rt].from}]
    BY <1>4 DEF Admin!Verify2fa
  <2> QED
    BY <1>1, <2>1, <2>2, AdmResigns
<1>5. ASSUME NEW S \in SUBSET Roles, Admin!Activate(c, S) PROVE AdmInv'
  <2>1. S \in AdmSelections /\ FALSE \in BOOLEAN
    BY <1>5 DEF AdmSelections
  <2>2. Admin!Resign(c, FALSE, S) /\ hist' = hist
    BY <1>5 DEF Admin!Activate
  <2> QED
    BY <1>1, <2>1, <2>2, AdmResigns
<1> QED
  BY <1>4, <1>5

\* A logout revokes the row that it read: with no successor the session is
\* dead, else the refresh is known to have crossed it.
LEMMA AdmRevokes == ASSUME AdmInv, NEW c \in Conns, Admin!RevokeRow(c) PROVE AdmInv'
<1>1. /\ AdmTyped /\ AdmRows /\ AdmRoles /\ db \in AdmDb /\ hist \in AdmHist /\ tx[c] \in AdmLogout /\ AdmTx(tx[c])
      /\ tx[c].op = "logout" /\ ~Admin!Held(tx[c].rt)
  BY AdmRun DEF AdmInv, AdmTxs, Admin!RevokeRow
<1>2. PICK t0 \in DOMAIN db.refresh : t0 = tx[c].rt /\ t0 \in Nat
  BY <1>1, AdmTables DEF AdmTx
<1>3. PICK old \in AdmRowType : old = db.refresh[t0]
  BY <1>1, AdmTables
<1>4. PICK t : t = [tx[c] EXCEPT !.op = "blocking"]
  OBVIOUS
<1>5. t \in AdmRuns /\ t.op = "blocking" /\ t.rt = t0 /\ tx' = [tx EXCEPT ![c] = t]
  BY <1>1, <1>2, <1>4 DEF AdmRuns, AdmLogout, Admin!RevokeRow, Admin!Continue
<1>6. tx' \in [Conns -> AdmRuns] /\ tx'[c] = t /\ \A d \in Conns : d # c => tx'[d] = tx[d]
  BY <1>1, <1>5, AdmStep
<1>7. PICK row \in AdmRowType : /\ db' = [db EXCEPT !.refresh[t0] = row] /\ ~row.live /\ row.from = old.from
                                /\ row.next = old.next /\ row.mfa = old.mfa
  <2>1. CASE tx[c].write
    <3>1. db' = [db EXCEPT !.refresh[t0].live = FALSE]
      BY <1>2, <2>1 DEF Admin!RevokeRow
    <3>2. PICK row : row = [old EXCEPT !.live = FALSE]
      OBVIOUS
    <3>3. row \in AdmRowType /\ ~row.live /\ row.from = old.from /\ row.next = old.next /\ row.mfa = old.mfa
      BY <1>3, <3>2 DEF AdmRowType
    <3>4. db' = [db EXCEPT !.refresh[t0] = row]
      BY <1>3, <3>1, <3>2
    <3> QED
      BY <3>3, <3>4
  <2>2. CASE ~tx[c].write
    <3>1. db' = db
      BY <2>2 DEF Admin!RevokeRow
    <3>2. ~old.live
      BY <1>1, <1>2, <1>3, <2>2 DEF AdmTx
    <3>3. db' = [db EXCEPT !.refresh[t0] = old]
      BY <1>1, <1>2, <1>3, <3>1, AdmTables DEF AdmDb
    <3> QED
      BY <3>2, <3>3
  <2> QED
    BY <2>1, <2>2
<1>8. db'.refresh = [db.refresh EXCEPT ![t0] = row]
  BY <1>1, <1>7 DEF AdmDb
<1>9. /\ db'.refresh \in Seq(AdmRowType) /\ DOMAIN db'.refresh = DOMAIN db.refresh /\ db'.refresh[t0] = row
      /\ \A u \in DOMAIN db.refresh : u # t0 => db'.refresh[u] = db.refresh[u]
  BY <1>1, <1>2, <1>7, <1>8, AdmTables
<1>10. /\ db' \in AdmDb /\ db'.cookies = db.cookies /\ db'.ver = db.ver
       /\ db'.extra = db.extra /\ db'.grants = db.grants /\ db'.revoked = db.revoked /\ db'.expired = db.expired
  BY <1>1, <1>7, <1>9 DEF AdmDb
<1>11. hist' = [hist EXCEPT !.crossed = IF old.next > 0 THEN @ \cup {old.from} ELSE @]
  BY <1>2, <1>3 DEF Admin!RevokeRow
<1>12. /\ hist' \in AdmHist /\ hist.crossed \subseteq hist'.crossed /\ (old.next > 0 => old.from \in hist'.crossed)
       /\ hist'.verified = hist.verified /\ hist'.ended = hist.ended /\ hist'.changes = hist.changes
       /\ hist'.off = hist.off /\ hist'.out = hist.out
  <2>1. old.from \in Nat
    BY <1>3 DEF AdmRowType
  <2> QED
    BY <1>1, <1>11, <2>1 DEF AdmHist
<1>13. \A u \in DOMAIN db.refresh :
            /\ db'.refresh[u].from = db.refresh[u].from /\ db'.refresh[u].next = db.refresh[u].next
            /\ db'.refresh[u].live => db.refresh[u].live
            /\ db.refresh[u].live /\ ~db'.refresh[u].live =>
                 \A d \in Conns : d # c /\ Locks(tx[d]) => tx[d].rt # u
            /\ db'.refresh[u].mfa => db.refresh[u].from \in hist'.verified
  <2> SUFFICES ASSUME NEW u \in DOMAIN db.refresh
               PROVE  /\ db'.refresh[u].from = db.refresh[u].from /\ db'.refresh[u].next = db.refresh[u].next
                      /\ db'.refresh[u].live => db.refresh[u].live
                      /\ db.refresh[u].live /\ ~db'.refresh[u].live =>
                           \A d \in Conns : d # c /\ Locks(tx[d]) => tx[d].rt # u
                      /\ db'.refresh[u].mfa => db.refresh[u].from \in hist'.verified
    OBVIOUS
  <2>1. db.refresh[u].mfa => db.refresh[u].from \in hist.verified
    BY <1>1 DEF AdmRows, AdmRow
  <2>2. CASE u = t0
    <3>1. \A d \in Conns : Locks(tx[d]) => tx[d].rt # t0
      BY <1>1, <1>2 DEF Admin!Held, Locks
    <3> QED
      BY <1>3, <1>7, <1>9, <1>12, <2>1, <2>2, <3>1
  <2>3. CASE u # t0
    BY <1>9, <1>12, <2>1, <2>3
  <2> QED
    BY <2>2, <2>3
<1>14. Dead(t0)' \/ db'.refresh[t0].from \in hist'.crossed
  <2>1. old.next \in Nat
    BY <1>3 DEF AdmRowType
  <2>2. CASE old.next = 0
    <3>1. ASSUME NEW u \in DOMAIN db.refresh, db.refresh[u].from = old.from, u # t0 PROVE ~db.refresh[u].live
      <4>1. u \in Nat
        BY <1>1, AdmTables
      <4>2. CASE u > t0
        BY <1>1, <1>3, <2>2, <3>1, <4>2 DEF AdmRows, AdmRow
      <4>3. CASE t0 > u
        BY <1>1, <1>3, <3>1, <4>3 DEF AdmRows, AdmRow
      <4> QED
        BY <1>2, <3>1, <4>1, <4>2, <4>3
    <3>2. \A u \in DOMAIN db'.refresh : db'.refresh[u].from = db'.refresh[t0].from => ~db'.refresh[u].live
      BY <1>3, <1>7, <1>9, <1>13, <3>1
    <3> QED
      BY <3>2 DEF Dead
  <2>3. CASE old.next > 0
    BY <1>7, <1>9, <1>12, <2>3
  <2> QED
    BY <2>1, <2>2, <2>3
<1>15. AdmTx(tx[c])' /\ ~Locks(tx'[c])
  BY <1>2, <1>5, <1>6, <1>9, <1>14 DEF AdmTx, Locks, Dead
<1>16. AdmRoles'
  BY <1>1, <1>9, <1>10, <1>12 DEF AdmRoles
<1> QED
  BY <1>6, <1>9, <1>10, <1>12, <1>13, <1>15, <1>16, AdmKeeps

\* The logout is complete.
LEMMA AdmLogsOut == ASSUME AdmInv, NEW c \in Conns, Admin!CommitLogout(c) PROVE AdmInv'
<1>1. /\ AdmTyped /\ AdmRows /\ AdmRoles /\ db \in AdmDb /\ hist \in AdmHist /\ tx[c] \in AdmLogout /\ AdmTx(tx[c])
      /\ tx[c].op = "storing"
  BY AdmRun DEF AdmInv, AdmTxs, Admin!CommitLogout
<1>2. PICK t0 \in DOMAIN db.refresh : t0 = tx[c].rt /\ (Dead(t0) \/ db.refresh[t0].from \in hist.crossed)
  BY <1>1 DEF AdmTx
<1>3. PICK from \in Nat : from = db.refresh[t0].from /\ from \in DOMAIN db.refresh
  BY <1>1, <1>2, AdmTables DEF AdmRows, AdmRow
<1>4. tx[c].k \in Nat
  BY <1>1 DEF AdmLogout
<1>5. /\ db' = [db EXCEPT !.revoked = @ \cup {tx[c].k}]
      /\ hist' = [hist EXCEPT !.out = @ \cup {tx[c].k}, !.ended = @ \cup {from}]
      /\ tx' = [tx EXCEPT ![c] = Admin!Idle]
  BY <1>2, <1>3 DEF Admin!CommitLogout, Admin!Finish, Admin!Continue
<1>6. /\ db' \in AdmDb /\ db'.refresh = db.refresh /\ db'.cookies = db.cookies /\ db'.ver = db.ver
      /\ db'.extra = db.extra /\ db'.grants = db.grants /\ db'.revoked = db.revoked \cup {tx[c].k}
      /\ db'.expired = db.expired
  BY <1>1, <1>4, <1>5 DEF AdmDb
<1>7. /\ hist' \in AdmHist /\ hist'.crossed = hist.crossed /\ hist'.verified = hist.verified
      /\ hist'.ended = hist.ended \cup {from} /\ hist'.changes = hist.changes /\ hist'.off = hist.off
      /\ hist'.out = hist.out \cup {tx[c].k}
  BY <1>1, <1>3, <1>4, <1>5 DEF AdmHist
<1>8. Admin!Idle \in AdmRuns
  BY DEF AdmRuns
<1>9. tx' \in [Conns -> AdmRuns] /\ tx'[c] = Admin!Idle /\ \A d \in Conns : d # c => tx'[d] = tx[d]
  BY <1>1, <1>5, <1>8, AdmStep
<1>10. \A s \in hist'.ended : s \in hist.ended \/ s \in hist'.crossed \/
            \A t \in DOMAIN db.refresh : db.refresh[t].from = s => ~db'.refresh[t].live
  BY <1>2, <1>3, <1>6, <1>7 DEF Dead
<1>11. AdmTx(tx[c])' /\ ~Locks(tx'[c])
  BY <1>9 DEF AdmTx, Locks, Admin!Idle
<1>12. AdmRoles'
  BY <1>1, <1>3, <1>6, <1>7 DEF AdmRoles
<1>13. \A u \in DOMAIN db.refresh : db.refresh[u].mfa => db.refresh[u].from \in hist.verified
  BY <1>1 DEF AdmRows, AdmRow
<1> QED
  BY <1>6, <1>7, <1>9, <1>10, <1>11, <1>12, <1>13, AdmKeeps

LEMMA AdmInit == Admin!Init => AdmInv
<1> SUFFICES ASSUME Admin!Init PROVE AdmInv
  OBVIOUS
<1>1. /\ db = [ver |-> 0, locked |-> FALSE, extra |-> {"super"}, refresh |-> <<>>, cookies |-> <<>>,
               revoked |-> {}, blocked |-> {}, expired |-> {}, grants |-> [r \in Roles |-> "none"]]
      /\ hist = [changes |-> 0, verified |-> {}, out |-> {}, ended |-> {}, crossed |-> {}, off |-> {}]
      /\ tx = [c \in Conns |-> Admin!Idle]
  BY DEF Admin!Init, Admin!Resting
<1>2. {"super"} \in SUBSET Roles /\ {"member", "super"} \in SUBSET Roles /\ "reviewer" \notin {"member", "super"}
  BY DEF Roles
<1>3. AdmFit({"super"})
  <2>1. Admin!Authorized({"super"}) = Admin!Closure({"member", "super"})
    <3>1. {"member"} \cup {"super"} = {"member", "super"}
      OBVIOUS
    <3> QED
      BY <3>1 DEF Admin!Authorized, Admin!Assigned
  <2>2. Admin!Authorized({"super"}) \in SUBSET Roles /\ "reviewer" \notin Admin!Authorized({"super"})
    BY <1>2, <2>1, AdmClosure
  <2>3. "reviewer" \notin Admin!Closure(Admin!Authorized({"super"}))
    BY <2>2, AdmClosure
  <2> QED
    BY <2>3, AdmSeparates DEF AdmFit
<1>4. AdmTyped
  <2>1. <<>> \in Seq(AdmRowType) /\ <<>> \in Seq(AdmCookieType) /\ {} \in SUBSET Nat /\ {} \in SUBSET Roles
    OBVIOUS
  <2>2. [r \in Roles |-> "none"] \in [Roles -> {"none", "on", "off"}]
    OBVIOUS
  <2>3. db \in AdmDb
    BY <1>1, <1>2, <2>1, <2>2 DEF AdmDb
  <2>4. hist \in AdmHist
    BY <1>1, <2>1 DEF AdmHist
  <2> QED
    BY <1>1, <2>3, <2>4 DEF AdmTyped, AdmRuns
<1>5. DOMAIN db.refresh = {} /\ DOMAIN db.cookies = {}
  BY <1>1
<1>6. AdmTxs /\ AdmLocks
  BY <1>1 DEF AdmTxs, AdmLocks, AdmTx, Locks, Admin!Idle
<1>7. AdmRoles
  BY <1>1, <1>3 DEF AdmRoles
<1> QED
  BY <1>4, <1>5, <1>6, <1>7 DEF AdmInv, AdmRows, AdmCookies

LEMMA AdmNext == AdmInv /\ Admin!Next => AdmInv'
<1> SUFFICES ASSUME AdmInv, Admin!Next PROVE AdmInv'
  OBVIOUS
<1>1. CASE Admin!ForgetJti \/ \E k \in Admin!Cookies : Admin!ExpireCookie(k)
  BY <1>1, AdmForgets
<1>2. ASSUME NEW c \in Conns,
             \/ Admin!Login(c) \/ \E t \in Admin!Tokens : Admin!Refresh(c, t)
             \/ \E k \in Admin!Cookies : Admin!Enter(c, k) \/ Admin!Logout(c, k)
      PROVE  AdmInv'
  BY <1>2, AdmOpens
<1>3. ASSUME NEW c \in Conns, Admin!CommitLogin(c) \/ Admin!CommitRefresh(c) PROVE AdmInv'
  BY <1>3, AdmLogins, AdmRefreshes
<1>4. ASSUME NEW c \in Conns, Admin!Verify2fa(c) \/ \E S \in SUBSET Roles : Admin!Activate(c, S) PROVE AdmInv'
  BY <1>4, AdmSteps
<1>5. ASSUME NEW c \in Conns, Admin!RevokeRow(c) \/ Admin!BlockJti(c) \/ Admin!CommitLogout(c) \/ Admin!Fail(c)
      PROVE  AdmInv'
  BY <1>5, AdmRevokes, AdmBlocks, AdmLogsOut, AdmFails
<1>6. ASSUME NEW c \in Conns, Admin!PurgeRevoked(c) \/ Admin!ToggleLock(c) PROVE AdmInv'
  BY <1>6, AdmForgets
<1>7. ASSUME NEW c \in Conns,
             \/ \E k \in Admin!Cookies, r \in Roles : Admin!AssignRole(c, k, r) \/ Admin!RevokeRole(c, k, r)
             \/ Admin!SeedRbac(c)
             \/ \E r \in {"member"}, on \in BOOLEAN : Admin!SetPermission(c, r, on)
      PROVE  AdmInv'
  BY <1>7, AdmManages
<1> QED
  BY <1>1, <1>2, <1>3, <1>4, <1>5, <1>6, <1>7 DEF Admin!Next

LEMMA AdmStays == AdmInv /\ UNCHANGED <<db, tx, hist, left>> => AdmInv'
  BY DEF AdmInv, AdmTyped, AdmRows, AdmRow, AdmCookies, AdmCookie, AdmTxs, AdmTx, Dead, AdmLocks, AdmRoles

LEMMA AdmKept == AdmInv => Admin!AdminSound
<1> SUFFICES ASSUME AdmInv PROVE Admin!AdminSound
  OBVIOUS
<1>1. AdmTyped /\ AdmRows /\ AdmCookies /\ AdmRoles
  BY DEF AdmInv
<1>2. Admin!RoleChangeEnds
  BY <1>1 DEF AdmCookies, AdmCookie, AdmRoles, Admin!RoleChangeEnds, Admin!Accepted, Admin!Cookies
<1>3. Admin!ForceBounded
  <2> SUFFICES ASSUME NEW k \in DOMAIN db.cookies
               PROVE  /\ Admin!InForce(k) \subseteq Admin!Authorized(db.extra)
                      /\ Admin!Satisfies(Admin!InForce(k), DSD) /\ Admin!Satisfies(Admin!Authorized(db.extra), SSD)
                      /\ Admin!Permitted(k) => \E r \in Admin!Closure(Admin!InForce(k)) : r \notin hist.off
    BY DEF Admin!ForceBounded, Admin!Cookies
  <2>1. Admin!InForce(k) \subseteq Admin!Authorized(db.extra) /\ Admin!Satisfies(Admin!InForce(k), DSD)
    BY <1>1, AdmForce
  <2>2. Admin!Satisfies(Admin!Authorized(db.extra), SSD)
    BY <1>1 DEF AdmRoles, AdmFit
  <2>3. Admin!Permitted(k) => \E r \in Admin!Closure(Admin!InForce(k)) : r \notin hist.off
    <3>1. Admin!Permitted(k) => \E r \in Admin!Closure(Admin!InForce(k)) : db.grants[r] = "on"
      BY DEF Admin!Permitted, Admin!Holds
    <3>2. \A r \in hist.off : db.grants[r] # "on"
      <4>1. "on" # "off"
        OBVIOUS
      <4> QED
        BY <1>1, <4>1 DEF AdmRoles
    <3> QED
      BY <3>1, <3>2
  <2> QED
    BY <2>1, <2>2, <2>3
<1>4. Admin!LoggedOut
  BY <1>1 DEF AdmRoles, Admin!LoggedOut, Admin!Accepted, Admin!JtiRevoked
<1>5. Admin!ChainKept
  BY <1>1 DEF AdmRows, AdmRow, Admin!ChainKept, Admin!Tokens
<1>6. Admin!TrustEarned
  BY <1>1 DEF AdmCookies, AdmCookie, Admin!TrustEarned, Admin!Cookies
<1> QED
  BY <1>2, <1>3, <1>4, <1>5, <1>6 DEF Admin!AdminSound

-----------------------------------------------------------------------------
(* The settings of an account: binding and unbinding                       *)

WaysUsers == {"u1", "u2"}

WaysCode == [n : Nat, way : Ways!Ways, addr : Nat]

WaysDb ==
  [bound : SUBSET [user : WaysUsers, way : Ways!Ways, addr : Nat], level : [WaysUsers -> {"local", "normal"}],
   codes : SUBSET WaysCode, sent : Nat]

WaysBind ==
  [op : {"bind"}, step : {"read", "taken"}, user : WaysUsers, way : Ways!Ways, addr : Nat, code : WaysCode,
   level : {"", "local", "normal"}]

WaysUnbind == [op : {"unbind"}, step : {"locked", "counted"}, user : WaysUsers, way : Ways!Ways]

WaysRuns == {Ways!Idle} \cup WaysBind \cup WaysUnbind

WaysTyped ==
  /\ tx \in [Conns -> WaysRuns]
  /\ db \in WaysDb
  /\ hist \in [had : SUBSET WaysUsers, used : SUBSET WaysCode, again : BOOLEAN]

\* A code that bound an address is gone.
WaysCodes ==
  /\ \A k \in db.codes : k.n <= db.sent /\ k.way # "github"
  /\ \A k \in hist.used : k.n <= db.sent /\ k \notin db.codes

\* A request that holds the row of a code, and one that holds a user's row.
Takes(t) == t.op = "bind" /\ t.step = "taken" /\ t.way # "github"
HoldsRow(t) == t.op = "unbind"

\* What a request has read still holds: its code is unused, a level above
\* local stays, and the user whose ways were counted has another one.
WaysTx(t) ==
  /\ t.op = "bind" => /\ t.step = "taken" => t.level # "" /\ (t.level = "normal" => db.level[t.user] = "normal")
                      /\ t.code.way = t.way
                      /\ t.way # "github" => t.code.n <= db.sent
  /\ Takes(t) => t.code \notin hist.used
  /\ t.op = "unbind" /\ t.step = "counted" => \E w \in Ways!WaysOf(t.user) : w # t.way

WaysTxs == \A c \in Conns : WaysTx(tx[c])

Apart(t, u) == ~(HoldsRow(t) /\ HoldsRow(u) /\ t.user = u.user) /\ ~(Takes(t) /\ Takes(u) /\ t.code = u.code)

WaysLocks == \A c, d \in Conns : c # d => Apart(tx[c], tx[d])

WaysInv == WaysTyped /\ WaysCodes /\ WaysTxs /\ WaysLocks /\ Ways!AccountsReachable /\ Ways!BindingsDistinct

LEMMA WaysRun ==
  ASSUME WaysTyped, NEW c \in Conns
  PROVE  /\ tx[c] \in WaysRuns
         /\ tx[c].op = "bind" => tx[c] \in WaysBind
         /\ tx[c].op = "unbind" => tx[c] \in WaysUnbind
<1>1. tx[c] \in WaysRuns
  BY DEF WaysTyped
<1>2. \A t \in WaysBind : t.op = "bind"
  BY DEF WaysBind
<1>3. \A t \in WaysUnbind : t.op = "unbind"
  BY DEF WaysUnbind
<1>4. Ways!Idle.op = "idle"
  BY DEF Ways!Idle
<1> QED
  BY <1>1, <1>2, <1>3, <1>4 DEF WaysRuns

LEMMA WaysRests == Ways!Idle \in WaysRuns /\ WaysTx(Ways!Idle) /\ \A t : Apart(Ways!Idle, t) /\ Apart(t, Ways!Idle)
BY DEF WaysRuns, WaysTx, Apart, HoldsRow, Takes, Ways!Idle

LEMMA WaysCount == ASSUME NEW S \in SUBSET Ways!Ways, Ways!Cardinality(S) > 1, NEW r PROVE \E w \in S : w # r
<1>1. Ways!Cardinality(S) = Cardinality(S)
  BY DEF Cardinality, Ways!Cardinality
<1>2. SUFFICES ASSUME S \subseteq {r} PROVE FALSE
  OBVIOUS
<1>3. IsFiniteSet({r}) /\ Cardinality({r}) = 1
  BY FS_Singleton
<1>4. Cardinality(S) <= Cardinality({r})
  BY <1>2, <1>3, FS_Subset
<1>5. Cardinality(S) \in Nat
  BY <1>2, <1>3, FS_Subset, FS_CardinalityType
<1> QED
  BY <1>1, <1>3, <1>4, <1>5

\* A step of one request that changes nothing but what it has read.
LEMMA WaysMoves ==
  ASSUME WaysInv, NEW c \in Conns, NEW t \in WaysRuns, tx' = [tx EXCEPT ![c] = t], db' = db, hist' = hist,
         WaysTx(t), \A d \in Conns : d # c => Apart(t, tx[d]) /\ Apart(tx[d], t)
  PROVE  WaysInv'
<1>1. WaysTyped /\ WaysCodes /\ WaysTxs /\ WaysLocks /\ Ways!AccountsReachable /\ Ways!BindingsDistinct
  BY DEF WaysInv
<1>2. tx' \in [Conns -> WaysRuns] /\ tx'[c] = t /\ \A d \in Conns : d # c => tx'[d] = tx[d]
  BY <1>1 DEF WaysTyped
<1>3. WaysTyped' /\ WaysCodes'
  BY <1>1, <1>2 DEF WaysTyped, WaysCodes
<1>4. WaysTxs'
  <2>1. \A d \in Conns : WaysTx(tx'[d])
    BY <1>1, <1>2 DEF WaysTxs
  <2> QED
    BY <2>1 DEF WaysTxs, WaysTx, Ways!WaysOf
<1>5. WaysLocks'
  BY <1>1, <1>2 DEF WaysLocks
<1>6. Ways!AccountsReachable' /\ Ways!BindingsDistinct'
  BY <1>1 DEF Ways!AccountsReachable, Ways!BindingsDistinct, Ways!WaysOf
<1> QED
  BY <1>3, <1>4, <1>5, <1>6 DEF WaysInv

LEMMA WaysOpens ==
  ASSUME WaysInv, NEW c \in Conns, NEW u \in WaysUsers,
         \/ \E code \in db.codes : Ways!VerifyCode(c, u, code)
         \/ \E a \in {1, 2} : Ways!ConnectGithub(c, u, a)
         \/ \E way \in Ways!Ways : Ways!Unbind(c, u, way)
  PROVE  WaysInv'
<1>1. WaysTyped /\ WaysCodes /\ WaysLocks
  BY DEF WaysInv
<1>2. CASE \E code \in db.codes : Ways!VerifyCode(c, u, code)
  <2>1. PICK code \in db.codes : Ways!VerifyCode(c, u, code)
    BY <1>2
  <2>2. PICK t : t = [op |-> "bind", step |-> "read", user |-> u, way |-> code.way, addr |-> code.addr, code |-> code,
                      level |-> ""]
    OBVIOUS
  <2>3. code \in WaysCode /\ code.n <= db.sent
    BY <1>1 DEF WaysTyped, WaysDb, WaysCodes
  <2>4. t \in WaysRuns
    BY <2>2, <2>3 DEF WaysRuns, WaysBind, WaysCode
  <2>5. WaysTx(t) /\ ~Takes(t) /\ ~HoldsRow(t)
    BY <2>2, <2>3 DEF WaysTx, Takes, HoldsRow
  <2>6. tx' = [tx EXCEPT ![c] = t] /\ db' = db /\ hist' = hist
    BY <2>1, <2>2 DEF Ways!VerifyCode, Ways!Begin
  <2> QED
    BY <2>4, <2>5, <2>6, WaysMoves DEF Apart
<1>3. CASE \E a \in {1, 2} : Ways!ConnectGithub(c, u, a)
  <2>1. PICK a \in {1, 2} : Ways!ConnectGithub(c, u, a)
    BY <1>3
  <2>0. PICK k : k = [n |-> 0, way |-> "github", addr |-> a]
    OBVIOUS
  <2>2. PICK t : t = [op |-> "bind", step |-> "taken", user |-> u, way |-> "github", addr |-> a, code |-> k,
                      level |-> db.level[u]]
    OBVIOUS
  <2>3. db.level[u] \in {"local", "normal"}
    BY <1>1 DEF WaysTyped, WaysDb
  <2>4. t \in WaysRuns
    <3>1. k \in WaysCode
      BY <2>0 DEF WaysCode, Ways!Ways
    <3>2. a \in Nat /\ "github" \in Ways!Ways /\ db.level[u] \in {"", "local", "normal"}
      <4>1. a \in Nat
        OBVIOUS
      <4>2. "github" \in Ways!Ways
        BY DEF Ways!Ways
      <4> QED
        BY <2>3, <4>1, <4>2
    <3>3. t \in WaysBind
      BY <2>2, <3>1, <3>2 DEF WaysBind
    <3> QED
      BY <3>3 DEF WaysRuns
  <2>5. WaysTx(t) /\ ~Takes(t) /\ ~HoldsRow(t)
    BY <2>0, <2>2, <2>3 DEF WaysTx, Takes, HoldsRow
  <2>6. tx' = [tx EXCEPT ![c] = t] /\ db' = db /\ hist' = hist
    BY <2>0, <2>1, <2>2 DEF Ways!ConnectGithub, Ways!Begin
  <2> QED
    BY <2>4, <2>5, <2>6, WaysMoves DEF Apart
<1>4. CASE \E way \in Ways!Ways : Ways!Unbind(c, u, way)
  <2>1. PICK way \in Ways!Ways : Ways!Unbind(c, u, way)
    BY <1>4
  <2>2. PICK t : t = [op |-> "unbind", step |-> "locked", user |-> u, way |-> way]
    OBVIOUS
  <2>3. t \in WaysRuns /\ WaysTx(t) /\ ~Takes(t) /\ t.user = u
    BY <2>2 DEF WaysRuns, WaysUnbind, WaysTx, Takes
  <2>4. tx' = [tx EXCEPT ![c] = t] /\ db' = db /\ hist' = hist
    BY <2>1, <2>2 DEF Ways!Unbind, Ways!Begin
  <2>5. \A d \in Conns : d # c => ~(HoldsRow(tx[d]) /\ tx[d].user = u)
    BY <2>1 DEF Ways!Unbind, Ways!LockedUser, HoldsRow
  <2> QED
    BY <2>3, <2>4, <2>5, WaysMoves DEF Apart
<1> QED
  BY <1>2, <1>3, <1>4

LEMMA WaysEnds == ASSUME WaysInv, NEW c \in Conns, Ways!Finish(c), db' = db, hist' = hist PROVE WaysInv'
BY WaysRests, WaysMoves DEF Ways!Finish, Ways!Continue

LEMMA WaysTakes == ASSUME WaysInv, NEW c \in Conns, Ways!TakeCode(c) PROVE WaysInv'
<1>1. WaysTyped /\ WaysCodes /\ WaysTxs /\ WaysTx(tx[c]) /\ tx[c].op = "bind" /\ tx[c].step = "read"
        /\ tx[c] \in WaysBind
  BY WaysRun DEF WaysInv, WaysTxs, Ways!TakeCode
<1>2. CASE tx[c].code \in db.codes /\ Ways!Owner(tx[c].way, tx[c].addr) = {}
  <2>1. PICK r \in WaysBind : r = tx[c]
    BY <1>1
  <2>2. PICK t : t = [r EXCEPT !.step = "taken", !.level = db.level[r.user]]
    OBVIOUS
  <2>3. db.level[r.user] \in {"local", "normal"}
    BY <1>1 DEF WaysTyped, WaysDb, WaysBind
  <2>4. /\ t \in WaysBind /\ t.op = "bind" /\ t.step = "taken" /\ t.user = r.user /\ t.way = r.way /\ t.code = r.code
        /\ t.level = db.level[r.user]
    BY <2>2, <2>3 DEF WaysBind
  <2>5. WaysTx(t)
    BY <1>1, <1>2, <2>1, <2>3, <2>4 DEF WaysTx, Takes, WaysCodes
  <2>6. tx' = [tx EXCEPT ![c] = t] /\ db' = db /\ hist' = hist
    BY <1>2, <2>1, <2>2 DEF Ways!TakeCode, Ways!Continue
  <2>7. \A d \in Conns : d # c => ~(Takes(tx[d]) /\ tx[d].code = t.code)
    BY <2>1, <2>4 DEF Ways!TakeCode, Ways!LockedCode, Takes
  <2>8. t \in WaysRuns /\ ~HoldsRow(t)
    BY <2>4 DEF WaysRuns, HoldsRow
  <2> QED
    BY <2>5, <2>6, <2>7, <2>8, WaysMoves DEF Apart
<1>3. CASE ~(tx[c].code \in db.codes /\ Ways!Owner(tx[c].way, tx[c].addr) = {})
  BY <1>3, WaysEnds DEF Ways!TakeCode, Ways!Refuse
<1> QED
  BY <1>2, <1>3

LEMMA WaysCounts == ASSUME WaysInv, NEW c \in Conns, Ways!CountWays(c) PROVE WaysInv'
<1>1. WaysTyped /\ WaysLocks /\ tx[c].op = "unbind" /\ tx[c] \in WaysUnbind
  BY WaysRun DEF WaysInv, Ways!CountWays
<1>2. CASE Ways!Cardinality(Ways!WaysOf(tx[c].user)) > 1 /\ tx[c].way \in Ways!WaysOf(tx[c].user)
  <2>1. PICK r \in WaysUnbind : r = tx[c]
    BY <1>1
  <2>2. PICK t : t = [r EXCEPT !.step = "counted"]
    OBVIOUS
  <2>3. t \in WaysUnbind /\ t.op = "unbind" /\ t.user = r.user /\ t.way = r.way
    BY <2>2 DEF WaysUnbind
  <2>4. Ways!WaysOf(r.user) \in SUBSET Ways!Ways
    BY <1>1 DEF WaysTyped, WaysDb, Ways!WaysOf
  <2>5. \E w \in Ways!WaysOf(r.user) : w # r.way
    BY <1>2, <2>1, <2>4, WaysCount
  <2>6. WaysTx(t) /\ ~Takes(t) /\ t \in WaysRuns
    BY <2>3, <2>5 DEF WaysTx, Takes, WaysRuns
  <2>7. tx' = [tx EXCEPT ![c] = t] /\ db' = db /\ hist' = hist
    BY <1>2, <2>1, <2>2 DEF Ways!CountWays, Ways!Continue
  <2>8. \A d \in Conns : d # c => Apart(t, tx[d]) /\ Apart(tx[d], t)
    BY <1>1, <2>1, <2>3, <2>6 DEF WaysLocks, Apart, HoldsRow
  <2> QED
    BY <2>6, <2>7, <2>8, WaysMoves
<1>3. CASE ~(Ways!Cardinality(Ways!WaysOf(tx[c].user)) > 1 /\ tx[c].way \in Ways!WaysOf(tx[c].user))
  BY <1>3, WaysEnds DEF Ways!CountWays, Ways!Refuse
<1> QED
  BY <1>2, <1>3

LEMMA WaysSends ==
  ASSUME WaysInv,
         \/ \E c \in Conns, way \in {"email", "phone"}, a \in {1, 2} : Ways!RequestCode(c, way, a)
         \/ \E code \in db.codes : Ways!ExpireCode(code)
  PROVE  WaysInv'
<1>1. /\ WaysTyped /\ WaysCodes /\ WaysTxs /\ WaysLocks /\ Ways!AccountsReachable /\ Ways!BindingsDistinct
      /\ db.sent \in Nat /\ db \in WaysDb
  BY DEF WaysInv, WaysTyped, WaysDb
<1>2. /\ tx' = tx /\ hist' = hist /\ db'.bound = db.bound /\ db'.level = db.level /\ db' \in WaysDb
      /\ db'.sent \in Nat /\ db.sent <= db'.sent
      /\ \A k \in db'.codes : k \in db.codes \/ (k.n > db.sent /\ k.n <= db'.sent /\ k.way # "github")
  <2>1. CASE \E c \in Conns, way \in {"email", "phone"}, a \in {1, 2} : Ways!RequestCode(c, way, a)
    <3>1. PICK c \in Conns, way \in {"email", "phone"}, a \in {1, 2} : Ways!RequestCode(c, way, a)
      BY <2>1
    <3>2. PICK k : k = [n |-> db.sent + 1, way |-> way, addr |-> a]
      OBVIOUS
    <3>3. k \in WaysCode /\ k.n = db.sent + 1 /\ k.way # "github"
      BY <1>1, <3>2 DEF WaysCode, Ways!Ways
    <3>4. tx' = tx /\ hist' = hist /\ db' = [db EXCEPT !.sent = @ + 1, !.codes = @ \cup {k}]
      BY <3>1, <3>2 DEF Ways!RequestCode, Ways!AtOnce
    <3>5. db'.sent = db.sent + 1 /\ db'.codes = db.codes \cup {k} /\ db'.bound = db.bound /\ db'.level = db.level
      BY <1>1, <3>4 DEF WaysDb
    <3>6. db' \in WaysDb
      <4>1. db' = [bound |-> db.bound, level |-> db.level, codes |-> db.codes \cup {k}, sent |-> db.sent + 1]
        BY <1>1, <3>4 DEF WaysDb
      <4> QED
        BY <1>1, <3>3, <4>1 DEF WaysDb
    <3> QED
      BY <1>1, <3>3, <3>4, <3>5, <3>6
  <2>2. CASE \E code \in db.codes : Ways!ExpireCode(code)
    BY <1>1, <2>2 DEF Ways!ExpireCode, WaysDb
  <2> QED
    BY <2>1, <2>2
<1>3. WaysTyped'
  BY <1>1, <1>2 DEF WaysTyped
<1>4. WaysCodes'
  <2>1. \A k \in db.codes \cup hist.used : k.n \in Nat
    BY <1>1 DEF WaysTyped, WaysDb, WaysCode
  <2>2. \A k \in db'.codes : k.n <= db'.sent /\ k.way # "github"
    BY <1>1, <1>2, <2>1 DEF WaysCodes
  <2>3. \A k \in hist.used : k.n <= db'.sent /\ k \notin db'.codes
    BY <1>1, <1>2, <2>1 DEF WaysCodes
  <2> QED
    BY <1>2, <2>2, <2>3 DEF WaysCodes
<1>5. WaysTxs'
  <2> SUFFICES ASSUME NEW d \in Conns PROVE WaysTx(tx[d])'
    BY <1>2 DEF WaysTxs
  <2>1. WaysTx(tx[d]) /\ (tx[d].op = "bind" => tx[d].code.n \in Nat) /\ tx'[d] = tx[d]
    BY <1>1, <1>2, WaysRun DEF WaysTxs, WaysBind, WaysCode
  <2>2. \A u : Ways!WaysOf(u)' = Ways!WaysOf(u)
    BY <1>2 DEF Ways!WaysOf
  <2>3. tx[d].op = "bind" /\ tx[d].way # "github" => tx[d].code.n <= db'.sent
    <3>1. tx[d].op = "bind" /\ tx[d].way # "github" => tx[d].code.n <= db.sent
      BY <2>1 DEF WaysTx
    <3> QED
      BY <1>1, <1>2, <2>1, <3>1
  <2>4. tx[d].op = "unbind" /\ tx[d].step = "counted" => \E w \in Ways!WaysOf(tx[d].user)' : w # tx[d].way
    BY <2>1, <2>2 DEF WaysTx
  <2> QED
    BY <1>2, <2>1, <2>3, <2>4 DEF WaysTx, Takes
<1>6. WaysLocks'
  BY <1>1, <1>2 DEF WaysLocks
<1>7. Ways!AccountsReachable' /\ Ways!BindingsDistinct'
  BY <1>1, <1>2 DEF Ways!AccountsReachable, Ways!BindingsDistinct, Ways!WaysOf
<1> QED
  BY <1>3, <1>4, <1>5, <1>6, <1>7 DEF WaysInv

\* A binding is written for a user whose row nobody holds; an address is
\* replaced by the new one.
LEMMA WaysBinds == ASSUME WaysInv, NEW c \in Conns, Ways!CommitBind(c) PROVE WaysInv'
<1>1. /\ WaysTyped /\ WaysCodes /\ WaysTxs /\ WaysLocks /\ Ways!AccountsReachable /\ Ways!BindingsDistinct
      /\ db \in WaysDb /\ WaysTx(tx[c]) /\ tx[c].op = "bind" /\ tx[c].step = "taken" /\ tx[c] \in WaysBind
  BY WaysRun DEF WaysInv, WaysTyped, WaysTxs, Ways!CommitBind
<1>2. PICK r \in WaysBind : r = tx[c]
  BY <1>1
<1>3. CASE Ways!Owner(r.way, r.addr) # {}
  BY <1>2, <1>3, WaysEnds DEF Ways!CommitBind, Ways!Refuse
<1>4. CASE Ways!Owner(r.way, r.addr) = {}
  <2>1. PICK x : x = [user |-> r.user, way |-> r.way, addr |-> r.addr]
    OBVIOUS
  <2>2. x \in [user : WaysUsers, way : Ways!Ways, addr : Nat] /\ x.user = r.user /\ x.way = r.way /\ x.addr = r.addr
    BY <2>1 DEF WaysBind
  <2>3. Ways!UpgradeToNormal(r) = "normal"
    BY <1>1, <1>2 DEF Ways!UpgradeToNormal, WaysTx, WaysBind
  <2>4. /\ db' = [db EXCEPT !.bound = (@ \ Ways!Replaced(r)) \cup {x}, !.codes = @ \ {r.code}, !.level[r.user] = "normal"]
        /\ hist' = [hist EXCEPT !.had = @ \cup {r.user}, !.again = @ \/ (r.way # "github" /\ r.code \in hist.used),
                                !.used = IF r.way = "github" THEN @ ELSE @ \cup {r.code}]
        /\ tx' = [tx EXCEPT ![c] = Ways!Idle]
    <3>1. /\ db' = [db EXCEPT !.bound = (@ \ Ways!Replaced(r)) \cup {x}, !.codes = @ \ {r.code},
                              !.level[r.user] = Ways!UpgradeToNormal(r)]
          /\ hist' = [hist EXCEPT !.had = @ \cup {r.user}, !.again = @ \/ (r.way # "github" /\ r.code \in hist.used),
                                  !.used = IF r.way = "github" THEN @ ELSE @ \cup {r.code}]
          /\ tx' = [tx EXCEPT ![c] = Ways!Idle]
      BY <1>2, <1>4, <2>1 DEF Ways!CommitBind, Ways!Finish, Ways!Continue
    <3> QED
      BY <2>3, <3>1
  <2>5. /\ db'.bound = (db.bound \ Ways!Replaced(r)) \cup {x} /\ db'.codes = db.codes \ {r.code} /\ db'.sent = db.sent
        /\ db'.level = [db.level EXCEPT ![r.user] = "normal"]
    BY <1>1, <2>4 DEF WaysDb
  <2>6. r.way # "github" => r.code \notin hist.used /\ r.code.n <= db.sent
    BY <1>1, <1>2 DEF WaysTx, Takes
  <2>7. r.user \in WaysUsers /\ r.code \in WaysCode
    BY DEF WaysBind
  <2>8. /\ hist'.had = hist.had \cup {r.user} /\ ~hist'.again
        /\ hist'.used = (IF r.way = "github" THEN hist.used ELSE hist.used \cup {r.code})
        /\ hist' \in [had : SUBSET WaysUsers, used : SUBSET WaysCode, again : BOOLEAN]
    <3>1. ~hist.again /\ hist \in [had : SUBSET WaysUsers, used : SUBSET WaysCode, again : BOOLEAN]
      BY <1>1 DEF WaysTyped, Ways!BindingsDistinct
    <3>2. hist'.had = hist.had \cup {r.user}
            /\ hist'.used = (IF r.way = "github" THEN hist.used ELSE hist.used \cup {r.code})
      BY <2>4, <3>1
    <3>3. hist'.again = FALSE
      BY <2>4, <2>6, <3>1
    <3>4. hist' = [had |-> hist'.had, used |-> hist'.used, again |-> hist'.again]
      BY <2>4, <3>1
    <3> QED
      BY <2>7, <3>1, <3>2, <3>3, <3>4
  <2>9. db' \in WaysDb
    BY <1>1, <2>2, <2>4, <2>5, <2>7 DEF WaysDb
  <2>10. tx' \in [Conns -> WaysRuns] /\ tx'[c] = Ways!Idle /\ \A d \in Conns : d # c => tx'[d] = tx[d]
    BY <1>1, <2>4, WaysRests DEF WaysTyped
  <2>11. WaysTyped' /\ WaysCodes'
    BY <1>1, <2>5, <2>6, <2>8, <2>9, <2>10 DEF WaysTyped, WaysCodes
  <2>12. \A u \in WaysUsers : u # r.user => db'.level[u] = db.level[u] /\ Ways!WaysOf(u)' = Ways!WaysOf(u)
    BY <1>1, <2>2, <2>5 DEF WaysDb, Ways!WaysOf, Ways!Replaced
  <2>13. db'.level[r.user] = "normal" /\ r.way \in Ways!WaysOf(r.user)'
    BY <1>1, <2>2, <2>5, <2>7 DEF WaysDb, Ways!WaysOf
  <2>14. WaysTxs'
    <3> SUFFICES ASSUME NEW d \in Conns PROVE WaysTx(tx[d])'
      BY DEF WaysTxs
    <3>1. CASE d = c
      <4>1. tx'[d].op = "idle"
        BY <2>10, <3>1 DEF Ways!Idle
      <4> QED
        BY <4>1 DEF WaysTx, Takes
    <3>2. CASE d # c
      <4>1. WaysTx(tx[d]) /\ tx'[d] = tx[d] /\ Apart(tx[c], tx[d])
        BY <1>1, <2>10, <3>2 DEF WaysTxs, WaysLocks
      <4>2. Takes(tx[d]) => tx[d].code \notin hist'.used
        BY <1>1, <1>2, <2>8, <4>1 DEF WaysTx, Takes, Apart
      <4>3. tx[d].op = "bind" /\ tx[d].step = "taken" =>
              tx[d].level # "" /\ (tx[d].level = "normal" => db'.level[tx[d].user] = "normal")
        <5>1. tx[d].op = "bind" => tx[d].user \in WaysUsers
          BY <1>1, WaysRun DEF WaysBind
        <5> QED
          BY <2>12, <2>13, <4>1, <5>1 DEF WaysTx
      <4>4. tx[d].op = "unbind" => tx[d].user # r.user /\ tx[d].user \in WaysUsers
        BY <1>1, <1>2, <3>2, WaysRun DEF Ways!CommitBind, Ways!LockedUser, WaysUnbind
      <4>5. tx[d].op = "unbind" /\ tx[d].step = "counted" => \E w \in Ways!WaysOf(tx[d].user)' : w # tx[d].way
        BY <2>12, <4>1, <4>4 DEF WaysTx
      <4>6. tx[d].op = "bind" => tx[d].code.way = tx[d].way /\ (tx[d].way # "github" => tx[d].code.n <= db'.sent)
        BY <2>5, <4>1 DEF WaysTx
      <4> QED
        BY <4>1, <4>2, <4>3, <4>5, <4>6 DEF WaysTx, Takes
    <3> QED
      BY <3>1, <3>2
  <2>15. WaysLocks'
    BY <1>1, <2>10, WaysRests DEF WaysLocks
  <2>16. Ways!AccountsReachable'
    <3> SUFFICES ASSUME NEW u \in hist'.had PROVE Ways!WaysOf(u)' # {} /\ db'.level[u] = "normal"
      BY DEF Ways!AccountsReachable
    <3>1. CASE u = r.user
      BY <2>13, <3>1
    <3>2. CASE u # r.user
      BY <1>1, <2>8, <2>12, <3>2 DEF WaysTyped, Ways!AccountsReachable
    <3> QED
      BY <3>1, <3>2
  <2>17. Ways!BindingsDistinct'
    <3>1. \A y \in db.bound : ~(y.way = r.way /\ y.addr = r.addr)
      BY <1>4 DEF Ways!Owner
    <3>2. \A y \in db'.bound : y = x \/ (y \in db.bound /\ ~(r.way # "github" /\ y.user = r.user /\ y.way = r.way))
      BY <2>5 DEF Ways!Replaced
    <3>3. \A y, z \in db'.bound :
            /\ (y.way = z.way /\ y.addr = z.addr) => y.user = z.user
            /\ (y.way = z.way /\ y.user = z.user /\ y.way # "github") => y.addr = z.addr
      BY <1>1, <2>2, <3>1, <3>2 DEF Ways!BindingsDistinct
    <3> QED
      BY <2>8, <3>3 DEF Ways!BindingsDistinct
  <2> QED
    BY <2>11, <2>14, <2>15, <2>16, <2>17 DEF WaysInv
<1> QED
  BY <1>3, <1>4

\* A binding is removed while another way of the user is left.
LEMMA WaysUnbinds == ASSUME WaysInv, NEW c \in Conns, Ways!CommitUnbind(c) PROVE WaysInv'
<1>1. /\ WaysTyped /\ WaysCodes /\ WaysTxs /\ WaysLocks /\ Ways!AccountsReachable /\ Ways!BindingsDistinct
      /\ db \in WaysDb /\ WaysTx(tx[c]) /\ tx[c].op = "unbind" /\ tx[c].step = "counted" /\ tx[c] \in WaysUnbind
  BY WaysRun DEF WaysInv, WaysTyped, WaysTxs, Ways!CommitUnbind
<1>2. PICK r \in WaysUnbind : r = tx[c]
  BY <1>1
<1>3. /\ db' = [db EXCEPT !.bound = {x \in @ : ~(x.user = r.user /\ x.way = r.way)}] /\ hist' = hist
      /\ tx' = [tx EXCEPT ![c] = Ways!Idle]
  BY <1>2 DEF Ways!CommitUnbind, Ways!Finish, Ways!Continue
<1>4. /\ db'.bound = {x \in db.bound : ~(x.user = r.user /\ x.way = r.way)} /\ db'.codes = db.codes
      /\ db'.sent = db.sent /\ db'.level = db.level
  BY <1>1, <1>3 DEF WaysDb
<1>5. db' \in WaysDb
  BY <1>1, <1>3, <1>4 DEF WaysDb
<1>6. tx' \in [Conns -> WaysRuns] /\ tx'[c] = Ways!Idle /\ \A d \in Conns : d # c => tx'[d] = tx[d]
  BY <1>1, <1>3, WaysRests DEF WaysTyped
<1>7. \A u \in WaysUsers : u # r.user => Ways!WaysOf(u)' = Ways!WaysOf(u)
  BY <1>4 DEF Ways!WaysOf
<1>8. Ways!WaysOf(r.user)' # {}
  <2>1. PICK w \in Ways!WaysOf(r.user) : w # r.way
    BY <1>1, <1>2 DEF WaysTx
  <2> QED
    BY <1>4, <2>1 DEF Ways!WaysOf
<1>9. WaysTyped' /\ WaysCodes'
  BY <1>1, <1>3, <1>4, <1>5, <1>6 DEF WaysTyped, WaysCodes
<1>10. WaysTxs'
  <2> SUFFICES ASSUME NEW d \in Conns PROVE WaysTx(tx[d])'
    BY DEF WaysTxs
  <2>1. CASE d = c
    <3>1. tx'[d].op = "idle"
      BY <1>6, <2>1 DEF Ways!Idle
    <3> QED
      BY <3>1 DEF WaysTx, Takes
  <2>2. CASE d # c
    <3>1. WaysTx(tx[d]) /\ tx'[d] = tx[d] /\ Apart(tx[c], tx[d])
      BY <1>1, <1>6, <2>2 DEF WaysTxs, WaysLocks
    <3>2. tx[d].op = "unbind" => tx[d].user # r.user /\ tx[d].user \in WaysUsers
      BY <1>1, <1>2, <3>1, WaysRun DEF Apart, HoldsRow, WaysUnbind
    <3>3. tx[d].op = "unbind" /\ tx[d].step = "counted" => \E w \in Ways!WaysOf(tx[d].user)' : w # tx[d].way
      BY <1>7, <3>1, <3>2 DEF WaysTx
    <3> QED
      BY <1>3, <1>4, <3>1, <3>3 DEF WaysTx, Takes
  <2> QED
    BY <2>1, <2>2
<1>11. WaysLocks'
  BY <1>1, <1>6, WaysRests DEF WaysLocks
<1>12. Ways!AccountsReachable'
  BY <1>1, <1>3, <1>4, <1>7, <1>8 DEF WaysTyped, Ways!AccountsReachable
<1>13. Ways!BindingsDistinct'
  BY <1>1, <1>3, <1>4 DEF Ways!BindingsDistinct
<1> QED
  BY <1>9, <1>10, <1>11, <1>12, <1>13 DEF WaysInv

LEMMA WaysInit == Ways!Init => WaysInv
<1> SUFFICES ASSUME Ways!Init PROVE WaysInv
  OBVIOUS
<1>1. PICK b \in Starts :
        /\ db = [bound |-> b, level |-> [u \in WaysUsers |-> IF \E x \in b : x.user = u THEN "normal" ELSE "local"],
                 codes |-> {}, sent |-> 0]
        /\ hist = [had |-> {x.user : x \in b}, used |-> {}, again |-> FALSE]
  BY DEF Ways!Init, WaysUsers
<1>2. tx = [c \in Conns |-> Ways!Idle]
  BY DEF Ways!Init, Ways!Resting
<1>3. /\ b \in SUBSET [user : WaysUsers, way : Ways!Ways, addr : Nat]
      /\ \A x, y \in b :
           /\ (x.way = y.way /\ x.addr = y.addr) => x.user = y.user
           /\ (x.way = y.way /\ x.user = y.user /\ x.way # "github") => x.addr = y.addr
  BY DEF Starts, Bound, WaysUsers, Ways!Ways
<1>4. WaysTyped
  BY <1>1, <1>2, <1>3, WaysRests DEF WaysTyped, WaysDb
<1>5. WaysCodes
  BY <1>1 DEF WaysCodes
<1>6. WaysTxs /\ WaysLocks
  BY <1>2, WaysRests DEF WaysTxs, WaysLocks
<1>7. Ways!AccountsReachable
  BY <1>1, <1>3 DEF Ways!AccountsReachable, Ways!WaysOf
<1>8. Ways!BindingsDistinct
  BY <1>1, <1>3 DEF Ways!BindingsDistinct
<1> QED
  BY <1>4, <1>5, <1>6, <1>7, <1>8 DEF WaysInv

LEMMA WaysNext == WaysInv /\ Ways!Next => WaysInv'
<1> SUFFICES ASSUME WaysInv, Ways!Next PROVE WaysInv'
  OBVIOUS
<1>1. CASE \/ \E c \in Conns, way \in {"email", "phone"}, a \in {1, 2} : Ways!RequestCode(c, way, a)
           \/ \E code \in db.codes : Ways!ExpireCode(code)
  BY <1>1, WaysSends
<1>2. ASSUME NEW c \in Conns, NEW u \in WaysUsers,
             \/ \E code \in db.codes : Ways!VerifyCode(c, u, code)
             \/ \E a \in {1, 2} : Ways!ConnectGithub(c, u, a)
             \/ \E way \in Ways!Ways : Ways!Unbind(c, u, way)
      PROVE  WaysInv'
  BY <1>2, WaysOpens
<1>3. ASSUME NEW c \in Conns, Ways!TakeCode(c) \/ Ways!CommitBind(c) \/ Ways!CountWays(c) \/ Ways!CommitUnbind(c)
      PROVE  WaysInv'
  BY <1>3, WaysTakes, WaysBinds, WaysCounts, WaysUnbinds
<1>4. ASSUME NEW c \in Conns, Ways!Fail(c) PROVE WaysInv'
  BY <1>4, WaysEnds DEF Ways!Fail
<1> QED
  BY <1>1, <1>2, <1>3, <1>4 DEF Ways!Next, WaysUsers

LEMMA WaysStays == WaysInv /\ UNCHANGED <<db, tx, hist, left>> => WaysInv'
<1> SUFFICES ASSUME WaysInv, UNCHANGED <<db, tx, hist, left>> PROVE WaysInv'
  OBVIOUS
<1>1. WaysTyped' /\ WaysCodes' /\ WaysLocks'
  BY DEF WaysInv, WaysTyped, WaysCodes, WaysLocks
<1>2. WaysTxs'
  BY DEF WaysInv, WaysTxs, WaysTx, Takes, Ways!WaysOf
<1>3. Ways!AccountsReachable' /\ Ways!BindingsDistinct'
  BY DEF WaysInv, Ways!AccountsReachable, Ways!BindingsDistinct, Ways!WaysOf
<1> QED
  BY <1>1, <1>2, <1>3 DEF WaysInv

LEMMA WaysKept == WaysInv => Ways!WaysSound
BY DEF WaysInv, Ways!WaysSound

-----------------------------------------------------------------------------
(* Registration, mailed proofs, GitHub and passkeys                        *)

SignNames == {"n1", "n2"}

SignUser == [id : Nat, name : SignNames, mail : BOOLEAN, github : BOOLEAN, password : BOOLEAN]

SignProof == [kind : Login!Kinds \cup {"bind"}, n : Nat, owner : Nat]

SignPending == [kind : {"pending"}, n : SignNames]

SignDb ==
  [users : SUBSET SignUser, next : Nat, proofs : SUBSET SignProof, given : Nat, pending : SUBSET SignNames,
   passkey : [owner : Nat, count : Nat, row : Nat], device : Nat]

SignHist ==
  [taken : SUBSET (SignProof \cup SignPending), again : SUBSET (SignProof \cup SignPending),
   sessions : SUBSET [kind : Login!Kinds, id : Nat], top : Nat, overlap : BOOLEAN]

SignPresent == [op : {"present"}, p : SignProof, name : SignNames \cup {Login!None}, mail : SUBSET Nat, github : SUBSET Nat]
SignPasskey == [op : {"passkey"}, p : SignProof, row : Nat, owner : Nat, count : Nat]
SignNamed == [op : {"local", "pending"}, name : SignNames]

SignRuns == {Login!Idle} \cup SignPresent \cup SignPasskey \cup SignNamed

SignTyped == tx \in [Conns -> SignRuns] /\ db \in SignDb /\ hist \in SignHist

\* What was accepted is gone, and a pending registration has its account.
SignOnce ==
  /\ hist.again = {}
  /\ \A p \in db.proofs : p.n <= db.given
  /\ \A x \in hist.taken : IF x.kind = "pending" THEN Login!ByName(x.n) # {} ELSE x \notin db.proofs
      /\ x.n <= db.given

\* Accounts are numbered and distinct.
SignUsers ==
  /\ \A u \in db.users : u.id < db.next
  /\ \A u, v \in db.users : u.id = v.id => u = v
  /\ Login!Distinct

SignRight(s) ==
  s.kind # "challenge" =>
    /\ s.id < db.next
    /\ \A u \in db.users : s.id = u.id =>
         /\ s.kind \in {"register", "login", "link"} => u.mail
         /\ s.kind = "github" => u.github

SignSessions == \A s \in hist.sessions : SignRight(s)

\* The accounts that a request has found still have the address or GitHub.
SignSees(t) ==
  t.op = "present" =>
    /\ t.p.kind # "challenge"
    /\ \A i \in t.mail : \E u \in db.users : u.id = i /\ u.mail
    /\ \A i \in t.github : \E u \in db.users : u.id = i /\ u.github

\* A login on the present row counts more than what was accepted, or it was
\* open when another one was accepted.
SignKey(t) ==
  t.op = "passkey" =>
    /\ t.count <= db.device /\ t.row <= db.passkey.row /\ t.p.kind = "challenge"
    /\ t.row = db.passkey.row /\ db.passkey.owner # 0 => hist.overlap \/ t.count > hist.top

SignTxs == \A c \in Conns : SignSees(tx[c]) /\ SignKey(tx[c])

SignCounts == Login!CountKept /\ hist.top <= db.device

SignInv == SignTyped /\ SignOnce /\ SignUsers /\ SignSessions /\ SignTxs /\ SignCounts

LEMMA SignRun ==
  ASSUME SignTyped, NEW c \in Conns
  PROVE  /\ tx[c] \in SignRuns
         /\ tx[c].op = "present" => tx[c] \in SignPresent
         /\ tx[c].op = "passkey" => tx[c] \in SignPasskey
         /\ tx[c].op \in {"local", "pending"} => tx[c] \in SignNamed
<1>1. tx[c] \in SignRuns
  BY DEF SignTyped
<1>2. \A t \in SignPresent : t.op = "present"
  BY DEF SignPresent
<1>3. \A t \in SignPasskey : t.op = "passkey"
  BY DEF SignPasskey
<1>4. \A t \in SignNamed : t.op \in {"local", "pending"}
  BY DEF SignNamed
<1>5. Login!Idle.op = "idle"
  BY DEF Login!Idle
<1> QED
  BY <1>1, <1>2, <1>3, <1>4, <1>5 DEF SignRuns

LEMMA SignMove ==
  ASSUME SignTyped, NEW c \in Conns, NEW t \in SignRuns, tx' = [tx EXCEPT ![c] = t]
  PROVE  tx' \in [Conns -> SignRuns] /\ tx'[c] = t /\ \A d \in Conns : d # c => tx'[d] = tx[d]
BY DEF SignTyped

LEMMA SignRests == Login!Idle \in SignRuns /\ Login!Idle.op = "idle"
BY DEF SignRuns, Login!Idle

\* Accounts are never removed, keep their names and what is bound to them.
SignGrows(before, after, next) ==
  /\ \A u \in before : \E v \in after :
       v.id = u.id /\ v.name = u.name /\ (u.mail => v.mail) /\ (u.github => v.github)
  /\ \A v \in after : v.id >= next \/ \E u \in before :
       v.id = u.id /\ v.name = u.name /\ (u.mail => v.mail) /\ (u.github => v.github)

\* What every step leaves in place.
LEMMA SignSteps ==
  ASSUME SignInv, tx' \in [Conns -> SignRuns], db' \in SignDb, hist' \in SignHist,
         \A d \in Conns : tx'[d] = tx[d] \/ SignSees(tx[d])',
         SignGrows(db.users, db'.users, db.next), db.next <= db'.next, SignUsers',
         db.given <= db'.given, \A p \in db'.proofs : p.n <= db'.given /\ (p \in db.proofs \/ p.n > db.given),
         hist'.again = {},
         \A x \in hist'.taken : x \in hist.taken \/
            IF x.kind = "pending" THEN Login!ByName(x.n)' # {} ELSE x \notin db'.proofs /\ x.n <= db.given,
         \A s \in hist'.sessions : s \in hist.sessions \/ SignRight(s)',
         SignCounts', \A d \in Conns : SignKey(tx[d])'
  PROVE  SignInv'
<1>1. SignTyped /\ SignOnce /\ SignUsers /\ SignSessions /\ SignTxs
  BY DEF SignInv
<1>2. db.given \in Nat /\ db'.given \in Nat /\ db.next \in Nat /\ db'.next \in Nat
  BY <1>1 DEF SignTyped, SignDb
<1>3. SignTyped'
  BY DEF SignTyped
<1>4. SignOnce'
  <2> SUFFICES ASSUME NEW x \in hist'.taken
               PROVE  IF x.kind = "pending" THEN Login!ByName(x.n)' # {} ELSE x \notin db'.proofs /\ x.n <= db'.given
    BY DEF SignOnce
  <2>1. CASE x \in hist.taken /\ x.kind = "pending"
    <3>1. Login!ByName(x.n) # {}
      BY <1>1, <2>1 DEF SignOnce
    <3> QED
      BY <2>1, <3>1 DEF SignGrows, Login!ByName
  <2>2. CASE x \in hist.taken /\ x.kind # "pending"
    <3>1. x \notin db.proofs /\ x.n <= db.given
      BY <1>1, <2>2 DEF SignOnce
    <3>2. x.n \in Nat
      BY <1>1, <2>2 DEF SignTyped, SignHist, SignProof, SignPending
    <3> QED
      BY <1>2, <2>2, <3>1, <3>2
  <2>3. CASE x \notin hist.taken
    <3>1. x.kind # "pending" => x.n \in Nat
      BY DEF SignHist, SignProof, SignPending
    <3> QED
      BY <1>2, <2>3, <3>1
  <2> QED
    BY <2>1, <2>2, <2>3
<1>5. SignSessions'
  <2> SUFFICES ASSUME NEW s \in hist'.sessions PROVE SignRight(s)'
    BY DEF SignSessions
  <2>3. CASE s.kind = "challenge"
    BY <2>3 DEF SignRight
  <2>1. CASE s \in hist.sessions /\ s.kind # "challenge"
    <3>1. SignRight(s) /\ s.id \in Nat
      BY <1>1, <2>1 DEF SignSessions, SignTyped, SignHist
    <3>2. ASSUME NEW v \in db'.users, s.id = v.id
          PROVE  /\ s.kind \in {"register", "login", "link"} => v.mail
                 /\ s.kind = "github" => v.github
      <4>1. ~(v.id >= db.next)
        BY <1>2, <2>1, <3>1, <3>2 DEF SignRight
      <4>2. PICK u \in db.users : v.id = u.id /\ (u.mail => v.mail) /\ (u.github => v.github)
        BY <4>1 DEF SignGrows
      <4> QED
        BY <2>1, <3>1, <3>2, <4>2 DEF SignRight
    <3>3. s.id < db'.next
      BY <1>2, <2>1, <3>1 DEF SignRight
    <3> QED
      BY <3>2, <3>3 DEF SignRight
  <2>2. CASE s \notin hist.sessions
    BY <2>2
  <2> QED
    BY <2>1, <2>2, <2>3
<1>6. SignTxs'
  <2> SUFFICES ASSUME NEW d \in Conns PROVE SignSees(tx[d])'
    BY DEF SignTxs
  <2>1. CASE tx'[d] = tx[d]
    <3>1. SignSees(tx[d])
      BY <1>1 DEF SignTxs
    <3>2. tx[d].op = "present" => \A i \in tx[d].mail : \E u \in db'.users : u.id = i /\ u.mail
      BY <3>1 DEF SignSees, SignGrows
    <3>3. tx[d].op = "present" => \A i \in tx[d].github : \E u \in db'.users : u.id = i /\ u.github
      BY <3>1 DEF SignSees, SignGrows
    <3> QED
      BY <2>1, <3>1, <3>2, <3>3 DEF SignSees
  <2>2. CASE tx'[d] # tx[d]
    BY <2>2
  <2> QED
    BY <2>1, <2>2
<1> QED
  BY <1>3, <1>4, <1>5, <1>6 DEF SignInv

\* The same accounts, and one more.
LEMMA SignSame ==
  ASSUME SignInv, db'.users = db.users, db'.next = db.next
  PROVE  SignGrows(db.users, db'.users, db.next) /\ db.next <= db'.next /\ SignUsers'
<1>1. SignUsers /\ db.next \in Nat
  BY DEF SignInv, SignTyped, SignDb
<1>2. SignGrows(db.users, db'.users, db.next)
  BY DEF SignGrows
<1>3. SignUsers'
  BY <1>1 DEF SignUsers, Login!Distinct
<1> QED
  BY <1>1, <1>2, <1>3

LEMMA SignCreates ==
  ASSUME SignInv, NEW u \in SignUser, u.id = db.next, Login!NoDuplicate(u), db'.users = db.users \cup {u},
         db'.next = db.next + 1
  PROVE  SignGrows(db.users, db'.users, db.next) /\ db.next <= db'.next /\ SignUsers'
<1>1. SignUsers /\ db.next \in Nat /\ db.users \subseteq SignUser
  BY DEF SignInv, SignTyped, SignDb
<1>2. SignGrows(db.users, db'.users, db.next)
  BY <1>1 DEF SignGrows
<1>3. \A v \in db.users : v.id < db.next /\ v.id \in Nat /\ v.id # u.id
  BY <1>1 DEF SignUsers, SignUser
<1>4. \A v \in db.users : v.name # u.name /\ ~(v.mail /\ u.mail) /\ ~(v.github /\ u.github)
  BY DEF Login!NoDuplicate, Login!ByName, Login!ByMail, Login!ByGithub
<1>5. \A v \in db'.users : v.id < db'.next
  BY <1>1, <1>3
<1>6. \A v, w \in db'.users : v.id = w.id => v = w
  BY <1>1, <1>3 DEF SignUsers
<1>7. Login!Distinct'
  BY <1>1, <1>4 DEF SignUsers, Login!Distinct
<1> QED
  BY <1>1, <1>2, <1>5, <1>6, <1>7 DEF SignUsers

\* A step that leaves the passkey alone.
LEMMA SignAside ==
  ASSUME SignInv, db'.passkey = db.passkey, db'.device = db.device, hist'.top = hist.top,
         hist'.overlap = hist.overlap,
         \A d \in Conns : tx'[d] = tx[d] \/ tx'[d].op # "passkey"
  PROVE  SignCounts' /\ \A d \in Conns : SignKey(tx[d])'
<1>1. SignCounts'
  BY DEF SignInv, SignCounts, Login!CountKept
<1>2. ASSUME NEW d \in Conns PROVE SignKey(tx[d])'
  BY DEF SignInv, SignTxs, SignKey
<1> QED
  BY <1>1, <1>2

\* A step of one request that changes nothing but what it has read.
LEMMA SignMoves ==
  ASSUME SignInv, NEW c \in Conns, NEW t \in SignRuns, tx' = [tx EXCEPT ![c] = t], db' = db, hist' = hist,
         t.op # "passkey", SignSees(t)
  PROVE  SignInv'
<1>1. SignTyped /\ SignOnce /\ db \in SignDb /\ hist \in SignHist /\ db.given \in Nat
  BY DEF SignInv, SignTyped, SignDb
<1>2. tx' \in [Conns -> SignRuns] /\ tx'[c] = t /\ \A d \in Conns : d # c => tx'[d] = tx[d]
  BY <1>1, SignMove
<1>3. SignGrows(db.users, db'.users, db.next) /\ db.next <= db'.next /\ SignUsers'
  BY SignSame
<1>4. SignCounts' /\ \A d \in Conns : SignKey(tx[d])'
  BY <1>2, SignAside
<1>5. \A d \in Conns : tx'[d] = tx[d] \/ SignSees(tx[d])'
  BY <1>2 DEF SignSees
<1>6. \A p \in db'.proofs : p.n <= db'.given /\ (p \in db.proofs \/ p.n > db.given)
  BY <1>1 DEF SignOnce
<1>7. db' \in SignDb /\ hist' \in SignHist /\ hist'.again = {} /\ db.given <= db'.given
  BY <1>1 DEF SignOnce
<1>8. /\ \A x \in hist'.taken : x \in hist.taken \/
            IF x.kind = "pending" THEN Login!ByName(x.n)' # {} ELSE x \notin db'.proofs /\ x.n <= db.given
      /\ \A s \in hist'.sessions : s \in hist.sessions \/ SignRight(s)'
  OBVIOUS
<1> QED
  BY <1>2, <1>3, <1>4, <1>5, <1>6, <1>7, <1>8, SignSteps

LEMMA SignOpens ==
  ASSUME SignInv, NEW c \in Conns,
         \/ \E n \in SignNames : Login!RegisterLocal(c, n) \/ Login!ReadPending(c, n)
         \/ \E p \in db.proofs : Login!Present(c, p)
         \/ Login!Fail(c)
  PROVE  SignInv'
<1>1. SignTyped /\ db \in SignDb
  BY DEF SignInv, SignTyped
<1>2. CASE Login!Fail(c)
  BY <1>2, SignRests, SignMoves DEF Login!Fail, Login!Finish, Login!Continue, SignSees
<1>3. CASE \E n \in SignNames : Login!RegisterLocal(c, n) \/ Login!ReadPending(c, n)
  <2>1. PICK n \in SignNames : Login!RegisterLocal(c, n) \/ Login!ReadPending(c, n)
    BY <1>3
  <2>2. PICK op \in {"local", "pending"} : tx' = [tx EXCEPT ![c] = [op |-> op, name |-> n]] /\ db' = db
               /\ hist' = hist
    BY <2>1 DEF Login!RegisterLocal, Login!ReadPending, Login!Begin
  <2>3. PICK t : t = [op |-> op, name |-> n]
    OBVIOUS
  <2>4. t \in SignRuns /\ t.op \notin {"passkey", "present"}
    BY <2>3 DEF SignRuns, SignNamed
  <2> QED
    BY <2>2, <2>3, <2>4, SignMoves DEF SignSees
<1>4. CASE \E p \in db.proofs : Login!Present(c, p)
  <2>1. PICK p \in db.proofs : Login!Present(c, p)
    BY <1>4
  <2>2. PICK name \in SignNames \cup {Login!None} :
          Login!Begin(c, [op |-> "present", p |-> p, name |-> name, mail |-> {u.id : u \in Login!ByMail},
                          github |-> {u.id : u \in Login!ByGithub}])
    BY <2>1 DEF Login!Present, Login!FreeNames, SignNames
  <2>3. PICK t : t = [op |-> "present", p |-> p, name |-> name, mail |-> {u.id : u \in Login!ByMail},
                      github |-> {u.id : u \in Login!ByGithub}]
    OBVIOUS
  <2>4. {u.id : u \in Login!ByMail} \in SUBSET Nat /\ {u.id : u \in Login!ByGithub} \in SUBSET Nat /\ p \in SignProof
    BY <1>1 DEF SignDb, SignUser, Login!ByMail, Login!ByGithub
  <2>5. t \in SignRuns /\ t.op = "present"
    BY <2>3, <2>4 DEF SignRuns, SignPresent
  <2>6. SignSees(t)
    BY <2>1, <2>3 DEF SignSees, Login!Present, Login!ByMail, Login!ByGithub
  <2>7. tx' = [tx EXCEPT ![c] = t] /\ db' = db /\ hist' = hist
    BY <2>1, <2>2, <2>3 DEF Login!Present, Login!Begin
  <2> QED
    BY <2>5, <2>6, <2>7, SignMoves
<1> QED
  BY <1>2, <1>3, <1>4

\* One proof is taken.
LEMMA SignSpends ==
  ASSUME SignInv, NEW p \in db.proofs, db'.proofs = db.proofs \ {p}, db'.given = db.given,
         hist'.taken = hist.taken \cup {p}, hist'.again = hist.again \cup (hist.taken \cap {p})
  PROVE  /\ db.given <= db'.given
         /\ \A q \in db'.proofs : q.n <= db'.given /\ (q \in db.proofs \/ q.n > db.given)
         /\ hist'.again = {}
         /\ \A x \in hist'.taken : x \in hist.taken \/
              IF x.kind = "pending" THEN Login!ByName(x.n)' # {} ELSE x \notin db'.proofs /\ x.n <= db.given
<1>1. SignOnce /\ db.given \in Nat
  BY DEF SignInv, SignTyped, SignDb
<1>2. p.kind # "pending"
  BY DEF SignInv, SignTyped, SignDb, SignProof, Login!Kinds
<1>3. p \notin hist.taken
  BY <1>1, <1>2 DEF SignOnce
<1>4. hist'.again = {}
  BY <1>1, <1>3 DEF SignOnce
<1>5. p \notin db'.proofs /\ p.n <= db.given
  BY <1>1 DEF SignOnce
<1> QED
  BY <1>1, <1>2, <1>4, <1>5 DEF SignOnce

\* A proof is given to somebody, or expires.
LEMMA SignGives ==
  ASSUME SignInv,
         \/ \E c \in Conns, k \in Login!Kinds : Login!Give(c, k, 0)
         \/ \E c \in Conns, i \in Login!Ids : Login!Give(c, "bind", i)
         \/ \E c \in Conns, n \in SignNames : Login!StorePending(c, n)
         \/ \E p \in db.proofs : Login!Expire(p)
  PROVE  SignInv'
<1>1. /\ SignTyped /\ SignOnce /\ db \in SignDb /\ hist \in SignHist /\ db.given \in Nat
      /\ db.users \subseteq SignUser /\ tx \in [Conns -> SignRuns]
  BY DEF SignInv, SignTyped, SignDb
<1>2. \A p \in db.proofs : p.n \in Nat
  BY <1>1 DEF SignDb, SignProof
<1>3. /\ tx' = tx /\ hist' = hist /\ db' \in SignDb /\ db'.users = db.users /\ db'.next = db.next
      /\ db'.passkey = db.passkey /\ db'.device = db.device /\ db.given <= db'.given
      /\ \A p \in db'.proofs : p.n <= db'.given /\ (p \in db.proofs \/ p.n > db.given)
  <2>1. ASSUME NEW kind \in Login!Kinds \cup {"bind"}, NEW owner \in Nat, NEW name \in SUBSET SignNames, NEW p,
               p = [kind |-> kind, n |-> db.given + 1, owner |-> owner],
               db' = [db EXCEPT !.given = @ + 1, !.pending = name, !.proofs = @ \cup {p}]
        PROVE  /\ db' \in SignDb /\ db'.users = db.users /\ db'.next = db.next
               /\ db'.passkey = db.passkey /\ db'.device = db.device /\ db.given <= db'.given
               /\ \A q \in db'.proofs : q.n <= db'.given /\ (q \in db.proofs \/ q.n > db.given)
    <3>1. p \in SignProof /\ p.n = db.given + 1
      BY <1>1, <2>1 DEF SignProof
    <3>2. /\ db'.given = db.given + 1 /\ db'.proofs = db.proofs \cup {p} /\ db'.users = db.users /\ db'.next = db.next
          /\ db'.passkey = db.passkey /\ db'.device = db.device /\ db'.pending = name
      BY <1>1, <2>1 DEF SignDb
    <3>3. db' \in SignDb
      <4>1. db' = [users |-> db.users, next |-> db.next, proofs |-> db.proofs \cup {p}, given |-> db.given + 1,
                   pending |-> name, passkey |-> db.passkey, device |-> db.device]
        BY <1>1, <2>1 DEF SignDb
      <4>2. db.proofs \cup {p} \in SUBSET SignProof /\ db.given + 1 \in Nat
        BY <1>1, <3>1 DEF SignDb
      <4> QED
        BY <1>1, <4>1, <4>2 DEF SignDb
    <3> QED
      BY <1>1, <1>2, <3>1, <3>2, <3>3 DEF SignOnce
  <2>2. CASE \E c \in Conns, k \in Login!Kinds : Login!Give(c, k, 0)
    <3>1. PICK c \in Conns, k \in Login!Kinds : Login!Give(c, k, 0)
      BY <2>2
    <3>2. db' = [db EXCEPT !.given = @ + 1, !.pending = db.pending,
                           !.proofs = @ \cup {[kind |-> k, n |-> db.given + 1, owner |-> 0]}]
      BY <1>1, <3>1 DEF Login!Give, SignDb
    <3>3. tx' = tx /\ hist' = hist
      BY <3>1 DEF Login!Give, Login!AtOnce
    <3>4. db.pending \in SUBSET SignNames
      BY <1>1 DEF SignDb
    <3> QED
      BY <2>1, <3>2, <3>3, <3>4
  <2>3. CASE \E c \in Conns, i \in Login!Ids : Login!Give(c, "bind", i)
    <3>1. PICK c \in Conns, i \in Login!Ids : Login!Give(c, "bind", i)
      BY <2>3
    <3>2. db' = [db EXCEPT !.given = @ + 1, !.pending = db.pending,
                           !.proofs = @ \cup {[kind |-> "bind", n |-> db.given + 1, owner |-> i]}]
      BY <1>1, <3>1 DEF Login!Give, SignDb
    <3>3. tx' = tx /\ hist' = hist
      BY <3>1 DEF Login!Give, Login!AtOnce
    <3>4. db.pending \in SUBSET SignNames /\ i \in Nat
      BY <1>1 DEF SignDb, SignUser, Login!Ids
    <3> QED
      BY <2>1, <3>2, <3>3, <3>4
  <2>4. CASE \E c \in Conns, n \in SignNames : Login!StorePending(c, n)
    <3>1. PICK c \in Conns, n \in SignNames : Login!StorePending(c, n)
      BY <2>4
    <3>2. db' = [db EXCEPT !.given = @ + 1, !.pending = {n},
                           !.proofs = @ \cup {[kind |-> "register", n |-> db.given + 1, owner |-> 0]}]
      BY <3>1 DEF Login!StorePending
    <3>3. tx' = tx /\ hist' = hist
      BY <3>1 DEF Login!StorePending, Login!AtOnce
    <3>4. {n} \in SUBSET SignNames /\ "register" \in Login!Kinds
      BY DEF Login!Kinds
    <3> QED
      BY <2>1, <3>2, <3>3, <3>4
  <2>5. CASE \E p \in db.proofs : Login!Expire(p)
    <3>1. PICK p \in db.proofs : Login!Expire(p)
      BY <2>5
    <3>2. db' = [db EXCEPT !.proofs = @ \ {p}] /\ tx' = tx /\ hist' = hist
      BY <3>1 DEF Login!Expire
    <3>3. /\ db'.proofs = db.proofs \ {p} /\ db'.given = db.given /\ db'.users = db.users /\ db'.next = db.next
          /\ db'.passkey = db.passkey /\ db'.device = db.device
      BY <1>1, <3>2 DEF SignDb
    <3>4. db' \in SignDb
      BY <1>1, <3>2, <3>3 DEF SignDb
    <3> QED
      BY <1>1, <3>2, <3>3, <3>4 DEF SignOnce
  <2> QED
    BY <2>2, <2>3, <2>4, <2>5
<1>4. SignGrows(db.users, db'.users, db.next) /\ db.next <= db'.next /\ SignUsers'
  BY <1>3, SignSame
<1>5. SignCounts' /\ \A d \in Conns : SignKey(tx[d])'
  BY <1>3, SignAside
<1>6. tx' \in [Conns -> SignRuns] /\ hist' \in SignHist /\ hist'.again = {} /\ \A d \in Conns : tx'[d] = tx[d]
  BY <1>1, <1>3 DEF SignOnce
<1>7. /\ \A x \in hist'.taken : x \in hist.taken \/
            IF x.kind = "pending" THEN Login!ByName(x.n)' # {} ELSE x \notin db'.proofs /\ x.n <= db.given
      /\ \A s \in hist'.sessions : s \in hist.sessions \/ SignRight(s)'
  BY <1>3
<1> QED
  BY <1>3, <1>4, <1>5, <1>6, <1>7, SignSteps

\* The end of a request on c that leaves the passkey alone.
LEMMA SignEnds ==
  ASSUME SignInv, NEW c \in Conns, Login!Finish(c), db'.passkey = db.passkey, db'.device = db.device,
         hist'.top = hist.top, hist'.overlap = hist.overlap
  PROVE  /\ tx' \in [Conns -> SignRuns] /\ \A d \in Conns : tx'[d] = tx[d] \/ SignSees(tx[d])'
         /\ SignCounts' /\ \A d \in Conns : SignKey(tx[d])'
<1>1. SignTyped /\ tx' = [tx EXCEPT ![c] = Login!Idle]
  BY DEF SignInv, Login!Finish, Login!Continue
<1>2. tx' \in [Conns -> SignRuns] /\ tx'[c] = Login!Idle /\ \A d \in Conns : d # c => tx'[d] = tx[d]
  BY <1>1, SignRests, SignMove
<1>3. \A d \in Conns : tx'[d] = tx[d] \/ tx'[d].op = "idle"
  BY <1>2, SignRests
<1>4. \A d \in Conns : tx'[d] = tx[d] \/ SignSees(tx[d])'
  BY <1>3 DEF SignSees
<1> QED
  BY <1>2, <1>3, <1>4, SignAside

\* The parts of db and hist in a step of one proof.
LEMMA SignParts ==
  ASSUME SignInv
  PROVE  /\ SignTyped /\ SignOnce /\ SignUsers /\ SignTxs /\ db \in SignDb /\ hist \in SignHist
         /\ db.users \subseteq SignUser /\ db.next \in Nat /\ db.proofs \subseteq SignProof /\ db.given \in Nat
         /\ db.pending \subseteq SignNames /\ db.passkey \in [owner : Nat, count : Nat, row : Nat]
         /\ db.device \in Nat
         /\ hist.taken \subseteq SignProof \cup SignPending /\ hist.again = {} /\ hist.top \in Nat
         /\ hist.sessions \subseteq [kind : Login!Kinds, id : Nat] /\ hist.overlap \in BOOLEAN
BY DEF SignInv, SignTyped, SignDb, SignHist, SignOnce

LEMMA SignLocals == ASSUME SignInv, NEW c \in Conns, Login!CommitLocal(c) PROVE SignInv'
<1>1. /\ SignTyped /\ SignOnce /\ db \in SignDb /\ hist \in SignHist /\ db.next \in Nat /\ db.given \in Nat
      /\ db.users \subseteq SignUser
  BY SignParts
<1>2. tx[c].name \in SignNames
  BY <1>1, SignRun DEF Login!CommitLocal, SignNamed
<1>3. PICK u : u = [id |-> db.next, name |-> tx[c].name, mail |-> FALSE, github |-> FALSE, password |-> TRUE]
  OBVIOUS
<1>4. u \in SignUser /\ u.id = db.next
  BY <1>1, <1>2, <1>3 DEF SignUser
<1>5. Login!NoDuplicate(u) /\ db' = [db EXCEPT !.users = @ \cup {u}, !.next = @ + 1] /\ Login!Finish(c)
        /\ hist' = hist
  BY <1>3 DEF Login!CommitLocal, Login!NewUser, Login!Create
<1>6. /\ db'.users = db.users \cup {u} /\ db'.next = db.next + 1 /\ db'.proofs = db.proofs /\ db'.given = db.given
      /\ db'.passkey = db.passkey /\ db'.device = db.device
  BY <1>1, <1>5 DEF SignDb
<1>7. db' \in SignDb
  <2>1. db' = [db EXCEPT !.users = db'.users, !.next = db.next + 1]
    BY <1>1, <1>5, <1>6
  <2>2. db'.users \in SUBSET SignUser /\ db.next + 1 \in Nat
    BY <1>1, <1>4, <1>6
  <2> QED
    BY <1>1, <2>1, <2>2 DEF SignDb
<1>8. SignGrows(db.users, db'.users, db.next) /\ db.next <= db'.next /\ SignUsers'
  BY <1>4, <1>5, <1>6, SignCreates
<1>9. /\ tx' \in [Conns -> SignRuns] /\ \A d \in Conns : tx'[d] = tx[d] \/ SignSees(tx[d])'
      /\ SignCounts' /\ \A d \in Conns : SignKey(tx[d])'
  BY <1>5, <1>6, SignEnds
<1>10. /\ \A x \in hist'.taken : x \in hist.taken \/
            IF x.kind = "pending" THEN Login!ByName(x.n)' # {} ELSE x \notin db'.proofs /\ x.n <= db.given
       /\ \A s \in hist'.sessions : s \in hist.sessions \/ SignRight(s)'
  BY <1>5
<1>11. /\ db.given <= db'.given /\ hist' \in SignHist /\ hist'.again = {}
       /\ \A p \in db'.proofs : p.n <= db'.given /\ (p \in db.proofs \/ p.n > db.given)
  BY <1>1, <1>5, <1>6 DEF SignOnce
<1> QED
  BY <1>7, <1>8, <1>9, <1>10, <1>11, SignSteps

\* The registration of the name and its newest code make an account.
LEMMA SignPendings == ASSUME SignInv, NEW c \in Conns, Login!CommitPending(c) PROVE SignInv'
<1>1. /\ SignTyped /\ SignOnce /\ db \in SignDb /\ hist \in SignHist /\ db.next \in Nat /\ db.given \in Nat
      /\ db.users \subseteq SignUser /\ db.proofs \subseteq SignProof
      /\ hist.taken \subseteq SignProof \cup SignPending /\ hist.again = {}
      /\ hist.sessions \subseteq [kind : Login!Kinds, id : Nat]
  BY SignParts
<1>2. tx[c].name \in SignNames
  BY <1>1, SignRun DEF Login!CommitPending, SignNamed
<1>3. PICK u : u = [id |-> db.next, name |-> tx[c].name, mail |-> TRUE, github |-> FALSE, password |-> TRUE]
  OBVIOUS
<1>4. u \in SignUser /\ u.id = db.next /\ u.name = tx[c].name /\ u.mail
  BY <1>1, <1>2, <1>3 DEF SignUser
<1>5. PICK p \in Login!Found("register") :
        /\ Login!NoDuplicate(u)
        /\ db' = [Login!Create(db, u) EXCEPT !.proofs = @ \ {p}, !.pending = {}]
        /\ hist' = Login!SignedIn(Login!Accept(hist, [kind |-> "pending", n |-> tx[c].name]), p, u.id)
  BY <1>3 DEF Login!CommitPending, Login!NewUser
<1>6. p \in db.proofs /\ p.kind = "register" /\ p \in SignProof
  BY <1>1, <1>5 DEF Login!Found
<1>7. PICK x : x = [kind |-> "pending", n |-> tx[c].name]
  OBVIOUS
<1>8. x \in SignPending /\ x.kind = "pending" /\ x.n = u.name /\ x # p
  BY <1>2, <1>4, <1>6, <1>7 DEF SignPending
<1>9. PICK s : s = [kind |-> p.kind, id |-> u.id]
  OBVIOUS
<1>10. s \in [kind : Login!Kinds, id : Nat] /\ s.kind = "register" /\ s.id = u.id
  BY <1>1, <1>4, <1>6, <1>9 DEF Login!Kinds
<1>11. /\ db'.users = db.users \cup {u} /\ db'.next = db.next + 1 /\ db'.proofs = db.proofs \ {p}
       /\ db'.given = db.given
       /\ db'.passkey = db.passkey /\ db'.device = db.device
  BY <1>1, <1>5 DEF SignDb, Login!Create
<1>12. db' \in SignDb
  <2>1. db' = [db EXCEPT !.users = db'.users, !.next = db.next + 1, !.proofs = db'.proofs, !.pending = {}]
    BY <1>1, <1>5, <1>11 DEF SignDb, Login!Create
  <2>2. db'.users \in SUBSET SignUser /\ db.next + 1 \in Nat /\ db'.proofs \in SUBSET SignProof
    BY <1>1, <1>4, <1>11
  <2> QED
    BY <1>1, <2>1, <2>2 DEF SignDb
<1>13. /\ hist'.taken = hist.taken \cup {x, p} /\ hist'.sessions = hist.sessions \cup {s}
       /\ hist'.again = hist.again \cup (hist.taken \cap {x}) \cup ((hist.taken \cup {x}) \cap {p})
       /\ hist'.top = hist.top /\ hist'.overlap = hist.overlap
  BY <1>1, <1>5, <1>7, <1>9 DEF Login!SignedIn, Login!Accept, SignHist
<1>14. x \notin hist.taken
  <2>1. Login!ByName(u.name) = {}
    BY <1>5 DEF Login!NoDuplicate
  <2> QED
    BY <1>1, <1>8, <2>1 DEF SignOnce
<1>15. p \notin hist.taken /\ p.kind # "pending"
  BY <1>1, <1>6 DEF SignOnce
<1>16. hist'.again = {}
  BY <1>1, <1>8, <1>13, <1>14, <1>15
<1>17. hist' \in SignHist
  <2>1. hist' = [hist EXCEPT !.taken = hist'.taken, !.again = {}, !.sessions = hist'.sessions]
    BY <1>1, <1>5, <1>13, <1>16 DEF Login!SignedIn, Login!Accept, SignHist
  <2>2. hist'.taken \in SUBSET (SignProof \cup SignPending)
          /\ hist'.sessions \in SUBSET [kind : Login!Kinds, id : Nat]
    BY <1>1, <1>6, <1>8, <1>10, <1>13
  <2> QED
    BY <1>1, <2>1, <2>2 DEF SignHist
<1>18. SignGrows(db.users, db'.users, db.next) /\ db.next <= db'.next /\ SignUsers'
  BY <1>4, <1>5, <1>11, SignCreates
<1>19. /\ tx' \in [Conns -> SignRuns] /\ \A d \in Conns : tx'[d] = tx[d] \/ SignSees(tx[d])'
       /\ SignCounts' /\ \A d \in Conns : SignKey(tx[d])'
  BY <1>11, <1>13, SignEnds DEF Login!CommitPending
<1>20. \A y \in hist'.taken : y \in hist.taken \/
            IF y.kind = "pending" THEN Login!ByName(y.n)' # {} ELSE y \notin db'.proofs /\ y.n <= db.given
  <2>1. Login!ByName(x.n)' # {}
    BY <1>8, <1>11 DEF Login!ByName
  <2>2. p \notin db'.proofs /\ p.n <= db.given
    BY <1>1, <1>6, <1>11 DEF SignOnce
  <2> QED
    BY <1>8, <1>13, <1>15, <2>1, <2>2
<1>21. SignRight(s)'
  <2>1. \A v \in db'.users : s.id = v.id => v = u
    BY <1>10, <1>11, <1>18 DEF SignUsers
  <2>2. s.id < db'.next
    BY <1>1, <1>4, <1>10, <1>11
  <2> QED
    BY <1>4, <1>10, <2>1, <2>2 DEF SignRight
<1>22. \A z \in hist'.sessions : z \in hist.sessions \/ SignRight(z)'
  BY <1>13, <1>21
<1>23. /\ db.given <= db'.given
       /\ \A q \in db'.proofs : q.n <= db'.given /\ (q \in db.proofs \/ q.n > db.given)
  BY <1>1, <1>11 DEF SignOnce
<1> QED
  BY <1>12, <1>16, <1>17, <1>18, <1>19, <1>20, <1>22, <1>23, SignSteps

\* A proof presented by c is taken and leads to the session s, if any.
LEMMA SignPresents ==
  ASSUME SignInv, NEW c \in Conns, Login!Finish(c), NEW p \in db.proofs,
         NEW S \in SUBSET [kind : Login!Kinds, id : Nat],
         db' = [db EXCEPT !.proofs = @ \ {p}, !.users = db'.users, !.next = db'.next], db'.users \in SUBSET SignUser,
         db'.next \in Nat, SignGrows(db.users, db'.users, db.next), db.next <= db'.next, SignUsers',
         hist' = [hist EXCEPT !.taken = @ \cup {p}, !.again = @ \cup (hist.taken \cap {p}), !.sessions = @ \cup S],
         \A s \in S : SignRight(s)'
  PROVE  SignInv'
<1>1. /\ SignTyped /\ db \in SignDb /\ hist \in SignHist /\ db.proofs \subseteq SignProof
      /\ hist.taken \subseteq SignProof \cup SignPending /\ hist.sessions \subseteq [kind : Login!Kinds, id : Nat]
  BY SignParts
<1>2. /\ db'.proofs = db.proofs \ {p} /\ db'.given = db.given /\ db'.passkey = db.passkey /\ db'.device = db.device
  BY <1>1 DEF SignDb
<1>3. db' \in SignDb
  <2>1. db.proofs \ {p} \in SUBSET SignProof
    BY <1>1
  <2> QED
    BY <1>1, <2>1 DEF SignDb
<1>4. /\ hist'.taken = hist.taken \cup {p} /\ hist'.again = hist.again \cup (hist.taken \cap {p})
      /\ hist'.sessions = hist.sessions \cup S /\ hist'.top = hist.top /\ hist'.overlap = hist.overlap
  BY <1>1 DEF SignHist
<1>5. /\ db.given <= db'.given
      /\ \A q \in db'.proofs : q.n <= db'.given /\ (q \in db.proofs \/ q.n > db.given)
      /\ hist'.again = {}
      /\ \A x \in hist'.taken : x \in hist.taken \/
           IF x.kind = "pending" THEN Login!ByName(x.n)' # {} ELSE x \notin db'.proofs /\ x.n <= db.given
  BY <1>2, <1>4, SignSpends
<1>6. hist' \in SignHist
  <2>1. hist' = [hist EXCEPT !.taken = hist'.taken, !.again = {}, !.sessions = hist'.sessions]
    BY <1>1, <1>4, <1>5
  <2>2. hist'.taken \in SUBSET (SignProof \cup SignPending)
          /\ hist'.sessions \in SUBSET [kind : Login!Kinds, id : Nat]
    BY <1>1, <1>4
  <2> QED
    BY <1>1, <2>1, <2>2 DEF SignHist
<1>7. /\ tx' \in [Conns -> SignRuns] /\ \A d \in Conns : tx'[d] = tx[d] \/ SignSees(tx[d])'
      /\ SignCounts' /\ \A d \in Conns : SignKey(tx[d])'
  BY <1>2, <1>4, SignEnds
<1>8. \A s \in hist'.sessions : s \in hist.sessions \/ SignRight(s)'
  BY <1>4
<1> QED
  BY <1>3, <1>5, <1>6, <1>7, <1>8, SignSteps

LEMMA SignIns == ASSUME SignInv, NEW c \in Conns, Login!CommitSignIn(c) PROVE SignInv'
<1>1. /\ SignTyped /\ SignUsers /\ SignTxs /\ db \in SignDb /\ hist \in SignHist /\ db.users \subseteq SignUser
      /\ db.next \in Nat /\ tx[c].op = "present" /\ tx[c] \in SignPresent
  BY SignParts, SignRun DEF Login!CommitSignIn
<1>2. PICK p \in SignProof : p = tx[c].p
  BY <1>1 DEF SignPresent
<1>3. PICK i \in IF p.kind = "github" THEN tx[c].github ELSE IF p.kind = "bind" THEN {} ELSE tx[c].mail :
        hist' = Login!SignedIn(hist, p, i)
  BY <1>2 DEF Login!CommitSignIn
<1>4. p \in db.proofs /\ db' = [db EXCEPT !.proofs = @ \ {p}] /\ Login!Finish(c)
  BY <1>2 DEF Login!CommitSignIn, Login!Live
<1>5. p.kind # "bind" /\ p.kind # "challenge" /\ p.kind \in Login!Kinds
  BY <1>1, <1>2, <1>3 DEF SignProof, SignTxs, SignSees
<1>6. PICK u \in db.users : u.id = i /\ (IF p.kind = "github" THEN u.github ELSE u.mail)
  BY <1>1, <1>2, <1>3, <1>5 DEF SignTxs, SignSees
<1>7. PICK s : s = [kind |-> p.kind, id |-> i]
  OBVIOUS
<1>8. s \in [kind : Login!Kinds, id : Nat] /\ s.kind = p.kind /\ s.id = u.id
  BY <1>1, <1>5, <1>6, <1>7 DEF SignUser
<1>9. /\ db'.users = db.users /\ db'.next = db.next
      /\ db' = [db EXCEPT !.proofs = @ \ {p}, !.users = db'.users, !.next = db'.next]
  BY <1>1, <1>4 DEF SignDb
<1>10. hist' = [hist EXCEPT !.taken = @ \cup {p}, !.again = @ \cup (hist.taken \cap {p}), !.sessions = @ \cup {s}]
  BY <1>1, <1>3, <1>7 DEF Login!SignedIn, Login!Accept, SignHist
<1>11. SignRight(s)'
  <2>1. \A v \in db.users : s.id = v.id => v = u
    BY <1>1, <1>8 DEF SignUsers
  <2>2. s.id < db.next
    BY <1>1, <1>8 DEF SignUsers
  <2> QED
    BY <1>5, <1>6, <1>8, <1>9, <2>1, <2>2 DEF SignRight
<1>12. SignGrows(db.users, db'.users, db.next) /\ db.next <= db'.next /\ SignUsers'
  BY <1>9, SignSame
<1>13. {s} \in SUBSET [kind : Login!Kinds, id : Nat] /\ \A t \in {s} : SignRight(t)'
  BY <1>8, <1>11
<1>14. db'.users \in SUBSET SignUser /\ db'.next \in Nat
  BY <1>1, <1>9
<1> QED
  BY <1>4, <1>9, <1>10, <1>12, <1>13, <1>14, SignPresents

\* A code makes an account with the address, GitHub one with both.
LEMMA SignNews == ASSUME SignInv, NEW c \in Conns, Login!CommitNew(c) PROVE SignInv'
<1>1. /\ SignTyped /\ db \in SignDb /\ hist \in SignHist /\ db.users \subseteq SignUser
      /\ db.next \in Nat /\ tx[c].op = "present" /\ tx[c] \in SignPresent
  BY SignParts, SignRun DEF Login!CommitNew
<1>2. PICK p \in SignProof : p = tx[c].p
  BY <1>1 DEF SignPresent
<1>3. PICK hub \in BOOLEAN : hub = (p.kind = "github")
  OBVIOUS
<1>4. PICK u : u = [id |-> db.next, name |-> tx[c].name, mail |-> TRUE, github |-> hub, password |-> FALSE]
  OBVIOUS
<1>5. p.kind \in {"register", "github"} /\ tx[c].name \in SignNames
  BY <1>1, <1>2 DEF Login!CommitNew, SignPresent
<1>6. u \in SignUser /\ u.id = db.next /\ u.mail /\ (p.kind = "github" => u.github)
  BY <1>1, <1>3, <1>4, <1>5 DEF SignUser
<1>7. u = Login!NewUser(tx[c].name, (tx[c].p.kind = "github") => TRUE, tx[c].p.kind = "github", FALSE)
  <2>1. CASE hub
    <3>1. tx[c].p.kind = "github"
      BY <1>2, <1>3, <2>1
    <3> QED
      BY <1>4, <2>1, <3>1 DEF Login!NewUser
  <2>2. CASE ~hub
    <3>1. tx[c].p.kind # "github"
      BY <1>2, <1>3, <2>2
    <3> QED
      BY <1>4, <2>2, <3>1 DEF Login!NewUser
  <2> QED
    BY <2>1, <2>2
<1>8. /\ p \in db.proofs /\ Login!NoDuplicate(u) /\ Login!Finish(c)
      /\ db' = [Login!Create(db, u) EXCEPT !.proofs = @ \ {p}]
      /\ hist' = Login!SignedIn(hist, p, u.id)
  BY <1>2, <1>7, Zenon DEF Login!CommitNew, Login!Live
<1>9. PICK s : s = [kind |-> p.kind, id |-> u.id]
  OBVIOUS
<1>10. s \in [kind : Login!Kinds, id : Nat] /\ s.kind = p.kind /\ s.id = u.id
  BY <1>1, <1>5, <1>6, <1>9 DEF Login!Kinds
<1>11. /\ db'.users = db.users \cup {u} /\ db'.next = db.next + 1
       /\ db' = [db EXCEPT !.proofs = @ \ {p}, !.users = db'.users, !.next = db'.next]
  BY <1>1, <1>8 DEF SignDb, Login!Create
<1>12. hist' = [hist EXCEPT !.taken = @ \cup {p}, !.again = @ \cup (hist.taken \cap {p}), !.sessions = @ \cup {s}]
  BY <1>1, <1>8, <1>9 DEF Login!SignedIn, Login!Accept, SignHist
<1>13. SignGrows(db.users, db'.users, db.next) /\ db.next <= db'.next /\ SignUsers'
  BY <1>6, <1>8, <1>11, SignCreates
<1>14. SignRight(s)'
  <2>1. \A v \in db'.users : s.id = v.id => v = u
    BY <1>10, <1>11, <1>13 DEF SignUsers
  <2>2. s.id < db'.next
    BY <1>1, <1>6, <1>10, <1>11
  <2> QED
    BY <1>6, <1>10, <2>1, <2>2 DEF SignRight
<1>15. {s} \in SUBSET [kind : Login!Kinds, id : Nat] /\ \A t \in {s} : SignRight(t)'
  BY <1>10, <1>14
<1>16. db'.users \in SUBSET SignUser /\ db'.next \in Nat
  BY <1>1, <1>6, <1>11
<1> QED
  BY <1>8, <1>11, <1>12, <1>13, <1>15, <1>16, SignPresents

\* The one account that asked is bound.
LEMMA SignBinds == ASSUME SignInv, NEW c \in Conns, Login!CommitBind(c) PROVE SignInv'
<1>1. /\ SignTyped /\ SignUsers /\ db \in SignDb /\ hist \in SignHist /\ db.users \subseteq SignUser
      /\ db.next \in Nat /\ hist.sessions \subseteq [kind : Login!Kinds, id : Nat]
  BY SignParts
<1>2. PICK p : p = tx[c].p
  OBVIOUS
<1>3. /\ p \in db.proofs /\ Login!ByGithub = {} /\ Login!Finish(c)
      /\ db' = [db EXCEPT !.proofs = @ \ {p}, !.users = {[u EXCEPT !.github = @ \/ u.id = p.owner] : u \in db.users}]
      /\ hist' = Login!Accept(hist, p)
  BY <1>2 DEF Login!CommitBind, Login!Live
<1> DEFINE bound(u) == [u EXCEPT !.github = u.github \/ u.id = p.owner]
<1>4. \A u \in db.users : /\ bound(u) \in SignUser /\ bound(u).id = u.id /\ bound(u).name = u.name
        /\ bound(u).mail = u.mail
                          /\ bound(u).github = (u.id = p.owner)
  <2> SUFFICES ASSUME NEW u \in db.users
               PROVE  /\ bound(u) \in SignUser /\ bound(u).id = u.id /\ bound(u).name = u.name
                      /\ bound(u).mail = u.mail
                      /\ bound(u).github = (u.id = p.owner)
    OBVIOUS
  <2>1. u \in SignUser /\ ~u.github
    BY <1>1, <1>3 DEF Login!ByGithub
  <2>2. PICK b \in BOOLEAN : b = (u.id = p.owner)
    OBVIOUS
  <2>3. bound(u) = [u EXCEPT !.github = b]
    BY <2>1, <2>2
  <2> HIDE DEF bound
  <2> QED
    BY <2>1, <2>2, <2>3 DEF SignUser
<1>5. db'.users = {bound(u) : u \in db.users} /\ db'.next = db.next
  BY <1>1, <1>3 DEF SignDb
<1>6. db' = [db EXCEPT !.proofs = @ \ {p}, !.users = db'.users, !.next = db'.next]
  BY <1>1, <1>3, <1>5 DEF SignDb
<1> HIDE DEF bound
<1>7. \A u \in db.users : ~u.github
  BY <1>3 DEF Login!ByGithub
<1>8. SignGrows(db.users, db'.users, db.next)
  BY <1>4, <1>5, <1>7 DEF SignGrows
<1>9. SignUsers'
  <2>1. \A v \in db'.users : v.id < db'.next
    BY <1>1, <1>4, <1>5 DEF SignUsers
  <2>2. \A v, w \in db'.users : v.id = w.id => v = w
    BY <1>1, <1>4, <1>5 DEF SignUsers
  <2>3. ASSUME NEW v \in db'.users, NEW w \in db'.users,
                 v.name = w.name \/ (v.mail /\ w.mail) \/ (v.github /\ w.github)
        PROVE  v = w
    <3>1. PICK u \in db.users : v = bound(u)
      BY <1>5
    <3>2. PICK x \in db.users : w = bound(x)
      BY <1>5
    <3>3. CASE v.name = w.name \/ (v.mail /\ w.mail)
      BY <1>1, <1>4, <3>1, <3>2, <3>3 DEF SignUsers, Login!Distinct
    <3>4. CASE v.github /\ w.github
      BY <1>1, <1>4, <3>1, <3>2, <3>4 DEF SignUsers
    <3> QED
      BY <2>3, <3>3, <3>4
  <2> QED
    BY <2>1, <2>2, <2>3 DEF SignUsers, Login!Distinct
<1>10. PICK S : S = {}
  OBVIOUS
<1>11. /\ hist' = [hist EXCEPT !.taken = @ \cup {p}, !.again = @ \cup (hist.taken \cap {p}), !.sessions = @ \cup S]
       /\ S \in SUBSET [kind : Login!Kinds, id : Nat] /\ \A s \in S : SignRight(s)'
  <2>1. hist' = [hist EXCEPT !.taken = @ \cup {p}, !.again = @ \cup (hist.taken \cap {p}), !.sessions = @ \cup S]
    BY <1>1, <1>3, <1>10 DEF Login!Accept, SignHist
  <2> QED
    BY <1>10, <2>1
<1>12. db'.users \in SUBSET SignUser /\ db'.next \in Nat /\ db.next <= db'.next
  BY <1>1, <1>4, <1>5
<1> QED
  BY <1>3, <1>6, <1>8, <1>9, <1>11, <1>12, SignPresents

\* A passkey is added, with its own row, or deleted.
LEMMA SignKeys ==
  ASSUME SignInv, NEW c \in Conns,
         (\E i \in Login!Ids, p \in db.proofs : Login!AddPasskey(c, p, i)) \/ Login!DeletePasskey(c)
  PROVE  SignInv'
<1>1. /\ SignTyped /\ SignOnce /\ SignUsers /\ SignTxs /\ db \in SignDb /\ hist \in SignHist
      /\ db.users \subseteq SignUser /\ db.next \in Nat /\ db.proofs \subseteq SignProof /\ db.given \in Nat
      /\ db.passkey \in [owner : Nat, count : Nat, row : Nat] /\ db.device \in Nat
      /\ hist.taken \subseteq SignProof \cup SignPending /\ hist.again = {} /\ hist.top \in Nat
      /\ hist.overlap \in BOOLEAN /\ SignCounts /\ tx \in [Conns -> SignRuns]
  BY SignParts DEF SignInv, SignTyped
<1>2. db.passkey.owner \in Nat /\ db.passkey.row \in Nat
  BY <1>1
<1>3. \A d \in Conns : tx[d].op = "passkey" => tx[d].row \in Nat /\ tx[d].count \in Nat
  BY <1>1, SignRun DEF SignPasskey
<1>4. CASE Login!DeletePasskey(c)
  <2>1. PICK k : k = [db.passkey EXCEPT !.owner = 0, !.count = 0]
    OBVIOUS
  <2>2. k \in [owner : Nat, count : Nat, row : Nat] /\ k.owner = 0 /\ k.row = db.passkey.row
    BY <1>1, <2>1
  <2>3. db' = [db EXCEPT !.passkey = k] /\ hist' = hist /\ tx' = tx
    BY <1>1, <1>4, <2>1 DEF Login!DeletePasskey, Login!AtOnce, SignDb
  <2>4. /\ db'.passkey = k /\ db'.users = db.users /\ db'.next = db.next /\ db'.proofs = db.proofs
        /\ db'.given = db.given /\ db'.device = db.device /\ db' \in SignDb
    BY <1>1, <2>2, <2>3 DEF SignDb
  <2>5. SignGrows(db.users, db'.users, db.next) /\ db.next <= db'.next /\ SignUsers'
    BY <2>4, SignSame
  <2>6. SignCounts'
    BY <1>1, <2>2, <2>3, <2>4 DEF SignCounts, Login!CountKept
  <2>7. \A d \in Conns : SignKey(tx[d])'
    BY <1>1, <2>2, <2>3, <2>4 DEF SignTxs, SignKey
  <2>8. /\ db.given <= db'.given
        /\ \A p \in db'.proofs : p.n <= db'.given /\ (p \in db.proofs \/ p.n > db.given)
    BY <1>1, <2>4 DEF SignOnce
  <2>9. /\ \A x \in hist'.taken : x \in hist.taken \/
             IF x.kind = "pending" THEN Login!ByName(x.n)' # {} ELSE x \notin db'.proofs /\ x.n <= db.given
        /\ \A s \in hist'.sessions : s \in hist.sessions \/ SignRight(s)'
    BY <2>3
  <2>10. tx' \in [Conns -> SignRuns] /\ hist' \in SignHist /\ hist'.again = {} /\ \A d \in Conns : tx'[d] = tx[d]
    BY <1>1, <2>3
  <2> QED
    BY <2>4, <2>5, <2>6, <2>7, <2>8, <2>9, <2>10, SignSteps
<1>5. ASSUME NEW i \in Login!Ids, NEW p \in db.proofs, Login!AddPasskey(c, p, i) PROVE SignInv'
  <2>1. PICK k : k = [owner |-> i, count |-> db.device, row |-> db.passkey.row + 1]
    OBVIOUS
  <2>2. i \in Nat
    BY <1>1 DEF Login!Ids, SignUser
  <2>3. k \in [owner : Nat, count : Nat, row : Nat] /\ k.count = db.device /\ k.row = db.passkey.row + 1
    BY <1>1, <1>2, <2>1, <2>2
  <2>4. /\ db' = [db EXCEPT !.proofs = @ \ {p}, !.passkey = k] /\ tx' = tx
        /\ hist' = [hist EXCEPT !.taken = @ \cup {p}, !.again = @ \cup (hist.taken \cap {p}), !.top = db.device]
    <3>1. db' = [db EXCEPT !.proofs = @ \ {p}, !.passkey = [owner |-> i, count |-> db.device, row |-> @.row + 1]]
            /\ tx' = tx
      BY <1>5 DEF Login!AddPasskey, Login!AtOnce
    <3>2. hist' = [hist EXCEPT !.taken = @ \cup {p}, !.again = @ \cup (hist.taken \cap {p}), !.top = db.device]
      BY <1>1, <1>5 DEF Login!AddPasskey, Login!Accept, SignHist
    <3> QED
      BY <1>1, <2>1, <3>1, <3>2 DEF SignDb
  <2>5. /\ db'.passkey = k /\ db'.users = db.users /\ db'.next = db.next /\ db'.proofs = db.proofs \ {p}
        /\ db'.given = db.given /\ db'.device = db.device
    BY <1>1, <2>4 DEF SignDb
  <2>6. db' \in SignDb
    <3>1. db.proofs \ {p} \in SUBSET SignProof
      BY <1>1
    <3> QED
      BY <1>1, <2>3, <2>4, <3>1 DEF SignDb
  <2>7. /\ hist'.taken = hist.taken \cup {p} /\ hist'.again = hist.again \cup (hist.taken \cap {p})
        /\ hist'.sessions = hist.sessions /\ hist'.top = db.device /\ hist'.overlap = hist.overlap
    BY <1>1, <2>4 DEF SignHist
  <2>8. /\ db.given <= db'.given
        /\ \A q \in db'.proofs : q.n <= db'.given /\ (q \in db.proofs \/ q.n > db.given)
        /\ hist'.again = {}
        /\ \A x \in hist'.taken : x \in hist.taken \/
             IF x.kind = "pending" THEN Login!ByName(x.n)' # {} ELSE x \notin db'.proofs /\ x.n <= db.given
    BY <2>5, <2>7, SignSpends
  <2>9. hist' \in SignHist
    <3>1. hist' = [hist EXCEPT !.taken = hist'.taken, !.again = {}, !.top = db.device]
      BY <1>1, <2>4, <2>7, <2>8
    <3>2. hist'.taken \in SUBSET (SignProof \cup SignPending)
      BY <1>1, <2>7
    <3> QED
      BY <1>1, <3>1, <3>2 DEF SignHist
  <2>10. SignGrows(db.users, db'.users, db.next) /\ db.next <= db'.next /\ SignUsers'
    BY <2>5, SignSame
  <2>11. SignCounts'
    BY <1>1, <2>3, <2>5, <2>7 DEF SignCounts, Login!CountKept
  <2>12. ASSUME NEW d \in Conns PROVE SignKey(tx[d])'
    <3>1. SignKey(tx[d]) /\ tx'[d] = tx[d]
      BY <1>1, <2>4 DEF SignTxs
    <3>2. tx[d].op = "passkey" => /\ tx[d].row <= db'.passkey.row /\ tx[d].row # db'.passkey.row
                                  /\ tx[d].count <= db'.device /\ tx[d].p.kind = "challenge"
      BY <1>2, <1>3, <2>3, <2>5, <3>1 DEF SignKey
    <3> QED
      BY <3>1, <3>2 DEF SignKey
  <2>13. tx' \in [Conns -> SignRuns] /\ \A d \in Conns : tx'[d] = tx[d]
    BY <1>1, <2>4
  <2>14. \A s \in hist'.sessions : s \in hist.sessions \/ SignRight(s)'
    BY <2>7
  <2> QED
    BY <2>6, <2>8, <2>9, <2>10, <2>11, <2>12, <2>13, <2>14, SignSteps
<1> QED
  BY <1>4, <1>5

\* The authenticator counts, whether the login succeeds or not.
LEMMA SignAsks == ASSUME SignInv, NEW c \in Conns, NEW p \in db.proofs, Login!PasskeyLogin(c, p) PROVE SignInv'
<1>1. /\ SignTyped /\ SignOnce /\ SignUsers /\ SignTxs /\ db \in SignDb /\ hist \in SignHist
      /\ db.next \in Nat /\ db.proofs \subseteq SignProof /\ db.given \in Nat
      /\ db.passkey \in [owner : Nat, count : Nat, row : Nat] /\ db.device \in Nat
      /\ hist.again = {} /\ hist.top \in Nat /\ SignCounts
  BY SignParts DEF SignInv
<1>2. PICK t : t = [op |-> "passkey", p |-> p, row |-> db.passkey.row, owner |-> db.passkey.owner, count |-> db.device + 1]
  OBVIOUS
<1>3. t \in SignRuns /\ t.op = "passkey" /\ t.p = p /\ t.row = db.passkey.row /\ t.count = db.device + 1
  BY <1>1, <1>2 DEF SignRuns, SignPasskey
<1>4. tx' = [tx EXCEPT ![c] = t] /\ db' = [db EXCEPT !.device = @ + 1] /\ hist' = hist /\ p.kind = "challenge"
  BY <1>2 DEF Login!PasskeyLogin, Login!Begin
<1>5. tx' \in [Conns -> SignRuns] /\ tx'[c] = t /\ \A d \in Conns : d # c => tx'[d] = tx[d]
  BY <1>1, <1>3, <1>4, SignMove
<1>6. /\ db'.users = db.users /\ db'.next = db.next /\ db'.proofs = db.proofs /\ db'.given = db.given
      /\ db'.passkey = db.passkey /\ db'.device = db.device + 1
  BY <1>1, <1>4 DEF SignDb
<1>7. db' \in SignDb /\ hist' \in SignHist /\ hist'.again = {}
  <2>1. db.device + 1 \in Nat
    BY <1>1
  <2> QED
    BY <1>1, <1>4, <2>1 DEF SignDb
<1>8. SignGrows(db.users, db'.users, db.next) /\ db.next <= db'.next /\ SignUsers'
  BY <1>6, SignSame
<1>9. SignCounts'
  BY <1>1, <1>4, <1>6 DEF SignCounts, Login!CountKept
<1>10. \A d \in Conns : SignKey(tx[d])'
  <2> SUFFICES ASSUME NEW d \in Conns PROVE SignKey(tx[d])'
    OBVIOUS
  <2>1. CASE d = c
    <3>1. t.row <= db'.passkey.row /\ t.count <= db'.device
      BY <1>1, <1>3, <1>6
    <3>2. t.count > hist'.top
      BY <1>1, <1>3, <1>4 DEF SignCounts
    <3>3. t.p.kind = "challenge"
      BY <1>3, <1>4
    <3> QED
      BY <1>5, <2>1, <3>1, <3>2, <3>3 DEF SignKey
  <2>2. CASE d # c
    <3>1. SignKey(tx[d]) /\ (tx[d].op = "passkey" => tx[d].count \in Nat)
      BY <1>1, SignRun DEF SignTxs, SignPasskey
    <3> QED
      BY <1>1, <1>4, <1>5, <1>6, <2>2, <3>1 DEF SignKey
  <2> QED
    BY <2>1, <2>2
<1>11. \A d \in Conns : tx'[d] = tx[d] \/ SignSees(tx[d])'
  BY <1>3, <1>5 DEF SignSees
<1>12. /\ db.given <= db'.given
       /\ \A q \in db'.proofs : q.n <= db'.given /\ (q \in db.proofs \/ q.n > db.given)
  BY <1>1, <1>6 DEF SignOnce
<1>13. /\ \A x \in hist'.taken : x \in hist.taken \/
            IF x.kind = "pending" THEN Login!ByName(x.n)' # {} ELSE x \notin db'.proofs /\ x.n <= db.given
       /\ \A s \in hist'.sessions : s \in hist.sessions \/ SignRight(s)'
  BY <1>4
<1> QED
  BY <1>5, <1>7, <1>8, <1>9, <1>10, <1>11, <1>12, <1>13, SignSteps

\* The count of the row that was read is written: every login still open
\* was open now.
LEMMA SignCountsUp == ASSUME SignInv, NEW c \in Conns, Login!CommitPasskey(c) PROVE SignInv'
<1>1. /\ SignTyped /\ SignOnce /\ SignUsers /\ SignTxs /\ db \in SignDb /\ hist \in SignHist
      /\ db.users \subseteq SignUser /\ db.next \in Nat /\ db.proofs \subseteq SignProof /\ db.given \in Nat
      /\ db.passkey \in [owner : Nat, count : Nat, row : Nat] /\ db.device \in Nat
      /\ hist.taken \subseteq SignProof \cup SignPending /\ hist.again = {} /\ hist.top \in Nat
      /\ hist.sessions \subseteq [kind : Login!Kinds, id : Nat] /\ hist.overlap \in BOOLEAN /\ SignCounts
      /\ tx[c].op = "passkey" /\ tx[c] \in SignPasskey
  BY SignParts, SignRun DEF SignInv, Login!CommitPasskey
<1>2. PICK r \in SignPasskey : r = tx[c]
  BY <1>1
<1>3. r.p \in db.proofs /\ r.p.kind = "challenge" /\ r.count \in Nat /\ r.owner \in Nat
  BY <1>1, <1>2 DEF Login!CommitPasskey, Login!Live, SignTxs, SignKey, SignPasskey
<1>4. PICK top \in Nat : top = IF r.count > hist.top THEN r.count ELSE hist.top
  BY <1>1, <1>3
<1>5. PICK crossed \in BOOLEAN : crossed = (hist.overlap \/ Login!Open("passkey") # {c})
  OBVIOUS
<1>6. PICK s : s = [kind |-> "challenge", id |-> r.owner]
  OBVIOUS
<1>7. PICK k : k = [db.passkey EXCEPT !.count = r.count]
  OBVIOUS
<1>8. k \in [owner : Nat, count : Nat, row : Nat] /\ k.count = r.count /\ k.row = db.passkey.row
        /\ k.owner = db.passkey.owner
  BY <1>1, <1>3, <1>7
<1>9. s \in [kind : Login!Kinds, id : Nat] /\ s.kind = "challenge"
  BY <1>3, <1>6 DEF Login!Kinds
<1>10. /\ db' = [db EXCEPT !.proofs = @ \ {r.p}, !.passkey = k] /\ Login!Finish(c)
       /\ db.passkey.owner # 0 /\ db.passkey.row = r.row
  BY <1>1, <1>2, <1>7 DEF Login!CommitPasskey, Login!Counted, SignDb
<1>11. /\ hist'.taken = hist.taken \cup {r.p} /\ hist'.again = hist.again \cup (hist.taken \cap {r.p})
       /\ hist'.sessions = hist.sessions \cup {s} /\ hist'.top = top /\ hist'.overlap = crossed
       /\ hist' = [taken |-> hist'.taken, again |-> hist'.again, sessions |-> hist'.sessions, top |-> hist'.top,
                   overlap |-> hist'.overlap]
  <2>1. hist' = [Login!SignedIn(hist, r.p, r.owner)
                   EXCEPT !.top = IF r.count > @ THEN r.count ELSE @, !.overlap = @ \/ Login!Open("passkey") # {c}]
    BY <1>2 DEF Login!CommitPasskey
  <2>2. PICK h : h = Login!SignedIn(hist, r.p, r.owner)
    OBVIOUS
  <2>3. /\ h = [hist EXCEPT !.taken = @ \cup {r.p}, !.again = @ \cup (hist.taken \cap {r.p}),
                            !.sessions = @ \cup {[kind |-> r.p.kind, id |-> r.owner]}]
    BY <1>1, <2>2 DEF Login!SignedIn, Login!Accept, SignHist
  <2>4. /\ h.taken = hist.taken \cup {r.p} /\ h.again = hist.again \cup (hist.taken \cap {r.p})
        /\ h.sessions = hist.sessions \cup {s} /\ h.top = hist.top /\ h.overlap = hist.overlap
        /\ h = [taken |-> h.taken, again |-> h.again, sessions |-> h.sessions, top |-> h.top, overlap |-> h.overlap]
    BY <1>1, <1>3, <1>6, <2>3 DEF SignHist
  <2>5. hist' = [h EXCEPT !.top = IF r.count > h.top THEN r.count ELSE h.top, !.overlap = h.overlap \/ Login!Open("passkey") # {c}]
    BY <2>1, <2>2, Zenon
  <2>6. (h.overlap \/ Login!Open("passkey") # {c}) = crossed
    BY <1>1, <1>5, <2>4
  <2>7. hist' = [h EXCEPT !.top = IF r.count > h.top THEN r.count ELSE h.top, !.overlap = crossed]
    BY <2>5, <2>6, Zenon
  <2>8. hist' = [h EXCEPT !.top = top, !.overlap = crossed]
    BY <1>4, <2>4, <2>7
  <2> QED
    BY <2>4, <2>8
<1>12. /\ db'.users = db.users /\ db'.next = db.next /\ db'.proofs = db.proofs \ {r.p} /\ db'.given = db.given
       /\ db'.passkey = k /\ db'.device = db.device
  BY <1>1, <1>10 DEF SignDb
<1>13. db' \in SignDb
  <2>1. db.proofs \ {r.p} \in SUBSET SignProof
    BY <1>1
  <2> QED
    BY <1>1, <1>8, <1>10, <2>1 DEF SignDb
<1>14. /\ db.given <= db'.given
       /\ \A q \in db'.proofs : q.n <= db'.given /\ (q \in db.proofs \/ q.n > db.given)
       /\ hist'.again = {}
       /\ \A x \in hist'.taken : x \in hist.taken \/
            IF x.kind = "pending" THEN Login!ByName(x.n)' # {} ELSE x \notin db'.proofs /\ x.n <= db.given
  BY <1>3, <1>11, <1>12, SignSpends
<1>15. hist' \in SignHist
  <2>1. hist'.taken \in SUBSET (SignProof \cup SignPending)
          /\ hist'.sessions \in SUBSET [kind : Login!Kinds, id : Nat]
    BY <1>1, <1>3, <1>9, <1>11
  <2> QED
    BY <1>4, <1>5, <1>11, <1>14, <2>1 DEF SignHist
<1>16. SignGrows(db.users, db'.users, db.next) /\ db.next <= db'.next /\ SignUsers'
  BY <1>12, SignSame
<1>17. tx' \in [Conns -> SignRuns] /\ tx'[c].op = "idle" /\ \A d \in Conns : d # c => tx'[d] = tx[d]
  BY <1>1, <1>10, SignRests, SignMove DEF Login!Finish, Login!Continue
<1>18. SignKey(r) /\ r.op = "passkey"
  BY <1>1, <1>2 DEF SignTxs
<1>19. SignCounts'
  <2>1. crossed \/ r.count > hist.top
    BY <1>5, <1>10, <1>18 DEF SignKey
  <2>2. r.count <= db.device /\ hist.top <= db.device
    BY <1>1, <1>18 DEF SignKey, SignCounts
  <2> QED
    BY <1>4, <1>8, <1>11, <1>12, <2>1, <2>2 DEF SignCounts, Login!CountKept
<1>20. \A d \in Conns : SignKey(tx[d])'
  <2> SUFFICES ASSUME NEW d \in Conns PROVE SignKey(tx[d])'
    OBVIOUS
  <2>1. CASE d = c
    BY <1>17, <2>1 DEF SignKey
  <2>2. CASE d # c
    <3>1. SignKey(tx[d]) /\ tx'[d] = tx[d]
      BY <1>1, <1>17, <2>2 DEF SignTxs
    <3>2. tx[d].op = "passkey" => crossed
      BY <1>5, <2>2 DEF Login!Open
    <3> QED
      BY <1>8, <1>11, <1>12, <3>1, <3>2 DEF SignKey
  <2> QED
    BY <2>1, <2>2
<1>21. \A d \in Conns : tx'[d] = tx[d] \/ SignSees(tx[d])'
  BY <1>17 DEF SignSees
<1>22. \A t \in hist'.sessions : t \in hist.sessions \/ SignRight(t)'
  <2>1. SignRight(s)'
    BY <1>9 DEF SignRight
  <2> QED
    BY <1>11, <2>1
<1> QED
  BY <1>13, <1>14, <1>15, <1>16, <1>17, <1>19, <1>20, <1>21, <1>22, SignSteps

LEMMA SignInit == Login!Init => SignInv
<1> SUFFICES ASSUME Login!Init PROVE SignInv
  OBVIOUS
<1>1. PICK n \in {0, 1}, name \in SignNames :
        db = [users |-> IF n = 0 THEN {}
                        ELSE {[id |-> 1, name |-> name, mail |-> TRUE, github |-> FALSE, password |-> TRUE]},
              next |-> n + 1, proofs |-> {}, given |-> 0, pending |-> {},
              passkey |-> [owner |-> n, count |-> 0, row |-> 1], device |-> 0]
  <2>1. (CHOOSE x \in SignNames : TRUE) \in SignNames
    BY DEF SignNames
  <2>2. PICK n \in {0, 1} :
          db = [users |-> IF n = 0 THEN {}
                          ELSE {[id |-> 1, name |-> CHOOSE x \in SignNames : TRUE, mail |-> TRUE, github |-> FALSE,
                                 password |-> TRUE]},
                next |-> n + 1, proofs |-> {}, given |-> 0, pending |-> {},
                passkey |-> [owner |-> n, count |-> 0, row |-> 1], device |-> 0]
    BY DEF Login!Init, SignNames
  <2> QED
    BY <2>1, <2>2
<1>2. tx = [c \in Conns |-> Login!Idle]
        /\ hist = [taken |-> {}, again |-> {}, sessions |-> {}, top |-> 0, overlap |-> FALSE]
  BY DEF Login!Init, Login!Resting
<1>3. PICK u : u = [id |-> 1, name |-> name, mail |-> TRUE, github |-> FALSE, password |-> TRUE]
  OBVIOUS
<1>4. u \in SignUser /\ u.id = 1
  BY <1>3 DEF SignUser
<1>5. db.users \subseteq {u} /\ (n = 0 => db.users = {}) /\ db.next = n + 1 /\ db.proofs = {} /\ db.device = 0
        /\ db.passkey.count = 0
  BY <1>1, <1>3
<1>6. db \in SignDb
  <2>1. (IF n = 0 THEN {} ELSE {u}) \in SUBSET SignUser
    BY <1>4
  <2>2. [owner |-> n, count |-> 0, row |-> 1] \in [owner : Nat, count : Nat, row : Nat]
    OBVIOUS
  <2> QED
    BY <1>1, <1>3, <2>1, <2>2 DEF SignDb
<1>7. SignTyped
  BY <1>2, <1>6, SignRests DEF SignTyped, SignHist
<1>8. SignOnce /\ SignSessions
  BY <1>2, <1>5 DEF SignOnce, SignSessions
<1>9. SignUsers
  BY <1>4, <1>5 DEF SignUsers, Login!Distinct
<1>10. SignTxs
  BY <1>2, SignRests DEF SignTxs, SignSees, SignKey
<1>11. SignCounts
  BY <1>2, <1>5 DEF SignCounts, Login!CountKept
<1> QED
  BY <1>7, <1>8, <1>9, <1>10, <1>11 DEF SignInv

LEMMA SignNext == SignInv /\ Login!Next => SignInv'
<1> SUFFICES ASSUME SignInv, Login!Next PROVE SignInv'
  OBVIOUS
<1>1. CASE \/ \E c \in Conns, k \in Login!Kinds : Login!Give(c, k, 0)
           \/ \E c \in Conns, i \in Login!Ids : Login!Give(c, "bind", i)
           \/ \E c \in Conns, n \in SignNames : Login!StorePending(c, n)
           \/ \E p \in db.proofs : Login!Expire(p)
  BY <1>1, SignGives
<1>2. ASSUME NEW c \in Conns,
             \/ \E n \in SignNames : Login!RegisterLocal(c, n) \/ Login!ReadPending(c, n)
             \/ \E p \in db.proofs : Login!Present(c, p)
             \/ Login!Fail(c)
      PROVE  SignInv'
  BY <1>2, SignOpens
<1>3. ASSUME NEW c \in Conns,
             \/ Login!CommitLocal(c) \/ Login!CommitPending(c) \/ Login!CommitSignIn(c) \/ Login!CommitNew(c)
             \/ Login!CommitBind(c) \/ Login!CommitPasskey(c)
      PROVE  SignInv'
  BY <1>3, SignLocals, SignPendings, SignIns, SignNews, SignBinds, SignCountsUp
<1>4. ASSUME NEW c \in Conns,
             \/ \E i \in Login!Ids, p \in db.proofs : Login!AddPasskey(c, p, i)
             \/ Login!DeletePasskey(c)
             \/ \E p \in db.proofs : Login!PasskeyLogin(c, p)
      PROVE  SignInv'
  BY <1>4, SignKeys, SignAsks
<1> QED
  BY <1>1, <1>2, <1>3, <1>4 DEF Login!Next, SignNames

LEMMA SignStays == SignInv /\ UNCHANGED <<db, tx, hist, left>> => SignInv'
<1> SUFFICES ASSUME SignInv, UNCHANGED <<db, tx, hist, left>> PROVE SignInv'
  OBVIOUS
<1>1. SignTyped' /\ SignOnce'
  BY DEF SignInv, SignTyped, SignOnce, Login!ByName
<1>2. SignUsers' /\ SignSessions'
  BY DEF SignInv, SignUsers, SignSessions, SignRight, Login!Distinct
<1>3. SignTxs' /\ SignCounts'
  BY DEF SignInv, SignTxs, SignSees, SignKey, SignCounts, Login!CountKept
<1> QED
  BY <1>1, <1>2, <1>3 DEF SignInv

LEMMA SignKept == SignInv => Login!SignInSound
<1> SUFFICES ASSUME SignInv PROVE Login!SignInSound
  OBVIOUS
<1>1. Login!AcceptedOnce /\ Login!Distinct /\ Login!CountKept
  BY DEF SignInv, SignOnce, SignUsers, SignCounts, Login!AcceptedOnce
<1>2. Login!RightAccount
  BY DEF SignInv, SignSessions, SignRight, Login!RightAccount
<1> QED
  BY <1>1, <1>2 DEF Login!SignInSound

-----------------------------------------------------------------------------
(* The second factor and the recovery of the password                      *)

FacProof == [kind : {"code", "link"}, n : Nat]
FacFactor == [kind : {"backup", "totp"}, n : Nat]
FacToken == [t : Txns, n : Nat]
FacMark == [kind : {"code", "link", "backup", "totp"}, n : Nat] \cup [kind : {"setup"}, n : Nat, t : SetupTokens]
             \cup [kind : {"temp"}, n : Nat, t : Txns]

FacTotp == [row : BOOLEAN, secret : Nat, on : BOOLEAN, last : Nat]

FacDb ==
  [level : {"normal", "admin"}, now : Nat, totp : FacTotp, codes : SUBSET Nat, made : Nat,
   setup : [SetupTokens -> {"free", "begun", "done"}], proofs : SUBSET FacProof, mailed : Nat,
   txns : [Txns -> {"none", "open", "consumed", "expired"}], contact : SUBSET Txns, totpOk : SUBSET Txns,
   tokens : SUBSET FacToken, used : SUBSET FacToken, resets : Nat]

FacHist ==
  [taken : SUBSET FacMark, again : SUBSET FacMark, confirmed : SUBSET Nat, overlap : BOOLEAN, proved : SUBSET Txns]

FacBegin == [op : {"begin"}, s : SetupTokens \cup {Factor!NoToken}, row : BOOLEAN]
FacComplete == [op : {"complete"}, s : SetupTokens \cup {Factor!NoToken}, secret : Nat]
FacDisable == [op : {"disable"}, f : FacFactor, last : Nat]
FacRecover == [op : {"recover"}, p : FacProof, mfa : BOOLEAN, t : Txns]
FacVerify == [op : {"verify"}, k : FacToken, f : FacFactor]

FacRuns == {Factor!Idle} \cup FacBegin \cup FacComplete \cup FacDisable \cup FacRecover \cup FacVerify

FacTyped == tx \in [Conns -> FacRuns] /\ db \in FacDb /\ hist \in FacHist

\* What was accepted cannot be accepted again.
FacSpent(x) ==
  /\ x.kind = "backup" => x.n <= db.made /\ x.n \notin db.codes
  /\ x.kind \in {"code", "link"} => x.n <= db.mailed /\ x \notin db.proofs
  /\ x.kind = "setup" => x.t # Factor!NoToken /\ db.setup[x.t] = "done"
  /\ x.kind = "temp" => \E k \in db.used : k.t = x.t /\ k.n = x.n
  /\ x.kind = "totp" => x.n \in 1..3 /\ x.n <= db.totp.last

FacOnce ==
  /\ hist.again = {}
  /\ \A k \in db.codes : k <= db.made
  /\ \A p \in db.proofs : p.n <= db.mailed
  /\ \A x \in hist.taken : FacSpent(x)

\* The marks of the second factor are those of transactions it was shown for.
FacShown ==
  /\ \A k \in db.used : k.t \in hist.proved
  /\ db.totpOk \subseteq hist.proved
  /\ Factor!FactorShown

\* The row that a set-up has read is the row still, or it was overtaken.
FacSeen(t) ==
  /\ t.op = "complete" => t.secret = db.totp.secret \/ hist.overlap
  /\ t.op = "begin" => ~db.totp.on \/ hist.overlap
  /\ t.op = "verify" /\ t.f.kind = "totp" => t.f.n \in 1..3

FacTxs == \A c \in Conns : FacSeen(tx[c])

FacInv == FacTyped /\ FacOnce /\ FacShown /\ FacTxs /\ Factor!SecretConfirmed

LEMMA FacRun ==
  ASSUME FacTyped, NEW c \in Conns
  PROVE  /\ tx[c] \in FacRuns
         /\ tx[c].op = "begin" => tx[c] \in FacBegin
         /\ tx[c].op = "complete" => tx[c] \in FacComplete
         /\ tx[c].op = "disable" => tx[c] \in FacDisable
         /\ tx[c].op = "recover" => tx[c] \in FacRecover
         /\ tx[c].op = "verify" => tx[c] \in FacVerify
<1>1. tx[c] \in FacRuns
  BY DEF FacTyped
<1>2. (\A t \in FacBegin : t.op = "begin") /\ (\A t \in FacComplete : t.op = "complete")
  BY DEF FacBegin, FacComplete
<1>3. (\A t \in FacDisable : t.op = "disable") /\ (\A t \in FacRecover : t.op = "recover")
  BY DEF FacDisable, FacRecover
<1>4. \A t \in FacVerify : t.op = "verify"
  BY DEF FacVerify
<1>5. Factor!Idle.op = "idle"
  BY DEF Factor!Idle
<1> QED
  BY <1>1, <1>2, <1>3, <1>4, <1>5 DEF FacRuns

LEMMA FacMove ==
  ASSUME FacTyped, NEW c \in Conns, NEW t \in FacRuns, tx' = [tx EXCEPT ![c] = t]
  PROVE  tx' \in [Conns -> FacRuns] /\ tx'[c] = t /\ \A d \in Conns : d # c => tx'[d] = tx[d]
BY DEF FacTyped

LEMMA FacRests == Factor!Idle \in FacRuns /\ Factor!Idle.op = "idle"
BY DEF FacRuns, Factor!Idle

LEMMA FacParts ==
  ASSUME FacInv
  PROVE  /\ FacTyped /\ FacOnce /\ FacShown /\ FacTxs /\ Factor!SecretConfirmed
         /\ db \in FacDb /\ hist \in FacHist /\ tx \in [Conns -> FacRuns]
         /\ db.totp \in FacTotp /\ db.totp.secret \in Nat /\ db.totp.last \in Nat /\ db.totp.on \in BOOLEAN
         /\ db.totp.row \in BOOLEAN /\ db.codes \subseteq Nat /\ db.made \in Nat /\ db.mailed \in Nat
         /\ db.setup \in [SetupTokens -> {"free", "begun", "done"}] /\ db.proofs \subseteq FacProof
         /\ db.txns \in [Txns -> {"none", "open", "consumed", "expired"}] /\ db.contact \subseteq Txns
         /\ db.totpOk \subseteq Txns /\ db.tokens \subseteq FacToken /\ db.used \subseteq FacToken
         /\ hist.taken \subseteq FacMark /\ hist.again = {} /\ hist.confirmed \subseteq Nat
         /\ hist.overlap \in BOOLEAN /\ hist.proved \subseteq Txns
<1>1. /\ FacTyped /\ FacOnce /\ FacShown /\ FacTxs /\ Factor!SecretConfirmed
      /\ db \in FacDb /\ hist \in FacHist /\ tx \in [Conns -> FacRuns]
  BY DEF FacInv, FacTyped
<1>2. db.totp \in FacTotp
  BY <1>1 DEF FacDb
<1>3. /\ db.totp.secret \in Nat /\ db.totp.last \in Nat /\ db.totp.on \in BOOLEAN /\ db.totp.row \in BOOLEAN
  BY <1>2 DEF FacTotp
<1>4. /\ db.codes \subseteq Nat /\ db.made \in Nat /\ db.mailed \in Nat
      /\ db.setup \in [SetupTokens -> {"free", "begun", "done"}] /\ db.proofs \subseteq FacProof
      /\ db.txns \in [Txns -> {"none", "open", "consumed", "expired"}] /\ db.contact \subseteq Txns
      /\ db.totpOk \subseteq Txns /\ db.tokens \subseteq FacToken /\ db.used \subseteq FacToken
  BY <1>1 DEF FacDb
<1>5. /\ hist.taken \subseteq FacMark /\ hist.again = {} /\ hist.confirmed \subseteq Nat
      /\ hist.overlap \in BOOLEAN /\ hist.proved \subseteq Txns
  BY <1>1 DEF FacHist, FacOnce
<1> QED
  BY <1>1, <1>2, <1>3, <1>4, <1>5

\* What every step leaves in place.
LEMMA FacSteps ==
  ASSUME FacInv, tx' \in [Conns -> FacRuns], db' \in FacDb, hist' \in FacHist,
         db.made <= db'.made, \A k \in db'.codes : k <= db'.made /\ (k \in db.codes \/ k > db.made),
         db.mailed <= db'.mailed, \A p \in db'.proofs : p.n <= db'.mailed /\ (p \in db.proofs \/ p.n > db.mailed),
         \A s \in SetupTokens : db.setup[s] = "done" /\ s # Factor!NoToken => db'.setup[s] = "done",
         db.used \subseteq db'.used,
         \A x \in hist'.taken : (x \in hist.taken /\ (x.kind = "totp" => db.totp.last <= db'.totp.last))
             \/ FacSpent(x)',
         hist'.again = {}, hist.proved \subseteq hist'.proved,
         \A k \in db'.used : k \in db.used \/ k.t \in hist'.proved,
         \A t \in db'.totpOk : t \in db.totpOk \/ t \in hist'.proved,
         \A t \in Txns : db'.txns[t] = "consumed" => db.txns[t] = "consumed" \/ t \in hist'.proved,
         Factor!SecretConfirmed', \A d \in Conns : FacSeen(tx[d])'
  PROVE  FacInv'
<1>1. FacOnce /\ FacShown /\ db.made \in Nat /\ db.mailed \in Nat /\ db.totp.last \in Nat
        /\ hist.taken \subseteq FacMark
  BY FacParts
<1>2. db'.made \in Nat /\ db'.mailed \in Nat /\ db'.totp.last \in Nat
  BY DEF FacDb, FacTotp
<1>3. ASSUME NEW x \in hist'.taken PROVE FacSpent(x)'
  <2>1. CASE x \in hist.taken /\ (x.kind = "totp" => db.totp.last <= db'.totp.last)
    <3>1. FacSpent(x)
      BY <1>1, <2>1 DEF FacOnce
    <3>2. x.n \in Nat /\ (x.kind = "setup" => x.t \in SetupTokens)
      BY <1>1, <2>1 DEF FacMark
    <3>3. x.kind = "backup" => x.n <= db'.made /\ x.n \notin db'.codes
      BY <1>1, <1>2, <3>1, <3>2 DEF FacSpent
    <3>4. x.kind \in {"code", "link"} => x.n <= db'.mailed /\ x \notin db'.proofs
      BY <1>1, <1>2, <3>1, <3>2 DEF FacSpent
    <3>5. x.kind = "setup" => x.t # Factor!NoToken /\ db'.setup[x.t] = "done"
      BY <3>1, <3>2 DEF FacSpent
    <3>6. x.kind = "temp" => \E k \in db'.used : k.t = x.t /\ k.n = x.n
      BY <3>1 DEF FacSpent
    <3>7. x.kind = "totp" => x.n \in 1..3 /\ x.n <= db'.totp.last
      BY <1>1, <1>2, <2>1, <3>1, <3>2 DEF FacSpent
    <3> QED
      BY <3>3, <3>4, <3>5, <3>6, <3>7 DEF FacSpent
  <2> QED
    BY <2>1
<1>4. FacOnce'
  BY <1>3 DEF FacOnce
<1>5. FacShown'
  BY <1>1 DEF FacShown, Factor!FactorShown
<1>6. FacTyped' /\ FacTxs'
  BY DEF FacTyped, FacTxs
<1> QED
  BY <1>4, <1>5, <1>6 DEF FacInv

\* A step of one request that changes nothing but what it has read.
LEMMA FacMoves ==
  ASSUME FacInv, NEW c \in Conns, NEW t \in FacRuns, tx' = [tx EXCEPT ![c] = t], db' = db, hist' = hist, FacSeen(t)
  PROVE  FacInv'
<1>1. FacTyped /\ FacOnce /\ FacShown /\ FacTxs /\ Factor!SecretConfirmed
  BY FacParts
<1>2. tx' \in [Conns -> FacRuns] /\ tx'[c] = t /\ \A d \in Conns : d # c => tx'[d] = tx[d]
  BY <1>1, FacMove
<1>3. FacTyped' /\ FacShown' /\ Factor!SecretConfirmed'
  BY <1>1, <1>2 DEF FacTyped, FacShown, Factor!FactorShown, Factor!SecretConfirmed
<1>4. FacOnce'
  BY <1>1 DEF FacOnce, FacSpent
<1>5. FacTxs'
  BY <1>1, <1>2 DEF FacTxs, FacSeen
<1> QED
  BY <1>3, <1>4, <1>5 DEF FacInv

\* What a request has read of the second factor.
LEMMA FacReads ==
  ASSUME FacInv, NEW f \in Factor!Factors
  PROVE  f \in FacFactor /\ (f.kind = "totp" => f.n \in 1..3)
<1>1. db.codes \subseteq Nat
  BY FacParts
<1>2. CASE \E k \in db.codes : f = [kind |-> "backup", n |-> k]
  BY <1>1, <1>2 DEF FacFactor
<1>3. CASE \E n \in 1..3 : f = [kind |-> "totp", n |-> n]
  BY <1>3 DEF FacFactor
<1>4. Factor!Window \subseteq 1..3
  BY DEF Factor!Window
<1> QED
  BY <1>2, <1>3, <1>4 DEF Factor!Factors

\* The steps that only read, and the failures.
LEMMA FacOpens ==
  ASSUME FacInv, NEW c \in Conns,
         \/ \E s \in SetupTokens \cup {Factor!NoToken} : Factor!SetupBegin(c, s) \/ Factor!SetupComplete(c, s)
         \/ \E f \in Factor!Factors : Factor!Disable(c, f)
         \/ \E p \in db.proofs, t \in Txns : Factor!Recover(c, p, t)
         \/ \E k \in db.tokens, f \in Factor!Factors : Factor!Verify(c, k, f)
         \/ Factor!Fail(c)
  PROVE  FacInv'
<1>1. CASE Factor!Fail(c)
  BY <1>1, FacRests, FacMoves DEF Factor!Fail, Factor!Finish, Factor!Continue, FacSeen
<1>2. ASSUME NEW s \in SetupTokens \cup {Factor!NoToken}, Factor!SetupBegin(c, s) PROVE FacInv'
  <2>1. PICK t : t = [op |-> "begin", s |-> s, row |-> db.totp.row]
    OBVIOUS
  <2>2. tx' = [tx EXCEPT ![c] = t] /\ db' = db /\ hist' = hist /\ ~db.totp.on
    BY <1>2, <2>1 DEF Factor!SetupBegin, Factor!Begin, Factor!Off
  <2>3. t \in FacRuns /\ t.op = "begin"
    BY <2>1, FacParts DEF FacRuns, FacBegin
  <2> QED
    BY <2>2, <2>3, FacMoves DEF FacSeen
<1>3. ASSUME NEW s \in SetupTokens \cup {Factor!NoToken}, Factor!SetupComplete(c, s) PROVE FacInv'
  <2>1. PICK t : t = [op |-> "complete", s |-> s, secret |-> db.totp.secret]
    OBVIOUS
  <2>2. tx' = [tx EXCEPT ![c] = t] /\ db' = db /\ hist' = hist
    BY <1>3, <2>1 DEF Factor!SetupComplete, Factor!Begin
  <2>3. t \in FacRuns /\ t.op = "complete" /\ t.secret = db.totp.secret
    BY <2>1, FacParts DEF FacRuns, FacComplete
  <2> QED
    BY <2>2, <2>3, FacMoves DEF FacSeen
<1>4. ASSUME NEW f \in Factor!Factors, Factor!Disable(c, f) PROVE FacInv'
  <2>1. PICK t : t = [op |-> "disable", f |-> f, last |-> db.totp.last]
    OBVIOUS
  <2>2. tx' = [tx EXCEPT ![c] = t] /\ db' = db /\ hist' = hist
    BY <1>4, <2>1 DEF Factor!Disable, Factor!Begin
  <2>3. f \in FacFactor
    BY FacReads
  <2>4. t \in FacRuns /\ t.op = "disable"
    BY <2>1, <2>3, FacParts DEF FacRuns, FacDisable
  <2> QED
    BY <2>2, <2>4, FacMoves DEF FacSeen
<1>5. ASSUME NEW p \in db.proofs, NEW i \in Txns, Factor!Recover(c, p, i) PROVE FacInv'
  <2>1. PICK t : t = [op |-> "recover", p |-> p, mfa |-> db.totp.on, t |-> i]
    OBVIOUS
  <2>2. tx' = [tx EXCEPT ![c] = t] /\ db' = db /\ hist' = hist
    BY <1>5, <2>1 DEF Factor!Recover, Factor!Begin
  <2>3. p \in FacProof /\ db.totp.on \in BOOLEAN
    BY FacParts
  <2>4. t \in FacRuns /\ t.op = "recover"
    BY <2>1, <2>3 DEF FacRuns, FacRecover
  <2> QED
    BY <2>2, <2>4, FacMoves DEF FacSeen
<1>6. ASSUME NEW k \in db.tokens, NEW f \in Factor!Factors, Factor!Verify(c, k, f) PROVE FacInv'
  <2>1. PICK t : t = [op |-> "verify", k |-> k, f |-> f]
    OBVIOUS
  <2>2. tx' = [tx EXCEPT ![c] = t] /\ db' = db /\ hist' = hist
    BY <1>6, <2>1 DEF Factor!Verify, Factor!Begin
  <2>3. k \in FacToken /\ f \in FacFactor /\ (f.kind = "totp" => f.n \in 1..3)
    BY FacParts, FacReads
  <2>4. t \in FacRuns /\ t.op = "verify" /\ t.f = f
    BY <2>1, <2>3 DEF FacRuns, FacVerify
  <2> QED
    BY <2>2, <2>3, <2>4, FacMoves DEF FacSeen
<1> QED
  BY <1>1, <1>2, <1>3, <1>4, <1>5, <1>6

\* A step that leaves the factor, the codes and the marks as they are.
LEMMA FacQuiets ==
  ASSUME FacInv, tx' = tx, hist' = hist, db' \in FacDb, db'.totp = db.totp, db'.codes = db.codes, db'.made = db.made,
         db'.setup = db.setup, db'.used = db.used, db.mailed <= db'.mailed,
         \A p \in db'.proofs : p.n <= db'.mailed /\ (p \in db.proofs \/ p.n > db.mailed),
         \A t \in db'.totpOk : t \in db.totpOk \/ t \in hist.proved,
         \A t \in Txns : db'.txns[t] = "consumed" => db.txns[t] = "consumed" \/ t \in hist.proved
  PROVE  FacInv'
<1>1. /\ FacOnce /\ FacTxs /\ Factor!SecretConfirmed /\ tx \in [Conns -> FacRuns] /\ hist \in FacHist
      /\ hist.again = {}
      /\ db.made \in Nat /\ db.codes \subseteq Nat /\ db.totp.last \in Nat
      /\ db.setup \in [SetupTokens -> {"free", "begun", "done"}]
  BY FacParts
<1>2. Factor!SecretConfirmed' /\ \A d \in Conns : FacSeen(tx[d])'
  BY <1>1 DEF Factor!SecretConfirmed, FacTxs, FacSeen
<1>3. \A k \in db'.codes : k <= db'.made /\ (k \in db.codes \/ k > db.made)
  BY <1>1 DEF FacOnce
<1>4. \A x \in hist'.taken : (x \in hist.taken /\ (x.kind = "totp" => db.totp.last <= db'.totp.last)) \/ FacSpent(x)'
  BY <1>1
<1>5. /\ tx' \in [Conns -> FacRuns] /\ hist' \in FacHist /\ db.made <= db'.made /\ hist'.again = {}
      /\ \A s \in SetupTokens : db.setup[s] = "done" /\ s # Factor!NoToken => db'.setup[s] = "done"
      /\ db.used \subseteq db'.used /\ hist.proved \subseteq hist'.proved
      /\ \A k \in db'.used : k \in db.used \/ k.t \in hist'.proved
      /\ \A t \in db'.totpOk : t \in db.totpOk \/ t \in hist'.proved
      /\ \A t \in Txns : db'.txns[t] = "consumed" => db.txns[t] = "consumed" \/ t \in hist'.proved
  BY <1>1
<1> QED
  BY <1>2, <1>3, <1>4, <1>5, FacSteps

LEMMA FacFits ==
  ASSUME db \in FacDb, NEW ps \in SUBSET FacProof, NEW m \in Nat,
         NEW txns \in [Txns -> {"none", "open", "consumed", "expired"}]
  PROVE  [db EXCEPT !.proofs = ps, !.mailed = m, !.txns = txns] \in FacDb
BY DEF FacDb

\* A code or a link is sent.
LEMMA FacMails ==
  ASSUME FacInv, NEW kind \in {"code", "link"}, NEW txns \in [Txns -> {"none", "open", "consumed", "expired"}],
         tx' = tx, hist' = hist, \A t \in Txns : txns[t] = "consumed" => db.txns[t] = "consumed",
         db' = [db EXCEPT !.proofs = @ \cup {[kind |-> kind, n |-> db.mailed + 1]}, !.mailed = @ + 1, !.txns = txns]
  PROVE  FacInv'
<1>1. db \in FacDb /\ db.mailed \in Nat /\ db.proofs \subseteq FacProof /\ FacOnce
  BY FacParts
<1>2. PICK p : p = [kind |-> kind, n |-> db.mailed + 1]
  OBVIOUS
<1>3. p \in FacProof /\ p.n = db.mailed + 1
  BY <1>1, <1>2 DEF FacProof
<1>4. db' = [db EXCEPT !.proofs = @ \cup {p}, !.mailed = @ + 1, !.txns = txns]
  BY <1>2
<1>5. db.proofs \cup {p} \subseteq FacProof /\ db.mailed + 1 \in Nat
  BY <1>1, <1>3
<1>6. db' \in FacDb
  <2>1. PICK ps \in SUBSET FacProof : ps = db.proofs \cup {p}
    BY <1>5
  <2>2. PICK m \in Nat : m = db.mailed + 1
    BY <1>5
  <2>3. db' = [db EXCEPT !.proofs = ps, !.mailed = m, !.txns = txns]
    BY <1>4, <2>1, <2>2
  <2>4. db \in FacDb
    BY <1>1
  <2>5. [db EXCEPT !.proofs = ps, !.mailed = m, !.txns = txns] \in FacDb
    BY <2>4, FacFits, Zenon
  <2> QED
    BY <2>3, <2>5, Zenon
<1>7. /\ db'.totp = db.totp /\ db'.codes = db.codes /\ db'.made = db.made /\ db'.setup = db.setup
      /\ db'.used = db.used
      /\ db'.totpOk = db.totpOk /\ db'.mailed = db.mailed + 1 /\ db'.proofs = db.proofs \cup {p} /\ db'.txns = txns
  BY <1>1, <1>4 DEF FacDb
<1>8. \A q \in db'.proofs : q.n <= db'.mailed /\ (q \in db.proofs \/ q.n > db.mailed)
  <2>1. \A q \in db.proofs : q.n <= db.mailed /\ q.n \in Nat
    BY <1>1 DEF FacOnce, FacProof
  <2> QED
    BY <1>1, <1>3, <1>7, <2>1
<1>9. db.mailed <= db'.mailed
  BY <1>1, <1>7
<1> QED
  BY <1>6, <1>7, <1>8, <1>9, FacQuiets

\* A transaction goes on or ends, and nothing is accepted.
LEMMA FacTurns ==
  ASSUME FacInv, tx' = tx, hist' = hist,
         db' = [db EXCEPT !.txns = db'.txns, !.totpOk = db'.totpOk, !.resets = db'.resets, !.now = db'.now],
         db'.txns \in [Txns -> {"none", "open", "consumed", "expired"}], db'.totpOk \subseteq Txns,
         db'.resets \in Nat, db'.now \in Nat, db'.totpOk \subseteq hist.proved,
         \A t \in Txns : db'.txns[t] = "consumed" => db.txns[t] = "consumed" \/ t \in hist.proved
  PROVE  FacInv'
<1>1. db \in FacDb /\ db.mailed \in Nat /\ db.proofs \subseteq FacProof /\ FacOnce
  BY FacParts
<1>2. db' \in FacDb
  <2>1. \A txns \in [Txns -> {"none", "open", "consumed", "expired"}], ok \in SUBSET Txns, resets \in Nat,
          now \in Nat :
          [db EXCEPT !.txns = txns, !.totpOk = ok, !.resets = resets, !.now = now] \in FacDb
    BY <1>1 DEF FacDb
  <2>2. PICK txns : txns = db'.txns
    OBVIOUS
  <2>3. PICK ok : ok = db'.totpOk
    OBVIOUS
  <2>4. PICK resets : resets = db'.resets
    OBVIOUS
  <2>5. PICK now : now = db'.now
    OBVIOUS
  <2>6. /\ txns \in [Txns -> {"none", "open", "consumed", "expired"}] /\ ok \in SUBSET Txns
        /\ resets \in Nat /\ now \in Nat
    BY <2>2, <2>3, <2>4, <2>5
  <2>7. db' = [db EXCEPT !.txns = txns, !.totpOk = ok, !.resets = resets, !.now = now]
    BY <2>2, <2>3, <2>4, <2>5
  <2> QED
    BY <2>1, <2>6, <2>7
<1>3. /\ db'.totp = db.totp /\ db'.codes = db.codes /\ db'.made = db.made /\ db'.setup = db.setup
      /\ db'.used = db.used
      /\ db'.mailed = db.mailed /\ db'.proofs = db.proofs
  BY <1>1 DEF FacDb
<1>4. \A q \in db'.proofs : q.n <= db'.mailed /\ (q \in db.proofs \/ q.n > db.mailed)
  BY <1>1, <1>3 DEF FacOnce
<1>5. db.mailed <= db'.mailed
  BY <1>1, <1>3
<1> QED
  BY <1>2, <1>3, <1>4, <1>5, FacQuiets

LEMMA FacProofs ==
  ASSUME FacInv,
         \/ \E c \in Conns, kind \in {"code", "link"} : Factor!RequestProof(c, kind)
         \/ \E c \in Conns, t \in Txns : Factor!AdminBegin(c, t)
  PROVE  FacInv'
<1>1. db \in FacDb /\ db.txns \in [Txns -> {"none", "open", "consumed", "expired"}]
  BY FacParts
<1>2. ASSUME NEW c \in Conns, NEW kind \in {"code", "link"}, Factor!RequestProof(c, kind) PROVE FacInv'
  <2>1. db' = [db EXCEPT !.proofs = @ \cup {[kind |-> kind, n |-> db.mailed + 1]}, !.mailed = @ + 1, !.txns = db.txns]
    BY <1>1, <1>2 DEF Factor!RequestProof, FacDb
  <2> QED
    BY <1>1, <1>2, <2>1, FacMails DEF Factor!RequestProof, Factor!AtOnce
<1>3. ASSUME NEW c \in Conns, NEW t \in Txns, Factor!AdminBegin(c, t) PROVE FacInv'
  <2>1. PICK txns : txns = [db.txns EXCEPT ![t] = "open"]
    OBVIOUS
  <2>2. txns \in [Txns -> {"none", "open", "consumed", "expired"}]
          /\ \A i \in Txns : txns[i] = "consumed" => db.txns[i] = "consumed"
    BY <1>1, <2>1
  <2>3. db' = [db EXCEPT !.proofs = @ \cup {[kind |-> "code", n |-> db.mailed + 1]}, !.mailed = @ + 1, !.txns = txns]
    BY <1>1, <1>3, <2>1 DEF Factor!AdminBegin, FacDb
  <2> QED
    BY <1>3, <2>2, <2>3, FacMails DEF Factor!AdminBegin, Factor!AtOnce
<1> QED
  BY <1>2, <1>3

LEMMA FacGoes ==
  ASSUME FacInv,
         \/ \E c \in Conns, k \in db.tokens : Factor!VerifyTotp(c, k)
         \/ \E c \in Conns, t \in Txns : Factor!RecoverComplete(c, t)
         \/ \E t \in Txns : Factor!ExpireTxn(t)
         \/ Factor!Tick
  PROVE  FacInv'
<1>1. /\ db \in FacDb /\ db.txns \in [Txns -> {"none", "open", "consumed", "expired"}] /\ db.tokens \subseteq FacToken
      /\ db.totpOk \subseteq Txns /\ FacShown
  BY FacParts
<1>2. db.totpOk \subseteq hist.proved /\ \A k \in db.used : k.t \in hist.proved
  BY <1>1 DEF FacShown
<1>3. db.resets \in Nat /\ db.now \in Nat /\ db.totpOk \in SUBSET Txns
  BY <1>1 DEF FacDb
<1>4. ASSUME NEW c \in Conns, NEW k \in db.tokens, Factor!VerifyTotp(c, k) PROVE FacInv'
  <2>1. k.t \in Txns /\ k.t \in hist.proved
    BY <1>1, <1>2, <1>4 DEF Factor!VerifyTotp, FacToken
  <2>2. db' = [db EXCEPT !.totpOk = db.totpOk \cup {k.t}]
    BY <1>4 DEF Factor!VerifyTotp
  <2>3. db'.txns = db.txns /\ db'.totpOk = db.totpOk \cup {k.t} /\ db'.resets = db.resets /\ db'.now = db.now
    BY <1>1, <2>2 DEF FacDb
  <2>4. db' = [db EXCEPT !.txns = db'.txns, !.totpOk = db'.totpOk, !.resets = db'.resets, !.now = db'.now]
    BY <1>1, <2>2, <2>3 DEF FacDb
  <2>5. db'.totpOk \subseteq Txns /\ db'.totpOk \subseteq hist.proved
    BY <1>2, <1>3, <2>1, <2>3
  <2>6. tx' = tx /\ hist' = hist
    BY <1>4 DEF Factor!VerifyTotp, Factor!AtOnce
  <2> QED
    BY <1>1, <1>3, <2>3, <2>4, <2>5, <2>6, FacTurns
<1>5. ASSUME NEW c \in Conns, NEW t \in Txns, Factor!RecoverComplete(c, t) PROVE FacInv'
  <2>1. t \in hist.proved
    BY <1>2, <1>5 DEF Factor!RecoverComplete, Factor!Consumable
  <2>2. db' = [db EXCEPT !.txns[t] = "consumed", !.resets = @ + 1]
    BY <1>5 DEF Factor!RecoverComplete
  <2>3. /\ db'.txns = [db.txns EXCEPT ![t] = "consumed"] /\ db'.totpOk = db.totpOk /\ db'.resets = db.resets + 1
        /\ db'.now = db.now
    BY <1>1, <2>2 DEF FacDb
  <2>4. db' = [db EXCEPT !.txns = db'.txns, !.totpOk = db'.totpOk, !.resets = db'.resets, !.now = db'.now]
    BY <1>1, <2>2, <2>3 DEF FacDb
  <2>5. /\ db'.txns \in [Txns -> {"none", "open", "consumed", "expired"}] /\ db'.resets \in Nat
        /\ \A i \in Txns : db'.txns[i] = "consumed" => db.txns[i] = "consumed" \/ i \in hist.proved
    BY <1>1, <1>3, <2>1, <2>3
  <2>6. tx' = tx /\ hist' = hist
    BY <1>5 DEF Factor!RecoverComplete, Factor!AtOnce
  <2> QED
    BY <1>2, <1>3, <2>3, <2>4, <2>5, <2>6, FacTurns
<1>6. ASSUME NEW t \in Txns, Factor!ExpireTxn(t) PROVE FacInv'
  <2>1. db' = [db EXCEPT !.txns[t] = "expired"]
    BY <1>6 DEF Factor!ExpireTxn
  <2>2. /\ db'.txns = [db.txns EXCEPT ![t] = "expired"] /\ db'.totpOk = db.totpOk /\ db'.resets = db.resets
        /\ db'.now = db.now
    BY <1>1, <2>1 DEF FacDb
  <2>3. db' = [db EXCEPT !.txns = db'.txns, !.totpOk = db'.totpOk, !.resets = db'.resets, !.now = db'.now]
    BY <1>1, <2>1, <2>2 DEF FacDb
  <2>4. /\ db'.txns \in [Txns -> {"none", "open", "consumed", "expired"}]
        /\ \A i \in Txns : db'.txns[i] = "consumed" => db.txns[i] = "consumed" \/ i \in hist.proved
    BY <1>1, <2>2
  <2>5. tx' = tx /\ hist' = hist
    BY <1>6 DEF Factor!ExpireTxn
  <2> QED
    BY <1>2, <1>3, <2>2, <2>3, <2>4, <2>5, FacTurns
<1>7. ASSUME Factor!Tick PROVE FacInv'
  <2>1. db' = [db EXCEPT !.now = @ + 1]
    BY <1>7 DEF Factor!Tick
  <2>2. db'.txns = db.txns /\ db'.totpOk = db.totpOk /\ db'.resets = db.resets /\ db'.now = db.now + 1
    BY <1>1, <2>1 DEF FacDb
  <2>3. db' = [db EXCEPT !.txns = db'.txns, !.totpOk = db'.totpOk, !.resets = db'.resets, !.now = db'.now]
    BY <1>1, <2>1, <2>2 DEF FacDb
  <2>4. db'.now \in Nat /\ \A i \in Txns : db'.txns[i] = "consumed" => db.txns[i] = "consumed" \/ i \in hist.proved
    BY <1>3, <2>2
  <2>5. tx' = tx /\ hist' = hist
    BY <1>7 DEF Factor!Tick
  <2> QED
    BY <1>1, <1>2, <1>3, <2>2, <2>3, <2>4, <2>5, FacTurns
<1> QED
  BY <1>4, <1>5, <1>6, <1>7

\* What is still there to be accepted has not been accepted before.
LEMMA FacTakes ==
  ASSUME FacInv, NEW X \in SUBSET FacMark, \A x \in X : ~FacSpent(x), NEW h, h = Factor!Accept(hist, X)
  PROVE  /\ h \in FacHist /\ h.taken = hist.taken \cup X /\ h.again = {} /\ h.confirmed = hist.confirmed
         /\ h.overlap = hist.overlap /\ h.proved = hist.proved
<1>1. FacOnce /\ hist \in FacHist /\ hist.again = {} /\ hist.taken \subseteq FacMark
  BY FacParts
<1>2. X \cap hist.taken = {}
  BY <1>1 DEF FacOnce
<1>3. h = [hist EXCEPT !.taken = hist.taken \cup X, !.again = {}]
  <2>1. hist.again \cup (X \cap hist.taken) = {}
    BY <1>1, <1>2
  <2> QED
    BY <2>1 DEF Factor!Accept
<1>4. PICK T \in SUBSET FacMark, S \in SUBSET FacMark : T = hist.taken \cup X /\ S = {}
  BY <1>1
<1>5. hist \in FacHist /\ h = [hist EXCEPT !.taken = T, !.again = S]
  BY <1>1, <1>3, <1>4
<1>6. h \in FacHist
  BY <1>5 DEF FacHist
<1>7. h.taken = T /\ h.again = S /\ h.confirmed = hist.confirmed /\ h.overlap = hist.overlap /\ h.proved = hist.proved
  BY <1>5 DEF FacHist
<1> QED
  BY <1>4, <1>6, <1>7

\* A step that accepts X and leaves the secret as it is.
LEMMA FacHolds ==
  ASSUME FacInv, tx' \in [Conns -> FacRuns], \A d \in Conns : tx'[d] = tx[d] \/ tx'[d].op = "idle", db' \in FacDb,
         NEW X \in SUBSET FacMark, hist' \in FacHist, hist'.taken = hist.taken \cup X, hist'.again = {},
         hist'.confirmed = hist.confirmed, hist'.overlap = hist.overlap,
         db'.totp.on = db.totp.on, db'.totp.secret = db.totp.secret, db.totp.last <= db'.totp.last,
         db'.codes \subseteq db.codes, db'.made = db.made, db'.proofs \subseteq db.proofs, db'.mailed = db.mailed,
         db'.setup = db.setup, db'.totpOk = db.totpOk, db.used \subseteq db'.used,
         \A x \in X : FacSpent(x)', hist.proved \subseteq hist'.proved,
         \A k \in db'.used : k \in db.used \/ k.t \in hist'.proved,
         \A t \in Txns : db'.txns[t] = "consumed" => db.txns[t] = "consumed"
  PROVE  FacInv'
<1>1. /\ FacOnce /\ FacTxs /\ Factor!SecretConfirmed /\ hist \in FacHist /\ hist.taken \subseteq FacMark
      /\ hist.confirmed \subseteq Nat /\ hist.overlap \in BOOLEAN /\ db.made \in Nat /\ db.mailed \in Nat
  BY FacParts
<1>4. Factor!SecretConfirmed'
  BY <1>1 DEF Factor!SecretConfirmed
<1>5. \A d \in Conns : FacSeen(tx[d])'
  BY <1>1 DEF FacTxs, FacSeen
<1>6. \A k \in db'.codes : k <= db'.made /\ (k \in db.codes \/ k > db.made)
  BY <1>1 DEF FacOnce
<1>7. \A p \in db'.proofs : p.n <= db'.mailed /\ (p \in db.proofs \/ p.n > db.mailed)
  BY <1>1 DEF FacOnce
<1>8. db.made <= db'.made /\ db.mailed <= db'.mailed
  BY <1>1
<1>9. \A x \in hist'.taken : (x \in hist.taken /\ (x.kind = "totp" => db.totp.last <= db'.totp.last)) \/ FacSpent(x)'
  OBVIOUS
<1>10. /\ \A s \in SetupTokens : db.setup[s] = "done" /\ s # Factor!NoToken => db'.setup[s] = "done"
       /\ hist'.again = {} /\ hist.proved \subseteq hist'.proved
       /\ \A k \in db'.used : k \in db.used \/ k.t \in hist'.proved
       /\ \A t \in db'.totpOk : t \in db.totpOk \/ t \in hist'.proved
       /\ \A t \in Txns : db'.txns[t] = "consumed" => db.txns[t] = "consumed" \/ t \in hist'.proved
  OBVIOUS
<1> QED
  BY <1>4, <1>5, <1>6, <1>7, <1>8, <1>9, <1>10, FacSteps

\* A recovery code at the step-up: auth/service_2fa.py.
LEMMA FacStepUps == ASSUME FacInv, NEW c \in Conns, NEW k \in 1..db.made, Factor!StepUp(c, k) PROVE FacInv'
<1>1. /\ db \in FacDb /\ FacOnce /\ db.codes \subseteq Nat /\ db.made \in Nat /\ db.totp.last \in Nat
      /\ tx \in [Conns -> FacRuns] /\ hist.proved \subseteq Txns /\ FacShown
  BY FacParts
<1>2. PICK x : x = [kind |-> "backup", n |-> k]
  OBVIOUS
<1>3. x \in FacMark /\ x.kind = "backup" /\ x.n = k /\ k \in db.codes /\ k \in Nat
  BY <1>1, <1>2 DEF Factor!StepUp, Factor!Unused, FacMark
<1>4. ~FacSpent(x)
  BY <1>3 DEF FacSpent
<1>5. {x} \in SUBSET FacMark /\ \A y \in {x} : ~FacSpent(y)
  BY <1>3, <1>4
<1>6. /\ hist' \in FacHist /\ hist'.taken = hist.taken \cup {x} /\ hist'.again = {}
      /\ hist'.confirmed = hist.confirmed
      /\ hist'.overlap = hist.overlap /\ hist'.proved = hist.proved
  <2>1. hist' = Factor!Accept(hist, {x})
    BY <1>2 DEF Factor!StepUp
  <2> QED
    BY <1>5, <2>1, FacTakes
<1>7. db' = [db EXCEPT !.codes = @ \ {k}] /\ tx' = tx
  BY DEF Factor!StepUp, Factor!AtOnce
<1>8. db' \in FacDb
  <2>1. PICK C \in SUBSET Nat : C = db.codes \ {k}
    BY <1>1
  <2>2. db' = [db EXCEPT !.codes = C]
    BY <1>7, <2>1
  <2> QED
    BY <1>1, <2>2 DEF FacDb
<1>9. /\ db'.totp = db.totp /\ db'.codes = db.codes \ {k} /\ db'.made = db.made /\ db'.setup = db.setup
      /\ db'.used = db.used
      /\ db'.totpOk = db.totpOk /\ db'.mailed = db.mailed /\ db'.proofs = db.proofs /\ db'.txns = db.txns
  BY <1>1, <1>7 DEF FacDb
<1>10. FacSpent(x)'
  BY <1>1, <1>3, <1>9 DEF FacSpent, FacOnce
<1>11. /\ \A y \in {x} : FacSpent(y)'
       /\ \A i \in db'.used : i \in db.used \/ i.t \in hist'.proved
       /\ db.totp.last <= db'.totp.last /\ db'.totp.on = db.totp.on /\ db'.totp.secret = db.totp.secret
       /\ db'.codes \subseteq db.codes /\ db'.proofs \subseteq db.proofs /\ db.used \subseteq db'.used
       /\ \A t \in Txns : db'.txns[t] = "consumed" => db.txns[t] = "consumed"
  BY <1>1, <1>6, <1>9, <1>10 DEF FacShown
<1>12. tx' \in [Conns -> FacRuns] /\ \A d \in Conns : tx'[d] = tx[d] \/ tx'[d].op = "idle"
  BY <1>1, <1>7
<1>13. hist.proved \subseteq hist'.proved
  BY <1>6
<1> QED
  BY <1>5, <1>6, <1>8, <1>9, <1>11, <1>12, <1>13, FacHolds

\* A code or a link that is there was not taken.
LEMMA FacProofLeft ==
  ASSUME FacInv, NEW p \in db.proofs
  PROVE  /\ p \in FacProof /\ p.n \in Nat /\ p.n <= db.mailed /\ {p} \in SUBSET FacMark
         /\ \A y \in {p} : ~FacSpent(y)
<1>1. db.proofs \subseteq FacProof /\ FacOnce
  BY FacParts
<1>2. p \in FacProof /\ p.n \in Nat /\ p.kind \in {"code", "link"} /\ p \in FacMark
  BY <1>1 DEF FacProof, FacMark
<1>3. p.n <= db.mailed /\ ~FacSpent(p)
  BY <1>1, <1>2 DEF FacOnce, FacSpent
<1> QED
  BY <1>2, <1>3

\* A code or a link is taken: auth/service_recovery.py.
LEMMA FacSpends ==
  ASSUME FacInv, NEW p \in db.proofs, NEW c \in Conns, NEW run \in FacRuns, run.op = "idle",
         tx' = tx \/ tx' = [tx EXCEPT ![c] = run], hist' = Factor!Accept(hist, {p}), db' \in FacDb,
         db'.totp = db.totp, db'.codes = db.codes, db'.made = db.made, db'.setup = db.setup, db'.used = db.used,
         db'.totpOk = db.totpOk, db'.mailed = db.mailed, db'.proofs = db.proofs \ {p},
         \A i \in Txns : db'.txns[i] = "consumed" => db.txns[i] = "consumed"
  PROVE  FacInv'
<1>1. FacTyped /\ FacShown /\ tx \in [Conns -> FacRuns] /\ db.totp.last \in Nat
  BY FacParts
<1>2. /\ p \in FacProof /\ p.n \in Nat /\ p.n <= db.mailed /\ {p} \in SUBSET FacMark
      /\ \A y \in {p} : ~FacSpent(y)
  BY FacProofLeft
<1>3. /\ hist' \in FacHist /\ hist'.taken = hist.taken \cup {p} /\ hist'.again = {}
      /\ hist'.confirmed = hist.confirmed
      /\ hist'.overlap = hist.overlap /\ hist'.proved = hist.proved
  BY <1>2, FacTakes
<1>4. tx' \in [Conns -> FacRuns] /\ \A d \in Conns : tx'[d] = tx[d] \/ tx'[d].op = "idle"
  BY <1>1, FacMove
<1>5. FacSpent(p)'
  BY <1>2 DEF FacSpent, FacProof
<1>6. \A y \in {p} : FacSpent(y)'
  BY <1>5
<1>7. db.totp.last <= db'.totp.last /\ db'.totp.on = db.totp.on /\ db'.totp.secret = db.totp.secret
  BY <1>1
<1>8. /\ \A i \in db'.used : i \in db.used \/ i.t \in hist'.proved
      /\ db'.codes \subseteq db.codes /\ db'.proofs \subseteq db.proofs /\ db.used \subseteq db'.used
      /\ hist.proved \subseteq hist'.proved
  BY <1>3
<1> QED
  BY <1>2, <1>3, <1>4, <1>6, <1>7, <1>8, FacHolds

LEMMA FacFits2 ==
  ASSUME db \in FacDb, NEW ps \in SUBSET FacProof, NEW contact \in SUBSET Txns, NEW tokens \in SUBSET FacToken
  PROVE  [db EXCEPT !.proofs = ps, !.contact = contact, !.tokens = tokens] \in FacDb
BY DEF FacDb

LEMMA FacContacts == ASSUME FacInv, NEW c \in Conns, NEW t \in Txns, Factor!VerifyContact(c, t) PROVE FacInv'
<1>1. /\ db \in FacDb /\ db.proofs \subseteq FacProof /\ db.contact \subseteq Txns /\ db.tokens \subseteq FacToken
  BY FacParts
<1>2. PICK p \in db.proofs :
        /\ db' = [db EXCEPT !.proofs = @ \ {p}, !.contact = @ \cup {t}, !.tokens = @ \cup {[t |-> t, n |-> p.n]}]
        /\ hist' = Factor!Accept(hist, {p})
  BY DEF Factor!VerifyContact, Factor!Found
<1>3. tx' = tx
  BY DEF Factor!VerifyContact, Factor!AtOnce
<1>4. p.n \in Nat
  BY FacProofLeft
<1>5. PICK ps \in SUBSET FacProof, contact \in SUBSET Txns : ps = db.proofs \ {p} /\ contact = db.contact \cup {t}
  BY <1>1
<1>6. [t |-> t, n |-> p.n] \in FacToken
  BY <1>4 DEF FacToken
<1>7. PICK tokens \in SUBSET FacToken : tokens = db.tokens \cup {[t |-> t, n |-> p.n]}
  BY <1>1, <1>6
<1>8. db' = [db EXCEPT !.proofs = ps, !.contact = contact, !.tokens = tokens]
  BY <1>2, <1>5, <1>7
<1>9. db' \in FacDb
  <2>1. [db EXCEPT !.proofs = ps, !.contact = contact, !.tokens = tokens] \in FacDb
    BY <1>1, FacFits2, Zenon
  <2> QED
    BY <1>8, <2>1, Zenon
<1>10. /\ db'.totp = db.totp /\ db'.codes = db.codes /\ db'.made = db.made /\ db'.setup = db.setup
       /\ db'.used = db.used
       /\ db'.totpOk = db.totpOk /\ db'.mailed = db.mailed /\ db'.proofs = db.proofs \ {p} /\ db'.txns = db.txns
  BY <1>1, <1>5, <1>8 DEF FacDb
<1>11. \A i \in Txns : db'.txns[i] = "consumed" => db.txns[i] = "consumed"
  BY <1>10
<1> QED
  BY <1>2, <1>3, <1>9, <1>10, <1>11, FacRests, FacSpends

LEMMA FacFits3 ==
  ASSUME db \in FacDb, NEW ps \in SUBSET FacProof, NEW txns \in [Txns -> {"none", "open", "consumed", "expired"}],
         NEW contact \in SUBSET Txns, NEW tokens \in SUBSET FacToken, NEW resets \in Nat
  PROVE  [db EXCEPT !.proofs = ps, !.txns = txns, !.contact = contact, !.tokens = tokens, !.resets = resets] \in FacDb
BY DEF FacDb

LEMMA FacRecovers == ASSUME FacInv, NEW c \in Conns, Factor!CommitRecover(c) PROVE FacInv'
<1>1. /\ FacTyped /\ db \in FacDb /\ db.proofs \subseteq FacProof /\ db.contact \subseteq Txns
      /\ db.tokens \subseteq FacToken
      /\ db.txns \in [Txns -> {"none", "open", "consumed", "expired"}]
  BY FacParts
<1>2. PICK r : r = tx[c]
  OBVIOUS
<1>3. r \in FacRecover /\ r.t \in Txns /\ r.p \in db.proofs /\ db.txns[r.t] = "none" /\ r.mfa \in BOOLEAN
  BY <1>1, <1>2, FacRun DEF Factor!CommitRecover, FacRecover
<1>4. PICK p \in db.proofs, t \in Txns : p = r.p /\ t = r.t
  BY <1>3
<1>5. db.resets \in Nat /\ p.n \in Nat
  BY <1>1, FacProofLeft DEF FacDb
<1>6. PICK ps \in SUBSET FacProof, contact \in SUBSET Txns : ps = db.proofs \ {p} /\ contact = db.contact \cup {t}
  BY <1>1
<1>7. [t |-> t, n |-> p.n] \in FacToken
  BY <1>5 DEF FacToken
<1>8. PICK tokens \in SUBSET FacToken : tokens = db.tokens \cup {[t |-> t, n |-> p.n]}
  BY <1>1, <1>7
<1>9. PICK txns \in [Txns -> {"none", "open", "consumed", "expired"}] : txns = [db.txns EXCEPT ![t] = "open"]
  BY <1>1
<1>10. \/ db' = [db EXCEPT !.proofs = ps, !.txns = txns, !.contact = contact, !.tokens = tokens]
       \/ db' = [db EXCEPT !.proofs = ps, !.resets = @ + 1]
  BY <1>2, <1>3, <1>4, <1>6, <1>8, <1>9 DEF Factor!CommitRecover
<1>11. \A i \in Txns : txns[i] = "consumed" => db.txns[i] = "consumed"
  BY <1>1, <1>9
<1>12. db' \in FacDb
  <2>1. CASE db' = [db EXCEPT !.proofs = ps, !.txns = txns, !.contact = contact, !.tokens = tokens]
    <3>1. db' = [db EXCEPT !.proofs = ps, !.txns = txns, !.contact = contact, !.tokens = tokens, !.resets = db.resets]
      BY <1>1, <2>1 DEF FacDb
    <3>2. [db EXCEPT !.proofs = ps, !.txns = txns, !.contact = contact, !.tokens = tokens, !.resets = db.resets] \in FacDb
      BY <1>1, <1>5, FacFits3, Zenon
    <3> QED
      BY <3>1, <3>2, Zenon
  <2>2. CASE db' = [db EXCEPT !.proofs = ps, !.resets = @ + 1]
    <3>1. PICK n \in Nat : n = db.resets + 1
      BY <1>5
    <3>2. db' = [db EXCEPT !.proofs = ps, !.resets = n]
      BY <2>2, <3>1
    <3> QED
      BY <1>1, <3>2 DEF FacDb
  <2> QED
    BY <1>10, <2>1, <2>2
<1>13. /\ db'.totp = db.totp /\ db'.codes = db.codes /\ db'.made = db.made /\ db'.setup = db.setup
       /\ db'.used = db.used
       /\ db'.totpOk = db.totpOk /\ db'.mailed = db.mailed /\ db'.proofs = db.proofs \ {p}
       /\ (db'.txns = txns \/ db'.txns = db.txns)
  BY <1>1, <1>6, <1>10 DEF FacDb
<1>14. \A i \in Txns : db'.txns[i] = "consumed" => db.txns[i] = "consumed"
  BY <1>11, <1>13
<1>15. tx' = [tx EXCEPT ![c] = Factor!Idle] /\ hist' = Factor!Accept(hist, {p})
  BY <1>2, <1>4 DEF Factor!CommitRecover, Factor!Finish, Factor!Continue
<1> QED
  BY <1>12, <1>13, <1>14, <1>15, FacRests, FacSpends

LEMMA FacFits4 ==
  ASSUME db \in FacDb, NEW codes \in SUBSET Nat, NEW used \in SUBSET FacToken, NEW totp \in FacTotp
  PROVE  [db EXCEPT !.codes = codes, !.used = used, !.totp = totp] \in FacDb
BY DEF FacDb

\* A factor is shown with a temporary token: auth/service_2fa.py.
LEMMA FacVerifies == ASSUME FacInv, NEW c \in Conns, Factor!CommitVerify(c) PROVE FacInv'
<1>1. /\ FacTyped /\ FacOnce /\ FacShown /\ FacTxs /\ db \in FacDb /\ db.codes \subseteq Nat
      /\ db.used \subseteq FacToken
      /\ db.totp \in FacTotp /\ db.made \in Nat /\ db.totp.last \in Nat /\ tx \in [Conns -> FacRuns]
  BY FacParts
<1>2. PICK r : r = tx[c]
  OBVIOUS
<1>3. r \in FacVerify /\ r.op = "verify" /\ FacSeen(r)
  BY <1>1, <1>2, FacRun DEF Factor!CommitVerify, FacTxs
<1>4. PICK f, k : f = r.f /\ k = r.k
  OBVIOUS
<1>5. f \in FacFactor /\ k \in FacToken
  BY <1>3, <1>4 DEF FacVerify
<1>6. /\ f.kind \in {"backup", "totp"} /\ f.n \in Nat /\ k.t \in Txns /\ k.n \in Nat
        /\ (f.kind = "totp" => f.n \in 1..3)
  BY <1>3, <1>4, <1>5 DEF FacFactor, FacToken, FacSeen
<1>7. /\ k \notin db.used
      /\ f.kind = "backup" => f.n \in db.codes
      /\ f.kind = "totp" => db.totp.last < f.n
  BY <1>2, <1>4 DEF Factor!CommitVerify, Factor!Unused, Factor!Fresh
<1>8. PICK m : m = Factor!Temporary(k)
  OBVIOUS
<1>9. m \in FacMark /\ m.kind = "temp" /\ m.t = k.t /\ m.n = k.n /\ f \in FacMark
  BY <1>5, <1>6, <1>8 DEF FacMark, Factor!Temporary, FacFactor
<1>10. ~FacSpent(f)
  BY <1>1, <1>6, <1>7 DEF FacSpent
<1>11. ~FacSpent(m)
  <2>1. \A i \in db.used : i.t = k.t /\ i.n = k.n => i = k
    BY <1>1, <1>5 DEF FacToken
  <2> QED
    BY <1>7, <1>9, <2>1 DEF FacSpent
<1>12. {f, m} \in SUBSET FacMark /\ \A y \in {f, m} : ~FacSpent(y)
  BY <1>9, <1>10, <1>11
<1>13. PICK h : h = Factor!Accept(hist, {f, m})
  OBVIOUS
<1>14. /\ h \in FacHist /\ h.taken = hist.taken \cup {f, m} /\ h.again = {} /\ h.confirmed = hist.confirmed
       /\ h.overlap = hist.overlap /\ h.proved = hist.proved
  BY <1>12, <1>13, FacTakes
<1>15. PICK P \in SUBSET Txns : P = hist.proved \cup {k.t}
  BY <1>1, <1>6, FacParts
<1>16. hist' = [h EXCEPT !.proved = P]
  <2>1. hist' = [h EXCEPT !.proved = @ \cup {k.t}]
    BY <1>2, <1>4, <1>8, <1>13 DEF Factor!CommitVerify
  <2> QED
    BY <1>14, <1>15, <2>1
<1>17. /\ hist' \in FacHist /\ hist'.taken = hist.taken \cup {f, m} /\ hist'.again = {}
       /\ hist'.confirmed = hist.confirmed
       /\ hist'.overlap = hist.overlap /\ hist'.proved = P
  BY <1>14, <1>16 DEF FacHist
<1>18. PICK codes \in SUBSET Nat, used \in SUBSET FacToken, last \in Nat :
         /\ codes = (IF f.kind = "backup" THEN db.codes \ {f.n} ELSE db.codes) /\ used = db.used \cup {k}
         /\ last = (IF f.kind = "totp" THEN f.n ELSE db.totp.last)
  BY <1>1, <1>5, <1>6
<1>19. PICK totp : totp = [db.totp EXCEPT !.last = last]
  OBVIOUS
<1>20. totp \in FacTotp /\ totp.last = last /\ totp.on = db.totp.on /\ totp.secret = db.totp.secret
  BY <1>1, <1>19 DEF FacTotp
<1>21. db' = [db EXCEPT !.codes = codes, !.used = used, !.totp = totp]
  <2>1. db' = [Factor!SpendFactor(db, f) EXCEPT !.used = @ \cup {k}, !.totp.last = IF f.kind = "totp" THEN f.n ELSE @]
    BY <1>2, <1>4 DEF Factor!CommitVerify
  <2>2. Factor!SpendFactor(db, f) = [db EXCEPT !.codes = codes]
    BY <1>18 DEF Factor!SpendFactor
  <2>3. PICK e : e = [db EXCEPT !.codes = codes]
    OBVIOUS
  <2>4. e \in FacDb /\ e.used = db.used /\ e.totp = db.totp
    BY <1>1, <2>3 DEF FacDb
  <2>5. db' = [e EXCEPT !.used = used, !.totp = totp]
    BY <1>18, <1>19, <2>1, <2>2, <2>3, <2>4 DEF FacDb
  <2> QED
    BY <2>3, <2>5
<1>22. db' \in FacDb
  <2>1. [db EXCEPT !.codes = codes, !.used = used, !.totp = totp] \in FacDb
    BY <1>1, <1>20, FacFits4, Zenon
  <2> QED
    BY <1>21, <2>1, Zenon
<1>23. /\ db'.totp = totp /\ db'.codes = codes /\ db'.made = db.made /\ db'.setup = db.setup /\ db'.used = used
       /\ db'.totpOk = db.totpOk /\ db'.mailed = db.mailed /\ db'.proofs = db.proofs /\ db'.txns = db.txns
  BY <1>1, <1>21 DEF FacDb
<1>24. FacSpent(f)'
  <2>1. f.kind = "backup" => f.n <= db'.made /\ f.n \notin db'.codes
    BY <1>1, <1>7, <1>18, <1>23 DEF FacOnce
  <2>2. f.kind = "totp" => f.n \in 1..3 /\ f.n <= db'.totp.last
    BY <1>6, <1>18, <1>20, <1>23
  <2> QED
    BY <1>6, <2>1, <2>2 DEF FacSpent
<1>25. FacSpent(m)'
  BY <1>9, <1>18, <1>23 DEF FacSpent
<1>26. \A y \in {f, m} : FacSpent(y)'
  BY <1>24, <1>25
<1>27. db'.totp.on = db.totp.on /\ db'.totp.secret = db.totp.secret /\ db.totp.last <= db'.totp.last
  BY <1>1, <1>6, <1>7, <1>18, <1>20, <1>23
<1>28. /\ db'.codes \subseteq db.codes /\ db'.proofs \subseteq db.proofs /\ db.used \subseteq db'.used
       /\ \A t \in Txns : db'.txns[t] = "consumed" => db.txns[t] = "consumed"
  BY <1>18, <1>23
<1>29. hist.proved \subseteq hist'.proved /\ \A i \in db'.used : i \in db.used \/ i.t \in hist'.proved
  BY <1>15, <1>17, <1>18, <1>23
<1>30. tx' = [tx EXCEPT ![c] = Factor!Idle]
  BY DEF Factor!CommitVerify, Factor!Finish, Factor!Continue
<1>31. tx' \in [Conns -> FacRuns] /\ \A d \in Conns : tx'[d] = tx[d] \/ tx'[d].op = "idle"
  BY <1>1, <1>30, FacRests, FacMove
<1> QED
  BY <1>12, <1>17, <1>22, <1>23, <1>26, <1>27, <1>28, <1>29, <1>31, FacHolds

\* Who commits beside another one leaves a mark.
LEMMA FacOverlaps ==
  ASSUME NEW c \in Conns, NEW h \in FacHist, NEW g, g = Factor!Overlap(h, c)
  PROVE  /\ g \in FacHist /\ g.taken = h.taken /\ g.again = h.again /\ g.confirmed = h.confirmed
         /\ g.proved = h.proved
         /\ h.overlap => g.overlap
         /\ \A d \in Conns : d # c /\ Factor!Alters(d) => g.overlap
<1>1. PICK o \in BOOLEAN : o = (h.overlap \/ \E d \in Conns \ {c} : Factor!Alters(d))
  OBVIOUS
<1>2. g = [h EXCEPT !.overlap = o]
  BY <1>1 DEF Factor!Overlap
<1>3. /\ g \in FacHist /\ g.taken = h.taken /\ g.again = h.again /\ g.confirmed = h.confirmed /\ g.proved = h.proved
      /\ g.overlap = o
  BY <1>2 DEF FacHist
<1> QED
  BY <1>1, <1>3

\* A commit that changes the factor.
LEMMA FacAlters ==
  ASSUME FacInv, NEW c \in Conns, tx' = [tx EXCEPT ![c] = Factor!Idle], db' \in FacDb, hist' \in FacHist,
         hist'.again = {}, hist'.proved = hist.proved, hist.overlap => hist'.overlap,
         \A d \in Conns : d # c /\ Factor!Alters(d) => hist'.overlap, Factor!SecretConfirmed',
         db.made <= db'.made, \A k \in db'.codes : k <= db'.made /\ (k \in db.codes \/ k > db.made),
         db'.proofs = db.proofs, db'.mailed = db.mailed, db'.used = db.used, db'.totpOk = db.totpOk,
             db'.txns = db.txns,
         \A s \in SetupTokens : db.setup[s] = "done" /\ s # Factor!NoToken => db'.setup[s] = "done",
         \A x \in hist'.taken : (x \in hist.taken /\ (x.kind = "totp" => db.totp.last <= db'.totp.last))
             \/ FacSpent(x)'
  PROVE  FacInv'
<1>1. FacTyped /\ FacOnce /\ FacTxs /\ db.mailed \in Nat
  BY FacParts
<1>2. tx' \in [Conns -> FacRuns] /\ tx'[c] = Factor!Idle /\ \A d \in Conns : d # c => tx'[d] = tx[d]
  BY <1>1, FacRests, FacMove
<1>3. ASSUME NEW d \in Conns PROVE FacSeen(tx[d])'
  <2>1. CASE d = c
    BY <1>2, <2>1, FacRests DEF FacSeen
  <2>2. CASE d # c
    BY <1>1, <1>2, <2>2 DEF FacTxs, FacSeen, Factor!Alters
  <2> QED
    BY <2>1, <2>2
<1>4. \A p \in db'.proofs : p.n <= db'.mailed /\ (p \in db.proofs \/ p.n > db.mailed)
  BY <1>1 DEF FacOnce
<1>5. db.mailed <= db'.mailed
  BY <1>1
<1>6. /\ db.used \subseteq db'.used /\ hist.proved \subseteq hist'.proved
      /\ \A k \in db'.used : k \in db.used \/ k.t \in hist'.proved
      /\ \A t \in db'.totpOk : t \in db.totpOk \/ t \in hist'.proved
      /\ \A t \in Txns : db'.txns[t] = "consumed" => db.txns[t] = "consumed" \/ t \in hist'.proved
  OBVIOUS
<1> QED
  BY <1>2, <1>3, <1>4, <1>5, <1>6, FacSteps

LEMMA FacFits5 ==
  ASSUME db \in FacDb, NEW totp \in FacTotp, NEW made \in Nat, NEW codes \in SUBSET Nat,
         NEW setup \in [SetupTokens -> {"free", "begun", "done"}]
  PROVE  [db EXCEPT !.totp = totp, !.codes = codes, !.made = made, !.setup = setup] \in FacDb
BY DEF FacDb

LEMMA FacBegins == ASSUME FacInv, NEW c \in Conns, Factor!CommitBegin(c) PROVE FacInv'
<1>1. /\ FacTyped /\ FacOnce /\ FacTxs /\ db \in FacDb /\ hist \in FacHist /\ hist.again = {}
      /\ db.codes \subseteq Nat
      /\ db.totp \in FacTotp /\ db.made \in Nat /\ db.setup \in [SetupTokens -> {"free", "begun", "done"}]
      /\ db.totp.last \in Nat
  BY FacParts
<1>2. PICK r : r = tx[c]
  OBVIOUS
<1>3. r \in FacBegin /\ r.op = "begin" /\ FacSeen(r)
  BY <1>1, <1>2, FacRun DEF Factor!CommitBegin, FacTxs
<1>4. r.s # Factor!NoToken => db.setup[r.s] = "free"
  BY <1>2 DEF Factor!CommitBegin
<1>5. PICK made \in Nat : made = db.made + 1
  BY <1>1
<1>6. PICK totp : totp = [db.totp EXCEPT !.secret = made, !.row = TRUE]
  OBVIOUS
<1>7. totp \in FacTotp /\ totp.on = db.totp.on /\ totp.last = db.totp.last
  BY <1>1, <1>6 DEF FacTotp
<1>8. PICK setup : setup = [s \in SetupTokens |-> IF s = r.s THEN "begun" ELSE db.setup[s]]
  OBVIOUS
<1>9. /\ setup \in [SetupTokens -> {"free", "begun", "done"}]
      /\ \A s \in SetupTokens : db.setup[s] = "done" /\ s # Factor!NoToken => setup[s] = "done"
  BY <1>1, <1>4, <1>8
<1>10. db' = [db EXCEPT !.totp = totp, !.made = made, !.setup = setup]
  <2>1. db' = [db EXCEPT !.totp.secret = db.made + 1, !.totp.row = TRUE, !.made = @ + 1,
                         !.setup = [s \in SetupTokens |-> IF s = r.s THEN "begun" ELSE @[s]]]
    BY <1>2 DEF Factor!CommitBegin
  <2> QED
    BY <1>1, <1>5, <1>6, <1>8, <2>1 DEF FacDb, FacTotp
<1>11. db' \in FacDb
  BY <1>1, <1>5, <1>7, <1>9, <1>10 DEF FacDb
<1>12. /\ db'.totp = totp /\ db'.codes = db.codes /\ db'.made = made /\ db'.setup = setup /\ db'.used = db.used
       /\ db'.totpOk = db.totpOk /\ db'.mailed = db.mailed /\ db'.proofs = db.proofs /\ db'.txns = db.txns
  BY <1>1, <1>10 DEF FacDb
<1>13. hist' = Factor!Overlap(hist, c) /\ tx' = [tx EXCEPT ![c] = Factor!Idle]
  BY DEF Factor!CommitBegin, Factor!Finish, Factor!Continue
<1>14. /\ hist' \in FacHist /\ hist'.taken = hist.taken /\ hist'.again = {} /\ hist'.proved = hist.proved
       /\ hist.overlap => hist'.overlap
       /\ \A d \in Conns : d # c /\ Factor!Alters(d) => hist'.overlap
  BY <1>1, <1>13, FacOverlaps
<1>15. Factor!SecretConfirmed'
  BY <1>3, <1>7, <1>12, <1>14 DEF Factor!SecretConfirmed, FacSeen
<1>16. db.made <= db'.made /\ \A k \in db'.codes : k <= db'.made /\ (k \in db.codes \/ k > db.made)
  BY <1>1, <1>5, <1>12 DEF FacOnce
<1>17. \A s \in SetupTokens : db.setup[s] = "done" /\ s # Factor!NoToken => db'.setup[s] = "done"
  BY <1>9, <1>12
<1>18. \A x \in hist'.taken : (x \in hist.taken /\ (x.kind = "totp" => db.totp.last <= db'.totp.last)) \/ FacSpent(x)'
  BY <1>1, <1>7, <1>12, <1>14
<1> QED
  BY <1>11, <1>12, <1>13, <1>14, <1>15, <1>16, <1>17, <1>18, FacAlters

LEMMA FacCompletes == ASSUME FacInv, NEW c \in Conns, Factor!CommitComplete(c) PROVE FacInv'
<1>1. /\ FacTyped /\ FacOnce /\ FacTxs /\ db \in FacDb /\ hist \in FacHist /\ hist.again = {}
      /\ db.codes \subseteq Nat
      /\ db.totp \in FacTotp /\ db.made \in Nat /\ db.setup \in [SetupTokens -> {"free", "begun", "done"}]
      /\ db.totp.last \in Nat
  BY FacParts
<1>2. PICK r : r = tx[c]
  OBVIOUS
<1>3. r \in FacComplete /\ r.op = "complete" /\ FacSeen(r)
  BY <1>1, <1>2, FacRun DEF Factor!CommitComplete, FacTxs
<1>4. r.s \in SetupTokens \cup {Factor!NoToken} /\ r.secret \in Nat
        /\ (r.s # Factor!NoToken => db.setup[r.s] = "begun")
  BY <1>2, <1>3 DEF Factor!CommitComplete, FacComplete
<1>5. PICK made \in Nat, codes \in SUBSET Nat : made = db.made + 1 /\ codes = db.codes \cup {db.made + 1}
  <2>1. PICK made \in Nat : made = db.made + 1
    BY <1>1
  <2>2. db.codes \cup {made} \in SUBSET Nat
    BY <1>1
  <2> QED
    BY <2>1, <2>2
<1>6. PICK totp : totp = [db.totp EXCEPT !.on = TRUE]
  OBVIOUS
<1>7. totp \in FacTotp /\ totp.secret = db.totp.secret /\ totp.last = db.totp.last
  BY <1>1, <1>6 DEF FacTotp
<1>8. PICK setup : setup = [s \in SetupTokens |-> IF s = r.s THEN "done" ELSE db.setup[s]]
  OBVIOUS
<1>9. /\ setup \in [SetupTokens -> {"free", "begun", "done"}]
      /\ \A s \in SetupTokens : db.setup[s] = "done" \/ s = r.s => setup[s] = "done"
  BY <1>1, <1>8
<1>10. db' = [db EXCEPT !.totp = totp, !.codes = codes, !.made = made, !.setup = setup]
  <2>1. db' = [db EXCEPT !.totp.on = TRUE, !.codes = @ \cup {db.made + 1}, !.made = @ + 1,
                         !.setup = [s \in SetupTokens |-> IF s = r.s THEN "done" ELSE @[s]]]
    BY <1>2 DEF Factor!CommitComplete
  <2> QED
    BY <1>1, <1>5, <1>6, <1>8, <2>1 DEF FacDb, FacTotp
<1>11. db' \in FacDb
  <2>1. [db EXCEPT !.totp = totp, !.codes = codes, !.made = made, !.setup = setup] \in FacDb
    BY <1>1, <1>7, <1>9, FacFits5, Zenon
  <2> QED
    BY <1>10, <2>1, Zenon
<1>12. /\ db'.totp = totp /\ db'.codes = codes /\ db'.made = made /\ db'.setup = setup /\ db'.used = db.used
       /\ db'.totpOk = db.totpOk /\ db'.mailed = db.mailed /\ db'.proofs = db.proofs /\ db'.txns = db.txns
  BY <1>1, <1>10 DEF FacDb
<1>13. PICK X : X = (IF r.s = Factor!NoToken THEN {} ELSE {Factor!Setup(r.s)})
  OBVIOUS
<1>14. X \in SUBSET FacMark /\ \A x \in X : ~FacSpent(x) /\ FacSpent(x)'
  <2>1. CASE r.s = Factor!NoToken
    BY <1>13, <2>1
  <2>2. CASE r.s # Factor!NoToken
    <3>1. r.s \in SetupTokens /\ db.setup[r.s] = "begun" /\ db'.setup[r.s] = "done"
      BY <1>4, <1>9, <1>12, <2>2
    <3>2. PICK x : x = Factor!Setup(r.s)
      OBVIOUS
    <3>3. x \in FacMark /\ x.kind = "setup" /\ x.t = r.s
      BY <3>1, <3>2 DEF FacMark, Factor!Setup
    <3>4. ~FacSpent(x)
      BY <3>1, <3>3 DEF FacSpent
    <3>5. FacSpent(x)'
      BY <2>2, <3>1, <3>3 DEF FacSpent
    <3>6. X = {x}
      BY <1>13, <2>2, <3>2
    <3> QED
      BY <3>3, <3>4, <3>5, <3>6
  <2> QED
    BY <2>1, <2>2
<1>15. PICK h : h = Factor!Accept(hist, X)
  OBVIOUS
<1>16. h \in FacHist /\ h.taken = hist.taken \cup X /\ h.again = {} /\ h.confirmed = hist.confirmed
         /\ h.overlap = hist.overlap
       /\ h.proved = hist.proved
  BY <1>14, <1>15, FacTakes
<1>17. PICK C \in SUBSET Nat : C = hist.confirmed \cup {r.secret}
  BY <1>1, <1>4 DEF FacHist
<1>18. PICK g : g = [h EXCEPT !.confirmed = C]
  OBVIOUS
<1>19. g \in FacHist /\ g.taken = hist.taken \cup X /\ g.again = {} /\ g.confirmed = C /\ g.overlap = hist.overlap
       /\ g.proved = hist.proved
  BY <1>16, <1>18 DEF FacHist
<1>20. hist' = Factor!Overlap(g, c)
  <2>1. hist' = Factor!Overlap([h EXCEPT !.confirmed = @ \cup {r.secret}], c)
    BY <1>2, <1>13, <1>15 DEF Factor!CommitComplete
  <2> QED
    BY <1>16, <1>17, <1>18, <2>1
<1>21. /\ hist' \in FacHist /\ hist'.taken = hist.taken \cup X /\ hist'.again = {} /\ hist'.confirmed = C
       /\ hist'.proved = hist.proved
       /\ hist.overlap => hist'.overlap
       /\ \A d \in Conns : d # c /\ Factor!Alters(d) => hist'.overlap
  BY <1>19, <1>20, FacOverlaps
<1>22. Factor!SecretConfirmed'
  BY <1>3, <1>7, <1>12, <1>17, <1>21 DEF Factor!SecretConfirmed, FacSeen
<1>23. db.made <= db'.made /\ \A k \in db'.codes : k <= db'.made /\ (k \in db.codes \/ k > db.made)
  BY <1>1, <1>5, <1>12 DEF FacOnce
<1>24. \A s \in SetupTokens : db.setup[s] = "done" /\ s # Factor!NoToken => db'.setup[s] = "done"
  BY <1>9, <1>12
<1>25. \A x \in hist'.taken : (x \in hist.taken /\ (x.kind = "totp" => db.totp.last <= db'.totp.last)) \/ FacSpent(x)'
  BY <1>1, <1>7, <1>12, <1>14, <1>21
<1>26. tx' = [tx EXCEPT ![c] = Factor!Idle]
  BY DEF Factor!CommitComplete, Factor!Finish, Factor!Continue
<1> QED
  BY <1>11, <1>12, <1>21, <1>22, <1>23, <1>24, <1>25, <1>26, FacAlters

LEMMA FacFits6 ==
  ASSUME db \in FacDb, NEW totp \in FacTotp, NEW codes \in SUBSET Nat, NEW level \in {"normal", "admin"}
  PROVE  [db EXCEPT !.totp = totp, !.codes = codes, !.level = level] \in FacDb
BY DEF FacDb

LEMMA FacDisables == ASSUME FacInv, NEW c \in Conns, Factor!CommitDisable(c) PROVE FacInv'
<1>1. /\ FacTyped /\ FacOnce /\ db \in FacDb /\ hist \in FacHist /\ hist.taken \subseteq FacMark
      /\ db.codes \subseteq Nat
      /\ db.made \in Nat /\ db.totp.last \in Nat
  BY FacParts
<1>2. PICK r : r = tx[c]
  OBVIOUS
<1>3. r \in FacDisable
  BY <1>1, <1>2, FacRun DEF Factor!CommitDisable
<1>4. PICK f : f = r.f
  OBVIOUS
<1>5. f \in FacFactor /\ f.kind \in {"backup", "totp"} /\ f.n \in Nat /\ (f.kind = "backup" => f.n \in db.codes)
  BY <1>2, <1>3, <1>4 DEF FacDisable, FacFactor, Factor!CommitDisable, Factor!Usable, Factor!Unused
<1>6. PICK X : X = Factor!FactorTaken(f)
  OBVIOUS
<1>7. X \in SUBSET FacMark /\ \A x \in X : x = f /\ f.kind = "backup"
  BY <1>5, <1>6 DEF Factor!FactorTaken, FacMark, FacFactor
<1>8. \A x \in X : ~FacSpent(x)
  BY <1>5, <1>7 DEF FacSpent
<1>9. PICK h : h = Factor!Accept(hist, X)
  OBVIOUS
<1>10. h \in FacHist /\ h.taken = hist.taken \cup X /\ h.again = {} /\ h.overlap = hist.overlap
         /\ h.proved = hist.proved
  BY <1>7, <1>8, <1>9, FacTakes
<1>11. PICK T \in SUBSET FacMark : T = (hist.taken \cup X) \ Factor!Forget(hist.taken \cup X)
  BY <1>1, <1>7
<1>12. PICK g : g = [h EXCEPT !.taken = T]
  OBVIOUS
<1>13. g \in FacHist /\ g.taken = T /\ g.again = {} /\ g.overlap = hist.overlap /\ g.proved = hist.proved
  BY <1>10, <1>12 DEF FacHist
<1>14. hist' = Factor!Overlap(g, c)
  <2>1. hist' = Factor!Overlap([h EXCEPT !.taken = @ \ Factor!Forget(@)], c)
    BY <1>2, <1>4, <1>6, <1>9 DEF Factor!CommitDisable
  <2>2. [h EXCEPT !.taken = @ \ Factor!Forget(@)] = g
    BY <1>10, <1>11, <1>12
  <2> QED
    BY <2>1, <2>2
<1>15. /\ hist' \in FacHist /\ hist'.taken = T /\ hist'.again = {} /\ hist'.proved = hist.proved
       /\ hist.overlap => hist'.overlap
       /\ \A d \in Conns : d # c /\ Factor!Alters(d) => hist'.overlap
  BY <1>13, <1>14, FacOverlaps
<1>16. PICK last \in Nat : last = IF r.last = 0 THEN db.totp.last ELSE 0
  BY <1>1
<1>17. PICK totp, S : totp = [row |-> TRUE, on |-> FALSE, secret |-> 0, last |-> last] /\ S = {}
  OBVIOUS
<1>18. totp \in FacTotp /\ ~totp.on /\ S \in SUBSET Nat
  BY <1>17 DEF FacTotp
<1>19. db' = [db EXCEPT !.totp = totp, !.codes = S, !.level = "normal"]
  BY <1>2, <1>16, <1>17 DEF Factor!CommitDisable
<1>20. db' \in FacDb
  <2>1. \A level \in {"normal", "admin"} : [db EXCEPT !.totp = totp, !.codes = S, !.level = level] \in FacDb
    BY <1>1, <1>18, FacFits6, Zenon
  <2>2. [db EXCEPT !.totp = totp, !.codes = S, !.level = "normal"] \in FacDb
    BY <2>1, Zenon
  <2> QED
    BY <1>19, <2>2, Zenon
<1>21. /\ db'.totp = totp /\ db'.codes = S /\ db'.made = db.made /\ db'.setup = db.setup /\ db'.used = db.used
       /\ db'.totpOk = db.totpOk /\ db'.mailed = db.mailed /\ db'.proofs = db.proofs /\ db'.txns = db.txns
  BY <1>1, <1>19 DEF FacDb
<1>22. Factor!SecretConfirmed'
  BY <1>18, <1>21 DEF Factor!SecretConfirmed
<1>23. db.made <= db'.made /\ \A k \in db'.codes : k <= db'.made /\ (k \in db.codes \/ k > db.made)
  BY <1>1, <1>17, <1>21
<1>24. \A s \in SetupTokens : db.setup[s] = "done" /\ s # Factor!NoToken => db'.setup[s] = "done"
  BY <1>21
<1>25. ASSUME NEW x \in hist'.taken
       PROVE  (x \in hist.taken /\ (x.kind = "totp" => db.totp.last <= db'.totp.last)) \/ FacSpent(x)'
  <2>1. x \in hist.taken \cup X /\ x \notin Factor!Forget(hist.taken \cup X)
    BY <1>11, <1>15
  <2>2. CASE x \in X
    <3>1. x.kind = "backup" /\ x.n <= db'.made /\ x.n \notin db'.codes
      BY <1>1, <1>5, <1>7, <1>17, <1>21, <2>2 DEF FacOnce
    <3> QED
      BY <3>1 DEF FacSpent
  <2>3. CASE x \in hist.taken
    <3>1. x \in FacMark /\ FacSpent(x)
      BY <1>1, <2>3 DEF FacOnce
    <3>2. ASSUME x.kind = "totp" PROVE FALSE
      <4>1. x \in [kind : {"totp"}, n : 1..3]
        BY <3>1, <3>2 DEF FacMark, FacSpent
      <4> QED
        BY <2>1, <4>1 DEF Factor!Forget
    <3> QED
      BY <2>3, <3>2
  <2> QED
    BY <2>1, <2>2, <2>3
<1>26. tx' = [tx EXCEPT ![c] = Factor!Idle]
  BY DEF Factor!CommitDisable, Factor!Finish, Factor!Continue
<1> QED
  BY <1>15, <1>20, <1>21, <1>22, <1>23, <1>24, <1>25, <1>26, FacAlters

LEMMA FacInit == Factor!Init => FacInv
<1> SUFFICES ASSUME Factor!Init PROVE FacInv
  OBVIOUS
<1>1. PICK u \in Factor!User :
         db = [level |-> u.level, now |-> 1,
               totp |-> [row |-> u.on, secret |-> IF u.on THEN 1 ELSE 0, on |-> u.on, last |-> 0],
               codes |-> IF u.on THEN {1} ELSE {}, made |-> 1,
               setup |-> [s \in SetupTokens |-> "free"],
               proofs |-> {[kind |-> "code", n |-> k] : k \in 1..2}, mailed |-> 2, txns |-> [t \in Txns |-> "none"],
               contact |-> {}, totpOk |-> {}, tokens |-> {}, used |-> {}, resets |-> 0]
  BY DEF Factor!Init
<1>2. /\ tx = [c \in Conns |-> Factor!Idle]
      /\ hist = [taken |-> {}, again |-> {}, confirmed |-> {1}, overlap |-> FALSE, proved |-> {}]
  BY DEF Factor!Init, Factor!Resting
<1>3. PICK level \in {"normal", "admin"}, on \in BOOLEAN : level = u.level /\ on = u.on
  BY <1>1 DEF Factor!User
<1>4. PICK secret \in Nat, codes \in SUBSET Nat :
        secret = (IF on THEN 1 ELSE 0) /\ codes = (IF on THEN {1} ELSE {})
  <2>1. \E n \in Nat : n = IF on THEN 1 ELSE 0
    OBVIOUS
  <2>2. (IF on THEN {1} ELSE {}) \in SUBSET Nat
    OBVIOUS
  <2> QED
    BY <2>1, <2>2
<1>5. PICK proofs : proofs = {[kind |-> "code", n |-> k] : k \in 1..2}
  OBVIOUS
<1>6. proofs \in SUBSET FacProof /\ \A p \in proofs : p.n <= 2
  BY <1>5 DEF FacProof
<1>7. PICK totp : totp = [row |-> on, secret |-> secret, on |-> on, last |-> 0]
  OBVIOUS
<1>8. totp \in FacTotp /\ totp.on = on /\ totp.secret = secret
  BY <1>3, <1>4, <1>7 DEF FacTotp
<1>9. PICK setup, txns : setup = [s \in SetupTokens |-> "free"] /\ txns = [t \in Txns |-> "none"]
  OBVIOUS
<1>10. setup \in [SetupTokens -> {"free", "begun", "done"}]
         /\ txns \in [Txns -> {"none", "open", "consumed", "expired"}]
  BY <1>9
<1>11. db = [level |-> level, now |-> 1, totp |-> totp, codes |-> codes, made |-> 1, setup |-> setup, proofs |-> proofs,
             mailed |-> 2, txns |-> txns, contact |-> {}, totpOk |-> {}, tokens |-> {}, used |-> {}, resets |-> 0]
  BY <1>1, <1>3, <1>4, <1>5, <1>7, <1>9
<1>12. db \in FacDb
  BY <1>4, <1>6, <1>8, <1>10, <1>11 DEF FacDb
<1>13. /\ db.totp = totp /\ db.codes = codes /\ db.made = 1 /\ db.proofs = proofs /\ db.mailed = 2 /\ db.txns = txns
       /\ db.totpOk = {} /\ db.used = {}
  BY <1>11
<1>14. hist \in FacHist
  BY <1>2 DEF FacHist
<1>15. FacTyped
  BY <1>2, <1>12, <1>14, FacRests DEF FacTyped
<1>16. FacOnce
  BY <1>2, <1>4, <1>6, <1>13 DEF FacOnce
<1>17. FacShown
  BY <1>9, <1>13 DEF FacShown, Factor!FactorShown
<1>18. FacTxs
  BY <1>2, FacRests DEF FacTxs, FacSeen
<1>19. Factor!SecretConfirmed
  BY <1>2, <1>4, <1>8, <1>13 DEF Factor!SecretConfirmed
<1> QED
  BY <1>15, <1>16, <1>17, <1>18, <1>19 DEF FacInv

LEMMA FacNext == FacInv /\ Factor!Next => FacInv'
<1> SUFFICES ASSUME FacInv, Factor!Next PROVE FacInv'
  OBVIOUS
<1>1. ASSUME NEW c \in Conns,
             \/ \E s \in SetupTokens \cup {Factor!NoToken} : Factor!SetupBegin(c, s) \/ Factor!SetupComplete(c, s)
             \/ \E f \in Factor!Factors : Factor!Disable(c, f)
             \/ \E p \in db.proofs, t \in Txns : Factor!Recover(c, p, t)
             \/ \E k \in db.tokens, f \in Factor!Factors : Factor!Verify(c, k, f)
             \/ Factor!Fail(c)
      PROVE  FacInv'
  BY <1>1, FacOpens
<1>2. CASE \/ \E c \in Conns, kind \in {"code", "link"} : Factor!RequestProof(c, kind)
           \/ \E c \in Conns, t \in Txns : Factor!AdminBegin(c, t)
  BY <1>2, FacProofs
<1>3. CASE \/ \E c \in Conns, k \in db.tokens : Factor!VerifyTotp(c, k)
           \/ \E c \in Conns, t \in Txns : Factor!RecoverComplete(c, t)
           \/ \E t \in Txns : Factor!ExpireTxn(t)
           \/ Factor!Tick
  BY <1>3, FacGoes
<1>4. ASSUME NEW c \in Conns,
             \/ \E k \in 1..db.made : Factor!StepUp(c, k)
             \/ \E t \in Txns : Factor!VerifyContact(c, t)
             \/ Factor!CommitBegin(c) \/ Factor!CommitComplete(c) \/ Factor!CommitDisable(c)
             \/ Factor!CommitRecover(c) \/ Factor!CommitVerify(c)
      PROVE  FacInv'
  BY <1>4, FacStepUps, FacContacts, FacBegins, FacCompletes, FacDisables, FacRecovers, FacVerifies
<1> QED
  BY <1>1, <1>2, <1>3, <1>4 DEF Factor!Next

LEMMA FacStays == FacInv /\ UNCHANGED <<db, tx, hist, left>> => FacInv'
<1> SUFFICES ASSUME FacInv, UNCHANGED <<db, tx, hist, left>> PROVE FacInv'
  OBVIOUS
<1>1. FacTyped' /\ FacOnce'
  BY DEF FacInv, FacTyped, FacOnce, FacSpent
<1>2. FacShown' /\ FacTxs' /\ Factor!SecretConfirmed'
  BY DEF FacInv, FacShown, Factor!FactorShown, FacTxs, FacSeen, Factor!SecretConfirmed
<1> QED
  BY <1>1, <1>2 DEF FacInv

LEMMA FacKept == FacInv => Factor!FactorSound
BY DEF FacInv, FacOnce, FacShown, Factor!FactorSound, Factor!AcceptedOnce

-----------------------------------------------------------------------------
(* The run of one component                                                *)

\* A role change ends the sessions signed before it, what is in force stays within
\* the constraints, a logout lasts, a token has one successor and a second factor is
\* earned: auth/admin_session.py, auth/admin_router.py, auth/service_roles.py,
\* auth/token_revocation.py, app/modules/rbac/service.py.
THEOREM AdminCorrect == Spec => []AdminSound
<1> DEFINE Inv == focus = "AdminSessions" => AdmInv
<1>1. Init => Inv
  BY AdmInit DEF Init
<1>2. Inv /\ [Next]_vars => Inv'
  <2> SUFFICES ASSUME Inv, [Next]_vars, focus' = "AdminSessions" PROVE AdmInv'
    OBVIOUS
  <2>1. CASE UNCHANGED vars
    BY <2>1, AdmStays DEF vars
  <2>2. CASE Next
    <3>1. AdmInv /\ Admin!Next
      BY <2>2 DEF Next, On, NextSecondFactor, NextSignIn, NextIdWhitelist, NextAdminSessions, NextAuthSeam,
                  NextUserDim, NextStartup, NextReadCache, NextAdminOps, NextBotMedia, NextLoginWays, NextReadiness
    <3> QED
      BY <3>1, AdmNext
  <2> QED
    BY <2>1, <2>2
<1>3. Inv => AdminSound
  BY AdmKept DEF AdminSound
<1> QED
  BY <1>1, <1>2, <1>3, PTL DEF Spec

\* A mailed proof and a challenge are taken once, a session belongs to the account
\* of its proof, accounts share no name or address, the count of a passkey is the
\* highest accepted (auth/service_auth.py, auth/service_passkey.py), and who has an
\* address or a GitHub account keeps a way to sign in (auth/router_settings.py).
THEOREM SignInCorrect == Spec => []SignInSound
<1> DEFINE Inv == (focus = "SignIn" => SignInv) /\ (focus = "LoginWays" => WaysInv)
<1>1. Init => Inv
  BY SignInit, WaysInit DEF Init
<1>2. Inv /\ [Next]_vars => Inv'
  <2>1. ASSUME Inv, [Next]_vars, focus' = "SignIn" PROVE SignInv'
    <3>1. CASE UNCHANGED vars
      BY <2>1, <3>1, SignStays DEF vars
    <3>2. CASE Next
      <4>1. SignInv /\ Login!Next
        BY <2>1, <3>2 DEF Next, On, NextSecondFactor, NextSignIn, NextIdWhitelist, NextAdminSessions, NextAuthSeam,
                  NextUserDim, NextStartup, NextReadCache, NextAdminOps, NextBotMedia, NextLoginWays, NextReadiness
      <4> QED
        BY <4>1, SignNext
    <3> QED
      BY <2>1, <3>1, <3>2
  <2>2. ASSUME Inv, [Next]_vars, focus' = "LoginWays" PROVE WaysInv'
    <3>1. CASE UNCHANGED vars
      BY <2>2, <3>1, WaysStays DEF vars
    <3>2. CASE Next
      <4>1. WaysInv /\ Ways!Next
        BY <2>2, <3>2 DEF Next, On, NextSecondFactor, NextSignIn, NextIdWhitelist, NextAdminSessions, NextAuthSeam,
                  NextUserDim, NextStartup, NextReadCache, NextAdminOps, NextBotMedia, NextLoginWays, NextReadiness
      <4> QED
        BY <4>1, WaysNext
    <3> QED
      BY <2>2, <3>1, <3>2
  <2> QED
    BY <2>1, <2>2
<1>3. Inv => SignInSound
  BY SignKept, WaysKept DEF SignInSound
<1> QED
  BY <1>1, <1>2, <1>3, PTL DEF Spec

\* What is accepted once is accepted once, a recovery ends only after its second
\* factor was shown, and the factor in force is one that was confirmed, but for
\* overlapping set-ups: auth/service_2fa.py, auth/service_recovery.py.
THEOREM FactorCorrect == Spec => []FactorSound
<1> DEFINE Inv == focus = "SecondFactor" => FacInv
<1>1. Init => Inv
  BY FacInit DEF Init
<1>2. Inv /\ [Next]_vars => Inv'
  <2> SUFFICES ASSUME Inv, [Next]_vars, focus' = "SecondFactor" PROVE FacInv'
    OBVIOUS
  <2>1. CASE UNCHANGED vars
    BY <2>1, FacStays DEF vars
  <2>2. CASE Next
    <3>1. FacInv /\ Factor!Next
      BY <2>2 DEF Next, On, NextSecondFactor, NextSignIn, NextIdWhitelist, NextAdminSessions, NextAuthSeam,
                  NextUserDim, NextStartup, NextReadCache, NextAdminOps, NextBotMedia, NextLoginWays, NextReadiness
    <3> QED
      BY <3>1, FacNext
  <2> QED
    BY <2>1, <2>2
<1>3. Inv => FactorSound
  BY FacKept DEF FactorSound
<1> QED
  BY <1>1, <1>2, <1>3, PTL DEF Spec

=============================================================================

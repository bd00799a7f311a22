--------------------------- MODULE PlatformProofs ---------------------------
(***************************************************************************)
(* The seam to the identity service and what keeps a process running keep  *)
(* their promises, for any number of connections, requests, retries and    *)
(* failures.                                                               *)
(***************************************************************************)
EXTENDS MCPlatform, FiniteSetTheorems, TLAPS

-----------------------------------------------------------------------------
(* Small facts about sets and functions                                    *)

\* One member less, and one more, of a set that changed for c only.
LEMMA CountsChange ==
  ASSUME NEW S, NEW T, IsFiniteSet(S), IsFiniteSet(T), NEW c, T \ {c} = S \ {c}
  PROVE  /\ Cardinality(S) \in Nat /\ Cardinality(T) \in Nat
         /\ c \in S /\ c \notin T => Cardinality(T) = Cardinality(S) - 1
         /\ c \notin S /\ c \in T => Cardinality(T) = Cardinality(S) + 1
         /\ (c \in S <=> c \in T) => Cardinality(T) = Cardinality(S)
<1>1. Cardinality(S) \in Nat /\ Cardinality(T) \in Nat
  BY FS_CardinalityType
<1>2. CASE c \in S /\ c \notin T
  <2>1. T = S \ {c}
    BY <1>2
  <2> QED
    BY <1>1, <1>2, <2>1, FS_RemoveElement
<1>3. CASE c \notin S /\ c \in T
  <2>1. S = T \ {c}
    BY <1>3
  <2> QED
    BY <1>1, <1>3, <2>1, FS_RemoveElement
<1>4. CASE c \in S <=> c \in T
  <2>1. S = T
    BY <1>4
  <2> QED
    BY <1>1, <2>1
<1> QED
  BY <1>1, <1>2, <1>3, <1>4

\* The components count with the operator of FiniteSets.
LEMMA SameCardinality ==
  ASSUME NEW S
  PROVE  Seam!Cardinality(S) = Cardinality(S) /\ Boot!Cardinality(S) = Cardinality(S)
BY DEF Cardinality, Seam!Cardinality, Boot!Cardinality

-----------------------------------------------------------------------------
(* The seam to the auth service                                            *)

SeamKinds == {"authz", "audit", "grant", "decide", "ask"}

SeamCall ==
  {t \in [op : SeamKinds, at : {"out", "deciding", "back", "acting"}, say : {"", "active", "rejected"},
          answer : {"none", "ok", "no", "conflict", "error"}, probe : BOOLEAN] :
     t.op = "decide" => t.say # ""}

SeamDb ==
  [state : {"closed", "open", "half_open"}, failures : Nat, cooled : BOOLEAN, probing : BOOLEAN, live : BOOLEAN,
   admission : {"pending", "active", "rejected"}, raised : BOOLEAN, audits : Nat, acts : Nat, promoted : BOOLEAN]

SeamTyped ==
  /\ tx \in [Conns -> {Seam!Idle} \cup SeamCall]
  /\ db \in SeamDb
  /\ hist \in [dropped : BOOLEAN, late : BOOLEAN, overlapped : BOOLEAN, flipped : BOOLEAN]

\* The circuit has one probe, while it is half-open, and remembers it.
ProbeInCharge ==
  ~hist.late =>
    /\ \A c \in Seam!Probes : db.state = "half_open" /\ db.probing
    /\ \A c, d \in Seam!Probes : c = d

\* A call whose answer was yes, not yet acted on.
Granted(c) == tx[c] # Seam!Idle /\ tx[c].at \in {"back", "acting"} /\ tx[c].answer = "ok"
Audited == {c \in Conns : Granted(c) /\ tx[c].op = "audit"}

\* Each yes that is still to be acted on stands for what auth has committed.
AnswersCovered ==
  /\ db.acts + Cardinality(Audited) <= db.audits
  /\ \A c \in Conns : Granted(c) /\ tx[c].op = "grant" => db.raised
  /\ db.promoted => db.raised
  /\ \A c \in Conns : tx[c] # Seam!Idle /\ tx[c].at = "acting" => Granted(c) /\ ~tx[c].probe

\* One decision lies between the reading and the writing of another.
Deciding(c) == tx[c] # Seam!Idle /\ tx[c].op = "decide" /\ tx[c].at = "deciding"
StaleDecision == (\E c \in Conns : Deciding(c)) /\ db.admission # "pending" => hist.overlapped

SeamInv == SeamTyped /\ ProbeInCharge /\ Seam!ProbeUnderWay /\ AnswersCovered /\ StaleDecision /\ Seam!DecidedOnce

SeamStep(c, t) == c \in Conns /\ t \in {Seam!Idle} \cup SeamCall /\ tx' = [tx EXCEPT ![c] = t]

LEMMA SeamTx ==
  ASSUME SeamTyped, NEW c \in Conns
  PROVE  tx[c] # Seam!Idle => tx[c] \in SeamCall
BY DEF SeamTyped

\* Only the call on c may come to or leave the sets of calls.
LEMMA SeamSets ==
  ASSUME SeamTyped, NEW c, NEW t, SeamStep(c, t)
  PROVE  /\ tx' \in [Conns -> {Seam!Idle} \cup SeamCall]
         /\ tx'[c] = t /\ \A d \in Conns \ {c} : tx'[d] = tx[d]
         /\ Seam!Probes' \ {c} = Seam!Probes \ {c} /\ Audited' \ {c} = Audited \ {c}
         /\ c \in Seam!Probes' <=> t # Seam!Idle /\ t.probe
         /\ c \in Seam!Probes <=> tx[c] # Seam!Idle /\ tx[c].probe
         /\ IsFiniteSet(Audited) /\ IsFiniteSet(Audited')
<1>1. /\ tx' \in [Conns -> {Seam!Idle} \cup SeamCall]
      /\ tx'[c] = t /\ \A d \in Conns \ {c} : tx'[d] = tx[d]
  BY DEF SeamStep, SeamTyped
<1>2. Seam!Probes' \ {c} = Seam!Probes \ {c} /\ Audited' \ {c} = Audited \ {c}
  BY <1>1 DEF Seam!Probes, Seam!Busy, Audited, Granted
<1>3. Audited \subseteq Conns /\ Audited' \subseteq Conns
  BY DEF Audited
<1>4. IsFiniteSet(Audited) /\ IsFiniteSet(Audited')
  BY <1>3, FS_Subset, PlatformAssumption
<1> QED
  BY <1>1, <1>2, <1>4 DEF Seam!Probes, Seam!Busy, SeamStep

\* The books of the answers after a step of c.
LEMMA SeamBooks ==
  ASSUME SeamInv, NEW c, NEW t, SeamStep(c, t), SeamTyped',
         \/ ~(t # Seam!Idle /\ t.at \in {"back", "acting"} /\ t.answer = "ok" /\ t.op = "audit")
            /\ db'.acts = db.acts /\ db'.audits = db.audits
         \/ Granted(c) /\ tx[c].op = "audit" /\ db'.acts = db.acts /\ db'.audits = db.audits
         \/ db'.acts = db.acts /\ db'.audits = db.audits + 1
         \/ t = Seam!Idle /\ Granted(c) /\ tx[c].op = "audit" /\ db'.acts = db.acts + 1 /\ db'.audits = db.audits,
         t # Seam!Idle /\ t.at \in {"back", "acting"} /\ t.answer = "ok" /\ t.op = "grant" => db'.raised,
         t # Seam!Idle /\ t.at = "acting" => t.answer = "ok" /\ ~t.probe,
         db.raised => db'.raised, db'.promoted => db'.raised
  PROVE  AnswersCovered'
<1>1. /\ tx'[c] = t /\ \A d \in Conns \ {c} : tx'[d] = tx[d]
      /\ Audited' \ {c} = Audited \ {c} /\ IsFiniteSet(Audited) /\ IsFiniteSet(Audited')
  BY SeamSets DEF SeamInv
<1>2. \A d \in Conns \ {c} : Granted(d)' <=> Granted(d)
  BY <1>1 DEF Granted
<1>3. Granted(c)' <=> t # Seam!Idle /\ t.at \in {"back", "acting"} /\ t.answer = "ok"
  BY <1>1 DEF Granted
<1>4. c \in Conns
  BY DEF SeamStep
<1>5. /\ c \in Audited <=> Granted(c) /\ tx[c].op = "audit"
      /\ c \in Audited' <=> Granted(c)' /\ t.op = "audit"
  BY <1>1, <1>4 DEF Audited
<1>6. db'.acts + Cardinality(Audited)' <= db'.audits
  <2>1. /\ Cardinality(Audited) \in Nat /\ Cardinality(Audited') \in Nat
        /\ c \in Audited /\ c \notin Audited' => Cardinality(Audited') = Cardinality(Audited) - 1
        /\ c \notin Audited /\ c \in Audited' => Cardinality(Audited') = Cardinality(Audited) + 1
        /\ (c \in Audited <=> c \in Audited') => Cardinality(Audited') = Cardinality(Audited)
    BY <1>1, CountsChange
  <2>2. db.acts + Cardinality(Audited) <= db.audits
    BY DEF SeamInv, AnswersCovered
  <2>3. db.acts \in Nat /\ db.audits \in Nat /\ db'.acts \in Nat /\ db'.audits \in Nat
    BY DEF SeamInv, SeamTyped, SeamDb
  <2> QED
    BY <1>1, <1>3, <1>5, <2>1, <2>2, <2>3
<1>7. \A d \in Conns : Granted(d)' /\ tx'[d].op = "grant" => db'.raised
  BY <1>1, <1>2, <1>3 DEF SeamInv, AnswersCovered
<1>8. \A d \in Conns : tx'[d] # Seam!Idle /\ tx'[d].at = "acting" => Granted(d)' /\ ~tx'[d].probe
  BY <1>1, <1>2, <1>3 DEF SeamInv, AnswersCovered
<1> QED
  BY <1>6, <1>7, <1>8 DEF AnswersCovered

\* Which call is the probe after a step of c.
LEMMA SeamProbe ==
  ASSUME SeamInv, NEW c, NEW t, SeamStep(c, t),
         hist.late => hist'.late, hist.dropped => hist'.dropped,
         \* the circuit stays and so does the probe, unless it was cancelled,
         \/ /\ db'.state = db.state /\ db'.probing = db.probing
            /\ t # Seam!Idle /\ t.probe => tx[c] # Seam!Idle /\ tx[c].probe
            /\ \/ tx[c] # Seam!Idle /\ tx[c].probe => t # Seam!Idle /\ t.probe
               \/ db.state # "half_open"
               \/ hist'.dropped
         \* a probe is sent,
         \/ /\ db.state # "half_open" \/ ~db.probing
            /\ db'.state = "half_open" /\ db'.probing /\ t # Seam!Idle /\ t.probe
         \* or a result is recorded.
         \/ /\ db'.state # "half_open" /\ (t # Seam!Idle => ~t.probe)
            /\ db.state = "half_open" /\ ~(tx[c] # Seam!Idle /\ tx[c].probe) => hist'.late
  PROVE  ProbeInCharge' /\ Seam!ProbeUnderWay'
<1>1. /\ Seam!Probes' \ {c} = Seam!Probes \ {c} /\ c \in Conns
      /\ c \in Seam!Probes' <=> t # Seam!Idle /\ t.probe
      /\ c \in Seam!Probes <=> tx[c] # Seam!Idle /\ tx[c].probe
  BY SeamSets DEF SeamInv, SeamStep
<1>2. /\ ~hist.late => \A d \in Seam!Probes : db.state = "half_open" /\ db.probing
      /\ ~hist.late => \A d, e \in Seam!Probes : d = e
      /\ db.state = "half_open" => Seam!Probes # {} \/ hist.dropped
  BY DEF SeamInv, ProbeInCharge, Seam!ProbeUnderWay
<1> QED
  BY <1>1, <1>2 DEF ProbeInCharge, Seam!ProbeUnderWay

\* Decisions after a step of c.
LEMMA SeamDecision ==
  ASSUME SeamInv, NEW c, NEW t, SeamStep(c, t),
         hist'.overlapped = hist.overlapped, hist'.flipped = hist.flipped, db'.admission = db.admission,
         t # Seam!Idle /\ t.op = "decide" /\ t.at = "deciding" => db.admission = "pending" \/ Deciding(c)
  PROVE  StaleDecision' /\ Seam!DecidedOnce'
<1>1. tx'[c] = t /\ c \in Conns /\ \A d \in Conns \ {c} : tx'[d] = tx[d]
  BY SeamSets DEF SeamInv, SeamStep
<1>2. \A d \in Conns \ {c} : Deciding(d)' <=> Deciding(d)
  BY <1>1 DEF Deciding
<1>3. Deciding(c)' => db.admission = "pending" \/ Deciding(c)
  BY <1>1 DEF Deciding
<1> QED
  BY <1>1, <1>2, <1>3 DEF SeamInv, StaleDecision, Seam!DecidedOnce

\* A call is sent.
LEMMA SeamCalls ==
  ASSUME SeamInv, NEW c \in Conns, NEW k \in SeamKinds, NEW say \in {"", "active", "rejected"},
         k = "decide" => say # "",
         Seam!Call(c, k, say)
  PROVE  SeamInv'
<1> DEFINE t == [op |-> k, at |-> "out", say |-> say, answer |-> "none", probe |-> Seam!Probe]
<1>1. /\ tx[c] = Seam!Idle /\ Seam!Allow /\ db' = Seam!Allowed /\ hist' = hist
      /\ tx' = [tx EXCEPT ![c] = t]
  BY DEF Seam!Call, Seam!Begin
<1>2. t \in SeamCall /\ t # Seam!Idle
  BY DEF SeamCall, Seam!Idle, Seam!Probe
<1>3. t.at = "out" /\ t.op = k /\ (t.probe <=> db.state # "closed")
  BY DEF Seam!Probe
<1> HIDE DEF t
<1>4. SeamStep(c, t)
  BY <1>1, <1>2 DEF SeamStep
<1>5. SeamTyped' /\ db'.acts = db.acts /\ db'.audits = db.audits /\ db'.raised = db.raised
      /\ db'.promoted = db.promoted /\ db'.admission = db.admission
  BY <1>1, <1>4, SeamSets DEF SeamInv, SeamTyped, SeamDb, Seam!Allowed
<1>6. AnswersCovered'
  <2>1. ~Granted(c) /\ (db.promoted => db.raised) /\ db.acts \in Nat /\ db.audits \in Nat
    BY <1>1 DEF Granted, SeamInv, AnswersCovered, SeamTyped, SeamDb
  <2> QED
    BY <1>3, <1>4, <1>5, <2>1, SeamBooks
<1>7. ProbeInCharge' /\ Seam!ProbeUnderWay'
  <2>1. CASE db.state = "closed"
    <3>1. db' = db /\ ~t.probe
      BY <1>1, <1>3, <2>1 DEF Seam!Allowed, Seam!Probe
    <3> QED
      BY <1>1, <1>4, <2>1, <3>1, SeamProbe
  <2>2. CASE db.state # "closed"
    <3>1. db'.state = "half_open" /\ db'.probing /\ t.probe
      BY <1>1, <1>3, <2>2 DEF Seam!Allowed, Seam!Probe, SeamInv, SeamTyped, SeamDb
    <3>2. db.state # "half_open" \/ ~db.probing
      BY <1>1 DEF Seam!Allow
    <3> QED
      BY <1>1, <1>2, <1>4, <3>1, <3>2, SeamProbe
  <2> QED
    BY <2>1, <2>2
<1>8. StaleDecision' /\ Seam!DecidedOnce'
  BY <1>1, <1>3, <1>4, <1>5, SeamDecision
<1> QED
  BY <1>5, <1>6, <1>7, <1>8 DEF SeamInv

\* The answer of the service: nothing about the circuit, and a yes is what
\* the service committed.
SeamServed(c, w, a) ==
  /\ tx' = [tx EXCEPT ![c] = [tx[c] EXCEPT !.at = w, !.answer = a]]
  /\ tx[c] # Seam!Idle /\ tx[c].at \in {"out", "deciding"} /\ db' \in SeamDb
  /\ db'.state = db.state /\ db'.probing = db.probing /\ hist'.late = hist.late /\ hist'.dropped = hist.dropped
  /\ db'.acts = db.acts /\ db'.promoted = db.promoted /\ (db.raised => db'.raised)
  /\ w = "back" /\ a = "ok" /\ tx[c].op = "grant" => db'.raised
  /\ \/ db'.audits = db.audits + 1
     \/ db'.audits = db.audits /\ ~(w = "back" /\ a = "ok" /\ tx[c].op = "audit")

LEMMA SeamServes ==
  ASSUME SeamInv, NEW c \in Conns, NEW w \in {"back", "deciding"},
         NEW a \in {"none", "ok", "no", "conflict", "error"}, SeamServed(c, w, a),
             hist' \in [dropped : BOOLEAN, late : BOOLEAN, overlapped : BOOLEAN, flipped : BOOLEAN]
  PROVE  /\ SeamTyped' /\ AnswersCovered' /\ ProbeInCharge' /\ Seam!ProbeUnderWay'
         /\ tx'[c].at = w /\ \A d \in Conns \ {c} : tx'[d] = tx[d]
         /\ /\ hist' = hist /\ db'.admission = db.admission
            /\ w = "deciding" => tx[c].op = "decide" /\ db.admission = "pending"
            => StaleDecision' /\ Seam!DecidedOnce'
<1>0. tx[c] \in SeamCall
  BY SeamTx DEF SeamInv, SeamServed
<1> DEFINE t == [tx[c] EXCEPT !.at = w, !.answer = a]
<1>2. /\ t \in SeamCall /\ t # Seam!Idle /\ t.at = w /\ t.answer = a
      /\ t.op = tx[c].op /\ t.probe = tx[c].probe
  BY <1>0 DEF SeamCall, Seam!Idle
<1>3. SeamStep(c, t)
  BY <1>2 DEF SeamStep, SeamServed
<1> HIDE DEF t
<1>4. SeamTyped'
  BY <1>3, SeamSets DEF SeamInv, SeamTyped, SeamServed
<1>5. AnswersCovered'
  <2>1. ~Granted(c) /\ (db.promoted => db.raised)
    BY DEF Granted, SeamInv, AnswersCovered, SeamServed
  <2>2. w \in {"back", "deciding"}
    OBVIOUS
  <2> QED
    BY <1>2, <1>3, <1>4, <2>1, <2>2, SeamBooks DEF SeamServed
<1>6. ProbeInCharge' /\ Seam!ProbeUnderWay'
  BY <1>2, <1>3, SeamProbe DEF SeamServed
<1>7. tx'[c] = t /\ \A d \in Conns \ {c} : tx'[d] = tx[d]
  BY <1>3, SeamSets DEF SeamInv
<1>8. ASSUME hist' = hist, db'.admission = db.admission,
             w = "deciding" => tx[c].op = "decide" /\ db.admission = "pending"
      PROVE  StaleDecision' /\ Seam!DecidedOnce'
  BY <1>2, <1>3, <1>8, SeamDecision
<1> QED
  BY <1>2, <1>4, <1>5, <1>6, <1>7, <1>8

LEMMA SeamAnswers ==
  ASSUME SeamInv, NEW c \in Conns, tx[c] # Seam!Idle,
         \/ Seam!ServeAuthz(c) \/ Seam!ServeAsk(c) \/ Seam!ServeAudit(c) \/ Seam!ServeGrant(c)
         \/ Seam!ServeError(c) \/ Seam!ReadDecide(c)
  PROVE  SeamInv'
<1>0. tx[c] \in SeamCall /\ db \in SeamDb
      /\ hist \in [dropped : BOOLEAN, late : BOOLEAN, overlapped : BOOLEAN, flipped : BOOLEAN]
  BY SeamTx DEF SeamInv, SeamTyped
<1> SUFFICES \E w \in {"back", "deciding"}, a \in {"none", "ok", "no", "conflict", "error"} :
               /\ SeamServed(c, w, a) /\ hist' = hist /\ db'.admission = db.admission
               /\ w = "deciding" => tx[c].op = "decide" /\ db.admission = "pending"
  BY <1>0, SeamServes DEF SeamInv
<1>1. CASE Seam!ServeAuthz(c) \/ Seam!ServeAsk(c) \/ Seam!ServeError(c)
  <2>1. PICK a \in {"ok", "no", "error"} :
          /\ tx' = [tx EXCEPT ![c] = [tx[c] EXCEPT !.at = "back", !.answer = a]]
          /\ tx[c].at \in {"out", "deciding"} /\ db' = db /\ hist' = hist
          /\ a # "error" => tx[c].op \in {"authz", "ask"}
    BY <1>1 DEF Seam!ServeAuthz, Seam!ServeAsk, Seam!Readings, Seam!ServeError, Seam!Answer, Seam!Continue
  <2>2. SeamServed(c, "back", a)
    BY <1>0, <2>1 DEF SeamServed
  <2> QED
    BY <2>1, <2>2
<1>2. CASE Seam!ServeAudit(c)
  <2>1. /\ tx' = [tx EXCEPT ![c] = [tx[c] EXCEPT !.at = "back", !.answer = "ok"]]
        /\ tx[c].at = "out" /\ tx[c].op = "audit" /\ db' = [db EXCEPT !.audits = @ + 1] /\ hist' = hist
    BY <1>2 DEF Seam!ServeAudit, Seam!Answer, Seam!Continue
  <2>2. /\ db' \in SeamDb /\ db'.audits = db.audits + 1 /\ db'.state = db.state /\ db'.probing = db.probing
        /\ db'.acts = db.acts /\ db'.promoted = db.promoted /\ db'.raised = db.raised
        /\ db'.admission = db.admission
    BY <1>0, <2>1 DEF SeamDb
  <2>3. SeamServed(c, "back", "ok")
    BY <2>1, <2>2 DEF SeamServed
  <2> QED
    BY <2>1, <2>2, <2>3
<1>3. CASE Seam!ServeGrant(c)
  <2>1. /\ tx' = [tx EXCEPT ![c] = [tx[c] EXCEPT !.at = "back", !.answer = "ok"]]
        /\ tx[c].at = "out" /\ tx[c].op = "grant" /\ db' = [db EXCEPT !.raised = TRUE] /\ hist' = hist
    BY <1>3 DEF Seam!ServeGrant, Seam!Answer, Seam!Continue
  <2>2. /\ db' \in SeamDb /\ db'.audits = db.audits /\ db'.state = db.state /\ db'.probing = db.probing
        /\ db'.acts = db.acts /\ db'.promoted = db.promoted /\ db'.raised
        /\ db'.admission = db.admission
    BY <1>0, <2>1 DEF SeamDb
  <2>3. SeamServed(c, "back", "ok")
    BY <2>1, <2>2 DEF SeamServed
  <2> QED
    BY <2>1, <2>2, <2>3
<1>4. CASE Seam!ReadDecide(c)
  <2>0. /\ tx[c].op = "decide" /\ hist' = hist /\ db' = db /\ tx[c].at = "out"
        /\ \/ db.admission = "pending" /\ tx' = [tx EXCEPT ![c] = [tx[c] EXCEPT !.at = "deciding"]]
           \/ tx' = [tx EXCEPT ![c] = [tx[c] EXCEPT !.at = "back", !.answer = "conflict"]]
    BY <1>4 DEF Seam!ReadDecide, Seam!Decidable, Seam!Answer, Seam!Continue
  <2>1. CASE tx' = [tx EXCEPT ![c] = [tx[c] EXCEPT !.at = "back", !.answer = "conflict"]]
    <3>1. SeamServed(c, "back", "conflict")
      BY <1>0, <2>0, <2>1 DEF SeamServed
    <3> QED
      BY <2>0, <3>1
  <2>2. CASE db.admission = "pending" /\ tx' = [tx EXCEPT ![c] = [tx[c] EXCEPT !.at = "deciding"]]
    <3>1. tx[c].answer \in {"none", "ok", "no", "conflict", "error"}
          /\ [tx[c] EXCEPT !.at = "deciding"] = [tx[c] EXCEPT !.at = "deciding", !.answer = tx[c].answer]
      BY <1>0 DEF SeamCall
    <3>2. SeamServed(c, "deciding", tx[c].answer)
      BY <1>0, <2>0, <2>2, <3>1 DEF SeamServed
    <3> QED
      BY <2>0, <2>2, <3>1, <3>2
  <2> QED
    BY <2>0, <2>1, <2>2
<1> QED
  BY <1>1, <1>2, <1>3, <1>4

LEMMA SeamDecides ==
  ASSUME SeamInv, NEW c \in Conns, tx[c] # Seam!Idle, Seam!ServeDecide(c)
  PROVE  SeamInv'
<1>0. tx[c] \in SeamCall /\ db \in SeamDb
      /\ hist \in [dropped : BOOLEAN, late : BOOLEAN, overlapped : BOOLEAN, flipped : BOOLEAN]
  BY SeamTx DEF SeamInv, SeamTyped
<1>1. /\ tx[c].op = "decide" /\ tx[c].at = "deciding" /\ tx[c].say \in {"active", "rejected"}
      /\ db' = [db EXCEPT !.admission = tx[c].say, !.live = @ /\ tx[c].say # "rejected"]
      /\ tx' = [tx EXCEPT ![c] = [tx[c] EXCEPT !.at = "back", !.answer = "ok"]]
  BY <1>0 DEF Seam!ServeDecide, Seam!Continue, SeamCall
<1>2. hist' = [hist EXCEPT !.flipped = @ \/ db.admission # "pending",
                           !.overlapped = @ \/ \E o \in Seam!Open("decide") \ {c} : tx[o].at = "deciding"]
  BY DEF Seam!ServeDecide
<1>3. /\ hist'.flipped <=> hist.flipped \/ db.admission # "pending"
      /\ hist'.overlapped <=> hist.overlapped \/ \E o \in Seam!Open("decide") \ {c} : tx[o].at = "deciding"
      /\ hist'.late = hist.late /\ hist'.dropped = hist.dropped
      /\ hist' \in [dropped : BOOLEAN, late : BOOLEAN, overlapped : BOOLEAN, flipped : BOOLEAN]
  BY <1>0, <1>2
<1>4. /\ db' \in SeamDb /\ db'.state = db.state /\ db'.probing = db.probing
      /\ db'.acts = db.acts /\ db'.promoted = db.promoted /\ db'.raised = db.raised /\ db'.audits = db.audits
  BY <1>0, <1>1 DEF SeamDb
<1>5. SeamServed(c, "back", "ok")
  BY <1>1, <1>3, <1>4 DEF SeamServed
<1>6. /\ SeamTyped' /\ AnswersCovered' /\ ProbeInCharge' /\ Seam!ProbeUnderWay'
      /\ tx'[c].at = "back" /\ \A d \in Conns \ {c} : tx'[d] = tx[d]
  BY <1>3, <1>5, SeamServes
<1>7. ASSUME NEW d \in Conns, Deciding(d)' PROVE hist'.overlapped
  <2>1. d # c /\ tx'[d] = tx[d]
    BY <1>6, <1>7 DEF Deciding
  <2>2. d \in Seam!Open("decide") \ {c} /\ tx[d].at = "deciding"
    BY <1>7, <2>1 DEF Deciding, Seam!Open
  <2> QED
    BY <1>3, <2>2
<1>8. db.admission # "pending" => hist.overlapped
  BY <1>1 DEF SeamInv, StaleDecision, Deciding
<1>9. StaleDecision' /\ Seam!DecidedOnce'
  BY <1>3, <1>7, <1>8 DEF StaleDecision, Seam!DecidedOnce, SeamInv
<1> QED
  BY <1>6, <1>9 DEF SeamInv

\* The call is over for the breaker: its result was recorded, or its caller
\* has gone.
LEMMA SeamEnds ==
  ASSUME SeamInv, NEW c \in Conns, tx[c] # Seam!Idle, NEW t, SeamStep(c, t),
         \/ t = Seam!Idle
         \/ tx[c].at = "back" /\ tx[c].answer = "ok" /\ t = [tx[c] EXCEPT !.at = "acting", !.probe = FALSE],
         db' \in SeamDb, db'.acts = db.acts, db'.audits = db.audits, db'.raised = db.raised,
         db'.promoted = db.promoted, db'.admission = db.admission,
         hist' \in [dropped : BOOLEAN, late : BOOLEAN, overlapped : BOOLEAN, flipped : BOOLEAN],
         hist'.overlapped = hist.overlapped, hist'.flipped = hist.flipped,
         hist.late => hist'.late, hist.dropped => hist'.dropped,
         \/ db' = db /\ (tx[c].probe => hist'.dropped)
         \/ db'.state # "half_open" /\ (db.state = "half_open" /\ ~tx[c].probe => hist'.late)
  PROVE  SeamInv'
<1>0. tx[c] \in SeamCall
  BY SeamTx DEF SeamInv
<1>1. t # Seam!Idle => /\ t.at = "acting" /\ t.answer = "ok" /\ ~t.probe /\ t.op = tx[c].op
                       /\ Granted(c)
  BY <1>0 DEF SeamCall, Granted
<1>2. SeamTyped'
  BY SeamSets DEF SeamInv, SeamTyped
<1>3. AnswersCovered'
  <2>1. Granted(c) /\ tx[c].op = "grant" => db.raised
    BY DEF SeamInv, AnswersCovered
  <2>2. db.promoted => db.raised
    BY DEF SeamInv, AnswersCovered
  <2> QED
    BY <1>1, <1>2, <2>1, <2>2, SeamBooks
<1>4. ProbeInCharge' /\ Seam!ProbeUnderWay'
  BY <1>1, SeamProbe
<1>5. StaleDecision' /\ Seam!DecidedOnce'
  BY <1>1, SeamDecision
<1> QED
  BY <1>2, <1>3, <1>4, <1>5 DEF SeamInv

LEMMA SeamResults ==
  ASSUME SeamInv, NEW c \in Conns, tx[c] # Seam!Idle, Seam!Reply(c) \/ Seam!Lost(c) \/ Seam!Cancel(c)
  PROVE  SeamInv'
<1>0. tx[c] \in SeamCall /\ db \in SeamDb
      /\ hist \in [dropped : BOOLEAN, late : BOOLEAN, overlapped : BOOLEAN, flipped : BOOLEAN]
  BY SeamTx DEF SeamInv, SeamTyped
<1> DEFINE Results == /\ db' \in SeamDb /\ db'.acts = db.acts /\ db'.audits = db.audits /\ db'.raised = db.raised
                     /\ db'.promoted = db.promoted /\ db'.admission = db.admission /\ db'.state # "half_open"
<1>1. ASSUME db' = Seam!RecordFailure(db) \/ db' = Seam!RecordSuccess(db) PROVE Results
  <2>1. ASSUME NEW s \in {"closed", "open"}, NEW n \in Nat, NEW x \in BOOLEAN, NEW p \in BOOLEAN,
               db' = [db EXCEPT !.state = s, !.failures = n, !.cooled = x, !.probing = p]
        PROVE  Results
    BY <1>0, <2>1 DEF SeamDb
  <2>2. db.failures \in Nat /\ db.state \in {"closed", "open", "half_open"} /\ db.cooled \in BOOLEAN
        /\ db.probing \in BOOLEAN /\ Threshold \in Nat /\ db = [db EXCEPT !.failures = db.failures]
    BY <1>0, PlatformAssumption DEF SeamDb
  <2>3. \E s \in {"closed", "open"}, n \in Nat, x \in BOOLEAN, p \in BOOLEAN :
           db' = [db EXCEPT !.state = s, !.failures = n, !.cooled = x, !.probing = p]
    <3>1. CASE db' = Seam!RecordSuccess(db)
      BY <3>1 DEF Seam!RecordSuccess
    <3>2. CASE db' = Seam!RecordFailure(db) /\ db.state = "half_open"
      <4>1. db' = [db EXCEPT !.state = "open", !.failures = db.failures, !.cooled = FALSE, !.probing = FALSE]
        BY <1>0, <3>2 DEF Seam!RecordFailure, SeamDb
      <4> QED
        BY <2>2, <4>1
    <3>3. CASE db' = Seam!RecordFailure(db) /\ db.state # "half_open" /\ db.failures + 1 >= Threshold
      <4>1. db' = [db EXCEPT !.state = "open", !.failures = Threshold, !.cooled = FALSE, !.probing = db.probing]
        BY <1>0, <3>3 DEF Seam!RecordFailure, SeamDb
      <4> QED
        BY <2>2, <4>1
    <3>4. CASE db' = Seam!RecordFailure(db) /\ db.state # "half_open" /\ ~(db.failures + 1 >= Threshold)
      <4>1. db' = [db EXCEPT !.state = db.state, !.failures = db.failures + 1, !.cooled = db.cooled, !.probing = db.probing]
        BY <1>0, <3>4 DEF Seam!RecordFailure, SeamDb
      <4> QED
        BY <2>2, <4>1, <3>4, db.failures + 1 \in Nat
    <3> QED
      BY <1>1, <3>1, <3>2, <3>3, <3>4
  <2> QED
    BY <2>1, <2>3
<1> DEFINE Lates == /\ hist' \in [dropped : BOOLEAN, late : BOOLEAN, overlapped : BOOLEAN, flipped : BOOLEAN]
                   /\ hist'.overlapped = hist.overlapped /\ hist'.flipped = hist.flipped
                   /\ (hist.late => hist'.late) /\ (hist.dropped => hist'.dropped)
<1>2. ASSUME hist' = [hist EXCEPT !.late = @ \/ Seam!Late(c)]
      PROVE  Lates /\ (db.state = "half_open" /\ ~tx[c].probe => hist'.late)
  BY <1>0, <1>2 DEF Seam!Late
<1>3. CASE Seam!Reply(c)
  <2>1. PICK t : /\ tx' = [tx EXCEPT ![c] = t]
                 /\ \/ t = Seam!Idle
                    \/ tx[c].answer = "ok" /\ t = [tx[c] EXCEPT !.at = "acting", !.probe = FALSE]
    BY <1>3 DEF Seam!Reply, Seam!GoesOn, Seam!Continue, Seam!Finish
  <2>2. SeamStep(c, t)
    BY <1>0, <2>1 DEF SeamStep, SeamCall
  <2>3. Results /\ Lates /\ (db.state = "half_open" /\ ~tx[c].probe => hist'.late) /\ tx[c].at = "back"
    BY <1>1, <1>2, <1>3 DEF Seam!Reply
  <2> QED
    BY <2>1, <2>2, <2>3, SeamEnds
<1>4. CASE Seam!Lost(c)
  <2>1. tx' = [tx EXCEPT ![c] = Seam!Idle]
    BY <1>4 DEF Seam!Lost, Seam!Finish, Seam!Continue
  <2>2. SeamStep(c, Seam!Idle)
    BY <2>1 DEF SeamStep
  <2>3. Results /\ Lates /\ (db.state = "half_open" /\ ~tx[c].probe => hist'.late)
    BY <1>1, <1>2, <1>4 DEF Seam!Lost
  <2> QED
    BY <2>2, <2>3, SeamEnds
<1>5. CASE Seam!Cancel(c)
  <2>1. tx' = [tx EXCEPT ![c] = Seam!Idle] /\ db' = db
    BY <1>5 DEF Seam!Cancel, Seam!Finish, Seam!Continue
  <2>2. SeamStep(c, Seam!Idle)
    BY <2>1 DEF SeamStep
  <2>3. Lates /\ (tx[c].probe => hist'.dropped)
    BY <1>0, <1>5 DEF Seam!Cancel
  <2> QED
    BY <1>0, <2>1, <2>2, <2>3, SeamEnds
<1> QED
  BY <1>3, <1>4, <1>5

\* The business transaction ends.
LEMMA SeamActs ==
  ASSUME SeamInv, NEW c \in Conns, tx[c] # Seam!Idle,
         Seam!ActAudited(c) \/ Seam!ActGranted(c) \/ Seam!ActAuthorized(c) \/ Seam!RollBack(c)
  PROVE  SeamInv'
<1>0. tx[c] \in SeamCall /\ db \in SeamDb
      /\ hist \in [dropped : BOOLEAN, late : BOOLEAN, overlapped : BOOLEAN, flipped : BOOLEAN]
  BY SeamTx DEF SeamInv, SeamTyped
<1>1. tx' = [tx EXCEPT ![c] = Seam!Idle] /\ tx[c].at = "acting" /\ hist' = hist
  BY DEF Seam!ActAudited, Seam!ActGranted, Seam!ActAuthorized, Seam!RollBack, Seam!Finish, Seam!Continue
<1>2. SeamStep(c, Seam!Idle)
  BY <1>1 DEF SeamStep
<1>3. Granted(c) /\ ~tx[c].probe /\ (db.promoted => db.raised)
  BY <1>1 DEF SeamInv, AnswersCovered
<1>5. /\ db' \in SeamDb /\ db'.audits = db.audits /\ db'.raised = db.raised /\ db'.admission = db.admission
      /\ db'.state = db.state /\ db'.probing = db.probing
      /\ \/ db'.acts = db.acts
         \/ db'.acts = db.acts + 1 /\ tx[c].op = "audit"
      /\ db'.promoted = db.promoted \/ tx[c].op = "grant"
  <2>1. CASE Seam!ActAudited(c)
    BY <1>0, <2>1 DEF Seam!ActAudited, SeamDb
  <2>2. CASE Seam!ActGranted(c)
    BY <1>0, <2>2 DEF Seam!ActGranted, SeamDb
  <2>3. CASE Seam!ActAuthorized(c) \/ Seam!RollBack(c)
    BY <1>0, <2>3 DEF Seam!ActAuthorized, Seam!RollBack
  <2> QED
    BY <2>1, <2>2, <2>3
<1>6. SeamTyped'
  BY <1>1, <1>2, <1>5, SeamSets DEF SeamInv, SeamTyped
<1>7. AnswersCovered'
  <2>1. tx[c].op = "grant" => db.raised
    BY <1>3 DEF SeamInv, AnswersCovered
  <2> QED
    BY <1>2, <1>3, <1>5, <1>6, <2>1, SeamBooks
<1>8. ProbeInCharge' /\ Seam!ProbeUnderWay'
  BY <1>1, <1>2, <1>3, <1>5, SeamProbe
<1>9. StaleDecision' /\ Seam!DecidedOnce'
  BY <1>1, <1>2, <1>5, SeamDecision
<1> QED
  BY <1>6, <1>7, <1>8, <1>9 DEF SeamInv

\* The calls are as they were.
LEMMA SeamQuiet ==
  ASSUME SeamInv, UNCHANGED <<tx, hist>>, db' \in SeamDb, db'.state = db.state, db'.probing = db.probing,
         db'.acts = db.acts, db'.audits = db.audits, db'.raised = db.raised, db'.promoted = db.promoted,
         db'.admission = db.admission
  PROVE  SeamInv'
<1>1. Seam!Probes' = Seam!Probes /\ Audited' = Audited
  BY DEF Seam!Probes, Seam!Busy, Audited, Granted
<1> QED
  BY <1>1 DEF SeamInv, SeamTyped, ProbeInCharge, Seam!ProbeUnderWay, AnswersCovered, StaleDecision, Seam!DecidedOnce,
              Granted, Deciding

LEMMA SeamInit == Seam!Init => SeamInv
<1> SUFFICES ASSUME Seam!Init PROVE SeamInv
  OBVIOUS
<1>1. \A c \in Conns : tx[c] = Seam!Idle
  BY DEF Seam!Init, Seam!Resting
<1>2. Seam!Probes = {} /\ Audited = {}
  BY <1>1 DEF Seam!Probes, Seam!Busy, Audited, Granted
<1>3. SeamTyped
  BY DEF Seam!Init, Seam!Resting, SeamTyped, SeamDb
<1>4. Cardinality(Audited) = 0
  BY <1>2, FS_EmptySet
<1> QED
  BY <1>1, <1>2, <1>3, <1>4
     DEF Seam!Init, SeamInv, ProbeInCharge, Seam!ProbeUnderWay, AnswersCovered, StaleDecision, Seam!DecidedOnce,
         Granted,
         Deciding

LEMMA SeamNext == SeamInv /\ Seam!Next => SeamInv'
<1> SUFFICES ASSUME SeamInv, Seam!Next PROVE SeamInv'
  OBVIOUS
<1>1. ASSUME NEW c \in Conns,
             \/ Seam!AuthorizeViaSeam(c) \/ Seam!WriteAuditViaSeam(c) \/ Seam!GrantViaSeam(c)
             \/ \E say \in {"active", "rejected"} : Seam!DecideAdmissionViaSeam(c, say)
             \/ Seam!FetchUserHttpPayload(c) \/ Seam!FetchUsersHttpBatch(c) \/ Seam!VerifyPasswordViaSeam(c)
             \/ Seam!FetchAdmission(c) \/ Seam!MintBotSsoTicket(c)
      PROVE  SeamInv'
  <2>1. \E k \in SeamKinds, say \in {"", "active", "rejected"} : (k = "decide" => say # "") /\ Seam!Call(c, k, say)
    BY <1>1 DEF Seam!AuthorizeViaSeam, Seam!WriteAuditViaSeam, Seam!GrantViaSeam, Seam!DecideAdmissionViaSeam,
                Seam!FetchUserHttpPayload, Seam!FetchUsersHttpBatch, Seam!VerifyPasswordViaSeam, Seam!FetchAdmission,
                Seam!MintBotSsoTicket, SeamKinds
  <2> QED
    BY <2>1, SeamCalls
<1>2. ASSUME NEW c \in Conns, Seam!EndSessions(c) PROVE SeamInv'
  <2>1. UNCHANGED <<tx, hist>> /\ db' = [db EXCEPT !.live = FALSE] /\ db \in SeamDb
    BY <1>2 DEF Seam!EndSessions, Seam!AtOnce, SeamInv, SeamTyped
  <2> QED
    BY <2>1, SeamQuiet DEF SeamDb
<1>3. CASE Seam!Cool
  <2>1. UNCHANGED <<tx, hist>> /\ db' = [db EXCEPT !.cooled = TRUE] /\ db \in SeamDb
    BY <1>3 DEF Seam!Cool, SeamInv, SeamTyped
  <2> QED
    BY <2>1, SeamQuiet DEF SeamDb
<1> QED
  BY <1>1, <1>2, <1>3, SeamAnswers, SeamDecides, SeamResults, SeamActs DEF Seam!Next, Seam!Busy

LEMMA SeamKept == SeamInv => Seam!SeamSound
<1> SUFFICES ASSUME SeamInv PROVE Seam!OneProbe /\ Seam!ActsCovered
  BY DEF SeamInv, Seam!SeamSound
<1>1. Seam!OneProbe
  <2> SUFFICES ASSUME ~hist.late PROVE Cardinality(Seam!Probes) <= 1
    BY SameCardinality DEF Seam!OneProbe
  <2>1. \A c, d \in Seam!Probes : c = d
    BY DEF SeamInv, ProbeInCharge
  <2>2. CASE Seam!Probes = {}
    BY <2>2, FS_EmptySet
  <2>3. ASSUME NEW c \in Seam!Probes PROVE Cardinality(Seam!Probes) = 1
    <3>1. Seam!Probes = {c}
      BY <2>1
    <3> QED
      BY <3>1, FS_Singleton
  <2> QED
    BY <2>2, <2>3
<1>2. Seam!ActsCovered
  <2>1. Audited \subseteq Conns
    BY DEF Audited
  <2>2. Cardinality(Audited) \in Nat
    BY <2>1, FS_Subset, FS_CardinalityType, PlatformAssumption
  <2> QED
    BY <2>2 DEF SeamInv, AnswersCovered, Seam!ActsCovered, SeamTyped, SeamDb
<1> QED
  BY <1>1, <1>2

-----------------------------------------------------------------------------
(* The media of the bot                                                    *)

MediaCall ==
  [op : {"upload"}, step : {"read", "saved"}, id : Nat, keep : BOOLEAN, refs : Nat]
    \cup [op : {"delete"}, step : {"read", "dropped", "gone"}, id : Nat, refs : Nat, purge : BOOLEAN, mine : BOOLEAN]
    \cup [op : {"serve"}]

MediaRow == {Media!None} \cup [id : Nat \ {0}, refs : Nat \ {0}, keep : BOOLEAN, past : BOOLEAN]

MediaHist ==
  [holders : Nat, over : BOOLEAN, raced : BOOLEAN, purged : BOOLEAN, torn : BOOLEAN, twice : BOOLEAN, under : BOOLEAN,
   cut : BOOLEAN, unread : BOOLEAN]

MediaTyped ==
  /\ tx \in [Conns -> {Media!Idle} \cup MediaCall]
  /\ db \in [row : MediaRow, object : BOOLEAN, ids : Nat]
  /\ hist \in MediaHist

Deletion(r) == r.op = "delete"
Returner(r) == Deletion(r) /\ ~r.purge
Returners == {c \in Conns : Returner(tx[c])}

\* Nobody wrote an old count, and the bot gave back only what it has.
Fair(h) == ~h.raced /\ ~h.purged /\ ~h.over

\* The row counts the holders, of whom as many as are giving back have one
\* reference each; each of them means the present row, and the one whose
\* deletion holds it is the last.
MediaCounted ==
  /\ hist.holders = IF db.row = Media!None THEN 0 ELSE db.row.refs
  /\ Cardinality(Returners) <= hist.holders
  /\ \A c \in Conns : Deletion(tx[c]) => Returner(tx[c]) /\ Media!Ours(tx[c])
  /\ \A c \in Conns : Deletion(tx[c]) /\ tx[c].step # "read" => tx[c].mine /\ db.row.refs = 1

\* An object that is missing is one its deletion is about to finish.
Gone(c) == Media!Deleting(c, "gone") /\ tx[c].mine
MediaKept ==
  /\ db.row # Media!None /\ ~db.object => hist.torn \/ hist.twice \/ hist.under \/ \E c \in Conns : Gone(c)
  /\ \A c \in Conns : Media!Uploading(c, "saved") => db.object \/ hist.under
  /\ \A c \in Conns : tx[c].op = "serve" => db.object \/ hist.cut

MediaInv ==
  /\ MediaTyped
  /\ Fair(hist) => MediaCounted
  /\ \A c \in Conns : Deletion(tx[c]) /\ tx[c].purge => hist.purged
  /\ MediaKept
  /\ Media!BodySent

MediaStep(c, t) == c \in Conns /\ t \in {Media!Idle} \cup MediaCall /\ tx' = [tx EXCEPT ![c] = t]

LEMMA MediaCardinality ==
  ASSUME NEW S
  PROVE  Media!Cardinality(S) = Cardinality(S)
BY DEF Cardinality, Media!Cardinality

LEMMA MediaSets ==
  ASSUME MediaTyped, NEW c, NEW t, MediaStep(c, t)
  PROVE  /\ tx' \in [Conns -> {Media!Idle} \cup MediaCall]
         /\ tx'[c] = t /\ \A d \in Conns \ {c} : tx'[d] = tx[d]
         /\ Cardinality(Returners) \in Nat /\ Cardinality(Returners') \in Nat
         /\ ~Returner(tx[c]) /\ Returner(t) => Cardinality(Returners') = Cardinality(Returners) + 1
         /\ Returner(tx[c]) /\ ~Returner(t) => Cardinality(Returners') = Cardinality(Returners) - 1
         /\ (Returner(tx[c]) <=> Returner(t)) => Cardinality(Returners') = Cardinality(Returners)
<1>1. /\ tx' \in [Conns -> {Media!Idle} \cup MediaCall]
      /\ tx'[c] = t /\ \A d \in Conns \ {c} : tx'[d] = tx[d]
  BY DEF MediaStep, MediaTyped
<1>2. Returners' \ {c} = Returners \ {c}
  BY <1>1 DEF Returners, Returner, Deletion
<1>3. (c \in Returners <=> Returner(tx[c])) /\ (c \in Returners' <=> Returner(t))
  BY <1>1 DEF Returners, Returner, Deletion, MediaStep
<1>4. Returners \subseteq Conns /\ Returners' \subseteq Conns
  BY DEF Returners
<1>5. IsFiniteSet(Returners) /\ IsFiniteSet(Returners')
  BY <1>4, FS_Subset, PlatformAssumption
<1> QED
  BY <1>1, <1>2, <1>3, <1>5, CountsChange

\* Two in a set of finitely many are at most its number.
LEMMA TwoCount ==
  ASSUME NEW S, IsFiniteSet(S), NEW a \in S, NEW b \in S, a # b
  PROVE  Cardinality(S) \in Nat /\ Cardinality(S) >= 2
<1>1. IsFiniteSet(S \ {a}) /\ Cardinality(S \ {a}) = Cardinality(S) - 1
  BY FS_RemoveElement
<1>2. IsFiniteSet((S \ {a}) \ {b}) /\ Cardinality((S \ {a}) \ {b}) = Cardinality(S \ {a}) - 1
  BY <1>1, FS_RemoveElement
<1>3. Cardinality(S) \in Nat /\ Cardinality((S \ {a}) \ {b}) \in Nat
  BY <1>2, FS_CardinalityType
<1> QED
  BY <1>1, <1>2, <1>3

\* The same row, with the same count.
SameRow ==
  /\ (db'.row = Media!None) <=> (db.row = Media!None)
  /\ db.row # Media!None => db'.row.id = db.row.id /\ db'.row.refs = db.row.refs

\* The books after a step of c.
LEMMA MediaBooks ==
  ASSUME MediaInv, NEW c, NEW t, MediaStep(c, t), MediaTyped', Fair(hist),
         \* the row is not written: c has a deletion as before, or begins one,
         \/ /\ SameRow /\ hist'.holders = hist.holders
            /\ Deletion(t) =>
                 \/ /\ Deletion(tx[c]) /\ t.id = tx[c].id /\ t.purge = tx[c].purge
                    /\ t.step # "read" => t.mine /\ db.row.refs = 1
                 \/ /\ ~Deletion(tx[c]) /\ ~t.purge /\ t.step = "read" /\ Media!Ours(t)
                    /\ hist.holders > Cardinality(Returners)
         \* one reference more, of a row that was there or is new,
         \/ /\ ~Deletion(tx[c]) /\ ~Deletion(t) /\ ~Media!Locked /\ hist'.holders = hist.holders + 1
            /\ db.row # Media!None /\ db'.row # Media!None /\ db'.row.id = db.row.id /\ db'.row.refs = db.row.refs + 1
         \/ /\ ~Deletion(tx[c]) /\ ~Deletion(t) /\ hist'.holders = hist.holders + 1
            /\ db.row = Media!None /\ db'.row # Media!None /\ db'.row.refs = 1
         \* one less, of several or the last.
         \/ /\ Deletion(tx[c]) /\ t = Media!Idle /\ ~Media!Locked /\ hist'.holders = hist.holders - 1
            /\ db.row # Media!None /\ db'.row # Media!None /\ db'.row.id = db.row.id /\ db'.row.refs = db.row.refs - 1
         \/ /\ Deletion(tx[c]) /\ t = Media!Idle /\ hist'.holders = hist.holders - 1
            /\ db.row # Media!None /\ db.row.refs = 1 /\ db'.row = Media!None
  PROVE  MediaCounted'
<1>1. MediaCounted /\ MediaTyped
  BY DEF MediaInv
<1>2. /\ tx'[c] = t /\ c \in Conns /\ \A d \in Conns \ {c} : tx'[d] = tx[d]
      /\ Cardinality(Returners) \in Nat /\ Cardinality(Returners') \in Nat
      /\ ~Returner(tx[c]) /\ Returner(t) => Cardinality(Returners') = Cardinality(Returners) + 1
      /\ Returner(tx[c]) /\ ~Returner(t) => Cardinality(Returners') = Cardinality(Returners) - 1
      /\ (Returner(tx[c]) <=> Returner(t)) => Cardinality(Returners') = Cardinality(Returners)
  BY <1>1, MediaSets DEF MediaStep
<1>3. hist.holders \in Nat /\ hist'.holders \in Nat
  BY <1>1 DEF MediaTyped, MediaHist
<1>4. db.row # Media!None => db.row.refs \in Nat
  BY <1>1 DEF MediaTyped, MediaRow
<1>5. ~Deletion(Media!Idle)
  BY DEF Deletion, Media!Idle
<1>6. ~Media!Locked => \A d \in Conns : Deletion(tx[d]) => tx[d].step = "read"
  <2> SUFFICES ASSUME NEW d \in Conns, Deletion(tx[d]), tx[d].step # "read" PROVE Media!Locked
    OBVIOUS
  <2>1. tx[d].mine /\ tx[d].step \in {"dropped", "gone"}
    <3>1. tx[d] \in MediaCall
      BY <1>1, <1>5 DEF MediaTyped
    <3>2. tx[d].step \in {"read", "dropped", "gone"}
      BY <3>1 DEF MediaCall, Deletion
    <3> QED
      BY <1>1, <3>2 DEF MediaCounted
  <2> QED
    BY <2>1 DEF Media!Locked, Deletion
<1>7. CASE /\ SameRow /\ hist'.holders = hist.holders
           /\ Deletion(t) =>
                \/ /\ Deletion(tx[c]) /\ t.id = tx[c].id /\ t.purge = tx[c].purge
                   /\ t.step # "read" => t.mine /\ db.row.refs = 1
                \/ /\ ~Deletion(tx[c]) /\ ~t.purge /\ t.step = "read" /\ Media!Ours(t)
                   /\ hist.holders > Cardinality(Returners)
  <2>1. hist'.holders = IF db'.row = Media!None THEN 0 ELSE db'.row.refs
    BY <1>1, <1>7 DEF SameRow, MediaCounted
  <2>2. Cardinality(Returners') <= hist'.holders
    BY <1>1, <1>2, <1>3, <1>7 DEF MediaCounted, Returner
  <2>3. \A d \in Conns : Deletion(tx'[d]) => Returner(tx'[d]) /\ Media!Ours(tx[d])'
    <3>1. \A d \in Conns \ {c} : Deletion(tx'[d]) => Returner(tx'[d]) /\ Media!Ours(tx[d])'
      BY <1>1, <1>2, <1>7 DEF MediaCounted, Media!Ours, SameRow
    <3>2. Deletion(t) => Returner(t) /\ (Media!Ours(tx[c]) \/ Media!Ours(t))
      BY <1>1, <1>2, <1>7 DEF MediaCounted, Returner
    <3>3. Deletion(t) => Returner(t) /\ db.row # Media!None /\ t.id = db.row.id
      BY <1>1, <1>2, <1>7, <3>2 DEF MediaCounted, Media!Ours
    <3> QED
      BY <1>2, <1>7, <3>1, <3>3 DEF SameRow, Media!Ours
  <2>4. \A d \in Conns : Deletion(tx'[d]) /\ tx'[d].step # "read" => tx'[d].mine /\ db'.row.refs = 1
    <3>1. \A d \in Conns : Deletion(tx'[d]) /\ tx'[d].step # "read" => tx'[d].mine /\ db.row.refs = 1
      BY <1>1, <1>2, <1>7 DEF MediaCounted
    <3>2. \A d \in Conns : Deletion(tx'[d]) => db.row # Media!None
      BY <1>1, <1>2, <1>7 DEF MediaCounted, Media!Ours
    <3> QED
      BY <1>7, <3>1, <3>2 DEF SameRow
  <2> QED
    BY <2>1, <2>2, <2>3, <2>4 DEF MediaCounted
<1>8. CASE /\ ~Deletion(tx[c]) /\ ~Deletion(t) /\ ~Media!Locked /\ hist'.holders = hist.holders + 1
           /\ db.row # Media!None /\ db'.row # Media!None /\ db'.row.id = db.row.id /\ db'.row.refs = db.row.refs + 1
  <2>1. hist'.holders = db'.row.refs /\ Cardinality(Returners') <= hist'.holders
    BY <1>1, <1>2, <1>3, <1>4, <1>8 DEF MediaCounted, Returner
  <2>2. \A d \in Conns : Deletion(tx'[d]) => Deletion(tx[d]) /\ tx'[d] = tx[d]
    BY <1>2, <1>8
  <2>3. \A d \in Conns : Deletion(tx'[d]) => Returner(tx'[d]) /\ Media!Ours(tx[d])' /\ tx'[d].step = "read"
    BY <1>1, <1>6, <1>8, <2>2 DEF MediaCounted, Media!Ours
  <2> QED
    BY <1>8, <2>1, <2>3 DEF MediaCounted
<1>9. CASE /\ ~Deletion(tx[c]) /\ ~Deletion(t) /\ hist'.holders = hist.holders + 1
           /\ db.row = Media!None /\ db'.row # Media!None /\ db'.row.refs = 1
  <2>1. hist.holders = 0 /\ Cardinality(Returners') <= hist'.holders
    BY <1>1, <1>2, <1>3, <1>9 DEF MediaCounted, Returner
  <2>2. \A d \in Conns : ~Deletion(tx'[d])
    BY <1>1, <1>2, <1>9 DEF MediaCounted, Media!Ours
  <2> QED
    BY <1>9, <2>1, <2>2 DEF MediaCounted
<1>10. CASE /\ Deletion(tx[c]) /\ t = Media!Idle /\ ~Media!Locked /\ hist'.holders = hist.holders - 1
            /\ db.row # Media!None /\ db'.row # Media!None /\ db'.row.id = db.row.id /\ db'.row.refs = db.row.refs - 1
  <2>1. Returner(tx[c]) /\ ~Returner(t)
    BY <1>1, <1>2, <1>5, <1>10 DEF MediaCounted, Returner
  <2>2. hist'.holders = db'.row.refs /\ Cardinality(Returners') <= hist'.holders
    BY <1>1, <1>2, <1>3, <1>4, <1>10, <2>1 DEF MediaCounted
  <2>3. \A d \in Conns : Deletion(tx'[d]) => Deletion(tx[d]) /\ tx'[d] = tx[d]
    BY <1>2, <1>5, <1>10
  <2>4. \A d \in Conns : Deletion(tx'[d]) => Returner(tx'[d]) /\ Media!Ours(tx[d])' /\ tx'[d].step = "read"
    BY <1>1, <1>6, <1>10, <2>3 DEF MediaCounted, Media!Ours
  <2> QED
    BY <1>10, <2>2, <2>4 DEF MediaCounted
<1>11. CASE /\ Deletion(tx[c]) /\ t = Media!Idle /\ hist'.holders = hist.holders - 1
            /\ db.row # Media!None /\ db.row.refs = 1 /\ db'.row = Media!None
  <2>1. Returner(tx[c]) /\ ~Returner(t) /\ hist.holders = 1
    BY <1>1, <1>2, <1>5, <1>11 DEF MediaCounted, Returner
  <2>2. hist'.holders = 0 /\ Cardinality(Returners') <= hist'.holders
    BY <1>1, <1>2, <1>3, <1>11, <2>1 DEF MediaCounted
  <2>3. ASSUME NEW d \in Conns, d # c, Deletion(tx[d]) PROVE FALSE
    <3>1. c \in Returners /\ d \in Returners
      BY <1>1, <1>2, <2>1, <2>3 DEF MediaCounted, Returners
    <3>2. IsFiniteSet(Returners)
      <4>1. Returners \subseteq Conns
        BY DEF Returners
      <4> QED
        BY <4>1, FS_Subset, PlatformAssumption
    <3>3. Cardinality(Returners) \in Nat /\ Cardinality(Returners) >= 2
      BY <2>3, <3>1, <3>2, TwoCount
    <3> QED
      BY <1>1, <2>1, <3>3 DEF MediaCounted
  <2>4. \A d \in Conns : ~Deletion(tx'[d])
    BY <1>2, <1>5, <1>11, <2>3
  <2> QED
    BY <1>11, <2>2, <2>4 DEF MediaCounted
<1> QED
  BY <1>7, <1>8, <1>9, <1>10, <1>11

\* The object after a step of c.
LEMMA MediaObject ==
  ASSUME MediaInv, NEW c, NEW t, MediaStep(c, t), MediaTyped',
         hist.torn => hist'.torn, hist.twice => hist'.twice, hist.under => hist'.under, hist.cut => hist'.cut,
         \* a row is new only over an object that was found or saved there,
         db'.row # Media!None => db.row # Media!None \/ Media!Uploading(c, "saved"),
         \* an upload goes on with its object, a page with one it has seen,
         t.op = "upload" /\ t.step = "saved" => db'.object,
         t.op = "serve" => db.object,
         \* and an object goes only for reasons that are remembered.
         \/ db'.object
         \/ /\ db'.object = db.object
            /\ Gone(c) => hist'.torn \/ db.object \/ db'.row = Media!None
         \/ /\ (t.op = "delete" /\ t.step = "gone" /\ t.mine) \/ hist'.twice
            /\ hist'.under \/ \A o \in Conns : ~Media!Uploading(o, "saved")
            /\ hist'.cut \/ \A o \in Conns : tx[o].op # "serve"
            /\ t.op = "delete" /\ ~Gone(c)
  PROVE  MediaKept'
<1>1. MediaKept /\ MediaTyped
  BY DEF MediaInv
<1>2. tx'[c] = t /\ c \in Conns /\ \A d \in Conns \ {c} : tx'[d] = tx[d]
  BY <1>1, MediaSets DEF MediaStep
<1>3. CASE db'.object
  BY <1>3 DEF MediaKept
<1>4. CASE db'.object = db.object /\ (Gone(c) => hist'.torn \/ db.object \/ db'.row = Media!None) /\ ~db'.object
  <2>1. \A o \in Conns \ {c} : Gone(o) => Gone(o)'
    BY <1>2 DEF Gone, Media!Deleting
  <2>2. db'.row # Media!None => hist'.torn \/ hist'.twice \/ hist'.under \/ \E o \in Conns : Gone(o)'
    BY <1>1, <1>2, <1>4, <2>1 DEF MediaKept
  <2>3. \A o \in Conns : Media!Uploading(o, "saved")' => hist'.under
    BY <1>1, <1>2, <1>4 DEF MediaKept, Media!Uploading
  <2>4. \A o \in Conns : tx'[o].op = "serve" => hist'.cut
    BY <1>1, <1>2, <1>4 DEF MediaKept
  <2> QED
    BY <2>2, <2>3, <2>4 DEF MediaKept
<1>5. CASE /\ (t.op = "delete" /\ t.step = "gone" /\ t.mine) \/ hist'.twice
           /\ hist'.under \/ \A o \in Conns : ~Media!Uploading(o, "saved")
           /\ hist'.cut \/ \A o \in Conns : tx[o].op # "serve"
           /\ t.op = "delete" /\ ~Gone(c)
  <2>1. hist'.twice \/ Gone(c)'
    BY <1>2, <1>5 DEF Gone, Media!Deleting
  <2>2. hist'.under \/ \A o \in Conns : ~Media!Uploading(o, "saved")'
    BY <1>2, <1>5 DEF Media!Uploading
  <2>3. hist'.cut \/ \A o \in Conns : tx'[o].op # "serve"
    BY <1>2, <1>5
  <2> QED
    BY <1>2, <2>1, <2>2, <2>3 DEF MediaKept
<1> QED
  BY <1>3, <1>4, <1>5

\* The invariant after a step of c, from its parts.
LEMMA MediaWhole ==
  ASSUME MediaInv, NEW c, NEW t, MediaStep(c, t), db' \in [row : MediaRow, object : BOOLEAN, ids : Nat],
         hist' \in MediaHist, Fair(hist') => Fair(hist), Fair(hist') => MediaCounted', MediaKept',
         Deletion(t) /\ t.purge => hist'.purged, hist.purged => hist'.purged,
         hist'.unread => hist.unread \/ hist'.cut, hist.cut => hist'.cut
  PROVE  MediaInv'
<1>1. /\ tx' \in [Conns -> {Media!Idle} \cup MediaCall]
      /\ tx'[c] = t /\ \A d \in Conns \ {c} : tx'[d] = tx[d]
  BY MediaSets DEF MediaInv
<1>2. MediaTyped'
  BY <1>1 DEF MediaTyped
<1>3. \A d \in Conns : Deletion(tx'[d]) /\ tx'[d].purge => hist'.purged
  BY <1>1 DEF MediaInv
<1>4. Media!BodySent'
  BY DEF MediaInv, Media!BodySent
<1> QED
  BY <1>2, <1>3, <1>4 DEF MediaInv

\* The state of the request on c.
LEMMA MediaTx ==
  ASSUME MediaTyped, NEW c \in Conns
  PROVE  /\ tx[c] = Media!Idle \/ tx[c] \in MediaCall
         /\ tx[c].op = "upload" => /\ tx[c].step \in {"read", "saved"} /\ tx[c].id \in Nat /\ tx[c].refs \in Nat
                                   /\ tx[c].keep \in BOOLEAN /\ tx[c] \in MediaCall
         /\ tx[c].op = "delete" => /\ tx[c].step \in {"read", "dropped", "gone"} /\ tx[c].id \in Nat
                                   /\ tx[c].refs \in Nat /\ tx[c].purge \in BOOLEAN /\ tx[c].mine \in BOOLEAN
                                   /\ tx[c] \in MediaCall
         /\ ~Deletion(Media!Idle) /\ Media!Idle.op \notin {"upload", "delete", "serve"}
<1>1. tx[c] = Media!Idle \/ tx[c] \in MediaCall
  BY DEF MediaTyped
<1>2. ~Deletion(Media!Idle) /\ Media!Idle.op \notin {"upload", "delete", "serve"}
  BY DEF Deletion, Media!Idle
<1> QED
  BY <1>1, <1>2 DEF MediaCall

\* A request begins: it has read the row.
LEMMA MediaBegins ==
  ASSUME MediaInv, NEW c \in Conns, Media!Upload(c) \/ Media!Delete(c) \/ Media!Purge(c) \/ Media!Serve(c)
  PROVE  MediaInv'
<1> USE DEF Media!Begin
<1>0. MediaTyped /\ tx[c] = Media!Idle /\ db' = db /\ hist \in MediaHist /\ ~Deletion(tx[c])
      /\ db \in [row : MediaRow, object : BOOLEAN, ids : Nat]
  BY MediaTx DEF MediaInv, MediaTyped, Media!Upload, Media!Delete, Media!Purge, Media!Serve, Media!Read
<1>1. db.row.id \in Nat /\ (db.row # Media!None => db.row.refs \in Nat \ {0} /\ db.row.id # 0)
  BY <1>0 DEF MediaRow, Media!None
<1>2. ~Gone(c) /\ ~Media!Uploading(c, "saved") /\ SameRow
  BY <1>0, MediaTx DEF Gone, Media!Deleting, Media!Uploading, SameRow
<1>3. CASE Media!Upload(c)
  <2>1. PICK keep \in BOOLEAN :
           tx' = [tx EXCEPT ![c] = [op |-> "upload", step |-> "read", id |-> db.row.id, keep |-> keep,
                                     refs |-> IF db.row = Media!None THEN 0 ELSE db.row.refs]]
    BY <1>3 DEF Media!Upload
  <2> DEFINE t == [op |-> "upload", step |-> "read", id |-> db.row.id, keep |-> keep,
                   refs |-> IF db.row = Media!None THEN 0 ELSE db.row.refs]
  <2>2. t \in MediaCall /\ ~Deletion(t) /\ t.op = "upload" /\ t.step = "read"
    BY <1>1 DEF MediaCall, Deletion
  <2> HIDE DEF t
  <2>3. MediaStep(c, t) /\ hist' = hist
    BY <1>3, <2>1, <2>2 DEF MediaStep, Media!Upload, t
  <2>4. MediaTyped'
    BY <1>0, <2>3, MediaSets DEF MediaTyped
  <2>5. MediaKept'
    BY <1>0, <1>2, <2>2, <2>3, <2>4, MediaObject
  <2>6. Fair(hist) => MediaCounted'
    BY <1>0, <1>2, <2>2, <2>3, <2>4, MediaBooks
  <2> QED
    BY <1>0, <2>2, <2>3, <2>5, <2>6, MediaWhole
<1>4. CASE Media!Serve(c)
  <2> DEFINE t == [op |-> "serve"]
  <2>2. t \in MediaCall /\ ~Deletion(t) /\ t.op = "serve"
    BY DEF MediaCall, Deletion
  <2> HIDE DEF t
  <2>3. MediaStep(c, t) /\ hist' = hist /\ db.object
    BY <1>4, <2>2 DEF MediaStep, Media!Serve, t
  <2>4. MediaTyped'
    BY <1>0, <2>3, MediaSets DEF MediaTyped
  <2>5. MediaKept'
    BY <1>0, <1>2, <2>2, <2>3, <2>4, MediaObject
  <2>6. Fair(hist) => MediaCounted'
    BY <1>0, <1>2, <2>2, <2>3, <2>4, MediaBooks
  <2> QED
    BY <1>0, <2>2, <2>3, <2>5, <2>6, MediaWhole
<1>5. ASSUME NEW purge \in BOOLEAN, Media!Read(c, purge), db.row # Media!None, hist' \in MediaHist,
             purge => hist'.purged, hist.purged => hist'.purged, Fair(hist') => Fair(hist),
             hist'.holders = hist.holders, hist'.unread = hist.unread, hist'.cut = hist.cut,
             hist'.torn = hist.torn, hist'.twice = hist.twice, hist'.under = hist.under,
             ~purge /\ Fair(hist') => hist.holders > Cardinality(Returners)
      PROVE  MediaInv'
  <2> DEFINE t == [op |-> "delete", step |-> "read", id |-> db.row.id, refs |-> db.row.refs, purge |-> purge,
                   mine |-> FALSE]
  <2>2. t \in MediaCall /\ Deletion(t) /\ t.op = "delete" /\ t.step = "read" /\ Media!Ours(t) /\ t.purge = purge
    BY <1>1, <1>5 DEF MediaCall, Deletion, Media!Ours
  <2> HIDE DEF t
  <2>3. MediaStep(c, t)
    BY <1>5, <2>2 DEF MediaStep, Media!Read, t
  <2>4. MediaTyped'
    BY <1>0, <1>5, <2>3, MediaSets DEF MediaTyped
  <2>5. MediaKept'
    BY <1>0, <1>2, <1>5, <2>2, <2>3, <2>4, MediaObject
  <2>6. Fair(hist') => MediaCounted'
    <3> SUFFICES ASSUME Fair(hist') PROVE MediaCounted'
      OBVIOUS
    <3>1. ~purge
      BY <1>5 DEF Fair
    <3> QED
      BY <1>0, <1>2, <1>5, <2>2, <2>3, <2>4, <3>1, MediaBooks
  <2> QED
    BY <1>0, <1>5, <2>2, <2>3, <2>5, <2>6, MediaWhole
<1>6. CASE Media!Delete(c)
  <2>1. {o \in Conns : Media!Returning(o)} = Returners
    BY DEF Media!Returning, Returners, Returner, Deletion
  <2>2. Media!Read(c, FALSE) /\ db.row # Media!None
        /\ hist' = [hist EXCEPT !.over = @ \/ hist.holders <= Cardinality(Returners)]
    BY <1>6, <2>1, MediaCardinality DEF Media!Delete
  <2>3. Cardinality(Returners) \in Nat
    <3>1. Returners \subseteq Conns
      BY DEF Returners
    <3> QED
      BY <3>1, FS_Subset, FS_CardinalityType, PlatformAssumption
  <2>4. PICK b \in BOOLEAN : (b <=> hist.over \/ hist.holders <= Cardinality(Returners))
               /\ hist' = [hist EXCEPT !.over = b]
    BY <2>2
  <2>5. /\ hist' \in MediaHist /\ hist'.over = b /\ hist'.raced = hist.raced /\ hist'.purged = hist.purged
        /\ hist.holders \in Nat
    BY <1>0, <2>4 DEF MediaHist
  <2>8. Fair(hist') => Fair(hist) /\ hist.holders > Cardinality(Returners)
    BY <2>3, <2>4, <2>5 DEF Fair
  <2>6. /\ hist'.holders = hist.holders /\ hist'.unread = hist.unread /\ hist'.cut = hist.cut
        /\ hist'.torn = hist.torn /\ hist'.twice = hist.twice /\ hist'.under = hist.under
        /\ hist'.purged = hist.purged
    BY <1>0, <2>2 DEF MediaHist
  <2> QED
    BY <1>5, <2>2, <2>5, <2>6, <2>8
<1>7. CASE Media!Purge(c)
  <2>1. Media!Read(c, TRUE) /\ db.row # Media!None /\ hist' = [hist EXCEPT !.purged = TRUE]
    BY <1>7 DEF Media!Purge
  <2>2. /\ hist'.holders = hist.holders /\ hist'.unread = hist.unread /\ hist'.cut = hist.cut
        /\ hist'.torn = hist.torn /\ hist'.twice = hist.twice /\ hist'.under = hist.under /\ hist'.purged
        /\ hist' \in MediaHist
    BY <1>0, <2>1 DEF MediaHist
  <2> QED
    BY <1>5, <2>1, <2>2 DEF Fair
<1> QED
  BY <1>3, <1>4, <1>6, <1>7

\* Uploads go on.
LEMMA MediaUploads ==
  ASSUME MediaInv, NEW c \in Conns, Media!Bump(c) \/ Media!SaveObject(c) \/ Media!Register(c)
  PROVE  MediaInv'
<1>0. /\ MediaTyped /\ hist \in MediaHist /\ db \in [row : MediaRow, object : BOOLEAN, ids : Nat]
      /\ tx[c].op = "upload" /\ tx[c].step \in {"read", "saved"} /\ tx[c].id \in Nat /\ tx[c].refs \in Nat
      /\ tx[c].keep \in BOOLEAN /\ tx[c] \in MediaCall /\ ~Deletion(tx[c]) /\ ~Deletion(Media!Idle)
      /\ Media!Idle.op \notin {"upload", "delete", "serve"}
  BY MediaTx DEF MediaInv, MediaTyped, Media!Bump, Media!SaveObject, Media!Register, Media!Uploading, Deletion
<1>1. ~Gone(c)
  BY <1>0 DEF Gone, Media!Deleting
<1>2. db.row # Media!None => db.row.refs \in Nat \ {0} /\ db.row.id \in Nat \ {0} /\ db.row \in MediaRow
                             /\ DOMAIN db.row = {"id", "refs", "keep", "past"}
  BY <1>0 DEF MediaRow, Media!None
<1>3. CASE Media!Bump(c)
  <2>1. tx' = [tx EXCEPT ![c] = Media!Idle] /\ ~Media!Locked
    BY <1>3 DEF Media!Bump, Media!Finish, Media!Continue
  <2>2. MediaStep(c, Media!Idle)
    BY <1>0, <2>1 DEF MediaStep
  <2>3. CASE Media!Ours(tx[c])
    <3>1. /\ db' = [db EXCEPT !.row = [db.row EXCEPT !.refs = tx[c].refs + 1, !.keep = tx[c].keep, !.past = FALSE]]
          /\ db.row # Media!None
      BY <1>3, <2>3 DEF Media!Bump, Media!Ours
    <3>2. PICK b \in BOOLEAN : /\ hist' = [hist EXCEPT !.holders = @ + 1, !.raced = b]
                               /\ b <=> hist.raced \/ Media!Raced(tx[c])
      BY <1>3, <2>3 DEF Media!Bump
    <3>3. db.row \in [id : Nat \ {0}, refs : Nat \ {0}, keep : BOOLEAN, past : BOOLEAN]
      BY <1>0, <3>1 DEF MediaRow
    <3> DEFINE row == [db.row EXCEPT !.refs = tx[c].refs + 1, !.keep = tx[c].keep, !.past = FALSE]
    <3>11. tx[c].refs + 1 \in Nat \ {0}
      BY <1>0
    <3>12. /\ row \in [id : Nat \ {0}, refs : Nat \ {0}, keep : BOOLEAN, past : BOOLEAN]
           /\ row.id = db.row.id /\ row.refs = tx[c].refs + 1
      BY <1>0, <3>3, <3>11
    <3>13. db' = [db EXCEPT !.row = row]
      BY <3>1
    <3> HIDE DEF row
    <3>14. row \in MediaRow /\ row # Media!None
      BY <3>12 DEF MediaRow, Media!None
    <3>5. /\ db' \in [row : MediaRow, object : BOOLEAN, ids : Nat]
          /\ db'.row = row /\ db'.object = db.object /\ db'.ids = db.ids
      BY <1>0, <3>13, <3>14
    <3>4. db'.row # Media!None /\ db'.row.id = db.row.id /\ db'.row.refs = tx[c].refs + 1
      BY <3>5, <3>12, <3>14
    <3>15. hist.holders + 1 \in Nat
      BY <1>0 DEF MediaHist
    <3>6. /\ hist' \in MediaHist /\ hist'.holders = hist.holders + 1 /\ hist'.raced = b /\ hist'.purged = hist.purged
          /\ hist'.over = hist.over /\ hist'.unread = hist.unread /\ hist'.cut = hist.cut
          /\ hist'.torn = hist.torn /\ hist'.twice = hist.twice /\ hist'.under = hist.under
      BY <1>0, <3>2, <3>15 DEF MediaHist
    <3>7. Fair(hist') => Fair(hist) /\ db'.row.refs = db.row.refs + 1
      BY <2>3, <3>2, <3>4, <3>6 DEF Fair, Media!Raced
    <3>8. MediaTyped'
      BY <2>2, <3>5, <3>6, MediaSets DEF MediaInv, MediaTyped
    <3>9. Fair(hist') => MediaCounted'
      BY <1>0, <2>1, <2>2, <3>1, <3>4, <3>5, <3>6, <3>7, <3>8, MediaBooks
    <3>10. MediaKept'
      BY <1>0, <1>1, <2>2, <3>1, <3>4, <3>6, <3>8, MediaObject
    <3> QED
      BY <1>0, <2>2, <3>5, <3>6, <3>7, <3>9, <3>10, MediaWhole
  <2>4. CASE ~Media!Ours(tx[c])
    <3>1. db' = db /\ hist' = hist
      BY <1>3, <2>4 DEF Media!Bump
    <3>2. MediaTyped' /\ SameRow
      BY <2>2, <3>1, MediaSets DEF MediaInv, MediaTyped, SameRow
    <3>3. Fair(hist') => MediaCounted'
      BY <1>0, <2>2, <3>1, <3>2, MediaBooks
    <3>4. MediaKept'
      BY <1>0, <1>1, <2>2, <3>1, <3>2, MediaObject
    <3> QED
      BY <1>0, <2>2, <3>1, <3>3, <3>4, MediaWhole
  <2> QED
    BY <2>3, <2>4
<1>4. CASE Media!SaveObject(c)
  <2> DEFINE t == [tx[c] EXCEPT !.step = "saved"]
  <2>1. tx' = [tx EXCEPT ![c] = t] /\ db' = [db EXCEPT !.object = TRUE] /\ hist' = hist
    BY <1>4 DEF Media!SaveObject, Media!Continue
  <2>2. t \in MediaCall /\ t.op = "upload" /\ ~Deletion(t)
    BY <1>0 DEF MediaCall, Deletion
  <2> HIDE DEF t
  <2>3. MediaStep(c, t)
    BY <2>1, <2>2 DEF MediaStep
  <2>4. db' \in [row : MediaRow, object : BOOLEAN, ids : Nat] /\ db'.row = db.row /\ db'.object
    BY <1>0, <2>1
  <2>5. MediaTyped' /\ SameRow
    BY <1>0, <2>1, <2>3, <2>4, MediaSets DEF MediaTyped, SameRow
  <2>6. Fair(hist') => MediaCounted'
    BY <2>1, <2>2, <2>3, <2>5, MediaBooks
  <2>7. MediaKept'
    BY <2>1, <2>2, <2>3, <2>4, <2>5, MediaObject
  <2> QED
    BY <1>0, <2>1, <2>2, <2>3, <2>4, <2>6, <2>7, MediaWhole
<1>5. CASE Media!Register(c)
  <2>1. tx' = [tx EXCEPT ![c] = Media!Idle] /\ Media!Uploading(c, "saved")
    BY <1>5 DEF Media!Register, Media!Finish, Media!Continue
  <2>2. MediaStep(c, Media!Idle)
    BY <1>0, <2>1 DEF MediaStep
  <2>3. CASE db.row = Media!None
    <3> DEFINE row == [id |-> db.ids + 1, refs |-> 1, keep |-> tx[c].keep, past |-> FALSE]
    <3>1. db' = [db EXCEPT !.ids = @ + 1, !.row = row] /\ hist' = [hist EXCEPT !.holders = @ + 1]
      BY <1>5, <2>3 DEF Media!Register
    <3>2. row \in MediaRow /\ row # Media!None /\ row.refs = 1
      BY <1>0 DEF MediaRow, Media!None
    <3> HIDE DEF row
    <3>8. db.ids + 1 \in Nat
      BY <1>0
    <3>3. db' \in [row : MediaRow, object : BOOLEAN, ids : Nat] /\ db'.row = row /\ db'.object = db.object
      BY <1>0, <3>1, <3>2, <3>8
    <3>4. /\ hist' \in MediaHist /\ hist'.holders = hist.holders + 1 /\ hist'.raced = hist.raced
          /\ hist'.purged = hist.purged /\ hist'.over = hist.over /\ hist'.unread = hist.unread
          /\ hist'.cut = hist.cut
          /\ hist'.torn = hist.torn /\ hist'.twice = hist.twice /\ hist'.under = hist.under
      BY <1>0, <3>1 DEF MediaHist
    <3>5. MediaTyped'
      BY <2>2, <3>3, <3>4, MediaSets DEF MediaInv, MediaTyped
    <3>6. Fair(hist') => Fair(hist) /\ MediaCounted'
      BY <1>0, <2>2, <2>3, <3>2, <3>3, <3>4, <3>5, MediaBooks DEF Fair
    <3>7. MediaKept'
      BY <1>0, <1>1, <2>1, <2>2, <3>3, <3>4, <3>5, MediaObject
    <3> QED
      BY <1>0, <2>2, <3>3, <3>4, <3>6, <3>7, MediaWhole
  <2>4. CASE db.row # Media!None
    <3>1. db' = db /\ hist' = hist
      BY <1>5, <2>4 DEF Media!Register
    <3>2. MediaTyped' /\ SameRow
      BY <2>2, <3>1, MediaSets DEF MediaInv, MediaTyped, SameRow
    <3>3. Fair(hist') => MediaCounted'
      BY <1>0, <2>2, <3>1, <3>2, MediaBooks
    <3>4. MediaKept'
      BY <1>0, <1>1, <2>2, <3>1, <3>2, MediaObject
    <3> QED
      BY <1>0, <2>2, <3>1, <3>3, <3>4, MediaWhole
  <2> QED
    BY <2>3, <2>4
<1> QED
  BY <1>3, <1>4, <1>5

\* The holders after a reference was given back.
LEMMA MediaReturned ==
  ASSUME NEW h \in MediaHist, NEW r
  PROVE  /\ Media!Returned(h, r) \in MediaHist
         /\ Media!Returned(h, r) = [h EXCEPT !.holders = Media!Returned(h, r).holders]
         /\ ~r.purge /\ h.holders > 0 => Media!Returned(h, r).holders = h.holders - 1
<1>1. h.holders \in Nat /\ h = [h EXCEPT !.holders = h.holders]
  BY DEF MediaHist
<1>2. CASE r.purge \/ h.holders = 0
  BY <1>1, <1>2 DEF Media!Returned
<1>3. CASE ~(r.purge \/ h.holders = 0)
  <2>1. Media!Returned(h, r) = [h EXCEPT !.holders = h.holders - 1] /\ h.holders - 1 \in Nat
    BY <1>1, <1>3 DEF Media!Returned
  <2> QED
    BY <1>3, <2>1 DEF MediaHist
<1> QED
  BY <1>2, <1>3

\* Deletions go on.
LEMMA MediaDeletes ==
  ASSUME MediaInv, NEW c \in Conns,
         Media!Release(c) \/ Media!DropRow(c) \/ Media!DropObject(c) \/ Media!CommitDelete(c)
  PROVE  MediaInv'
<1>0. /\ MediaTyped /\ hist \in MediaHist /\ db \in [row : MediaRow, object : BOOLEAN, ids : Nat]
      /\ tx[c].op = "delete" /\ tx[c].step \in {"read", "dropped", "gone"} /\ tx[c].id \in Nat /\ tx[c].refs \in Nat
      /\ tx[c].purge \in BOOLEAN /\ tx[c].mine \in BOOLEAN /\ tx[c] \in MediaCall /\ Deletion(tx[c])
      /\ ~Deletion(Media!Idle) /\ Media!Idle.op \notin {"upload", "delete", "serve"}
  BY MediaTx DEF MediaInv, MediaTyped, Media!Release, Media!DropRow, Media!DropObject, Media!CommitDelete,
                 Media!Deleting, Deletion
<1>1. /\ tx[c].purge => hist.purged
      /\ Fair(hist) => MediaCounted /\ Returner(tx[c]) /\ Media!Ours(tx[c])
  BY <1>0 DEF MediaInv, MediaCounted
<1>2. /\ tx[c] \in [op : {"delete"}, step : {"read", "dropped", "gone"}, id : Nat, refs : Nat, purge : BOOLEAN,
                    mine : BOOLEAN]
      /\ ~Media!Uploading(c, "saved")
  BY <1>0 DEF MediaCall, Media!Uploading
<1>3. CASE Media!Release(c)
  <2>1. tx' = [tx EXCEPT ![c] = Media!Idle] /\ ~Media!Locked /\ tx[c].refs > 1 /\ ~Gone(c)
    BY <1>3 DEF Media!Release, Media!Finish, Media!Continue, Media!Deleting, Gone
  <2>2. MediaStep(c, Media!Idle)
    BY <1>0, <2>1 DEF MediaStep
  <2>3. CASE Media!Ours(tx[c])
    <3>1. db' = [db EXCEPT !.row = [db.row EXCEPT !.refs = tx[c].refs - 1]] /\ db.row # Media!None
      BY <1>3, <2>3 DEF Media!Release, Media!Ours
    <3> DEFINE h == Media!Returned(hist, tx[c])
    <3>2. PICK b \in BOOLEAN : hist' = [h EXCEPT !.raced = b] /\ (b <=> h.raced \/ Media!Raced(tx[c]))
      BY <1>3, <2>3 DEF Media!Release
    <3>3. h \in MediaHist /\ h = [hist EXCEPT !.holders = h.holders]
          /\ (~tx[c].purge /\ hist.holders > 0 => h.holders = hist.holders - 1)
      BY <1>0, MediaReturned
    <3> HIDE DEF h
    <3>4. /\ hist' \in MediaHist /\ hist'.holders = h.holders /\ hist'.raced = b /\ hist'.purged = h.purged
          /\ hist'.over = h.over /\ hist'.unread = h.unread /\ hist'.cut = h.cut
          /\ hist'.torn = h.torn /\ hist'.twice = h.twice /\ hist'.under = h.under
      BY <3>2, <3>3 DEF MediaHist
    <3>5. /\ h.purged = hist.purged /\ h.over = hist.over /\ h.unread = hist.unread /\ h.cut = hist.cut
          /\ h.torn = hist.torn /\ h.twice = hist.twice /\ h.under = hist.under /\ h.raced = hist.raced
      BY <1>0, <3>3 DEF MediaHist
    <3> DEFINE row == [db.row EXCEPT !.refs = tx[c].refs - 1]
    <3>6. tx[c].refs - 1 \in Nat \ {0}
            /\ db.row \in [id : Nat \ {0}, refs : Nat \ {0}, keep : BOOLEAN, past : BOOLEAN]
      BY <1>0, <2>1, <3>1 DEF MediaRow
    <3>7. /\ row \in [id : Nat \ {0}, refs : Nat \ {0}, keep : BOOLEAN, past : BOOLEAN]
          /\ row.id = db.row.id /\ row.refs = tx[c].refs - 1 /\ db' = [db EXCEPT !.row = row]
      BY <3>1, <3>6
    <3> HIDE DEF row
    <3>8. row \in MediaRow /\ row # Media!None
      BY <3>7 DEF MediaRow, Media!None
    <3>9. db' \in [row : MediaRow, object : BOOLEAN, ids : Nat] /\ db'.row = row /\ db'.object = db.object
      BY <1>0, <3>7, <3>8
    <3>10. MediaTyped'
      BY <2>2, <3>4, <3>9, MediaSets DEF MediaInv, MediaTyped
    <3>11. Fair(hist') => Fair(hist) /\ tx[c].refs = db.row.refs
      BY <2>3, <3>2, <3>4, <3>5 DEF Fair, Media!Raced
    <3>12. Fair(hist') => hist'.holders = hist.holders - 1
      <4> SUFFICES ASSUME Fair(hist') PROVE hist'.holders = hist.holders - 1
        OBVIOUS
      <4>1. ~tx[c].purge /\ hist.holders = db.row.refs
        BY <1>1, <3>1, <3>11 DEF Fair, MediaCounted
      <4> QED
        BY <1>0, <2>1, <3>3, <3>4, <3>11, <4>1, hist.holders > 0
    <3>13. Fair(hist') => MediaCounted'
      BY <1>0, <2>1, <2>2, <3>1, <3>7, <3>8, <3>9, <3>10, <3>11, <3>12, MediaBooks
    <3>14. MediaKept'
      BY <1>0, <2>1, <2>2, <3>1, <3>4, <3>5, <3>9, <3>10, MediaObject
    <3> QED
      BY <1>0, <2>2, <3>4, <3>5, <3>9, <3>11, <3>13, <3>14, MediaWhole
  <2>4. CASE ~Media!Ours(tx[c])
    <3>1. db' = db /\ hist' = hist
      BY <1>3, <2>4 DEF Media!Release
    <3>2. MediaTyped' /\ SameRow
      BY <2>2, <3>1, MediaSets DEF MediaInv, MediaTyped, SameRow
    <3>3. Fair(hist') => MediaCounted'
      BY <1>0, <2>2, <3>1, <3>2, MediaBooks
    <3>4. MediaKept'
      BY <1>0, <2>1, <2>2, <3>1, <3>2, MediaObject
    <3> QED
      BY <1>0, <2>2, <3>1, <3>3, <3>4, MediaWhole
  <2> QED
    BY <2>3, <2>4
<1>4. CASE Media!DropRow(c)
  <2> DEFINE t == [tx[c] EXCEPT !.step = "dropped", !.mine = Media!Ours(tx[c])]
  <2>1. /\ tx' = [tx EXCEPT ![c] = t] /\ db' = db /\ ~Gone(c) /\ tx[c].refs = 1
    BY <1>4 DEF Media!DropRow, Media!Continue, Gone, Media!Deleting
  <2>2. /\ t \in MediaCall /\ t.op = "delete" /\ t.step = "dropped" /\ t.mine = Media!Ours(tx[c])
        /\ t.id = tx[c].id /\ t.purge = tx[c].purge /\ Deletion(t)
    BY <1>2 DEF MediaCall, Deletion, Media!Ours
  <2> HIDE DEF t
  <2>3. MediaStep(c, t)
    BY <2>1, <2>2 DEF MediaStep
  <2>4. PICK b \in BOOLEAN : hist' = [hist EXCEPT !.raced = b] /\ (b <=> hist.raced \/ Media!Raced(tx[c]))
    BY <1>4 DEF Media!DropRow
  <2>5. /\ hist' \in MediaHist /\ hist'.holders = hist.holders /\ hist'.raced = b /\ hist'.purged = hist.purged
        /\ hist'.over = hist.over /\ hist'.unread = hist.unread /\ hist'.cut = hist.cut
        /\ hist'.torn = hist.torn /\ hist'.twice = hist.twice /\ hist'.under = hist.under
    BY <1>0, <2>4 DEF MediaHist
  <2>6. MediaTyped' /\ SameRow
    BY <1>0, <2>1, <2>3, <2>5, MediaSets DEF MediaTyped, SameRow
  <2>7. Fair(hist') => Fair(hist) /\ Media!Ours(tx[c]) /\ db.row.refs = 1
    BY <1>1, <2>1, <2>4, <2>5 DEF Fair, Media!Raced
  <2>8. Fair(hist') => MediaCounted'
    BY <1>0, <2>2, <2>3, <2>5, <2>6, <2>7, MediaBooks
  <2>9. MediaKept'
    BY <1>0, <2>1, <2>2, <2>3, <2>5, <2>6, MediaObject
  <2> QED
    BY <1>0, <1>1, <2>1, <2>2, <2>3, <2>5, <2>7, <2>8, <2>9, MediaWhole
<1>5. CASE Media!DropObject(c)
  <2> DEFINE t == [tx[c] EXCEPT !.step = "gone"]
  <2>1. PICK b \in BOOLEAN : db' = [db EXCEPT !.object = b]
    <3>1. PICK gone \in BOOLEAN : db' = [db EXCEPT !.object = @ /\ ~gone]
      BY <1>5 DEF Media!DropObject
    <3> QED
      BY <1>0, <3>1
  <2>2. tx' = [tx EXCEPT ![c] = t] /\ ~Gone(c) /\ tx[c].step = "dropped"
    BY <1>5 DEF Media!DropObject, Media!Continue, Gone, Media!Deleting
  <2>3. /\ t \in MediaCall /\ t.op = "delete" /\ t.step = "gone" /\ t.mine = tx[c].mine
        /\ t.id = tx[c].id /\ t.purge = tx[c].purge /\ Deletion(t)
    BY <1>2 DEF MediaCall, Deletion
  <2> HIDE DEF t
  <2>4. MediaStep(c, t)
    BY <2>2, <2>3 DEF MediaStep
  <2>5. PICK w \in BOOLEAN, u \in BOOLEAN, x \in BOOLEAN :
          /\ hist' = [hist EXCEPT !.twice = w, !.under = u, !.cut = x]
          /\ w <=> hist.twice \/ ~tx[c].mine
          /\ u <=> hist.under \/ \E o \in Conns : Media!Uploading(o, "saved")
          /\ x <=> hist.cut \/ \E o \in Conns : tx[o].op = "serve"
    BY <1>5, Zenon DEF Media!DropObject
  <2>6. /\ hist' \in MediaHist /\ hist'.holders = hist.holders /\ hist'.raced = hist.raced
        /\ hist'.purged = hist.purged
        /\ hist'.over = hist.over /\ hist'.unread = hist.unread /\ hist'.cut = x
        /\ hist'.torn = hist.torn /\ hist'.twice = w /\ hist'.under = u
    BY <1>0, <2>5 DEF MediaHist
  <2>7. db' \in [row : MediaRow, object : BOOLEAN, ids : Nat] /\ db'.row = db.row
    BY <1>0, <2>1
  <2>8. MediaTyped' /\ SameRow
    BY <1>0, <2>4, <2>6, <2>7, MediaSets DEF MediaTyped, SameRow
  <2>9. Fair(hist) => MediaCounted'
    <3>1. Fair(hist) => tx[c].mine /\ db.row.refs = 1
      BY <1>0, <1>1, <2>2 DEF MediaCounted
    <3> QED
      BY <1>0, <2>3, <2>4, <2>6, <2>8, <3>1, MediaBooks
  <2>10. MediaKept'
    BY <1>0, <2>2, <2>3, <2>4, <2>5, <2>6, <2>7, <2>8, MediaObject
  <2>11. Fair(hist') => Fair(hist)
    BY <2>6 DEF Fair
  <2> QED
    BY <1>0, <1>1, <2>3, <2>4, <2>5, <2>6, <2>7, <2>9, <2>10, <2>11, MediaWhole
<1>6. CASE Media!CommitDelete(c)
  <2>1. tx' = [tx EXCEPT ![c] = Media!Idle] /\ hist' = Media!Returned(hist, tx[c]) /\ tx[c].step = "gone"
    BY <1>6 DEF Media!CommitDelete, Media!Finish, Media!Continue, Media!Deleting
  <2>2. MediaStep(c, Media!Idle)
    BY <1>0, <2>1 DEF MediaStep
  <2>3. hist' \in MediaHist /\ hist' = [hist EXCEPT !.holders = hist'.holders]
        /\ (~tx[c].purge /\ hist.holders > 0 => hist'.holders = hist.holders - 1)
    BY <1>0, <2>1, MediaReturned
  <2>4. /\ hist'.raced = hist.raced /\ hist'.purged = hist.purged
        /\ hist'.over = hist.over /\ hist'.unread = hist.unread /\ hist'.cut = hist.cut
        /\ hist'.torn = hist.torn /\ hist'.twice = hist.twice /\ hist'.under = hist.under
    BY <1>0, <2>3 DEF MediaHist
  <2>5. Media!None \in MediaRow
    BY DEF MediaRow
  <2>6. /\ db' \in [row : MediaRow, object : BOOLEAN, ids : Nat] /\ db'.object = db.object
        /\ tx[c].mine => db'.row = Media!None
        /\ ~tx[c].mine => db' = db
    BY <1>0, <1>6, <2>5 DEF Media!CommitDelete
  <2>7. MediaTyped'
    BY <1>0, <2>2, <2>3, <2>6, MediaSets DEF MediaTyped
  <2>8. Fair(hist') => Fair(hist)
    BY <2>4 DEF Fair
  <2>9. Fair(hist) => MediaCounted'
    <3> SUFFICES ASSUME Fair(hist) PROVE MediaCounted'
      OBVIOUS
    <3>1. tx[c].mine /\ db.row.refs = 1 /\ db.row # Media!None /\ ~tx[c].purge /\ hist.holders = 1
      BY <1>0, <1>1, <2>1 DEF MediaCounted, Media!Ours, Returner
    <3> QED
      BY <1>0, <2>2, <2>3, <2>6, <2>7, <3>1, MediaBooks
  <2>10. Gone(c) => db'.row = Media!None
    BY <2>6 DEF Gone
  <2>11. MediaKept'
    <3>1. db'.row # Media!None => db.row # Media!None
      BY <2>6
    <3> QED
      BY <1>0, <2>2, <2>4, <2>6, <2>7, <2>10, <3>1, MediaObject
  <2> QED
    BY <1>0, <2>2, <2>3, <2>4, <2>6, <2>8, <2>9, <2>11, MediaWhole
<1> QED
  BY <1>3, <1>4, <1>5, <1>6

\* A body is sent, or a request fails.
LEMMA MediaEnds ==
  ASSUME MediaInv, NEW c \in Conns, Media!SendBody(c) \/ Media!Aborted(c)
  PROVE  MediaInv'
<1>0. /\ MediaTyped /\ hist \in MediaHist /\ db \in [row : MediaRow, object : BOOLEAN, ids : Nat]
      /\ ~Deletion(Media!Idle) /\ Media!Idle.op \notin {"upload", "delete", "serve"}
  BY MediaTx DEF MediaInv, MediaTyped
<1>1. tx' = [tx EXCEPT ![c] = Media!Idle] /\ db' = db
  BY DEF Media!SendBody, Media!Aborted, Media!Finish, Media!Continue
<1>2. MediaStep(c, Media!Idle) /\ SameRow
  BY <1>1 DEF MediaStep, SameRow
<1>3. PICK n \in BOOLEAN, m \in BOOLEAN :
        /\ hist' = [hist EXCEPT !.torn = n, !.unread = m]
        /\ hist.torn => n
        /\ Gone(c) => n \/ db.object
        /\ m => hist.unread \/ (tx[c].op = "serve" /\ ~db.object)
  <2>0. hist = [hist EXCEPT !.torn = hist.torn] /\ hist.torn \in BOOLEAN /\ hist.unread \in BOOLEAN
    BY <1>0 DEF MediaHist
  <2>1. CASE Media!SendBody(c)
    <3>1. tx[c].op = "serve" /\ hist' = [hist EXCEPT !.unread = @ \/ ~db.object] /\ ~Gone(c)
      BY <2>1 DEF Media!SendBody, Gone, Media!Deleting
    <3> DEFINE m == hist.unread \/ ~db.object
    <3>2. hist' = [hist EXCEPT !.torn = hist.torn, !.unread = m] /\ m \in BOOLEAN
      BY <1>0, <3>1 DEF MediaHist
    <3> QED
      BY <2>0, <3>1, <3>2
  <2>2. CASE Media!Aborted(c)
    <3> DEFINE n == hist.torn \/ (Media!Deleting(c, "gone") /\ ~db.object)
    <3>1. hist' = [hist EXCEPT !.torn = n, !.unread = hist.unread] /\ n \in BOOLEAN
      BY <1>0, <2>2 DEF MediaHist, Media!Aborted
    <3>2. Gone(c) => n \/ db.object
      BY DEF Gone
    <3> QED
      BY <2>0, <3>1, <3>2
  <2> QED
    BY <2>1, <2>2
<1>4. /\ hist' \in MediaHist /\ hist'.holders = hist.holders /\ hist'.raced = hist.raced /\ hist'.purged = hist.purged
      /\ hist'.over = hist.over /\ hist'.unread = m /\ hist'.cut = hist.cut
      /\ hist'.torn = n /\ hist'.twice = hist.twice /\ hist'.under = hist.under
  BY <1>0, <1>3 DEF MediaHist
<1>5. MediaTyped'
  BY <1>0, <1>1, <1>2, <1>4, MediaSets DEF MediaTyped
<1>6. Fair(hist) => MediaCounted'
  BY <1>0, <1>2, <1>4, <1>5, MediaBooks
<1>7. MediaKept'
  BY <1>0, <1>1, <1>2, <1>3, <1>4, <1>5, MediaObject
<1>8. Fair(hist') => Fair(hist)
  BY <1>4 DEF Fair
<1>9. hist'.unread => hist.unread \/ hist'.cut
  BY <1>3, <1>4 DEF MediaInv, MediaKept
<1> QED
  BY <1>0, <1>1, <1>2, <1>4, <1>6, <1>7, <1>8, <1>9, MediaWhole

\* Nothing but the age of the row changes.
LEMMA MediaQuiet ==
  ASSUME MediaInv, UNCHANGED <<tx, hist>>, db' \in [row : MediaRow, object : BOOLEAN, ids : Nat], SameRow,
         db'.object = db.object
  PROVE  MediaInv'
<1>1. Returners' = Returners
  BY DEF Returners, Returner, Deletion
<1>2. MediaTyped'
  BY DEF MediaInv, MediaTyped
<1>3. Fair(hist) => MediaCounted'
  <2> SUFFICES ASSUME Fair(hist), MediaCounted PROVE MediaCounted'
    BY DEF MediaInv
  <2>1. \A c \in Conns : Deletion(tx[c]) => db.row # Media!None
    BY DEF MediaCounted, Media!Ours
  <2> QED
    BY <1>1, <2>1 DEF MediaCounted, SameRow, Media!Ours
<1>4. MediaKept'
  BY DEF MediaInv, MediaKept, SameRow, Gone, Media!Deleting, Media!Uploading
<1> QED
  BY <1>2, <1>3, <1>4 DEF MediaInv, Media!BodySent

LEMMA MediaInit == Media!Init => MediaInv
<1> SUFFICES ASSUME Media!Init PROVE MediaInv
  OBVIOUS
<1>1. \A c \in Conns : tx[c] = Media!Idle
  BY DEF Media!Init, Media!Resting
<1>2. \A c \in Conns : ~Deletion(tx[c]) /\ tx[c].op = "idle"
  BY <1>1 DEF Deletion, Media!Idle
<1>3. Returners = {}
  BY <1>2 DEF Returners, Returner
<1>4. MediaTyped
  BY DEF Media!Init, Media!Resting, MediaTyped, MediaRow, MediaHist
<1>5. db.row = Media!None /\ hist.holders = 0 /\ ~hist.unread
  BY DEF Media!Init
<1>6. MediaCounted
  BY <1>2, <1>3, <1>5, FS_EmptySet DEF MediaCounted
<1>7. MediaKept
  BY <1>2, <1>5 DEF MediaKept, Media!Uploading
<1> QED
  BY <1>2, <1>4, <1>5, <1>6, <1>7 DEF MediaInv, Media!BodySent

LEMMA MediaNext == MediaInv /\ Media!Next => MediaInv'
<1> SUFFICES ASSUME MediaInv, Media!Next PROVE MediaInv'
  OBVIOUS
<1>1. CASE Media!Age
  <2>1. /\ db.row # Media!None /\ db' = [db EXCEPT !.row = [db.row EXCEPT !.past = TRUE]] /\ UNCHANGED <<tx, hist>>
        /\ db \in [row : MediaRow, object : BOOLEAN, ids : Nat]
    BY <1>1 DEF Media!Age, MediaInv, MediaTyped
  <2> DEFINE row == [db.row EXCEPT !.past = TRUE]
  <2>2. db.row \in [id : Nat \ {0}, refs : Nat \ {0}, keep : BOOLEAN, past : BOOLEAN]
    BY <2>1 DEF MediaRow
  <2>3. /\ row \in [id : Nat \ {0}, refs : Nat \ {0}, keep : BOOLEAN, past : BOOLEAN]
        /\ row.id = db.row.id /\ row.refs = db.row.refs /\ db' = [db EXCEPT !.row = row]
    BY <2>1, <2>2
  <2> HIDE DEF row
  <2>4. row \in MediaRow /\ row # Media!None
    BY <2>3 DEF MediaRow, Media!None
  <2>5. db' \in [row : MediaRow, object : BOOLEAN, ids : Nat] /\ db'.row = row /\ db'.object = db.object
    BY <2>1, <2>3, <2>4
  <2>6. SameRow
    BY <2>1, <2>3, <2>4, <2>5 DEF SameRow
  <2> QED
    BY <2>1, <2>5, <2>6, MediaQuiet
<1> QED
  BY <1>1, MediaBegins, MediaUploads, MediaDeletes, MediaEnds DEF Media!Next

LEMMA MediaStays == MediaInv /\ UNCHANGED <<db, tx, hist, left>> => MediaInv'
<1> SUFFICES ASSUME MediaInv, UNCHANGED <<db, tx, hist, left>> PROVE MediaInv'
  OBVIOUS
<1>1. db' \in [row : MediaRow, object : BOOLEAN, ids : Nat] /\ db'.object = db.object
  BY DEF MediaInv, MediaTyped
<1>2. SameRow
  BY DEF SameRow
<1> QED
  BY <1>1, <1>2, MediaQuiet

LEMMA MediaFaithful == MediaInv => Media!MediaSound
<1> SUFFICES ASSUME MediaInv PROVE Media!RowHasObject /\ Media!RefsCounted
  BY DEF MediaInv, Media!MediaSound
<1>1. (\E c \in Conns : Gone(c)) => Media!Locked
  BY DEF Gone, Media!Deleting, Media!Locked
<1> QED
  BY <1>1 DEF MediaInv, MediaKept, MediaCounted, Media!RowHasObject, Media!RefsCounted, Fair

-----------------------------------------------------------------------------
(* Administrators and the audit trail                                      *)

\* What is left to do of a request of each kind.
OpsTodo ==
  [switch  |-> {<<"bot", "audit">>, <<"audit">>},
   install |-> {<<"bot", "audit">>, <<"audit">>},
   delete  |-> {<<"audit", "commit">>, <<"commit">>},
   ticket  |-> {<<"mint", "audit", "hand">>, <<"audit", "hand">>, <<"hand">>},
   logs    |-> {<<"open", "stream", "close">>, <<"stream", "close">>, <<"close">>}]

OpsKinds == {"switch", "install", "delete", "ticket", "logs"}

OpsRecord == [op : OpsKinds, id : Nat, part : Ops!Parts \cup {""}, want : BOOLEAN, todo : UNION {OpsTodo[k] : k \in OpsKinds}]

OpsCall == {r \in OpsRecord : r.todo \in OpsTodo[r.op] /\ (r.op = "switch" => r.part \in Ops!Parts)}

OpsEntry == [id : Nat, op : OpsKinds \cup {"denied"}, part : Ops!Parts \cup {""}, want : BOOLEAN]

OpsDb ==
  [granted : BOOLEAN, on : [Ops!Parts -> BOOLEAN], item : {"live", "gone"}, audit : Seq(OpsEntry), handed : SUBSET Nat,
   upstream : SUBSET Nat]

OpsHist ==
  [switched : SUBSET Nat, deleted : SUBSET Nat, blind : SUBSET Nat, crossed : BOOLEAN, kept : SUBSET Nat,
   unread : SUBSET Nat]

OpsTyped == tx \in [Conns -> {Ops!Idle} \cup OpsCall] /\ db \in OpsDb /\ hist \in OpsHist /\ left \in Nat

Auditing(r) == r.op \in {"switch", "install"} /\ r.todo = <<"audit">>
Acting(r) == r.op \in {"ticket", "delete"} /\ r.todo \in {<<"hand">>, <<"commit">>}
Streaming(r) == r.op = "logs" /\ r.todo \in {<<"stream", "close">>, <<"close">>}
Switching(r) == r.op = "switch" /\ r.todo = <<"audit">>

\* An open stream is read by a request, or was never begun.
OpsStreams == \A x \in db.upstream : x \in hist.unread \/ \E c \in Conns : Streaming(tx[c]) /\ tx[c].id = x

\* Audited comes before the ticket and the deletion, and is still to come, or
\* is lost, where the bot has switched.
OpsTraced ==
  /\ \A c \in Conns : Auditing(tx[c]) => tx[c].id \in hist.switched
  /\ \A c \in Conns : Acting(tx[c]) => tx[c].id \in Ops!Audited
  /\ \A x \in db.handed \cup hist.deleted : x \in Ops!Audited
  /\ \A x \in hist.switched : x \in Ops!Audited \cup hist.blind \/ \E c \in Conns : Auditing(tx[c]) /\ tx[c].id = x

\* What a row of the trail stands for.
Explained(e) ==
  \/ e.op = "denied"
  \/ e.id \in hist.kept
  \/ e.op \in {"switch", "install"} /\ e.id \in hist.switched
  \/ e.op = "ticket" /\ e.id \in db.handed
  \/ e.op = "delete" /\ e.id \in hist.deleted
  \/ \E c \in Conns : Acting(tx[c]) /\ tx[c].id = e.id /\ tx[c].op = e.op

OpsTrail == \A i \in DOMAIN db.audit : Explained(db.audit[i])

\* The last row of the trail on a part.
LastOn(i) ==
  /\ db.audit[i].op = "switch"
  /\ \A j \in DOMAIN db.audit : j > i /\ db.audit[j].op = "switch" => db.audit[j].part # db.audit[i].part

\* The bot is as the request that switched it and is not audited wants it; one
\* for each part; or as the last audited wanted it.
OpsFollows ==
  hist.blind = {} /\ ~hist.crossed =>
    /\ \A c \in Conns : Switching(tx[c]) => db.on[tx[c].part] = tx[c].want
    /\ \A c, d \in Conns : Switching(tx[c]) /\ Switching(tx[d]) /\ tx[c].part = tx[d].part => c = d
    /\ \A i \in DOMAIN db.audit :
         LastOn(i) => \/ db.on[db.audit[i].part] = db.audit[i].want
                      \/ \E c \in Conns : Switching(tx[c]) /\ tx[c].part = db.audit[i].part

OpsInv == OpsTyped /\ OpsStreams /\ OpsTraced /\ OpsTrail /\ OpsFollows

OpsStep(c, t) == c \in Conns /\ t \in {Ops!Idle} \cup OpsCall /\ tx' = [tx EXCEPT ![c] = t]

LEMMA OpsTx ==
  ASSUME OpsTyped, NEW c, NEW t, OpsStep(c, t)
  PROVE  /\ tx' \in [Conns -> {Ops!Idle} \cup OpsCall]
         /\ tx'[c] = t /\ \A d \in Conns \ {c} : tx'[d] = tx[d]
         /\ c \in Conns
BY DEF OpsStep, OpsTyped

\* A request that is free has no part in the promises.
LEMMA OpsFree == ~Auditing(Ops!Idle) /\ ~Acting(Ops!Idle) /\ ~Streaming(Ops!Idle) /\ ~Switching(Ops!Idle)
BY DEF Auditing, Acting, Streaming, Switching, Ops!Idle

LEMMA AppendFacts ==
  ASSUME NEW S, NEW s \in Seq(S), NEW e \in S
  PROVE  /\ Append(s, e) \in Seq(S) /\ DOMAIN s = 1..Len(s) /\ DOMAIN Append(s, e) = 1..(Len(s) + 1)
         /\ \A i \in DOMAIN s : Append(s, e)[i] = s[i]
         /\ Append(s, e)[Len(s) + 1] = e /\ Len(s) \in Nat /\ Append(s, e) # s
<1>1. /\ Append(s, e) \in Seq(S) /\ Len(Append(s, e)) = Len(s) + 1 /\ Len(s) \in Nat
      /\ \A i \in 1..Len(s) : Append(s, e)[i] = s[i]
      /\ Append(s, e)[Len(s) + 1] = e /\ DOMAIN s = 1..Len(s)
  OBVIOUS
<1>2. DOMAIN Append(s, e) = 1..(Len(s) + 1)
  BY <1>1
<1>3. Append(s, e) # s
  <2> SUFFICES ASSUME Append(s, e) = s PROVE FALSE
    OBVIOUS
  <2>1. Len(s) = Len(s) + 1
    BY <1>1, Zenon
  <2> QED
    BY <1>1, <2>1
<1>4. \A i \in DOMAIN s : Append(s, e)[i] = s[i]
  BY <1>1
<1> QED
  BY <1>1, <1>2, <1>3, <1>4

LEMMA OpsKeepsStreams ==
  ASSUME OpsInv, NEW c, NEW t, OpsStep(c, t), hist.unread \subseteq hist'.unread,
         \A x \in db'.upstream : x \in db.upstream \/ (Streaming(t) /\ t.id = x),
         Streaming(tx[c]) => \/ Streaming(t) /\ t.id = tx[c].id
                             \/ tx[c].id \notin db'.upstream
                             \/ tx[c].id \in hist'.unread
  PROVE  OpsStreams'
<1>1. tx'[c] = t /\ c \in Conns /\ \A d \in Conns \ {c} : tx'[d] = tx[d]
  BY OpsTx DEF OpsInv
<1> SUFFICES ASSUME NEW x \in db'.upstream, x \notin hist'.unread
             PROVE  \E d \in Conns : Streaming(tx'[d]) /\ tx'[d].id = x
  BY DEF OpsStreams
<1>2. CASE x \in db.upstream
  <2>1. PICK d \in Conns : Streaming(tx[d]) /\ tx[d].id = x
    BY <1>2 DEF OpsInv, OpsStreams
  <2>2. CASE d = c
    BY <1>1, <2>1, <2>2
  <2>3. CASE d # c
    BY <1>1, <2>1, <2>3
  <2> QED
    BY <2>2, <2>3
<1> QED
  BY <1>1, <1>2

LEMMA OpsKeepsTraced ==
  ASSUME OpsInv, NEW c, NEW t, OpsStep(c, t), Ops!Audited \subseteq Ops!Audited',
         hist.switched \subseteq hist'.switched, hist.blind \subseteq hist'.blind,
         Auditing(t) => t.id \in hist'.switched, Acting(t) => t.id \in Ops!Audited',
         \A x \in db'.handed \cup hist'.deleted :
            x \in db.handed \cup hist.deleted \/ (Acting(tx[c]) /\ x = tx[c].id),
         \A x \in hist'.switched : x \in hist.switched \cup hist'.blind \/ (Auditing(t) /\ t.id = x),
         Auditing(tx[c]) => (Auditing(t) /\ t.id = tx[c].id) \/ tx[c].id \in Ops!Audited' \cup hist'.blind
  PROVE  OpsTraced'
<1>1. tx'[c] = t /\ c \in Conns /\ \A d \in Conns \ {c} : tx'[d] = tx[d]
  BY OpsTx DEF OpsInv
<1>2. \A d \in Conns : Auditing(tx'[d]) => tx'[d].id \in hist'.switched
  BY <1>1 DEF OpsInv, OpsTraced
<1>3. \A d \in Conns : Acting(tx'[d]) => tx'[d].id \in Ops!Audited'
  BY <1>1 DEF OpsInv, OpsTraced
<1>4. \A x \in db'.handed \cup hist'.deleted : x \in Ops!Audited'
  BY <1>1 DEF OpsInv, OpsTraced
<1>5. ASSUME NEW x \in hist'.switched, x \notin Ops!Audited' \cup hist'.blind
      PROVE  \E d \in Conns : Auditing(tx'[d]) /\ tx'[d].id = x
  <2>1. CASE x \in hist.switched
    <3>1. PICK d \in Conns : Auditing(tx[d]) /\ tx[d].id = x
      BY <1>5, <2>1 DEF OpsInv, OpsTraced
    <3>2. CASE d = c
      BY <1>1, <1>5, <3>1, <3>2
    <3>3. CASE d # c
      BY <1>1, <3>1, <3>3
    <3> QED
      BY <3>2, <3>3
  <2> QED
    BY <1>1, <1>5, <2>1
<1> QED
  BY <1>2, <1>3, <1>4, <1>5 DEF OpsTraced

\* The trail after a step: as it was, or with one row that is explained.
LEMMA OpsKeepsTrail ==
  ASSUME OpsInv, NEW c, NEW t, OpsStep(c, t),
         \/ db'.audit = db.audit
         \/ \E e \in OpsEntry : db'.audit = Append(db.audit, e) /\ Explained(e)',
         hist.kept \subseteq hist'.kept, hist.switched \subseteq hist'.switched, db.handed \subseteq db'.handed,
         hist.deleted \subseteq hist'.deleted,
         Acting(tx[c]) => \/ Acting(t) /\ t.id = tx[c].id /\ t.op = tx[c].op
                          \/ tx[c].id \in hist'.kept
                          \/ tx[c].op = "ticket" /\ tx[c].id \in db'.handed
                          \/ tx[c].op = "delete" /\ tx[c].id \in hist'.deleted
  PROVE  OpsTrail'
<1>1. tx'[c] = t /\ c \in Conns /\ \A d \in Conns \ {c} : tx'[d] = tx[d]
  BY OpsTx DEF OpsInv
<1>2. ASSUME NEW e, Explained(e) PROVE Explained(e)'
  <2>1. ASSUME NEW d \in Conns, Acting(tx[d]), tx[d].id = e.id, tx[d].op = e.op PROVE Explained(e)'
    <3>1. CASE d = c
      BY <1>1, <2>1, <3>1 DEF Explained
    <3>2. CASE d # c
      BY <1>1, <2>1, <3>2 DEF Explained
    <3> QED
      BY <3>1, <3>2
  <2>2. CASE ~\E d \in Conns : Acting(tx[d]) /\ tx[d].id = e.id /\ tx[d].op = e.op
    BY <1>2, <2>2 DEF Explained
  <2> QED
    BY <2>1, <2>2
<1>3. CASE db'.audit = db.audit
  BY <1>2, <1>3 DEF OpsInv, OpsTrail
<1>4. ASSUME NEW e \in OpsEntry, db'.audit = Append(db.audit, e), Explained(e)' PROVE OpsTrail'
  <2>1. /\ DOMAIN db.audit = 1..Len(db.audit) /\ DOMAIN db'.audit = 1..(Len(db.audit) + 1)
        /\ \A i \in DOMAIN db.audit : db'.audit[i] = db.audit[i]
        /\ db'.audit[Len(db.audit) + 1] = e /\ Len(db.audit) \in Nat
    BY <1>4, AppendFacts DEF OpsInv, OpsTyped, OpsDb
  <2> SUFFICES ASSUME NEW i \in DOMAIN db'.audit PROVE Explained(db.audit[i])'
    BY DEF OpsTrail
  <2>2. PICK f : f = db'.audit[i]
    OBVIOUS
  <2>3. CASE i \in DOMAIN db.audit
    <3>1. f = db.audit[i]
      BY <2>1, <2>2, <2>3
    <3>2. Explained(f)'
      BY <1>2, <2>3, <3>1 DEF OpsInv, OpsTrail
    <3> QED
      BY <2>2, <3>2 DEF Explained
  <2>4. CASE i = Len(db.audit) + 1
    BY <1>4, <2>1, <2>4 DEF Explained
  <2> QED
    BY <2>1, <2>3, <2>4
<1> QED
  BY <1>3, <1>4

\* The bot and the trail after a step: as they were for switchings,
LEMMA OpsKeepsFollows ==
  ASSUME OpsInv, NEW c, NEW t, OpsStep(c, t), hist.blind \subseteq hist'.blind, hist.crossed => hist'.crossed,
         db'.on = db.on,
         \/ db'.audit = db.audit
         \/ \E e \in OpsEntry : db'.audit = Append(db.audit, e) /\ e.op # "switch",
         Switching(t) => Switching(tx[c]) /\ t.part = tx[c].part /\ t.want = tx[c].want,
         Switching(tx[c]) => Switching(t) \/ hist'.blind # {}
  PROVE  OpsFollows'
<1>1. tx'[c] = t /\ c \in Conns /\ \A d \in Conns \ {c} : tx'[d] = tx[d]
  BY OpsTx DEF OpsInv
<1> SUFFICES ASSUME hist'.blind = {}, ~hist'.crossed
             PROVE  /\ \A d \in Conns : Switching(tx'[d]) => db'.on[tx'[d].part] = tx'[d].want
                    /\ \A d, f \in Conns : Switching(tx'[d]) /\ Switching(tx'[f])
                        /\ tx'[d].part = tx'[f].part => d = f
                    /\ \A i \in DOMAIN db'.audit :
                         LastOn(i)' => \/ db'.on[db'.audit[i].part] = db'.audit[i].want
                                       \/ \E d \in Conns : Switching(tx'[d]) /\ tx'[d].part = db'.audit[i].part
  BY DEF OpsFollows
<1>2. /\ \A d \in Conns : Switching(tx[d]) => db.on[tx[d].part] = tx[d].want
      /\ \A d, f \in Conns : Switching(tx[d]) /\ Switching(tx[f]) /\ tx[d].part = tx[f].part => d = f
      /\ \A i \in DOMAIN db.audit :
           LastOn(i) => \/ db.on[db.audit[i].part] = db.audit[i].want
                        \/ \E d \in Conns : Switching(tx[d]) /\ tx[d].part = db.audit[i].part
  BY DEF OpsInv, OpsFollows
<1>3. \A d \in Conns : Switching(tx'[d]) <=> Switching(tx[d])
  BY <1>1
<1>4. \A d \in Conns : Switching(tx'[d]) => tx'[d].part = tx[d].part /\ tx'[d].want = tx[d].want
  BY <1>1
<1>5. \A i \in DOMAIN db'.audit : LastOn(i)' => /\ i \in DOMAIN db.audit /\ db'.audit[i] = db.audit[i] /\ LastOn(i)
  <2>1. CASE db'.audit = db.audit
    BY <2>1 DEF LastOn
  <2>2. ASSUME NEW e \in OpsEntry, db'.audit = Append(db.audit, e), e.op # "switch"
        PROVE  \A i \in DOMAIN db'.audit : LastOn(i)' => /\ i \in DOMAIN db.audit /\ db'.audit[i] = db.audit[i]
                                                         /\ LastOn(i)
    <3>1. /\ DOMAIN db.audit = 1..Len(db.audit) /\ DOMAIN db'.audit = 1..(Len(db.audit) + 1)
          /\ \A i \in DOMAIN db.audit : db'.audit[i] = db.audit[i]
          /\ db'.audit[Len(db.audit) + 1] = e /\ Len(db.audit) \in Nat
      BY <2>2, AppendFacts DEF OpsInv, OpsTyped, OpsDb
    <3> QED
      BY <2>2, <3>1 DEF LastOn
  <2> QED
    BY <2>1, <2>2
<1>6. \A i \in DOMAIN db'.audit :
        LastOn(i)' => \/ db'.on[db'.audit[i].part] = db'.audit[i].want
                      \/ \E d \in Conns : Switching(tx'[d]) /\ tx'[d].part = db'.audit[i].part
  <2> SUFFICES ASSUME NEW i \in DOMAIN db'.audit, LastOn(i)',
                      ~\E d \in Conns : Switching(tx'[d]) /\ tx'[d].part = db'.audit[i].part
               PROVE  db'.on[db'.audit[i].part] = db'.audit[i].want
    OBVIOUS
  <2>1. i \in DOMAIN db.audit /\ db'.audit[i] = db.audit[i] /\ LastOn(i)
    BY <1>5
  <2>2. ~\E d \in Conns : Switching(tx[d]) /\ tx[d].part = db.audit[i].part
    BY <1>3, <1>4, <2>1
  <2> QED
    BY <1>2, <2>1, <2>2
<1> QED
  BY <1>2, <1>3, <1>4, <1>6

\* the bot has switched a part,
LEMMA OpsFollowsBot ==
  ASSUME OpsInv, NEW c, NEW t, OpsStep(c, t), hist'.blind = hist.blind, hist.crossed => hist'.crossed,
         Switching(t), ~Switching(tx[c]), t.part \in Ops!Parts, db'.on = [db.on EXCEPT ![t.part] = t.want],
         db'.audit = db.audit,
         (\E d \in Conns \ {c} : Switching(tx[d]) /\ tx[d].part = t.part) => hist'.crossed
  PROVE  OpsFollows'
<1>1. tx'[c] = t /\ c \in Conns /\ \A d \in Conns \ {c} : tx'[d] = tx[d]
  BY OpsTx DEF OpsInv
<1> SUFFICES ASSUME hist'.blind = {}, ~hist'.crossed
             PROVE  /\ \A d \in Conns : Switching(tx'[d]) => db'.on[tx'[d].part] = tx'[d].want
                    /\ \A d, f \in Conns : Switching(tx'[d]) /\ Switching(tx'[f])
                        /\ tx'[d].part = tx'[f].part => d = f
                    /\ \A i \in DOMAIN db'.audit :
                         LastOn(i)' => \/ db'.on[db'.audit[i].part] = db'.audit[i].want
                                       \/ \E d \in Conns : Switching(tx'[d]) /\ tx'[d].part = db'.audit[i].part
  BY DEF OpsFollows
<1>2. /\ \A d \in Conns : Switching(tx[d]) => db.on[tx[d].part] = tx[d].want
      /\ \A d, f \in Conns : Switching(tx[d]) /\ Switching(tx[f]) /\ tx[d].part = tx[f].part => d = f
      /\ \A i \in DOMAIN db.audit :
           LastOn(i) => \/ db.on[db.audit[i].part] = db.audit[i].want
                        \/ \E d \in Conns : Switching(tx[d]) /\ tx[d].part = db.audit[i].part
  BY DEF OpsInv, OpsFollows
<1>3. db.on \in [Ops!Parts -> BOOLEAN]
  BY DEF OpsInv, OpsTyped, OpsDb
<1>4. db'.on[t.part] = t.want /\ \A p : p # t.part => db'.on[p] = db.on[p]
  BY <1>3
<1>5. \A d \in Conns \ {c} : Switching(tx'[d]) => tx'[d].part # t.part /\ Switching(tx[d])
  BY <1>1
<1>6. \A i : LastOn(i)' <=> LastOn(i)
  BY DEF LastOn
<1>7. \A i \in DOMAIN db'.audit :
        LastOn(i)' => \/ db'.on[db'.audit[i].part] = db'.audit[i].want
                      \/ \E d \in Conns : Switching(tx'[d]) /\ tx'[d].part = db'.audit[i].part
  <2> SUFFICES ASSUME NEW i \in DOMAIN db.audit, LastOn(i),
                      ~\E d \in Conns : Switching(tx'[d]) /\ tx'[d].part = db.audit[i].part
               PROVE  db'.on[db.audit[i].part] = db.audit[i].want
    BY <1>6
  <2>1. db.audit[i].part # t.part
    BY <1>1
  <2>2. ~\E d \in Conns : Switching(tx[d]) /\ tx[d].part = db.audit[i].part
    BY <1>1
  <2> QED
    BY <1>2, <1>4, <2>1, <2>2
<1>8. \A d \in Conns : Switching(tx'[d]) => db'.on[tx'[d].part] = tx'[d].want
  BY <1>1, <1>2, <1>4, <1>5
<1>9. \A d, f \in Conns : Switching(tx'[d]) /\ Switching(tx'[f]) /\ tx'[d].part = tx'[f].part => d = f
  BY <1>1, <1>2, <1>5
<1> QED
  BY <1>7, <1>8, <1>9

\* and the row of it is written.
LEMMA OpsFollowsAudit ==
  ASSUME OpsInv, NEW c, OpsStep(c, Ops!Idle), hist'.blind = hist.blind, hist'.crossed = hist.crossed,
         Switching(tx[c]), db'.on = db.on, NEW e \in OpsEntry, db'.audit = Append(db.audit, e),
         e.op = "switch", e.part = tx[c].part, e.want = tx[c].want
  PROVE  OpsFollows'
<1>1. tx'[c] = Ops!Idle /\ c \in Conns /\ \A d \in Conns \ {c} : tx'[d] = tx[d]
  BY OpsTx DEF OpsInv
<1> SUFFICES ASSUME hist'.blind = {}, ~hist'.crossed
             PROVE  /\ \A d \in Conns : Switching(tx'[d]) => db'.on[tx'[d].part] = tx'[d].want
                    /\ \A d, f \in Conns : Switching(tx'[d]) /\ Switching(tx'[f])
                        /\ tx'[d].part = tx'[f].part => d = f
                    /\ \A i \in DOMAIN db'.audit :
                         LastOn(i)' => \/ db'.on[db'.audit[i].part] = db'.audit[i].want
                                       \/ \E d \in Conns : Switching(tx'[d]) /\ tx'[d].part = db'.audit[i].part
  BY DEF OpsFollows
<1>2. /\ \A d \in Conns : Switching(tx[d]) => db.on[tx[d].part] = tx[d].want
      /\ \A d, f \in Conns : Switching(tx[d]) /\ Switching(tx[f]) /\ tx[d].part = tx[f].part => d = f
      /\ \A i \in DOMAIN db.audit :
           LastOn(i) => \/ db.on[db.audit[i].part] = db.audit[i].want
                        \/ \E d \in Conns : Switching(tx[d]) /\ tx[d].part = db.audit[i].part
  BY DEF OpsInv, OpsFollows
<1>3. \A d \in Conns : Switching(tx'[d]) => d # c /\ tx'[d] = tx[d] /\ Switching(tx[d])
  BY <1>1, OpsFree
<1>4. /\ DOMAIN db.audit = 1..Len(db.audit) /\ DOMAIN db'.audit = 1..(Len(db.audit) + 1)
      /\ \A i \in DOMAIN db.audit : db'.audit[i] = db.audit[i]
      /\ db'.audit[Len(db.audit) + 1] = e /\ Len(db.audit) \in Nat
  BY AppendFacts DEF OpsInv, OpsTyped, OpsDb
<1>5. ASSUME NEW i \in DOMAIN db.audit, LastOn(i)'
      PROVE  LastOn(i) /\ db'.audit[i] = db.audit[i] /\ db.audit[i].part # e.part
  BY <1>4, <1>5 DEF LastOn
<1>6. ASSUME NEW i \in DOMAIN db.audit, LastOn(i)',
             ~\E d \in Conns : Switching(tx'[d]) /\ tx'[d].part = db.audit[i].part
      PROVE  db.on[db.audit[i].part] = db.audit[i].want
  <2>1. LastOn(i) /\ db.audit[i].part # tx[c].part
    BY <1>5, <1>6
  <2>2. ~\E d \in Conns : Switching(tx[d]) /\ tx[d].part = db.audit[i].part
    BY <1>1, <1>6, <2>1
  <2> QED
    BY <1>2, <2>1, <2>2
<1>7. \A i \in DOMAIN db'.audit :
        LastOn(i)' => \/ db'.on[db'.audit[i].part] = db'.audit[i].want
                      \/ \E d \in Conns : Switching(tx'[d]) /\ tx'[d].part = db'.audit[i].part
  <2> SUFFICES ASSUME NEW i \in DOMAIN db'.audit, LastOn(i)',
                      ~\E d \in Conns : Switching(tx'[d]) /\ tx'[d].part = db'.audit[i].part
               PROVE  db.on[db'.audit[i].part] = db'.audit[i].want
    OBVIOUS
  <2>1. CASE i \in DOMAIN db.audit
    BY <1>4, <1>6, <2>1
  <2>2. CASE i = Len(db.audit) + 1
    <3>1. db'.audit[i] = e
      BY <1>4, <2>2
    <3>2. db.on[tx[c].part] = tx[c].want
      BY <1>1, <1>2
    <3> QED
      BY <3>1, <3>2
  <2> QED
    BY <1>4, <2>1, <2>2
<1> QED
  BY <1>2, <1>3, <1>7

\* What comes next of a request.
\* The request on c is at a step, with the steps w to go, and t is left of it.
OpsReady(c, step, ops, w, t) ==
  tx[c].op \in ops /\ tx[c].todo = w /\ Head(w) = step /\ (Ops!Done(c) => tx' = [tx EXCEPT ![c] = t])

OpsRest(c, w) == [tx[c] EXCEPT !.todo = w]

LEMMA OpsLast ==
  ASSUME NEW c, NEW w, NEW ops, tx[c].op \in ops, tx[c].todo = w, Len(w) = 1
  PROVE  OpsReady(c, Head(w), ops, w, Ops!Idle)
BY DEF OpsReady, Ops!Done, Ops!Finish, Ops!Continue

LEMMA OpsMore ==
  ASSUME NEW c, NEW w, NEW ops, tx[c].op \in ops, tx[c].todo = w, Len(w) # 1
  PROVE  OpsReady(c, Head(w), ops, w, OpsRest(c, Tail(w)))
BY DEF OpsReady, OpsRest, Ops!Done, Ops!Continue

LEMMA OpsAt ==
  ASSUME OpsTyped, NEW c \in Conns, NEW s, Ops!At(c, s)
  PROVE  /\ tx[c] \in OpsCall /\ tx[c].id \in Nat /\ tx[c].want \in BOOLEAN
         /\ \/ s = "bot" /\ OpsReady(c, "bot", {"switch", "install"}, <<"bot", "audit">>, OpsRest(c, <<"audit">>))
            \/ s = "audit" /\ OpsReady(c, "audit", {"switch", "install"}, <<"audit">>, Ops!Idle)
            \/ s = "audit" /\ OpsReady(c, "audit", {"delete"}, <<"audit", "commit">>, OpsRest(c, <<"commit">>))
            \/ s = "commit" /\ OpsReady(c, "commit", {"delete"}, <<"commit">>, Ops!Idle)
            \/ s = "mint" /\ OpsReady(c, "mint", {"ticket"}, <<"mint", "audit", "hand">>, OpsRest(c, <<"audit", "hand">>))
            \/ s = "audit" /\ OpsReady(c, "audit", {"ticket"}, <<"audit", "hand">>, OpsRest(c, <<"hand">>))
            \/ s = "hand" /\ OpsReady(c, "hand", {"ticket"}, <<"hand">>, Ops!Idle)
            \/ s = "open" /\ OpsReady(c, "open", {"logs"}, <<"open", "stream", "close">>, OpsRest(c, <<"stream", "close">>))
            \/ s = "stream" /\ OpsReady(c, "stream", {"logs"}, <<"stream", "close">>, OpsRest(c, <<"close">>))
            \/ s = "close" /\ OpsReady(c, "close", {"logs"}, <<"close">>, Ops!Idle)
<1>1. tx[c] \in OpsCall /\ Head(tx[c].todo) = s
  BY DEF Ops!At, Ops!Busy, OpsTyped
<1>2. tx[c].op \in OpsKinds /\ tx[c].todo \in OpsTodo[tx[c].op] /\ tx[c].id \in Nat /\ tx[c].want \in BOOLEAN
  BY <1>1 DEF OpsCall, OpsRecord
<1>3. CASE tx[c].op \in {"switch", "install"}
  <2>1. tx[c].todo \in {<<"bot", "audit">>, <<"audit">>}
    BY <1>2, <1>3 DEF OpsTodo
  <2>2. CASE tx[c].todo = <<"bot", "audit">>
    <3>1. Head(<<"bot", "audit">>) = "bot" /\ Len(<<"bot", "audit">>) # 1 /\ Tail(<<"bot", "audit">>) = <<"audit">>
      OBVIOUS
    <3>2. OpsReady(c, "bot", {"switch", "install"}, <<"bot", "audit">>, OpsRest(c, <<"audit">>))
      BY <1>3, <2>2, <3>1, OpsMore
    <3>3. s = "bot"
      BY <1>1, <2>2, <3>1
    <3> QED
      BY <1>1, <1>2, <3>2, <3>3
  <2>3. CASE tx[c].todo = <<"audit">>
    <3>1. Head(<<"audit">>) = "audit" /\ Len(<<"audit">>) = 1
      OBVIOUS
    <3>2. OpsReady(c, "audit", {"switch", "install"}, <<"audit">>, Ops!Idle)
      BY <1>3, <2>3, <3>1, OpsLast
    <3>3. s = "audit"
      BY <1>1, <2>3, <3>1
    <3> QED
      BY <1>1, <1>2, <3>2, <3>3
  <2> QED
    BY <2>1, <2>2, <2>3, Zenon
<1>4. CASE tx[c].op \in {"delete"}
  <2>1. tx[c].todo \in {<<"audit", "commit">>, <<"commit">>}
    BY <1>2, <1>4 DEF OpsTodo
  <2>2. CASE tx[c].todo = <<"audit", "commit">>
    <3>1. Head(<<"audit", "commit">>) = "audit" /\ Len(<<"audit", "commit">>) # 1
            /\ Tail(<<"audit", "commit">>) = <<"commit">>
      OBVIOUS
    <3>2. OpsReady(c, "audit", {"delete"}, <<"audit", "commit">>, OpsRest(c, <<"commit">>))
      BY <1>4, <2>2, <3>1, OpsMore
    <3>3. s = "audit"
      BY <1>1, <2>2, <3>1
    <3> QED
      BY <1>1, <1>2, <3>2, <3>3
  <2>3. CASE tx[c].todo = <<"commit">>
    <3>1. Head(<<"commit">>) = "commit" /\ Len(<<"commit">>) = 1
      OBVIOUS
    <3>2. OpsReady(c, "commit", {"delete"}, <<"commit">>, Ops!Idle)
      BY <1>4, <2>3, <3>1, OpsLast
    <3>3. s = "commit"
      BY <1>1, <2>3, <3>1
    <3> QED
      BY <1>1, <1>2, <3>2, <3>3
  <2> QED
    BY <2>1, <2>2, <2>3, Zenon
<1>5. CASE tx[c].op \in {"ticket"}
  <2>1. tx[c].todo \in {<<"mint", "audit", "hand">>, <<"audit", "hand">>, <<"hand">>}
    BY <1>2, <1>5 DEF OpsTodo
  <2>2. CASE tx[c].todo = <<"mint", "audit", "hand">>
    <3>1. Head(<<"mint", "audit", "hand">>) = "mint" /\ Len(<<"mint", "audit", "hand">>) # 1
            /\ Tail(<<"mint", "audit", "hand">>) = <<"audit", "hand">>
      OBVIOUS
    <3>2. OpsReady(c, "mint", {"ticket"}, <<"mint", "audit", "hand">>, OpsRest(c, <<"audit", "hand">>))
      BY <1>5, <2>2, <3>1, OpsMore
    <3>3. s = "mint"
      BY <1>1, <2>2, <3>1
    <3> QED
      BY <1>1, <1>2, <3>2, <3>3
  <2>3. CASE tx[c].todo = <<"audit", "hand">>
    <3>1. Head(<<"audit", "hand">>) = "audit" /\ Len(<<"audit", "hand">>) # 1
            /\ Tail(<<"audit", "hand">>) = <<"hand">>
      OBVIOUS
    <3>2. OpsReady(c, "audit", {"ticket"}, <<"audit", "hand">>, OpsRest(c, <<"hand">>))
      BY <1>5, <2>3, <3>1, OpsMore
    <3>3. s = "audit"
      BY <1>1, <2>3, <3>1
    <3> QED
      BY <1>1, <1>2, <3>2, <3>3
  <2>4. CASE tx[c].todo = <<"hand">>
    <3>1. Head(<<"hand">>) = "hand" /\ Len(<<"hand">>) = 1
      OBVIOUS
    <3>2. OpsReady(c, "hand", {"ticket"}, <<"hand">>, Ops!Idle)
      BY <1>5, <2>4, <3>1, OpsLast
    <3>3. s = "hand"
      BY <1>1, <2>4, <3>1
    <3> QED
      BY <1>1, <1>2, <3>2, <3>3
  <2> QED
    BY <2>1, <2>2, <2>3, <2>4, Zenon
<1>6. CASE tx[c].op \in {"logs"}
  <2>1. tx[c].todo \in {<<"open", "stream", "close">>, <<"stream", "close">>, <<"close">>}
    BY <1>2, <1>6 DEF OpsTodo
  <2>2. CASE tx[c].todo = <<"open", "stream", "close">>
    <3>1. Head(<<"open", "stream", "close">>) = "open" /\ Len(<<"open", "stream", "close">>) # 1
            /\ Tail(<<"open", "stream", "close">>) = <<"stream", "close">>
      OBVIOUS
    <3>2. OpsReady(c, "open", {"logs"}, <<"open", "stream", "close">>, OpsRest(c, <<"stream", "close">>))
      BY <1>6, <2>2, <3>1, OpsMore
    <3>3. s = "open"
      BY <1>1, <2>2, <3>1
    <3> QED
      BY <1>1, <1>2, <3>2, <3>3
  <2>3. CASE tx[c].todo = <<"stream", "close">>
    <3>1. Head(<<"stream", "close">>) = "stream" /\ Len(<<"stream", "close">>) # 1
            /\ Tail(<<"stream", "close">>) = <<"close">>
      OBVIOUS
    <3>2. OpsReady(c, "stream", {"logs"}, <<"stream", "close">>, OpsRest(c, <<"close">>))
      BY <1>6, <2>3, <3>1, OpsMore
    <3>3. s = "stream"
      BY <1>1, <2>3, <3>1
    <3> QED
      BY <1>1, <1>2, <3>2, <3>3
  <2>4. CASE tx[c].todo = <<"close">>
    <3>1. Head(<<"close">>) = "close" /\ Len(<<"close">>) = 1
      OBVIOUS
    <3>2. OpsReady(c, "close", {"logs"}, <<"close">>, Ops!Idle)
      BY <1>6, <2>4, <3>1, OpsLast
    <3>3. s = "close"
      BY <1>1, <2>4, <3>1
    <3> QED
      BY <1>1, <1>2, <3>2, <3>3
  <2> QED
    BY <2>1, <2>2, <2>3, <2>4, Zenon
<1> QED
  BY <1>2, <1>3, <1>4, <1>5, <1>6 DEF OpsKinds

\* A request with the rest of its steps is in the promises for what is left.
LEMMA OpsWith ==
  ASSUME NEW r \in OpsCall, NEW w \in OpsTodo[r.op]
  PROVE  LET t == [r EXCEPT !.todo = w] IN
         /\ t \in OpsCall /\ t.op = r.op /\ t.id = r.id /\ t.part = r.part /\ t.want = r.want /\ t.todo = w
<1>1. r \in OpsRecord /\ r.op \in OpsKinds
  BY DEF OpsCall, OpsRecord
<1>2. w \in UNION {OpsTodo[k] : k \in OpsKinds}
  BY <1>1
<1> QED
  BY <1>1, <1>2 DEF OpsCall, OpsRecord

LEMMA OpsTypedNext ==
  ASSUME OpsInv, NEW c, NEW t, OpsStep(c, t), db' \in OpsDb, hist' \in OpsHist, left' \in Nat
  PROVE  OpsTyped'
BY OpsTx DEF OpsInv, OpsTyped

LEMMA OpsAudited ==
  ASSUME OpsTyped, NEW e \in OpsEntry, db'.audit = Append(db.audit, e)
  PROVE  Ops!Audited \subseteq Ops!Audited' /\ e.id \in Ops!Audited' /\ db' # db
<1>1. /\ DOMAIN db.audit = 1..Len(db.audit) /\ DOMAIN db'.audit = 1..(Len(db.audit) + 1)
      /\ \A i \in DOMAIN db.audit : db'.audit[i] = db.audit[i]
      /\ db'.audit[Len(db.audit) + 1] = e /\ Len(db.audit) \in Nat /\ db'.audit # db.audit
  BY AppendFacts DEF OpsTyped, OpsDb
<1>2. \A i \in DOMAIN db.audit : i \in DOMAIN db'.audit
  BY <1>1
<1>3. Len(db.audit) + 1 \in DOMAIN db'.audit
  BY <1>1
<1> QED
  BY <1>1, <1>2, <1>3 DEF Ops!Audited

\* A step that neither switches nor streams nor finishes.
LEMMA OpsGoes ==
  ASSUME OpsInv, NEW c, NEW t, OpsStep(c, t), left' \in Nat, db' \in OpsDb, hist' \in OpsHist,
         db'.on = db.on, db'.handed = db.handed, db'.upstream = db.upstream, hist'.switched = hist.switched,
         hist'.deleted = hist.deleted, hist'.unread = hist.unread, hist'.crossed = hist.crossed,
         hist.blind \subseteq hist'.blind, hist.kept \subseteq hist'.kept,
         \/ db'.audit = db.audit
         \/ \E e \in OpsEntry : db'.audit = Append(db.audit, e) /\ Explained(e)' /\ e.op # "switch",
         ~Auditing(t), ~Streaming(t), ~Auditing(tx[c]), ~Streaming(tx[c]),
         Acting(t) => t.id \in Ops!Audited',
         Acting(tx[c]) => tx[c].id \in hist'.kept
  PROVE  OpsInv'
<1>1. Ops!Audited \subseteq Ops!Audited'
  <2>1. CASE db'.audit = db.audit
    BY <2>1 DEF Ops!Audited
  <2>2. CASE \E e \in OpsEntry : db'.audit = Append(db.audit, e)
    BY <2>2, OpsAudited DEF OpsInv
  <2> QED
    BY <2>1, <2>2
<1>2. ~Switching(t) /\ ~Switching(tx[c])
  BY DEF Switching, Auditing
<1>3. OpsTyped'
  BY OpsTypedNext
<1>4. OpsStreams'
  BY OpsKeepsStreams
<1>5. OpsTraced'
  BY <1>1, OpsKeepsTraced
<1>6. OpsTrail'
  <2>1. \/ db'.audit = db.audit
        \/ \E e \in OpsEntry : db'.audit = Append(db.audit, e) /\ Explained(e)'
    OBVIOUS
  <2> QED
    BY <2>1, OpsKeepsTrail
<1>7. OpsFollows'
  <2>1. \/ db'.audit = db.audit
        \/ \E e \in OpsEntry : db'.audit = Append(db.audit, e) /\ e.op # "switch"
    OBVIOUS
  <2> QED
    BY <1>2, <2>1, OpsKeepsFollows
<1> QED
  BY <1>3, <1>4, <1>5, <1>6, <1>7 DEF OpsInv

\* What the steps of a request are to the promises.
LEMMA OpsParts ==
  ASSUME NEW r
  PROVE  /\ r.todo = <<"bot", "audit">> => ~Auditing(r) /\ ~Acting(r) /\ ~Streaming(r) /\ ~Switching(r)
         /\ r.todo = <<"audit">> => ~Acting(r) /\ ~Streaming(r) /\ (Auditing(r) <=> r.op \in {"switch", "install"})
                                    /\ (Switching(r) <=> r.op = "switch")
         /\ r.todo \in {<<"audit", "commit">>, <<"mint", "audit", "hand">>, <<"audit", "hand">>} =>
              ~Auditing(r) /\ ~Acting(r) /\ ~Streaming(r) /\ ~Switching(r)
         /\ r.todo \in {<<"commit">>, <<"hand">>} =>
              ~Auditing(r) /\ ~Streaming(r) /\ ~Switching(r) /\ (Acting(r) <=> r.op \in {"ticket", "delete"})
         /\ r.todo = <<"open", "stream", "close">> => ~Auditing(r) /\ ~Acting(r) /\ ~Streaming(r) /\ ~Switching(r)
         /\ r.todo \in {<<"stream", "close">>, <<"close">>} =>
              ~Auditing(r) /\ ~Acting(r) /\ ~Switching(r) /\ (Streaming(r) <=> r.op = "logs")
<1>1. r.todo = <<"bot", "audit">> => ~Auditing(r) /\ ~Acting(r) /\ ~Streaming(r) /\ ~Switching(r)
  BY DEF Auditing, Acting, Streaming, Switching
<1>2. r.todo = <<"audit">> => ~Acting(r) /\ ~Streaming(r) /\ (Auditing(r) <=> r.op \in {"switch", "install"})
                              /\ (Switching(r) <=> r.op = "switch")
  BY DEF Auditing, Acting, Streaming, Switching
<1>3. r.todo \in {<<"audit", "commit">>, <<"mint", "audit", "hand">>, <<"audit", "hand">>} =>
        ~Auditing(r) /\ ~Acting(r) /\ ~Streaming(r) /\ ~Switching(r)
  BY DEF Auditing, Acting, Streaming, Switching
<1>4. r.todo \in {<<"commit">>, <<"hand">>} =>
        ~Auditing(r) /\ ~Streaming(r) /\ ~Switching(r) /\ (Acting(r) <=> r.op \in {"ticket", "delete"})
  BY DEF Auditing, Acting, Streaming, Switching
<1>5. r.todo = <<"open", "stream", "close">> => ~Auditing(r) /\ ~Acting(r) /\ ~Streaming(r) /\ ~Switching(r)
  BY DEF Auditing, Acting, Streaming, Switching
<1>6. r.todo \in {<<"stream", "close">>, <<"close">>} =>
        ~Auditing(r) /\ ~Acting(r) /\ ~Switching(r) /\ (Streaming(r) <=> r.op = "logs")
  BY DEF Auditing, Acting, Streaming, Switching
<1> QED
  BY <1>1, <1>2, <1>3, <1>4, <1>5, <1>6

LEMMA OpsAsked ==
  ASSUME NEW n \in Nat, NEW op \in OpsKinds, NEW part \in Ops!Parts \cup {""}, NEW want \in BOOLEAN,
         op = "switch" => part \in Ops!Parts,
         NEW t, t = [op |-> op, id |-> n, part |-> part, want |-> want, todo |-> Ops!Steps[op]]
  PROVE  t \in OpsCall /\ ~Auditing(t) /\ ~Acting(t) /\ ~Streaming(t) /\ ~Switching(t)
<1>3. Ops!Steps[op] \in {<<"bot", "audit">>, <<"audit", "commit">>, <<"mint", "audit", "hand">>, <<"open", "stream", "close">>}
      /\ Ops!Steps[op] \in OpsTodo[op]
  <2>1. CASE op = "switch"
    <3>1. Ops!Steps[op] = <<"bot", "audit">>
      BY <2>1 DEF Ops!Steps
    <3>2. <<"bot", "audit">> \in OpsTodo[op]
      BY <2>1 DEF OpsTodo
    <3> QED
      BY <3>1, <3>2, Zenon
  <2>2. CASE op = "install"
    <3>1. Ops!Steps[op] = <<"bot", "audit">>
      BY <2>2 DEF Ops!Steps
    <3>2. <<"bot", "audit">> \in OpsTodo[op]
      BY <2>2 DEF OpsTodo
    <3> QED
      BY <3>1, <3>2, Zenon
  <2>3. CASE op = "delete"
    <3>1. Ops!Steps[op] = <<"audit", "commit">>
      BY <2>3 DEF Ops!Steps
    <3>2. <<"audit", "commit">> \in OpsTodo[op]
      BY <2>3 DEF OpsTodo
    <3> QED
      BY <3>1, <3>2, Zenon
  <2>4. CASE op = "ticket"
    <3>1. Ops!Steps[op] = <<"mint", "audit", "hand">>
      BY <2>4 DEF Ops!Steps
    <3>2. <<"mint", "audit", "hand">> \in OpsTodo[op]
      BY <2>4 DEF OpsTodo
    <3> QED
      BY <3>1, <3>2, Zenon
  <2>5. CASE op = "logs"
    <3>1. Ops!Steps[op] = <<"open", "stream", "close">>
      BY <2>5 DEF Ops!Steps
    <3>2. <<"open", "stream", "close">> \in OpsTodo[op]
      BY <2>5 DEF OpsTodo
    <3> QED
      BY <3>1, <3>2, Zenon
  <2> QED
    BY <2>1, <2>2, <2>3, <2>4, <2>5 DEF OpsKinds
<1>4. t \in OpsRecord /\ t.todo = Ops!Steps[op] /\ t.op = op /\ t.part = part
  BY <1>3 DEF OpsRecord
<1>5. t \in OpsCall
  BY <1>3, <1>4 DEF OpsCall
<1>6. ~Auditing(t) /\ ~Acting(t) /\ ~Streaming(t) /\ ~Switching(t)
  BY <1>3, <1>4, OpsParts
<1> QED
  BY <1>5, <1>6

LEMMA OpsBegun ==
  ASSUME OpsInv, NEW c \in Conns, NEW t \in OpsCall, ~Auditing(t), ~Acting(t), ~Streaming(t), tx[c] = Ops!Idle,
         left' = left - 1, left > 0, db' = db, hist' = hist, tx' = [tx EXCEPT ![c] = t]
  PROVE  OpsInv'
<1>1. left \in Nat /\ db \in OpsDb /\ hist \in OpsHist
  BY DEF OpsInv, OpsTyped
<1>2. left' \in Nat
  BY <1>1
<1>3. OpsStep(c, t)
  BY DEF OpsStep
<1> QED
  BY <1>1, <1>2, <1>3, OpsFree, OpsGoes

LEMMA OpsBegins ==
  ASSUME OpsInv, NEW c \in Conns, NEW op \in OpsKinds, NEW part \in Ops!Parts \cup {""}, NEW want \in BOOLEAN,
         op = "switch" => part \in Ops!Parts, Ops!Ask(c, op, part, want)
  PROVE  OpsInv'
<1>1. /\ tx[c] = Ops!Idle /\ left' = left - 1 /\ left > 0 /\ db' = db /\ hist' = hist
      /\ tx' = [tx EXCEPT ![c] = [op |-> op, id |-> left, part |-> part, want |-> want, todo |-> Ops!Steps[op]]]
  BY Zenon DEF Ops!Ask, Ops!Begin
<1>2. left \in Nat
  BY Zenon DEF OpsInv, OpsTyped
<1>3. PICK t : t = [op |-> op, id |-> left, part |-> part, want |-> want, todo |-> Ops!Steps[op]]
  OBVIOUS
<1>4. t \in OpsCall /\ ~Auditing(t) /\ ~Acting(t) /\ ~Streaming(t)
  BY <1>2, <1>3, OpsAsked, Zenon
<1>5. left' = left - 1 /\ left > 0 /\ db' = db /\ hist' = hist /\ tx[c] = Ops!Idle /\ tx' = [tx EXCEPT ![c] = t]
  BY <1>1, <1>3, Zenon
<1> QED
  BY <1>4, <1>5, OpsBegun, Zenon

LEMMA OpsDenied == ASSUME OpsInv, NEW c \in Conns, Ops!Denied(c) PROVE OpsInv'
<1>0. PICK e : e = [id |-> left, op |-> "denied", part |-> "", want |-> FALSE]
  OBVIOUS
<1>1. /\ tx[c] = Ops!Idle /\ left' = left - 1 /\ left > 0 /\ tx' = tx /\ hist' = hist
      /\ db' = [db EXCEPT !.audit = Append(db.audit, e)]
  BY <1>0 DEF Ops!Denied, Ops!AtOnce
<1>2. left \in Nat /\ left' \in Nat /\ db \in OpsDb /\ hist \in OpsHist
  <2>1. left \in Nat /\ db \in OpsDb /\ hist \in OpsHist
    BY DEF OpsInv, OpsTyped
  <2> QED
    BY <1>1, <2>1
<1>3. e \in OpsEntry /\ e.op = "denied"
  BY <1>0, <1>2 DEF OpsEntry
<1>4. Append(db.audit, e) \in Seq(OpsEntry)
  BY <1>2, <1>3 DEF OpsDb
<1>5. /\ db' \in OpsDb /\ db'.audit = Append(db.audit, e) /\ db'.on = db.on /\ db'.handed = db.handed
      /\ db'.upstream = db.upstream
  BY <1>1, <1>2, <1>4 DEF OpsDb
<1>6. OpsStep(c, Ops!Idle)
  BY <1>1 DEF OpsStep, OpsInv, OpsTyped
<1>7. Explained(e)'
  BY <1>3 DEF Explained
<1> QED
  BY <1>1, <1>2, <1>3, <1>5, <1>6, <1>7, OpsFree, OpsGoes

LEMMA OpsGrant == ASSUME OpsInv, NEW c \in Conns, Ops!Grant(c) PROVE OpsInv'
<1>1. /\ tx[c] = Ops!Idle /\ left' = left - 1 /\ left > 0 /\ tx' = tx /\ hist' = hist
      /\ db' = [db EXCEPT !.granted = ~db.granted]
  BY DEF Ops!Grant, Ops!AtOnce
<1>2. left \in Nat /\ left' \in Nat /\ db \in OpsDb /\ hist \in OpsHist
  <2>1. left \in Nat /\ db \in OpsDb /\ hist \in OpsHist
    BY DEF OpsInv, OpsTyped
  <2> QED
    BY <1>1, <2>1
<1>3. PICK g \in BOOLEAN : db' = [db EXCEPT !.granted = g]
  BY <1>1
<1>4. /\ db' \in OpsDb /\ db'.audit = db.audit /\ db'.on = db.on /\ db'.handed = db.handed
      /\ db'.upstream = db.upstream
  BY <1>2, <1>3 DEF OpsDb
<1>5. OpsStep(c, Ops!Idle)
  BY <1>1 DEF OpsStep, OpsInv, OpsTyped
<1> QED
  BY <1>1, <1>2, <1>4, <1>5, OpsFree, OpsGoes

\* The same, step by step.
LEMMA OpsAtBot ==
  ASSUME OpsTyped, NEW c \in Conns, Ops!At(c, "bot")
  PROVE  /\ tx[c] \in OpsCall /\ tx[c].id \in Nat /\ tx[c].want \in BOOLEAN
         /\ OpsReady(c, "bot", {"switch", "install"}, <<"bot", "audit">>, OpsRest(c, <<"audit">>))
<1>1. "bot" # "audit" /\ "bot" # "commit" /\ "bot" # "mint" /\ "bot" # "hand" /\ "bot" # "open" /\ "bot" # "stream"
        /\ "bot" # "close"
  OBVIOUS
<1> QED
  BY <1>1, OpsAt, Zenon

LEMMA OpsAtAudit ==
  ASSUME OpsTyped, NEW c \in Conns, Ops!At(c, "audit")
  PROVE  /\ tx[c] \in OpsCall /\ tx[c].id \in Nat /\ tx[c].want \in BOOLEAN
         /\ \/ OpsReady(c, "audit", {"switch", "install"}, <<"audit">>, Ops!Idle)
            \/ OpsReady(c, "audit", {"delete"}, <<"audit", "commit">>, OpsRest(c, <<"commit">>))
            \/ OpsReady(c, "audit", {"ticket"}, <<"audit", "hand">>, OpsRest(c, <<"hand">>))
<1>1. "audit" # "bot" /\ "audit" # "commit" /\ "audit" # "mint" /\ "audit" # "hand" /\ "audit" # "open"
        /\ "audit" # "stream" /\ "audit" # "close"
  OBVIOUS
<1> QED
  BY <1>1, OpsAt, Zenon

LEMMA OpsAtCommit ==
  ASSUME OpsTyped, NEW c \in Conns, Ops!At(c, "commit")
  PROVE  /\ tx[c] \in OpsCall /\ tx[c].id \in Nat /\ tx[c].want \in BOOLEAN
         /\ OpsReady(c, "commit", {"delete"}, <<"commit">>, Ops!Idle)
<1>1. "commit" # "bot" /\ "commit" # "audit" /\ "commit" # "mint" /\ "commit" # "hand" /\ "commit" # "open"
        /\ "commit" # "stream" /\ "commit" # "close"
  OBVIOUS
<1> QED
  BY <1>1, OpsAt, Zenon

LEMMA OpsAtMint ==
  ASSUME OpsTyped, NEW c \in Conns, Ops!At(c, "mint")
  PROVE  /\ tx[c] \in OpsCall /\ tx[c].id \in Nat /\ tx[c].want \in BOOLEAN
         /\ OpsReady(c, "mint", {"ticket"}, <<"mint", "audit", "hand">>, OpsRest(c, <<"audit", "hand">>))
<1>1. "mint" # "bot" /\ "mint" # "audit" /\ "mint" # "commit" /\ "mint" # "hand" /\ "mint" # "open"
        /\ "mint" # "stream" /\ "mint" # "close"
  OBVIOUS
<1> QED
  BY <1>1, OpsAt, Zenon

LEMMA OpsAtHand ==
  ASSUME OpsTyped, NEW c \in Conns, Ops!At(c, "hand")
  PROVE  /\ tx[c] \in OpsCall /\ tx[c].id \in Nat /\ tx[c].want \in BOOLEAN
         /\ OpsReady(c, "hand", {"ticket"}, <<"hand">>, Ops!Idle)
<1>1. "hand" # "bot" /\ "hand" # "audit" /\ "hand" # "commit" /\ "hand" # "mint" /\ "hand" # "open"
        /\ "hand" # "stream" /\ "hand" # "close"
  OBVIOUS
<1> QED
  BY <1>1, OpsAt, Zenon

LEMMA OpsAtOpen ==
  ASSUME OpsTyped, NEW c \in Conns, Ops!At(c, "open")
  PROVE  /\ tx[c] \in OpsCall /\ tx[c].id \in Nat /\ tx[c].want \in BOOLEAN
         /\ OpsReady(c, "open", {"logs"}, <<"open", "stream", "close">>, OpsRest(c, <<"stream", "close">>))
<1>1. "open" # "bot" /\ "open" # "audit" /\ "open" # "commit" /\ "open" # "mint" /\ "open" # "hand"
        /\ "open" # "stream" /\ "open" # "close"
  OBVIOUS
<1> QED
  BY <1>1, OpsAt, Zenon

LEMMA OpsAtStream ==
  ASSUME OpsTyped, NEW c \in Conns, Ops!At(c, "stream")
  PROVE  /\ tx[c] \in OpsCall /\ tx[c].id \in Nat /\ tx[c].want \in BOOLEAN
         /\ OpsReady(c, "stream", {"logs"}, <<"stream", "close">>, OpsRest(c, <<"close">>))
<1>1. "stream" # "bot" /\ "stream" # "audit" /\ "stream" # "commit" /\ "stream" # "mint" /\ "stream" # "hand"
        /\ "stream" # "open" /\ "stream" # "close"
  OBVIOUS
<1> QED
  BY <1>1, OpsAt, Zenon

LEMMA OpsAtClose ==
  ASSUME OpsTyped, NEW c \in Conns, Ops!At(c, "close")
  PROVE  /\ tx[c] \in OpsCall /\ tx[c].id \in Nat /\ tx[c].want \in BOOLEAN
         /\ OpsReady(c, "close", {"logs"}, <<"close">>, Ops!Idle)
<1>1. "close" # "bot" /\ "close" # "audit" /\ "close" # "commit" /\ "close" # "mint" /\ "close" # "hand"
        /\ "close" # "open" /\ "close" # "stream"
  OBVIOUS
<1> QED
  BY <1>1, OpsAt, Zenon

\* A request with fewer steps to go is still a request.
LEMMA OpsRests ==
  ASSUME NEW c, tx[c] \in OpsCall, NEW w \in OpsTodo[tx[c].op], NEW t, t = OpsRest(c, w)
  PROVE  t \in OpsCall /\ t.op = tx[c].op /\ t.id = tx[c].id /\ t.part = tx[c].part /\ t.want = tx[c].want
         /\ t.todo = w
BY OpsWith DEF OpsRest

LEMMA OpsBotApplies == ASSUME OpsInv, NEW c \in Conns, Ops!BotApplies(c) PROVE OpsInv'
<1>1. OpsTyped /\ Ops!At(c, "bot") /\ Ops!Done(c) /\ db' = Ops!Applied(c)
  BY DEF OpsInv, Ops!BotApplies
<1>2. /\ tx[c] \in OpsCall /\ tx[c].id \in Nat /\ tx[c].want \in BOOLEAN
      /\ tx[c].op \in {"switch", "install"} /\ tx[c].todo = <<"bot", "audit">>
      /\ tx' = [tx EXCEPT ![c] = OpsRest(c, <<"audit">>)]
  BY <1>1, OpsAtBot, Zenon DEF OpsReady
<1>3. PICK t : t = OpsRest(c, <<"audit">>)
  OBVIOUS
<1>4. <<"audit">> \in OpsTodo[tx[c].op]
  BY <1>2 DEF OpsTodo
<1>5. t \in OpsCall /\ t.op = tx[c].op /\ t.id = tx[c].id /\ t.part = tx[c].part /\ t.want = tx[c].want
        /\ t.todo = <<"audit">>
  BY <1>2, <1>3, <1>4, OpsRests
<1>6. ~Auditing(tx[c]) /\ ~Acting(tx[c]) /\ ~Streaming(tx[c]) /\ ~Switching(tx[c])
  BY <1>2, OpsParts, Zenon
<1>7. ~Acting(t) /\ ~Streaming(t) /\ Auditing(t) /\ (Switching(t) <=> tx[c].op = "switch")
  <2>1. t.op \in {"switch", "install"}
    BY <1>2, <1>5, Zenon
  <2> QED
    BY <1>5, <2>1, OpsParts, Zenon
<1>8. OpsStep(c, t)
  BY <1>2, <1>3, <1>5, Zenon DEF OpsStep
<1>9. left' \in Nat
  BY <1>1 DEF OpsTyped, Ops!Done, Ops!Finish, Ops!Continue
<1>10. PICK b \in BOOLEAN :
         /\ hist' = [hist EXCEPT !.switched = hist.switched \cup {tx[c].id}, !.crossed = b]
         /\ b <=> (hist.crossed \/ \E o \in Ops!Open("switch") \ {c} : tx[o].part = tx[c].part /\ tx[o].id \in hist.switched)
  BY DEF Ops!BotApplies
<1>11. hist \in OpsHist /\ db \in OpsDb
  BY <1>1 DEF OpsTyped
<1>12. /\ hist' \in OpsHist /\ hist'.switched = hist.switched \cup {tx[c].id} /\ hist'.crossed = b
       /\ hist'.deleted = hist.deleted /\ hist'.blind = hist.blind /\ hist'.kept = hist.kept
       /\ hist'.unread = hist.unread
  BY <1>2, <1>10, <1>11 DEF OpsHist
<1>13. hist.crossed => hist'.crossed
  BY <1>10, <1>12
<1>14. CASE tx[c].op = "switch"
  <2>1. t.part \in Ops!Parts /\ Switching(t)
    BY <1>2, <1>5, <1>7, <1>14 DEF OpsCall
  <2>2. db' = [db EXCEPT !.on = [db.on EXCEPT ![t.part] = t.want]]
    BY <1>1, <1>5, <1>14 DEF Ops!Applied
  <2>3. [db.on EXCEPT ![t.part] = t.want] \in [Ops!Parts -> BOOLEAN]
    BY <1>2, <1>5, <1>11 DEF OpsDb
  <2>4. /\ db' \in OpsDb /\ db'.on = [db.on EXCEPT ![t.part] = t.want] /\ db'.audit = db.audit
        /\ db'.handed = db.handed
        /\ db'.upstream = db.upstream
    BY <1>11, <2>2, <2>3 DEF OpsDb
  <2>5. Ops!Audited' = Ops!Audited
    BY <2>4 DEF Ops!Audited
  <2>6. OpsTyped' /\ OpsStreams'
    BY <1>6, <1>8, <1>9, <1>12, <2>4, OpsTypedNext, OpsKeepsStreams
  <2>7. OpsTraced'
    BY <1>5, <1>6, <1>7, <1>8, <1>12, <2>4, <2>5, OpsKeepsTraced
  <2>8. OpsTrail'
    BY <1>6, <1>8, <1>12, <2>4, OpsKeepsTrail
  <2>9. ASSUME NEW d \in Conns \ {c}, Switching(tx[d]), tx[d].part = t.part PROVE hist'.crossed
    <3>1. tx[d].op = "switch" /\ tx[d].id \in hist.switched
      BY <2>9 DEF Switching, OpsInv, OpsTraced, Auditing
    <3>2. d \in Ops!Open("switch") \ {c}
      BY <3>1 DEF Ops!Open
    <3> QED
      BY <1>5, <1>10, <1>12, <2>9, <3>1, <3>2
  <2>10. OpsFollows'
    BY <1>6, <1>8, <1>12, <1>13, <2>1, <2>4, <2>9, OpsFollowsBot
  <2> QED
    BY <2>6, <2>7, <2>8, <2>10 DEF OpsInv
<1>15. CASE tx[c].op = "install"
  <2>1. db' = db
    BY <1>1, <1>15 DEF Ops!Applied
  <2>2. Ops!Audited' = Ops!Audited
    BY <2>1 DEF Ops!Audited
  <2>3. ~Switching(t)
    BY <1>7, <1>15
  <2>4. OpsTyped' /\ OpsStreams'
    BY <1>6, <1>8, <1>9, <1>11, <1>12, <2>1, OpsTypedNext, OpsKeepsStreams
  <2>5. OpsTraced'
    BY <1>5, <1>6, <1>7, <1>8, <1>12, <2>1, <2>2, OpsKeepsTraced
  <2>6. OpsTrail'
    BY <1>6, <1>8, <1>12, <2>1, OpsKeepsTrail
  <2>7. OpsFollows'
    BY <1>6, <1>8, <1>12, <1>13, <2>1, <2>3, OpsKeepsFollows
  <2> QED
    BY <2>4, <2>5, <2>6, <2>7 DEF OpsInv
<1> QED
  BY <1>2, <1>14, <1>15

LEMMA OpsBotUnanswered == ASSUME OpsInv, NEW c \in Conns, Ops!BotUnanswered(c) PROVE OpsInv'
<1>1. OpsTyped /\ Ops!At(c, "bot") /\ db' = Ops!Applied(c)
  BY DEF OpsInv, Ops!BotUnanswered
<1>2. /\ tx[c] \in OpsCall /\ tx[c].id \in Nat /\ tx[c].want \in BOOLEAN
      /\ tx[c].op \in {"switch", "install"} /\ tx[c].todo = <<"bot", "audit">>
  BY <1>1, OpsAtBot, Zenon DEF OpsReady
<1>3. ~Auditing(tx[c]) /\ ~Acting(tx[c]) /\ ~Streaming(tx[c]) /\ ~Switching(tx[c])
  BY <1>2, OpsParts, Zenon
<1>4. tx' = [tx EXCEPT ![c] = Ops!Idle] /\ left' = left
  BY DEF Ops!BotUnanswered, Ops!Finish, Ops!Continue
<1>5. OpsStep(c, Ops!Idle) /\ left' \in Nat
  BY <1>1, <1>4 DEF OpsStep, OpsTyped
<1>6. hist' = [hist EXCEPT !.switched = hist.switched \cup {tx[c].id}, !.blind = hist.blind \cup {tx[c].id}]
  BY DEF Ops!BotUnanswered
<1>7. hist \in OpsHist /\ db \in OpsDb
  BY <1>1 DEF OpsTyped
<1>8. /\ hist' \in OpsHist /\ hist'.switched = hist.switched \cup {tx[c].id}
      /\ hist'.blind = hist.blind \cup {tx[c].id}
      /\ hist'.deleted = hist.deleted /\ hist'.kept = hist.kept /\ hist'.unread = hist.unread
  BY <1>2, <1>6, <1>7 DEF OpsHist
<1>9. db' \in OpsDb /\ db'.audit = db.audit /\ db'.handed = db.handed /\ db'.upstream = db.upstream
  <2>1. CASE tx[c].op = "switch"
    <3>1. db' = [db EXCEPT !.on = [db.on EXCEPT ![tx[c].part] = tx[c].want]]
      BY <1>1, <2>1 DEF Ops!Applied
    <3>2. [db.on EXCEPT ![tx[c].part] = tx[c].want] \in [Ops!Parts -> BOOLEAN]
      BY <1>2, <1>7 DEF OpsDb
    <3> QED
      BY <1>7, <3>1, <3>2 DEF OpsDb
  <2>2. CASE tx[c].op = "install"
    BY <1>1, <1>7, <2>2 DEF Ops!Applied
  <2> QED
    BY <1>2, <2>1, <2>2
<1>10. Ops!Audited' = Ops!Audited
  BY <1>9 DEF Ops!Audited
<1>11. OpsTyped' /\ OpsStreams'
  BY <1>3, <1>5, <1>8, <1>9, OpsFree, OpsTypedNext, OpsKeepsStreams
<1>12. OpsTraced'
  BY <1>3, <1>5, <1>8, <1>9, <1>10, OpsFree, OpsKeepsTraced
<1>13. OpsTrail'
  BY <1>3, <1>5, <1>8, <1>9, OpsFree, OpsKeepsTrail
<1>14. OpsFollows'
  BY <1>8 DEF OpsFollows
<1> QED
  BY <1>11, <1>12, <1>13, <1>14 DEF OpsInv

\* A row is written while a request audits.
LEMMA OpsRow ==
  ASSUME OpsTyped, NEW c \in Conns, tx[c] \in OpsCall, NEW e, e = Ops!Entry(c),
         db' = [db EXCEPT !.audit = Append(db.audit, e)]
  PROVE  /\ e \in OpsEntry /\ e.id = tx[c].id /\ e.op = tx[c].op /\ e.part = tx[c].part /\ e.want = tx[c].want
         /\ db' \in OpsDb /\ db'.audit = Append(db.audit, e) /\ db'.on = db.on /\ db'.handed = db.handed
         /\ db'.upstream = db.upstream /\ db' # db
         /\ Ops!Audited \subseteq Ops!Audited' /\ e.id \in Ops!Audited'
<1>1. /\ tx[c].id \in Nat /\ tx[c].op \in OpsKinds \cup {"denied"} /\ tx[c].part \in Ops!Parts \cup {""}
      /\ tx[c].want \in BOOLEAN
  BY DEF OpsCall, OpsRecord
<1>2. e = [id |-> tx[c].id, op |-> tx[c].op, part |-> tx[c].part, want |-> tx[c].want]
  BY DEF Ops!Entry
<1>3. e \in OpsEntry /\ e.id = tx[c].id /\ e.op = tx[c].op /\ e.part = tx[c].part /\ e.want = tx[c].want
  <2>1. e.id = tx[c].id /\ e.op = tx[c].op /\ e.part = tx[c].part /\ e.want = tx[c].want
    BY <1>2
  <2>2. \A n \in Nat, o \in OpsKinds \cup {"denied"}, p \in Ops!Parts \cup {""}, w \in BOOLEAN :
          [id |-> n, op |-> o, part |-> p, want |-> w] \in OpsEntry
    BY DEF OpsEntry
  <2>3. e \in OpsEntry
    BY <1>1, <1>2, <2>2, Zenon
  <2> QED
    BY <2>1, <2>3
<1>4. db \in OpsDb
  BY DEF OpsTyped
<1>5. Append(db.audit, e) \in Seq(OpsEntry)
  BY <1>3, <1>4 DEF OpsDb
<1>6. /\ db' \in OpsDb /\ db'.audit = Append(db.audit, e) /\ db'.on = db.on /\ db'.handed = db.handed
      /\ db'.upstream = db.upstream
  BY <1>4, <1>5 DEF OpsDb
<1> QED
  BY <1>3, <1>6, OpsAudited

LEMMA OpsRecordAudit == ASSUME OpsInv, NEW c \in Conns, Ops!RecordAudit(c) PROVE OpsInv'
<1>1. OpsTyped /\ Ops!At(c, "audit") /\ Ops!Done(c) /\ db' = [db EXCEPT !.audit = Append(db.audit, Ops!Entry(c))]
        /\ hist' = hist
  BY DEF OpsInv, Ops!RecordAudit
<1>2. PICK e : e = Ops!Entry(c)
  OBVIOUS
<1>3. tx[c] \in OpsCall /\ tx[c].id \in Nat
  BY <1>1, OpsAtAudit, Zenon
<1>4. /\ e \in OpsEntry /\ e.id = tx[c].id /\ e.op = tx[c].op /\ e.part = tx[c].part /\ e.want = tx[c].want
      /\ db' \in OpsDb /\ db'.audit = Append(db.audit, e) /\ db'.on = db.on /\ db'.handed = db.handed
      /\ db'.upstream = db.upstream
      /\ Ops!Audited \subseteq Ops!Audited' /\ e.id \in Ops!Audited'
  BY <1>1, <1>2, <1>3, OpsRow
<1>5. hist \in OpsHist /\ hist' \in OpsHist /\ left' \in Nat
  BY <1>1 DEF OpsTyped, Ops!Done, Ops!Finish, Ops!Continue
<1>6. CASE OpsReady(c, "audit", {"switch", "install"}, <<"audit">>, Ops!Idle)
  <2>1. tx[c].op \in {"switch", "install"} /\ tx[c].todo = <<"audit">> /\ tx' = [tx EXCEPT ![c] = Ops!Idle]
    BY <1>1, <1>6, Zenon DEF OpsReady
  <2>2. Auditing(tx[c]) /\ ~Acting(tx[c]) /\ ~Streaming(tx[c]) /\ (Switching(tx[c]) <=> tx[c].op = "switch")
    BY <2>1, OpsParts, Zenon
  <2>3. OpsStep(c, Ops!Idle)
    BY <2>1 DEF OpsStep
  <2>4. tx[c].id \in hist.switched
    BY <2>2 DEF OpsInv, OpsTraced
  <2>5. Explained(e)'
    BY <1>1, <1>4, <2>1, <2>4 DEF Explained
  <2>6. OpsTyped' /\ OpsStreams'
    BY <1>1, <1>4, <1>5, <2>2, <2>3, OpsFree, OpsTypedNext, OpsKeepsStreams
  <2>7. OpsTraced'
    BY <1>1, <1>4, <2>2, <2>3, OpsFree, OpsKeepsTraced
  <2>8. OpsTrail'
    BY <1>1, <1>4, <2>2, <2>3, <2>5, OpsFree, OpsKeepsTrail
  <2>9. OpsFollows'
    <3>1. CASE tx[c].op = "switch"
      BY <1>1, <1>4, <2>2, <2>3, <3>1, OpsFollowsAudit
    <3>2. CASE tx[c].op = "install"
      BY <1>1, <1>4, <2>2, <2>3, <3>2, OpsFree, OpsKeepsFollows
    <3> QED
      BY <2>1, <3>1, <3>2
  <2> QED
    BY <2>6, <2>7, <2>8, <2>9 DEF OpsInv
<1>7. ASSUME NEW t \in OpsCall, OpsStep(c, t), Acting(t), ~Auditing(t), ~Streaming(t), t.id = tx[c].id,
               t.op = tx[c].op,
             ~Auditing(tx[c]), ~Acting(tx[c]), ~Streaming(tx[c])
      PROVE  OpsInv'
  <2>1. tx'[c] = t /\ c \in Conns
    BY <1>1, <1>7, OpsTx
  <2>2. Explained(e)'
    BY <1>4, <1>7, <2>1 DEF Explained
  <2>3. e.op # "switch"
    BY <1>4, <1>7 DEF Acting
  <2> QED
    BY <1>1, <1>4, <1>5, <1>7, <2>2, <2>3, OpsGoes
<1>8. CASE OpsReady(c, "audit", {"delete"}, <<"audit", "commit">>, OpsRest(c, <<"commit">>))
  <2>1. tx[c].op = "delete" /\ tx[c].todo = <<"audit", "commit">> /\ tx' = [tx EXCEPT ![c] = OpsRest(c, <<"commit">>)]
    BY <1>1, <1>8, Zenon DEF OpsReady
  <2>2. <<"commit">> \in OpsTodo[tx[c].op]
    BY <2>1 DEF OpsTodo
  <2>3. PICK t : t = OpsRest(c, <<"commit">>)
    OBVIOUS
  <2>4. t \in OpsCall /\ t.op = tx[c].op /\ t.id = tx[c].id /\ t.todo = <<"commit">>
    BY <1>3, <2>2, <2>3, OpsRests
  <2>5. ~Auditing(tx[c]) /\ ~Acting(tx[c]) /\ ~Streaming(tx[c])
    BY <2>1, OpsParts
  <2>6. Acting(t) /\ ~Auditing(t) /\ ~Streaming(t)
    BY <2>1, <2>4, OpsParts
  <2>7. OpsStep(c, t)
    BY <2>1, <2>3, <2>4, Zenon DEF OpsStep
  <2> QED
    BY <1>7, <2>4, <2>5, <2>6, <2>7
<1>9. CASE OpsReady(c, "audit", {"ticket"}, <<"audit", "hand">>, OpsRest(c, <<"hand">>))
  <2>1. tx[c].op = "ticket" /\ tx[c].todo = <<"audit", "hand">> /\ tx' = [tx EXCEPT ![c] = OpsRest(c, <<"hand">>)]
    BY <1>1, <1>9, Zenon DEF OpsReady
  <2>2. <<"hand">> \in OpsTodo[tx[c].op]
    BY <2>1 DEF OpsTodo
  <2>3. PICK t : t = OpsRest(c, <<"hand">>)
    OBVIOUS
  <2>4. t \in OpsCall /\ t.op = tx[c].op /\ t.id = tx[c].id /\ t.todo = <<"hand">>
    BY <1>3, <2>2, <2>3, OpsRests
  <2>5. ~Auditing(tx[c]) /\ ~Acting(tx[c]) /\ ~Streaming(tx[c])
    BY <2>1, OpsParts
  <2>6. Acting(t) /\ ~Auditing(t) /\ ~Streaming(t)
    BY <2>1, <2>4, OpsParts
  <2>7. OpsStep(c, t)
    BY <2>1, <2>3, <2>4, Zenon DEF OpsStep
  <2> QED
    BY <1>7, <2>4, <2>5, <2>6, <2>7
<1> QED
  BY <1>1, <1>6, <1>8, <1>9, OpsAtAudit, Zenon

LEMMA OpsAuditFails == ASSUME OpsInv, NEW c \in Conns, Ops!AuditFails(c) PROVE OpsInv'
<1>1. /\ OpsTyped /\ Ops!At(c, "audit") /\ tx' = [tx EXCEPT ![c] = Ops!Idle] /\ left' = left
      /\ db' = db \/ db' = [db EXCEPT !.audit = Append(db.audit, Ops!Entry(c))]
  BY DEF OpsInv, Ops!AuditFails, Ops!Undone, Ops!Finish, Ops!Continue
<1>2. PICK e : e = Ops!Entry(c)
  OBVIOUS
<1>3. tx[c] \in OpsCall /\ tx[c].id \in Nat
  BY <1>1, OpsAtAudit, Zenon
<1>5. db' # db => /\ e \in OpsEntry /\ e.id = tx[c].id /\ e.op = tx[c].op
                  /\ db' \in OpsDb /\ db'.audit = Append(db.audit, e) /\ db'.on = db.on /\ db'.handed = db.handed
                  /\ db'.upstream = db.upstream /\ Ops!Audited \subseteq Ops!Audited'
  BY <1>1, <1>2, <1>3, OpsRow
<1>6. db' = db => Ops!Audited' = Ops!Audited
  BY DEF Ops!Audited
<1>7. OpsStep(c, Ops!Idle) /\ left' \in Nat /\ db \in OpsDb /\ hist \in OpsHist
  BY <1>1 DEF OpsStep, OpsTyped
<1>8. PICK k : /\ hist' = [hist EXCEPT !.blind = hist.blind \cup (hist.switched \cap {tx[c].id}), !.kept = k]
               /\ db' = db => k = hist.kept
               /\ db' # db => k = hist.kept \cup {tx[c].id}
  BY DEF Ops!AuditFails
<1>9. k \in SUBSET Nat /\ hist.kept \subseteq k
  BY <1>3, <1>7, <1>8 DEF OpsHist
<1>10. /\ hist' \in OpsHist /\ hist'.blind = hist.blind \cup (hist.switched \cap {tx[c].id}) /\ hist'.kept = k
       /\ hist'.switched = hist.switched /\ hist'.deleted = hist.deleted /\ hist'.unread = hist.unread
       /\ hist'.crossed = hist.crossed
  BY <1>3, <1>7, <1>8, <1>9 DEF OpsHist
<1>11. db' # db => Explained(e)'
  BY <1>5, <1>8, <1>10 DEF Explained
<1>12. db' \in OpsDb /\ db'.on = db.on /\ db'.handed = db.handed /\ db'.upstream = db.upstream
       /\ Ops!Audited \subseteq Ops!Audited'
  BY <1>5, <1>6, <1>7
<1>13. CASE tx[c].op \in {"switch", "install"} /\ tx[c].todo = <<"audit">>
  <2>1. Auditing(tx[c]) /\ ~Acting(tx[c]) /\ ~Streaming(tx[c])
    BY <1>13, OpsParts, Zenon
  <2>2. tx[c].id \in hist.switched
    BY <2>1 DEF OpsInv, OpsTraced
  <2>3. tx[c].id \in hist'.blind
    BY <1>10, <2>2
  <2>4. OpsTyped' /\ OpsStreams'
    BY <1>7, <1>10, <1>12, <2>1, OpsFree, OpsTypedNext, OpsKeepsStreams
  <2>5. OpsTraced'
    BY <1>7, <1>10, <1>12, <2>1, <2>3, OpsFree, OpsKeepsTraced
  <2>6. OpsTrail'
    <3>1. db'.audit = db.audit \/ \E x \in OpsEntry : db'.audit = Append(db.audit, x) /\ Explained(x)'
      BY <1>5, <1>11
    <3> QED
      BY <1>7, <1>9, <1>10, <1>12, <2>1, <3>1, OpsFree, OpsKeepsTrail
  <2>7. OpsFollows'
    BY <2>3 DEF OpsFollows
  <2> QED
    BY <2>4, <2>5, <2>6, <2>7 DEF OpsInv
<1>14. CASE tx[c].op \in {"delete", "ticket"} /\ tx[c].todo \in {<<"audit", "commit">>, <<"audit", "hand">>}
  <2>1. ~Auditing(tx[c]) /\ ~Acting(tx[c]) /\ ~Streaming(tx[c])
    BY <1>14, OpsParts
  <2>2. db'.audit = db.audit \/ \E x \in OpsEntry : db'.audit = Append(db.audit, x) /\ Explained(x)'
          /\ x.op # "switch"
    BY <1>5, <1>11, <1>14
  <2> QED
    BY <1>7, <1>9, <1>10, <1>12, <2>1, <2>2, OpsFree, OpsGoes
<1> QED
  BY <1>1, <1>13, <1>14, OpsAtAudit, Zenon DEF OpsReady

LEMMA OpsMintTicket == ASSUME OpsInv, NEW c \in Conns, Ops!MintTicket(c) PROVE OpsInv'
<1>1. OpsTyped /\ Ops!At(c, "mint") /\ Ops!Done(c) /\ db' = db /\ hist' = hist
  BY DEF OpsInv, Ops!MintTicket
<1>2. /\ tx[c] \in OpsCall /\ tx[c].op = "ticket" /\ tx[c].todo = <<"mint", "audit", "hand">>
      /\ tx' = [tx EXCEPT ![c] = OpsRest(c, <<"audit", "hand">>)]
  BY <1>1, OpsAtMint, Zenon DEF OpsReady
<1>3. PICK t : t = OpsRest(c, <<"audit", "hand">>)
  OBVIOUS
<1>4. <<"audit", "hand">> \in OpsTodo[tx[c].op]
  BY <1>2 DEF OpsTodo
<1>5. t \in OpsCall /\ t.todo = <<"audit", "hand">>
  BY <1>2, <1>3, <1>4, OpsRests
<1>6. /\ ~Auditing(t) /\ ~Acting(t) /\ ~Streaming(t)
      /\ ~Auditing(tx[c]) /\ ~Acting(tx[c]) /\ ~Streaming(tx[c])
  BY <1>2, <1>5, OpsParts
<1>7. OpsStep(c, t)
  BY <1>2, <1>3, <1>5, Zenon DEF OpsStep
<1>8. hist \in OpsHist /\ db \in OpsDb /\ left' \in Nat
  BY <1>1 DEF OpsTyped, Ops!Done, Ops!Finish, Ops!Continue
<1> QED
  BY <1>1, <1>6, <1>7, <1>8, OpsGoes

LEMMA OpsHandOver == ASSUME OpsInv, NEW c \in Conns, Ops!HandOver(c) PROVE OpsInv'
<1>1. OpsTyped /\ Ops!At(c, "hand") /\ Ops!Done(c) /\ db' = [db EXCEPT !.handed = db.handed \cup {tx[c].id}]
        /\ hist' = hist
  BY DEF OpsInv, Ops!HandOver
<1>2. /\ tx[c].id \in Nat /\ tx[c].op = "ticket" /\ tx[c].todo = <<"hand">> /\ tx' = [tx EXCEPT ![c] = Ops!Idle]
  BY <1>1, OpsAtHand, Zenon DEF OpsReady
<1>3. ~Auditing(tx[c]) /\ ~Streaming(tx[c]) /\ ~Switching(tx[c]) /\ Acting(tx[c])
  BY <1>2, OpsParts
<1>4. OpsStep(c, Ops!Idle) /\ hist \in OpsHist /\ db \in OpsDb /\ left' \in Nat
  BY <1>1, <1>2 DEF OpsStep, OpsTyped, Ops!Done, Ops!Finish, Ops!Continue
<1>5. /\ db' \in OpsDb /\ db'.audit = db.audit /\ db'.on = db.on /\ db'.upstream = db.upstream
      /\ db'.handed = db.handed \cup {tx[c].id}
  BY <1>1, <1>2, <1>4 DEF OpsDb
<1>6. Ops!Audited' = Ops!Audited
  BY <1>5 DEF Ops!Audited
<1>7. OpsTyped' /\ OpsStreams'
  BY <1>1, <1>3, <1>4, <1>5, OpsFree, OpsTypedNext, OpsKeepsStreams
<1>8. OpsTraced'
  BY <1>1, <1>3, <1>4, <1>5, <1>6, OpsFree, OpsKeepsTraced
<1>9. OpsTrail'
  BY <1>1, <1>2, <1>3, <1>4, <1>5, OpsFree, OpsKeepsTrail
<1>10. OpsFollows'
  BY <1>1, <1>3, <1>4, <1>5, OpsFree, OpsKeepsFollows
<1> QED
  BY <1>7, <1>8, <1>9, <1>10 DEF OpsInv

LEMMA OpsCommitDelete == ASSUME OpsInv, NEW c \in Conns, Ops!CommitDelete(c) PROVE OpsInv'
<1>1. /\ OpsTyped /\ Ops!At(c, "commit") /\ Ops!Done(c) /\ db' = [db EXCEPT !.item = "gone"]
      /\ hist' = [hist EXCEPT !.deleted = hist.deleted \cup {tx[c].id}]
  BY DEF OpsInv, Ops!CommitDelete
<1>2. /\ tx[c].id \in Nat /\ tx[c].op = "delete" /\ tx[c].todo = <<"commit">> /\ tx' = [tx EXCEPT ![c] = Ops!Idle]
  BY <1>1, OpsAtCommit, Zenon DEF OpsReady
<1>3. ~Auditing(tx[c]) /\ ~Streaming(tx[c]) /\ ~Switching(tx[c]) /\ Acting(tx[c])
  BY <1>2, OpsParts
<1>4. OpsStep(c, Ops!Idle) /\ hist \in OpsHist /\ db \in OpsDb /\ left' \in Nat
  BY <1>1, <1>2 DEF OpsStep, OpsTyped, Ops!Done, Ops!Finish, Ops!Continue
<1>5. /\ db' \in OpsDb /\ db'.audit = db.audit /\ db'.on = db.on /\ db'.upstream = db.upstream
      /\ db'.handed = db.handed
  BY <1>1, <1>4 DEF OpsDb
<1>6. /\ hist' \in OpsHist /\ hist'.deleted = hist.deleted \cup {tx[c].id} /\ hist'.switched = hist.switched
      /\ hist'.blind = hist.blind /\ hist'.kept = hist.kept /\ hist'.unread = hist.unread
      /\ hist'.crossed = hist.crossed
  BY <1>1, <1>2, <1>4 DEF OpsHist
<1>7. Ops!Audited' = Ops!Audited
  BY <1>5 DEF Ops!Audited
<1>8. OpsTyped' /\ OpsStreams'
  BY <1>3, <1>4, <1>5, <1>6, OpsFree, OpsTypedNext, OpsKeepsStreams
<1>9. OpsTraced'
  BY <1>3, <1>4, <1>5, <1>6, <1>7, OpsFree, OpsKeepsTraced
<1>10. OpsTrail'
  BY <1>2, <1>3, <1>4, <1>5, <1>6, OpsFree, OpsKeepsTrail
<1>11. OpsFollows'
  BY <1>3, <1>4, <1>5, <1>6, OpsFree, OpsKeepsFollows
<1> QED
  BY <1>8, <1>9, <1>10, <1>11 DEF OpsInv

\* A step of a request for the logs.
LEMMA OpsReads ==
  ASSUME OpsInv, NEW c, NEW t, OpsStep(c, t), left' \in Nat, db' \in OpsDb, hist' \in OpsHist,
         db'.on = db.on, db'.audit = db.audit, db'.handed = db.handed, hist'.switched = hist.switched,
         hist'.deleted = hist.deleted, hist'.blind = hist.blind, hist'.kept = hist.kept, hist'.crossed = hist.crossed,
         hist.unread \subseteq hist'.unread,
         ~Auditing(t), ~Acting(t), ~Auditing(tx[c]), ~Acting(tx[c]),
         \A x \in db'.upstream : x \in db.upstream \/ (Streaming(t) /\ t.id = x),
         Streaming(tx[c]) => \/ Streaming(t) /\ t.id = tx[c].id
                             \/ tx[c].id \notin db'.upstream
                             \/ tx[c].id \in hist'.unread
  PROVE  OpsInv'
<1>1. Ops!Audited' = Ops!Audited
  BY DEF Ops!Audited
<1>2. ~Switching(t) /\ ~Switching(tx[c])
  BY DEF Switching, Auditing
<1>3. OpsTyped' /\ OpsStreams'
  BY OpsTypedNext, OpsKeepsStreams
<1>4. OpsTraced'
  BY <1>1, OpsKeepsTraced
<1>5. OpsTrail'
  BY OpsKeepsTrail
<1>6. OpsFollows'
  BY <1>2, OpsKeepsFollows
<1> QED
  BY <1>3, <1>4, <1>5, <1>6 DEF OpsInv

LEMMA OpsOpenLogs == ASSUME OpsInv, NEW c \in Conns, Ops!OpenLogs(c) PROVE OpsInv'
<1>1. OpsTyped /\ Ops!At(c, "open") /\ Ops!Done(c) /\ db' = [db EXCEPT !.upstream = db.upstream \cup {tx[c].id}]
        /\ hist' = hist
  BY DEF OpsInv, Ops!OpenLogs
<1>2. /\ tx[c] \in OpsCall /\ tx[c].id \in Nat /\ tx[c].op = "logs" /\ tx[c].todo = <<"open", "stream", "close">>
      /\ tx' = [tx EXCEPT ![c] = OpsRest(c, <<"stream", "close">>)]
  BY <1>1, OpsAtOpen, Zenon DEF OpsReady
<1>3. PICK t : t = OpsRest(c, <<"stream", "close">>)
  OBVIOUS
<1>4. <<"stream", "close">> \in OpsTodo[tx[c].op]
  BY <1>2 DEF OpsTodo
<1>5. t \in OpsCall /\ t.op = "logs" /\ t.id = tx[c].id /\ t.todo = <<"stream", "close">>
  BY <1>2, <1>3, <1>4, OpsRests
<1>6. /\ ~Auditing(t) /\ ~Acting(t) /\ Streaming(t)
      /\ ~Auditing(tx[c]) /\ ~Acting(tx[c]) /\ ~Streaming(tx[c])
  BY <1>2, <1>5, OpsParts
<1>7. OpsStep(c, t)
  BY <1>2, <1>3, <1>5, Zenon DEF OpsStep
<1>8. hist \in OpsHist /\ db \in OpsDb /\ left' \in Nat
  BY <1>1 DEF OpsTyped, Ops!Done, Ops!Finish, Ops!Continue
<1>9. /\ db' \in OpsDb /\ db'.audit = db.audit /\ db'.on = db.on /\ db'.handed = db.handed
      /\ db'.upstream = db.upstream \cup {tx[c].id}
  BY <1>1, <1>2, <1>8 DEF OpsDb
<1> QED
  BY <1>1, <1>5, <1>6, <1>7, <1>8, <1>9, OpsReads

LEMMA OpsStreamLogs == ASSUME OpsInv, NEW c \in Conns, Ops!StreamLogs(c) PROVE OpsInv'
<1>1. OpsTyped /\ Ops!At(c, "stream") /\ Ops!Done(c) /\ db' = db /\ hist' = hist
  BY DEF OpsInv, Ops!StreamLogs
<1>2. /\ tx[c] \in OpsCall /\ tx[c].op = "logs" /\ tx[c].todo = <<"stream", "close">>
      /\ tx' = [tx EXCEPT ![c] = OpsRest(c, <<"close">>)]
  BY <1>1, OpsAtStream, Zenon DEF OpsReady
<1>3. PICK t : t = OpsRest(c, <<"close">>)
  OBVIOUS
<1>4. <<"close">> \in OpsTodo[tx[c].op]
  BY <1>2 DEF OpsTodo
<1>5. t \in OpsCall /\ t.op = "logs" /\ t.id = tx[c].id /\ t.todo = <<"close">>
  BY <1>2, <1>3, <1>4, OpsRests
<1>6. /\ ~Auditing(t) /\ ~Acting(t) /\ Streaming(t)
      /\ ~Auditing(tx[c]) /\ ~Acting(tx[c]) /\ Streaming(tx[c])
  BY <1>2, <1>5, OpsParts
<1>7. OpsStep(c, t)
  BY <1>2, <1>3, <1>5, Zenon DEF OpsStep
<1>8. hist \in OpsHist /\ db \in OpsDb /\ left' \in Nat
  BY <1>1 DEF OpsTyped, Ops!Done, Ops!Finish, Ops!Continue
<1> QED
  BY <1>1, <1>5, <1>6, <1>7, <1>8, OpsReads

\* The stream of a request is closed; the ids of two requests may be the same
\* for all that matters here.
LEMMA OpsCloseLogs == ASSUME OpsInv, NEW c \in Conns, Ops!CloseLogs(c) PROVE OpsInv'
<1>1. OpsTyped /\ Ops!At(c, "close") /\ Ops!Done(c) /\ db' = [db EXCEPT !.upstream = db.upstream \ {tx[c].id}]
        /\ hist' = hist
  BY DEF OpsInv, Ops!CloseLogs
<1>2. /\ tx[c] \in OpsCall /\ tx[c].op = "logs" /\ tx[c].todo = <<"close">> /\ tx' = [tx EXCEPT ![c] = Ops!Idle]
  BY <1>1, OpsAtClose, Zenon DEF OpsReady
<1>3. ~Auditing(tx[c]) /\ ~Acting(tx[c])
  BY <1>2, OpsParts
<1>4. OpsStep(c, Ops!Idle) /\ hist \in OpsHist /\ db \in OpsDb /\ left' \in Nat
  BY <1>1, <1>2 DEF OpsStep, OpsTyped, Ops!Done, Ops!Finish, Ops!Continue
<1>5. /\ db' \in OpsDb /\ db'.audit = db.audit /\ db'.on = db.on /\ db'.handed = db.handed
      /\ db'.upstream = db.upstream \ {tx[c].id}
  BY <1>1, <1>4 DEF OpsDb
<1> QED
  BY <1>1, <1>3, <1>4, <1>5, OpsFree, OpsReads

LEMMA OpsLogsUnread == ASSUME OpsInv, NEW c \in Conns, Ops!LogsUnread(c) PROVE OpsInv'
<1>1. /\ OpsTyped /\ Ops!At(c, "stream") /\ tx' = [tx EXCEPT ![c] = Ops!Idle] /\ left' = left /\ db' = db
      /\ hist' = [hist EXCEPT !.unread = hist.unread \cup {tx[c].id}]
  BY DEF OpsInv, Ops!LogsUnread, Ops!Finish, Ops!Continue
<1>2. tx[c].id \in Nat /\ tx[c].op = "logs" /\ tx[c].todo = <<"stream", "close">>
  BY <1>1, OpsAtStream, Zenon DEF OpsReady
<1>3. ~Auditing(tx[c]) /\ ~Acting(tx[c])
  BY <1>2, OpsParts
<1>4. OpsStep(c, Ops!Idle) /\ hist \in OpsHist /\ db \in OpsDb /\ left' \in Nat
  BY <1>1 DEF OpsStep, OpsTyped
<1>5. /\ hist' \in OpsHist /\ hist'.deleted = hist.deleted /\ hist'.switched = hist.switched
      /\ hist'.blind = hist.blind /\ hist'.kept = hist.kept /\ hist'.crossed = hist.crossed
      /\ hist'.unread = hist.unread \cup {tx[c].id}
  BY <1>1, <1>2, <1>4 DEF OpsHist
<1> QED
  BY <1>1, <1>3, <1>4, <1>5, OpsFree, OpsReads

LEMMA OpsEnds == ASSUME OpsInv, NEW c \in Conns, Ops!Ends(c) PROVE OpsInv'
<1>1. /\ OpsTyped /\ tx' = [tx EXCEPT ![c] = Ops!Idle] /\ left' = left /\ db' = db
      /\ hist' = [hist EXCEPT !.kept = hist.kept \cup {tx[c].id}]
      /\ \/ Ops!At(c, "bot") \/ Ops!At(c, "mint") \/ Ops!At(c, "hand") \/ Ops!At(c, "commit") \/ Ops!At(c, "open")
  BY DEF OpsInv, Ops!Ends, Ops!Finish, Ops!Continue
<1>2. tx[c].id \in Nat /\ ~Auditing(tx[c]) /\ ~Streaming(tx[c])
  <2>1. CASE Ops!At(c, "bot")
    <3>1. tx[c].id \in Nat /\ tx[c].todo = <<"bot", "audit">>
      BY <1>1, <2>1, OpsAtBot, Zenon DEF OpsReady
    <3> QED
      BY <3>1, OpsParts
  <2>2. CASE Ops!At(c, "mint")
    <3>1. tx[c].id \in Nat /\ tx[c].todo = <<"mint", "audit", "hand">>
      BY <1>1, <2>2, OpsAtMint, Zenon DEF OpsReady
    <3> QED
      BY <3>1, OpsParts
  <2>3. CASE Ops!At(c, "hand")
    <3>1. tx[c].id \in Nat /\ tx[c].todo = <<"hand">>
      BY <1>1, <2>3, OpsAtHand, Zenon DEF OpsReady
    <3> QED
      BY <3>1, OpsParts
  <2>4. CASE Ops!At(c, "commit")
    <3>1. tx[c].id \in Nat /\ tx[c].todo = <<"commit">>
      BY <1>1, <2>4, OpsAtCommit, Zenon DEF OpsReady
    <3> QED
      BY <3>1, OpsParts
  <2>5. CASE Ops!At(c, "open")
    <3>1. tx[c].id \in Nat /\ tx[c].todo = <<"open", "stream", "close">>
      BY <1>1, <2>5, OpsAtOpen, Zenon DEF OpsReady
    <3> QED
      BY <3>1, OpsParts
  <2> QED
    BY <1>1, <2>1, <2>2, <2>3, <2>4, <2>5, Zenon
<1>3. OpsStep(c, Ops!Idle) /\ hist \in OpsHist /\ db \in OpsDb /\ left' \in Nat
  BY <1>1 DEF OpsStep, OpsTyped
<1>4. /\ hist' \in OpsHist /\ hist'.deleted = hist.deleted /\ hist'.switched = hist.switched
      /\ hist'.blind = hist.blind /\ hist'.unread = hist.unread /\ hist'.crossed = hist.crossed
      /\ hist'.kept = hist.kept \cup {tx[c].id}
  BY <1>1, <1>2, <1>3 DEF OpsHist
<1> QED
  BY <1>1, <1>2, <1>3, <1>4, OpsFree, OpsGoes

LEMMA OpsInit == Ops!Init => OpsInv
<1> SUFFICES ASSUME Ops!Init PROVE OpsInv
  OBVIOUS
<1>1. /\ tx = [c \in Conns |-> Ops!Idle] /\ left = OpsRequests /\ OpsRequests \in Nat
      /\ db = [granted |-> TRUE, on |-> [p \in Ops!Parts |-> TRUE], item |-> "live", audit |-> <<>>, handed |-> {},
               upstream |-> {}]
      /\ hist = [switched |-> {}, deleted |-> {}, blind |-> {}, crossed |-> FALSE, kept |-> {}, unread |-> {}]
  BY PlatformAssumption DEF Ops!Init, Ops!Resting
<1>2. <<>> \in Seq(OpsEntry) /\ DOMAIN <<>> = {}
  OBVIOUS
<1>3. [p \in Ops!Parts |-> TRUE] \in [Ops!Parts -> BOOLEAN]
  OBVIOUS
<1>4. db \in OpsDb /\ hist \in OpsHist
  BY <1>1, <1>2, <1>3 DEF OpsDb, OpsHist
<1>5. OpsTyped
  BY <1>1, <1>4 DEF OpsTyped
<1>6. \A c \in Conns : tx[c] = Ops!Idle
  BY <1>1
<1>7. db.audit = <<>> /\ db.handed = {} /\ db.upstream = {} /\ hist.switched = {} /\ hist.deleted = {}
  BY <1>1
<1>8. DOMAIN db.audit = {}
  BY <1>2, <1>7
<1>9. OpsStreams /\ OpsTrail
  BY <1>7, <1>8 DEF OpsStreams, OpsTrail
<1>10. OpsTraced
  BY <1>6, <1>7, OpsFree DEF OpsTraced
<1>11. OpsFollows
  BY <1>6, <1>8, OpsFree DEF OpsFollows
<1> QED
  BY <1>5, <1>9, <1>10, <1>11 DEF OpsInv

LEMMA OpsQuiet == OpsInv /\ UNCHANGED <<db, tx, hist, left>> => OpsInv'
<1> SUFFICES ASSUME OpsInv, db' = db, tx' = tx, hist' = hist, left' = left PROVE OpsInv'
  OBVIOUS
<1>1. OpsTyped' /\ OpsStreams'
  BY DEF OpsInv, OpsTyped, OpsStreams
<1>2. OpsTraced'
  BY DEF OpsInv, OpsTraced, Ops!Audited
<1>3. OpsTrail'
  BY DEF OpsInv, OpsTrail, Explained
<1>4. OpsFollows'
  BY DEF OpsInv, OpsFollows, LastOn
<1> QED
  BY <1>1, <1>2, <1>3, <1>4 DEF OpsInv

LEMMA OpsNext == OpsInv /\ Ops!Next => OpsInv'
<1> SUFFICES ASSUME OpsInv, NEW c \in Conns,
                    \/ Ops!SwitchPlatform(c) \/ Ops!SwitchProvider(c) \/ Ops!SwitchPlugin(c)
                    \/ Ops!Ticket(c) \/ Ops!Denied(c) \/ Ops!Delete(c) \/ Ops!Grant(c) \/ Ops!Install(c)
                        \/ Ops!Logs(c)
                    \/ Ops!BotApplies(c) \/ Ops!BotUnanswered(c) \/ Ops!MintTicket(c)
                    \/ Ops!RecordAudit(c) \/ Ops!AuditFails(c) \/ Ops!HandOver(c) \/ Ops!CommitDelete(c)
                    \/ Ops!OpenLogs(c) \/ Ops!StreamLogs(c) \/ Ops!CloseLogs(c) \/ Ops!LogsUnread(c) \/ Ops!Ends(c)
             PROVE  OpsInv'
  BY Zenon DEF Ops!Next
<1>1. "switch" \in OpsKinds /\ "ticket" \in OpsKinds /\ "delete" \in OpsKinds /\ "install" \in OpsKinds
        /\ "logs" \in OpsKinds
  BY DEF OpsKinds
<1>2. {"platform", "provider", "plugin"} \subseteq Ops!Parts
  BY DEF Ops!Parts
<1>3. ASSUME NEW part \in {"platform", "provider", "plugin"}, Ops!Switch(c, part) PROVE OpsInv'
  <2>1. PICK want \in BOOLEAN : Ops!Ask(c, "switch", part, want)
    BY <1>3, Zenon DEF Ops!Switch
  <2>2. part \in Ops!Parts
    BY <1>2
  <2> QED
    BY <1>1, <2>1, <2>2, OpsBegins, Zenon
<1>4. ASSUME NEW op \in {"ticket", "delete", "install", "logs"}, Ops!Ask(c, op, "", TRUE) PROVE OpsInv'
  <2>1. op \in OpsKinds /\ op # "switch"
    BY <1>1
  <2>2. "" \in Ops!Parts \cup {""} /\ TRUE \in BOOLEAN
    OBVIOUS
  <2> QED
    BY <1>4, <2>1, <2>2, OpsBegins, Zenon
<1>5. CASE Ops!SwitchPlatform(c)
  BY <1>3, <1>5, Zenon DEF Ops!SwitchPlatform
<1>6. CASE Ops!SwitchProvider(c)
  BY <1>3, <1>6, Zenon DEF Ops!SwitchProvider
<1>7. CASE Ops!SwitchPlugin(c)
  BY <1>3, <1>7, Zenon DEF Ops!SwitchPlugin
<1>8. CASE Ops!Ticket(c)
  BY <1>4, <1>8, Zenon DEF Ops!Ticket
<1>9. CASE Ops!Delete(c)
  BY <1>4, <1>9, Zenon DEF Ops!Delete
<1>10. CASE Ops!Install(c)
  BY <1>4, <1>10, Zenon DEF Ops!Install
<1>11. CASE Ops!Logs(c)
  BY <1>4, <1>11, Zenon DEF Ops!Logs
<1> QED
  BY <1>5, <1>6, <1>7, <1>8, <1>9, <1>10, <1>11, OpsDenied, OpsGrant, OpsBotApplies, OpsBotUnanswered, OpsMintTicket,
     OpsRecordAudit, OpsAuditFails, OpsHandOver, OpsCommitDelete, OpsOpenLogs, OpsStreamLogs, OpsCloseLogs,
     OpsLogsUnread, OpsEnds, Zenon

LEMMA OpsKept == OpsInv => Ops!AuditSound
<1> SUFFICES ASSUME OpsInv PROVE Ops!StreamsClosed /\ Ops!Traced /\ Ops!TrailTrue /\ Ops!TrailCurrent
  BY DEF Ops!AuditSound
<1>1. ASSUME NEW c \in Conns, Auditing(tx[c]) \/ Acting(tx[c]) \/ Streaming(tx[c]) PROVE tx[c].id \in Ops!Pending
  <2>1. tx[c] # Ops!Idle
    BY <1>1, OpsFree
  <2> QED
    BY <2>1 DEF Ops!Pending, Ops!Busy
<1>2. Ops!StreamsClosed
  BY <1>1 DEF OpsInv, OpsStreams, Ops!StreamsClosed
<1>3. Ops!Traced
  BY <1>1 DEF OpsInv, OpsTraced, Ops!Traced
<1>4. Ops!TrailTrue
  BY <1>1 DEF OpsInv, OpsTrail, Explained, Ops!TrailTrue
<1>5. Ops!TrailCurrent
  <2> SUFFICES ASSUME hist.blind = {}, ~hist.crossed, Ops!Open("switch") = {}, NEW i \in DOMAIN db.audit, LastOn(i)
               PROVE  db.on[db.audit[i].part] = db.audit[i].want
    BY DEF Ops!TrailCurrent, LastOn
  <2>1. \A c \in Conns : ~Switching(tx[c])
    BY DEF Ops!Open, Switching
  <2> QED
    BY <2>1 DEF OpsInv, OpsFollows
<1> QED
  BY <1>2, <1>3, <1>4, <1>5

-----------------------------------------------------------------------------
(* The whitelist of user ids                                               *)

IdsCall ==
  [op : {"user", "demo"}, id : Ids!Ids] \cup [op : {"seed"}, cursor : Nat, total : Nat] \cup [op : {"mark"}]

IdsTyped ==
  /\ tx \in [Conns -> {Ids!Idle} \cup IdsCall]
  /\ db \in [users : SUBSET Ids!Ids, bits : SUBSET Nat, seeded : BOOLEAN]
  /\ hist \in [unadded : SUBSET Nat]

\* An id whose bits are set, or that is known to be missing.
Listed(i) == Ids!Positions(i) \subseteq db.bits \/ i \in hist.unadded

\* Users behind the mark, behind a scan that is complete, behind the cursor
\* of a scan and about to be committed are listed.
IdsInv ==
  /\ IdsTyped
  /\ db.seeded => \A i \in db.users : Listed(i)
  /\ \A c \in Conns : tx[c].op = "seed" => \A i \in db.users : i <= tx[c].cursor => Listed(i)
  /\ \A c \in Conns : tx[c].op = "user" => Listed(tx[c].id)
  /\ \A c \in Conns : tx[c].op = "mark" => \A i \in db.users : Listed(i)

\* A step that forgets nothing.
LEMMA IdsGoes ==
  ASSUME IdsInv, NEW c \in Conns, NEW t \in {Ids!Idle} \cup IdsCall, tx' = [tx EXCEPT ![c] = t],
         db' \in [users : SUBSET Ids!Ids, bits : SUBSET Nat, seeded : BOOLEAN], hist' \in [unadded : SUBSET Nat],
         \A i \in Nat : Listed(i) => Listed(i)',
         \A i \in db'.users : i \in db.users \/ Listed(i)',
         db'.seeded => db.seeded \/ \A i \in db.users : Listed(i)',
         t.op = "seed" => \A i \in db.users : i <= t.cursor => Listed(i)',
         t.op = "user" => Listed(t.id)',
         t.op = "mark" => \A i \in db.users : Listed(i)'
  PROVE  IdsInv'
<1>1. /\ tx' \in [Conns -> {Ids!Idle} \cup IdsCall] /\ tx'[c] = t
      /\ \A d \in Conns : d # c => tx'[d] = tx[d]
  BY DEF IdsInv, IdsTyped
<1>2. db.users \subseteq Nat /\ db'.users \subseteq Nat
  BY DEF IdsInv, IdsTyped, Ids!Ids
<1>3. IdsTyped'
  BY <1>1 DEF IdsTyped
<1>4. db'.seeded => \A i \in db'.users : Listed(i)'
  BY <1>2 DEF IdsInv
<1>5. ASSUME NEW d \in Conns, tx'[d].op = "seed", NEW i \in db'.users, i <= tx'[d].cursor PROVE Listed(i)'
  <2>1. CASE d = c
    BY <1>1, <1>5, <2>1
  <2>2. CASE d # c
    BY <1>1, <1>2, <1>5, <2>2 DEF IdsInv
  <2> QED
    BY <2>1, <2>2
<1>6. ASSUME NEW d \in Conns, tx'[d].op = "user" PROVE Listed(tx[d].id)'
  <2>1. CASE d = c
    BY <1>1, <1>6, <2>1 DEF Listed
  <2>2. CASE d # c
    <3>1. PICK i : i = tx[d].id
      OBVIOUS
    <3>2. tx'[d] = tx[d] /\ tx[d].op = "user" /\ tx[d] \in IdsCall
      BY <1>1, <1>6, <2>2 DEF IdsInv, IdsTyped, Ids!Idle
    <3>3. i \in Nat /\ Listed(i)
      BY <3>1, <3>2 DEF IdsInv, IdsCall, Ids!Ids
    <3>4. Listed(i)'
      BY <3>3
    <3> QED
      BY <3>1, <3>2, <3>4 DEF Listed
  <2> QED
    BY <2>1, <2>2
<1>7. ASSUME NEW d \in Conns, tx'[d].op = "mark", NEW i \in db'.users PROVE Listed(i)'
  <2>1. CASE d = c
    BY <1>1, <1>7, <2>1
  <2>2. CASE d # c
    BY <1>1, <1>2, <1>7, <2>2 DEF IdsInv
  <2> QED
    BY <2>1, <2>2
<1> QED
  BY <1>3, <1>4, <1>5, <1>6, <1>7 DEF IdsInv

LEMMA IdsAdds ==
  ASSUME IdsTyped, NEW i \in Ids!Ids, db'.bits = db.bits \cup UNION {Ids!Positions(j) : j \in {i}},
         hist'.unadded = hist.unadded \ {i}
  PROVE  /\ \A j \in Nat : Listed(j) => Listed(j)'
         /\ Listed(i)' /\ db'.bits \subseteq Nat /\ hist'.unadded \subseteq Nat
<1>1. UNION {Ids!Positions(j) : j \in {i}} = Ids!Positions(i) /\ Ids!Positions(i) \subseteq Nat
  BY DEF Ids!Positions, Ids!Ids
<1>2. db'.bits = db.bits \cup Ids!Positions(i) /\ db.bits \subseteq Nat
  BY <1>1 DEF IdsTyped
<1>3. Listed(i)'
  BY <1>2 DEF Listed
<1>4. ASSUME NEW j \in Nat, Listed(j) PROVE Listed(j)'
  BY <1>2, <1>3, <1>4 DEF Listed
<1> QED
  BY <1>1, <1>2, <1>3, <1>4 DEF IdsTyped

\* The registration, the demo user and the scan write their bits, or owe them.
LEMMA IdsWrites ==
  ASSUME IdsInv, NEW i \in Ids!Ids,
         \/ Ids!Add({i}) /\ Ids!Paid({i})
         \/ UNCHANGED db /\ Ids!Owed({i})
         \/ db' = [db EXCEPT !.users = db.users \cup {i}] /\ Ids!Owed({i})
  PROVE  /\ db' \in [users : SUBSET Ids!Ids, bits : SUBSET Nat, seeded : BOOLEAN] /\ hist' \in [unadded : SUBSET Nat]
         /\ \A j \in Nat : Listed(j) => Listed(j)'
         /\ Listed(i)' /\ db'.seeded = db.seeded /\ db'.users \subseteq db.users \cup {i}
<1>1. /\ db \in [users : SUBSET Ids!Ids, bits : SUBSET Nat, seeded : BOOLEAN] /\ hist \in [unadded : SUBSET Nat]
      /\ i \in Nat /\ IdsTyped
  BY DEF IdsInv, IdsTyped, Ids!Ids
<1>2. CASE Ids!Add({i}) /\ Ids!Paid({i})
  <2> DEFINE more == db.bits \cup UNION {Ids!Positions(j) : j \in {i}}
  <2>1. /\ db' = [db EXCEPT !.bits = more] /\ hist' = [hist EXCEPT !.unadded = hist.unadded \ {i}]
    BY <1>2 DEF Ids!Add, Ids!Paid
  <2>2. more \subseteq Nat
    BY <1>1 DEF Ids!Positions
  <2> HIDE DEF more
  <2>3. /\ db' \in [users : SUBSET Ids!Ids, bits : SUBSET Nat, seeded : BOOLEAN] /\ db'.bits = more
        /\ db'.seeded = db.seeded /\ db'.users = db.users
        /\ hist' \in [unadded : SUBSET Nat] /\ hist'.unadded = hist.unadded \ {i}
    BY <1>1, <2>1, <2>2
  <2>4. (\A j \in Nat : Listed(j) => Listed(j)') /\ Listed(i)'
    BY <1>1, <2>3, IdsAdds DEF more
  <2> QED
    BY <2>3, <2>4
<1>3. CASE UNCHANGED db /\ Ids!Owed({i})
  <2>1. hist' = [hist EXCEPT !.unadded = hist.unadded \cup {i}]
    BY <1>3 DEF Ids!Owed
  <2>2. hist' \in [unadded : SUBSET Nat] /\ hist'.unadded = hist.unadded \cup {i}
    BY <1>1, <2>1
  <2> QED
    BY <1>1, <1>3, <2>2 DEF Listed
<1>4. CASE db' = [db EXCEPT !.users = db.users \cup {i}] /\ Ids!Owed({i})
  <2>1. hist' = [hist EXCEPT !.unadded = hist.unadded \cup {i}]
    BY <1>4 DEF Ids!Owed
  <2>2. hist' \in [unadded : SUBSET Nat] /\ hist'.unadded = hist.unadded \cup {i}
    BY <1>1, <2>1
  <2>3. /\ db' \in [users : SUBSET Ids!Ids, bits : SUBSET Nat, seeded : BOOLEAN] /\ db'.bits = db.bits
        /\ db'.seeded = db.seeded /\ db'.users = db.users \cup {i}
    BY <1>1, <1>4
  <2> QED
    BY <2>2, <2>3 DEF Listed
<1> QED
  BY <1>2, <1>3, <1>4

LEMMA IdsCreates == ASSUME IdsInv, NEW c \in Conns, NEW i \in Ids!Ids, Ids!CreateUser(c, i) PROVE IdsInv'
<1>1. PICK t : t = [op |-> "user", id |-> i]
  OBVIOUS
<1>2. tx' = [tx EXCEPT ![c] = t] /\ ((Ids!Add({i}) /\ Ids!Paid({i})) \/ (UNCHANGED db /\ Ids!Owed({i})))
  BY <1>1 DEF Ids!CreateUser, Ids!Begin
<1>3. t \in IdsCall /\ t.op = "user" /\ t.id = i
  BY <1>1 DEF IdsCall
<1>4. /\ db' \in [users : SUBSET Ids!Ids, bits : SUBSET Nat, seeded : BOOLEAN] /\ hist' \in [unadded : SUBSET Nat]
      /\ \A j \in Nat : Listed(j) => Listed(j)'
      /\ Listed(i)' /\ db'.seeded = db.seeded /\ db'.users \subseteq db.users \cup {i}
  BY <1>2, IdsWrites
<1>5. Listed(t.id)'
  BY <1>1, <1>4 DEF Listed
<1> QED
  BY <1>2, <1>3, <1>4, <1>5, IdsGoes

LEMMA IdsDemo == ASSUME IdsInv, NEW c \in Conns, NEW i \in Ids!Ids, Ids!EnsureDemoUser(c, i) PROVE IdsInv'
<1>1. PICK t : t = [op |-> "demo", id |-> i]
  OBVIOUS
<1>2. tx' = [tx EXCEPT ![c] = t] /\ db' = [db EXCEPT !.users = db.users \cup {i}] /\ Ids!Owed({i})
  BY <1>1 DEF Ids!EnsureDemoUser, Ids!Begin
<1>3. t \in IdsCall /\ t.op = "demo"
  BY <1>1 DEF IdsCall
<1>4. /\ db' \in [users : SUBSET Ids!Ids, bits : SUBSET Nat, seeded : BOOLEAN] /\ hist' \in [unadded : SUBSET Nat]
      /\ \A j \in Nat : Listed(j) => Listed(j)'
      /\ Listed(i)' /\ db'.seeded = db.seeded /\ db'.users \subseteq db.users \cup {i}
  BY <1>2, IdsWrites
<1> QED
  BY <1>2, <1>3, <1>4, IdsGoes

LEMMA IdsCommits == ASSUME IdsInv, NEW c \in Conns, Ids!CommitUser(c) PROVE IdsInv'
<1>1. PICK i : i = tx[c].id
  OBVIOUS
<1>2. /\ tx[c].op = "user" /\ tx' = [tx EXCEPT ![c] = Ids!Idle] /\ db' = [db EXCEPT !.users = db.users \cup {i}]
      /\ hist' = hist
  BY <1>1 DEF Ids!CommitUser, Ids!Finish, Ids!Continue
<1>3. /\ db \in [users : SUBSET Ids!Ids, bits : SUBSET Nat, seeded : BOOLEAN] /\ hist \in [unadded : SUBSET Nat]
      /\ tx[c] \in IdsCall
  BY <1>2 DEF IdsInv, IdsTyped, Ids!Idle
<1>4. i \in Ids!Ids /\ Listed(i)
  BY <1>1, <1>2, <1>3 DEF IdsInv, IdsCall
<1>5. /\ db' \in [users : SUBSET Ids!Ids, bits : SUBSET Nat, seeded : BOOLEAN] /\ db'.bits = db.bits
      /\ db'.seeded = db.seeded /\ db'.users = db.users \cup {i}
  BY <1>2, <1>3, <1>4
<1>6. \A j : Listed(j)' <=> Listed(j)
  BY <1>2, <1>5 DEF Listed
<1>7. Ids!Idle.op = "idle"
  BY DEF Ids!Idle
<1> QED
  BY <1>2, <1>3, <1>4, <1>5, <1>6, <1>7, IdsGoes

\* What leaves the tables and the bitmap alone.
LEMMA IdsRests ==
  ASSUME IdsInv, NEW c \in Conns, NEW t \in {Ids!Idle} \cup IdsCall, tx' = [tx EXCEPT ![c] = t], db' = db,
         hist' = hist,
         t.op = "seed" => t.cursor = 0, t.op # "user",
         t.op = "mark" => \A i \in db.users : Listed(i)
  PROVE  IdsInv'
<1>1. /\ db \in [users : SUBSET Ids!Ids, bits : SUBSET Nat, seeded : BOOLEAN] /\ hist \in [unadded : SUBSET Nat]
      /\ \A i \in db.users : i \in Nat /\ i > 0
  BY DEF IdsInv, IdsTyped, Ids!Ids
<1>2. \A j : Listed(j)' <=> Listed(j)
  BY DEF Listed
<1>3. t.op = "seed" => \A i \in db.users : ~(i <= t.cursor)
  BY <1>1
<1> QED
  BY <1>1, <1>2, <1>3, IdsGoes

LEMMA IdsDemoAdded == ASSUME IdsInv, NEW c \in Conns, Ids!AddDemoUser(c) PROVE IdsInv'
<1>1. PICK i : i = tx[c].id
  OBVIOUS
<1>2. /\ tx[c].op = "demo" /\ tx' = [tx EXCEPT ![c] = Ids!Idle]
      /\ (Ids!Add({i}) /\ Ids!Paid({i})) \/ (db' = db /\ hist' = hist)
  BY <1>1 DEF Ids!AddDemoUser, Ids!Finish, Ids!Continue
<1>3. i \in Ids!Ids
  BY <1>1, <1>2 DEF IdsInv, IdsTyped, IdsCall, Ids!Idle
<1>4. Ids!Idle.op = "idle"
  BY DEF Ids!Idle
<1>5. CASE Ids!Add({i}) /\ Ids!Paid({i})
  <2>1. /\ db' \in [users : SUBSET Ids!Ids, bits : SUBSET Nat, seeded : BOOLEAN] /\ hist' \in [unadded : SUBSET Nat]
        /\ \A j \in Nat : Listed(j) => Listed(j)'
        /\ Listed(i)' /\ db'.seeded = db.seeded /\ db'.users \subseteq db.users \cup {i}
    BY <1>3, <1>5, IdsWrites
  <2> QED
    BY <1>2, <1>4, <2>1, IdsGoes
<1>6. CASE db' = db /\ hist' = hist
  BY <1>2, <1>4, <1>6, IdsRests
<1> QED
  BY <1>2, <1>5, <1>6

LEMMA IdsSeeds == ASSUME IdsInv, NEW c \in Conns, Ids!Seed(c) PROVE IdsInv'
<1>1. PICK t : t = [op |-> "seed", cursor |-> 0, total |-> 0]
  OBVIOUS
<1>2. tx' = [tx EXCEPT ![c] = t] /\ db' = db /\ hist' = hist
  BY <1>1 DEF Ids!Seed, Ids!Begin
<1>3. t \in IdsCall /\ t.op = "seed" /\ t.cursor = 0
  BY <1>1 DEF IdsCall
<1> QED
  BY <1>2, <1>3, IdsRests

LEMMA IdsPages == ASSUME IdsInv, NEW c \in Conns, Ids!SeedPage(c) PROVE IdsInv'
<1>1. PICK i \in Ids!After(tx[c].cursor) :
        /\ \A j \in Ids!After(tx[c].cursor) : i <= j
        /\ Ids!Add({i}) /\ Ids!Paid({i})
        /\ tx' = [tx EXCEPT ![c] = [op |-> "seed", cursor |-> i, total |-> tx[c].total + 1]]
  BY DEF Ids!SeedPage, Ids!Continue
<1>2. tx[c].op = "seed" /\ tx[c] \in IdsCall
  BY DEF Ids!SeedPage, IdsInv, IdsTyped, Ids!Idle
<1>3. tx[c].cursor \in Nat /\ tx[c].total \in Nat
  BY <1>2 DEF IdsCall
<1>4. i \in db.users /\ i \in Ids!Ids /\ i \in Nat /\ db.users \subseteq Nat
  BY <1>1 DEF Ids!After, IdsInv, IdsTyped, Ids!Ids
<1>5. PICK t : t = [op |-> "seed", cursor |-> i, total |-> tx[c].total + 1]
  OBVIOUS
<1>6. t \in IdsCall /\ t.op = "seed" /\ t.cursor = i /\ tx' = [tx EXCEPT ![c] = t]
  BY <1>1, <1>3, <1>4, <1>5 DEF IdsCall
<1>7. /\ db' \in [users : SUBSET Ids!Ids, bits : SUBSET Nat, seeded : BOOLEAN] /\ hist' \in [unadded : SUBSET Nat]
      /\ \A j \in Nat : Listed(j) => Listed(j)'
      /\ Listed(i)' /\ db'.seeded = db.seeded /\ db'.users \subseteq db.users \cup {i}
  BY <1>1, <1>4, IdsWrites
<1>8. ASSUME NEW j \in db.users, j <= i PROVE Listed(j)'
  <2>1. CASE j <= tx[c].cursor
    BY <1>2, <1>4, <1>7, <2>1 DEF IdsInv
  <2>2. CASE ~(j <= tx[c].cursor)
    <3>1. j \in Ids!After(tx[c].cursor)
      BY <1>3, <1>4, <2>2 DEF Ids!After
    <3>2. j = i
      BY <1>1, <1>4, <1>8, <3>1
    <3> QED
      BY <1>7, <3>2
  <2> QED
    BY <2>1, <2>2
<1> QED
  BY <1>6, <1>7, <1>8, IdsGoes

\* After the last page every user is behind the cursor.
LEMMA IdsLast == ASSUME IdsInv, NEW c \in Conns, Ids!LastPage(c) PROVE IdsInv'
<1>1. tx[c].op = "seed" /\ Ids!After(tx[c].cursor) = {} /\ db' = db /\ hist' = hist
  BY DEF Ids!LastPage
<1>2. tx[c].cursor \in Nat /\ \A i \in db.users : i \in Nat
  BY <1>1 DEF IdsInv, IdsTyped, IdsCall, Ids!Idle, Ids!Ids
<1>3. \A i \in db.users : i <= tx[c].cursor
  BY <1>1, <1>2 DEF Ids!After
<1>4. \A i \in db.users : Listed(i)
  BY <1>1, <1>3 DEF IdsInv
<1>5. PICK t : t \in {Ids!Idle, [op |-> "mark"]} /\ tx' = [tx EXCEPT ![c] = t]
  BY DEF Ids!LastPage, Ids!Finish, Ids!Continue
<1>6. t \in {Ids!Idle} \cup IdsCall /\ t.op \in {"idle", "mark"}
  BY <1>5 DEF IdsCall, Ids!Idle
<1> QED
  BY <1>1, <1>4, <1>5, <1>6, IdsRests

LEMMA IdsMarks == ASSUME IdsInv, NEW c \in Conns, Ids!MarkSeeded(c) PROVE IdsInv'
<1>1. /\ tx[c].op = "mark" /\ tx' = [tx EXCEPT ![c] = Ids!Idle] /\ hist' = hist
      /\ db' = [db EXCEPT !.seeded = TRUE]
  BY DEF Ids!MarkSeeded, Ids!Finish, Ids!Continue
<1>2. Ids!Idle.op = "idle"
  BY DEF Ids!Idle
<1>3. db \in [users : SUBSET Ids!Ids, bits : SUBSET Nat, seeded : BOOLEAN] /\ hist \in [unadded : SUBSET Nat]
  BY DEF IdsInv, IdsTyped
<1>4. db' \in [users : SUBSET Ids!Ids, bits : SUBSET Nat, seeded : BOOLEAN] /\ db'.bits = db.bits
        /\ db'.users = db.users
  BY <1>1, <1>3
<1>5. \A j : Listed(j)' <=> Listed(j)
  BY <1>1, <1>4 DEF Listed
<1>6. \A i \in db.users : Listed(i)'
  BY <1>1, <1>5 DEF IdsInv
<1> QED
  BY <1>1, <1>2, <1>3, <1>4, <1>5, <1>6, IdsGoes

LEMMA IdsFails == ASSUME IdsInv, NEW c \in Conns, Ids!Fail(c) PROVE IdsInv'
<1>1. tx' = [tx EXCEPT ![c] = Ids!Idle] /\ db' = db /\ hist' = hist /\ Ids!Idle.op = "idle"
  BY DEF Ids!Fail, Ids!Finish, Ids!Continue, Ids!Idle
<1> QED
  BY <1>1, IdsRests

LEMMA IdsExpires == ASSUME IdsInv, Ids!ExpireSeeded PROVE IdsInv'
<1>1. db' = [db EXCEPT !.seeded = FALSE] /\ tx' = tx /\ hist' = hist
  BY DEF Ids!ExpireSeeded
<1>2. /\ db' \in [users : SUBSET Ids!Ids, bits : SUBSET Nat, seeded : BOOLEAN] /\ db'.bits = db.bits
      /\ db'.users = db.users /\ db'.seeded = FALSE
  BY <1>1 DEF IdsInv, IdsTyped
<1>3. \A j : Listed(j)' <=> Listed(j)
  BY <1>1, <1>2 DEF Listed
<1>4. IdsTyped'
  BY <1>1, <1>2 DEF IdsInv, IdsTyped
<1> QED
  BY <1>1, <1>2, <1>3, <1>4 DEF IdsInv, Listed

\* Redis is empty again: what scans and registrations had written is owed.
LEMMA IdsForgets == ASSUME IdsInv, Ids!RestartRedis PROVE IdsInv'
<1>1. /\ db' = [db EXCEPT !.bits = {}, !.seeded = FALSE] /\ tx' = tx
      /\ hist' = [hist EXCEPT !.unadded = hist.unadded \cup Ids!Forgotten]
  BY DEF Ids!RestartRedis, Ids!Owed
<1>2. /\ db' \in [users : SUBSET Ids!Ids, bits : SUBSET Nat, seeded : BOOLEAN]
      /\ db'.users = db.users /\ db'.seeded = FALSE
  BY <1>1 DEF IdsInv, IdsTyped
<1>3. ASSUME NEW c \in Conns, tx[c].op = "seed", NEW i \in db.users, i <= tx[c].cursor PROVE i \in Ids!Forgotten
  BY <1>3 DEF Ids!Forgotten
<1>4. ASSUME NEW c \in Conns, tx[c].op = "user" PROVE tx[c].id \in Ids!Forgotten
  BY <1>4 DEF Ids!Forgotten
<1>m. ASSUME NEW c \in Conns, tx[c].op = "mark" PROVE db.users \subseteq Ids!Forgotten
  BY <1>m DEF Ids!Forgotten
<1>5. Ids!Forgotten \subseteq Nat
  <2> SUFFICES ASSUME NEW c \in Conns, NEW i, tx[c].op = "seed" => i \in {j \in db.users : j <= tx[c].cursor},
                      tx[c].op = "user" => i \in {tx[c].id}, tx[c].op = "mark" => i \in db.users,
                      tx[c].op \in {"seed", "user", "mark"}
               PROVE  i \in Nat
    BY DEF Ids!Forgotten
  <2>1. db.users \subseteq Nat
    BY DEF IdsInv, IdsTyped, Ids!Ids
  <2>2. tx[c].op = "user" => tx[c].id \in Nat
    BY DEF IdsInv, IdsTyped, IdsCall, Ids!Idle, Ids!Ids
  <2> QED
    BY <2>1, <2>2
<1>6. hist' \in [unadded : SUBSET Nat] /\ hist'.unadded = hist.unadded \cup Ids!Forgotten
  BY <1>1, <1>5 DEF IdsInv, IdsTyped
<1>7. IdsTyped'
  BY <1>1, <1>2, <1>6 DEF IdsInv, IdsTyped
<1> QED
  BY <1>1, <1>2, <1>3, <1>4, <1>m, <1>6, <1>7 DEF IdsInv, Listed

LEMMA IdsInit == Ids!Init => IdsInv
<1> SUFFICES ASSUME Ids!Init PROVE IdsInv
  OBVIOUS
<1>1. /\ tx = [c \in Conns |-> Ids!Idle] /\ hist = [unadded |-> {}]
      /\ \E users \in {{}, {1}} : db = [users |-> users, bits |-> {}, seeded |-> FALSE]
  BY DEF Ids!Init, Ids!Resting
<1>2. \A c \in Conns : tx[c].op = "idle"
  BY <1>1 DEF Ids!Idle
<1>3. IdsTyped
  BY <1>1, PlatformAssumption DEF IdsTyped, Ids!Ids
<1> QED
  BY <1>1, <1>2, <1>3 DEF IdsInv

LEMMA IdsNext == IdsInv /\ Ids!Next => IdsInv'
BY IdsCreates, IdsDemo, IdsCommits, IdsDemoAdded, IdsSeeds, IdsPages, IdsLast, IdsMarks, IdsFails, IdsExpires,
   IdsForgets,
   Zenon DEF Ids!Next

LEMMA IdsStays == IdsInv /\ UNCHANGED <<db, tx, hist, left>> => IdsInv'
BY DEF IdsInv, IdsTyped, Listed

LEMMA IdsKept == IdsInv => Ids!NobodyRefused
BY DEF IdsInv, Listed, Ids!NobodyRefused, Ids!DefinitelyAbsent

-----------------------------------------------------------------------------
(* The read-through cache                                                  *)

CacheWant == [op : {"want"}, ver : Nat, since : Nat, refs : Nat]
CacheLoad == [op : {"load"}, ver : Nat, since : Nat, refs : Nat, mayFill : BOOLEAN, token : Nat]
CacheFill == [op : {"fill"}, ver : Nat, since : Nat, refs : Nat, mayFill : BOOLEAN, token : Nat, value : Nat]
CacheDone == [op : {"done"}, refs : Nat, value : Nat]
CacheWrite == [op : {"write"}]

CacheCall == CacheWant \cup CacheLoad \cup CacheFill \cup CacheDone \cup CacheWrite

CacheDb ==
  [kind : {"item", "list"}, value : Nat, cache : [0..CacheRequests -> Nat], ver : Nat, token : Nat, gens : Nat,
   lock : Conns \cup {NoConn}]

CacheTyped ==
  /\ tx \in [Conns -> {Cache!Idle} \cup CacheCall] /\ db \in CacheDb
  /\ hist \in [early : BOOLEAN, lost : BOOLEAN, behind : BOOLEAN] /\ left \in Nat

\* What a flight knows is not newer than what is.
CacheKnows(r) ==
  /\ r.op \in {"want", "load", "fill"} => r.ver <= db.ver /\ r.since <= db.value
  /\ r.op \in {"load", "fill"} => r.token <= db.gens
  /\ r.op = "fill" => r.since <= r.value
  /\ r.op = "done" => r.refs > 0

CacheNumbers ==
  /\ db.ver + left <= CacheRequests
  /\ db.token <= db.gens
  /\ db.kind = "item" => db.ver = 0
  /\ \A v \in 0..CacheRequests : v > db.ver => db.cache[v] = 0
  /\ \A c \in Conns : CacheKnows(tx[c])

\* A flight whose value may still be stored.
Usable(r) == r.op = "fill" /\ r.mayFill /\ r.token = db.token

\* Without a lost or an early invalidation, the entry and what will be stored
\* in it are what is committed; under an old key, they are not older than the
\* flights that wait for that key.
CacheFresh ==
  ~hist.early /\ ~hist.lost =>
    /\ db.cache[db.ver] # 0 => db.cache[db.ver] = db.value
    /\ \A o \in Conns : Usable(tx[o]) /\ tx[o].ver = db.ver => tx[o].value = db.value
    /\ \A c, o \in Conns :
         tx[c].op = "want" /\ Usable(tx[o]) /\ tx[o].ver = tx[c].ver => tx[c].since <= tx[o].value
    /\ \A c \in Conns :
         tx[c].op = "want" /\ db.cache[tx[c].ver] # 0 => tx[c].since <= db.cache[tx[c].ver]
    /\ ~hist.behind

CacheInv == CacheTyped /\ CacheNumbers /\ CacheFresh

CacheStep(c, t) == c \in Conns /\ t \in {Cache!Idle} \cup CacheCall /\ tx' = [tx EXCEPT ![c] = t]

LEMMA CacheTx ==
  ASSUME CacheTyped, NEW c, NEW t, CacheStep(c, t)
  PROVE  /\ tx' \in [Conns -> {Cache!Idle} \cup CacheCall]
         /\ tx'[c] = t /\ \A d \in Conns \ {c} : tx'[d] = tx[d]
         /\ c \in Conns
BY DEF CacheStep, CacheTyped

LEMMA CacheFree == Cache!Idle.op = "idle" /\ ~Usable(Cache!Idle)
BY DEF Cache!Idle, Usable

\* Steps of one flight or of a writer: what they need to keep for the others.
CacheSame == db'.kind = db.kind /\ db'.value = db.value /\ db'.ver = db.ver /\ db'.token = db.token
    /\ db'.gens = db.gens

LEMMA CacheKeepsNumbers ==
  ASSUME CacheInv, NEW c, NEW t, CacheStep(c, t), db' \in CacheDb, left' \in Nat, left' <= left, CacheSame,
         CacheKnows(t), \A v \in 0..CacheRequests : v > db.ver => db'.cache[v] = 0
  PROVE  CacheNumbers'
<1>1. tx'[c] = t /\ c \in Conns /\ \A d \in Conns \ {c} : tx'[d] = tx[d]
  BY CacheTx DEF CacheInv
<1>2. \A d \in Conns : CacheKnows(tx'[d])
  BY <1>1 DEF CacheInv, CacheNumbers
<1>3. \A d \in Conns : CacheKnows(tx[d])'
  BY <1>2 DEF CacheKnows, CacheSame
<1>4. db.ver \in Nat /\ left \in Nat /\ CacheRequests \in Nat
  BY PlatformAssumption DEF CacheInv, CacheTyped, CacheDb
<1> QED
  BY <1>3, <1>4 DEF CacheInv, CacheNumbers, CacheSame

\* A flight goes on: it learns nothing to store but what is committed.
LEMMA CacheKeepsFresh ==
  ASSUME CacheInv, NEW c, NEW t, CacheStep(c, t), db' \in CacheDb, CacheSame, CacheKnows(t),
         hist'.early = hist.early, hist'.lost = hist.lost,
         \A v \in 0..CacheRequests : db'.cache[v] = db.cache[v] \/ db'.cache[v] = 0,
         ~hist.early /\ ~hist.lost /\ ~hist.behind => ~hist'.behind,
         \/ ~Usable(t)
         \/ Usable(tx[c]) /\ t.ver = tx[c].ver /\ t.value = tx[c].value
         \/ t.value = db.value,
         \/ t.op # "want"
         \/ tx[c].op = "want" /\ t.ver = tx[c].ver /\ t.since = tx[c].since
         \/ t.ver = db.ver /\ t.since = db.value /\ db.cache[db.ver] = 0
  PROVE  CacheFresh'
<1>1. tx'[c] = t /\ c \in Conns /\ \A d \in Conns \ {c} : tx'[d] = tx[d]
  BY CacheTx DEF CacheInv
<1> SUFFICES ASSUME ~hist.early, ~hist.lost
             PROVE  /\ db'.cache[db.ver] # 0 => db'.cache[db.ver] = db.value
                    /\ \A o \in Conns : Usable(tx'[o]) /\ tx'[o].ver = db.ver => tx'[o].value = db.value
                    /\ \A w, o \in Conns :
                         tx'[w].op = "want" /\ Usable(tx'[o])
                             /\ tx'[o].ver = tx'[w].ver => tx'[w].since <= tx'[o].value
                    /\ \A w \in Conns :
                         tx'[w].op = "want" /\ db'.cache[tx'[w].ver] # 0 => tx'[w].since <= db'.cache[tx'[w].ver]
                    /\ ~hist'.behind
  BY DEF CacheFresh, CacheSame, Usable
<1>2. /\ db.cache[db.ver] # 0 => db.cache[db.ver] = db.value
      /\ \A o \in Conns : Usable(tx[o]) /\ tx[o].ver = db.ver => tx[o].value = db.value
      /\ \A w, o \in Conns :
           tx[w].op = "want" /\ Usable(tx[o]) /\ tx[o].ver = tx[w].ver => tx[w].since <= tx[o].value
      /\ \A w \in Conns :
           tx[w].op = "want" /\ db.cache[tx[w].ver] # 0 => tx[w].since <= db.cache[tx[w].ver]
      /\ ~hist.behind
  BY DEF CacheInv, CacheFresh
<1>3. db.ver \in Nat /\ left \in Nat /\ CacheRequests \in Nat /\ db.ver + left <= CacheRequests /\ db.value \in Nat
  BY PlatformAssumption DEF CacheInv, CacheNumbers, CacheTyped, CacheDb
<1>4. db.ver \in 0..CacheRequests
  BY <1>3
<1>5. \A d \in Conns : tx'[d].op = "want" => /\ tx'[d].ver \in 0..CacheRequests /\ tx'[d].since \in Nat
                                             /\ tx'[d].since <= db.value
  <2>1. \A d \in Conns : tx'[d].op = "want" => tx'[d].ver \in Nat /\ tx'[d].since \in Nat
    BY CacheTx DEF CacheInv, CacheCall, CacheWant, CacheLoad, CacheFill, CacheDone, CacheWrite, Cache!Idle
  <2>2. \A d \in Conns : tx'[d].op = "want" => tx'[d].ver <= db.ver /\ tx'[d].since <= db.value
    BY <1>1 DEF CacheInv, CacheNumbers, CacheKnows
  <2> QED
    BY <1>3, <2>1, <2>2
<1>6. db'.cache[db.ver] # 0 => db'.cache[db.ver] = db.value
  BY <1>2, <1>4
<1>7. \A o \in Conns : Usable(tx'[o]) /\ tx'[o].ver = db.ver => tx'[o].value = db.value
  BY <1>1, <1>2
<1>8. ASSUME NEW w \in Conns, tx'[w].op = "want", db'.cache[tx'[w].ver] # 0
      PROVE  tx'[w].since <= db'.cache[tx'[w].ver]
  <2>1. db'.cache[tx'[w].ver] = db.cache[tx'[w].ver]
    BY <1>5, <1>8
  <2>2. CASE tx[w].op = "want" /\ tx'[w].ver = tx[w].ver /\ tx'[w].since = tx[w].since
    BY <1>2, <1>8, <2>1, <2>2
  <2>3. CASE w = c
    BY <1>1, <1>8, <2>1, <2>2, <2>3
  <2> QED
    BY <1>1, <1>8, <2>2, <2>3
<1>9. ASSUME NEW w \in Conns, NEW o \in Conns, tx'[w].op = "want", Usable(tx'[o]), tx'[o].ver = tx'[w].ver
      PROVE  tx'[w].since <= tx'[o].value
  <2>1. CASE tx'[o].value = db.value
    BY <1>5, <1>9, <2>1
  <2>2. CASE Usable(tx[o]) /\ tx'[o].ver = tx[o].ver /\ tx'[o].value = tx[o].value
    <3>1. CASE tx[w].op = "want" /\ tx'[w].ver = tx[w].ver /\ tx'[w].since = tx[w].since
      BY <1>2, <1>9, <2>2, <3>1
    <3>2. CASE tx'[w].ver = db.ver
      BY <1>7, <1>9, <2>1, <3>2
    <3> QED
      BY <1>1, <1>9, <3>1, <3>2
  <2> QED
    BY <1>1, <1>9, <2>1, <2>2
<1> QED
  BY <1>2, <1>6, <1>7, <1>8, <1>9

LEMMA CacheGoes ==
  ASSUME CacheInv, NEW c, NEW t, CacheStep(c, t), db' \in CacheDb, CacheSame, CacheKnows(t),
         left' \in Nat, left' <= left,
         hist' \in [early : BOOLEAN, lost : BOOLEAN, behind : BOOLEAN], hist'.early = hist.early,
             hist'.lost = hist.lost,
         db'.cache = db.cache,
         ~hist.early /\ ~hist.lost /\ ~hist.behind => ~hist'.behind,
         \/ ~Usable(t)
         \/ Usable(tx[c]) /\ t.ver = tx[c].ver /\ t.value = tx[c].value
         \/ t.value = db.value,
         \/ t.op # "want"
         \/ tx[c].op = "want" /\ t.ver = tx[c].ver /\ t.since = tx[c].since
         \/ t.ver = db.ver /\ t.since = db.value /\ db.cache[db.ver] = 0
  PROVE  CacheInv'
<1>1. \A v \in 0..CacheRequests : v > db.ver => db'.cache[v] = 0
  BY DEF CacheInv, CacheNumbers
<1>2. CacheTyped'
  BY CacheTx DEF CacheInv, CacheTyped
<1>3. CacheNumbers'
  BY <1>1, CacheKeepsNumbers
<1>4. CacheFresh'
  BY CacheKeepsFresh
<1> QED
  BY <1>2, <1>3, <1>4 DEF CacheInv

LEMMA CacheKinds ==
  ASSUME NEW r \in {Cache!Idle} \cup CacheCall
  PROVE  /\ r.op \in {"idle", "want", "load", "fill", "done", "write"}
         /\ r.op = "want" => r \in CacheWant
         /\ r.op = "load" => r \in CacheLoad
         /\ r.op = "fill" => r \in CacheFill
         /\ r.op = "done" => r \in CacheDone
BY DEF CacheCall, CacheWant, CacheLoad, CacheFill, CacheDone, CacheWrite, Cache!Idle

\* More or fewer readers share a flight.
LEMMA CacheRefs ==
  ASSUME CacheInv, NEW c \in Conns, Cache!Flying(c), NEW n \in Nat, n > 0 \/ tx[c].op # "done",
         NEW t, t = [tx[c] EXCEPT !.refs = n]
  PROVE  /\ t \in CacheCall /\ t.op = tx[c].op /\ CacheKnows(t)
         /\ Usable(t) => Usable(tx[c]) /\ t.ver = tx[c].ver /\ t.value = tx[c].value
         /\ t.op = "want" => t.ver = tx[c].ver /\ t.since = tx[c].since
<1>1. tx[c] \in {Cache!Idle} \cup CacheCall /\ CacheKnows(tx[c])
  BY DEF CacheInv, CacheTyped, CacheNumbers
<1>2. CASE tx[c].op = "want"
  <2>1. tx[c] \in CacheWant
    BY <1>1, <1>2, CacheKinds
  <2>2. t \in CacheWant /\ t.op = "want" /\ t.ver = tx[c].ver /\ t.since = tx[c].since
    BY <2>1 DEF CacheWant
  <2> QED
    BY <1>1, <1>2, <2>2 DEF CacheCall, CacheKnows, Usable
<1>3. CASE tx[c].op = "load"
  <2>1. tx[c] \in CacheLoad
    BY <1>1, <1>3, CacheKinds
  <2>2. t \in CacheLoad /\ t.op = "load" /\ t.ver = tx[c].ver /\ t.since = tx[c].since /\ t.token = tx[c].token
    BY <2>1 DEF CacheLoad
  <2> QED
    BY <1>1, <1>3, <2>2 DEF CacheCall, CacheKnows, Usable
<1>4. CASE tx[c].op = "fill"
  <2>1. tx[c] \in CacheFill
    BY <1>1, <1>4, CacheKinds
  <2>2. /\ t \in CacheFill /\ t.op = "fill" /\ t.ver = tx[c].ver /\ t.since = tx[c].since /\ t.token = tx[c].token
        /\ t.value = tx[c].value /\ t.mayFill = tx[c].mayFill
    BY <2>1 DEF CacheFill
  <2> QED
    BY <1>1, <1>4, <2>2 DEF CacheCall, CacheKnows, Usable
<1>5. CASE tx[c].op = "done"
  <2>1. tx[c] \in CacheDone
    BY <1>1, <1>5, CacheKinds
  <2>2. t \in CacheDone /\ t.op = "done" /\ t.refs = n
    BY <2>1 DEF CacheDone
  <2> QED
    BY <1>1, <1>5, <2>2 DEF CacheCall, CacheKnows, Usable
<1> QED
  BY <1>2, <1>3, <1>4, <1>5 DEF Cache!Flying

LEMMA CacheRefsNat == ASSUME CacheInv, NEW c \in Conns, Cache!Flying(c)
  PROVE tx[c].refs \in Nat /\ (tx[c].op = "done" => tx[c].refs > 0)
<1>1. tx[c] \in {Cache!Idle} \cup CacheCall /\ CacheKnows(tx[c])
  BY DEF CacheInv, CacheTyped, CacheNumbers
<1> QED
  BY <1>1, CacheKinds DEF Cache!Flying, CacheKnows, CacheWant, CacheLoad, CacheFill, CacheDone

\* What the steps below leave alone.
LEMMA CacheStill ==
  ASSUME CacheInv, db' = db, hist' = hist
  PROVE  /\ db' \in CacheDb /\ CacheSame /\ db'.cache = db.cache
         /\ hist' \in [early : BOOLEAN, lost : BOOLEAN, behind : BOOLEAN]
BY DEF CacheInv, CacheTyped, CacheSame

LEMMA CacheJoin == ASSUME CacheInv, NEW c \in Conns, Cache!Join(c) PROVE CacheInv'
<1>1. /\ Cache!Flying(c) /\ left > 0 /\ left' = left - 1 /\ tx' = [tx EXCEPT ![c].refs = tx[c].refs + 1]
      /\ db' = db /\ hist' = hist
  BY DEF Cache!Join
<1>2. tx[c].refs \in Nat /\ left \in Nat
  BY <1>1, CacheRefsNat DEF CacheInv, CacheTyped
<1>3. PICK n \in Nat : n = tx[c].refs + 1 /\ n > 0
  BY <1>2
<1>4. PICK t : t = [tx[c] EXCEPT !.refs = n]
  OBVIOUS
<1>5. /\ t \in CacheCall /\ t.op = tx[c].op /\ CacheKnows(t)
      /\ Usable(t) => Usable(tx[c]) /\ t.ver = tx[c].ver /\ t.value = tx[c].value
      /\ t.op = "want" => t.ver = tx[c].ver /\ t.since = tx[c].since
  BY <1>1, <1>3, <1>4, CacheRefs
<1>6. CacheStep(c, t)
  BY <1>1, <1>3, <1>4, <1>5 DEF CacheStep
<1>7. left' \in Nat /\ left' <= left
  BY <1>1, <1>2
<1> QED
  BY <1>1, <1>5, <1>6, <1>7, CacheStill, CacheGoes

LEMMA CacheCancel == ASSUME CacheInv, NEW c \in Conns, Cache!Cancel(c) PROVE CacheInv'
<1>1. /\ Cache!Flying(c) /\ tx[c].op # "done" /\ tx[c].refs > 0 /\ left' = left
      /\ tx' = [tx EXCEPT ![c] = [tx[c] EXCEPT !.refs = tx[c].refs - 1]] /\ db' = db /\ hist' = hist
  BY DEF Cache!Cancel, Cache!Continue
<1>2. tx[c].refs \in Nat /\ left \in Nat
  BY <1>1, CacheRefsNat DEF CacheInv, CacheTyped
<1>3. PICK n \in Nat : n = tx[c].refs - 1
  BY <1>1, <1>2
<1>4. PICK t : t = [tx[c] EXCEPT !.refs = n]
  OBVIOUS
<1>5. /\ t \in CacheCall /\ t.op = tx[c].op /\ CacheKnows(t)
      /\ Usable(t) => Usable(tx[c]) /\ t.ver = tx[c].ver /\ t.value = tx[c].value
      /\ t.op = "want" => t.ver = tx[c].ver /\ t.since = tx[c].since
  BY <1>1, <1>4, CacheRefs
<1>6. CacheStep(c, t)
  BY <1>1, <1>3, <1>4, <1>5 DEF CacheStep
<1>7. left' \in Nat /\ left' <= left
  BY <1>1, <1>2
<1> QED
  BY <1>1, <1>5, <1>6, <1>7, CacheStill, CacheGoes

LEMMA CacheLeave == ASSUME CacheInv, NEW c \in Conns, Cache!Leave(c) PROVE CacheInv'
<1>1. tx[c].op = "done" /\ db' = db /\ hist' = hist /\ left' = left
  BY DEF Cache!Leave, Cache!Finish, Cache!Continue
<1>2. Cache!Flying(c)
  BY <1>1 DEF Cache!Flying
<1>3. tx[c].refs \in Nat /\ tx[c].refs > 0 /\ left \in Nat
  BY <1>1, <1>2, CacheRefsNat DEF CacheInv, CacheTyped
<1>4. left' \in Nat /\ left' <= left
  BY <1>1, <1>3
<1>5. CASE tx[c].refs = 1
  <2>1. CacheStep(c, Cache!Idle)
    BY <1>5 DEF CacheStep, Cache!Leave, Cache!Finish, Cache!Continue
  <2>2. CacheKnows(Cache!Idle)
    BY CacheFree DEF CacheKnows
  <2> QED
    BY <1>1, <1>4, <2>1, <2>2, CacheFree, CacheStill, CacheGoes
<1>6. CASE tx[c].refs # 1
  <2>1. PICK n \in Nat : n = tx[c].refs - 1 /\ n > 0
    BY <1>3, <1>6
  <2>2. PICK t : t = [tx[c] EXCEPT !.refs = n]
    OBVIOUS
  <2>3. /\ t \in CacheCall /\ t.op = tx[c].op /\ CacheKnows(t)
        /\ Usable(t) => Usable(tx[c]) /\ t.ver = tx[c].ver /\ t.value = tx[c].value
        /\ t.op = "want" => t.ver = tx[c].ver /\ t.since = tx[c].since
    BY <1>2, <2>1, <2>2, CacheRefs
  <2>4. CacheStep(c, t)
    BY <1>6, <2>1, <2>2, <2>3 DEF CacheStep, Cache!Leave, Cache!Continue
  <2> QED
    BY <1>1, <1>4, <2>3, <2>4, CacheStill, CacheGoes
<1> QED
  BY <1>5, <1>6

LEMMA CacheMiss == ASSUME CacheInv, NEW c \in Conns, Cache!Miss(c) PROVE CacheInv'
<1>1. /\ db.cache[db.ver] = 0 /\ left > 0 /\ left' = left - 1 /\ db' = db /\ hist' = hist
      /\ tx' = [tx EXCEPT ![c] = [op |-> "want", ver |-> db.ver, since |-> db.value, refs |-> 1]]
  BY DEF Cache!Miss, Cache!Begin, Cache!CacheGet
<1>2. db.ver \in Nat /\ db.value \in Nat /\ left \in Nat
  BY DEF CacheInv, CacheTyped, CacheDb
<1>3. PICK t : t = [op |-> "want", ver |-> db.ver, since |-> db.value, refs |-> 1]
  OBVIOUS
<1>4. t \in CacheWant /\ t.op = "want" /\ t.ver = db.ver /\ t.since = db.value
  BY <1>2, <1>3 DEF CacheWant
<1>5. CacheKnows(t) /\ ~Usable(t) /\ t \in CacheCall
  BY <1>2, <1>4 DEF CacheKnows, Usable, CacheCall
<1>6. CacheStep(c, t)
  BY <1>1, <1>3, <1>5 DEF CacheStep
<1>7. left' \in Nat /\ left' <= left
  BY <1>1, <1>2
<1> QED
  BY <1>1, <1>4, <1>5, <1>6, <1>7, CacheStill, CacheGoes

LEMMA CacheLoads == ASSUME CacheInv, NEW c \in Conns, Cache!Load(c) PROVE CacheInv'
<1>1. /\ tx[c].op = "load" /\ left' = left /\ db' = db /\ hist' = hist
      /\ tx' = [tx EXCEPT ![c] = [op |-> "fill", ver |-> tx[c].ver, since |-> tx[c].since, refs |-> tx[c].refs,
                                  mayFill |-> tx[c].mayFill, token |-> tx[c].token, value |-> db.value]]
  BY DEF Cache!Load, Cache!Continue
<1>2. /\ tx[c] \in {Cache!Idle} \cup CacheCall /\ CacheKnows(tx[c]) /\ db.value \in Nat /\ left \in Nat
  BY DEF CacheInv, CacheTyped, CacheNumbers, CacheDb
<1>3. tx[c] \in CacheLoad
  BY <1>1, <1>2, CacheKinds
<1>4. PICK t : t = [op |-> "fill", ver |-> tx[c].ver, since |-> tx[c].since, refs |-> tx[c].refs,
                    mayFill |-> tx[c].mayFill, token |-> tx[c].token, value |-> db.value]
  OBVIOUS
<1>5. /\ t \in CacheFill /\ t.op = "fill" /\ t.ver = tx[c].ver /\ t.since = tx[c].since /\ t.token = tx[c].token
      /\ t.value = db.value
  BY <1>2, <1>3, <1>4 DEF CacheLoad, CacheFill
<1>6. CacheKnows(t) /\ t \in CacheCall
  BY <1>1, <1>2, <1>5 DEF CacheKnows, CacheCall
<1>7. CacheStep(c, t)
  BY <1>1, <1>4, <1>6 DEF CacheStep
<1> QED
  BY <1>1, <1>2, <1>5, <1>6, <1>7, CacheStill, CacheGoes

\* A flight lands: it is gone, or done with somebody who waits.
LEMMA CacheLands ==
  ASSUME CacheInv, NEW c \in Conns, Cache!Flying(c), NEW v \in Nat, Cache!Land(c, v), tx[c].since \in Nat
  PROVE  /\ left' = left
         /\ \E t : CacheStep(c, t) /\ CacheKnows(t) /\ ~Usable(t) /\ t.op # "want"
         /\ hist' \in [early : BOOLEAN, lost : BOOLEAN, behind : BOOLEAN]
         /\ hist'.early = hist.early /\ hist'.lost = hist.lost
         /\ ~hist.behind /\ tx[c].since <= v => ~hist'.behind
<1>1. PICK b \in BOOLEAN : hist' = [hist EXCEPT !.behind = b] /\ (b <=> (hist.behind \/ v < tx[c].since))
  BY DEF Cache!Land
<1>2. hist \in [early : BOOLEAN, lost : BOOLEAN, behind : BOOLEAN]
  BY DEF CacheInv, CacheTyped
<1>3. /\ hist' \in [early : BOOLEAN, lost : BOOLEAN, behind : BOOLEAN]
      /\ hist'.early = hist.early /\ hist'.lost = hist.lost /\ hist'.behind = b
  BY <1>1, <1>2
<1>4. ~hist.behind /\ tx[c].since <= v => ~hist'.behind
  BY <1>1, <1>3
<1>5. tx[c].refs \in Nat
  BY CacheRefsNat
<1>6. left' = left /\ \E t : CacheStep(c, t) /\ CacheKnows(t) /\ ~Usable(t) /\ t.op # "want"
  <2>1. CASE tx[c].refs = 0
    <3>1. tx' = [tx EXCEPT ![c] = Cache!Idle] /\ left' = left
      BY <2>1 DEF Cache!Land, Cache!Finish, Cache!Continue
    <3> QED
      BY <3>1, CacheFree DEF CacheStep, CacheKnows
  <2>2. CASE tx[c].refs # 0
    <3>1. PICK t : t = [op |-> "done", refs |-> tx[c].refs, value |-> v]
      OBVIOUS
    <3>2. tx' = [tx EXCEPT ![c] = t] /\ left' = left
      BY <2>2, <3>1 DEF Cache!Land, Cache!Continue
    <3>3. t \in CacheDone /\ t.op = "done" /\ t.refs > 0
      BY <1>5, <2>2, <3>1 DEF CacheDone
    <3> QED
      BY <3>2, <3>3 DEF CacheStep, CacheKnows, Usable, CacheCall
  <2> QED
    BY <2>1, <2>2
<1> QED
  BY <1>3, <1>4, <1>6

LEMMA CacheBounds ==
  CacheInv => /\ db.ver \in Nat /\ db.value \in Nat /\ db.gens \in Nat /\ db.token \in Nat /\ left \in Nat
              /\ CacheRequests \in Nat /\ db.ver \in 0..CacheRequests /\ db.ver + left <= CacheRequests
<1> SUFFICES ASSUME CacheInv
             PROVE  /\ db.ver \in Nat /\ db.value \in Nat /\ db.gens \in Nat /\ db.token \in Nat /\ left \in Nat
                    /\ CacheRequests \in Nat /\ db.ver \in 0..CacheRequests /\ db.ver + left <= CacheRequests
  OBVIOUS
<1>1. CacheRequests \in Nat
  BY PlatformAssumption
<1>2. db \in CacheDb /\ left \in Nat /\ db.ver + left <= CacheRequests
  BY DEF CacheInv, CacheTyped, CacheNumbers
<1>3. db.ver \in Nat /\ db.value \in Nat /\ db.gens \in Nat /\ db.token \in Nat
  BY <1>2 DEF CacheDb
<1> QED
  BY <1>1, <1>2, <1>3

LEMMA CacheAcquire == ASSUME CacheInv, NEW c \in Conns, Cache!Acquire(c) PROVE CacheInv'
<1>1. tx[c].op = "want"
  BY DEF Cache!Acquire
<1>2. tx[c] \in {Cache!Idle} \cup CacheCall /\ CacheKnows(tx[c]) /\ db \in CacheDb /\ left \in Nat
  BY DEF CacheInv, CacheTyped, CacheNumbers
<1>3. tx[c] \in CacheWant /\ Cache!Flying(c)
  BY <1>1, <1>2, CacheKinds DEF Cache!Flying
<1>4. tx[c].ver \in Nat /\ tx[c].since \in Nat /\ tx[c].refs \in Nat /\ tx[c].ver <= db.ver
  BY <1>1, <1>2, <1>3 DEF CacheWant, CacheKnows
<1>5. tx[c].ver \in 0..CacheRequests
  BY <1>4, CacheBounds
<1>6. CASE db.cache[tx[c].ver] # 0
  <2>1. db' = db /\ Cache!Land(c, db.cache[tx[c].ver])
    BY <1>6, Zenon DEF Cache!Acquire, Cache!CacheGet
  <2>2. db.cache[tx[c].ver] \in Nat
    BY <1>2, <1>5 DEF CacheDb
  <2>3. /\ left' = left
        /\ \E t : CacheStep(c, t) /\ CacheKnows(t) /\ ~Usable(t) /\ t.op # "want"
        /\ hist' \in [early : BOOLEAN, lost : BOOLEAN, behind : BOOLEAN]
        /\ hist'.early = hist.early /\ hist'.lost = hist.lost
        /\ ~hist.behind /\ tx[c].since <= db.cache[tx[c].ver] => ~hist'.behind
    BY <1>3, <1>4, <2>1, <2>2, CacheLands
  <2>4. ~hist.early /\ ~hist.lost => tx[c].since <= db.cache[tx[c].ver]
    BY <1>1, <1>6 DEF CacheInv, CacheFresh
  <2>5. db' \in CacheDb /\ CacheSame /\ db'.cache = db.cache /\ left' \in Nat /\ left' <= left
    BY <1>2, <2>1, <2>3 DEF CacheSame
  <2> QED
    BY <2>3, <2>4, <2>5, CacheGoes
<1>7. CASE db.cache[tx[c].ver] = 0
  <2>1. PICK held \in BOOLEAN :
          /\ held => db.lock = NoConn
          /\ db' = IF held THEN [db EXCEPT !.lock = c] ELSE db
          /\ left' = left /\ hist' = hist
          /\ tx' = [tx EXCEPT ![c] = [op |-> "load", ver |-> tx[c].ver, since |-> tx[c].since, refs |-> tx[c].refs,
                                      mayFill |-> held, token |-> db.token]]
    BY <1>7 DEF Cache!Acquire, Cache!CacheGet, Cache!Continue
  <2>2. PICK t : t = [op |-> "load", ver |-> tx[c].ver, since |-> tx[c].since, refs |-> tx[c].refs,
                      mayFill |-> held, token |-> db.token]
    OBVIOUS
  <2>3. db.token \in Nat /\ db.gens \in Nat /\ db.token <= db.gens
    BY DEF CacheInv, CacheNumbers, CacheTyped, CacheDb
  <2>4. t \in CacheLoad /\ t.op = "load" /\ t.ver = tx[c].ver /\ t.since = tx[c].since /\ t.token = db.token
    BY <1>4, <2>2, <2>3 DEF CacheLoad
  <2>5. CacheKnows(t) /\ ~Usable(t) /\ t \in CacheCall
    BY <1>1, <1>2, <2>3, <2>4 DEF CacheKnows, Usable, CacheCall
  <2>6. CacheStep(c, t)
    BY <2>1, <2>2, <2>5 DEF CacheStep
  <2>7. db' = db \/ db' = [db EXCEPT !.lock = c]
    BY <2>1
  <2>8. db' \in CacheDb /\ CacheSame /\ db'.cache = db.cache
    BY <1>2, <2>7 DEF CacheDb, CacheSame
  <2>9. /\ hist' \in [early : BOOLEAN, lost : BOOLEAN, behind : BOOLEAN] /\ hist' = hist
        /\ left' \in Nat /\ left' <= left
    BY <1>2, <2>1 DEF CacheInv, CacheTyped
  <2> QED
    BY <2>4, <2>5, <2>6, <2>8, <2>9, CacheGoes
<1> QED
  BY <1>6, <1>7

LEMMA CacheFills == ASSUME CacheInv, NEW c \in Conns, Cache!Fill(c) PROVE CacheInv'
<1>1. tx[c].op = "fill" /\ Cache!Land(c, tx[c].value)
  BY DEF Cache!Fill
<1>2. tx[c] \in {Cache!Idle} \cup CacheCall /\ CacheKnows(tx[c]) /\ db \in CacheDb /\ left \in Nat
  BY DEF CacheInv, CacheTyped, CacheNumbers
<1>3. tx[c] \in CacheFill /\ Cache!Flying(c)
  BY <1>1, <1>2, CacheKinds DEF Cache!Flying
<1>4. tx[c].ver \in Nat /\ tx[c].since \in Nat /\ tx[c].value \in Nat /\ tx[c].ver <= db.ver
        /\ tx[c].since <= tx[c].value
  BY <1>1, <1>2, <1>3 DEF CacheFill, CacheKnows
<1>5. tx[c].ver \in 0..CacheRequests
  BY <1>4, CacheBounds
<1>6. PICK l \in Conns \cup {NoConn}, v \in Nat :
        /\ db' = [db EXCEPT !.lock = l, !.cache = [db.cache EXCEPT ![tx[c].ver] = v]]
        /\ v = db.cache[tx[c].ver] \/ (Usable(tx[c]) /\ v = tx[c].value)
  <2>1. Cache!Release(c) \in Conns \cup {NoConn}
    BY <1>2 DEF Cache!Release, CacheDb
  <2>2. db.cache[tx[c].ver] \in Nat
    BY <1>2, <1>5 DEF CacheDb
  <2>3. Cache!MayFill(tx[c]) => Usable(tx[c])
    BY <1>1 DEF Cache!MayFill, Usable
  <2>4. \E ok \in BOOLEAN :
          db' = [db EXCEPT !.lock = Cache!Release(c),
                           !.cache[tx[c].ver] = IF Cache!MayFill(tx[c])
                               /\ ok THEN tx[c].value ELSE db.cache[tx[c].ver]]
    BY DEF Cache!Fill
  <2>5. \A l \in Conns \cup {NoConn}, v \in Nat :
          db' = [db EXCEPT !.lock = l, !.cache[tx[c].ver] = v]
            => db' = [db EXCEPT !.lock = l, !.cache = [db.cache EXCEPT ![tx[c].ver] = v]]
    OBVIOUS
  <2>6. PICK ok \in BOOLEAN :
          db' = [db EXCEPT !.lock = Cache!Release(c),
                           !.cache[tx[c].ver] = IF Cache!MayFill(tx[c])
                               /\ ok THEN tx[c].value ELSE db.cache[tx[c].ver]]
    BY <2>4
  <2>7. CASE Cache!MayFill(tx[c]) /\ ok
    BY <1>4, <2>1, <2>3, <2>5, <2>6, <2>7
  <2>8. CASE ~(Cache!MayFill(tx[c]) /\ ok)
    BY <2>1, <2>2, <2>5, <2>6, <2>8
  <2> QED
    BY <2>7, <2>8
<1>7. /\ db' \in CacheDb /\ CacheSame /\ db'.cache[tx[c].ver] = v
      /\ \A w \in 0..CacheRequests : w # tx[c].ver => db'.cache[w] = db.cache[w]
  <2>1. [db.cache EXCEPT ![tx[c].ver] = v] \in [0..CacheRequests -> Nat]
    BY <1>2, <1>5 DEF CacheDb
  <2>2. db' \in CacheDb /\ CacheSame /\ db'.cache = [db.cache EXCEPT ![tx[c].ver] = v]
    BY <1>2, <1>6, <2>1 DEF CacheDb, CacheSame
  <2> QED
    BY <1>2, <1>5, <2>2 DEF CacheDb
<1>8. /\ left' = left
      /\ hist' \in [early : BOOLEAN, lost : BOOLEAN, behind : BOOLEAN]
      /\ hist'.early = hist.early /\ hist'.lost = hist.lost
      /\ ~hist.behind => ~hist'.behind
  BY <1>1, <1>3, <1>4, CacheLands
<1>9. PICK t : CacheStep(c, t) /\ CacheKnows(t) /\ ~Usable(t) /\ t.op # "want"
  BY <1>1, <1>3, <1>4, CacheLands
<1>10. tx'[c] = t /\ c \in Conns /\ \A d \in Conns \ {c} : tx'[d] = tx[d]
  BY <1>9, CacheTx DEF CacheInv
<1>11. CacheTyped'
  BY <1>2, <1>7, <1>8, <1>9, CacheTx DEF CacheInv, CacheTyped
<1>12. CacheNumbers'
  <2>1. \A w \in 0..CacheRequests : w > db.ver => db'.cache[w] = 0
    BY <1>2, <1>4, <1>7 DEF CacheInv, CacheNumbers, CacheDb
  <2>2. left' \in Nat /\ left' <= left
    BY <1>2, <1>8
  <2> QED
    BY <1>7, <1>9, <2>1, <2>2, CacheKeepsNumbers
<1>13. CacheFresh'
  <2> SUFFICES ASSUME ~hist.early, ~hist.lost
               PROVE  /\ db'.cache[db.ver] # 0 => db'.cache[db.ver] = db.value
                      /\ \A o \in Conns : Usable(tx'[o]) /\ tx'[o].ver = db.ver => tx'[o].value = db.value
                      /\ \A w, o \in Conns :
                           tx'[w].op = "want" /\ Usable(tx'[o])
                               /\ tx'[o].ver = tx'[w].ver => tx'[w].since <= tx'[o].value
                      /\ \A w \in Conns :
                           tx'[w].op = "want" /\ db'.cache[tx'[w].ver] # 0 => tx'[w].since <= db'.cache[tx'[w].ver]
                      /\ ~hist'.behind
    BY <1>7, <1>8 DEF CacheFresh, CacheSame, Usable
  <2>1. /\ db.cache[db.ver] # 0 => db.cache[db.ver] = db.value
        /\ \A o \in Conns : Usable(tx[o]) /\ tx[o].ver = db.ver => tx[o].value = db.value
        /\ \A w, o \in Conns :
             tx[w].op = "want" /\ Usable(tx[o]) /\ tx[o].ver = tx[w].ver => tx[w].since <= tx[o].value
        /\ \A w \in Conns :
             tx[w].op = "want" /\ db.cache[tx[w].ver] # 0 => tx[w].since <= db.cache[tx[w].ver]
        /\ ~hist.behind
    BY DEF CacheInv, CacheFresh
  <2>2. db.ver \in 0..CacheRequests
    BY CacheBounds
  <2>3. \A w \in Conns : tx[w].op = "want" => tx[w].ver \in 0..CacheRequests
    <3> SUFFICES ASSUME NEW w \in Conns, tx[w].op = "want" PROVE tx[w].ver \in 0..CacheRequests
      OBVIOUS
    <3>1. tx[w].ver \in Nat /\ tx[w].ver <= db.ver
      BY CacheKinds DEF CacheInv, CacheTyped, CacheNumbers, CacheKnows, CacheWant
    <3> QED
      BY <3>1, CacheBounds
  <2>4. db'.cache[db.ver] # 0 => db'.cache[db.ver] = db.value
    BY <1>6, <1>7, <2>1, <2>2
  <2>5. \A w \in Conns : tx'[w].op = "want" => tx[w].op = "want" /\ tx'[w] = tx[w]
    BY <1>9, <1>10
  <2>6. \A o \in Conns : Usable(tx'[o]) => Usable(tx[o]) /\ tx'[o] = tx[o]
    BY <1>9, <1>10
  <2>7. ASSUME NEW w \in Conns, tx[w].op = "want", db'.cache[tx[w].ver] # 0
        PROVE  tx[w].since <= db'.cache[tx[w].ver]
    <3>1. CASE tx[w].ver = tx[c].ver
      BY <1>6, <1>7, <2>1, <2>7, <3>1
    <3>2. CASE tx[w].ver # tx[c].ver
      BY <1>7, <2>1, <2>3, <2>7, <3>2
    <3> QED
      BY <3>1, <3>2
  <2> QED
    BY <1>8, <2>1, <2>4, <2>5, <2>6, <2>7
<1> QED
  BY <1>11, <1>12, <1>13 DEF CacheInv

LEMMA CacheWrites == ASSUME CacheInv, NEW c \in Conns, Cache!Write(c) PROVE CacheInv'
<1>1. /\ left > 0 /\ left' = left - 1 /\ tx' = [tx EXCEPT ![c] = [op |-> "write"]]
      /\ \/ db' = Cache!Invalidated /\ hist' = hist
         \/ db' = db /\ hist' = [hist EXCEPT !.lost = TRUE]
  BY DEF Cache!Write, Cache!Begin
<1>2. PICK t : t = [op |-> "write"]
  OBVIOUS
<1>3. t \in CacheCall /\ t.op = "write" /\ CacheKnows(t) /\ ~Usable(t)
  BY <1>2 DEF CacheCall, CacheWrite, CacheKnows, Usable
<1>4. CacheStep(c, t)
  BY <1>1, <1>2, <1>3 DEF CacheStep
<1>5. tx'[c] = t /\ (\A d \in Conns \ {c} : tx'[d] = tx[d]) /\ tx' \in [Conns -> {Cache!Idle} \cup CacheCall]
  BY <1>4, CacheTx DEF CacheInv
<1>6. /\ db \in CacheDb /\ hist \in [early : BOOLEAN, lost : BOOLEAN, behind : BOOLEAN] /\ left \in Nat
      /\ left' \in Nat
      /\ db.ver \in Nat /\ db.gens \in Nat /\ db.token \in Nat /\ db.value \in Nat /\ CacheRequests \in Nat
  <2>1. /\ db \in CacheDb /\ hist \in [early : BOOLEAN, lost : BOOLEAN, behind : BOOLEAN] /\ left \in Nat
    BY DEF CacheInv, CacheTyped
  <2>2. left' \in Nat
    BY <1>1, <2>1
  <2> QED
    BY <2>1, <2>2, CacheBounds
<1>7. /\ db.ver + left <= CacheRequests /\ db.token <= db.gens /\ (db.kind = "item" => db.ver = 0)
      /\ \A v \in 0..CacheRequests : v > db.ver => db.cache[v] = 0
  BY DEF CacheInv, CacheNumbers
<1>8. CASE db' = db /\ hist' = [hist EXCEPT !.lost = TRUE]
  <2>1. hist' \in [early : BOOLEAN, lost : BOOLEAN, behind : BOOLEAN] /\ hist'.lost
    BY <1>6, <1>8
  <2>2. CacheSame /\ db' \in CacheDb /\ left' <= left
    BY <1>1, <1>6, <1>8 DEF CacheSame
  <2>3. CacheNumbers'
    BY <1>3, <1>4, <1>6, <1>7, <1>8, <2>2, CacheKeepsNumbers
  <2>4. CacheTyped' /\ CacheFresh'
    BY <1>5, <1>6, <2>1, <2>2 DEF CacheTyped, CacheFresh
  <2> QED
    BY <2>3, <2>4 DEF CacheInv
<1>9. ASSUME db' \in CacheDb, db'.value = db.value, db'.kind = db.kind, hist' = hist,
             db'.ver >= db.ver, db'.gens >= db.gens, db'.ver + left' <= CacheRequests, db'.token <= db'.gens,
             db'.kind = "item" => db'.ver = 0, db'.cache[db'.ver] = 0,
             \A v \in 0..CacheRequests : db'.cache[v] = db.cache[v] \/ db'.cache[v] = 0,
             db'.token = db.token \/ db'.token > db.gens,
             db'.ver > db.ver \/ db'.token > db.gens
      PROVE  CacheInv'
  <2>0. db'.ver \in Nat /\ db'.gens \in Nat /\ db'.token \in Nat
    BY <1>9 DEF CacheDb
  <2>1. \A d \in Conns : tx'[d].op \in {"want", "load", "fill"} => tx'[d] = tx[d] /\ tx[d].ver \in Nat
          /\ tx[d].since \in Nat
                         /\ tx[d].ver <= db.ver /\ tx[d].since <= db.value
    <3> SUFFICES ASSUME NEW d \in Conns, tx'[d].op \in {"want", "load", "fill"}
                 PROVE  tx'[d] = tx[d] /\ tx[d].ver \in Nat /\ tx[d].since \in Nat
                        /\ tx[d].ver <= db.ver /\ tx[d].since <= db.value
      OBVIOUS
    <3>1. tx'[d] = tx[d]
      BY <1>3, <1>5
    <3>2. tx[d] \in {Cache!Idle} \cup CacheCall /\ CacheKnows(tx[d])
      BY DEF CacheInv, CacheTyped, CacheNumbers
    <3> QED
      BY <3>1, <3>2, CacheKinds DEF CacheKnows, CacheWant, CacheLoad, CacheFill
  <2>2. \A d \in Conns : tx'[d].op \in {"load", "fill"} => tx[d].token \in Nat /\ tx[d].token <= db.gens
    <3> SUFFICES ASSUME NEW d \in Conns, tx'[d].op \in {"load", "fill"}
                 PROVE  tx[d].token \in Nat /\ tx[d].token <= db.gens
      OBVIOUS
    <3>1. tx'[d] = tx[d]
      BY <1>3, <1>5
    <3>2. tx[d] \in {Cache!Idle} \cup CacheCall /\ CacheKnows(tx[d])
      BY DEF CacheInv, CacheTyped, CacheNumbers
    <3> QED
      BY <3>1, <3>2, CacheKinds DEF CacheKnows, CacheLoad, CacheFill
  <2>3. \A d \in Conns : CacheKnows(tx[d])'
    <3> SUFFICES ASSUME NEW d \in Conns PROVE CacheKnows(tx[d])'
      OBVIOUS
    <3>1. CASE d = c
      BY <1>3, <1>5, <3>1 DEF CacheKnows
    <3>2. CASE d # c
      <4>1. tx'[d] = tx[d] /\ CacheKnows(tx[d])
        BY <1>5, <3>2 DEF CacheInv, CacheNumbers
      <4> QED
        BY <1>6, <1>9, <2>0, <2>1, <2>2, <4>1 DEF CacheKnows
    <3> QED
      BY <3>1, <3>2
  <2>4. \A v \in 0..CacheRequests : v > db'.ver => db'.cache[v] = 0
    BY <1>6, <1>7, <1>9, <2>0
  <2>5. CacheTyped' /\ CacheNumbers'
    BY <1>5, <1>6, <1>9, <2>3, <2>4 DEF CacheTyped, CacheNumbers
  <2>6. CacheFresh'
    <3> SUFFICES ASSUME ~hist.early, ~hist.lost
                 PROVE  /\ db'.cache[db'.ver] # 0 => db'.cache[db'.ver] = db'.value
                        /\ \A o \in Conns : Usable(tx[o])' /\ tx'[o].ver = db'.ver => tx'[o].value = db'.value
                        /\ \A w, o \in Conns :
                             tx'[w].op = "want" /\ Usable(tx[o])'
                                 /\ tx'[o].ver = tx'[w].ver => tx'[w].since <= tx'[o].value
                        /\ \A w \in Conns :
                             tx'[w].op = "want" /\ db'.cache[tx'[w].ver] # 0 => tx'[w].since <= db'.cache[tx'[w].ver]
                        /\ ~hist'.behind
      BY <1>9 DEF CacheFresh
    <3>1. /\ \A w, o \in Conns :
               tx[w].op = "want" /\ Usable(tx[o]) /\ tx[o].ver = tx[w].ver => tx[w].since <= tx[o].value
          /\ \A w \in Conns :
               tx[w].op = "want" /\ db.cache[tx[w].ver] # 0 => tx[w].since <= db.cache[tx[w].ver]
          /\ ~hist.behind
      BY DEF CacheInv, CacheFresh
    <3>2. \A o \in Conns : Usable(tx[o])' => Usable(tx[o]) /\ tx'[o] = tx[o] /\ tx[o].ver < db'.ver
      <4> SUFFICES ASSUME NEW o \in Conns, Usable(tx[o])' PROVE Usable(tx[o]) /\ tx'[o] = tx[o] /\ tx[o].ver < db'.ver
        OBVIOUS
      <4>1. tx'[o].op = "fill" /\ tx'[o].mayFill /\ tx'[o].token = db'.token
        BY DEF Usable
      <4>2. tx'[o] = tx[o] /\ tx[o].ver \in Nat /\ tx[o].ver <= db.ver /\ tx[o].token \in Nat
              /\ tx[o].token <= db.gens
        BY <2>1, <2>2, <4>1
      <4>3. db'.token = db.token /\ db'.ver > db.ver
        BY <1>6, <1>9, <2>0, <4>1, <4>2
      <4> QED
        BY <1>6, <2>0, <4>1, <4>2, <4>3 DEF Usable
    <3>3. \A w \in Conns : tx'[w].op = "want" => tx'[w] = tx[w] /\ tx[w].ver \in 0..CacheRequests
      BY <1>6, <1>7, <2>1
    <3>4. \A o \in Conns : ~(Usable(tx[o])' /\ tx'[o].ver = db'.ver)
      BY <1>6, <2>0, <2>1, <3>2
    <3> QED
      BY <1>9, <3>1, <3>2, <3>3, <3>4
  <2> QED
    BY <2>5, <2>6 DEF CacheInv
<1>10. CASE db' = Cache!Invalidated /\ hist' = hist
  <2>1. CASE db.kind = "item"
    <3>1. db' = [db EXCEPT !.gens = db.gens + 1, !.token = db.gens + 1, !.cache = [db.cache EXCEPT ![0] = 0]]
      BY <1>10, <2>1 DEF Cache!Invalidated
    <3>2. [db.cache EXCEPT ![0] = 0] \in [0..CacheRequests -> Nat] /\ db.gens + 1 \in Nat /\ 0 \in 0..CacheRequests
      BY <1>6 DEF CacheDb
    <3>3. /\ db' \in CacheDb /\ db'.value = db.value /\ db'.kind = db.kind /\ db'.ver = db.ver
          /\ db'.gens = db.gens + 1 /\ db'.token = db.gens + 1 /\ db'.cache = [db.cache EXCEPT ![0] = 0]
      BY <1>6, <3>1, <3>2 DEF CacheDb
    <3>4. db.ver = 0
      BY <1>7, <2>1
    <3>5. db'.cache[db'.ver] = 0 /\ \A v \in 0..CacheRequests : db'.cache[v] = db.cache[v] \/ db'.cache[v] = 0
      BY <1>6, <3>2, <3>3, <3>4 DEF CacheDb
    <3> QED
      BY <1>1, <1>6, <1>7, <1>9, <1>10, <3>3, <3>4, <3>5
  <2>2. CASE db.kind = "list"
    <3>1. db' = [db EXCEPT !.ver = db.ver + 1]
      BY <1>10, <2>2 DEF Cache!Invalidated
    <3>2. /\ db' \in CacheDb /\ db'.value = db.value /\ db'.kind = db.kind /\ db'.ver = db.ver + 1
          /\ db'.gens = db.gens /\ db'.token = db.token /\ db'.cache = db.cache
      BY <1>6, <3>1 DEF CacheDb
    <3>3. db.ver + 1 \in 0..CacheRequests
      BY <1>1, <1>6, <1>7
    <3>4. db'.cache[db'.ver] = 0
      BY <1>6, <1>7, <3>2, <3>3
    <3> QED
      BY <1>1, <1>6, <1>7, <1>9, <1>10, <2>2, <3>2, <3>4
  <2> QED
    BY <1>6, <2>1, <2>2 DEF CacheDb
<1> QED
  BY <1>1, <1>8, <1>10

\* The write commits: an entry or a flight with the old value is remembered.
LEMMA CacheCommits == ASSUME CacheInv, NEW c \in Conns, Cache!CommitWrite(c) PROVE CacheInv'
<1>1. /\ tx' = [tx EXCEPT ![c] = Cache!Idle] /\ left' = left /\ db' = [db EXCEPT !.value = db.value + 1]
  BY DEF Cache!CommitWrite, Cache!Finish, Cache!Continue
<1>2. PICK b \in BOOLEAN :
        /\ hist' = [hist EXCEPT !.early = b]
        /\ b <=> (hist.early \/ db.cache[db.ver] # 0 \/ \E o \in Conns : Cache!Holding(o))
  BY DEF Cache!CommitWrite, Cache!CacheGet
<1>3. /\ db \in CacheDb /\ hist \in [early : BOOLEAN, lost : BOOLEAN, behind : BOOLEAN]
      /\ tx \in [Conns -> {Cache!Idle} \cup CacheCall]
  BY DEF CacheInv, CacheTyped
<1>4. /\ hist' \in [early : BOOLEAN, lost : BOOLEAN, behind : BOOLEAN] /\ hist'.early = b /\ hist'.lost = hist.lost
      /\ hist'.behind = hist.behind
  BY <1>2, <1>3
<1>5. db.value + 1 \in Nat
  BY CacheBounds
<1>6. /\ db' \in CacheDb /\ db'.kind = db.kind /\ db'.ver = db.ver /\ db'.token = db.token /\ db'.gens = db.gens
      /\ db'.cache = db.cache /\ db'.value = db.value + 1
  BY <1>1, <1>3, <1>5 DEF CacheDb
<1>7. CacheStep(c, Cache!Idle)
  BY <1>1 DEF CacheStep
<1>8. tx'[c] = Cache!Idle /\ (\A d \in Conns \ {c} : tx'[d] = tx[d]) /\ tx' \in [Conns -> {Cache!Idle} \cup CacheCall]
  BY <1>7, CacheTx DEF CacheInv
<1>9. CacheTyped'
  BY <1>1, <1>4, <1>6, <1>8 DEF CacheInv, CacheTyped
<1>10. ASSUME NEW d \in Conns PROVE CacheKnows(tx[d])'
  <2>1. CASE d = c
    BY <1>8, <2>1, CacheFree DEF CacheKnows
  <2>2. CASE d # c
    <3>1. tx'[d] = tx[d] /\ CacheKnows(tx[d]) /\ tx[d] \in {Cache!Idle} \cup CacheCall
      BY <1>3, <1>8, <2>2 DEF CacheInv, CacheNumbers
    <3>2. tx[d].op \in {"want", "load", "fill"} => tx[d].since \in Nat
      BY <3>1, CacheKinds DEF CacheWant, CacheLoad, CacheFill
    <3> QED
      BY <1>6, <3>1, <3>2, CacheBounds DEF CacheKnows
  <2> QED
    BY <2>1, <2>2
<1>11. CacheNumbers'
  BY <1>1, <1>6, <1>10 DEF CacheInv, CacheNumbers
<1>12. CacheFresh'
  <2> SUFFICES ASSUME ~b, ~hist.lost
               PROVE  /\ db'.cache[db'.ver] # 0 => db'.cache[db'.ver] = db'.value
                      /\ \A o \in Conns : Usable(tx[o])' /\ tx'[o].ver = db'.ver => tx'[o].value = db'.value
                      /\ \A w, o \in Conns :
                           tx'[w].op = "want" /\ Usable(tx[o])'
                               /\ tx'[o].ver = tx'[w].ver => tx'[w].since <= tx'[o].value
                      /\ \A w \in Conns :
                           tx'[w].op = "want" /\ db'.cache[tx'[w].ver] # 0 => tx'[w].since <= db'.cache[tx'[w].ver]
                      /\ ~hist'.behind
    BY <1>4 DEF CacheFresh
  <2>1. ~hist.early /\ db.cache[db.ver] = 0 /\ \A o \in Conns : ~(Usable(tx[o]) /\ tx[o].ver = db.ver)
    BY <1>2 DEF Cache!Holding, Usable
  <2>2. /\ \A w, o \in Conns :
             tx[w].op = "want" /\ Usable(tx[o]) /\ tx[o].ver = tx[w].ver => tx[w].since <= tx[o].value
        /\ \A w \in Conns :
             tx[w].op = "want" /\ db.cache[tx[w].ver] # 0 => tx[w].since <= db.cache[tx[w].ver]
        /\ ~hist.behind
    BY <2>1 DEF CacheInv, CacheFresh
  <2>3. \A o \in Conns : Usable(tx[o])' => Usable(tx[o]) /\ tx'[o] = tx[o]
    BY <1>6, <1>8, CacheFree DEF Usable
  <2>4. \A w \in Conns : tx'[w].op = "want" => tx'[w] = tx[w]
    BY <1>8, CacheFree
  <2> QED
    BY <1>4, <1>6, <2>1, <2>2, <2>3, <2>4
<1> QED
  BY <1>9, <1>11, <1>12 DEF CacheInv

LEMMA CacheFails == ASSUME CacheInv, NEW c \in Conns, Cache!Fail(c) PROVE CacheInv'
<1>1. tx' = [tx EXCEPT ![c] = Cache!Idle] /\ left' = left /\ db' = db /\ hist' = hist
  BY DEF Cache!Fail, Cache!Finish, Cache!Continue
<1>2. CacheStep(c, Cache!Idle) /\ CacheKnows(Cache!Idle) /\ left' \in Nat /\ left' <= left
  BY <1>1, CacheFree, CacheBounds DEF CacheStep, CacheKnows
<1> QED
  BY <1>1, <1>2, CacheFree, CacheStill, CacheGoes

\* The entry or the lock expires.
LEMMA CacheExpires ==
  ASSUME CacheInv, db' \in CacheDb, CacheSame, UNCHANGED <<tx, hist, left>>,
         \A v \in 0..CacheRequests : db'.cache[v] = db.cache[v] \/ db'.cache[v] = 0
  PROVE  CacheInv'
<1>1. CacheTyped'
  BY DEF CacheInv, CacheTyped
<1>2. CacheNumbers'
  BY DEF CacheInv, CacheNumbers, CacheKnows, CacheSame
<1>3. \A d \in Conns : tx[d].op = "want" => tx[d].ver \in 0..CacheRequests
  <2> SUFFICES ASSUME NEW d \in Conns, tx[d].op = "want" PROVE tx[d].ver \in 0..CacheRequests
    OBVIOUS
  <2>1. tx[d].ver \in Nat /\ tx[d].ver <= db.ver
    BY CacheKinds DEF CacheInv, CacheTyped, CacheNumbers, CacheKnows, CacheWant
  <2> QED
    BY <2>1, CacheBounds
<1>4. CacheFresh'
  BY <1>3, CacheBounds DEF CacheInv, CacheFresh, CacheSame, Usable
<1> QED
  BY <1>1, <1>2, <1>4 DEF CacheInv

LEMMA CacheEntryExpires == ASSUME CacheInv, Cache!ExpireEntry PROVE CacheInv'
<1>1. db' = [db EXCEPT !.cache = [db.cache EXCEPT ![db.ver] = 0]] /\ UNCHANGED <<tx, hist, left>>
  BY DEF Cache!ExpireEntry
<1>2. db \in CacheDb
  BY DEF CacheInv, CacheTyped
<1>3. /\ [db.cache EXCEPT ![db.ver] = 0] \in [0..CacheRequests -> Nat]
      /\ \A v \in 0..CacheRequests : [db.cache EXCEPT ![db.ver] = 0][v] = db.cache[v]
          \/ [db.cache EXCEPT ![db.ver] = 0][v] = 0
  BY <1>2, CacheBounds DEF CacheDb
<1>4. db' \in CacheDb /\ CacheSame /\ db'.cache = [db.cache EXCEPT ![db.ver] = 0]
  BY <1>1, <1>2, <1>3 DEF CacheDb, CacheSame
<1> QED
  BY <1>1, <1>3, <1>4, CacheExpires

LEMMA CacheLockExpires == ASSUME CacheInv, Cache!ExpireLock PROVE CacheInv'
<1>1. db' = [db EXCEPT !.lock = NoConn] /\ UNCHANGED <<tx, hist, left>>
  BY DEF Cache!ExpireLock
<1>2. db \in CacheDb
  BY DEF CacheInv, CacheTyped
<1>3. db' \in CacheDb /\ CacheSame /\ db'.cache = db.cache
  BY <1>1, <1>2 DEF CacheDb, CacheSame
<1> QED
  BY <1>1, <1>3, CacheExpires

\* The generation is gone: who has one keeps it for nothing, who had none is
\* too old.
LEMMA CacheGuardExpires == ASSUME CacheInv, Cache!ExpireGuard PROVE CacheInv'
<1>1. /\ db.token # 0 /\ db' = [db EXCEPT !.token = 0] /\ UNCHANGED <<hist, left>>
      /\ tx' = [c \in Conns |-> IF Cache!Aged(tx[c]) THEN [tx[c] EXCEPT !.mayFill = FALSE] ELSE tx[c]]
  BY DEF Cache!ExpireGuard
<1>2. db \in CacheDb /\ tx \in [Conns -> {Cache!Idle} \cup CacheCall]
  BY DEF CacheInv, CacheTyped
<1>3. /\ db' \in CacheDb /\ db'.kind = db.kind /\ db'.ver = db.ver /\ db'.token = 0 /\ db'.gens = db.gens
      /\ db'.cache = db.cache /\ db'.value = db.value
  BY <1>1, <1>2 DEF CacheDb
<1>4. ASSUME NEW d \in Conns
      PROVE  /\ tx'[d] \in {Cache!Idle} \cup CacheCall /\ CacheKnows(tx'[d])
             /\ ~(tx'[d].op = "fill" /\ tx'[d].mayFill /\ tx'[d].token = 0)
             /\ tx'[d].op = "want" => tx'[d] = tx[d]
  <2>1. tx[d] \in {Cache!Idle} \cup CacheCall /\ CacheKnows(tx[d])
    BY <1>2 DEF CacheInv, CacheNumbers
  <2>2. CASE Cache!Aged(tx[d]) /\ tx[d].op = "load"
    <3>1. tx'[d] = [tx[d] EXCEPT !.mayFill = FALSE] /\ tx[d] \in CacheLoad
      BY <1>1, <2>1, <2>2, CacheKinds
    <3>2. /\ tx'[d] \in CacheLoad /\ tx'[d].op = "load" /\ tx'[d].ver = tx[d].ver /\ tx'[d].since = tx[d].since
          /\ tx'[d].token = tx[d].token
      BY <3>1 DEF CacheLoad
    <3> QED
      BY <2>1, <2>2, <3>2 DEF CacheKnows, CacheCall
  <2>3. CASE Cache!Aged(tx[d]) /\ tx[d].op = "fill"
    <3>1. tx'[d] = [tx[d] EXCEPT !.mayFill = FALSE] /\ tx[d] \in CacheFill
      BY <1>1, <2>1, <2>3, CacheKinds
    <3>2. /\ tx'[d] \in CacheFill /\ tx'[d].op = "fill" /\ tx'[d].ver = tx[d].ver /\ tx'[d].since = tx[d].since
          /\ tx'[d].token = tx[d].token /\ tx'[d].value = tx[d].value /\ tx'[d].mayFill = FALSE
      BY <3>1 DEF CacheFill
    <3> QED
      BY <2>1, <2>3, <3>2 DEF CacheKnows, CacheCall
  <2>4. CASE ~Cache!Aged(tx[d])
    <3>1. tx'[d] = tx[d]
      BY <1>1, <2>4
    <3> QED
      BY <1>1, <2>1, <2>4, <3>1 DEF Cache!Aged
  <2> QED
    BY <2>2, <2>3, <2>4 DEF Cache!Aged
<1>5. tx' \in [Conns -> {Cache!Idle} \cup CacheCall]
  <2>1. DOMAIN tx' = Conns /\ tx' = [d \in Conns |-> tx'[d]]
    BY <1>1
  <2> QED
    BY <1>4, <2>1
<1>6. CacheTyped'
  BY <1>1, <1>3, <1>5 DEF CacheInv, CacheTyped
<1>7. \A d \in Conns : CacheKnows(tx[d])'
  BY <1>3, <1>4 DEF CacheKnows
<1>8. CacheNumbers'
  BY <1>1, <1>3, <1>7, CacheBounds DEF CacheInv, CacheNumbers
<1>9. \A d \in Conns : ~Usable(tx[d])'
  BY <1>3, <1>4 DEF Usable
<1>10. CacheFresh'
  BY <1>1, <1>3, <1>4, <1>9 DEF CacheInv, CacheFresh
<1> QED
  BY <1>6, <1>8, <1>10 DEF CacheInv

LEMMA CacheInit == Cache!Init => CacheInv
<1> SUFFICES ASSUME Cache!Init PROVE CacheInv
  OBVIOUS
<1>1. PICK k \in {"item", "list"} :
        db = [kind |-> k, value |-> 1, cache |-> [v \in 0..CacheRequests |-> 0], ver |-> 0, token |-> 0, gens |-> 0,
              lock |-> NoConn]
  BY DEF Cache!Init
<1>2. /\ hist = [early |-> FALSE, lost |-> FALSE, behind |-> FALSE] /\ tx = [c \in Conns |-> Cache!Idle]
      /\ left = CacheRequests
  BY DEF Cache!Init, Cache!Resting
<1>3. CacheRequests \in Nat
  BY PlatformAssumption
<1>4. /\ db \in CacheDb /\ db.ver = 0 /\ db.token = 0 /\ db.gens = 0 /\ db.value = 1
      /\ db.cache = [v \in 0..CacheRequests |-> 0]
  BY <1>1 DEF CacheDb
<1>5. CacheTyped
  BY <1>2, <1>3, <1>4 DEF CacheTyped
<1>6. \A c \in Conns : tx[c] = Cache!Idle /\ tx[c].op = "idle" /\ ~Usable(tx[c])
  BY <1>2, CacheFree
<1>7. \A c \in Conns : CacheKnows(tx[c])
  BY <1>6 DEF CacheKnows
<1>8. CacheNumbers
  BY <1>2, <1>3, <1>4, <1>7 DEF CacheNumbers
<1>9. CacheFresh
  BY <1>2, <1>3, <1>4, <1>6 DEF CacheFresh
<1> QED
  BY <1>5, <1>8, <1>9 DEF CacheInv

LEMMA CacheNext == CacheInv /\ Cache!Next => CacheInv'
BY CacheWrites, CacheCommits, CacheMiss, CacheJoin, CacheCancel, CacheLeave, CacheAcquire, CacheLoads, CacheFills,
   CacheFails, CacheEntryExpires, CacheLockExpires, CacheGuardExpires, Zenon DEF Cache!Next

LEMMA CacheStays == CacheInv /\ UNCHANGED <<db, tx, hist, left>> => CacheInv'
BY DEF CacheInv, CacheTyped, CacheNumbers, CacheKnows, CacheFresh, Usable

LEMMA CacheKept == CacheInv => Cache!CacheSound
<1> SUFFICES ASSUME CacheInv PROVE Cache!HitsFresh /\ Cache!FlightsFresh /\ Cache!NoLeak
  BY DEF Cache!CacheSound
<1>1. Cache!HitsFresh
  BY DEF CacheInv, CacheFresh, Cache!HitsFresh, Cache!CacheGet
<1>2. Cache!FlightsFresh
  BY DEF CacheInv, CacheFresh, Cache!FlightsFresh
<1>3. Cache!NoLeak
  BY DEF CacheInv, CacheNumbers, CacheKnows, Cache!NoLeak
<1> QED
  BY <1>1, <1>2, <1>3

-----------------------------------------------------------------------------
(* The readiness probe                                                     *)

ReadyNames == {"db", "auth", "search", "key"}

ReadyCall ==
  [op : {"ready"}, todo : SUBSET ReadyNames, bad : SUBSET ReadyNames, fetch : Nat, blank : BOOLEAN,
   up : SUBSET ReadyNames,
   down : SUBSET ReadyNames]

ReadyLoop == [st : {"off", "sleep", "answer"}, key : Nat, blank : BOOLEAN]

ReadyTokens == [key : Nat, aud : Ready!Audiences]

ReadyDb ==
  [down : SUBSET ReadyNames, inited : BOOLEAN, key : Nat, local : Nat, fetched : Nat, loop : ReadyLoop,
   tokens : SUBSET ReadyTokens]

ReadyHist == [reached : Nat, back : BOOLEAN, wrong : BOOLEAN, said : BOOLEAN]

ReadyTyped ==
  /\ tx \in [Conns -> {Ready!Idle} \cup ReadyCall] /\ db \in ReadyDb
  /\ hist \in ReadyHist

\* Keys on their way are AUTH's, of some time.
ReadyKeys ==
  /\ db.key > 0 /\ db.loop.key <= db.key
  /\ db.loop.st = "answer" => db.loop.key > 0
  /\ \A c \in Conns : tx[c].op = "ready" => tx[c].fetch <= db.key

\* The newest key held, and the one held now.
ReadyHeld ==
  /\ db.fetched <= hist.reached /\ hist.reached <= db.key
  /\ db.fetched = 0 => hist.reached = 0

\* Probes ask when there is no key; so what the task asks for afterwards is
\* at least as new as all of them.
ReadyOrder ==
  /\ \A c \in Conns : tx[c].op = "ready" /\ tx[c].fetch # 0 => tx[c].blank
  /\ db.loop.st = "answer" /\ ~db.loop.blank =>
       /\ db.fetched # 0 /\ hist.reached <= db.loop.key
       /\ \A c \in Conns : tx[c].op = "ready" => tx[c].fetch <= db.loop.key

\* What a probe of the process has written down: who it could have found up
\* and down, why it is not content, and that there is a key.
ReadyNotes(r) ==
  r.op = "ready" =>
    /\ \A p \in {"db", "auth"} : Ready!Found(p) => p \in r.up
    /\ \A p \in {"db", "auth", "search"} : ~Ready!Found(p) => p \in r.down
    /\ \A p \in {"db", "auth"} : p \notin r.todo => p \in r.bad \/ p \in r.up
    /\ r.bad \subseteq r.down
    /\ "key" \notin r.todo => "key" \in r.bad \/ Ready!Verifier # 0

ReadyInv ==
  /\ ReadyTyped /\ ReadyKeys /\ ReadyHeld /\ ReadyOrder
  /\ \A c \in Conns : ReadyNotes(tx[c])
  /\ Ready!KeyFollows /\ Ready!ReadyVerifies /\ Ready!AnswersTrue

\* A step that leaves what probes write down, and the keys, alone.
LEMMA ReadyStill ==
  ASSUME ReadyInv, db' \in ReadyDb, tx' = tx, hist' = hist, ReadyKeys', ReadyHeld', ReadyOrder',
         db'.down = db.down, db'.inited = db.inited, db'.local = db.local, db'.fetched = db.fetched
  PROVE  ReadyInv'
<1>1. ReadyTyped'
  BY DEF ReadyInv, ReadyTyped
<1>2. \A p : Ready!Found(p)' <=> Ready!Found(p)
  BY DEF Ready!Found, Ready!Answers
<1>3. Ready!Verifier' = Ready!Verifier
  BY DEF Ready!Verifier
<1>4. \A c \in Conns : ReadyNotes(tx[c])'
  BY <1>2, <1>3 DEF ReadyInv, ReadyNotes
<1>5. Ready!KeyFollows' /\ Ready!ReadyVerifies' /\ Ready!AnswersTrue'
  BY <1>3 DEF ReadyInv, Ready!KeyFollows, Ready!ReadyVerifies, Ready!AnswersTrue
<1> QED
  BY <1>1, <1>4, <1>5 DEF ReadyInv

LEMMA ReadyFields ==
  ReadyInv => /\ db \in ReadyDb /\ db.key \in Nat /\ db.fetched \in Nat /\ db.local \in Nat /\ db.loop \in ReadyLoop
              /\ db.loop.key \in Nat /\ db.down \subseteq ReadyNames /\ db.tokens \subseteq ReadyTokens
              /\ hist \in ReadyHist /\ hist.reached \in Nat
              /\ tx \in [Conns -> {Ready!Idle} \cup ReadyCall]
<1>1. ReadyInv => /\ db \in ReadyDb /\ hist \in ReadyHist /\ tx \in [Conns -> {Ready!Idle} \cup ReadyCall]
  BY DEF ReadyInv, ReadyTyped
<1>2. db \in ReadyDb => /\ db.key \in Nat /\ db.fetched \in Nat /\ db.local \in Nat /\ db.loop \in ReadyLoop
                        /\ db.down \subseteq ReadyNames /\ db.tokens \subseteq ReadyTokens
  BY DEF ReadyDb
<1>3. db.loop \in ReadyLoop => db.loop.key \in Nat
  BY DEF ReadyLoop
<1>4. hist \in ReadyHist => hist.reached \in Nat
  BY DEF ReadyHist
<1> QED
  BY <1>1, <1>2, <1>3, <1>4

\* The fetches of probes.
LEMMA ReadyFetches == ReadyInv => \A c \in Conns : tx[c].op = "ready" => tx[c] \in ReadyCall /\ tx[c].fetch \in Nat
<1> SUFFICES ASSUME ReadyInv, NEW c \in Conns, tx[c].op = "ready" PROVE tx[c] \in ReadyCall /\ tx[c].fetch \in Nat
  OBVIOUS
<1>1. tx[c] \in ReadyCall
  BY ReadyFields DEF Ready!Idle
<1> QED
  BY <1>1 DEF ReadyCall

LEMMA ReadyRotates == ASSUME ReadyInv, Ready!Rotate PROVE ReadyInv'
<1>1. db' = [db EXCEPT !.key = db.key + 1] /\ tx' = tx /\ hist' = hist
  BY DEF Ready!Rotate
<1>2. PICK n \in Nat : n = db.key + 1
  BY ReadyFields
<1>3. /\ db' \in ReadyDb /\ db'.key = n /\ db'.down = db.down /\ db'.inited = db.inited /\ db'.local = db.local
      /\ db'.fetched = db.fetched /\ db'.loop = db.loop
  BY <1>1, <1>2, ReadyFields DEF ReadyDb
<1>4. ReadyKeys'
  BY <1>1, <1>2, <1>3, ReadyFields, ReadyFetches DEF ReadyInv, ReadyKeys
<1>5. ReadyHeld'
  BY <1>1, <1>2, <1>3, ReadyFields DEF ReadyInv, ReadyHeld
<1>6. ReadyOrder'
  BY <1>1, <1>3 DEF ReadyInv, ReadyOrder
<1> QED
  BY <1>1, <1>3, <1>4, <1>5, <1>6, ReadyStill

LEMMA ReadyIssues == ASSUME ReadyInv, NEW c, NEW aud \in Ready!Audiences, Ready!Issue(c, aud) PROVE ReadyInv'
<1>1. db' = [db EXCEPT !.tokens = db.tokens \cup {[key |-> db.key, aud |-> aud]}] /\ tx' = tx /\ hist' = hist
  BY DEF Ready!Issue, Ready!AtOnce
<1>2. db.tokens \cup {[key |-> db.key, aud |-> aud]} \subseteq ReadyTokens
  BY ReadyFields DEF ReadyTokens
<1>3. /\ db' \in ReadyDb /\ db'.key = db.key /\ db'.down = db.down /\ db'.inited = db.inited /\ db'.local = db.local
      /\ db'.fetched = db.fetched /\ db'.loop = db.loop
  BY <1>1, <1>2, ReadyFields DEF ReadyDb
<1>4. ReadyKeys' /\ ReadyHeld' /\ ReadyOrder'
  BY <1>1, <1>3 DEF ReadyInv, ReadyKeys, ReadyHeld, ReadyOrder
<1> QED
  BY <1>1, <1>3, <1>4, ReadyStill

\* The refresh task starts, stops, asks or fails.
LEMMA ReadyLoops ==
  ASSUME ReadyInv, NEW l \in ReadyLoop, db' = [db EXCEPT !.loop = l], tx' = tx, hist' = hist,
         l.key <= db.key, l.st = "answer" => l.key > 0 /\ (~l.blank => db.fetched # 0 /\ l.key = db.key)
  PROVE  ReadyInv'
<1>1. /\ db' \in ReadyDb /\ db'.key = db.key /\ db'.down = db.down /\ db'.inited = db.inited /\ db'.local = db.local
      /\ db'.fetched = db.fetched /\ db'.loop = l
  BY ReadyFields DEF ReadyDb
<1>2. ReadyKeys'
  BY <1>1 DEF ReadyInv, ReadyKeys
<1>3. ReadyHeld'
  BY <1>1 DEF ReadyInv, ReadyHeld
<1>4. ReadyOrder'
  BY <1>1 DEF ReadyInv, ReadyOrder, ReadyKeys, ReadyHeld
<1> QED
  BY <1>1, <1>2, <1>3, <1>4, ReadyStill

LEMMA ReadyStarts == ASSUME ReadyInv, Ready!StartRefresh \/ Ready!StopRefresh \/ Ready!LoopAsks \/ Ready!LoopFails
  PROVE ReadyInv'
<1>1. 0 \in Nat /\ 0 <= db.key /\ db.key \in Nat /\ db.key > 0 /\ db.key <= db.key
  BY ReadyFields DEF ReadyInv, ReadyKeys
<1>2. PICK l : l = Ready!Sleeping
  OBVIOUS
<1>3. l \in ReadyLoop /\ l.st = "sleep" /\ l.key = 0
  BY <1>2 DEF Ready!Sleeping, ReadyLoop
<1>4. CASE Ready!StartRefresh \/ Ready!LoopFails
  BY <1>1, <1>2, <1>3, <1>4, ReadyLoops DEF Ready!StartRefresh, Ready!LoopFails
<1>5. CASE Ready!StopRefresh
  <2>1. PICK o : o = [l EXCEPT !.st = "off"]
    OBVIOUS
  <2>2. o \in ReadyLoop /\ o.st = "off" /\ o.key = 0
    BY <1>3, <2>1 DEF ReadyLoop
  <2> QED
    BY <1>1, <1>2, <1>5, <2>1, <2>2, ReadyLoops DEF Ready!StopRefresh
<1>6. CASE Ready!LoopAsks
  <2>1. PICK b \in BOOLEAN : b <=> db.fetched = 0
    OBVIOUS
  <2>2. PICK o : o = [st |-> "answer", key |-> db.key, blank |-> b]
    OBVIOUS
  <2>3. o \in ReadyLoop /\ o.key = db.key /\ o.blank = b
    BY <1>1, <2>2 DEF ReadyLoop
  <2>4. b = (db.fetched = 0)
    BY <2>1
  <2>5. db' = [db EXCEPT !.loop = [st |-> "answer", key |-> db.key, blank |-> db.fetched = 0]] /\ tx' = tx
          /\ hist' = hist
    BY <1>6 DEF Ready!LoopAsks
  <2>6. db' = [db EXCEPT !.loop = o]
    BY <2>2, <2>4, <2>5, Zenon
  <2> QED
    BY <1>1, <2>1, <2>3, <2>5, <2>6, ReadyLoops
<1> QED
  BY <1>4, <1>5, <1>6

\* An answer is kept; it was asked for when there was no key, or is as new as
\* the newest.
LEMMA ReadyKept1 ==
  ASSUME ReadyInv, NEW k \in Nat, NEW blank \in BOOLEAN, Ready!Keeps(k, blank), k <= db.key, k > 0,
         blank \/ hist.reached <= k, db'.fetched = k, db'.key = db.key
  PROVE  /\ hist' \in ReadyHist /\ hist'.wrong = hist.wrong /\ hist'.said = hist.said
         /\ ReadyHeld' /\ Ready!KeyFollows'
         /\ \A m \in Nat : hist.reached <= m /\ k <= m => hist'.reached <= m
<1>1. PICK n \in Nat : n = IF k > hist.reached THEN k ELSE hist.reached
  BY ReadyFields
<1>2. PICK b \in BOOLEAN : b <=> (blank /\ k < hist.reached)
  OBVIOUS
<1>3. hist' = [hist EXCEPT !.reached = n, !.back = b]
  <2>1. b = (blank /\ k < hist.reached)
    BY <1>2, ReadyFields
  <2>2. hist' = [hist EXCEPT !.reached = n, !.back = blank /\ k < hist.reached]
    BY <1>1 DEF Ready!Keeps
  <2> QED
    BY <2>1, <2>2, Zenon
<1>4. /\ hist' \in ReadyHist /\ hist'.reached = n /\ hist'.back = b /\ hist'.wrong = hist.wrong
      /\ hist'.said = hist.said
  BY <1>3, ReadyFields DEF ReadyHist
<1>5. hist.reached \in Nat /\ db.key \in Nat /\ hist.reached <= db.key
  BY ReadyFields DEF ReadyInv, ReadyHeld
<1>6. ReadyHeld'
  BY <1>1, <1>4, <1>5 DEF ReadyHeld
<1>7. Ready!KeyFollows'
  BY <1>1, <1>2, <1>4, <1>5 DEF Ready!KeyFollows
<1>8. \A m \in Nat : hist.reached <= m /\ k <= m => hist'.reached <= m
  BY <1>1, <1>4, <1>5
<1> QED
  BY <1>4, <1>6, <1>7, <1>8

\* The task's answer.
LEMMA ReadyArrives == ASSUME ReadyInv, Ready!LoopArrives PROVE ReadyInv'
<1>1. /\ db.loop.st = "answer" /\ tx' = tx
      /\ db' = [db EXCEPT !.loop = Ready!Sleeping, !.fetched = db.loop.key]
      /\ Ready!Keeps(db.loop.key, db.loop.blank)
  BY DEF Ready!LoopArrives
<1>2. /\ db.loop.key \in Nat /\ db.loop.key > 0 /\ db.loop.key <= db.key /\ db.key \in Nat /\ db.key > 0
      /\ db.loop.blank \in BOOLEAN
  BY <1>1, ReadyFields DEF ReadyInv, ReadyKeys, ReadyLoop
<1>3. PICK k \in Nat : k = db.loop.key
  BY <1>2
<1>4. Ready!Sleeping \in ReadyLoop /\ Ready!Sleeping.st = "sleep" /\ Ready!Sleeping.key = 0
  BY DEF Ready!Sleeping, ReadyLoop
<1>5. /\ db' \in ReadyDb /\ db'.key = db.key /\ db'.down = db.down /\ db'.inited = db.inited /\ db'.local = db.local
      /\ db'.fetched = k /\ db'.loop = Ready!Sleeping
  BY <1>1, <1>3, <1>4, ReadyFields DEF ReadyDb
<1>6. db.loop.blank \/ hist.reached <= k
  BY <1>1, <1>3 DEF ReadyInv, ReadyOrder
<1>7. /\ hist' \in ReadyHist /\ hist'.wrong = hist.wrong /\ hist'.said = hist.said
      /\ ReadyHeld' /\ Ready!KeyFollows'
  BY <1>1, <1>2, <1>3, <1>5, <1>6, ReadyKept1
<1>8. ReadyTyped'
  BY <1>1, <1>5, <1>7 DEF ReadyInv, ReadyTyped
<1>9. ReadyKeys'
  BY <1>1, <1>2, <1>4, <1>5 DEF ReadyInv, ReadyKeys
<1>10. ReadyOrder'
  BY <1>1, <1>4, <1>5 DEF ReadyInv, ReadyOrder
<1>11. \A p : Ready!Found(p)' <=> Ready!Found(p)
  BY <1>5 DEF Ready!Found, Ready!Answers
<1>12. Ready!Verifier' # 0
  BY <1>2, <1>3, <1>5 DEF Ready!Verifier
<1>13. \A c \in Conns : ReadyNotes(tx[c])'
  BY <1>1, <1>11, <1>12 DEF ReadyInv, ReadyNotes
<1>14. Ready!ReadyVerifies' /\ Ready!AnswersTrue'
  BY <1>7, <1>12 DEF ReadyInv, Ready!ReadyVerifies, Ready!AnswersTrue
<1> QED
  BY <1>7, <1>8, <1>9, <1>10, <1>13, <1>14 DEF ReadyInv

\* What is known of a probe of the process.
LEMMA ReadyProbes ==
  ASSUME ReadyInv, NEW c \in Conns, tx[c].op = "ready"
  PROVE  tx[c] \in ReadyCall /\ ReadyNotes(tx[c]) /\ tx[c].fetch <= db.key /\ tx[c].fetch \in Nat
BY ReadyFetches DEF ReadyInv, ReadyKeys

\* A key that a probe asks for, or none.
ReadyFetch(t) == t.fetch = 0 \/ (t.fetch <= db.key /\ t.blank /\ db.fetched = 0)

\* A step of a probe.
LEMMA ReadyGoes ==
  ASSUME ReadyInv, NEW c \in Conns, NEW t \in ReadyCall, tx' = [tx EXCEPT ![c] = t], db' = db, hist' = hist,
         \/ ReadyFetch(t)
         \/ tx[c].op = "ready" /\ t.fetch = tx[c].fetch /\ t.blank = tx[c].blank,
         ReadyNotes(t)
  PROVE  ReadyInv'
<1>1. /\ tx \in [Conns -> {Ready!Idle} \cup ReadyCall] /\ tx' \in [Conns -> {Ready!Idle} \cup ReadyCall]
      /\ tx'[c] = t /\ \A o \in Conns \ {c} : tx'[o] = tx[o]
  BY DEF ReadyInv, ReadyTyped
<1>2. ReadyTyped'
  BY <1>1 DEF ReadyInv, ReadyTyped
<1>3. db.key \in Nat /\ db.loop.key \in Nat
  BY ReadyFields
<1>4. ReadyKeys'
  BY <1>1, <1>3 DEF ReadyInv, ReadyKeys, ReadyFetch
<1>5. ReadyHeld'
  BY DEF ReadyInv, ReadyHeld
<1>6. ReadyOrder'
  BY <1>1, <1>3 DEF ReadyInv, ReadyOrder, ReadyFetch
<1>7. \A p : Ready!Found(p)' <=> Ready!Found(p)
  BY DEF Ready!Found, Ready!Answers
<1>8. Ready!Verifier' = Ready!Verifier
  BY DEF Ready!Verifier
<1>9. \A o \in Conns : ReadyNotes(tx[o])'
  <2>1. ReadyNotes(t)'
    BY <1>7, <1>8 DEF ReadyNotes
  <2>2. \A o \in Conns \ {c} : ReadyNotes(tx[o])'
    BY <1>1, <1>7, <1>8 DEF ReadyInv, ReadyNotes
  <2> QED
    BY <1>1, <2>1, <2>2 DEF ReadyNotes
<1>10. Ready!KeyFollows' /\ Ready!ReadyVerifies' /\ Ready!AnswersTrue'
  BY <1>8 DEF ReadyInv, Ready!KeyFollows, Ready!ReadyVerifies, Ready!AnswersTrue
<1> QED
  BY <1>2, <1>4, <1>5, <1>6, <1>9, <1>10 DEF ReadyInv

\* What a probe begins with is what it could find.
LEMMA ReadyAsks == ASSUME ReadyInv, NEW c \in Conns, Ready!AskReady(c) PROVE ReadyInv'
<1>1. PICK t : t = [op |-> "ready", todo |-> Ready!Probes, bad |-> {}, fetch |-> 0, blank |-> FALSE,
                    up |-> {p \in {"db", "auth"} : Ready!Found(p)},
                    down |-> {p \in {"db", "auth"} \cup {"search"} : ~Ready!Found(p)}]
  OBVIOUS
<1>2. tx' = [tx EXCEPT ![c] = t] /\ db' = db /\ hist' = hist
  BY <1>1 DEF Ready!AskReady, Ready!Begin
<1>3. t \in ReadyCall
  <2>1. /\ Ready!Probes \subseteq ReadyNames /\ {} \subseteq ReadyNames /\ 0 \in Nat
        /\ {p \in {"db", "auth"} : Ready!Found(p)} \subseteq ReadyNames
        /\ {p \in {"db", "auth"} \cup {"search"} : ~Ready!Found(p)} \subseteq ReadyNames
    BY DEF Ready!Probes, ReadyNames
  <2> QED
    BY <1>1, <2>1 DEF ReadyCall
<1>4. /\ t.fetch = 0 /\ t.todo = Ready!Probes /\ t.bad = {} /\ t.up = {p \in {"db", "auth"} : Ready!Found(p)}
      /\ t.down = {p \in {"db", "auth"} \cup {"search"} : ~Ready!Found(p)}
  BY <1>1
<1>5. ReadyNotes(t)
  BY <1>4 DEF ReadyNotes, Ready!Probes
<1>6. ReadyFetch(t)
  BY <1>4 DEF ReadyFetch
<1> QED
  BY <1>2, <1>3, <1>5, <1>6, ReadyGoes

\* One dependency answers, or does not in time.
LEMMA ReadyHears ==
  ASSUME ReadyInv, NEW c \in Conns, NEW p \in {"db", "auth"} \cup {"search"}, NEW late \in BOOLEAN,
         Ready!Probe(c, p, late)
  PROVE  ReadyInv'
<1>1. tx[c].op = "ready" /\ p \in tx[c].todo
  BY DEF Ready!Probe
<1>2. tx[c] \in ReadyCall /\ ReadyNotes(tx[c]) /\ tx[c].fetch <= db.key
  BY <1>1, ReadyProbes
<1>3. PICK bad : bad = IF Ready!Found(p) /\ ~late THEN tx[c].bad ELSE tx[c].bad \cup {p}
  OBVIOUS
<1>4. PICK down : down = IF late THEN tx[c].down \cup {p} ELSE tx[c].down
  OBVIOUS
<1>5. PICK t : t = [tx[c] EXCEPT !.todo = tx[c].todo \ {p}, !.bad = bad, !.down = down]
  OBVIOUS
<1>6. tx' = [tx EXCEPT ![c] = t] /\ db' = db /\ hist' = hist
  BY <1>3, <1>4, <1>5 DEF Ready!Probe, Ready!Continue
<1>7. p \in ReadyNames /\ p # "key"
  BY DEF ReadyNames
<1>8. tx[c].bad \subseteq ReadyNames /\ tx[c].down \subseteq ReadyNames /\ tx[c].todo \subseteq ReadyNames
  BY <1>2 DEF ReadyCall
<1>9. bad \subseteq ReadyNames /\ down \subseteq ReadyNames /\ tx[c].todo \ {p} \subseteq ReadyNames
  BY <1>3, <1>4, <1>7, <1>8
<1>10. t \in ReadyCall
  BY <1>2, <1>5, <1>9 DEF ReadyCall
<1>11. /\ t.op = "ready" /\ t.todo = tx[c].todo \ {p} /\ t.bad = bad /\ t.down = down /\ t.fetch = tx[c].fetch
       /\ t.up = tx[c].up /\ t.blank = tx[c].blank
  BY <1>1, <1>2, <1>5 DEF ReadyCall
<1>12. ReadyNotes(t)
  <2>1. \A q \in {"db", "auth"} : Ready!Found(q) => q \in t.up
    BY <1>1, <1>2, <1>11 DEF ReadyNotes
  <2>2. \A q \in {"db", "auth", "search"} : ~Ready!Found(q) => q \in t.down
    BY <1>1, <1>2, <1>4, <1>11 DEF ReadyNotes
  <2>3. \A q \in {"db", "auth"} : q \notin t.todo => q \in t.bad \/ q \in t.up
    BY <1>1, <1>2, <1>3, <1>11, <2>1 DEF ReadyNotes
  <2>4. t.bad \subseteq t.down
    BY <1>1, <1>2, <1>3, <1>4, <1>11 DEF ReadyNotes
  <2>5. "key" \notin t.todo => "key" \in t.bad \/ Ready!Verifier # 0
    BY <1>1, <1>2, <1>3, <1>7, <1>11 DEF ReadyNotes
  <2> QED
    BY <2>1, <2>2, <2>3, <2>4, <2>5 DEF ReadyNotes
<1> QED
  BY <1>1, <1>6, <1>10, <1>11, <1>12, ReadyGoes

\* The key is there, is asked for, or does not come.
LEMMA ReadyKeyed ==
  ASSUME ReadyInv, NEW c \in Conns, Ready!ProbeKey(c) \/ Ready!ProbeAsks(c) \/ Ready!ProbeKeyFails(c)
  PROVE  ReadyInv'
<1>1. tx[c].op = "ready" /\ tx[c] \in ReadyCall /\ ReadyNotes(tx[c]) /\ tx[c].fetch <= db.key
  BY ReadyProbes DEF Ready!ProbeKey, Ready!ProbeAsks, Ready!ProbeKeyFails
<1>2. tx[c].todo \ {"key"} \subseteq ReadyNames /\ tx[c].bad \cup {"key"} \subseteq ReadyNames
        /\ tx[c].down \cup {"key"} \subseteq ReadyNames
  BY <1>1 DEF ReadyCall, ReadyNames
<1>3. db.key \in Nat /\ db.key <= db.key /\ 0 <= db.key /\ 0 \in Nat
  BY ReadyFields
<1>4. CASE Ready!ProbeKey(c)
  <2>1. PICK t : t = [tx[c] EXCEPT !.todo = tx[c].todo \ {"key"}]
    OBVIOUS
  <2>2. tx' = [tx EXCEPT ![c] = t] /\ db' = db /\ hist' = hist /\ Ready!Verifier # 0
    BY <1>4, <2>1 DEF Ready!ProbeKey, Ready!Continue
  <2>3. t \in ReadyCall
    BY <1>1, <1>2, <2>1 DEF ReadyCall
  <2>4. /\ t.op = "ready" /\ t.todo = tx[c].todo \ {"key"} /\ t.bad = tx[c].bad /\ t.down = tx[c].down
        /\ t.fetch = tx[c].fetch /\ t.up = tx[c].up /\ t.blank = tx[c].blank
    BY <1>1, <2>1 DEF ReadyCall
  <2>5. ReadyNotes(t)
    BY <1>1, <2>2, <2>4 DEF ReadyNotes
  <2> QED
    BY <1>1, <2>2, <2>3, <2>4, <2>5, ReadyGoes
<1>5. CASE Ready!ProbeAsks(c)
  <2>0. Ready!Verifier = 0 /\ db.fetched = 0
    BY <1>5, ReadyFields DEF Ready!ProbeAsks, Ready!Lacks, Ready!Verifier
  <2>1. PICK t : t = [tx[c] EXCEPT !.fetch = db.key, !.blank = TRUE]
    OBVIOUS
  <2>2. tx' = [tx EXCEPT ![c] = t] /\ db' = db /\ hist' = hist
    <3>1. (Ready!Verifier = 0) = TRUE
      BY <2>0
    <3>2. tx' = [tx EXCEPT ![c] = [tx[c] EXCEPT !.fetch = db.key, !.blank = (Ready!Verifier = 0)]]
      BY <1>5 DEF Ready!ProbeAsks, Ready!Continue
    <3>3. tx' = [tx EXCEPT ![c] = t]
      BY <2>1, <3>1, <3>2, Zenon
    <3> QED
      BY <1>5, <3>3 DEF Ready!ProbeAsks
  <2>3. t \in ReadyCall
    BY <1>1, <1>3, <2>1 DEF ReadyCall
  <2>4. /\ t.op = "ready" /\ t.todo = tx[c].todo /\ t.bad = tx[c].bad /\ t.down = tx[c].down
        /\ t.fetch = db.key /\ t.up = tx[c].up /\ t.blank = TRUE
    BY <1>1, <2>1 DEF ReadyCall
  <2>5. ReadyNotes(t)
    BY <1>1, <2>4 DEF ReadyNotes
  <2>6. ReadyFetch(t)
    BY <1>3, <2>0, <2>4 DEF ReadyFetch
  <2> QED
    BY <2>2, <2>3, <2>5, <2>6, ReadyGoes
<1>6. CASE Ready!ProbeKeyFails(c)
  <2>1. PICK t : t = [tx[c] EXCEPT !.todo = tx[c].todo \ {"key"}, !.bad = tx[c].bad \cup {"key"}, !.fetch = 0,
                                   !.blank = FALSE, !.down = tx[c].down \cup {"key"}]
    OBVIOUS
  <2>2. tx' = [tx EXCEPT ![c] = t] /\ db' = db /\ hist' = hist
    BY <1>6, <2>1 DEF Ready!ProbeKeyFails, Ready!Continue
  <2>3. t \in ReadyCall
    BY <1>1, <1>2, <1>3, <2>1 DEF ReadyCall
  <2>4. /\ t.op = "ready" /\ t.todo = tx[c].todo \ {"key"} /\ t.bad = tx[c].bad \cup {"key"}
        /\ t.down = tx[c].down \cup {"key"} /\ t.fetch = 0 /\ t.up = tx[c].up
    BY <1>1, <2>1 DEF ReadyCall
  <2>5. ReadyNotes(t)
    BY <1>1, <2>4 DEF ReadyNotes
  <2> QED
    BY <2>2, <2>3, <2>4, <2>5, ReadyGoes DEF ReadyFetch
<1> QED
  BY <1>4, <1>5, <1>6

\* A dependency goes down or comes back: those who ask could have found either.
LEMMA ReadyWitnesses ==
  ASSUME ReadyInv, NEW down \in SUBSET ReadyNames, Ready!Witnessed(down), db' \in ReadyDb, hist' = hist,
         db'.local = db.local, db'.fetched = db.fetched, db'.key = db.key, db'.loop = db.loop,
         \A p \in {"db", "auth"} : Ready!Found(p)' => p \notin down,
         \A p \in {"db", "auth", "search"} : ~Ready!Found(p)' => p \in down
  PROVE  ReadyInv'
<1> DEFINE Seen(r) == [r EXCEPT !.up = r.up \cup ({"db", "auth"} \ down), !.down = r.down \cup down]
<1>1. tx' = [o \in Conns |-> IF tx[o].op = "ready" THEN Seen(tx[o]) ELSE tx[o]]
  BY Zenon DEF Ready!Witnessed
<1>2. ASSUME NEW r \in ReadyCall
      PROVE  /\ Seen(r) \in ReadyCall /\ Seen(r).op = "ready" /\ Seen(r).todo = r.todo /\ Seen(r).bad = r.bad
             /\ Seen(r).fetch = r.fetch /\ Seen(r).up = r.up \cup ({"db", "auth"} \ down)
             /\ Seen(r).down = r.down \cup down /\ Seen(r).blank = r.blank
  <2>1. r.up \cup ({"db", "auth"} \ down) \subseteq ReadyNames /\ r.down \cup down \subseteq ReadyNames
    BY <1>2 DEF ReadyCall, ReadyNames
  <2> QED
    BY <1>2, <2>1 DEF ReadyCall
<1> HIDE DEF Seen
<1>3. \A o \in Conns : tx[o].op = "ready" => tx[o] \in ReadyCall /\ ReadyNotes(tx[o]) /\ tx[o].fetch <= db.key
  BY ReadyProbes
<1>4. \A o \in Conns : (tx[o] = Ready!Idle \/ tx[o] \in ReadyCall) /\ (tx[o].op # "ready" => tx[o] = Ready!Idle)
  BY DEF ReadyInv, ReadyTyped, ReadyCall, Ready!Idle
<1>5. \A o \in Conns : tx'[o] = IF tx[o].op = "ready" THEN Seen(tx[o]) ELSE tx[o]
  BY <1>1
<1>6. tx' \in [Conns -> {Ready!Idle} \cup ReadyCall]
  BY <1>1, <1>2, <1>3, <1>4
<1>7. ReadyTyped'
  BY <1>6 DEF ReadyInv, ReadyTyped
<1>8. ReadyKeys'
  BY <1>2, <1>3, <1>4, <1>5 DEF ReadyInv, ReadyKeys
<1>9. Ready!Verifier' = Ready!Verifier
  BY DEF Ready!Verifier
<1>12. ReadyHeld'
  BY DEF ReadyInv, ReadyHeld
<1>13. ReadyOrder'
  BY <1>2, <1>3, <1>4, <1>5 DEF ReadyInv, ReadyOrder
<1>10. ASSUME NEW o \in Conns PROVE ReadyNotes(tx[o])'
  <2>1. CASE tx[o].op = "ready"
    <3>1. PICK s : s = tx'[o]
      OBVIOUS
    <3>2. PICK r \in ReadyCall : r = tx[o]
      BY <1>3, <2>1
    <3>3. /\ s.op = "ready" /\ s.todo = r.todo /\ s.bad = r.bad
          /\ s.up = r.up \cup ({"db", "auth"} \ down) /\ s.down = r.down \cup down
      BY <1>2, <1>5, <2>1, <3>1, <3>2
    <3>4. ReadyNotes(r) /\ r.op = "ready"
      BY <1>3, <2>1, <3>2
    <3>5. ReadyNotes(s)'
      BY <1>9, <3>3, <3>4 DEF ReadyNotes
    <3> QED
      BY <3>1, <3>5 DEF ReadyNotes
  <2>2. CASE tx[o].op # "ready"
    BY <1>5, <2>2 DEF ReadyNotes
  <2> QED
    BY <2>1, <2>2
<1>11. Ready!KeyFollows' /\ Ready!ReadyVerifies' /\ Ready!AnswersTrue'
  BY <1>9 DEF ReadyInv, Ready!KeyFollows, Ready!ReadyVerifies, Ready!AnswersTrue
<1> QED
  BY <1>7, <1>8, <1>10, <1>11, <1>12, <1>13 DEF ReadyInv

LEMMA ReadyToggles == ASSUME ReadyInv, NEW d \in {"db", "auth"} \cup {"search"}, Ready!Toggle(d) PROVE ReadyInv'
<1>1. PICK down : down = IF d \in db.down THEN db.down \ {d} ELSE db.down \cup {d}
  OBVIOUS
<1>2. PICK seen : seen = down \cup IF db.inited THEN {} ELSE {"db"}
  OBVIOUS
<1>3. db' = [db EXCEPT !.down = down] /\ Ready!Witnessed(seen) /\ hist' = hist
  BY <1>1, <1>2 DEF Ready!Toggle
<1>4. down \subseteq ReadyNames /\ seen \subseteq ReadyNames
  BY <1>1, <1>2, ReadyFields DEF ReadyNames
<1>5. /\ db' \in ReadyDb /\ db'.down = down /\ db'.inited = db.inited /\ db'.local = db.local
      /\ db'.fetched = db.fetched /\ db'.key = db.key /\ db'.loop = db.loop
  BY <1>3, <1>4, ReadyFields DEF ReadyDb
<1>6. \A p \in {"db", "auth"} : Ready!Found(p)' => p \notin seen
  BY <1>2, <1>5 DEF Ready!Found, Ready!Answers
<1>7. \A p \in {"db", "auth", "search"} : ~Ready!Found(p)' => p \in seen
  BY <1>2, <1>5 DEF Ready!Found, Ready!Answers
<1> QED
  BY <1>3, <1>4, <1>5, <1>6, <1>7, ReadyWitnesses

LEMMA ReadySchema == ASSUME ReadyInv, Ready!SchemaReady PROVE ReadyInv'
<1>1. db' = [db EXCEPT !.inited = TRUE] /\ Ready!Witnessed(db.down) /\ hist' = hist
  BY DEF Ready!SchemaReady
<1>2. /\ db' \in ReadyDb /\ db'.down = db.down /\ db'.inited = TRUE /\ db'.local = db.local
      /\ db'.fetched = db.fetched /\ db'.key = db.key /\ db'.loop = db.loop
  BY <1>1, ReadyFields DEF ReadyDb
<1>3. \A p \in {"db", "auth"} : Ready!Found(p)' => p \notin db.down
  BY <1>2 DEF Ready!Found, Ready!Answers
<1>4. \A p \in {"db", "auth", "search"} : ~Ready!Found(p)' => p \in db.down
  BY <1>2 DEF Ready!Found, Ready!Answers
<1> QED
  BY <1>1, <1>2, <1>3, <1>4, ReadyFields, ReadyWitnesses

\* A token is taken or refused as it should be.
LEMMA ReadyPresents ==
  ASSUME ReadyInv, NEW c, NEW t \in db.tokens, NEW aud \in Ready!Audiences, Ready!Present(c, t, aud)
  PROVE  ReadyInv'
<1>1. tx' = tx /\ db' = db
  BY DEF Ready!Present, Ready!AtOnce
<1>2. PICK b \in BOOLEAN :
        /\ hist' = [hist EXCEPT !.wrong = b]
        /\ b <=> \/ hist.wrong
                 \/ Ready!Accepts(t, aud) /\ (t.aud # aud \/ (Ready!Settled /\ t.key < hist.reached))
                 \/ ~Ready!Accepts(t, aud) /\ t.aud = aud /\ Ready!Settled /\ t.key = db.key /\ hist.reached = db.key
  <2> DEFINE B == \/ hist.wrong
                  \/ Ready!Accepts(t, aud) /\ (t.aud # aud \/ (Ready!Settled /\ t.key < hist.reached))
                  \/ ~Ready!Accepts(t, aud) /\ t.aud = aud /\ Ready!Settled /\ t.key = db.key /\ hist.reached = db.key
  <2>1. hist' = [hist EXCEPT !.wrong = B]
    BY DEF Ready!Present
  <2>2. B \in BOOLEAN
    BY ReadyFields DEF ReadyHist
  <2> QED
    BY <2>1, <2>2
<1>3. hist \in ReadyHist /\ ~hist.wrong
  BY DEF ReadyInv, ReadyTyped, Ready!AnswersTrue
<1>4. /\ hist.reached \in Nat /\ db.fetched \in Nat /\ db.key \in Nat /\ db.key > 0
      /\ db.fetched <= hist.reached
  BY <1>3, ReadyFields DEF ReadyInv, ReadyKeys, ReadyHeld
<1>5. t.key \in Nat
  BY ReadyFields DEF ReadyTokens
<1>6. Ready!Settled => Ready!Verifier = db.fetched /\ db.fetched >= hist.reached
  BY <1>4 DEF ReadyInv, Ready!KeyFollows, Ready!Settled, Ready!Verifier
<1>7. ~(Ready!Accepts(t, aud) /\ (t.aud # aud \/ (Ready!Settled /\ t.key < hist.reached)))
  BY <1>4, <1>5, <1>6 DEF Ready!Accepts
<1>8. ~(~Ready!Accepts(t, aud) /\ t.aud = aud /\ Ready!Settled /\ t.key = db.key /\ hist.reached = db.key)
  BY <1>4, <1>5, <1>6 DEF Ready!Accepts
<1>9. b = FALSE
  BY <1>2, <1>3, <1>7, <1>8
<1>10. hist' = hist
  BY <1>2, <1>3, <1>9 DEF ReadyHist
<1>11. ReadyKeys' /\ ReadyHeld' /\ ReadyOrder'
  BY <1>1, <1>10 DEF ReadyInv, ReadyKeys, ReadyHeld, ReadyOrder
<1> QED
  BY <1>1, <1>10, <1>11, ReadyFields, ReadyStill

\* A probe's own key arrives.
LEMMA ReadyOwnKey == ASSUME ReadyInv, NEW c \in Conns, Ready!ProbeArrives(c) PROVE ReadyInv'
<1>1. tx[c].op = "ready" /\ tx[c].fetch # 0
  BY DEF Ready!ProbeArrives, Ready!Fetching
<1>2. /\ tx[c] \in ReadyCall /\ ReadyNotes(tx[c]) /\ tx[c].fetch <= db.key /\ tx[c].fetch \in Nat
      /\ tx[c].blank
  BY <1>1, ReadyProbes DEF ReadyInv, ReadyOrder
<1>3. PICK k \in Nat : k = tx[c].fetch
  BY <1>2
<1>4. PICK t : t = [tx[c] EXCEPT !.todo = tx[c].todo \ {"key"}, !.fetch = 0, !.blank = FALSE]
  OBVIOUS
<1>5. /\ tx' = [tx EXCEPT ![c] = t] /\ db' = [db EXCEPT !.fetched = k]
      /\ Ready!Keeps(k, tx[c].blank)
  BY <1>3, <1>4 DEF Ready!ProbeArrives, Ready!Continue
<1>6. /\ db' \in ReadyDb /\ db'.down = db.down /\ db'.inited = db.inited /\ db'.local = db.local
      /\ db'.fetched = k /\ db'.key = db.key /\ db'.loop = db.loop
  BY <1>5, ReadyFields DEF ReadyDb
<1>7. tx[c].todo \ {"key"} \subseteq ReadyNames /\ 0 \in Nat /\ tx[c].blank \in BOOLEAN
  BY <1>2 DEF ReadyCall
<1>8. t \in ReadyCall
  BY <1>2, <1>4, <1>7 DEF ReadyCall
<1>9. /\ t.op = "ready" /\ t.todo = tx[c].todo \ {"key"} /\ t.bad = tx[c].bad /\ t.down = tx[c].down
      /\ t.fetch = 0 /\ t.up = tx[c].up
  BY <1>1, <1>2, <1>4 DEF ReadyCall
<1>10. /\ db.key \in Nat /\ db.key > 0 /\ db.loop.key <= db.key /\ db.loop.key \in Nat /\ db.fetched \in Nat
       /\ (db.loop.st = "answer" => db.loop.key > 0) /\ k <= db.key /\ k # 0 /\ k > 0
  BY <1>1, <1>2, <1>3, ReadyFields DEF ReadyInv, ReadyKeys
<1>11. /\ hist' \in ReadyHist /\ hist'.wrong = hist.wrong /\ hist'.said = hist.said
       /\ ReadyHeld' /\ Ready!KeyFollows'
       /\ \A m \in Nat : hist.reached <= m /\ k <= m => hist'.reached <= m
  BY <1>2, <1>5, <1>6, <1>7, <1>10, ReadyKept1
<1>12. /\ tx \in [Conns -> {Ready!Idle} \cup ReadyCall] /\ tx' \in [Conns -> {Ready!Idle} \cup ReadyCall]
       /\ tx'[c] = t /\ \A o \in Conns \ {c} : tx'[o] = tx[o]
  BY <1>5, <1>8 DEF ReadyInv, ReadyTyped
<1>13. ReadyTyped'
  BY <1>6, <1>11, <1>12 DEF ReadyTyped
<1>14. ReadyKeys'
  BY <1>6, <1>9, <1>10, <1>12 DEF ReadyInv, ReadyKeys
<1>15. ReadyOrder'
  <2>1. \A o \in Conns : tx'[o].op = "ready" /\ tx'[o].fetch # 0 => tx'[o].blank
    BY <1>9, <1>12 DEF ReadyInv, ReadyOrder
  <2>2. ASSUME db.loop.st = "answer", ~db.loop.blank
        PROVE  /\ db'.fetched # 0 /\ hist'.reached <= db.loop.key
               /\ \A o \in Conns : tx'[o].op = "ready" => tx'[o].fetch <= db.loop.key
    <3>1. hist.reached <= db.loop.key /\ \A o \in Conns : tx[o].op = "ready" => tx[o].fetch <= db.loop.key
      BY <2>2 DEF ReadyInv, ReadyOrder
    <3>2. k <= db.loop.key
      BY <1>1, <1>3, <3>1
    <3>3. \A o \in Conns : tx'[o].op = "ready" => tx'[o].fetch <= db.loop.key
      BY <1>9, <1>10, <1>12, <3>1
    <3> QED
      BY <1>6, <1>10, <1>11, <3>1, <3>2, <3>3
  <2> QED
    BY <1>6, <2>1, <2>2 DEF ReadyOrder
<1>16. \A p : Ready!Found(p)' <=> Ready!Found(p)
  BY <1>6 DEF Ready!Found, Ready!Answers
<1>17. Ready!Verifier' # 0
  BY <1>6, <1>10 DEF Ready!Verifier
<1>18. \A o \in Conns : ReadyNotes(tx[o])'
  <2>1. ReadyNotes(t)'
    BY <1>1, <1>2, <1>9, <1>16, <1>17 DEF ReadyNotes
  <2>2. \A o \in Conns \ {c} : ReadyNotes(tx[o])'
    BY <1>12, <1>16, <1>17 DEF ReadyInv, ReadyNotes
  <2> QED
    BY <1>12, <2>1, <2>2 DEF ReadyNotes
<1>19. Ready!ReadyVerifies' /\ Ready!AnswersTrue'
  BY <1>11, <1>17 DEF ReadyInv, Ready!ReadyVerifies, Ready!AnswersTrue
<1> QED
  BY <1>11, <1>13, <1>14, <1>15, <1>18, <1>19 DEF ReadyInv

\* The answer of a probe is true.
LEMMA ReadyAnswers == ASSUME ReadyInv, NEW c \in Conns, Ready!Answer(c) PROVE ReadyInv'
<1>1. tx[c].op = "ready" /\ tx[c].todo = {} /\ db' = db /\ tx' = [tx EXCEPT ![c] = Ready!Idle]
  BY DEF Ready!Answer, Ready!Finish, Ready!Continue
<1>2. tx[c] \in ReadyCall /\ ReadyNotes(tx[c])
  BY <1>1, ReadyProbes
<1>3. hist \in ReadyHist /\ ~hist.wrong
  BY DEF ReadyInv, ReadyTyped, Ready!AnswersTrue
<1>4. /\ Ready!Ready(tx[c].bad) => {"db", "auth"} \subseteq tx[c].up
      /\ ~Ready!Ready(tx[c].bad) => ~(tx[c].down \subseteq {"search"})
      /\ Ready!Ready(tx[c].bad) => Ready!Verifier # 0
  BY <1>1, <1>2 DEF ReadyNotes, Ready!Ready
<1>5. PICK a \in BOOLEAN : a <=> hist.said \/ Ready!Ready(tx[c].bad)
  BY <1>3
<1>6. hist' = [hist EXCEPT !.said = a, !.wrong = FALSE]
  <2> DEFINE A == hist.said \/ Ready!Ready(tx[c].bad)
             W == hist.wrong \/ IF Ready!Ready(tx[c].bad) THEN ~({"db", "auth"} \subseteq tx[c].up)
                                ELSE tx[c].down \subseteq {"search"}
  <2>1. hist' = [hist EXCEPT !.said = A, !.wrong = W]
    BY DEF Ready!Answer
  <2>2. A \in BOOLEAN /\ W \in BOOLEAN
    BY <1>3
  <2>3. A = a /\ W = FALSE
    BY <1>3, <1>4, <1>5, <2>2
  <2> QED
    BY <2>1, <2>3
<1>7. /\ hist' \in ReadyHist
      /\ hist'.reached = hist.reached /\ hist'.back = hist.back /\ hist'.wrong = FALSE /\ hist'.said = a
  BY <1>3, <1>6 DEF ReadyHist
<1>8. /\ tx' \in [Conns -> {Ready!Idle} \cup ReadyCall]
      /\ tx'[c].op # "ready" /\ \A o \in Conns \ {c} : tx'[o] = tx[o]
  BY <1>1 DEF ReadyInv, ReadyTyped, Ready!Idle
<1>9. ReadyTyped'
  BY <1>1, <1>7, <1>8 DEF ReadyInv, ReadyTyped
<1>10. ReadyKeys' /\ ReadyHeld' /\ ReadyOrder'
  BY <1>1, <1>7, <1>8 DEF ReadyInv, ReadyKeys, ReadyHeld, ReadyOrder
<1>11. \A o \in Conns : ReadyNotes(tx[o])'
  <2>1. \A p : Ready!Found(p)' <=> Ready!Found(p)
    BY <1>1 DEF Ready!Found, Ready!Answers
  <2>2. Ready!Verifier' = Ready!Verifier
    BY <1>1 DEF Ready!Verifier
  <2>3. \A o \in Conns \ {c} : ReadyNotes(tx[o])'
    BY <1>8, <2>1, <2>2 DEF ReadyInv, ReadyNotes
  <2> QED
    BY <1>8, <2>3 DEF ReadyNotes
<1>12. Ready!Verifier' = Ready!Verifier
  BY <1>1 DEF Ready!Verifier
<1>13. Ready!KeyFollows'
  BY <1>1, <1>7 DEF ReadyInv, Ready!KeyFollows
<1>14. Ready!ReadyVerifies'
  BY <1>4, <1>5, <1>7, <1>12 DEF ReadyInv, Ready!ReadyVerifies
<1>15. Ready!AnswersTrue'
  BY <1>7 DEF Ready!AnswersTrue
<1> QED
  BY <1>9, <1>10, <1>11, <1>13, <1>14, <1>15 DEF ReadyInv

LEMMA ReadyInit == Ready!Init => ReadyInv
<1> SUFFICES ASSUME Ready!Init PROVE ReadyInv
  OBVIOUS
<1>1. PICK l \in ReadyLoop : l = [st |-> "off", key |-> 0, blank |-> FALSE]
  BY DEF ReadyLoop
<1>2. l.st = "off" /\ l.key = 0
  BY <1>1
<1>3. /\ db \in [down : {{}, {"auth"}}, inited : {FALSE}, key : {1}, local : {0, 1}, fetched : {0},
                 loop : {l}, tokens : {{}}]
      /\ hist = [reached |-> 0, back |-> FALSE, wrong |-> FALSE, said |-> FALSE]
      /\ tx = [c \in Conns |-> Ready!Idle]
  BY <1>1 DEF Ready!Init, Ready!Resting
<1>4. db.key = 1 /\ db.fetched = 0 /\ db.loop = l /\ hist.reached = 0 /\ ~hist.wrong /\ ~hist.said
  BY <1>3
<1>5. db \in ReadyDb
  <2>1. {{}, {"auth"}} \subseteq SUBSET ReadyNames /\ {0, 1} \subseteq Nat /\ {} \subseteq ReadyTokens
    BY DEF ReadyNames
  <2> QED
    BY <1>3, <2>1 DEF ReadyDb
<1>13. hist \in ReadyHist
  BY <1>3 DEF ReadyHist
<1>6. ReadyTyped
  BY <1>3, <1>5, <1>13 DEF ReadyTyped
<1>7. \A c \in Conns : tx[c].op # "ready"
  BY <1>3 DEF Ready!Idle
<1>8. ReadyKeys
  BY <1>2, <1>4, <1>7 DEF ReadyKeys
<1>11. ReadyHeld
  BY <1>4 DEF ReadyHeld
<1>12. ReadyOrder
  BY <1>2, <1>4, <1>7 DEF ReadyOrder
<1>9. \A c \in Conns : ReadyNotes(tx[c])
  BY <1>7 DEF ReadyNotes
<1>10. Ready!KeyFollows /\ Ready!ReadyVerifies /\ Ready!AnswersTrue
  BY <1>4 DEF Ready!KeyFollows, Ready!ReadyVerifies, Ready!AnswersTrue
<1> QED
  BY <1>6, <1>8, <1>9, <1>10, <1>11, <1>12 DEF ReadyInv

LEMMA ReadyNext == ReadyInv /\ Ready!Next => ReadyInv'
<1> SUFFICES ASSUME ReadyInv, Ready!Next PROVE ReadyInv'
  OBVIOUS
<1>1. CASE \E d \in {"db", "auth"} \cup {"search"} : Ready!Toggle(d)
  BY <1>1, ReadyToggles
<1>2. CASE Ready!SchemaReady
  BY <1>2, ReadySchema
<1>3. CASE Ready!Rotate
  BY <1>3, ReadyRotates
<1>4. CASE Ready!StartRefresh \/ Ready!StopRefresh \/ Ready!LoopAsks \/ Ready!LoopFails
  BY <1>4, ReadyStarts
<1>5. CASE Ready!LoopArrives
  BY <1>5, ReadyArrives
<1>6. CASE \E c \in Conns : \E aud \in Ready!Audiences : Ready!Issue(c, aud)
  BY <1>6, ReadyIssues
<1>7. CASE \E c \in Conns : \E t \in db.tokens, aud \in Ready!Audiences : Ready!Present(c, t, aud)
  BY <1>7, ReadyPresents
<1>8. CASE \E c \in Conns : Ready!AskReady(c)
  BY <1>8, ReadyAsks
<1>9. CASE \E c \in Conns : \E p \in {"db", "auth"} \cup {"search"}, late \in BOOLEAN : Ready!Probe(c, p, late)
  BY <1>9, ReadyHears
<1>10. CASE \E c \in Conns : Ready!ProbeKey(c) \/ Ready!ProbeAsks(c) \/ Ready!ProbeKeyFails(c)
  BY <1>10, ReadyKeyed
<1>11. CASE \E c \in Conns : Ready!ProbeArrives(c)
  BY <1>11, ReadyOwnKey
<1>12. CASE \E c \in Conns : Ready!Answer(c)
  BY <1>12, ReadyAnswers
<1> QED
  BY <1>1, <1>2, <1>3, <1>4, <1>5, <1>6, <1>7, <1>8, <1>9, <1>10, <1>11, <1>12, Zenon DEF Ready!Next

LEMMA ReadyStays == ReadyInv /\ UNCHANGED <<db, tx, hist, left>> => ReadyInv'
<1> SUFFICES ASSUME ReadyInv, db' = db, tx' = tx, hist' = hist PROVE ReadyInv'
  OBVIOUS
<1>1. /\ db' \in ReadyDb /\ db'.down = db.down /\ db'.inited = db.inited /\ db'.local = db.local
      /\ db'.fetched = db.fetched
  BY ReadyFields
<1>2. ReadyKeys' /\ ReadyHeld' /\ ReadyOrder'
  BY DEF ReadyInv, ReadyKeys, ReadyHeld, ReadyOrder
<1> QED
  BY <1>1, <1>2, ReadyStill

LEMMA ReadyKept == ReadyInv => Ready!ReadinessSound
  BY DEF ReadyInv, Ready!ReadinessSound

-----------------------------------------------------------------------------
(* Starting up: the schema under its lock                                  *)

BootSteps == {"lock", "waiting", "schema", "create", "upgrade", "caggs", "seed", "release", "flag"}

BootCall == [op : {"boot"}, at : BootSteps, held : BOOLEAN, saw : SUBSET Tables, failed : BOOLEAN]

BootThread == [op : {"thread"}, saw : SUBSET Tables]

BootDb ==
  [channel : Boot!Channels, tables : SUBSET Tables, columns : SUBSET Tables, large : SUBSET Tables,
   hard : SUBSET Tables, warned : SUBSET Tables, head : BOOLEAN, shared : BOOLEAN, caggs : BOOLEAN, seeded : BOOLEAN,
   lock : Conns \cup {NoConn}, ready : SUBSET Conns]

BootRuns == {Boot!Idle} \cup BootCall \cup BootThread

BootTyped == tx \in [Conns -> BootRuns] /\ db \in BootDb /\ hist \in [unlocked : SUBSET Conns]

BootMade == db.tables = Tables /\ db.shared /\ db.columns = Tables \ (db.hard \cup db.warned)

BootGranted == db.channel \in {"create_all", "alembic"} => db.seeded

\* What the database holds: only create_all meets tables of an older release,
\* the version is the last one only of a complete schema, and so is readiness.
BootSchema ==
  /\ db.hard \cup db.large \subseteq db.tables /\ db.columns \cap db.hard = {}
  /\ Boot!Alembic => db.hard = {} /\ db.large = {} /\ db.warned = {}
  /\ db.warned \cap db.large = {}
  /\ db.head => BootMade
  /\ db.ready # {} => BootMade /\ BootGranted

\* What a process has achieved when it is at a step.
BootReached(r) ==
  /\ r.op = "boot" =>
       /\ r.at = "create" => ~Boot!Alembic /\ r.saw \cap (db.hard \cup db.large) = {}
       /\ r.at = "upgrade" => Boot!Alembic /\ (r.saw = {} => db.head)
       /\ r.at \in {"caggs", "seed"} => db.channel \in {"create_all", "alembic"} /\ BootMade
       /\ r.at = "release" /\ ~r.failed => BootMade /\ (db.channel = "alembic" => db.seeded)
       /\ r.at = "flag" => BootMade /\ BootGranted
  /\ r.op = "thread" => Boot!Alembic

\* Nobody works at the schema who has neither the lock nor an excuse.
BootLocked(c, r) ==
  /\ r.op = "boot" /\ r.held => db.lock = c \/ c \in hist.unlocked
  /\ r.op = "boot" /\ r.at \in {"schema", "create", "upgrade"} => r.held \/ c \in hist.unlocked
  /\ r.op = "thread" => c \in hist.unlocked

BootInv ==
  /\ BootTyped /\ BootSchema
  /\ \A c \in Conns : BootReached(tx[c]) /\ BootLocked(c, tx[c])

LEMMA BootFields ==
  BootInv => /\ db \in BootDb /\ db.tables \subseteq Tables /\ db.columns \subseteq Tables
             /\ db.large \subseteq Tables /\ db.warned \subseteq Tables
             /\ db.hard \subseteq Tables /\ db.ready \subseteq Conns /\ db.lock \in Conns \cup {NoConn}
             /\ db.channel \in Boot!Channels /\ db.head \in BOOLEAN /\ db.seeded \in BOOLEAN /\ db.shared \in BOOLEAN
             /\ hist.unlocked \subseteq Conns /\ hist \in [unlocked : SUBSET Conns]
<1>1. BootInv => db \in BootDb /\ hist \in [unlocked : SUBSET Conns]
  BY DEF BootInv, BootTyped
<1>2. db \in BootDb => /\ db.tables \subseteq Tables /\ db.warned \subseteq Tables /\ db.columns \subseteq Tables
                       /\ db.large \subseteq Tables
                       /\ db.hard \subseteq Tables /\ db.ready \subseteq Conns /\ db.lock \in Conns \cup {NoConn}
                       /\ db.channel \in Boot!Channels /\ db.head \in BOOLEAN /\ db.seeded \in BOOLEAN
                       /\ db.shared \in BOOLEAN
  BY DEF BootDb
<1> QED
  BY <1>1, <1>2

LEMMA BootTx ==
  ASSUME BootInv, NEW c \in Conns
  PROVE  /\ tx[c].op = "boot" => tx[c] \in BootCall
         /\ tx[c].op = "thread" => tx[c] \in BootThread
         /\ tx[c] = Boot!Idle => tx[c].op = "idle"
         /\ tx[c] \in BootRuns /\ BootReached(tx[c]) /\ BootLocked(c, tx[c])
<1>1. tx[c] \in BootRuns
  BY DEF BootInv, BootTyped
<1>2. tx[c].op = "boot" => tx[c] \in BootCall
  BY <1>1 DEF BootRuns, BootThread, Boot!Idle
<1>3. tx[c].op = "thread" => tx[c] \in BootThread
  BY <1>1 DEF BootRuns, BootCall, Boot!Idle
<1> QED
  BY <1>1, <1>2, <1>3 DEF BootInv, Boot!Idle

\* What was achieved stays while the database grows.
LEMMA BootGrows ==
  ASSUME NEW r, BootReached(r), db'.channel = db.channel, db'.large = db.large, db'.hard \subseteq db.hard,
         db.head => db'.head, db.seeded => db'.seeded, BootMade => BootMade'
  PROVE  BootReached(r)'
<1>1. Boot!Alembic' <=> Boot!Alembic
  BY DEF Boot!Alembic
<1>2. BootGranted => BootGranted'
  BY DEF BootGranted
<1> QED
  BY <1>1, <1>2 DEF BootReached

\* A step of one process, with all it does to the database and the lock.
LEMMA BootStep ==
  ASSUME BootInv, NEW c \in Conns, NEW t \in BootRuns, tx' = [tx EXCEPT ![c] = t],
         db' \in BootDb, hist' \in [unlocked : SUBSET Conns], BootSchema',
         db'.channel = db.channel, db'.large = db.large, db'.hard \subseteq db.hard,
         db.head => db'.head, db.seeded => db'.seeded, BootMade => BootMade',
         BootReached(t)', BootLocked(c, t)',
         \A o \in Conns \ {c} : (db.lock = o => db'.lock = o) /\ (o \in hist.unlocked => o \in hist'.unlocked)
  PROVE  BootInv'
<1>1. tx \in [Conns -> BootRuns] /\ tx'[c] = t /\ \A o \in Conns \ {c} : tx'[o] = tx[o]
  BY DEF BootInv, BootTyped
<1>2. BootTyped'
  BY <1>1 DEF BootTyped
<1>3. ASSUME NEW o \in Conns PROVE BootReached(tx[o])' /\ BootLocked(o, tx[o])'
  <2>1. PICK r : r = tx'[o]
    OBVIOUS
  <2>2. BootReached(r)' /\ BootLocked(o, r)'
    <3>1. CASE o = c
      BY <1>1, <2>1, <3>1
    <3>2. CASE o # c
      <4>1. BootReached(r) /\ BootLocked(o, r)
        BY <1>1, <2>1, <3>2 DEF BootInv
      <4>2. BootReached(r)'
        BY <4>1, BootGrows
      <4>3. BootLocked(o, r)'
        BY <3>2, <4>1 DEF BootLocked
      <4> QED
        BY <4>2, <4>3
    <3> QED
      BY <3>1, <3>2
  <2> QED
    BY <2>1, <2>2 DEF BootReached, BootLocked
<1> QED
  BY <1>2, <1>3 DEF BootInv

\* The schema's facts where only readiness, the lock or the caggs change.
LEMMA BootSame ==
  ASSUME BootInv, db'.channel = db.channel, db'.large = db.large, db'.hard = db.hard, db'.tables = db.tables,
         db'.warned = db.warned,
         db'.columns = db.columns, db'.shared = db.shared, db'.head = db.head, db.seeded => db'.seeded,
         db'.ready # {} => db.ready # {} \/ (BootMade /\ BootGranted)
  PROVE  BootSchema' /\ (BootMade => BootMade') /\ (db.head => db'.head) /\ db'.hard \subseteq db.hard
<1>1. (Boot!Alembic' <=> Boot!Alembic) /\ (BootMade' <=> BootMade) /\ (BootGranted => BootGranted')
  BY DEF Boot!Alembic, BootMade, BootGranted
<1> QED
  BY <1>1 DEF BootInv, BootSchema

\* A step that leaves the database alone.
LEMMA BootGoes ==
  ASSUME BootInv, NEW c \in Conns, NEW t \in BootRuns, tx' = [tx EXCEPT ![c] = t], db' = db, hist' = hist,
         BootReached(t), BootLocked(c, t)
  PROVE  BootInv'
<1>1. BootReached(t)' /\ BootLocked(c, t)' /\ (BootMade => BootMade')
  BY DEF BootReached, BootLocked, BootMade, BootGranted, Boot!Alembic
<1>2. BootSchema'
  BY DEF BootInv, BootSchema, BootMade, BootGranted, Boot!Alembic
<1> QED
  BY <1>1, <1>2, BootFields, BootStep

LEMMA BootBegins == ASSUME BootInv, NEW c \in Conns, Boot!Bootstrap(c) PROVE BootInv'
<1>1. PICK t : t = [op |-> "boot", at |-> "lock", held |-> FALSE, saw |-> {}, failed |-> FALSE]
  OBVIOUS
<1>2. tx' = [tx EXCEPT ![c] = t] /\ db' = [db EXCEPT !.ready = db.ready \ {c}] /\ hist' = hist
  BY <1>1 DEF Boot!Bootstrap, Boot!Begin, Boot!Booting
<1>3. t \in BootRuns /\ t.op = "boot" /\ t.at = "lock" /\ t.held = FALSE
  BY <1>1 DEF BootRuns, BootCall, BootSteps
<1>4. /\ db' \in BootDb /\ db'.channel = db.channel /\ db'.large = db.large /\ db'.hard = db.hard
      /\ db'.warned = db.warned
      /\ db'.tables = db.tables
      /\ db'.columns = db.columns /\ db'.shared = db.shared /\ db'.head = db.head /\ db'.seeded = db.seeded
      /\ db'.ready = db.ready \ {c} /\ db'.lock = db.lock
  BY <1>2, BootFields DEF BootDb
<1>5. BootReached(t)' /\ BootLocked(c, t)'
  BY <1>3 DEF BootReached, BootLocked
<1>6. BootSchema' /\ (BootMade => BootMade') /\ (db.head => db'.head) /\ db'.hard \subseteq db.hard
  BY <1>4, BootSame
<1> QED
  BY <1>2, <1>3, <1>4, <1>5, <1>6, BootFields, BootStep

\* The lock is free and taken: everybody else has lost it.
LEMMA BootTakes ==
  ASSUME BootInv, NEW c \in Conns, db.lock = NoConn, db' = [db EXCEPT !.lock = c],
         hist' = [hist EXCEPT !.unlocked = hist.unlocked \ {c}],
         tx' = [tx EXCEPT ![c] = [op |-> "boot", at |-> "schema", held |-> TRUE, saw |-> {}, failed |-> FALSE]]
  PROVE  BootInv'
<1>1. PICK t : t = [op |-> "boot", at |-> "schema", held |-> TRUE, saw |-> {}, failed |-> FALSE]
  OBVIOUS
<1>2. t \in BootRuns /\ t.op = "boot" /\ t.at = "schema" /\ t.held = TRUE
  BY <1>1 DEF BootRuns, BootCall, BootSteps
<1>3. /\ db' \in BootDb /\ db'.channel = db.channel /\ db'.large = db.large /\ db'.hard = db.hard
      /\ db'.warned = db.warned
      /\ db'.tables = db.tables
      /\ db'.columns = db.columns /\ db'.shared = db.shared /\ db'.head = db.head /\ db'.seeded = db.seeded
      /\ db'.ready = db.ready /\ db'.lock = c
  BY BootFields DEF BootDb
<1>4. hist' \in [unlocked : SUBSET Conns] /\ hist'.unlocked = hist.unlocked \ {c}
  BY BootFields
<1>5. BootReached(t)' /\ BootLocked(c, t)'
  BY <1>2, <1>3 DEF BootReached, BootLocked
<1>6. BootSchema' /\ (BootMade => BootMade') /\ (db.head => db'.head) /\ db'.hard \subseteq db.hard
  BY <1>3, BootSame
<1>7. \A o \in Conns \ {c} : (db.lock = o => db'.lock = o) /\ (o \in hist.unlocked => o \in hist'.unlocked)
  BY <1>4, PlatformAssumption
<1>8. tx' = [tx EXCEPT ![c] = t]
  BY <1>1
<1> QED
  BY <1>2, <1>3, <1>4, <1>5, <1>6, <1>7, <1>8, BootStep

\* A process goes on without the lock.
LEMMA BootWithout ==
  ASSUME BootInv, NEW c \in Conns, tx[c].op = "boot", db' = db,
         hist' = [hist EXCEPT !.unlocked = hist.unlocked \cup {c}],
         tx' = [tx EXCEPT ![c] = [tx[c] EXCEPT !.at = "schema"]]
  PROVE  BootInv'
<1>1. PICK t : t = [tx[c] EXCEPT !.at = "schema"]
  OBVIOUS
<1>2. tx[c] \in BootCall
  BY BootTx
<1>3. t \in BootCall /\ t.op = "boot" /\ t.at = "schema"
  BY <1>1, <1>2 DEF BootCall, BootSteps
<1>4. hist' \in [unlocked : SUBSET Conns] /\ hist'.unlocked = hist.unlocked \cup {c}
  BY BootFields
<1>5. BootReached(t)' /\ BootLocked(c, t)'
  BY <1>3, <1>4 DEF BootReached, BootLocked
<1>6. BootSchema' /\ (BootMade => BootMade') /\ (db.head => db'.head) /\ db'.hard \subseteq db.hard
  BY BootSame
<1>7. t \in BootRuns
  BY <1>3 DEF BootRuns
<1>8. tx' = [tx EXCEPT ![c] = t]
  BY <1>1
<1> QED
  BY <1>4, <1>5, <1>6, <1>7, <1>8, BootFields, BootStep

LEMMA BootLocks ==
  ASSUME BootInv, NEW c \in Conns, Boot!AcquireMigrationLock(c) \/ Boot!WaitForLock(c)
  PROVE  BootInv'
<1>1. tx[c].op = "boot" /\ tx[c] \in BootCall /\ BootLocked(c, tx[c])
  BY BootTx DEF Boot!AcquireMigrationLock, Boot!WaitForLock, Boot!At
<1>2. CASE /\ db.lock = NoConn /\ db' = [db EXCEPT !.lock = c]
           /\ hist' = [hist EXCEPT !.unlocked = hist.unlocked \ {c}]
           /\ tx' = [tx EXCEPT ![c] = [op |-> "boot", at |-> "schema", held |-> TRUE, saw |-> {}, failed |-> FALSE]]
  BY <1>2, BootTakes
<1>3. CASE /\ db' = db /\ hist' = [hist EXCEPT !.unlocked = hist.unlocked \cup {c}]
           /\ tx' = [tx EXCEPT ![c] = [tx[c] EXCEPT !.at = "schema"]]
  BY <1>1, <1>3, BootWithout
<1>4. CASE db' = db /\ hist' = hist /\ tx' = [tx EXCEPT ![c] = [tx[c] EXCEPT !.at = "waiting"]]
  <2>1. PICK t : t = [tx[c] EXCEPT !.at = "waiting"]
    OBVIOUS
  <2>2. t \in BootCall /\ t.op = "boot" /\ t.at = "waiting" /\ t.held = tx[c].held
    BY <1>1, <2>1 DEF BootCall, BootSteps
  <2>3. BootReached(t) /\ BootLocked(c, t) /\ t \in BootRuns
    BY <1>1, <2>2 DEF BootReached, BootLocked, BootRuns
  <2> QED
    BY <1>4, <2>1, <2>3, BootGoes
<1> QED
  BY <1>2, <1>3, <1>4 DEF Boot!AcquireMigrationLock, Boot!WaitForLock, Boot!Go, Boot!Continue, Boot!Booting

LEMMA BootExpires == ASSUME BootInv, Boot!LockExpires PROVE BootInv'
<1>1. /\ db.lock # NoConn /\ db' = [db EXCEPT !.lock = NoConn] /\ tx' = tx
      /\ hist' = [hist EXCEPT !.unlocked = hist.unlocked \cup {db.lock}]
  BY DEF Boot!LockExpires
<1>2. PICK c \in Conns : c = db.lock
  BY <1>1, BootFields
<1>3. PICK t \in BootRuns : t = tx[c]
  BY BootTx
<1>4. tx' = [tx EXCEPT ![c] = t]
  BY <1>1, <1>3 DEF BootInv, BootTyped
<1>5. /\ db' \in BootDb /\ db'.channel = db.channel /\ db'.large = db.large /\ db'.hard = db.hard
      /\ db'.warned = db.warned
      /\ db'.tables = db.tables
      /\ db'.columns = db.columns /\ db'.shared = db.shared /\ db'.head = db.head /\ db'.seeded = db.seeded
      /\ db'.ready = db.ready /\ db'.lock = NoConn
  BY <1>1, BootFields DEF BootDb
<1>6. hist' \in [unlocked : SUBSET Conns] /\ hist'.unlocked = hist.unlocked \cup {c}
  BY <1>1, <1>2, BootFields
<1>7. BootSchema' /\ (BootMade => BootMade') /\ (db.head => db'.head) /\ db'.hard \subseteq db.hard
  BY <1>5, BootSame
<1>8. BootReached(t)'
  BY <1>3, <1>5, <1>7, BootTx, BootGrows
<1>9. BootLocked(c, t)'
  BY <1>6 DEF BootLocked
<1>10. \A o \in Conns \ {c} : (db.lock = o => db'.lock = o) /\ (o \in hist.unlocked => o \in hist'.unlocked)
  BY <1>2, <1>6
<1> QED
  BY <1>4, <1>5, <1>6, <1>7, <1>8, <1>9, <1>10, BootStep

LEMMA BootLooks ==
  ASSUME BootInv, NEW c \in Conns, Boot!EnsureSharedObjects(c) \/ Boot!RunUpgrade(c)
  PROVE  BootInv'
<1>1. tx[c].op = "boot" /\ tx[c].at = "schema" /\ tx[c] \in BootCall /\ BootLocked(c, tx[c]) /\ db' = db
        /\ hist' = hist
  BY BootTx DEF Boot!EnsureSharedObjects, Boot!RunUpgrade, Boot!At
<1>2. PICK h \in BOOLEAN : h = tx[c].held
  BY <1>1 DEF BootCall
<1>3. CASE Boot!EnsureSharedObjects(c)
  <2>1. PICK t : t = [op |-> "boot", at |-> "create", held |-> h, saw |-> Tables \ db.tables, failed |-> FALSE]
    OBVIOUS
  <2>2. tx' = [tx EXCEPT ![c] = t] /\ ~Boot!Alembic
    BY <1>2, <1>3, <2>1 DEF Boot!EnsureSharedObjects, Boot!Continue, Boot!Booting
  <2>3. t \in BootRuns /\ t.op = "boot" /\ t.at = "create" /\ t.held = h /\ t.saw = Tables \ db.tables
    BY <2>1 DEF BootRuns, BootCall, BootSteps
  <2>4. BootReached(t) /\ BootLocked(c, t)
    BY <1>1, <1>2, <2>2, <2>3 DEF BootReached, BootLocked, BootInv, BootSchema
  <2> QED
    BY <1>1, <2>2, <2>3, <2>4, BootGoes
<1>4. CASE Boot!RunUpgrade(c)
  <2>1. PICK s \in SUBSET Tables : s = IF db.head THEN {} ELSE Tables
    OBVIOUS
  <2>2. PICK t : t = [op |-> "boot", at |-> "upgrade", held |-> h, saw |-> s, failed |-> FALSE]
    OBVIOUS
  <2>3. tx' = [tx EXCEPT ![c] = t] /\ Boot!Alembic
    BY <1>2, <1>4, <2>1, <2>2 DEF Boot!RunUpgrade, Boot!Continue, Boot!Booting
  <2>4. t \in BootRuns /\ t.op = "boot" /\ t.at = "upgrade" /\ t.held = h /\ t.saw = s
    BY <2>2 DEF BootRuns, BootCall, BootSteps
  <2>5. s = {} => db.head
    BY <2>1, PlatformAssumption
  <2>6. BootReached(t) /\ BootLocked(c, t)
    BY <1>1, <1>2, <2>3, <2>4, <2>5 DEF BootReached, BootLocked
  <2> QED
    BY <1>1, <2>3, <2>4, <2>6, BootGoes
<1> QED
  BY <1>3, <1>4

\* A step that leaves the lock alone.
LEMMA BootKeeps ==
  ASSUME BootInv, NEW c \in Conns, NEW t \in BootRuns, tx' = [tx EXCEPT ![c] = t], db' \in BootDb, hist' = hist,
         BootSchema', db'.lock = db.lock, db'.channel = db.channel, db'.large = db.large, db'.hard \subseteq db.hard,
         db.head => db'.head, db.seeded => db'.seeded, BootMade => BootMade',
         BootReached(t)', BootLocked(c, t)
  PROVE  BootInv'
<1>1. BootLocked(c, t)'
  BY DEF BootLocked
<1> QED
  BY <1>1, BootFields, BootStep

\* The whole schema is there.
LEMMA BootCompletes ==
  ASSUME BootInv, BootMade', db'.warned \cap db.large = {}, Boot!Alembic => db'.warned = {}, db'.channel = db.channel,
         db'.large = db.large, db'.hard \subseteq db.hard,
         db'.seeded = db.seeded, db'.ready = db.ready
  PROVE  BootSchema'
<1>1. (Boot!Alembic' <=> Boot!Alembic) /\ (BootGranted' <=> BootGranted)
  BY DEF Boot!Alembic, BootGranted
<1>2. db.hard \subseteq Tables /\ db.large \subseteq Tables
  BY BootFields
<1> QED
  BY <1>1, <1>2 DEF BootInv, BootSchema, BootMade

LEMMA BootAdds == ASSUME BootInv, NEW c \in Conns, NEW t \in Tables, Boot!AddColumnOnline(c, t) PROVE BootInv'
<1>1. /\ t \in db.large /\ tx' = tx /\ hist' = hist
      /\ db' = [db EXCEPT !.columns = db.columns \cup {t}, !.hard = db.hard \ {t}]
  BY DEF Boot!AddColumnOnline, Boot!AtOnce
<1>2. PICK r \in BootRuns : r = tx[c]
  BY BootTx
<1>3. tx' = [tx EXCEPT ![c] = r]
  BY <1>1, <1>2 DEF BootInv, BootTyped
<1>4. db.columns \cup {t} \subseteq Tables /\ db.hard \ {t} \subseteq Tables
  BY BootFields
<1>5. /\ db' \in BootDb /\ db'.channel = db.channel /\ db'.large = db.large /\ db'.hard = db.hard \ {t}
      /\ db'.warned = db.warned
      /\ db'.tables = db.tables /\ db'.columns = db.columns \cup {t} /\ db'.shared = db.shared /\ db'.head = db.head
      /\ db'.seeded = db.seeded /\ db'.ready = db.ready /\ db'.lock = db.lock
  BY <1>1, <1>4, BootFields DEF BootDb
<1>w. t \notin db.warned
  BY <1>1 DEF BootInv, BootSchema
<1>6. BootMade => BootMade'
  BY <1>5, <1>w DEF BootMade
<1>7. (Boot!Alembic' <=> Boot!Alembic) /\ (BootGranted' <=> BootGranted)
  BY <1>5 DEF Boot!Alembic, BootGranted
<1>8. BootSchema'
  BY <1>1, <1>5, <1>6, <1>7 DEF BootInv, BootSchema
<1>9. BootReached(r)'
  BY <1>2, <1>5, <1>6, BootTx, BootGrows
<1>10. BootLocked(c, r)
  BY <1>2, BootTx
<1> QED
  BY <1>1, <1>3, <1>5, <1>6, <1>8, <1>9, <1>10, BootKeeps

\* create_all: what it saw missing it makes, the columns it may add it adds.
LEMMA BootCreates == ASSUME BootInv, NEW c \in Conns, Boot!CreateAll(c) PROVE BootInv'
<1>1. /\ tx[c].op = "boot" /\ tx[c].at = "create" /\ tx[c] \in BootCall /\ BootLocked(c, tx[c]) /\ BootReached(tx[c])
      /\ hist' = hist /\ ~Boot!TooLarge(tx[c].saw)
  BY BootTx DEF Boot!CreateAll, Boot!At
<1>2. PICK next : next = IF db.channel = "create_all" THEN "caggs" ELSE "release"
  OBVIOUS
<1>3. PICK t : t = [tx[c] EXCEPT !.at = next]
  OBVIOUS
<1>f. PICK failed \in SUBSET (Boot!Additive(tx[c].saw) \ db.columns) :
        db' = [db EXCEPT !.tables = Tables, !.shared = TRUE, !.warned = failed,
                         !.columns = db.columns \cup tx[c].saw \cup (Boot!Additive(tx[c].saw) \ failed)]
  BY DEF Boot!CreateAll
<1>4. PICK cols : cols = db.columns \cup tx[c].saw \cup (Boot!Additive(tx[c].saw) \ failed)
  OBVIOUS
<1>5. /\ tx' = [tx EXCEPT ![c] = t]
      /\ db' = [db EXCEPT !.tables = Tables, !.shared = TRUE, !.warned = failed, !.columns = cols]
  BY <1>2, <1>3, <1>4, <1>f DEF Boot!CreateAll, Boot!Go, Boot!Continue
<1>6. next \in {"caggs", "release"} /\ next \in BootSteps
  BY <1>2 DEF BootSteps
<1>7. t \in BootCall /\ t \in BootRuns /\ t.op = "boot" /\ t.at = next
  BY <1>1, <1>3, <1>6 DEF BootCall, BootRuns
<1>8. tx[c].saw \subseteq Tables /\ ~Boot!Alembic /\ tx[c].saw \cap (db.hard \cup db.large) = {}
  BY <1>1 DEF BootReached, BootCall
<1>9. cols = Tables \ (db.hard \cup failed)
  <2>1. (db.large \ tx[c].saw) \subseteq db.columns
    BY <1>1 DEF Boot!TooLarge
  <2>2. db.columns \subseteq Tables /\ db.columns \cap db.hard = {}
    BY BootFields DEF BootInv, BootSchema
  <2> QED
    BY <1>4, <1>8, <2>1, <2>2 DEF Boot!Additive
<1>10. cols \subseteq Tables /\ Tables \subseteq Tables /\ failed \subseteq Tables /\ failed \cap db.large = {}
  BY <1>9 DEF Boot!Additive
<1>11. /\ db' \in BootDb /\ db'.channel = db.channel /\ db'.large = db.large /\ db'.hard = db.hard
       /\ db'.warned = failed
       /\ db'.tables = Tables /\ db'.columns = cols /\ db'.shared = TRUE /\ db'.head = db.head
       /\ db'.seeded = db.seeded /\ db'.ready = db.ready /\ db'.lock = db.lock
  BY <1>5, <1>10, BootFields DEF BootDb
<1>12. BootMade'
  BY <1>9, <1>11 DEF BootMade
<1>13. BootSchema'
  BY <1>8, <1>10, <1>11, <1>12, BootCompletes
<1>14. BootReached(t)'
  <2>1. db.channel # "alembic"
    BY <1>8 DEF Boot!Alembic
  <2> QED
    BY <1>2, <1>6, <1>7, <1>11, <1>12, <2>1 DEF BootReached
<1>15. BootLocked(c, t)
  <2>1. t.held = tx[c].held
    BY <1>1, <1>3 DEF BootCall
  <2> QED
    BY <1>1, <1>6, <1>7, <2>1 DEF BootLocked
<1> QED
  BY <1>1, <1>5, <1>7, <1>11, <1>12, <1>13, <1>14, <1>15, BootKeeps

\* The migrations end with the last version, by the process or by a thread
\* that it left behind.
LEMMA BootMigrates ==
  ASSUME BootInv, NEW c \in Conns, NEW t \in BootRuns, tx' = [tx EXCEPT ![c] = t], hist' = hist, Boot!Alembic,
         db' = [db EXCEPT !.tables = Tables, !.shared = TRUE, !.columns = Tables, !.head = TRUE],
         BootMade' => BootReached(t)', BootLocked(c, t)
  PROVE  BootInv'
<1>1. db.hard = {} /\ db.warned = {}
  BY DEF BootInv, BootSchema
<1>2. Tables \subseteq Tables
  OBVIOUS
<1>3. /\ db' \in BootDb /\ db'.channel = db.channel /\ db'.large = db.large /\ db'.hard = db.hard
      /\ db'.warned = db.warned
      /\ db'.tables = Tables /\ db'.columns = Tables /\ db'.shared = TRUE /\ db'.head = TRUE
      /\ db'.seeded = db.seeded /\ db'.ready = db.ready /\ db'.lock = db.lock
  BY <1>2, BootFields DEF BootDb
<1>4. BootMade'
  BY <1>1, <1>3 DEF BootMade
<1>5. BootSchema'
  BY <1>1, <1>3, <1>4, BootCompletes
<1> QED
  BY <1>3, <1>4, <1>5, BootKeeps

LEMMA BootUpgrades == ASSUME BootInv, NEW c \in Conns, Boot!Upgrade(c) PROVE BootInv'
<1>1. /\ tx[c].op = "boot" /\ tx[c].at = "upgrade" /\ tx[c] \in BootCall /\ BootLocked(c, tx[c]) /\ BootReached(tx[c])
      /\ hist' = hist
  BY BootTx DEF Boot!Upgrade, Boot!At
<1>2. PICK next : next = IF db.channel = "alembic" THEN "caggs" ELSE "release"
  OBVIOUS
<1>3. PICK t : t = [tx[c] EXCEPT !.at = next]
  OBVIOUS
<1>4. tx' = [tx EXCEPT ![c] = t]
  BY <1>2, <1>3 DEF Boot!Upgrade, Boot!Go, Boot!Continue
<1>5. next \in {"caggs", "release"} /\ next \in BootSteps
  BY <1>2 DEF BootSteps
<1>6. t \in BootCall /\ t \in BootRuns /\ t.op = "boot" /\ t.at = next /\ t.held = tx[c].held
  BY <1>1, <1>3, <1>5 DEF BootCall, BootRuns
<1>7. Boot!Alembic /\ (tx[c].saw = {} => db.head)
  BY <1>1 DEF BootReached
<1>8. BootLocked(c, t)
  BY <1>1, <1>5, <1>6 DEF BootLocked
<1>9. CASE tx[c].saw = {}
  <2>1. db' = db
    BY <1>9 DEF Boot!Upgrade
  <2>2. BootMade
    BY <1>7, <1>9 DEF BootInv, BootSchema
  <2>3. BootReached(t)
    BY <1>2, <1>5, <1>6, <2>2 DEF BootReached
  <2> QED
    BY <1>1, <1>4, <1>6, <1>8, <2>1, <2>3, BootGoes
<1>10. CASE tx[c].saw # {}
  <2>1. db' = [db EXCEPT !.tables = Tables, !.shared = TRUE, !.columns = Tables, !.head = TRUE]
    BY <1>10 DEF Boot!Upgrade, Boot!Migrated
  <2>2. db'.channel = db.channel
    BY <2>1, BootFields DEF BootDb
  <2>3. BootMade' => BootReached(t)'
    BY <1>2, <1>5, <1>6, <2>2 DEF BootReached
  <2> QED
    BY <1>1, <1>4, <1>6, <1>7, <1>8, <2>1, <2>3, BootMigrates
<1> QED
  BY <1>9, <1>10

\* Continuous aggregates and grants.
LEMMA BootFills == ASSUME BootInv, NEW c \in Conns, Boot!EnsureCaggs(c) \/ Boot!SeedBaseData(c) PROVE BootInv'
<1>1. /\ tx[c].op = "boot" /\ tx[c].at \in {"caggs", "seed"} /\ tx[c] \in BootCall /\ BootLocked(c, tx[c])
      /\ BootReached(tx[c]) /\ hist' = hist
  BY BootTx DEF Boot!EnsureCaggs, Boot!SeedBaseData, Boot!At
<1>2. PICK next : /\ next \in {"release", "flag", "seed"} /\ tx' = [tx EXCEPT ![c] = [tx[c] EXCEPT !.at = next]]
                  /\ Boot!EnsureCaggs(c) => next = IF db.channel = "alembic" THEN "seed" ELSE "release"
                  /\ ~Boot!EnsureCaggs(c) => next = IF db.channel = "alembic" THEN "release" ELSE "flag"
  <2>1. CASE Boot!EnsureCaggs(c)
    BY <2>1 DEF Boot!EnsureCaggs, Boot!Go, Boot!Continue
  <2>2. CASE ~Boot!EnsureCaggs(c)
    BY <2>2 DEF Boot!SeedBaseData, Boot!Go, Boot!Continue
  <2> QED
    BY <2>1, <2>2
<1>3. PICK t : t = [tx[c] EXCEPT !.at = next]
  OBVIOUS
<1>4. t \in BootRuns /\ t.op = "boot" /\ t.at = next /\ t.held = tx[c].held
  BY <1>1, <1>2, <1>3 DEF BootCall, BootRuns, BootSteps
<1>5. BootMade /\ db.channel \in {"create_all", "alembic"}
  BY <1>1 DEF BootReached
<1>6. BootLocked(c, t)
  BY <1>1, <1>2, <1>4 DEF BootLocked
<1>7. PICK a \in BOOLEAN, s \in BOOLEAN :
        db' = [db EXCEPT !.caggs = a, !.seeded = s] /\ (db.seeded => s) /\ (~Boot!EnsureCaggs(c) => s)
  <2>0. db.caggs \in BOOLEAN /\ db.seeded \in BOOLEAN /\ db = [db EXCEPT !.caggs = db.caggs, !.seeded = db.seeded]
        /\ [db EXCEPT !.caggs = TRUE] = [db EXCEPT !.caggs = TRUE, !.seeded = db.seeded]
        /\ [db EXCEPT !.seeded = TRUE] = [db EXCEPT !.caggs = db.caggs, !.seeded = TRUE]
    BY BootFields DEF BootDb
  <2>1. CASE Boot!EnsureCaggs(c)
    <3>1. CASE db' = db
      BY <2>0, <2>1, <3>1
    <3>2. CASE db' = [db EXCEPT !.caggs = TRUE]
      BY <2>0, <2>1, <3>2
    <3> QED
      BY <2>1, <3>1, <3>2 DEF Boot!EnsureCaggs
  <2>2. CASE ~Boot!EnsureCaggs(c)
    <3>1. db' = [db EXCEPT !.seeded = TRUE]
      BY <2>2 DEF Boot!SeedBaseData
    <3> QED
      BY <2>0, <2>2, <3>1
  <2> QED
    BY <2>1, <2>2
<1>8. /\ db' \in BootDb /\ db'.channel = db.channel /\ db'.large = db.large /\ db'.hard = db.hard
      /\ db'.warned = db.warned
      /\ db'.tables = db.tables
      /\ db'.columns = db.columns /\ db'.shared = db.shared /\ db'.head = db.head /\ db'.seeded = s
      /\ db'.ready = db.ready /\ db'.lock = db.lock
  BY <1>7, BootFields DEF BootDb
<1>9. BootSchema' /\ (BootMade => BootMade') /\ (db.head => db'.head) /\ db'.hard \subseteq db.hard
  BY <1>7, <1>8, BootSame
<1>10. BootReached(t)'
  <2>1. CASE Boot!EnsureCaggs(c)
    BY <1>2, <1>4, <1>5, <1>8, <1>9, <2>1 DEF BootReached
  <2>2. CASE ~Boot!EnsureCaggs(c)
    <3>1. BootGranted' /\ db'.seeded
      BY <1>7, <1>8, <2>2 DEF BootGranted
    <3> QED
      BY <1>2, <1>4, <1>5, <1>8, <1>9, <2>2, <3>1 DEF BootReached
  <2> QED
    BY <2>1, <2>2
<1>11. tx' = [tx EXCEPT ![c] = t]
  BY <1>2, <1>3
<1> QED
  BY <1>1, <1>4, <1>6, <1>7, <1>8, <1>9, <1>10, <1>11, BootKeeps

\* Giving the lock back takes it from nobody else.
LEMMA BootReleased ==
  ASSUME BootInv, NEW c \in Conns, db' = Boot!Released(c, db)
  PROVE  /\ db' \in BootDb /\ db'.channel = db.channel /\ db'.large = db.large /\ db'.hard = db.hard
         /\ db'.warned = db.warned
         /\ db'.tables = db.tables /\ db'.columns = db.columns /\ db'.shared = db.shared /\ db'.head = db.head
         /\ db'.seeded = db.seeded /\ db'.ready = db.ready
         /\ \A o \in Conns \ {c} : db.lock = o => db'.lock = o
<1>1. CASE tx[c].held /\ db.lock = c
  <2>1. db' = [db EXCEPT !.lock = NoConn]
    BY <1>1 DEF Boot!Released, Boot!Mine
  <2> QED
    BY <1>1, <2>1, BootFields DEF BootDb
<1>2. CASE ~(tx[c].held /\ db.lock = c)
  <2>1. db' = db
    BY <1>2 DEF Boot!Released, Boot!Mine
  <2> QED
    BY <2>1, BootFields
<1> QED
  BY <1>1, <1>2

LEMMA BootReleases == ASSUME BootInv, NEW c \in Conns, Boot!ReleaseLock(c) PROVE BootInv'
<1>1. /\ tx[c].op = "boot" /\ tx[c].at = "release" /\ tx[c] \in BootCall /\ BootReached(tx[c])
      /\ hist' = hist /\ db' = Boot!Released(c, db)
  BY BootTx DEF Boot!ReleaseLock, Boot!At
<1>2. PICK next : next = IF tx[c].failed THEN "lock" ELSE IF db.channel = "create_all" THEN "seed" ELSE "flag"
  OBVIOUS
<1>3. PICK t : t = [op |-> "boot", at |-> next, held |-> FALSE, saw |-> {}, failed |-> FALSE]
  OBVIOUS
<1>4. tx' = [tx EXCEPT ![c] = t]
  BY <1>2, <1>3 DEF Boot!ReleaseLock, Boot!Continue, Boot!Booting
<1>5. CASE tx[c].failed
  <2>1. next = "lock"
    BY <1>2, <1>5
  <2>2. t \in BootRuns /\ t.op = "boot" /\ t.at = "lock" /\ t.held = FALSE
    BY <1>3, <2>1 DEF BootRuns, BootCall, BootSteps
  <2>3. BootReached(t)' /\ BootLocked(c, t)'
    BY <2>2 DEF BootReached, BootLocked
  <2>4. BootSchema' /\ (BootMade => BootMade') /\ (db.head => db'.head) /\ db'.hard \subseteq db.hard
    BY <1>1, BootReleased, BootSame
  <2> QED
    BY <1>1, <1>4, <2>2, <2>3, <2>4, BootFields, BootReleased, BootStep
<1>6. CASE ~tx[c].failed
  <2>1. next = IF db.channel = "create_all" THEN "seed" ELSE "flag"
    BY <1>2, <1>6
  <2>2. next \in {"seed", "flag"}
    BY <2>1
  <2>3. t \in BootRuns /\ t.op = "boot" /\ t.at = next /\ t.held = FALSE
    BY <1>3, <2>2 DEF BootRuns, BootCall, BootSteps
  <2>4. BootSchema' /\ (BootMade => BootMade') /\ (db.head => db'.head) /\ db'.hard \subseteq db.hard
    BY <1>1, BootReleased, BootSame
  <2>5. BootMade /\ (db.channel = "alembic" => db.seeded)
    BY <1>1, <1>6 DEF BootReached
  <2>6. db'.channel = db.channel /\ db'.seeded = db.seeded /\ BootMade'
    BY <1>1, <2>4, <2>5, BootReleased
  <2>7. BootReached(t)'
    BY <2>1, <2>2, <2>3, <2>5, <2>6 DEF BootReached, BootGranted
  <2>8. BootLocked(c, t)'
    BY <2>2, <2>3 DEF BootLocked
  <2> QED
    BY <1>1, <1>4, <2>3, <2>4, <2>7, <2>8, BootFields, BootReleased, BootStep
<1> QED
  BY <1>5, <1>6

\* A failed attempt begins anew, with the lock given back first.
LEMMA BootFails == ASSUME BootInv, NEW c \in Conns, Boot!StepFails(c) PROVE BootInv'
<1>1. tx[c].op = "boot" /\ tx[c] \in BootCall /\ BootLocked(c, tx[c]) /\ db' = db /\ hist' = hist
  BY BootTx DEF Boot!StepFails
<1>2. CASE tx[c].held
  <2>1. PICK t : t = [tx[c] EXCEPT !.at = "release", !.failed = TRUE]
    OBVIOUS
  <2>2. tx' = [tx EXCEPT ![c] = t]
    BY <1>2, <2>1 DEF Boot!StepFails, Boot!Continue
  <2>3. t \in BootRuns /\ t.op = "boot" /\ t.at = "release" /\ t.failed = TRUE /\ t.held = tx[c].held
    BY <1>1, <2>1 DEF BootRuns, BootCall, BootSteps
  <2>4. BootReached(t) /\ BootLocked(c, t)
    BY <1>1, <2>3 DEF BootReached, BootLocked
  <2> QED
    BY <1>1, <2>2, <2>3, <2>4, BootGoes
<1>3. CASE ~tx[c].held
  <2>1. PICK t : t = [op |-> "boot", at |-> "lock", held |-> FALSE, saw |-> {}, failed |-> FALSE]
    OBVIOUS
  <2>2. tx' = [tx EXCEPT ![c] = t]
    BY <1>3, <2>1 DEF Boot!StepFails, Boot!Continue, Boot!Booting
  <2>3. t \in BootRuns /\ t.op = "boot" /\ t.at = "lock" /\ t.held = FALSE
    BY <2>1 DEF BootRuns, BootCall, BootSteps
  <2>4. BootReached(t) /\ BootLocked(c, t)
    BY <2>3 DEF BootReached, BootLocked
  <2> QED
    BY <1>1, <2>2, <2>3, <2>4, BootGoes
<1> QED
  BY <1>2, <1>3

LEMMA BootIdles == Boot!Idle \in BootRuns /\ \A c : BootReached(Boot!Idle) /\ BootLocked(c, Boot!Idle)
  BY DEF BootRuns, Boot!Idle, BootReached, BootLocked

LEMMA BootIdled == ASSUME NEW c PROVE (BootReached(Boot!Idle) /\ BootLocked(c, Boot!Idle))'
  BY DEF Boot!Idle, BootReached, BootLocked

\* Ready only at the end.
LEMMA BootReady == ASSUME BootInv, NEW c \in Conns, Boot!SetInitialized(c) PROVE BootInv'
<1>1. /\ tx[c].op = "boot" /\ tx[c].at = "flag" /\ BootReached(tx[c]) /\ hist' = hist
      /\ db' = [db EXCEPT !.ready = db.ready \cup {c}] /\ tx' = [tx EXCEPT ![c] = Boot!Idle]
  BY BootTx DEF Boot!SetInitialized, Boot!Flagged, Boot!At, Boot!Finish, Boot!Continue
<1>2. BootMade /\ BootGranted
  BY <1>1 DEF BootReached
<1>3. db.ready \cup {c} \subseteq Conns
  BY BootFields
<1>4. /\ db' \in BootDb /\ db'.channel = db.channel /\ db'.large = db.large /\ db'.hard = db.hard
      /\ db'.warned = db.warned
      /\ db'.tables = db.tables
      /\ db'.columns = db.columns /\ db'.shared = db.shared /\ db'.head = db.head /\ db'.seeded = db.seeded
      /\ db'.lock = db.lock
  BY <1>1, <1>3, BootFields DEF BootDb
<1>5. BootSchema' /\ (BootMade => BootMade') /\ (db.head => db'.head) /\ db'.hard \subseteq db.hard
  BY <1>2, <1>4, BootSame
<1> QED
  BY <1>1, <1>4, <1>5, BootIdles, BootIdled, BootKeeps

LEMMA BootCrashes == ASSUME BootInv, NEW c \in Conns, Boot!Crash(c) PROVE BootInv'
<1>1. db' = [db EXCEPT !.ready = db.ready \ {c}] /\ tx' = [tx EXCEPT ![c] = Boot!Idle] /\ hist' = hist
  BY DEF Boot!Crash, Boot!Finish, Boot!Continue
<1>2. db.ready \ {c} \subseteq Conns
  BY BootFields
<1>3. /\ db' \in BootDb /\ db'.channel = db.channel /\ db'.large = db.large /\ db'.hard = db.hard
      /\ db'.warned = db.warned
      /\ db'.tables = db.tables
      /\ db'.columns = db.columns /\ db'.shared = db.shared /\ db'.head = db.head /\ db'.seeded = db.seeded
      /\ db'.ready = db.ready \ {c} /\ db'.lock = db.lock
  BY <1>1, <1>2, BootFields DEF BootDb
<1>4. BootSchema' /\ (BootMade => BootMade') /\ (db.head => db'.head) /\ db'.hard \subseteq db.hard
  BY <1>3, BootSame
<1> QED
  BY <1>1, <1>3, <1>4, BootIdles, BootIdled, BootKeeps

\* The end of a process leaves, at most, a thread.
LEMMA BootStops == ASSUME BootInv, NEW c \in Conns, Boot!Shutdown(c) PROVE BootInv'
<1>1. /\ tx[c].op = "boot" /\ tx[c] \in BootCall /\ BootReached(tx[c]) /\ db' = Boot!Released(c, db)
  BY BootTx DEF Boot!Shutdown
<1>2. BootSchema' /\ (BootMade => BootMade') /\ (db.head => db'.head) /\ db'.hard \subseteq db.hard
  BY <1>1, BootReleased, BootSame
<1>3. CASE tx[c].at = "upgrade"
  <2>1. PICK t : t = [op |-> "thread", saw |-> tx[c].saw]
    OBVIOUS
  <2>2. tx' = [tx EXCEPT ![c] = t] /\ hist' = [hist EXCEPT !.unlocked = hist.unlocked \cup {c}]
    BY <1>3, <2>1 DEF Boot!Shutdown, Boot!Continue
  <2>3. t \in BootRuns /\ t.op = "thread"
    BY <1>1, <2>1 DEF BootRuns, BootCall, BootThread
  <2>4. hist' \in [unlocked : SUBSET Conns] /\ hist'.unlocked = hist.unlocked \cup {c}
    BY <2>2, BootFields
  <2>5. Boot!Alembic /\ db'.channel = db.channel
    BY <1>1, <1>3, BootReleased DEF BootReached
  <2>6. BootReached(t)' /\ BootLocked(c, t)'
    BY <2>3, <2>4, <2>5 DEF BootReached, BootLocked, Boot!Alembic
  <2> QED
    BY <1>1, <1>2, <2>2, <2>3, <2>4, <2>6, BootReleased, BootStep
<1>4. CASE tx[c].at # "upgrade"
  <2>1. tx' = [tx EXCEPT ![c] = Boot!Idle] /\ hist' = hist
    BY <1>4 DEF Boot!Shutdown, Boot!Finish, Boot!Continue
  <2> QED
    BY <1>1, <1>2, <2>1, BootIdles, BootIdled, BootFields, BootReleased, BootStep
<1> QED
  BY <1>3, <1>4

LEMMA BootThreads == ASSUME BootInv, NEW c \in Conns, Boot!ThreadEnds(c) PROVE BootInv'
<1>1. Boot!Alembic /\ tx' = [tx EXCEPT ![c] = Boot!Idle] /\ hist' = hist
  BY BootTx DEF Boot!ThreadEnds, Boot!Finish, Boot!Continue, BootReached
<1>2. CASE db' = db
  BY <1>1, <1>2, BootIdles, BootGoes
<1>3. CASE db' = [db EXCEPT !.tables = Tables, !.shared = TRUE, !.columns = Tables, !.head = TRUE]
  BY <1>1, <1>3, BootIdles, BootIdled, BootMigrates
<1> QED
  BY <1>2, <1>3 DEF Boot!ThreadEnds, Boot!Migrated

LEMMA BootInit == Boot!Init => BootInv
<1> SUFFICES ASSUME Boot!Init PROVE BootInv
  OBVIOUS
<1>1. PICK channel \in Boot!Channels, old \in SUBSET Tables, large \in SUBSET Tables, hard \in SUBSET Tables :
        /\ large \cup hard \subseteq old
        /\ channel # "create_all" => large \cup hard = {}
        /\ db = [channel |-> channel, tables |-> old, columns |-> {}, large |-> large, hard |-> hard, warned |-> {},
                 head |-> FALSE, shared |-> FALSE, caggs |-> FALSE, seeded |-> FALSE,
                 lock |-> NoConn, ready |-> {}]
  BY DEF Boot!Init
<1>2. hist = [unlocked |-> {}] /\ tx = [c \in Conns |-> Boot!Idle]
  BY DEF Boot!Init, Boot!Resting
<1>3. db \in BootDb
  <2>1. {} \subseteq Tables /\ {} \subseteq Conns
    OBVIOUS
  <2> QED
    BY <1>1, <2>1 DEF BootDb
<1>4. BootTyped
  BY <1>2, <1>3, BootIdles DEF BootTyped
<1>5. BootSchema
  BY <1>1 DEF BootSchema, Boot!Alembic
<1> QED
  BY <1>2, <1>4, <1>5, BootIdles DEF BootInv

LEMMA BootNext == BootInv /\ Boot!Next => BootInv'
<1> SUFFICES ASSUME BootInv, Boot!Next PROVE BootInv'
  OBVIOUS
<1>1. CASE Boot!LockExpires
  BY <1>1, BootExpires
<1>2. ASSUME NEW c \in Conns, Boot!Bootstrap(c) \/ \E t \in Tables : Boot!AddColumnOnline(c, t) PROVE BootInv'
  BY <1>2, BootBegins, BootAdds
<1>3. ASSUME NEW c \in Conns, Boot!AcquireMigrationLock(c) \/ Boot!WaitForLock(c) PROVE BootInv'
  BY <1>3, BootLocks
<1>4. ASSUME NEW c \in Conns, Boot!EnsureSharedObjects(c) \/ Boot!RunUpgrade(c) PROVE BootInv'
  BY <1>4, BootLooks
<1>5. ASSUME NEW c \in Conns, Boot!CreateAll(c) \/ Boot!Upgrade(c) PROVE BootInv'
  BY <1>5, BootCreates, BootUpgrades
<1>6. ASSUME NEW c \in Conns, Boot!EnsureCaggs(c) \/ Boot!SeedBaseData(c) PROVE BootInv'
  BY <1>6, BootFills
<1>7. ASSUME NEW c \in Conns, Boot!ReleaseLock(c) \/ Boot!StepFails(c) PROVE BootInv'
  BY <1>7, BootReleases, BootFails
<1>8. ASSUME NEW c \in Conns, Boot!SetInitialized(c) \/ Boot!Shutdown(c) PROVE BootInv'
  BY <1>8, BootReady, BootStops
<1>9. ASSUME NEW c \in Conns, Boot!ThreadEnds(c) \/ Boot!Crash(c) PROVE BootInv'
  BY <1>9, BootThreads, BootCrashes
<1> QED
  BY <1>1, <1>2, <1>3, <1>4, <1>5, <1>6, <1>7, <1>8, <1>9, Zenon DEF Boot!Next

LEMMA BootStays == BootInv /\ UNCHANGED <<db, tx, hist, left>> => BootInv'
  BY DEF BootInv, BootTyped, BootSchema, BootReached, BootLocked, BootMade, BootGranted, Boot!Alembic

LEMMA BootKept == BootInv => Boot!StartupSound
<1> SUFFICES ASSUME BootInv PROVE Boot!StartupSound
  OBVIOUS
<1>1. Boot!ReadyComplete
  BY DEF BootInv, BootSchema, BootMade, BootGranted, Boot!ReadyComplete
<1>2. Boot!HolderHolds
  BY DEF BootInv, BootLocked, Boot!HolderHolds
<1>3. Boot!Migrating \ hist.unlocked \subseteq {db.lock}
  BY DEF BootInv, BootLocked, Boot!Migrating, Boot!At
<1>4. Cardinality(Boot!Migrating \ hist.unlocked) <= 1
  <2>1. IsFiniteSet({db.lock}) /\ Cardinality({db.lock}) = 1
    BY FS_Singleton
  <2>2. /\ Cardinality(Boot!Migrating \ hist.unlocked) \in Nat
        /\ Cardinality(Boot!Migrating \ hist.unlocked) <= Cardinality({db.lock})
    BY <1>3, <2>1, FS_Subset, FS_CardinalityType
  <2> QED
    BY <2>1, <2>2
<1>5. Boot!OneMigrator
  BY <1>4, SameCardinality DEF Boot!OneMigrator
<1> QED
  BY <1>1, <1>2, <1>5 DEF Boot!StartupSound

-----------------------------------------------------------------------------
(* The copy of the users for reports                                       *)

DimRow == [v : Nat, p : Nat, at : Nat]
DimFroms == {"event", "ids", "incremental", "reconcile", "flow", "unlocked", "unlockedflow"}
DimUser == [op : {"user"}, u : DimUsers, at : Nat]
DimScan == [op : {"scan"}, from : DimFroms, seen : [DimUsers -> Nat]]
DimLoad == [op : {"sync"}, at : {"load"}, from : DimFroms, ids : SUBSET DimUsers]
DimRead ==
  {t \in [op : {"sync"}, at : {"stamp"}, from : DimFroms, ids : SUBSET DimUsers,
          rows : UNION {[S -> DimRow] : S \in SUBSET DimUsers}] : t.rows \in [t.ids -> DimRow]}
DimWrite ==
  {t \in [op : {"sync"}, at : {"write"}, from : DimFroms, ids : SUBSET DimUsers,
          rows : UNION {[S -> DimRow] : S \in SUBSET DimUsers}, ts : Nat, hides : SUBSET DimUsers] :
     t.rows \in [t.ids -> DimRow]}
DimRelease == [op : {"release"}, at : {"get", "del", "end"}, again : BOOLEAN]
DimRound == {[op |-> "round"]}
DimRuns == {Dim!Idle} \cup DimUser \cup DimScan \cup DimLoad \cup DimRead \cup DimWrite \cup DimRelease \cup DimRound

DimDb ==
  [src : [DimUsers -> DimRow], dim : [DimUsers -> [v : Nat, p : Nat, ts : Nat]], clock : Nat,
   events : [DimUsers -> Nat], lock : Conns \cup {NoConn}]
DimHist == [masked : SUBSET DimUsers, older : SUBSET DimUsers, unsent : SUBSET DimUsers, expired : SUBSET Conns]

DimTyped == tx \in [Conns -> DimRuns] /\ db \in DimDb /\ hist \in DimHist

Flushed(o, u) == tx[o].op = "user" /\ tx[o].u = u
Writing(c, u) == tx[c].op = "sync" /\ tx[c].at = "write" /\ u \in tx[c].ids
Having(c, u) == tx[c].op = "sync" /\ tx[c].at \in {"stamp", "write"} /\ u \in tx[c].ids

\* An event that reads the user's row, or has read the profile as it is now.
Coming(c, u) ==
  /\ tx[c].op = "sync" /\ tx[c].from = "event" /\ u \in tx[c].ids
  /\ tx[c].at = "load" \/ tx[c].rows[u].p = db.src[u].p

\* A change of the profile of u is still announced, or is known to be lost.
Told(u) == db.events[u] > 0 \/ u \in hist.unsent \/ u \in hist.older \/ \E c \in Conns : Coming(c, u)

\* What the table lacks of u, the next scan finds, also what is flushed and
\* not yet committed; a profile it lacks is announced.
DimLacks(u) ==
  /\ db.dim[u].ts <= db.clock
  /\ db.dim[u].v # db.src[u].v => db.src[u].at > db.dim[u].ts \/ u \in hist.masked
  /\ \A o \in Conns : Flushed(o, u) => tx[o].at > db.dim[u].ts \/ u \in hist.masked
  /\ db.dim[u].p # db.src[u].p /\ ~Dim!Missing(u) => Told(u)

\* The same of the stamped rows that c is about to write, but for the changes
\* that it is known to hide.
DimCarries(c, u) ==
  /\ tx[c].ts <= db.clock
  /\ tx[c].rows[u].v # db.src[u].v => db.src[u].at > tx[c].ts \/ u \in tx[c].hides
  /\ \A o \in Conns : Flushed(o, u) => tx[o].at > tx[c].ts \/ u \in tx[c].hides

\* A profile that c has read, and that was changed since.
DimFound(c, u) ==
  /\ tx[c].rows[u].p <= db.src[u].p
  /\ tx[c].rows[u].p # db.src[u].p => Told(u) \/ tx[c].rows[u].p < db.dim[u].p

DimOwn(c, u) == (Writing(c, u) => DimCarries(c, u)) /\ (Having(c, u) => DimFound(c, u))

DimTable == \A u \in DimUsers : DimLacks(u)
DimFlight == \A c \in Conns, u \in DimUsers : DimOwn(c, u)

DimInv == DimTyped /\ DimTable /\ DimFlight /\ Dim!OneReconciler

LEMMA DimTx ==
  ASSUME DimTyped, NEW c \in Conns
  PROVE  /\ tx[c] \in DimRuns
         /\ tx[c].op = "user" => tx[c] \in DimUser
         /\ tx[c].op = "scan" => tx[c] \in DimScan
         /\ tx[c].op = "sync" => \/ tx[c].at = "load" /\ tx[c] \in DimLoad
                                 \/ tx[c].at = "stamp" /\ tx[c] \in DimRead
                                 \/ tx[c].at = "write" /\ tx[c] \in DimWrite
         /\ tx[c].op = "release" => tx[c] \in DimRelease
<1>1. tx[c] \in DimRuns
  BY DEF DimTyped
<1> QED
  BY <1>1 DEF DimRuns, Dim!Idle, DimUser, DimScan, DimLoad, DimRead, DimWrite, DimRelease, DimRound

LEMMA DimStep ==
  ASSUME DimTyped, NEW c \in Conns, NEW t \in DimRuns, tx' = [tx EXCEPT ![c] = t]
  PROVE  tx' \in [Conns -> DimRuns] /\ tx'[c] = t /\ \A d \in Conns \ {c} : tx'[d] = tx[d]
BY DEF DimTyped

\* What announces a profile of u goes on doing so.
LEMMA DimTells ==
  ASSUME DimTyped, NEW c \in Conns, NEW t \in DimRuns, tx' = [tx EXCEPT ![c] = t], NEW u \in DimUsers,
         db'.src[u].p = db.src[u].p, u \in hist.unsent => u \in hist'.unsent, u \in hist.older => u \in hist'.older,
         db.events[u] > 0 => db'.events[u] > 0 \/ Coming(c, u)',
         Coming(c, u) => Coming(c, u)' \/ u \in hist'.unsent \/ u \in hist'.older, Told(u)
  PROVE  Told(u)'
<1>1. \A d \in Conns \ {c} : tx'[d] = tx[d]
  BY DimStep
<1>2. \A d \in Conns \ {c} : Coming(d, u) => Coming(d, u)'
  BY <1>1 DEF Coming
<1> QED
  BY <1>2 DEF Told

\* Nothing is written or committed for u, and no row of it was read.
LEMMA DimSame ==
  ASSUME DimInv, NEW c \in Conns, NEW t \in DimRuns, tx' = [tx EXCEPT ![c] = t], NEW u \in DimUsers,
         db'.dim[u] = db.dim[u], db'.src[u] = db.src[u], db' \in DimDb, db'.clock >= db.clock,
         u \in hist.masked => u \in hist'.masked, Told(u) => Told(u)',
         t.op = "user" => t = tx[c] \/ t.at > db.clock
  PROVE  /\ DimLacks(u)'
         /\ \A d \in Conns : d # c \/ t = tx[c] => DimOwn(d, u)'
<1>1. tx'[c] = t /\ \A d \in Conns \ {c} : tx'[d] = tx[d]
  BY DimStep DEF DimInv
<1>2. DimLacks(u) /\ \A d \in Conns : DimOwn(d, u)
  BY DEF DimInv, DimTable, DimFlight
<1>3. db.clock \in Nat /\ db'.clock \in Nat /\ db.dim[u].ts \in Nat
  BY DEF DimInv, DimTyped, DimDb
<1>4. ASSUME NEW o \in Conns, Flushed(o, u)'
  PROVE (o = c /\ tx'[o].at > db.clock /\ tx'[o].at \in Nat) \/ (tx'[o] = tx[o] /\ Flushed(o, u))
  <2>1. t \in DimUser => t.at \in Nat
    BY DEF DimUser
  <2>2. t.op = "user" => t \in DimUser
    BY DEF DimRuns, Dim!Idle, DimUser, DimScan, DimLoad, DimRead, DimWrite, DimRelease, DimRound
  <2> QED
    BY <1>1, <1>4, <2>1, <2>2 DEF Flushed
<1>5. DimLacks(u)'
  <2>1. \A o \in Conns : Flushed(o, u)' => tx'[o].at > db'.dim[u].ts \/ u \in hist'.masked
    BY <1>2, <1>3, <1>4 DEF DimLacks
  <2> QED
    BY <1>2, <1>3, <2>1 DEF DimLacks, Dim!Missing
<1>6. ASSUME NEW d \in Conns, d # c \/ t = tx[c], Writing(d, u)' PROVE DimCarries(d, u)'
  <2>1. tx'[d] = tx[d] /\ Writing(d, u) /\ DimCarries(d, u)
    BY <1>1, <1>2, <1>6 DEF Writing, DimOwn
  <2>2. tx[d].ts \in Nat
    BY <2>1, DimTx DEF Writing, DimInv, DimWrite
  <2>3. \A o \in Conns : Flushed(o, u)' => tx'[o].at > tx'[d].ts \/ u \in tx'[d].hides
    BY <1>2, <1>3, <1>4, <2>1, <2>2 DEF DimCarries
  <2> QED
    BY <1>2, <1>3, <2>1, <2>2, <2>3 DEF DimCarries
<1>7. ASSUME NEW d \in Conns, d # c \/ t = tx[c], Having(d, u)' PROVE DimFound(d, u)'
  <2>1. tx'[d] = tx[d] /\ Having(d, u) /\ DimFound(d, u)
    BY <1>1, <1>2, <1>7 DEF Having, DimOwn
  <2> QED
    BY <2>1 DEF DimFound
<1> QED
  BY <1>5, <1>6, <1>7 DEF DimOwn

\* Most steps write and commit nothing.
LEMMA DimKeeps ==
  ASSUME DimInv, NEW c \in Conns, NEW t \in DimRuns, tx' = [tx EXCEPT ![c] = t], db' \in DimDb, hist' \in DimHist,
         db'.dim = db.dim, db'.src = db.src, db'.clock >= db.clock,
         hist.masked \subseteq hist'.masked, hist.older \subseteq hist'.older, hist.unsent \subseteq hist'.unsent,
         t = tx[c] \/ ~(t.op = "sync" /\ t.at \in {"stamp", "write"}), t.op = "user" => t = tx[c] \/ t.at > db.clock,
         \A u \in DimUsers : /\ db.events[u] > 0 => db'.events[u] > 0 \/ Coming(c, u)'
                             /\ Coming(c, u) => Coming(c, u)' \/ u \in hist'.unsent,
         Dim!OneReconciler'
  PROVE  DimInv'
<1>1. \A u \in DimUsers : Told(u) => Told(u)'
  BY DimTells DEF DimInv
<1>2. \A u \in DimUsers : DimLacks(u)' /\ \A d \in Conns : d # c \/ t = tx[c] => DimOwn(d, u)'
  BY <1>1, DimSame
<1>3. tx' \in [Conns -> DimRuns] /\ tx'[c] = t
  BY DimStep DEF DimInv
<1>4. \A u \in DimUsers : t # tx[c] => DimOwn(c, u)'
  BY <1>3 DEF DimOwn, Writing, Having
<1>5. DimTable' /\ DimFlight'
  BY <1>2, <1>4 DEF DimTable, DimFlight
<1> QED
  BY <1>3, <1>5 DEF DimInv, DimTyped

DimHolds(t) == t.op = "release" \/ (t.op \in {"scan", "sync"} /\ t.from \in Dim!Locked)

\* Who holds the lock, after a step of c.
LEMMA DimReconcilers ==
  ASSUME DimTyped, Dim!OneReconciler, NEW c \in Conns, NEW t \in DimRuns, tx' = [tx EXCEPT ![c] = t],
         \/ db'.lock = db.lock /\ hist.expired \subseteq hist'.expired /\ (DimHolds(t) => DimHolds(tx[c]))
         \/ db.lock = NoConn /\ db'.lock = c /\ hist'.expired = hist.expired \ {c}
  PROVE  Dim!OneReconciler'
<1>1. tx'[c] = t /\ \A d \in Conns \ {c} : tx'[d] = tx[d]
  BY DimStep
<1>2. \A d \in Conns : (d \in Dim!Running <=> DimHolds(tx[d])) /\ (d \in Dim!Running' <=> DimHolds(tx'[d]))
  BY DEF Dim!Running, DimHolds, Dim!Locked
<1>3. ASSUME NEW d \in Dim!Running' PROVE db'.lock = d \/ d \in hist'.expired
  <2>1. d \in Conns
    BY DEF Dim!Running
  <2>2. d # NoConn
    BY <2>1, PlatformAssumption
  <2>3. d # c => db.lock = d \/ d \in hist.expired
    BY <1>1, <1>2, <1>3, <2>1 DEF Dim!OneReconciler
  <2>4. CASE db'.lock = db.lock /\ hist.expired \subseteq hist'.expired /\ (DimHolds(t) => DimHolds(tx[c]))
    <3>1. db.lock = d \/ d \in hist.expired
      BY <1>1, <1>2, <1>3, <2>1, <2>3, <2>4 DEF Dim!OneReconciler
    <3> QED
      BY <2>4, <3>1
  <2>5. CASE db.lock = NoConn /\ db'.lock = c /\ hist'.expired = hist.expired \ {c}
    BY <2>2, <2>3, <2>5
  <2> QED
    BY <2>4, <2>5
<1> QED
  BY <1>3 DEF Dim!OneReconciler

\* Somebody begins who has read nothing yet.
LEMMA DimBegins ==
  ASSUME DimInv, NEW c \in Conns,
         \/ \E u \in DimUsers : Dim!FlushUser(c, u) \/ Dim!RefreshUserDimEvent(c, u)
         \/ Dim!SyncIds(c, DimUsers) \/ Dim!Incremental(c)
  PROVE  DimInv'
<1>0. db \in DimDb /\ hist \in DimHist /\ tx[c] = Dim!Idle /\ DimTyped /\ Dim!OneReconciler
  BY DEF DimInv, DimTyped, Dim!FlushUser, Dim!RefreshUserDimEvent, Dim!SyncIds, Dim!Incremental, Dim!Begin
<1>1. \A u \in DimUsers : ~Coming(c, u)
  BY <1>0 DEF Coming, Dim!Idle
<1>2. CASE \E u \in DimUsers : Dim!FlushUser(c, u)
  <2>1. PICK u \in DimUsers : Dim!FlushUser(c, u)
    BY <1>2
  <2>2. PICK t : t = [op |-> "user", u |-> u, at |-> db.clock + 1]
    OBVIOUS
  <2>3. tx' = [tx EXCEPT ![c] = t] /\ db' = [db EXCEPT !.clock = @ + 1] /\ hist' = hist
    BY <2>1, <2>2 DEF Dim!FlushUser, Dim!Begin
  <2>4. db.clock \in Nat
    BY <1>0 DEF DimDb
  <2>5. t \in DimRuns /\ t.op = "user" /\ t.at > db.clock
    BY <2>2, <2>4 DEF DimRuns, DimUser
  <2>6. /\ db' \in DimDb /\ db'.dim = db.dim /\ db'.src = db.src /\ db'.clock >= db.clock /\ db'.events = db.events
        /\ db'.lock = db.lock
    BY <1>0, <2>3, <2>4 DEF DimDb
  <2>7. Dim!OneReconciler'
    BY <1>0, <2>3, <2>5, <2>6, DimReconcilers DEF DimHolds
  <2> QED
    BY <1>0, <1>1, <2>3, <2>5, <2>6, <2>7, DimKeeps
<1>3. CASE \E u \in DimUsers : Dim!RefreshUserDimEvent(c, u)
  <2>1. PICK u \in DimUsers : Dim!RefreshUserDimEvent(c, u)
    BY <1>3
  <2>2. PICK t : t = [op |-> "sync", at |-> "load", from |-> "event", ids |-> {u}]
    OBVIOUS
  <2>3. tx' = [tx EXCEPT ![c] = t] /\ db' = [db EXCEPT !.events[u] = @ - 1] /\ hist' = hist /\ db.events[u] > 0
    BY <2>1, <2>2 DEF Dim!RefreshUserDimEvent, Dim!Continue, Dim!Loading
  <2>4. t \in DimRuns /\ t.op = "sync" /\ t.at = "load" /\ t.from = "event" /\ t.ids = {u}
    <3>1. {u} \in SUBSET DimUsers
      OBVIOUS
    <3> QED
      BY <2>2, <3>1 DEF DimRuns, DimLoad, DimFroms
  <2>5. /\ db' \in DimDb /\ db'.dim = db.dim /\ db'.src = db.src /\ db'.clock >= db.clock /\ db'.lock = db.lock
        /\ \A w \in DimUsers \ {u} : db'.events[w] = db.events[w]
    <3>1. db.events[u] - 1 \in Nat /\ db.clock \in Nat /\ db.events \in [DimUsers -> Nat]
      BY <1>0, <2>3 DEF DimDb
    <3>2. [db.events EXCEPT ![u] = @ - 1] \in [DimUsers -> Nat]
      BY <3>1
    <3>3. db' \in DimDb
      BY <1>0, <2>3, <3>2 DEF DimDb
    <3>4. db'.dim = db.dim /\ db'.src = db.src /\ db'.clock = db.clock /\ db'.lock = db.lock
      BY <1>0, <2>3 DEF DimDb
    <3>5. \A w \in DimUsers \ {u} : db'.events[w] = db.events[w]
      BY <1>0, <2>3, <3>1 DEF DimDb
    <3> QED
      BY <3>1, <3>3, <3>4, <3>5
  <2>6. Coming(c, u)'
    BY <1>0, <2>3, <2>4, DimStep DEF Coming
  <2>7. Dim!OneReconciler'
    BY <1>0, <2>3, <2>4, <2>5, DimReconcilers DEF DimHolds, Dim!Locked
  <2> QED
    BY <1>0, <1>1, <2>3, <2>4, <2>5, <2>6, <2>7, DimKeeps
<1>4. CASE Dim!SyncIds(c, DimUsers)
  <2>2. PICK t : t = [op |-> "sync", at |-> "load", from |-> "ids", ids |-> DimUsers]
    OBVIOUS
  <2>3. tx' = [tx EXCEPT ![c] = t] /\ db' = db /\ hist' = hist
    BY <1>4, <2>2 DEF Dim!SyncIds, Dim!Begin, Dim!Loading
  <2>4. t \in DimRuns /\ t.op = "sync" /\ t.at = "load" /\ t.from = "ids"
    <3>1. DimUsers \in SUBSET DimUsers
      OBVIOUS
    <3> QED
      BY <2>2, <3>1 DEF DimRuns, DimLoad, DimFroms
  <2>5. Dim!OneReconciler'
    BY <1>0, <2>3, <2>4, DimReconcilers DEF DimHolds, Dim!Locked
  <2>6. db.clock >= db.clock
    BY <1>0 DEF DimDb
  <2> QED
    BY <1>0, <1>1, <2>3, <2>4, <2>5, <2>6, DimKeeps
<1>5. CASE Dim!Incremental(c)
  <2>2. PICK t : t = [op |-> "scan", from |-> "incremental", seen |-> [u \in DimUsers |-> db.src[u].at]]
    OBVIOUS
  <2>3. tx' = [tx EXCEPT ![c] = t] /\ db' = db /\ hist' = hist
    BY <1>5, <2>2 DEF Dim!Incremental, Dim!Begin, Dim!ScanSource
  <2>4. t \in DimRuns /\ t.op = "scan" /\ t.from = "incremental"
    <3>1. [u \in DimUsers |-> db.src[u].at] \in [DimUsers -> Nat]
      BY <1>0 DEF DimDb, DimRow
    <3> QED
      BY <2>2, <3>1 DEF DimRuns, DimScan, DimFroms
  <2>5. Dim!OneReconciler'
    BY <1>0, <2>3, <2>4, DimReconcilers DEF DimHolds, Dim!Locked
  <2>6. db.clock >= db.clock
    BY <1>0 DEF DimDb
  <2> QED
    BY <1>0, <1>1, <2>3, <2>4, <2>5, <2>6, DimKeeps
<1> QED
  BY <1>2, <1>3, <1>4, <1>5

\* A copy ends: a reconciler still has its lock to release, or goes on.
LEMMA DimEnds ==
  ASSUME DimTyped, NEW c \in Conns, tx[c].op \in {"scan", "sync"}, NEW full \in BOOLEAN, Dim!Done(c, full)
  PROVE  \E t \in DimRuns : /\ tx' = [tx EXCEPT ![c] = t] /\ (DimHolds(t) => DimHolds(tx[c]))
                            /\ t.op \in {"idle", "release", "round"}
<1>0. PICK b \in BOOLEAN : b = Dim!GoesOn(c, full)
  BY DEF Dim!GoesOn
<1>1. CASE tx[c].from \in Dim!Locked
  <2>1. tx' = [tx EXCEPT ![c] = [op |-> "release", at |-> "get", again |-> b]]
    BY <1>0, <1>1 DEF Dim!Done, Dim!Continue
  <2>2. PICK t : t = [op |-> "release", at |-> "get", again |-> b]
    OBVIOUS
  <2>3. t \in DimRuns /\ t.op = "release" /\ DimHolds(tx[c])
    BY <1>1, <2>2 DEF DimRuns, DimRelease, DimHolds
  <2> QED
    BY <2>1, <2>2, <2>3
<1>2. CASE tx[c].from \notin Dim!Locked
  <2>1. tx' = [tx EXCEPT ![c] = Dim!Idle] \/ tx' = [tx EXCEPT ![c] = [op |-> "round"]]
    BY <1>2 DEF Dim!Done, Dim!Finish, Dim!Continue
  <2>2. Dim!Idle \in DimRuns /\ Dim!Idle.op = "idle" /\ ~DimHolds(Dim!Idle)
    BY DEF DimRuns, DimHolds, Dim!Idle
  <2>3. [op |-> "round"] \in DimRuns /\ [op |-> "round"].op = "round" /\ ~DimHolds([op |-> "round"])
    BY DEF DimRuns, DimHolds, DimRound
  <2> QED
    BY <2>1, <2>2, <2>3
<1> QED
  BY <1>1, <1>2

\* A step that leaves the two databases and the lock alone.
LEMMA DimOnly ==
  ASSUME DimInv, NEW c \in Conns, NEW t \in DimRuns, tx' = [tx EXCEPT ![c] = t], db' = db, hist' \in DimHist,
         hist'.masked = hist.masked, hist'.older = hist.older, hist.unsent \subseteq hist'.unsent,
         hist'.expired = hist.expired, t.op # "user", ~(t.op = "sync" /\ t.at \in {"stamp", "write"}), DimHolds(t)
             => DimHolds(tx[c]),
         \A u \in DimUsers : Coming(c, u) => Coming(c, u)' \/ u \in hist'.unsent
  PROVE  DimInv'
<1>1. db.clock \in Nat /\ db \in DimDb /\ DimTyped /\ Dim!OneReconciler
  BY DEF DimInv, DimTyped, DimDb
<1>2. Dim!OneReconciler'
  BY <1>1, DimReconcilers
<1>3. db'.clock >= db.clock /\ db' \in DimDb
  BY <1>1
<1> QED
  BY <1>2, <1>3, DimKeeps

\* Both scans are done: the candidates, or nobody.
LEMMA DimScans == ASSUME DimInv, NEW c \in Conns, Dim!ScanDim(c) PROVE DimInv'
<1> DEFINE ids == Dim!Candidates(tx[c].seen, db.dim)
<1>1. DimTyped /\ hist' = hist /\ db' = db /\ hist \in DimHist /\ tx[c].op = "scan" /\ tx[c] \in DimScan
  BY DimTx DEF DimInv, DimTyped, Dim!ScanDim
<1>2. \A u \in DimUsers : ~Coming(c, u)
  BY <1>1 DEF Coming
<1>3. CASE ids # {}
  <2>1. PICK t : t = [op |-> "sync", at |-> "load", from |-> tx[c].from, ids |-> ids]
    OBVIOUS
  <2>2. tx' = [tx EXCEPT ![c] = t]
    BY <1>3, <2>1 DEF Dim!ScanDim, Dim!Continue, Dim!Loading
  <2>3. ids \in SUBSET DimUsers
    BY DEF Dim!Candidates, Dim!FirstN
  <2>4. t \in DimLoad /\ t.op = "sync" /\ t.at = "load" /\ t.from = tx[c].from
    BY <1>1, <2>1, <2>3 DEF DimLoad, DimScan
  <2>5. t \in DimRuns
    BY <2>4 DEF DimRuns
  <2>6. DimHolds(t) => DimHolds(tx[c])
    BY <1>1, <2>4 DEF DimHolds
  <2> QED
    BY <1>1, <1>2, <2>2, <2>4, <2>5, <2>6, DimOnly
<1>4. CASE ids = {}
  <2>1. Dim!Done(c, FALSE)
    BY <1>4 DEF Dim!ScanDim
  <2>2. PICK t \in DimRuns : /\ tx' = [tx EXCEPT ![c] = t] /\ (DimHolds(t) => DimHolds(tx[c]))
                             /\ t.op \in {"idle", "release", "round"}
    BY <1>1, <2>1, DimEnds
  <2> QED
    BY <1>1, <1>2, <2>2, DimOnly
<1> QED
  BY <1>3, <1>4

\* The copy of an event that fails is known to be lost.
LEMMA DimFails == ASSUME DimInv, NEW c \in Conns, Dim!SyncFails(c) PROVE DimInv'
<1>1. DimTyped /\ db' = db /\ hist \in DimHist /\ tx[c].op = "sync" /\ tx[c] \in DimLoad \cup DimRead \cup DimWrite
  BY DimTx DEF DimInv, DimTyped, Dim!SyncFails
<1>2. tx[c].ids \in SUBSET DimUsers
  BY <1>1 DEF DimLoad, DimRead, DimWrite
<1>3. hist' = [hist EXCEPT !.unsent = IF tx[c].from = "event" THEN @ \cup tx[c].ids ELSE @]
  BY DEF Dim!SyncFails
<1>4. /\ hist' \in DimHist /\ hist'.masked = hist.masked /\ hist'.older = hist.older
      /\ hist.unsent \subseteq hist'.unsent /\ hist'.expired = hist.expired
          /\ (tx[c].from = "event" => tx[c].ids \subseteq hist'.unsent)
  BY <1>1, <1>2, <1>3 DEF DimHist
<1>5. \A u \in DimUsers : Coming(c, u) => u \in hist'.unsent
  BY <1>4 DEF Coming
<1>6. PICK t \in DimRuns : /\ tx' = [tx EXCEPT ![c] = t] /\ (DimHolds(t) => DimHolds(tx[c]))
                           /\ t.op \in {"idle", "release", "round"}
  BY <1>1, DimEnds DEF Dim!SyncFails
<1> QED
  BY <1>1, <1>4, <1>5, <1>6, DimOnly

\* A reconciler takes the lock, or goes.
LEMMA DimLocks == ASSUME DimInv, NEW c \in Conns, Dim!ReconcileUserDim(c) \/ Dim!NextRound(c) PROVE DimInv'
<1>1. /\ DimTyped /\ hist \in DimHist /\ db \in DimDb /\ Dim!OneReconciler /\ db.clock \in Nat
      /\ tx[c].op \in {"idle", "round"}
  <2>1. tx[c] = Dim!Idle \/ tx[c].op = "round"
    BY DEF Dim!ReconcileUserDim, Dim!ReconcilePeriodic, Dim!ReconcileUnlocked, Dim!NextRound, Dim!Begin
  <2> QED
    BY <2>1 DEF DimInv, DimTyped, DimDb, Dim!Idle
<1>2. \A u \in DimUsers : ~Coming(c, u)
  BY <1>1 DEF Coming
<1>3. ASSUME NEW from \in Dim!Locked, Dim!LockFree, tx' = [tx EXCEPT ![c] = Dim!ScanSource(c, from)],
             Dim!TakeLock(c)
      PROVE  DimInv'
  <2>1. PICK t : t = [op |-> "scan", from |-> from, seen |-> [u \in DimUsers |-> db.src[u].at]]
    OBVIOUS
  <2>2. tx' = [tx EXCEPT ![c] = t] /\ db' = [db EXCEPT !.lock = c] /\ db.lock = NoConn
    BY <1>3, <2>1 DEF Dim!ScanSource, Dim!TakeLock, Dim!LockFree
  <2>3. [u \in DimUsers |-> db.src[u].at] \in [DimUsers -> Nat] /\ from \in DimFroms
    <3>1. [u \in DimUsers |-> db.src[u].at] \in [DimUsers -> Nat]
      BY <1>1 DEF DimDb, DimRow
    <3> QED
      BY <1>3, <3>1 DEF Dim!Locked, DimFroms
  <2>4. t \in DimRuns /\ t.op = "scan"
    BY <2>1, <2>3 DEF DimRuns, DimScan
  <2>5. /\ db' \in DimDb /\ db'.dim = db.dim /\ db'.src = db.src /\ db'.clock >= db.clock
        /\ db'.events = db.events /\ db'.lock = c
    BY <1>1, <2>2 DEF DimDb
  <2>6. hist' = [hist EXCEPT !.expired = @ \ {c}]
    BY <1>3 DEF Dim!TakeLock
  <2>7. /\ hist' \in DimHist /\ hist'.masked = hist.masked /\ hist'.older = hist.older
        /\ hist'.unsent = hist.unsent /\ hist'.expired = hist.expired \ {c}
    BY <1>1, <2>6 DEF DimHist
  <2>8. Dim!OneReconciler'
    BY <1>1, <2>2, <2>4, <2>5, <2>7, DimReconcilers
  <2> QED
    BY <1>2, <2>2, <2>4, <2>5, <2>7, <2>8, DimKeeps
<1>4. ASSUME NEW from \in Dim!Unlocked, tx' = [tx EXCEPT ![c] = Dim!ScanSource(c, from)], db' = db, hist' = hist
      PROVE  DimInv'
  <2>1. PICK t : t = [op |-> "scan", from |-> from, seen |-> [u \in DimUsers |-> db.src[u].at]]
    OBVIOUS
  <2>2. tx' = [tx EXCEPT ![c] = t]
    BY <1>4, <2>1 DEF Dim!ScanSource
  <2>3. [u \in DimUsers |-> db.src[u].at] \in [DimUsers -> Nat] /\ from \in DimFroms
    <3>1. [u \in DimUsers |-> db.src[u].at] \in [DimUsers -> Nat]
      BY <1>1 DEF DimDb, DimRow
    <3> QED
      BY <1>4, <3>1 DEF Dim!Unlocked, DimFroms
  <2>4. t \in DimRuns /\ t.op = "scan" /\ t.from = from
    BY <2>1, <2>3 DEF DimRuns, DimScan
  <2>5. ~DimHolds(t)
    BY <1>4, <2>4 DEF DimHolds, Dim!Locked, Dim!Unlocked
  <2> QED
    BY <1>1, <1>2, <1>4, <2>2, <2>4, <2>5, DimOnly
<1>5. CASE Dim!ReconcileUserDim(c)
  BY <1>3, <1>4, <1>5 DEF Dim!ReconcileUserDim, Dim!ReconcilePeriodic, Dim!ReconcileUnlocked, Dim!Begin
<1>6. CASE Dim!NextRound(c)
  <2>1. CASE Dim!LockFree /\ Dim!Continue(c, Dim!ScanSource(c, "flow")) /\ Dim!TakeLock(c)
    BY <1>3, <2>1 DEF Dim!Locked, Dim!Continue
  <2>2. CASE ~Dim!LockFree /\ Dim!Finish(c) /\ UNCHANGED <<db, hist>>
    <3>1. tx' = [tx EXCEPT ![c] = Dim!Idle] /\ db' = db /\ hist' = hist
      BY <2>2 DEF Dim!Finish, Dim!Continue
    <3>2. Dim!Idle \in DimRuns /\ Dim!Idle.op = "idle" /\ ~DimHolds(Dim!Idle)
      BY DEF DimRuns, DimHolds, Dim!Idle
    <3> QED
      BY <1>1, <1>2, <3>1, <3>2, DimOnly
  <2>3. CASE Dim!Continue(c, Dim!ScanSource(c, "unlockedflow")) /\ UNCHANGED <<db, hist>>
    <3>1. "unlockedflow" \in Dim!Unlocked
      BY DEF Dim!Unlocked
    <3> QED
      BY <1>4, <2>3, <3>1 DEF Dim!Continue
  <2> QED
    BY <1>6, <2>1, <2>2, <2>3 DEF Dim!NextRound
<1> QED
  BY <1>5, <1>6

\* The release compares the token first.
LEMMA DimCompares == ASSUME DimInv, NEW c \in Conns, Dim!ReleaseGet(c) PROVE DimInv'
<1>1. DimTyped /\ hist' = hist /\ db' = db /\ hist \in DimHist /\ tx[c].op = "release" /\ tx[c] \in DimRelease
  BY DimTx DEF DimInv, DimTyped, Dim!ReleaseGet
<1>2. PICK at \in {"del", "end"} : tx' = [tx EXCEPT ![c] = [tx[c] EXCEPT !.at = at]]
  BY DEF Dim!ReleaseGet, Dim!Continue
<1>3. PICK t : t = [tx[c] EXCEPT !.at = at]
  OBVIOUS
<1>4. t \in DimRelease /\ t.op = "release"
  BY <1>1, <1>3 DEF DimRelease
<1>5. t \in DimRuns /\ DimHolds(tx[c])
  BY <1>1, <1>4 DEF DimRuns, DimHolds
<1>6. \A u \in DimUsers : ~Coming(c, u)
  BY <1>1 DEF Coming
<1> QED
  BY <1>1, <1>2, <1>3, <1>4, <1>5, <1>6, DimOnly

\* The deletion comes after the comparison: the lock it takes away is
\* another's only when ours had expired.
LEMMA DimReleases == ASSUME DimInv, NEW c \in Conns, Dim!ReleaseDel(c) PROVE DimInv'
<1>1. /\ DimTyped /\ hist \in DimHist /\ db \in DimDb /\ db.clock \in Nat /\ Dim!OneReconciler
      /\ tx[c].op = "release" /\ tx[c].at \in {"del", "end"}
  BY DEF DimInv, DimTyped, DimDb, Dim!ReleaseDel
<1>2. \A u \in DimUsers : ~Coming(c, u)
  BY <1>1 DEF Coming
<1>3. PICK t \in DimRuns : tx' = [tx EXCEPT ![c] = t] /\ t.op \in {"idle", "round"}
  <2>1. Dim!Idle \in DimRuns /\ Dim!Idle.op = "idle"
    BY DEF DimRuns, Dim!Idle
  <2>2. [op |-> "round"] \in DimRuns /\ [op |-> "round"].op = "round"
    BY DEF DimRuns, DimRound
  <2>3. tx' = [tx EXCEPT ![c] = [op |-> "round"]] \/ tx' = [tx EXCEPT ![c] = Dim!Idle]
    BY DEF Dim!ReleaseDel, Dim!Continue, Dim!Finish
  <2> QED
    BY <2>1, <2>2, <2>3
<1>4. ~DimHolds(t)
  BY <1>3 DEF DimHolds
<1>5. CASE tx[c].at = "end"
  <2>1. db' = [db EXCEPT !.lock = @] /\ hist' = [hist EXCEPT !.expired = @]
    BY <1>5 DEF Dim!ReleaseDel
  <2>2. db' = db
    BY <1>1, <2>1 DEF DimDb
  <2>3. hist' = hist
    BY <1>1, <2>1 DEF DimHist
  <2> QED
    BY <1>1, <1>2, <1>3, <1>4, <2>2, <2>3, DimOnly
<1>6. CASE tx[c].at = "del"
  <2>1. /\ db' = [db EXCEPT !.lock = NoConn]
        /\ hist' = [hist EXCEPT !.expired = IF c \in @ THEN @ \cup (Dim!Running \cap {db.lock}) ELSE @]
    BY <1>6 DEF Dim!ReleaseDel
  <2>2. /\ db' \in DimDb /\ db'.dim = db.dim /\ db'.src = db.src /\ db'.clock >= db.clock /\ db'.events = db.events
    BY <1>1, <2>1 DEF DimDb
  <2>3. Dim!Running \subseteq Conns
    BY DEF Dim!Running
  <2>4. /\ hist' \in DimHist /\ hist'.masked = hist.masked /\ hist'.older = hist.older
        /\ hist'.unsent = hist.unsent /\ hist.expired \subseteq hist'.expired
        /\ (c \in hist.expired => Dim!Running \cap {db.lock} \subseteq hist'.expired)
    BY <1>1, <2>1, <2>3 DEF DimHist
  <2>5. ASSUME NEW d \in Dim!Running' PROVE d \in hist'.expired
    <3>1. d \in Conns /\ d # c /\ d \in Dim!Running
      BY <1>1, <1>3, <1>4, DimStep DEF Dim!Running, DimHolds, Dim!Locked
    <3>2. c \in Dim!Running
      BY <1>1 DEF Dim!Running
    <3> QED
      BY <1>1, <2>4, <3>1, <3>2 DEF Dim!OneReconciler
  <2>6. Dim!OneReconciler'
    BY <2>5 DEF Dim!OneReconciler
  <2> QED
    BY <1>2, <1>3, <2>2, <2>4, <2>6, DimKeeps
<1> QED
  BY <1>1, <1>5, <1>6

\* The release fails: the job ends, its lock stays.
LEMMA DimStrands == ASSUME DimInv, NEW c \in Conns, Dim!ReleaseFails(c) PROVE DimInv'
<1>1. /\ DimTyped /\ hist' = hist /\ db' = db /\ hist \in DimHist /\ tx[c].op = "release"
      /\ tx' = [tx EXCEPT ![c] = Dim!Idle]
  BY DEF DimInv, DimTyped, Dim!ReleaseFails, Dim!Finish, Dim!Continue
<1>2. Dim!Idle \in DimRuns /\ Dim!Idle.op = "idle" /\ ~DimHolds(Dim!Idle)
  BY DEF DimRuns, DimHolds, Dim!Idle
<1>3. \A u \in DimUsers : ~Coming(c, u)
  BY <1>1 DEF Coming
<1> QED
  BY <1>1, <1>2, <1>3, DimOnly

\* The lock is gone, and its holder may still run.
LEMMA DimExpires == ASSUME DimInv, Dim!LockExpires PROVE DimInv'
<1>1. PICK c \in Conns : c = db.lock
  BY DEF DimInv, DimTyped, DimDb, Dim!LockExpires, Dim!LockFree
<1>2. /\ DimTyped /\ hist \in DimHist /\ db \in DimDb /\ db.clock \in Nat /\ Dim!OneReconciler /\ tx' = tx
      /\ tx \in [Conns -> DimRuns]
  BY DEF DimInv, DimTyped, DimDb, Dim!LockExpires
<1>3. tx[c] \in DimRuns /\ tx' = [tx EXCEPT ![c] = tx[c]]
  BY <1>2
<1>4. db' = [db EXCEPT !.lock = NoConn] /\ hist' = [hist EXCEPT !.expired = @ \cup (Dim!Running \cap {c})]
  BY <1>1 DEF Dim!LockExpires
<1>5. /\ db' \in DimDb /\ db'.dim = db.dim /\ db'.src = db.src /\ db'.clock >= db.clock /\ db'.events = db.events
  BY <1>2, <1>4 DEF DimDb
<1>6. /\ hist' \in DimHist /\ hist'.masked = hist.masked /\ hist'.older = hist.older /\ hist'.unsent = hist.unsent
      /\ hist'.expired = hist.expired \cup (Dim!Running \cap {c})
  <2>1. Dim!Running \cap {c} \in SUBSET Conns
    OBVIOUS
  <2> HIDE DEF Dim!Running
  <2> QED
    BY <1>2, <1>4, <2>1 DEF DimHist
<1>7. \A u \in DimUsers : Coming(c, u) => Coming(c, u)'
  BY <1>2, <1>5 DEF Coming
<1>8. Dim!OneReconciler'
  BY <1>1, <1>2, <1>6 DEF Dim!OneReconciler, Dim!Running
<1> QED
  BY <1>3, <1>5, <1>6, <1>7, <1>8, DimKeeps

\* A step that leaves the row of w, its copy and its changes alone.
LEMMA DimAside ==
  ASSUME DimInv, NEW c \in Conns, NEW t \in DimRuns, tx' = [tx EXCEPT ![c] = t], NEW w \in DimUsers,
         db'.dim[w] = db.dim[w], db'.src[w] = db.src[w], db' \in DimDb, db'.clock >= db.clock,
         db'.events[w] = db.events[w], w \in hist.masked => w \in hist'.masked, w \in hist.older => w \in hist'.older,
         w \in hist.unsent => w \in hist'.unsent, t.op = "user" => t = tx[c], Coming(c, w) => Coming(c, w)'
  PROVE  /\ DimLacks(w)'
         /\ \A d \in Conns : d # c \/ t = tx[c] => DimOwn(d, w)'
<1>1. Told(w) => Told(w)'
  BY DimTells DEF DimInv
<1> QED
  BY <1>1, DimSame

\* What is known of every user is the invariant.
LEMMA DimGathers ==
  ASSUME DimInv, NEW c \in Conns, NEW t \in DimRuns, tx' = [tx EXCEPT ![c] = t], db' \in DimDb, hist' \in DimHist,
         db'.lock = db.lock, hist'.expired = hist.expired, DimHolds(t) => DimHolds(tx[c]),
         \A w \in DimUsers : DimLacks(w)' /\ \A d \in Conns : DimOwn(d, w)'
  PROVE  DimInv'
<1>1. Dim!OneReconciler'
  BY DimReconcilers DEF DimInv
<1>2. tx' \in [Conns -> DimRuns]
  BY DimStep DEF DimInv
<1> QED
  BY <1>1, <1>2 DEF DimInv, DimTyped, DimTable, DimFlight

\* A change of the profile: its event is due.
LEMMA DimProfiles ==
  ASSUME DimInv, NEW c \in Conns, NEW u \in DimUsers, Dim!ChangeProfile(c, u)
  PROVE  DimInv'
<1>1. /\ db \in DimDb /\ hist \in DimHist /\ tx[c] \in DimRuns /\ tx \in [Conns -> DimRuns] /\ tx' = tx
      /\ hist' = hist /\ tx[c] = Dim!Idle
  BY DEF DimInv, DimTyped, Dim!ChangeProfile, Dim!AtOnce
<1>2. PICK t \in DimRuns : t = tx[c]
  BY <1>1
<1>3. tx' = [tx EXCEPT ![c] = t] /\ t.op # "user" /\ ~DimHolds(t)
  BY <1>1, <1>2 DEF Dim!Idle, DimHolds
<1>4. /\ db.src \in [DimUsers -> DimRow] /\ db.events \in [DimUsers -> Nat] /\ db.clock \in Nat
      /\ db.dim \in [DimUsers -> [v : Nat, p : Nat, ts : Nat]]
  BY <1>1 DEF DimDb
<1>5. db.src[u].p \in Nat /\ db.src[u].v \in Nat /\ db.src[u].at \in Nat /\ db.events[u] \in Nat
  BY <1>4 DEF DimRow
<1>6. /\ [db.src EXCEPT ![u].p = @ + 1] \in [DimUsers -> DimRow]
      /\ [db.events EXCEPT ![u] = @ + 1] \in [DimUsers -> Nat]
  BY <1>4, <1>5 DEF DimRow
<1>7. db' = [db EXCEPT !.src[u].p = @ + 1, !.events[u] = @ + 1]
  BY DEF Dim!ChangeProfile
<1>8. db'.src = [db.src EXCEPT ![u].p = @ + 1] /\ db'.events = [db.events EXCEPT ![u] = @ + 1]
  BY <1>1, <1>7 DEF DimDb
<1>9. db' \in DimDb /\ db'.dim = db.dim /\ db'.clock = db.clock /\ db'.lock = db.lock /\ db'.clock >= db.clock
  <2>1. db'.dim = db.dim /\ db'.clock = db.clock /\ db'.lock = db.lock
    BY <1>1, <1>7 DEF DimDb
  <2>2. db' = [src |-> db'.src, dim |-> db.dim, clock |-> db.clock, events |-> db'.events, lock |-> db.lock]
    BY <1>1, <1>7 DEF DimDb
  <2>3. db'.src \in [DimUsers -> DimRow] /\ db'.events \in [DimUsers -> Nat] /\ db.lock \in Conns \cup {NoConn}
    BY <1>1, <1>6, <1>8 DEF DimDb
  <2>4. db' \in DimDb
    BY <1>4, <2>2, <2>3 DEF DimDb
  <2> QED
    BY <1>4, <2>1, <2>4
<1>10. /\ db'.src[u].p = db.src[u].p + 1 /\ db'.src[u].v = db.src[u].v /\ db'.src[u].at = db.src[u].at
       /\ db'.events[u] > 0
       /\ \A w \in DimUsers \ {u} : db'.src[w] = db.src[w] /\ db'.events[w] = db.events[w]
  BY <1>4, <1>5, <1>8 DEF DimRow
<1>11. Told(u)'
  BY <1>10 DEF Told
<1>12. DimLacks(u)'
  <2>1. DimLacks(u)
    BY DEF DimInv, DimTable
  <2> QED
    BY <1>1, <1>9, <1>10, <1>11, <2>1 DEF DimLacks, Flushed
<1>13. ASSUME NEW d \in Conns PROVE DimOwn(d, u)'
  <2>1. DimOwn(d, u)
    BY DEF DimInv, DimFlight
  <2>2. Writing(d, u)' => DimCarries(d, u)'
    BY <1>1, <1>9, <1>10, <2>1 DEF DimOwn, DimCarries, Flushed, Writing
  <2>3. ASSUME Having(d, u)' PROVE DimFound(d, u)'
    <3>1. Having(d, u) /\ DimFound(d, u) /\ tx[d] \in DimRead \cup DimWrite
      BY <1>1, <2>1, <2>3, DimTx DEF DimInv, DimOwn, Having
    <3>2. tx[d].rows[u].p \in Nat
      BY <3>1 DEF DimRead, DimWrite, DimRow, Having
    <3> QED
      BY <1>1, <1>5, <1>10, <1>11, <3>1, <3>2 DEF DimFound
  <2> QED
    BY <2>2, <2>3 DEF DimOwn
<1>14. ASSUME NEW w \in DimUsers, w # u PROVE DimLacks(w)' /\ \A d \in Conns : DimOwn(d, w)'
  <2>1. ~Coming(c, w)
    BY <1>1 DEF Coming, Dim!Idle
  <2> QED
    BY <1>1, <1>2, <1>3, <1>9, <1>10, <1>14, <2>1, DimAside
<1>15. \A w \in DimUsers : DimLacks(w)' /\ \A d \in Conns : DimOwn(d, w)'
  <2>1. ASSUME NEW w \in DimUsers PROVE DimLacks(w)' /\ \A d \in Conns : DimOwn(d, w)'
    BY <1>12, <1>13, <1>14
  <2> QED
    BY <2>1
<1>16. hist' \in DimHist /\ hist'.expired = hist.expired
  BY <1>1
<1> QED
  BY <1>3, <1>9, <1>15, <1>16, DimGathers

\* A change that was flushed is committed: what was read before is found
\* by its updated_at.
LEMMA DimCommits == ASSUME DimInv, NEW c \in Conns, Dim!CommitUser(c) PROVE DimInv'
<1>1. /\ db \in DimDb /\ hist \in DimHist /\ hist' = hist /\ DimTyped /\ tx[c] \in DimUser /\ tx[c].op = "user"
      /\ tx' = [tx EXCEPT ![c] = Dim!Idle]
  BY DimTx DEF DimInv, DimTyped, Dim!CommitUser, Dim!Finish, Dim!Continue
<1>2. PICK u \in DimUsers : u = tx[c].u
  BY <1>1 DEF DimUser
<1>3. Dim!Idle \in DimRuns /\ Dim!Idle.op = "idle" /\ ~DimHolds(Dim!Idle)
  BY DEF DimRuns, DimHolds, Dim!Idle
<1>4. /\ db.src \in [DimUsers -> DimRow] /\ db.events \in [DimUsers -> Nat] /\ db.clock \in Nat
      /\ db.dim \in [DimUsers -> [v : Nat, p : Nat, ts : Nat]]
  BY <1>1 DEF DimDb
<1>5. db.src[u].p \in Nat /\ db.src[u].v \in Nat /\ db.events[u] \in Nat /\ tx[c].at \in Nat
  BY <1>1, <1>4 DEF DimRow, DimUser
<1>6. /\ [db.src EXCEPT ![u].v = @ + 1, ![u].at = tx[c].at] \in [DimUsers -> DimRow]
      /\ [db.events EXCEPT ![u] = @ + 1] \in [DimUsers -> Nat]
  BY <1>4, <1>5 DEF DimRow
<1>7. db' = [db EXCEPT !.src[u].v = @ + 1, !.src[u].at = tx[c].at, !.events[u] = @ + 1]
  BY <1>2 DEF Dim!CommitUser
<1>8. /\ db'.src = [db.src EXCEPT ![u].v = @ + 1, ![u].at = tx[c].at]
      /\ db'.events = [db.events EXCEPT ![u] = @ + 1]
  BY <1>1, <1>7 DEF DimDb
<1>9. db' \in DimDb /\ db'.dim = db.dim /\ db'.clock = db.clock /\ db'.lock = db.lock /\ db'.clock >= db.clock
  <2>1. db'.dim = db.dim /\ db'.clock = db.clock /\ db'.lock = db.lock
    BY <1>1, <1>7 DEF DimDb
  <2>2. db' = [src |-> db'.src, dim |-> db.dim, clock |-> db.clock, events |-> db'.events, lock |-> db.lock]
    BY <1>1, <1>7 DEF DimDb
  <2>3. db'.src \in [DimUsers -> DimRow] /\ db'.events \in [DimUsers -> Nat] /\ db.lock \in Conns \cup {NoConn}
    BY <1>1, <1>6, <1>8 DEF DimDb
  <2>4. db' \in DimDb
    BY <1>4, <2>2, <2>3 DEF DimDb
  <2> QED
    BY <1>4, <2>1, <2>4
<1>10. /\ db'.src[u].p = db.src[u].p /\ db'.src[u].v = db.src[u].v + 1 /\ db'.src[u].at = tx[c].at
       /\ db'.events[u] > 0
       /\ \A w \in DimUsers \ {u} : db'.src[w] = db.src[w] /\ db'.events[w] = db.events[w]
  BY <1>4, <1>5, <1>8 DEF DimRow
<1>11. Told(u)' /\ Flushed(c, u)
  BY <1>1, <1>2, <1>10 DEF Told, Flushed
<1>12. tx'[c] = Dim!Idle /\ \A d \in Conns \ {c} : tx'[d] = tx[d]
  BY <1>1, <1>3, DimStep
<1>13. \A o \in Conns : Flushed(o, u)' => Flushed(o, u) /\ tx'[o] = tx[o]
  BY <1>3, <1>12 DEF Flushed
<1>14. DimLacks(u)'
  <2>1. DimLacks(u)
    BY DEF DimInv, DimTable
  <2> QED
    BY <1>1, <1>9, <1>10, <1>11, <1>13, <2>1 DEF DimLacks
<1>15. ASSUME NEW d \in Conns PROVE DimOwn(d, u)'
  <2>1. DimOwn(d, u)
    BY DEF DimInv, DimFlight
  <2>2. ASSUME Having(d, u)' PROVE tx'[d] = tx[d] /\ Having(d, u)
    BY <1>3, <1>12, <2>2 DEF Having
  <2>3. ASSUME Writing(d, u)' PROVE DimCarries(d, u)'
    <3>1. Writing(d, u) /\ tx'[d] = tx[d] /\ DimCarries(d, u)
      BY <2>1, <2>2, <2>3 DEF Writing, Having, DimOwn
    <3> QED
      BY <1>1, <1>5, <1>9, <1>10, <1>11, <1>13, <3>1 DEF DimCarries
  <2>4. ASSUME Having(d, u)' PROVE DimFound(d, u)'
    BY <1>9, <1>10, <1>11, <2>1, <2>2, <2>4 DEF DimOwn, DimFound
  <2> QED
    BY <2>3, <2>4 DEF DimOwn
<1>16. ASSUME NEW w \in DimUsers, w # u PROVE DimLacks(w)' /\ \A d \in Conns : DimOwn(d, w)'
  <2>1. ~Coming(c, w) /\ DimOwn(c, w)'
    BY <1>1, <1>3, <1>12 DEF Coming, Writing, Having, DimOwn
  <2> QED
    BY <1>1, <1>3, <1>9, <1>10, <1>16, <2>1, DimAside
<1> QED
  BY <1>1, <1>3, <1>9, <1>14, <1>15, <1>16, DimGathers

\* The rows as they are.
LEMMA DimLoads == ASSUME DimInv, NEW c \in Conns, Dim!LoadSourceRows(c) PROVE DimInv'
<1>1. /\ db \in DimDb /\ hist \in DimHist /\ DimTyped /\ db' = db /\ hist' = hist /\ db.clock \in Nat
      /\ tx[c].op = "sync" /\ tx[c].at = "load" /\ tx[c] \in DimLoad
  BY DimTx DEF DimInv, DimTyped, DimDb, Dim!LoadSourceRows
<1> DEFINE rows == [u \in tx[c].ids |-> db.src[u]]
<1>2. tx[c].ids \in SUBSET DimUsers /\ tx[c].from \in DimFroms
  BY <1>1 DEF DimLoad
<1>3. rows \in [tx[c].ids -> DimRow]
  BY <1>1, <1>2 DEF DimDb
<1>4. rows \in UNION {[S -> DimRow] : S \in SUBSET DimUsers}
  BY <1>2, <1>3
<1>5. PICK t : t = [op |-> "sync", at |-> "stamp", from |-> tx[c].from, ids |-> tx[c].ids, rows |-> rows]
  OBVIOUS
<1>6. tx' = [tx EXCEPT ![c] = t]
  BY <1>5 DEF Dim!LoadSourceRows, Dim!Continue
<1>7. t \in DimRead /\ t.op = "sync" /\ t.at = "stamp" /\ t.from = tx[c].from /\ t.ids = tx[c].ids /\ t.rows = rows
  <2> HIDE DEF rows
  <2> QED
    BY <1>1, <1>2, <1>3, <1>4, <1>5 DEF DimRead
<1>8. DimHolds(t) => DimHolds(tx[c])
  BY <1>1, <1>7 DEF DimHolds
<1>9. t \in DimRuns
  BY <1>7 DEF DimRuns
<1>10. tx'[c] = t /\ \A d \in Conns \ {c} : tx'[d] = tx[d]
  BY <1>1, <1>6, <1>9, DimStep
<1>11. ASSUME NEW w \in DimUsers
       PROVE  /\ DimLacks(w)' /\ \A d \in Conns \ {c} : DimOwn(d, w)'
  <2>1. Coming(c, w) => Coming(c, w)'
    BY <1>1, <1>7, <1>10 DEF Coming
  <2>2. db' \in DimDb /\ db'.clock >= db.clock /\ db'.events[w] = db.events[w]
    BY <1>1
  <2> QED
    BY <1>1, <1>6, <1>7, <1>9, <2>1, <2>2, DimAside
<1>12. ASSUME NEW w \in DimUsers PROVE DimOwn(c, w)'
  <2>1. ~Writing(c, w)'
    BY <1>7, <1>10 DEF Writing
  <2>2. Having(c, w)' => DimFound(c, w)'
    <3>1. db.src[w].p \in Nat
      BY <1>1 DEF DimDb, DimRow
    <3> QED
      BY <1>1, <1>7, <1>10, <3>1 DEF Having, DimFound
  <2> QED
    BY <2>1, <2>2 DEF DimOwn
<1>13. \A w \in DimUsers : DimLacks(w)' /\ \A d \in Conns : DimOwn(d, w)'
  BY <1>11, <1>12
<1> QED
  BY <1>1, <1>6, <1>8, <1>9, <1>13, DimGathers

\* The rows are stamped: a change that they do not have and that is not
\* later than the stamp is known.
LEMMA DimStamps == ASSUME DimInv, NEW c \in Conns, Dim!StampRows(c) PROVE DimInv'
<1>1. /\ db \in DimDb /\ hist \in DimHist /\ DimTyped /\ db' = db /\ hist' = hist /\ db.clock \in Nat
      /\ tx[c].op = "sync" /\ tx[c].at = "stamp" /\ tx[c] \in DimRead
  BY DimTx DEF DimInv, DimTyped, DimDb, Dim!StampRows
<1> DEFINE hides == {u \in tx[c].ids : Dim!Hidden(c, u)}
<1>2. /\ tx[c].ids \in SUBSET DimUsers /\ tx[c].from \in DimFroms /\ tx[c].rows \in [tx[c].ids -> DimRow]
      /\ tx[c].rows \in UNION {[S -> DimRow] : S \in SUBSET DimUsers}
  BY <1>1 DEF DimRead
<1>3. hides \in SUBSET DimUsers
  BY <1>2
<1>4. PICK t : t = [op |-> "sync", at |-> "write", from |-> tx[c].from, ids |-> tx[c].ids, rows |-> tx[c].rows,
                    ts |-> db.clock, hides |-> hides]
  OBVIOUS
<1>5. tx' = [tx EXCEPT ![c] = t]
  BY <1>4 DEF Dim!StampRows, Dim!Continue
<1>6. /\ t \in DimWrite /\ t.op = "sync" /\ t.at = "write" /\ t.from = tx[c].from /\ t.ids = tx[c].ids
      /\ t.rows = tx[c].rows /\ t.ts = db.clock /\ t.hides = hides
  <2> HIDE DEF hides
  <2> QED
    BY <1>1, <1>2, <1>3, <1>4 DEF DimWrite
<1>7. DimHolds(t) => DimHolds(tx[c])
  BY <1>1, <1>6 DEF DimHolds
<1>8. t \in DimRuns
  BY <1>6 DEF DimRuns
<1>9. tx'[c] = t /\ \A d \in Conns \ {c} : tx'[d] = tx[d]
  BY <1>1, <1>5, <1>8, DimStep
<1>10. ASSUME NEW w \in DimUsers
       PROVE  /\ Told(w) => Told(w)'
              /\ DimLacks(w)' /\ \A d \in Conns \ {c} : DimOwn(d, w)'
  <2>1. Coming(c, w) => Coming(c, w)'
    BY <1>1, <1>6, <1>9 DEF Coming
  <2>2. db' \in DimDb /\ db'.clock >= db.clock /\ db'.events[w] = db.events[w]
    BY <1>1
  <2>3. Told(w) => Told(w)'
    BY <1>1, <1>5, <1>8, <2>1, DimTells
  <2> QED
    BY <1>1, <1>5, <1>6, <1>8, <2>1, <2>2, <2>3, DimAside
<1>11. ASSUME NEW w \in DimUsers, Having(c, w)' PROVE DimOwn(c, w)'
  <2>1. w \in tx[c].ids /\ tx'[c].rows[w] = tx[c].rows[w] /\ tx'[c].ts = db.clock /\ tx'[c].hides = hides
    BY <1>6, <1>9, <1>11 DEF Having
  <2>2. DimFound(c, w)
    BY <1>1, <2>1 DEF DimInv, DimFlight, DimOwn, Having
  <2>3. DimFound(c, w)'
    BY <1>1, <1>10, <2>1, <2>2 DEF DimFound
  <2>4. tx[c].rows[w].v # db.src[w].v => w \in hides
    BY <2>1 DEF Dim!Hidden
  <2>5. ASSUME NEW o \in Conns, Flushed(o, w)' PROVE w \in hides
    <3>1. Flushed(o, w)
      BY <1>6, <1>9, <2>5 DEF Flushed
    <3> QED
      BY <2>1, <3>1 DEF Flushed, Dim!Hidden, Dim!Changing, Dim!Open
  <2>6. DimCarries(c, w)'
    <3> HIDE DEF hides
    <3> QED
      BY <1>1, <2>1, <2>4, <2>5 DEF DimCarries
  <2> QED
    BY <2>3, <2>6 DEF DimOwn
<1>12. ASSUME NEW w \in DimUsers PROVE DimOwn(c, w)'
  <2>1. Writing(c, w)' => Having(c, w)'
    BY DEF Writing, Having
  <2> QED
    BY <1>11, <2>1 DEF DimOwn
<1>13. \A w \in DimUsers : DimLacks(w)' /\ \A d \in Conns : DimOwn(d, w)'
  BY <1>10, <1>12
<1>14. db'.clock >= db.clock
  BY <1>1
<1> QED
  BY <1>1, <1>5, <1>7, <1>8, <1>13, DimGathers

\* The rows are written over whatever is there.
LEMMA DimUpserts == ASSUME DimInv, NEW c \in Conns, Dim!UpsertDimRows(c) PROVE DimInv'
<1>1. /\ db \in DimDb /\ hist \in DimHist /\ DimTyped /\ tx[c].op = "sync" /\ tx[c].at = "write" /\ tx[c] \in DimWrite
  BY DimTx DEF DimInv, DimTyped, Dim!UpsertDimRows
<1>2. tx[c].ids \in SUBSET DimUsers /\ tx[c].rows \in [tx[c].ids -> DimRow] /\ tx[c].ts \in Nat
      /\ tx[c].hides \in SUBSET DimUsers
  BY <1>1 DEF DimWrite
<1>3. PICK t \in DimRuns : /\ tx' = [tx EXCEPT ![c] = t] /\ (DimHolds(t) => DimHolds(tx[c]))
                           /\ t.op \in {"idle", "release", "round"}
  <2>1. PICK full \in BOOLEAN : Dim!Done(c, full)
    BY DEF Dim!UpsertDimRows
  <2> QED
    BY <1>1, <2>1, DimEnds
<1>4. tx'[c] = t /\ \A d \in Conns \ {c} : tx'[d] = tx[d]
  BY <1>1, <1>3, DimStep
<1>5. db' = [db EXCEPT !.dim = [u \in DimUsers |-> IF u \in tx[c].ids THEN Dim!Copy(c, u) ELSE @[u]]]
  BY DEF Dim!UpsertDimRows
<1>6. \A u \in tx[c].ids : Dim!Copy(c, u) \in [v : Nat, p : Nat, ts : Nat]
  BY <1>2 DEF Dim!Copy, DimRow
<1>7. /\ db'.dim = [u \in DimUsers |-> IF u \in tx[c].ids THEN Dim!Copy(c, u) ELSE db.dim[u]]
      /\ db'.src = db.src /\ db'.clock = db.clock /\ db'.events = db.events /\ db'.lock = db.lock
  BY <1>1, <1>5 DEF DimDb
<1>8. db' \in DimDb /\ db.clock \in Nat /\ db'.clock >= db.clock
  <2>1. db'.dim \in [DimUsers -> [v : Nat, p : Nat, ts : Nat]]
    <3>1. db.dim \in [DimUsers -> [v : Nat, p : Nat, ts : Nat]]
      BY <1>1 DEF DimDb
    <3> QED
      BY <1>6, <1>7, <3>1
  <2>2. db' = [src |-> db.src, dim |-> db'.dim, clock |-> db.clock, events |-> db.events, lock |-> db.lock]
    BY <1>1, <1>5 DEF DimDb
  <2> QED
    BY <1>1, <2>1, <2>2 DEF DimDb
<1> DEFINE newest == {u \in tx[c].ids : tx[c].rows[u].p = db.src[u].p}
           late == {u \in tx[c].ids : tx[c].rows[u].p < db.dim[u].p}
<1>9. /\ hist' \in DimHist /\ hist'.expired = hist.expired
      /\ hist'.masked = (hist.masked \ tx[c].ids) \cup tx[c].hides
      /\ hist'.older = (hist.older \ newest) \cup late
      /\ hist'.unsent = hist.unsent \ newest
  <2>1. hist' = [hist EXCEPT !.masked = (@ \ tx[c].ids) \cup tx[c].hides, !.older = (@ \ newest) \cup late,
                             !.unsent = @ \ newest]
    BY DEF Dim!UpsertDimRows
  <2>2. newest \in SUBSET DimUsers /\ late \in SUBSET DimUsers
    BY <1>2
  <2> HIDE DEF newest, late
  <2> QED
    BY <1>1, <1>2, <2>1, <2>2 DEF DimHist
<1>11. ASSUME NEW w \in DimUsers, w \notin tx[c].ids
       PROVE  DimLacks(w)' /\ \A d \in Conns : DimOwn(d, w)'
  <2>1. ~Coming(c, w) /\ DimOwn(c, w)'
    BY <1>3, <1>4, <1>11 DEF Coming, Writing, Having, DimOwn
  <2>2. db'.dim[w] = db.dim[w] /\ db'.src[w] = db.src[w] /\ db'.events[w] = db.events[w]
    BY <1>7, <1>11
  <2>3. /\ w \in hist.masked => w \in hist'.masked
        /\ w \in hist.older => w \in hist'.older
        /\ w \in hist.unsent => w \in hist'.unsent
    BY <1>9, <1>11
  <2> HIDE DEF newest, late
  <2>4. DimLacks(w)' /\ \A d \in Conns : d # c \/ t = tx[c] => DimOwn(d, w)'
    BY <1>3, <1>8, <2>1, <2>2, <2>3, DimAside
  <2> QED
    BY <2>1, <2>4
<1>12. ASSUME NEW w \in tx[c].ids
       PROVE  DimLacks(w)' /\ \A d \in Conns : DimOwn(d, w)'
  <2>1. w \in DimUsers /\ DimCarries(c, w) /\ DimFound(c, w) /\ DimLacks(w)
    BY <1>1, <1>2 DEF DimInv, DimFlight, DimTable, DimOwn, Writing, Having
  <2>2. PICK r \in DimRow : r = tx[c].rows[w]
    BY <1>2
  <2>3. PICK s \in DimRow : s = db.src[w] /\ s = db'.src[w]
    BY <1>1, <1>7, <2>1 DEF DimDb
  <2>4. PICK m \in [v : Nat, p : Nat, ts : Nat] : m = db.dim[w]
    BY <1>1, <2>1 DEF DimDb
  <2>5. db'.dim[w].v = r.v /\ db'.dim[w].p = r.p /\ db'.dim[w].ts = tx[c].ts
    BY <1>7, <2>1, <2>2 DEF Dim!Copy
  <2>6. /\ w \in tx[c].hides => w \in hist'.masked
        /\ w \in hist.unsent => w \in hist'.unsent \/ r.p = s.p
        /\ w \in hist.older => w \in hist'.older \/ r.p = s.p
        /\ r.p < m.p => w \in hist'.older
    BY <1>9, <2>1, <2>2, <2>3, <2>4
  <2>7. \A o \in Conns : Flushed(o, w)' => Flushed(o, w) /\ tx'[o] = tx[o]
    BY <1>3, <1>4 DEF Flushed
  <2>8. Told(w) => Told(w)' \/ r.p = s.p
    <3>1. ASSUME NEW o \in Conns, Coming(o, w) PROVE Coming(o, w)' \/ r.p = s.p
      <4>1. CASE o = c
        BY <1>1, <2>2, <2>3, <3>1, <4>1 DEF Coming
      <4>2. CASE o # c
        BY <1>4, <1>7, <3>1, <4>2 DEF Coming
      <4> QED
        BY <4>1, <4>2
    <3> QED
      BY <1>7, <2>6, <3>1 DEF Told
  <2>9. w \in hist'.older => Told(w)'
    BY DEF Told
  <2>10. DimLacks(w)'
    <3>1. db'.dim[w].ts <= db'.clock
      BY <1>7, <2>1, <2>5 DEF DimCarries
    <3>2. db'.dim[w].v # db'.src[w].v => db'.src[w].at > db'.dim[w].ts \/ w \in hist'.masked
      BY <2>1, <2>2, <2>3, <2>5, <2>6 DEF DimCarries
    <3>3. \A o \in Conns : Flushed(o, w)' => tx'[o].at > db'.dim[w].ts \/ w \in hist'.masked
      BY <2>1, <2>5, <2>6, <2>7 DEF DimCarries
    <3>4. db'.dim[w].p # db'.src[w].p => Told(w)'
      BY <2>1, <2>2, <2>3, <2>4, <2>5, <2>6, <2>8, <2>9 DEF DimFound
    <3> QED
      BY <3>1, <3>2, <3>3, <3>4 DEF DimLacks
  <2>11. ASSUME NEW d \in Conns, Writing(d, w)' PROVE DimCarries(d, w)'
    <3>1. tx'[d] = tx[d] /\ Writing(d, w)
      BY <1>3, <1>4, <2>11 DEF Writing
    <3>2. DimCarries(d, w)
      BY <2>1, <3>1 DEF DimInv, DimFlight, DimOwn
    <3> QED
      BY <1>7, <2>3, <2>7, <3>1, <3>2 DEF DimCarries
  <2>12. ASSUME NEW d \in Conns, Having(d, w)' PROVE DimFound(d, w)'
    <3>1. tx'[d] = tx[d] /\ Having(d, w)
      BY <1>3, <1>4, <2>12 DEF Having
    <3>2. DimFound(d, w) /\ tx[d] \in DimRead \cup DimWrite
      BY <1>1, <2>1, <3>1, DimTx DEF DimInv, DimFlight, DimOwn, Having
    <3>3. PICK q \in DimRow : q = tx[d].rows[w]
      BY <3>1, <3>2 DEF DimRead, DimWrite, Having
    <3>4. q.p <= s.p /\ (q.p # s.p => Told(w) \/ q.p < m.p)
      BY <2>3, <2>4, <3>2, <3>3 DEF DimFound
    <3>5. q.p # s.p => Told(w)' \/ q.p < r.p
      BY <2>4, <2>6, <2>8, <2>9, <3>4 DEF DimRow
    <3> QED
      BY <2>3, <2>5, <3>1, <3>3, <3>4, <3>5 DEF DimFound
  <2> QED
    BY <2>10, <2>11, <2>12 DEF DimOwn
<1>13. \A w \in DimUsers : DimLacks(w)' /\ \A d \in Conns : DimOwn(d, w)'
  BY <1>11, <1>12
<1> HIDE DEF newest, late
<1> QED
  BY <1>3, <1>7, <1>8, <1>9, <1>13, DimGathers

LEMMA DimInit == Dim!Init => DimInv
<1> SUFFICES ASSUME Dim!Init PROVE DimInv
  OBVIOUS
<1>1. PICK copy \in {[v |-> 0, p |-> 0, ts |-> 0], [v |-> 1, p |-> 1, ts |-> 1]} :
        db = [src |-> [u \in DimUsers |-> [v |-> 1, p |-> 1, at |-> 1]], dim |-> [u \in DimUsers |-> copy],
              clock |-> 1, events |-> [u \in DimUsers |-> 0], lock |-> NoConn]
  BY DEF Dim!Init, Dim!NoCopy
<1>2. hist = [masked |-> {}, older |-> {}, unsent |-> {}, expired |-> {}] /\ tx = [c \in Conns |-> Dim!Idle]
  BY DEF Dim!Init, Dim!Resting
<1>3. \A c \in Conns : tx[c].op = "idle"
  BY <1>2 DEF Dim!Idle
<1>4. DimTyped
  <2>1. copy \in [v : Nat, p : Nat, ts : Nat] /\ [v |-> 1, p |-> 1, at |-> 1] \in DimRow
    BY DEF DimRow
  <2>2. /\ [u \in DimUsers |-> [v |-> 1, p |-> 1, at |-> 1]] \in [DimUsers -> DimRow]
        /\ [u \in DimUsers |-> copy] \in [DimUsers -> [v : Nat, p : Nat, ts : Nat]]
        /\ [u \in DimUsers |-> 0] \in [DimUsers -> Nat]
    BY <2>1
  <2>3. db \in DimDb
    BY <1>1, <2>2 DEF DimDb
  <2>4. {} \in SUBSET DimUsers /\ {} \in SUBSET Conns
    OBVIOUS
  <2>5. hist \in DimHist
    BY <1>2, <2>4 DEF DimHist
  <2> QED
    BY <1>2, <2>3, <2>5 DEF DimTyped, DimRuns
<1>5. DimTable
  <2>1. \A u \in DimUsers : db.src[u] = [v |-> 1, p |-> 1, at |-> 1] /\ db.dim[u] = copy /\ db.clock = 1
    BY <1>1
  <2> QED
    BY <1>3, <2>1 DEF DimTable, DimLacks, Flushed, Dim!Missing, Dim!NoCopy
<1> QED
  BY <1>3, <1>4, <1>5 DEF DimInv, DimFlight, DimOwn, Writing, Having, Dim!OneReconciler, Dim!Running

LEMMA DimNext == DimInv /\ Dim!Next => DimInv'
<1> SUFFICES ASSUME DimInv, Dim!Next PROVE DimInv'
  OBVIOUS
<1>1. CASE Dim!LockExpires
  BY <1>1, DimExpires
<1>2. CASE \E c \in Conns, u \in DimUsers : Dim!FlushUser(c, u) \/ Dim!ChangeProfile(c, u)
             \/ Dim!RefreshUserDimEvent(c, u)
  BY <1>2, DimBegins, DimProfiles
<1>3. CASE \E c \in Conns :
             \/ Dim!SyncIds(c, DimUsers)
             \/ Dim!CommitUser(c) \/ Dim!LoadSourceRows(c) \/ Dim!StampRows(c) \/ Dim!UpsertDimRows(c)
                 \/ Dim!SyncFails(c) \/ Dim!ScanDim(c)
             \/ Dim!Incremental(c) \/ Dim!ReconcileUserDim(c) \/ Dim!NextRound(c) \/ Dim!ReleaseGet(c)
                 \/ Dim!ReleaseDel(c) \/ Dim!ReleaseFails(c)
  <2> PICK c \in Conns :
             \/ Dim!SyncIds(c, DimUsers)
             \/ Dim!CommitUser(c) \/ Dim!LoadSourceRows(c) \/ Dim!StampRows(c) \/ Dim!UpsertDimRows(c)
                 \/ Dim!SyncFails(c) \/ Dim!ScanDim(c)
             \/ Dim!Incremental(c) \/ Dim!ReconcileUserDim(c) \/ Dim!NextRound(c) \/ Dim!ReleaseGet(c)
                 \/ Dim!ReleaseDel(c) \/ Dim!ReleaseFails(c)
    BY <1>3
  <2>1. CASE Dim!SyncIds(c, DimUsers) \/ Dim!Incremental(c)
    BY <2>1, DimBegins
  <2>2. CASE Dim!CommitUser(c) \/ Dim!LoadSourceRows(c) \/ Dim!StampRows(c) \/ Dim!UpsertDimRows(c)
    BY <2>2, DimCommits, DimLoads, DimStamps, DimUpserts
  <2>3. CASE Dim!SyncFails(c) \/ Dim!ScanDim(c)
    BY <2>3, DimFails, DimScans
  <2>4. CASE Dim!ReconcileUserDim(c) \/ Dim!NextRound(c)
    BY <2>4, DimLocks
  <2>5. CASE Dim!ReleaseGet(c) \/ Dim!ReleaseDel(c) \/ Dim!ReleaseFails(c)
    BY <2>5, DimCompares, DimReleases, DimStrands
  <2> QED
    BY <2>1, <2>2, <2>3, <2>4, <2>5
<1> QED
  BY <1>1, <1>2, <1>3 DEF Dim!Next

LEMMA DimStays == DimInv /\ UNCHANGED <<db, tx, hist, left>> => DimInv'
  BY DEF DimInv, DimTyped, DimTable, DimFlight, DimOwn, DimLacks, DimCarries, DimFound, Told, Coming, Writing, Having,
         Flushed, Dim!Missing,
         Dim!OneReconciler, Dim!Running

LEMMA DimKept == DimInv => Dim!DimSound
<1> SUFFICES ASSUME DimInv PROVE Dim!DimSound
  OBVIOUS
<1>1. \A u \in DimUsers : DimLacks(u)
  BY DEF DimInv, DimTable
<1>2. \A c \in Conns, u \in DimUsers : Coming(c, u) => Dim!Announced(u)
  BY DEF Coming, Dim!Announced, Dim!Open
<1>3. Dim!NetCatches
  BY <1>1 DEF DimLacks, Dim!NetCatches, Dim!Stale
<1>4. Dim!ProfilesArrive
  <2>1. \A u \in DimUsers : Told(u) => Dim!Announced(u) \/ u \in hist.unsent \/ u \in hist.older
    BY <1>2 DEF Told, Dim!Announced
  <2> QED
    BY <1>1, <2>1 DEF DimLacks, Dim!ProfilesArrive
<1> QED
  BY <1>3, <1>4 DEF DimInv, Dim!DimSound

-----------------------------------------------------------------------------
(* The run of one component                                                *)

\* One probe at a time, no commit without its counterpart, no decision
\* twice: auth/circuit_breaker.py, auth/user_http.py, auth/service_admission.py.
THEOREM SeamCorrect == Spec => []SeamSound
<1> DEFINE Inv == focus = "AuthSeam" => SeamInv
<1>1. Init => Inv
  BY SeamInit DEF Init
<1>2. Inv /\ [Next]_vars => Inv'
  <2> SUFFICES ASSUME Inv, [Next]_vars, focus' = "AuthSeam" PROVE SeamInv'
    OBVIOUS
  <2>1. CASE UNCHANGED vars
    BY <2>1, SeamQuiet DEF vars, SeamInv, SeamTyped
  <2>2. CASE Next
    <3>1. SeamInv /\ Seam!Next
      BY <2>2 DEF Next, On, NextSecondFactor, NextSignIn, NextIdWhitelist, NextAdminSessions, NextAuthSeam,
                  NextUserDim, NextStartup, NextReadCache, NextAdminOps, NextBotMedia, NextLoginWays, NextReadiness
    <3> QED
      BY <3>1, SeamNext
  <2> QED
    BY <2>1, <2>2
<1>3. Inv => SeamSound
  BY SeamKept DEF SeamSound
<1> QED
  BY <1>1, <1>2, <1>3, PTL DEF Spec

\* The trail of what administrators do is true and complete, also where the
\* bot or the audit fails: admin/bot_admin_router.py, auth/seams.py.  Media
\* of the bot: a row has its object and counts its uses, files/bot_media.py.
THEOREM BotCorrect == Spec => []BotSound
<1> DEFINE Inv == (focus = "AdminOps" => OpsInv) /\ (focus = "BotMedia" => MediaInv)
<1>1. Init => Inv
  BY OpsInit, MediaInit DEF Init
<1>2. Inv /\ [Next]_vars => Inv'
  <2>1. ASSUME Inv, [Next]_vars, focus' = "AdminOps" PROVE OpsInv'
    <3>1. CASE UNCHANGED vars
      BY <2>1, <3>1, OpsQuiet DEF vars
    <3>2. CASE Next
      <4>1. OpsInv /\ Ops!Next
        BY <2>1, <3>2 DEF Next, On, NextSecondFactor, NextSignIn, NextIdWhitelist, NextAdminSessions, NextAuthSeam,
                  NextUserDim, NextStartup, NextReadCache, NextAdminOps, NextBotMedia, NextLoginWays, NextReadiness
      <4> QED
        BY <4>1, OpsNext
    <3> QED
      BY <2>1, <3>1, <3>2
  <2>2. ASSUME Inv, [Next]_vars, focus' = "BotMedia" PROVE MediaInv'
    <3>1. CASE UNCHANGED vars
      BY <2>2, <3>1, MediaStays DEF vars
    <3>2. CASE Next
      <4>1. MediaInv /\ Media!Next
        BY <2>2, <3>2 DEF Next, On, NextSecondFactor, NextSignIn, NextIdWhitelist, NextAdminSessions, NextAuthSeam,
                  NextUserDim, NextStartup, NextReadCache, NextAdminOps, NextBotMedia, NextLoginWays, NextReadiness
      <4> QED
        BY <4>1, MediaNext
    <3> QED
      BY <2>2, <3>1, <3>2
  <2> QED
    BY <2>1, <2>2
<1>3. Inv => BotSound
  BY OpsKept, MediaFaithful DEF BotSound
<1> QED
  BY <1>1, <1>2, <1>3, PTL DEF Spec

\* Nobody is refused for a bitmap that lost bits, and what the cache answers is
\* committed, unless Redis missed an invalidation or an old value came back
\* before the commit: core/bloom.py, core/cache.py.
THEOREM CachesCorrect == Spec => []CachesSound
<1> DEFINE Inv == (focus = "IdWhitelist" => IdsInv) /\ (focus = "ReadCache" => CacheInv)
<1>1. Init => Inv
  BY IdsInit, CacheInit DEF Init
<1>2. Inv /\ [Next]_vars => Inv'
  <2>1. ASSUME Inv, [Next]_vars, focus' = "IdWhitelist" PROVE IdsInv'
    <3>1. CASE UNCHANGED vars
      BY <2>1, <3>1, IdsStays DEF vars
    <3>2. CASE Next
      <4>1. IdsInv /\ Ids!Next
        BY <2>1, <3>2 DEF Next, On, NextSecondFactor, NextSignIn, NextIdWhitelist, NextAdminSessions, NextAuthSeam,
                  NextUserDim, NextStartup, NextReadCache, NextAdminOps, NextBotMedia, NextLoginWays, NextReadiness
      <4> QED
        BY <4>1, IdsNext
    <3> QED
      BY <2>1, <3>1, <3>2
  <2>2. ASSUME Inv, [Next]_vars, focus' = "ReadCache" PROVE CacheInv'
    <3>1. CASE UNCHANGED vars
      BY <2>2, <3>1, CacheStays DEF vars
    <3>2. CASE Next
      <4>1. CacheInv /\ Cache!Next
        BY <2>2, <3>2 DEF Next, On, NextSecondFactor, NextSignIn, NextIdWhitelist, NextAdminSessions, NextAuthSeam,
                  NextUserDim, NextStartup, NextReadCache, NextAdminOps, NextBotMedia, NextLoginWays, NextReadiness
      <4> QED
        BY <4>1, CacheNext
    <3> QED
      BY <2>2, <3>1, <3>2
  <2> QED
    BY <2>1, <2>2
<1>3. Inv => CachesSound
  BY IdsKept, CacheKept DEF CachesSound
<1> QED
  BY <1>1, <1>2, <1>3, PTL DEF Spec

\* Ready only with every hard dependency and a key, never not ready for a soft one
\* alone; tokens are taken by the key of the last round: app/modules/health/router.py,
\* auth/jwt_keys.py.
THEOREM ReadinessCorrect == Spec => []ReadinessSound
<1> DEFINE Inv == focus = "Readiness" => ReadyInv
<1>1. Init => Inv
  BY ReadyInit DEF Init
<1>2. Inv /\ [Next]_vars => Inv'
  <2> SUFFICES ASSUME Inv, [Next]_vars, focus' = "Readiness" PROVE ReadyInv'
    OBVIOUS
  <2>1. CASE UNCHANGED vars
    BY <2>1, ReadyStays DEF vars
  <2>2. CASE Next
    <3>1. ReadyInv /\ Ready!Next
      BY <2>2 DEF Next, On, NextSecondFactor, NextSignIn, NextIdWhitelist, NextAdminSessions, NextAuthSeam,
                  NextUserDim, NextStartup, NextReadCache, NextAdminOps, NextBotMedia, NextLoginWays, NextReadiness
    <3> QED
      BY <3>1, ReadyNext
  <2> QED
    BY <2>1, <2>2
<1>3. Inv => ReadinessSound
  BY ReadyKept DEF ReadinessSound
<1> QED
  BY <1>1, <1>2, <1>3, PTL DEF Spec

\* Ready processes have a complete schema and their grants, and only one changes
\* it while the lock holds: core/db/init_db.py, core/db/migration_lock.py.
THEOREM StartupCorrect == Spec => []StartupSound
<1> DEFINE Inv == focus = "Startup" => BootInv
<1>1. Init => Inv
  BY BootInit DEF Init
<1>2. Inv /\ [Next]_vars => Inv'
  <2> SUFFICES ASSUME Inv, [Next]_vars, focus' = "Startup" PROVE BootInv'
    OBVIOUS
  <2>1. CASE UNCHANGED vars
    BY <2>1, BootStays DEF vars
  <2>2. CASE Next
    <3>1. BootInv /\ Boot!Next
      BY <2>2 DEF Next, On, NextSecondFactor, NextSignIn, NextIdWhitelist, NextAdminSessions, NextAuthSeam,
                  NextUserDim, NextStartup, NextReadCache, NextAdminOps, NextBotMedia, NextLoginWays, NextReadiness
    <3> QED
      BY <3>1, BootNext
  <2> QED
    BY <2>1, <2>2
<1>3. Inv => StartupSound
  BY BootKept DEF StartupSound
<1> QED
  BY <1>1, <1>2, <1>3, PTL DEF Spec

\* The reports' copy of a user misses a change of the users row only where the
\* next scan finds it, and one reconciler runs at a time, but for the named
\* races: auth/user_dim_sync.py, auth/seams.py.
THEOREM DimCorrect == Spec => []DimSound
<1> DEFINE Inv == focus = "UserDim" => DimInv
<1>1. Init => Inv
  BY DimInit DEF Init
<1>2. Inv /\ [Next]_vars => Inv'
  <2> SUFFICES ASSUME Inv, [Next]_vars, focus' = "UserDim" PROVE DimInv'
    OBVIOUS
  <2>1. CASE UNCHANGED vars
    BY <2>1, DimStays DEF vars
  <2>2. CASE Next
    <3>1. DimInv /\ Dim!Next
      BY <2>2 DEF Next, On, NextSecondFactor, NextSignIn, NextIdWhitelist, NextAdminSessions, NextAuthSeam,
                  NextUserDim, NextStartup, NextReadCache, NextAdminOps, NextBotMedia, NextLoginWays, NextReadiness
    <3> QED
      BY <3>1, DimNext
  <2> QED
    BY <2>1, <2>2
<1>3. Inv => DimSound
  BY DimKept DEF DimSound
<1> QED
  BY <1>1, <1>2, <1>3, PTL DEF Spec

=============================================================================

--------------------------- MODULE AccountProofs ---------------------------
(***************************************************************************)
(* One account, for any number of connections, sessions, processes,        *)
(* coroutines, requests and failures: the snapshot that the business side  *)
(* caches of it (what an invalidation removed does not come back, and the  *)
(* source version in Redis does not go backwards), and its sessions.       *)
(***************************************************************************)
EXTENDS UserSnapCache, MCAuthSessions, TLAPS

\* A request that changes the user has one to change, and every event was
\* sent by a request.
WriterFits ==
  /\ tx # "idle" => db # Missing /\ db.c < MaxVersion
  /\ events <= sent /\ (tx = "open" => events < sent)
  /\ worker = "publish" => events > 0

\* Invalidations announced or heard are not ahead of the last one done, nor
\* that one of the database.
FloorsOrdered ==
  /\ floor <= db.c
  /\ \A p \in Procs : l1floor[p] <= floor /\ \A f \in bcast[p] : f <= floor

\* What a coroutine watches is what it decided on, unless it was touched.
WatchHolds(r) ==
  /\ reader[r].at = "decide" /\ reader[r].clean =>
       reader[r].cur.epoch = epoch /\ snap \in {None, reader[r].cur.snap}
  /\ reader[r].at = "exec" /\ reader[r].clean =>
       reader[r].cap = epoch /\ (snap # None => snap.sv <= reader[r].ver.sv)

\* While Redis keeps its keys, a captured epoch that is still the current one
\* dates the fetched content after the last invalidation.
EpochDates(r) ==
  /\ reader[r].at \in {"fetch", "watch", "decide", "exec"} => reader[r].cap <= epoch
  /\ reader[r].at \in {"watch", "decide", "exec"} /\ reader[r].cap = epoch
       => reader[r].ver.c >= floor

\* What a coroutine is going to mirror in its process, unless an invalidation
\* was heard there meanwhile.
MirrorFresh(r) ==
  /\ reader[r].at = "get" => reader[r].got = None
  /\ reader[r].at = "got" /\ reader[r].got # None /\ reader[r].same
       => reader[r].got.c >= l1floor[ProcOf[r]]
  /\ reader[r].at = "written" /\ reader[r].same => reader[r].ver.c >= l1floor[ProcOf[r]]

IInv ==
  /\ TypeOK /\ WriterFits /\ FloorsOrdered /\ NoStaleSnap /\ NoStaleLocal
  /\ \A r \in Readers : WatchHolds(r)
  /\ restarts = 0 => \A r \in Readers : EpochDates(r) /\ MirrorFresh(r)

-----------------------------------------------------------------------------
(* Types and coroutines                                                    *)

\* A snapshot is a content and a source version; None is not one.
LEMMA SnapFacts ==
  /\ Missing \in Snaps /\ None \notin Snaps
  /\ \A s \in Snaps : s.c \in Nat /\ s.sv \in Nat /\ s.c <= MaxVersion
  /\ Idle \in ReaderType /\ Idle.at = "idle"
<1>1. Missing \in Snaps
  BY SizesAssumption DEF Missing, Snaps, Versions
<1>2. \A s \in Snaps : s \in [c : Nat, sv : Nat] /\ s.c \in Nat /\ s.sv \in Nat /\ s.c <= MaxVersion
  BY SizesAssumption DEF Snaps, Versions
<1>3. None \notin Snaps
  BY <1>2, SizesAssumption
<1>4. Idle \in ReaderType
  BY <1>1, SizesAssumption DEF Idle, ReaderType, Steps, MaybeSnap
<1> QED
  BY <1>1, <1>2, <1>3, <1>4 DEF Idle

\* The initial state: nobody, nothing cached.
LEMMA InitIInv == Init => IInv
<1> SUFFICES ASSUME Init PROVE IInv
  OBVIOUS
<1>1. \A r \in Readers : reader[r] = Idle /\ reader[r].at = "idle"
  BY SnapFacts DEF Init
<1>2. TypeOK
  BY SnapFacts, SizesAssumption DEF Init, TypeOK, MaybeSnap, Versions
<1>3. WriterFits /\ FloorsOrdered /\ NoStaleSnap /\ NoStaleLocal
  BY SnapFacts DEF Init, WriterFits, FloorsOrdered, NoStaleSnap, NoStaleLocal, Missing
<1>4. \A r \in Readers : WatchHolds(r) /\ EpochDates(r) /\ MirrorFresh(r)
  BY <1>1 DEF WatchHolds, EpochDates, MirrorFresh
<1> QED
  BY <1>2, <1>3, <1>4 DEF IInv

\* A step of one coroutine leaves the others as they are.
LEMMA BecomesFacts ==
  ASSUME TypeOK, NEW r \in Readers, NEW new \in ReaderType, Becomes(r, new)
  PROVE  /\ reader' \in [Readers -> ReaderType]
         /\ reader'[r] = new /\ \A q \in Readers \ {r} : reader'[q] = reader[q]
BY DEF TypeOK, Becomes

\* A coroutine that only reads has to care for itself alone.
LEMMA ReaderStep ==
  ASSUME IInv, NEW r \in Readers, NEW new \in ReaderType, Becomes(r, new),
         UNCHANGED <<writer, worker, redis, l1, bcast, floor, l1floor>>, Sound \/ Fault,
         WatchHolds(r)', restarts = 0 => EpochDates(r)' /\ MirrorFresh(r)'
  PROVE  IInv'
<1>0. /\ UNCHANGED <<db, tx, events, sent, worker, snap, epoch, clock, restarts, l1, bcast,
                     floor, l1floor>>
      /\ TypeOK /\ faults' \in 0 .. MaxFaults /\ restarts' \in 0 .. faults'
  BY SizesAssumption DEF writer, redis, IInv, TypeOK, Sound, Fault
<1>1. reader' \in [Readers -> ReaderType] /\ \A q \in Readers \ {r} : reader'[q] = reader[q]
  BY <1>0, BecomesFacts
<1>2. TypeOK'
  BY <1>0, <1>1 DEF TypeOK
<1>3. WriterFits' /\ FloorsOrdered' /\ NoStaleSnap' /\ NoStaleLocal'
  BY <1>0 DEF IInv, WriterFits, FloorsOrdered, NoStaleSnap, NoStaleLocal
<1>4. ASSUME NEW q \in Readers PROVE WatchHolds(q)'
  BY <1>0, <1>1 DEF IInv, WatchHolds
<1>5. ASSUME NEW q \in Readers, restarts' = 0 PROVE EpochDates(q)' /\ MirrorFresh(q)'
  BY <1>0, <1>1, <1>5 DEF IInv, EpochDates, MirrorFresh
<1> QED
  BY <1>2, <1>3, <1>4, <1>5 DEF IInv

-----------------------------------------------------------------------------
(* The read: L1, Redis, the epoch, the database                            *)

\* A coroutine that gives up or has finished.
LEMMA ToIdle ==
  ASSUME IInv, NEW r \in Readers, Becomes(r, Idle), Sound \/ Fault,
         UNCHANGED <<writer, worker, redis, l1, bcast, floor, l1floor>>
  PROVE  IInv'
<1>1. reader'[r] = Idle /\ Idle \in ReaderType /\ Idle.at = "idle"
  BY SnapFacts, BecomesFacts DEF IInv
<1>2. WatchHolds(r)' /\ EpochDates(r)' /\ MirrorFresh(r)'
  BY <1>1 DEF WatchHolds, EpochDates, MirrorFresh
<1> QED
  BY <1>1, <1>2, ReaderStep

\* The look-up of the snapshot in Redis.
LEMMA LookUpIInv ==
  ASSUME IInv, NEW r \in Readers, Sound \/ Fault,
         LocalMiss(r) \/ GetSnap(r) \/ GetFails(r) \/ MissSnap(r)
  PROVE  IInv'
<1>0. TypeOK /\ reader[r] \in ReaderType
  BY DEF IInv, TypeOK
<1>1. CASE LocalMiss(r)
  <2> DEFINE new == [Idle EXCEPT !.at = "get"]
  <2>1. new \in ReaderType /\ new.at = "get" /\ new.got = None
    BY SnapFacts DEF ReaderType, Steps, Idle
  <2>2. Becomes(r, new)
    BY <1>1 DEF LocalMiss
  <2> HIDE DEF new
  <2>3. WatchHolds(r)' /\ EpochDates(r)' /\ MirrorFresh(r)'
    BY <1>0, <2>1, <2>2, BecomesFacts DEF WatchHolds, EpochDates, MirrorFresh
  <2> QED
    BY <1>1, <2>1, <2>2, <2>3, ReaderStep DEF LocalMiss
<1>2. CASE GetSnap(r)
  <2> DEFINE new == [reader[r] EXCEPT !.at = "got", !.got = snap]
  <2>1. new \in ReaderType
    BY <1>0 DEF ReaderType, Steps, TypeOK
  <2>2. new.at = "got" /\ new.got = snap
    BY <1>0 DEF ReaderType
  <2>3. Becomes(r, new) /\ UNCHANGED <<l1floor, restarts>>
    BY <1>2 DEF GetSnap, redis
  <2> HIDE DEF new
  <2>4. WatchHolds(r)' /\ EpochDates(r)'
    BY <1>0, <2>1, <2>2, <2>3, BecomesFacts DEF WatchHolds, EpochDates
  <2>5. ASSUME restarts = 0 PROVE MirrorFresh(r)'
    <3>1. snap # None => snap.c >= l1floor[ProcOf[r]]
      <4>1. snap # None => snap.c >= floor /\ snap.c \in Nat
        BY <1>0, <2>5, SnapFacts DEF IInv, NoStaleSnap, TypeOK, MaybeSnap
      <4>2. l1floor[ProcOf[r]] <= floor /\ l1floor[ProcOf[r]] \in Nat /\ floor \in Nat
        BY <1>0, ProcOfAssumption DEF IInv, FloorsOrdered, TypeOK, Versions
      <4> QED
        BY <4>1, <4>2
    <3> QED
      BY <1>0, <2>1, <2>2, <2>3, <3>1, BecomesFacts DEF MirrorFresh
  <2> QED
    BY <1>2, <2>1, <2>3, <2>4, <2>5, ReaderStep DEF GetSnap
<1>3. CASE GetFails(r)
  <2> DEFINE new == [reader[r] EXCEPT !.at = "got"]
  <2>1. new \in ReaderType
    BY <1>0 DEF ReaderType, Steps
  <2>2. new.at = "got" /\ new.got = reader[r].got
    BY <1>0 DEF ReaderType
  <2>3. Becomes(r, new)
    BY <1>3 DEF GetFails
  <2> HIDE DEF new
  <2>4. WatchHolds(r)' /\ EpochDates(r)'
    BY <1>0, <2>1, <2>2, <2>3, BecomesFacts DEF WatchHolds, EpochDates
  <2>5. ASSUME restarts = 0 PROVE MirrorFresh(r)'
    BY <1>0, <1>3, <2>1, <2>2, <2>3, <2>5, BecomesFacts DEF MirrorFresh, IInv, GetFails
  <2> QED
    BY <1>3, <2>1, <2>3, <2>4, <2>5, ReaderStep DEF GetFails
<1>4. CASE MissSnap(r)
  <2> DEFINE new == [Idle EXCEPT !.at = "epoch"]
  <2>1. new \in ReaderType /\ new.at = "epoch"
    BY SnapFacts DEF ReaderType, Steps
  <2>2. Becomes(r, new)
    BY <1>4 DEF MissSnap
  <2> HIDE DEF new
  <2>3. WatchHolds(r)' /\ EpochDates(r)' /\ MirrorFresh(r)'
    BY <1>0, <2>1, <2>2, BecomesFacts DEF WatchHolds, EpochDates, MirrorFresh
  <2> QED
    BY <1>4, <2>1, <2>2, <2>3, ReaderStep DEF MissSnap
<1> QED
  BY <1>1, <1>2, <1>3, <1>4

\* The epoch is captured, or 0 when Redis fails; then the row is fetched.
LEMMA CaptureIInv ==
  ASSUME IInv, NEW r \in Readers, Sound \/ Fault,
         GetEpoch(r) \/ RegetEpoch(r) \/ EpochFails(r) \/ Fetch(r)
  PROVE  IInv'
<1>0. TypeOK /\ reader[r] \in ReaderType /\ epoch \in Nat
  BY DEF IInv, TypeOK
<1>1. ASSUME NEW cap \in {0, epoch}, Becomes(r, [reader[r] EXCEPT !.at = "fetch", !.cap = cap]),
             UNCHANGED <<writer, worker, redis, l1, bcast, floor, l1floor>>
      PROVE  IInv'
  <2> DEFINE new == [reader[r] EXCEPT !.at = "fetch", !.cap = cap]
  <2>0. cap \in Nat /\ epoch' = epoch
    BY <1>0, <1>1 DEF redis
  <2>1. new \in ReaderType
    BY <1>0, <2>0 DEF ReaderType, Steps
  <2>2. new.at = "fetch" /\ new.cap = cap
    BY <1>0 DEF ReaderType
  <2>3. Becomes(r, new)
    BY <1>1
  <2> HIDE DEF new
  <2>4. WatchHolds(r)' /\ EpochDates(r)' /\ MirrorFresh(r)'
    BY <1>0, <2>0, <2>1, <2>2, <2>3, BecomesFacts DEF WatchHolds, EpochDates, MirrorFresh
  <2> QED
    BY <1>1, <2>1, <2>3, <2>4, ReaderStep
<1>2. ASSUME Becomes(r, [reader[r] EXCEPT !.at = "init"]),
             UNCHANGED <<writer, worker, redis, l1, bcast, floor, l1floor>>
      PROVE  IInv'
  <2> DEFINE new == [reader[r] EXCEPT !.at = "init"]
  <2>1. new \in ReaderType /\ new.at = "init"
    BY <1>0 DEF ReaderType, Steps
  <2>3. Becomes(r, new)
    BY <1>2
  <2> HIDE DEF new
  <2>4. WatchHolds(r)' /\ EpochDates(r)' /\ MirrorFresh(r)'
    BY <1>0, <2>1, <2>3, BecomesFacts DEF WatchHolds, EpochDates, MirrorFresh
  <2> QED
    BY <1>2, <2>1, <2>3, <2>4, ReaderStep
<1>3. CASE Fetch(r)
  <2> DEFINE new == [reader[r] EXCEPT !.at = "watch", !.ver = db]
  <2>1. new \in ReaderType
    BY <1>0 DEF ReaderType, Steps, TypeOK
  <2>2. new.at = "watch" /\ new.ver = db /\ new.cap = reader[r].cap
    BY <1>0 DEF ReaderType
  <2>3. Becomes(r, new) /\ UNCHANGED <<epoch, floor>> /\ reader[r].at = "fetch"
    BY <1>3 DEF Fetch, redis
  <2>f. floor <= db.c /\ floor \in Nat /\ db.c \in Nat
    BY <1>0, SnapFacts DEF IInv, FloorsOrdered, TypeOK, Versions
  <2> HIDE DEF new
  <2>4. WatchHolds(r)' /\ MirrorFresh(r)'
    BY <1>0, <2>1, <2>2, <2>3, BecomesFacts DEF WatchHolds, MirrorFresh
  <2>5. ASSUME restarts = 0 PROVE EpochDates(r)'
    BY <1>0, <2>1, <2>2, <2>3, <2>5, <2>f, BecomesFacts DEF EpochDates, IInv
  <2> QED
    BY <1>3, <2>1, <2>3, <2>4, <2>5, ReaderStep DEF Fetch
<1> QED
  BY <1>1, <1>2, <1>3 DEF GetEpoch, RegetEpoch, EpochFails

\* write_if_newer up to EXEC, and its failures.
LEMMA CasIInv ==
  ASSUME IInv, NEW r \in Readers, Sound \/ Fault,
         Watch(r) \/ Decide(r) \/ ExecAborts(r) \/ WriteFails(r)
  PROVE  IInv'
<1>0. TypeOK /\ reader[r] \in ReaderType /\ epoch \in Nat
  BY DEF IInv, TypeOK
<1>u. UNCHANGED <<writer, worker, redis, l1, bcast, floor, l1floor>>
  BY DEF Watch, Decide, ExecAborts, WriteFails
<1>1. CASE Becomes(r, Idle)
  BY <1>1, <1>u, ToIdle
<1>2. CASE Watch(r)
  <2> DEFINE new == [reader[r] EXCEPT !.at = "decide", !.clean = TRUE,
                       !.cur = [epoch |-> epoch, snap |-> snap]]
  <2>1. new \in ReaderType
    BY <1>0 DEF ReaderType, Steps, TypeOK
  <2>2. /\ new.at = "decide" /\ new.cur.epoch = epoch /\ new.cur.snap = snap
        /\ new.cap = reader[r].cap /\ new.ver = reader[r].ver
    BY <1>0 DEF ReaderType
  <2>3. Becomes(r, new) /\ UNCHANGED <<epoch, floor, snap>> /\ reader[r].at = "watch"
    BY <1>2 DEF Watch, redis
  <2> HIDE DEF new
  <2>4. WatchHolds(r)' /\ MirrorFresh(r)'
    BY <1>0, <2>1, <2>2, <2>3, BecomesFacts DEF WatchHolds, MirrorFresh
  <2>5. ASSUME restarts = 0 PROVE EpochDates(r)'
    BY <1>0, <2>1, <2>2, <2>3, <2>5, BecomesFacts DEF EpochDates, IInv
  <2> QED
    BY <1>u, <2>1, <2>3, <2>4, <2>5, ReaderStep
<1>3. CASE Decide(r) /\ ~Refused(r)
  <2> DEFINE new == [reader[r] EXCEPT !.at = "exec", !.same = TRUE, !.cur = Idle.cur]
  <2>1. new \in ReaderType
    BY <1>0, SnapFacts DEF ReaderType, Steps
  <2>2. /\ new.at = "exec" /\ new.cap = reader[r].cap /\ new.ver = reader[r].ver
        /\ new.clean = reader[r].clean
    BY <1>0 DEF ReaderType
  <2>3. Becomes(r, new) /\ UNCHANGED <<epoch, floor, snap>> /\ reader[r].at = "decide"
    BY <1>3 DEF Decide, redis
  <2>c. reader[r].clean => reader[r].cap = epoch /\ (snap # None => snap.sv <= reader[r].ver.sv)
    <3>1. reader[r].cur.epoch = reader[r].cap
      BY <1>3 DEF Refused, Invalidated
    <3>2. /\ reader[r].cur.snap # None => ~(reader[r].cur.snap.sv > reader[r].ver.sv)
          /\ reader[r].cur.snap # None => reader[r].cur.snap.sv \in Nat
          /\ reader[r].ver.sv \in Nat
      BY <1>0, <1>3, SnapFacts DEF Refused, Older, ReaderType, MaybeSnap
    <3> QED
      BY <2>3, <3>1, <3>2 DEF IInv, WatchHolds
  <2> HIDE DEF new
  <2>4. WatchHolds(r)' /\ MirrorFresh(r)'
    BY <1>0, <2>1, <2>2, <2>3, <2>c, BecomesFacts DEF WatchHolds, MirrorFresh
  <2>5. ASSUME restarts = 0 PROVE EpochDates(r)'
    BY <1>0, <2>1, <2>2, <2>3, <2>5, BecomesFacts DEF EpochDates, IInv
  <2> QED
    BY <1>u, <2>1, <2>3, <2>4, <2>5, ReaderStep
<1>4. CASE ExecAborts(r) /\ reader[r].tries + 1 # MaxCas
  <2> DEFINE new == [reader[r] EXCEPT !.at = "watch", !.same = TRUE, !.clean = TRUE, !.tries = @ + 1]
  <2>0. reader[r].tries + 1 \in 0 .. MaxCas - 1
    BY <1>0, <1>4, SizesAssumption DEF ReaderType
  <2>1. new \in ReaderType
    BY <1>0, <2>0 DEF ReaderType, Steps
  <2>2. new.at = "watch" /\ new.cap = reader[r].cap /\ new.ver = reader[r].ver
    BY <1>0 DEF ReaderType
  <2>3. Becomes(r, new) /\ UNCHANGED <<epoch, floor>> /\ reader[r].at = "exec"
    BY <1>4 DEF ExecAborts, redis
  <2> HIDE DEF new
  <2>4. WatchHolds(r)' /\ MirrorFresh(r)'
    BY <1>0, <2>1, <2>2, <2>3, BecomesFacts DEF WatchHolds, MirrorFresh
  <2>5. ASSUME restarts = 0 PROVE EpochDates(r)'
    BY <1>0, <2>1, <2>2, <2>3, <2>5, BecomesFacts DEF EpochDates, IInv
  <2> QED
    BY <1>u, <2>1, <2>3, <2>4, <2>5, ReaderStep
<1> QED
  BY <1>1, <1>2, <1>3, <1>4 DEF Decide, ExecAborts, WriteFails

-----------------------------------------------------------------------------
(* Steps that reach a process's own cache                                  *)

\* A value that is not older than what the process has heard of enters its
\* cache: the coroutine is through.
LEMMA FillIInv ==
  ASSUME IInv, NEW r \in Readers, Becomes(r, Idle), Sound,
         UNCHANGED <<writer, worker, redis, bcast, floor, l1floor>>,
         NEW v \in Snaps \ {Missing}, l1' = [l1 EXCEPT ![ProcOf[r]] = v] \/ l1' = l1,
         restarts = 0 /\ l1' # l1 => v.c >= l1floor[ProcOf[r]]
  PROVE  IInv'
<1>0. /\ UNCHANGED <<db, tx, events, sent, worker, snap, epoch, clock, restarts, faults, bcast,
                     floor, l1floor>>
      /\ TypeOK /\ ProcOf[r] \in Procs
  BY ProcOfAssumption DEF writer, redis, IInv, Sound
<1>1. /\ reader' \in [Readers -> ReaderType] /\ reader'[r].at = "idle"
      /\ \A q \in Readers \ {r} : reader'[q] = reader[q]
  BY <1>0, SnapFacts, BecomesFacts
<1>2. l1' \in [Procs -> MaybeSnap \ {Missing}]
  BY <1>0 DEF TypeOK, MaybeSnap
<1>3. TypeOK'
  BY <1>0, <1>1, <1>2 DEF TypeOK
<1>4. WriterFits' /\ FloorsOrdered' /\ NoStaleSnap'
  BY <1>0 DEF IInv, WriterFits, FloorsOrdered, NoStaleSnap
<1>5. NoStaleLocal'
  BY <1>0 DEF IInv, NoStaleLocal, TypeOK
<1>6. ASSUME NEW q \in Readers PROVE WatchHolds(q)'
  BY <1>0, <1>1 DEF IInv, WatchHolds
<1>7. ASSUME NEW q \in Readers, restarts' = 0 PROVE EpochDates(q)' /\ MirrorFresh(q)'
  BY <1>0, <1>1, <1>7 DEF IInv, EpochDates, MirrorFresh
<1> QED
  BY <1>3, <1>4, <1>5, <1>6, <1>7 DEF IInv

\* A hit in Redis, mirrored or not.
LEMMA UseSnapIInv ==
  ASSUME IInv, NEW r \in Readers, UseSnap(r), Sound PROVE IInv'
<1> DEFINE g == reader[r].got
<1>0. /\ reader[r].at = "got" /\ g # None /\ Becomes(r, Idle) /\ g \in Snaps
      /\ UNCHANGED <<writer, worker, redis, bcast, floor, l1floor>>
  BY DEF UseSnap, IInv, TypeOK, ReaderType, MaybeSnap
<1>1. \/ l1' = l1
      \/ g # Missing /\ reader[r].same /\ l1' = [l1 EXCEPT ![ProcOf[r]] = g]
  BY DEF UseSnap
<1>2. CASE l1' = l1
  BY <1>0, <1>2, ToIdle
<1>3. CASE g # Missing /\ reader[r].same /\ l1' = [l1 EXCEPT ![ProcOf[r]] = g]
  <2>1. restarts = 0 => g.c >= l1floor[ProcOf[r]]
    BY <1>0, <1>3 DEF IInv, MirrorFresh
  <2> QED
    BY <1>0, <1>3, <2>1, FillIInv
<1> QED
  BY <1>1, <1>2, <1>3

\* The written value, mirrored or not.
LEMMA MirrorIInv ==
  ASSUME IInv, NEW r \in Readers, Mirror(r), Sound PROVE IInv'
<1> DEFINE v == reader[r].ver
<1>0. /\ reader[r].at = "written" /\ Becomes(r, Idle) /\ v \in Snaps
      /\ UNCHANGED <<writer, worker, redis, bcast, floor, l1floor>>
  BY DEF Mirror, IInv, TypeOK, ReaderType
<1>1. \/ l1' = l1
      \/ v # Missing /\ reader[r].same /\ l1' = [l1 EXCEPT ![ProcOf[r]] = v]
  BY DEF Mirror
<1>2. CASE l1' = l1
  BY <1>0, <1>2, ToIdle
<1>3. CASE v # Missing /\ reader[r].same /\ l1' = [l1 EXCEPT ![ProcOf[r]] = v]
  <2>1. restarts = 0 => v.c >= l1floor[ProcOf[r]]
    BY <1>0, <1>3 DEF IInv, MirrorFresh
  <2> QED
    BY <1>0, <1>3, <2>1, FillIInv
<1> QED
  BY <1>1, <1>2, <1>3

\* What an l1_delete does to the coroutines of a process.
LEMMA ForgottenFacts ==
  ASSUME TypeOK, NEW p \in Procs
  PROVE  /\ Forgotten(p) \in [Readers -> ReaderType]
         /\ \A q \in Readers :
              /\ Forgotten(p)[q].at = reader[q].at /\ Forgotten(p)[q].got = reader[q].got
              /\ Forgotten(p)[q].cap = reader[q].cap /\ Forgotten(p)[q].ver = reader[q].ver
              /\ Forgotten(p)[q].cur = reader[q].cur /\ Forgotten(p)[q].clean = reader[q].clean
              /\ Forgotten(p)[q].same => reader[q].same
              /\ ProcOf[q] = p /\ reader[q].at \in {"got", "written"} => ~Forgotten(p)[q].same
<1> SUFFICES ASSUME NEW q \in Readers
             PROVE  /\ Forgotten(p)[q] \in ReaderType
                    /\ Forgotten(p)[q].at = reader[q].at /\ Forgotten(p)[q].got = reader[q].got
                    /\ Forgotten(p)[q].cap = reader[q].cap /\ Forgotten(p)[q].ver = reader[q].ver
                    /\ Forgotten(p)[q].cur = reader[q].cur /\ Forgotten(p)[q].clean = reader[q].clean
                    /\ Forgotten(p)[q].same => reader[q].same
                    /\ ProcOf[q] = p /\ reader[q].at \in {"got", "written"} => ~Forgotten(p)[q].same
  BY DEF Forgotten
<1>0. reader[q] \in ReaderType
  BY DEF TypeOK
<1>1. CASE q \in Comparing(p)
  <2>1. Forgotten(p)[q] = [reader[q] EXCEPT !.same = FALSE]
    BY <1>1 DEF Forgotten
  <2>2. [reader[q] EXCEPT !.same = FALSE] \in ReaderType
    BY <1>0 DEF ReaderType
  <2> QED
    BY <1>0, <2>1, <2>2 DEF ReaderType
<1>2. CASE q \notin Comparing(p)
  <2>1. Forgotten(p)[q] = reader[q]
    BY <1>2 DEF Forgotten
  <2> QED
    BY <1>0, <1>2, <2>1 DEF Comparing
<1> QED
  BY <1>1, <1>2

\* A process hears of an invalidation: its entry goes, and what its coroutines
\* carry will not be mirrored.
LEMMA HearIInv ==
  ASSUME IInv, NEW p \in Procs, Hear(p), Sound PROVE IInv'
<1>0. /\ UNCHANGED <<db, tx, events, sent, worker, snap, epoch, clock, restarts, faults, floor>>
      /\ TypeOK /\ reader' = Forgotten(p) /\ l1' = [l1 EXCEPT ![p] = None]
  BY DEF Hear, writer, redis, IInv, Sound
<1>f. PICK f \in bcast[p] :
        /\ bcast' = [bcast EXCEPT ![p] = @ \ {f}]
        /\ l1floor' = [l1floor EXCEPT ![p] = IF f > @ THEN f ELSE @]
  BY DEF Hear
<1>1. /\ bcast' \in [Procs -> SUBSET Versions] /\ l1floor' \in [Procs -> Versions]
      /\ \A o \in Procs : o # p => l1floor'[o] = l1floor[o] /\ l1'[o] = l1[o]
      /\ l1'[p] = None /\ l1' \in [Procs -> MaybeSnap \ {Missing}]
  BY <1>0, <1>f, SnapFacts DEF TypeOK, MaybeSnap
<1>2. TypeOK'
  BY <1>0, <1>1, ForgottenFacts DEF TypeOK
<1>3. WriterFits' /\ NoStaleSnap'
  BY <1>0 DEF IInv, WriterFits, NoStaleSnap
<1>4. FloorsOrdered'
  BY <1>0, <1>f DEF IInv, FloorsOrdered, TypeOK
<1>5. NoStaleLocal'
  BY <1>0, <1>1 DEF IInv, NoStaleLocal
<1>6. ASSUME NEW q \in Readers PROVE WatchHolds(q)'
  BY <1>0, ForgottenFacts DEF IInv, WatchHolds
<1>7. ASSUME NEW q \in Readers, restarts' = 0 PROVE EpochDates(q)'
  BY <1>0, <1>7, ForgottenFacts DEF IInv, EpochDates
<1>8. ASSUME NEW q \in Readers, restarts' = 0 PROVE MirrorFresh(q)'
  <2>1. MirrorFresh(q) /\ ProcOf[q] \in Procs
    BY <1>0, <1>8, ProcOfAssumption DEF IInv
  <2>2. CASE ProcOf[q] = p
    BY <1>0, <2>1, <2>2, ForgottenFacts DEF MirrorFresh
  <2>3. CASE ProcOf[q] # p
    BY <1>0, <1>1, <2>1, <2>3, ForgottenFacts DEF MirrorFresh
  <2> QED
    BY <2>2, <2>3
<1> QED
  BY <1>2, <1>3, <1>4, <1>5, <1>6, <1>7, <1>8 DEF IInv

-----------------------------------------------------------------------------
(* Steps that write a watched key                                          *)

\* Every transaction that watches is told; nothing else changes for a
\* coroutine.
LEMMA TouchedFacts ==
  ASSUME TypeOK
  PROVE  /\ Touched \in [Readers -> ReaderType]
         /\ \A q \in Readers :
              /\ Touched[q].at = reader[q].at /\ Touched[q].got = reader[q].got
              /\ Touched[q].cap = reader[q].cap /\ Touched[q].ver = reader[q].ver
              /\ Touched[q].same = reader[q].same
              /\ Touched[q].at \in {"decide", "exec"} => ~Touched[q].clean
<1> SUFFICES ASSUME NEW q \in Readers
             PROVE  /\ Touched[q] \in ReaderType
                    /\ Touched[q].at = reader[q].at /\ Touched[q].got = reader[q].got
                    /\ Touched[q].cap = reader[q].cap /\ Touched[q].ver = reader[q].ver
                    /\ Touched[q].same = reader[q].same
                    /\ Touched[q].at \in {"decide", "exec"} => ~Touched[q].clean
  BY DEF Touched
<1>0. reader[q] \in ReaderType
  BY DEF TypeOK
<1>1. CASE q \in Watching
  <2>1. Touched[q] = [reader[q] EXCEPT !.clean = FALSE]
    BY <1>1 DEF Touched
  <2>2. [reader[q] EXCEPT !.clean = FALSE] \in ReaderType
    BY <1>0 DEF ReaderType
  <2> QED
    BY <1>0, <2>1, <2>2 DEF ReaderType
<1>2. CASE q \notin Watching
  <2>1. Touched[q] = reader[q]
    BY <1>2 DEF Touched
  <2> QED
    BY <1>0, <1>2, <2>1 DEF Watching
<1> QED
  BY <1>1, <1>2

\* The same when the writer of the key is itself a coroutine.
LEMMA TouchedButFacts ==
  ASSUME TypeOK, NEW r \in Readers, NEW new \in ReaderType, reader' = TouchedBut(r, new)
  PROVE  /\ reader' \in [Readers -> ReaderType]
         /\ reader'[r] = new /\ \A q \in Readers \ {r} : reader'[q] = Touched[q]
BY TouchedFacts DEF TouchedBut

\* Redis restarts without its keys; what was promised of them is void.
LEMMA RestartIInv == ASSUME IInv, RestartRedis, Fault PROVE IInv'
<1>0. /\ UNCHANGED <<db, tx, events, sent, worker, clock, l1, bcast, floor, l1floor>>
      /\ TypeOK /\ reader' = Touched /\ snap' = None /\ epoch' = 0
  BY DEF RestartRedis, writer, IInv
<1>1. restarts' \in 0 .. faults' /\ restarts' # 0 /\ faults' \in 0 .. MaxFaults
  BY <1>0, SizesAssumption DEF RestartRedis, Fault, TypeOK
<1>2. TypeOK'
  BY <1>0, <1>1, TouchedFacts DEF TypeOK, MaybeSnap
<1>3. WriterFits' /\ FloorsOrdered' /\ NoStaleSnap' /\ NoStaleLocal'
  BY <1>0, <1>1 DEF IInv, WriterFits, FloorsOrdered, NoStaleSnap, NoStaleLocal
<1>4. ASSUME NEW q \in Readers PROVE WatchHolds(q)'
  BY <1>0, TouchedFacts DEF WatchHolds
<1> QED
  BY <1>1, <1>2, <1>3, <1>4 DEF IInv

\* An invalidation: every epoch captured before it is now an old one.
LEMMA InvalidateIInv == ASSUME IInv, Invalidate, Sound PROVE IInv'
<1>0. /\ UNCHANGED <<db, tx, events, sent, clock, restarts, faults, l1, bcast, l1floor>>
      /\ TypeOK /\ reader' = Touched /\ snap' = None /\ epoch' = epoch + 1 /\ floor' = db.c
      /\ worker' = "publish" /\ events > 0
  BY DEF Invalidate, Sound, writer, IInv
<1>1. epoch \in Nat /\ epoch' \in Nat /\ floor' \in Versions
  BY <1>0, SnapFacts DEF TypeOK, Versions, Snaps
<1>2. TypeOK'
  BY <1>0, <1>1, TouchedFacts DEF TypeOK, MaybeSnap
<1>3. WriterFits' /\ NoStaleSnap' /\ NoStaleLocal'
  BY <1>0 DEF IInv, WriterFits, NoStaleSnap, NoStaleLocal
<1>4. FloorsOrdered'
  <2>1. floor \in Nat /\ db.c \in Nat /\ floor <= db.c
    BY <1>0, SnapFacts DEF IInv, FloorsOrdered, TypeOK, Versions
  <2>2. ASSUME NEW p \in Procs PROVE l1floor[p] <= db.c /\ \A f \in bcast[p] : f <= db.c
    <3>1. l1floor[p] \in Nat /\ \A f \in bcast[p] : f \in Nat
      BY <1>0 DEF TypeOK, Versions
    <3> QED
      BY <2>1, <3>1 DEF IInv, FloorsOrdered
  <2> QED
    BY <1>0, <2>1, <2>2 DEF FloorsOrdered
<1>5. ASSUME NEW q \in Readers PROVE WatchHolds(q)'
  BY <1>0, TouchedFacts DEF WatchHolds
<1>6. ASSUME NEW q \in Readers, restarts' = 0 PROVE EpochDates(q)' /\ MirrorFresh(q)'
  <2>1. EpochDates(q) /\ MirrorFresh(q) /\ reader[q].cap \in Nat
    BY <1>0, <1>6 DEF IInv, TypeOK, ReaderType
  <2>2. EpochDates(q)'
    <3>1. reader[q].cap <= epoch => reader[q].cap <= epoch + 1 /\ reader[q].cap # epoch + 1
      BY <1>1, <2>1
    <3> QED
      BY <1>0, <2>1, <3>1, TouchedFacts DEF EpochDates
  <2> QED
    BY <1>0, <2>1, <2>2, TouchedFacts DEF MirrorFresh
<1> QED
  BY <1>2, <1>3, <1>4, <1>5, <1>6 DEF IInv

\* The epoch is initialised with a stamp above every epoch captured so far.
LEMMA InitEpochIInv ==
  ASSUME IInv, NEW r \in Readers, InitEpoch(r), Sound PROVE IInv'
<1> DEFINE new == [reader[r] EXCEPT !.at = "reget"]
<1>0. TypeOK /\ reader[r] \in ReaderType /\ epoch \in Nat /\ clock \in Nat
  BY DEF IInv, TypeOK
<1>1. new \in ReaderType /\ new.at = "reget"
  BY <1>0 DEF ReaderType, Steps
<1> HIDE DEF new
<1>2. CASE epoch # 0
  <2>1. Becomes(r, new) /\ UNCHANGED <<writer, worker, redis, l1, bcast, floor, l1floor>>
    BY <1>2 DEF InitEpoch, redis, new
  <2>2. WatchHolds(r)' /\ EpochDates(r)' /\ MirrorFresh(r)'
    BY <1>0, <1>1, <2>1, BecomesFacts DEF WatchHolds, EpochDates, MirrorFresh
  <2> QED
    BY <1>1, <2>1, <2>2, ReaderStep
<1>3. CASE epoch = 0
  <2>0. /\ UNCHANGED <<db, tx, events, sent, worker, snap, restarts, faults, l1, bcast, floor,
                       l1floor>>
        /\ clock' = clock + 1 /\ epoch' = Stamp * clock' /\ reader' = TouchedBut(r, new)
    BY <1>3 DEF InitEpoch, Sound, writer, new
  <2>1. clock' \in Nat /\ epoch' \in Nat /\ epoch' > 0
    <3>1. \A a, b \in Nat \ {0} : a * b \in Nat /\ a * b > 0
      BY SMT
    <3>2. clock' \in Nat \ {0} /\ Stamp \in Nat \ {0}
      BY <1>0, <2>0, SizesAssumption
    <3> QED
      BY <2>0, <3>1, <3>2
  <2>2. /\ reader' \in [Readers -> ReaderType] /\ reader'[r].at = "reget"
        /\ \A q \in Readers \ {r} : reader'[q] = Touched[q]
    BY <1>0, <1>1, <2>0, TouchedButFacts
  <2>3. TypeOK'
    BY <1>0, <2>0, <2>1, <2>2 DEF TypeOK
  <2>4. WriterFits' /\ FloorsOrdered' /\ NoStaleSnap' /\ NoStaleLocal'
    BY <2>0 DEF IInv, WriterFits, FloorsOrdered, NoStaleSnap, NoStaleLocal
  <2>5. ASSUME NEW q \in Readers PROVE WatchHolds(q)'
    BY <1>0, <2>0, <2>2, TouchedFacts DEF WatchHolds
  <2>6. ASSUME NEW q \in Readers, restarts' = 0 PROVE EpochDates(q)' /\ MirrorFresh(q)'
    <3>1. EpochDates(q) /\ MirrorFresh(q) /\ reader[q].cap \in Nat
      BY <1>0, <2>0, <2>6 DEF IInv, TypeOK, ReaderType
    <3>2. reader[q].cap <= epoch => reader[q].cap <= epoch' /\ reader[q].cap # epoch'
      BY <1>3, <2>1, <3>1
    <3>3. EpochDates(q)'
      BY <1>0, <2>0, <2>2, <3>1, <3>2, TouchedFacts DEF EpochDates
    <3> QED
      BY <1>0, <2>0, <2>2, <3>1, <3>3, TouchedFacts DEF MirrorFresh
  <2> QED
    BY <2>3, <2>4, <2>5, <2>6 DEF IInv
<1> QED
  BY <1>2, <1>3

\* The SET goes through: what it writes was fetched after the last
\* invalidation.
LEMMA ExecIInv ==
  ASSUME IInv, NEW r \in Readers, Exec(r), Sound PROVE IInv'
<1> DEFINE new == [reader[r] EXCEPT !.at = "written", !.cap = 0, !.tries = 0]
<1>0. TypeOK /\ reader[r] \in ReaderType /\ reader[r].ver \in Snaps
  BY DEF IInv, TypeOK, ReaderType
<1>z. 0 \in 0 .. MaxCas - 1
  BY SizesAssumption
<1>1. new \in ReaderType
  BY <1>0, <1>z DEF ReaderType, Steps
<1>2. new.at = "written" /\ new.ver = reader[r].ver
  BY <1>0 DEF ReaderType
<1>3. /\ UNCHANGED <<db, tx, events, sent, worker, epoch, clock, restarts, faults, l1, bcast,
                     floor, l1floor>>
      /\ reader[r].at = "exec" /\ reader[r].clean /\ snap' = reader[r].ver
      /\ reader' = TouchedBut(r, new)
  BY DEF Exec, Sound, writer
<1> HIDE DEF new
<1>4. /\ reader' \in [Readers -> ReaderType] /\ reader'[r] = new
      /\ \A q \in Readers \ {r} : reader'[q] = Touched[q]
  BY <1>0, <1>1, <1>3, TouchedButFacts
<1>5. restarts = 0 => reader[r].ver.c >= floor
  BY <1>3 DEF IInv, WatchHolds, EpochDates
<1>6. TypeOK'
  BY <1>0, <1>3, <1>4 DEF TypeOK, MaybeSnap
<1>7. WriterFits' /\ FloorsOrdered' /\ NoStaleSnap' /\ NoStaleLocal'
  BY <1>3, <1>5 DEF IInv, WriterFits, FloorsOrdered, NoStaleSnap, NoStaleLocal
<1>8. ASSUME NEW q \in Readers PROVE WatchHolds(q)'
  BY <1>0, <1>2, <1>3, <1>4, TouchedFacts DEF WatchHolds
<1>9. ASSUME NEW q \in Readers, restarts' = 0 PROVE EpochDates(q)' /\ MirrorFresh(q)'
  <2>1. EpochDates(q) /\ MirrorFresh(q)
    BY <1>3, <1>9 DEF IInv
  <2>2. EpochDates(q)'
    BY <1>0, <1>2, <1>3, <1>4, <2>1, TouchedFacts DEF EpochDates
  <2>3. reader[r].ver.c >= l1floor[ProcOf[r]]
    <3>1. l1floor[ProcOf[r]] <= floor /\ l1floor[ProcOf[r]] \in Nat /\ floor \in Nat
      BY <1>0, ProcOfAssumption DEF IInv, FloorsOrdered, TypeOK, Versions
    <3>2. reader[r].ver.c \in Nat /\ reader[r].ver.c >= floor
      BY <1>0, <1>3, <1>5, <1>9, SnapFacts
    <3> QED
      BY <3>1, <3>2
  <2>4. MirrorFresh(q)'
    BY <1>0, <1>2, <1>3, <1>4, <2>1, <2>3, TouchedFacts DEF MirrorFresh
  <2> QED
    BY <2>2, <2>4
<1> QED
  BY <1>6, <1>7, <1>8, <1>9 DEF IInv

-----------------------------------------------------------------------------
(* Requests, the worker and expiry                                         *)

\* A step that touches neither Redis nor a coroutine.
LEMMA AsideIInv ==
  ASSUME IInv, UNCHANGED <<snap, epoch, restarts, reader, floor, l1floor>>,
         TypeOK', WriterFits', FloorsOrdered', NoStaleLocal'
  PROVE  IInv'
BY DEF IInv, NoStaleSnap, WatchHolds, EpochDates, MirrorFresh

\* The requests that create or change the user.
LEMMA RequestIInv ==
  ASSUME IInv, \/ (CreateUser \/ WriteUser \/ NotifyUser \/ CommitUser \/ RollbackUser) /\ Sound
               \/ NotifyFails /\ Fault
  PROVE  IInv'
<1>0. /\ UNCHANGED <<worker, snap, epoch, clock, restarts, l1, bcast, reader, floor, l1floor>>
      /\ TypeOK /\ faults' \in 0 .. MaxFaults /\ restarts' \in 0 .. faults'
  BY SizesAssumption DEF CreateUser, WriteUser, NotifyUser, CommitUser, RollbackUser, NotifyFails,
                         redis, IInv, TypeOK, Sound, Fault
<1>1. /\ events \in Nat /\ sent \in Nat /\ events <= sent /\ sent <= MaxEvents
      /\ MaxEvents \in Nat /\ MaxVersion \in Nat \ {0}
  BY <1>0, SizesAssumption DEF IInv, WriterFits, TypeOK
<1>2. /\ db \in Snaps /\ db.c \in Nat /\ db.sv \in Nat /\ db.sv <= db.c /\ db.c <= MaxVersion
      /\ db.c = 0 <=> db.sv = 0
  BY <1>0, <1>1 DEF TypeOK, Snaps, Versions
<1>3. /\ db' \in Snaps /\ db'.c >= db.c /\ db'.c \in Nat
      /\ tx' \in {"idle", "open", "sent"}
      /\ tx' # "idle" => db' # Missing /\ db'.c < MaxVersion
  <2>1. CASE CreateUser
    <3>1. db'.c = 1 /\ db.c = 0 /\ tx' = "idle"
      BY <2>1 DEF CreateUser, Missing, IInv, WriterFits, TypeOK
    <3>2. db' \in Snaps
      BY <1>1, <2>1 DEF CreateUser, Snaps, Versions
    <3> QED
      BY <3>1, <3>2
  <2>2. CASE WriteUser \/ NotifyUser \/ NotifyFails \/ RollbackUser
    BY <1>2, <2>2 DEF WriteUser, NotifyUser, NotifyFails, RollbackUser, IInv, WriterFits
  <2>3. CASE CommitUser
    <3>1. PICK moved \in {0, 1} : db' = [c |-> db.c + 1, sv |-> db.sv + moved]
      BY <2>3 DEF CommitUser
    <3>2. db.c < MaxVersion /\ db.c # 0 /\ tx' = "idle"
      <4>1. db # Missing /\ db.c < MaxVersion /\ tx' = "idle"
        BY <2>3 DEF CommitUser, IInv, WriterFits
      <4>2. ASSUME db.c = 0 PROVE FALSE
        BY <1>2, <4>1, <4>2 DEF Snaps, Missing
      <4> QED
        BY <4>1, <4>2
    <3>3. db' \in Snaps
      BY <1>1, <1>2, <3>1, <3>2 DEF Snaps, Versions
    <3> QED
      BY <1>2, <3>1, <3>2, <3>3
  <2> QED
    BY <2>1, <2>2, <2>3
<1>4. /\ sent' \in 0 .. MaxEvents /\ events' \in 0 .. MaxEvents
      /\ events' <= sent' /\ events' >= events /\ (tx' = "open" => events' < sent')
  BY <1>1 DEF CreateUser, WriteUser, NotifyUser, CommitUser, RollbackUser, NotifyFails,
              IInv, WriterFits
<1>5. TypeOK'
  BY <1>0, <1>3, <1>4 DEF TypeOK
<1>6. WriterFits'
  <2>1. worker' = "publish" => events' > 0
    BY <1>0, <1>1, <1>4 DEF IInv, WriterFits
  <2> QED
    BY <1>3, <1>4, <2>1 DEF WriterFits
<1>7. FloorsOrdered'
  <2>1. floor <= db.c /\ floor \in Nat
    BY <1>0 DEF IInv, FloorsOrdered, TypeOK, Versions
  <2>2. floor' <= db'.c
    BY <1>0, <1>2, <1>3, <2>1
  <2> QED
    BY <1>0, <2>2 DEF IInv, FloorsOrdered
<1>8. NoStaleLocal'
  BY <1>0 DEF IInv, NoStaleLocal
<1> QED
  BY <1>0, <1>5, <1>6, <1>7, <1>8, AsideIInv

\* The worker skips, publishes or dies.
LEMMA WorkerIInv ==
  ASSUME IInv, \/ PublishInvalidate /\ Sound
               \/ (InvalidateSkips \/ WorkerDies) /\ Fault
  PROVE  IInv'
<1>0. /\ UNCHANGED <<db, tx, sent, snap, epoch, clock, restarts, l1, reader, floor, l1floor>>
      /\ TypeOK /\ faults' \in 0 .. MaxFaults /\ restarts' \in 0 .. faults' /\ worker' = "idle"
  BY SizesAssumption DEF PublishInvalidate, InvalidateSkips, WorkerDies,
                         redis, writer, IInv, TypeOK, Sound, Fault
<1>1. events \in Nat /\ sent \in Nat /\ sent <= MaxEvents /\ MaxEvents \in Nat
  BY <1>0, SizesAssumption DEF TypeOK
<1>2. events' = events \/ (events > 0 /\ events' = events - 1)
  BY DEF PublishInvalidate, InvalidateSkips, WorkerDies, writer, IInv, WriterFits
<1>3. WriterFits' /\ events' \in 0 .. MaxEvents
  BY <1>0, <1>1, <1>2 DEF IInv, WriterFits
<1>4. ASSUME NEW p \in Procs
      PROVE  bcast'[p] \in SUBSET (bcast[p] \cup {floor})
  BY <1>0 DEF PublishInvalidate, InvalidateSkips, WorkerDies, TypeOK
<1>5. bcast' \in [Procs -> SUBSET Versions]
  BY <1>0 DEF PublishInvalidate, InvalidateSkips, WorkerDies, TypeOK
<1>6. TypeOK'
  BY <1>0, <1>3, <1>5 DEF TypeOK
<1>7. FloorsOrdered'
  <2>1. floor \in Nat /\ floor <= floor
    BY <1>0 DEF TypeOK, Versions
  <2> QED
    BY <1>0, <1>4, <2>1 DEF IInv, FloorsOrdered
<1>8. NoStaleLocal'
  BY <1>0 DEF IInv, NoStaleLocal
<1> QED
  BY <1>0, <1>3, <1>6, <1>7, <1>8, AsideIInv

\* Entries that expire.
LEMMA ExpireIInv ==
  ASSUME IInv, Sound, ExpireSnap \/ \E p \in Procs : ExpireLocal(p)
  PROVE  IInv'
<1>0. /\ UNCHANGED <<db, tx, events, sent, worker, epoch, clock, restarts, faults, bcast,
                     reader, floor, l1floor>>
      /\ TypeOK
  BY DEF ExpireSnap, ExpireLocal, writer, redis, Sound, IInv
<1>1. WriterFits' /\ FloorsOrdered'
  BY <1>0 DEF IInv, WriterFits, FloorsOrdered
<1>2. CASE ExpireSnap
  <2>1. snap' = None /\ l1' = l1
    BY <1>2 DEF ExpireSnap
  <2>2. TypeOK' /\ NoStaleSnap' /\ NoStaleLocal'
    BY <1>0, <2>1 DEF TypeOK, MaybeSnap, IInv, NoStaleSnap, NoStaleLocal
  <2>3. ASSUME NEW q \in Readers PROVE WatchHolds(q)'
    BY <1>0, <2>1 DEF IInv, WatchHolds
  <2>4. ASSUME NEW q \in Readers, restarts' = 0 PROVE EpochDates(q)' /\ MirrorFresh(q)'
    BY <1>0, <2>4 DEF IInv, EpochDates, MirrorFresh
  <2> QED
    BY <1>1, <2>2, <2>3, <2>4 DEF IInv
<1>3. ASSUME NEW p \in Procs, ExpireLocal(p) PROVE IInv'
  <2>1. l1' = [l1 EXCEPT ![p] = None] /\ snap' = snap
    BY <1>3 DEF ExpireLocal, redis
  <2>2. l1' \in [Procs -> MaybeSnap \ {Missing}]
    BY <1>0, <2>1, SnapFacts DEF TypeOK, MaybeSnap
  <2>3. TypeOK' /\ NoStaleLocal'
    BY <1>0, <2>1, <2>2 DEF TypeOK, IInv, NoStaleLocal
  <2> QED
    BY <1>0, <1>1, <2>1, <2>3, AsideIInv
<1> QED
  BY <1>2, <1>3

-----------------------------------------------------------------------------
(* The theorems                                                            *)

\* No step of any actor breaks the invariant.
LEMMA NextIInv == ASSUME IInv, [Next]_vars PROVE IInv'
<1>1. CASE UNCHANGED vars
  BY <1>1 DEF vars, IInv, TypeOK, WriterFits, FloorsOrdered, NoStaleSnap, NoStaleLocal,
              WatchHolds, EpochDates, MirrorFresh
<1>2. CASE Working /\ Sound
  <2>1. ASSUME NEW r \in Readers, Reading(r) PROVE IInv'
    <3>1. CASE LocalHit(r)
      BY <1>1, <3>1 DEF LocalHit
    <3>2. CASE LocalMiss(r) \/ GetSnap(r) \/ MissSnap(r)
      BY <1>2, <3>2, LookUpIInv
    <3>3. CASE GetEpoch(r) \/ RegetEpoch(r) \/ Fetch(r)
      BY <1>2, <3>3, CaptureIInv
    <3>4. CASE Watch(r) \/ Decide(r) \/ ExecAborts(r)
      BY <1>2, <3>4, CasIInv
    <3>5. CASE UseSnap(r) \/ Mirror(r)
      BY <1>2, <3>5, UseSnapIInv, MirrorIInv
    <3>6. CASE InitEpoch(r) \/ Exec(r)
      BY <1>2, <3>6, InitEpochIInv, ExecIInv
    <3> QED
      BY <2>1, <3>1, <3>2, <3>3, <3>4, <3>5, <3>6 DEF Reading
  <2>2. CASE CreateUser \/ WriteUser \/ NotifyUser \/ CommitUser \/ RollbackUser
    BY <1>2, <2>2, RequestIInv
  <2>3. CASE Invalidate \/ PublishInvalidate
    BY <1>2, <2>3, InvalidateIInv, WorkerIInv
  <2>4. ASSUME NEW p \in Procs, Hear(p) PROVE IInv'
    BY <1>2, <2>4, HearIInv
  <2>5. CASE ExpireSnap \/ \E p \in Procs : ExpireLocal(p)
    BY <1>2, <2>5, ExpireIInv
  <2> QED
    BY <1>2, <2>1, <2>2, <2>3, <2>4, <2>5 DEF Working
<1>3. CASE Failing /\ Fault
  <2>1. ASSUME NEW r \in Readers, GetFails(r) \/ EpochFails(r) \/ WriteFails(r) PROVE IInv'
    BY <1>3, <2>1, LookUpIInv, CaptureIInv, CasIInv
  <2>2. CASE NotifyFails
    BY <1>3, <2>2, RequestIInv
  <2>3. CASE InvalidateSkips \/ WorkerDies
    BY <1>3, <2>3, WorkerIInv
  <2>4. CASE RestartRedis
    BY <1>3, <2>4, RestartIInv
  <2> QED
    BY <1>3, <2>1, <2>2, <2>3, <2>4 DEF Failing
<1> QED
  BY <1>1, <1>2, <1>3 DEF Next

\* The invariant of the cache: the epochs of Redis date every fetched content,
\* and a coroutine knows whether what it carries was invalidated meanwhile.
THEOREM Invariance == Spec => []IInv
<1>1. Init => IInv
  BY InitIInv
<1>2. IInv /\ [Next]_vars => IInv'
  BY NextIInv
<1> QED
  BY <1>1, <1>2, PTL DEF Spec

\* Types, the bound of the retry loop of write_if_newer, and no negative entry
\* in an L1 cache.
THEOREM TypeCorrect == Spec => []TypeOK
<1>1. IInv => TypeOK
  BY DEF IInv
<1> QED
  BY <1>1, Invariance, PTL

\* While Redis keeps its keys, neither the Redis entry nor the cache of a
\* process ever again holds what an invalidation removed, whatever readers,
\* writers and workers overtake each other.
THEOREM CacheCorrect == Spec => []CacheFresh
<1>1. IInv => CacheFresh
  BY DEF IInv, CacheFresh
<1> QED
  BY <1>1, Invariance, PTL

\* While an entry stays in Redis its source version never goes backwards,
\* across restarts and failing calls too: EXEC is the only step that replaces
\* one, and it aborts unless the entry it compared with is still there.
THEOREM SnapNeverBack == Spec => SnapMonotone
<1>1. ASSUME IInv, [Next]_vars PROVE [snap # None /\ snap' # None => snap'.sv >= snap.sv]_vars
  <2> SUFFICES ASSUME snap # None, snap' # None PROVE snap'.sv >= snap.sv
    OBVIOUS
  <2>1. snap \in Snaps /\ snap.sv \in Nat
    BY <1>1, SnapFacts DEF IInv, TypeOK, MaybeSnap
  <2>2. CASE snap' = snap
    BY <2>1, <2>2
  <2>3. ASSUME NEW r \in Readers, Exec(r) PROVE snap'.sv >= snap.sv
    <3>1. snap' = reader[r].ver /\ snap.sv <= reader[r].ver.sv
      BY <1>1, <2>3 DEF Exec, IInv, WatchHolds
    <3>2. reader[r].ver.sv \in Nat
      BY <1>1, SnapFacts DEF IInv, TypeOK, ReaderType
    <3> QED
      BY <2>1, <3>1, <3>2
  <2>4. snap' = snap \/ \E r \in Readers : Exec(r)
    BY <1>1 DEF Next, Working, Failing, Reading, vars, redis, CreateUser, WriteUser, NotifyUser,
       NotifyFails, CommitUser, RollbackUser, Invalidate, InvalidateSkips, PublishInvalidate,
       WorkerDies, Hear, ExpireLocal, ExpireSnap, RestartRedis, LocalHit, LocalMiss, GetSnap,
       GetFails, UseSnap, MissSnap, GetEpoch, InitEpoch, RegetEpoch, EpochFails, Fetch, Watch,
       Decide, ExecAborts, Mirror, WriteFails
  <2> QED
    BY <2>2, <2>3, <2>4
<1> QED
  BY <1>1, Invariance, PTL DEF Spec, SnapMonotone

-----------------------------------------------------------------------------
(* The sessions of the account                                            *)

\* The user row is still to be written, or was written before the sessions.
RowPending(c) ==
  authTx[c].todo \in {<<"user">>, <<"sessions", "user">>, <<"snap", "sessions", "user">>,
                  <<"user", "snap", "sessions">>}
RowWritten(c) == authTx[c].todo \in {<<"snap", "sessions">>, <<"sessions">>}

\* A connection without a request holds nothing, and an exchange that is
\* through has changed its token's row and has a session to issue.
Fits(c) ==
  /\ authTx[c].op = "idle" => authTx[c] = Auth!Idle
  /\ authTx[c].op = "decide" /\ authTx[c].todo \notin {<<>>, <<"user">>} => authTx[c].arg = "rejected"
  /\ RowPending(c) => authTx[c].new = Nothing
  /\ RowWritten(c) => authTx[c].new # Nothing
  /\ authTx[c].issue # Nothing => authTx[c].read # Nothing
  /\ authTx[c].op = "refresh" /\ authTx[c].todo = <<>> => authTx[c].issue \in Tokens
      /\ authTx[c].owns = {authTx[c].arg}

TxFits == \A c \in Conns : Fits(c)

\* Refresh token rows changed by an open transaction are live, and each
\* is changed by one transaction only.
OwnsApart ==
  \A c \in Conns :
    /\ \A s \in authTx[c].owns : session[s] = "live"
    /\ \A d \in Conns \ {c} : authTx[c].owns \cap authTx[d].owns = {}

\* A session to be issued does not exist yet, and is issued by one
\* transaction only.
IssueFresh ==
  \A c \in Conns : authTx[c].issue # Nothing =>
    /\ session[authTx[c].issue] = "none"
    /\ \A d \in Conns \ {c} : authTx[d].issue # authTx[c].issue

\* A transaction that has a new user row holds the row lock: its row is the
\* committed one with a level that does not fall, unless it upgrades, and
\* with the next version if it bumps.
RowHeld ==
  \A c \in Conns : authTx[c].new # Nothing =>
    /\ rowLock = c
    /\ authTx[c].op # "upgrade" => authTx[c].new.level >= user.level
    /\ authTx[c].new.version \in {user.version, user.version + 1}
    /\ authTx[c].snap # Nothing \/ RowWritten(c)
         => authTx[c].new.version = user.version + 1

Revoking(c) == authTx[c].todo \in {<<"sessions">>, <<"sessions", "user">>}

\* What a revocation saw is what it changes or what is revoked already, and
\* it comes with a new version of the user.
Covers(c) ==
  /\ Revoking(c) => authTx[c].snap \in SUBSET Tokens
  /\ authTx[c].snap # Nothing =>
       /\ authTx[c].op \in {"logout", "reset", "decide"}
       /\ authTx[c].op = "decide" => authTx[c].arg = "rejected"
       /\ authTx[c].todo = <<>> => authTx[c].new # Nothing
       /\ \A s \in authTx[c].snap :
            /\ session[s] # "none" /\ access[s] <= user.version
            /\ Revoking(c) \/ s \in authTx[c].owns \/ session[s] = "revoked"

SnapCovered == \A c \in Conns : Covers(c)

\* A transaction works from a version the user had.
ReadPast == \A c \in Conns : authTx[c].read # Nothing => authTx[c].read.version <= user.version

\* The committed tables: a session whose token was exchanged or that was ended
\* is revoked, and no access token is ahead of its user.
TablesAgree ==
  /\ \A t \in Tokens : prior[t] # Nothing => session[prior[t]] = "revoked"
  /\ \A t \in Tokens : session[t] # "none" => access[t] <= user.version
  /\ \A t \in ended : session[t] = "revoked" /\ access[t] < user.version

SessionsInv ==
  /\ Auth!TypeOK /\ TxFits /\ OwnsApart /\ IssueFresh /\ RowHeld /\ SnapCovered /\ ReadPast
  /\ TablesAgree /\ Auth!RotatedOnce

-----------------------------------------------------------------------------
(* What is left to do after the next statement, and what may come next      *)

\* The statement lists the operations go through, taken apart.
LEMMA TodoParts ==
  /\ Head(<<"user">>) = "user" /\ Tail(<<"user">>) = <<>>
  /\ Head(<<"token">>) = "token" /\ Tail(<<"token">>) = <<>>
  /\ Head(<<"sessions">>) = "sessions" /\ Tail(<<"sessions">>) = <<>>
  /\ Head(<<"sessions", "user">>) = "sessions" /\ Tail(<<"sessions", "user">>) = <<"user">>
  /\ Head(<<"snap", "sessions">>) = "snap" /\ Tail(<<"snap", "sessions">>) = <<"sessions">>
  /\ Head(<<"snap", "sessions", "user">>) = "snap"
  /\ Tail(<<"snap", "sessions", "user">>) = <<"sessions", "user">>
  /\ Head(<<"user", "snap", "sessions">>) = "user"
  /\ Tail(<<"user", "snap", "sessions">>) = <<"snap", "sessions">>
OBVIOUS

\* They are all different.
LEMMA TodoApart ==
  /\ <<"sessions", "user">> \notin {<<>>, <<"user">>, <<"sessions">>, <<"snap", "sessions">>,
                                    <<"snap", "sessions", "user">>, <<"user", "snap", "sessions">>}
  /\ <<"sessions">> \notin {<<>>, <<"user">>, <<"sessions", "user">>, <<"snap", "sessions">>,
                            <<"snap", "sessions", "user">>, <<"user", "snap", "sessions">>}
  /\ <<"snap", "sessions">> \notin {<<>>, <<"user">>, <<"sessions", "user">>, <<"sessions">>,
                                    <<"snap", "sessions", "user">>, <<"user", "snap", "sessions">>}
  /\ <<"user">> \notin {<<>>, <<"snap", "sessions">>, <<"sessions", "user">>, <<"sessions">>,
                        <<"snap", "sessions", "user">>, <<"user", "snap", "sessions">>}
  /\ <<>> \notin {<<"user">>, <<"snap", "sessions">>, <<"sessions", "user">>, <<"sessions">>,
                  <<"snap", "sessions", "user">>, <<"user", "snap", "sessions">>}
OBVIOUS

\* A transaction that is about to consume a token is an exchange.
LEMMA NextToken ==
  ASSUME Auth!TypeOK, NEW c \in Conns, authTx[c].todo # <<>>, Head(authTx[c].todo) = "token"
  PROVE  authTx[c].op = "refresh" /\ authTx[c].todo = <<"token">> /\ Tail(authTx[c].todo) = <<>>
BY TodoParts DEF Auth!TypeOK, Auth!Tx, Auth!Todos

\* What follows the snapshot of a revocation.
LEMMA NextSnap ==
  ASSUME Auth!TypeOK, NEW c \in Conns, authTx[c].todo # <<>>, Head(authTx[c].todo) = "snap"
  PROVE  \/ /\ authTx[c].op = "logout" /\ Tail(authTx[c].todo) = <<"sessions", "user">>
            /\ authTx[c].todo = <<"snap", "sessions", "user">>
         \/ /\ authTx[c].op \in {"reset", "decide"} /\ Tail(authTx[c].todo) = <<"sessions">>
            /\ authTx[c].todo = <<"snap", "sessions">>
BY TodoParts DEF Auth!TypeOK, Auth!Tx, Auth!Todos

\* What follows the update of a revocation.
LEMMA NextSessions ==
  ASSUME Auth!TypeOK, NEW c \in Conns, authTx[c].todo # <<>>, Head(authTx[c].todo) = "sessions"
  PROVE  \/ /\ authTx[c].op = "logout" /\ Tail(authTx[c].todo) = <<"user">>
            /\ authTx[c].todo = <<"sessions", "user">>
         \/ /\ authTx[c].op \in {"reset", "decide"} /\ Tail(authTx[c].todo) = <<>>
            /\ authTx[c].todo = <<"sessions">>
BY TodoParts DEF Auth!TypeOK, Auth!Tx, Auth!Todos

\* What follows the write of the user row.
LEMMA NextUser ==
  ASSUME Auth!TypeOK, NEW c \in Conns, authTx[c].todo # <<>>, Head(authTx[c].todo) = "user"
  PROVE  /\ authTx[c].op \notin {"idle", "refresh"}
         /\ \/ authTx[c].todo = <<"user">> /\ Tail(authTx[c].todo) = <<>>
            \/ /\ authTx[c].op \in {"reset", "decide"} /\ authTx[c].todo = <<"user", "snap", "sessions">>
               /\ Tail(authTx[c].todo) = <<"snap", "sessions">>
BY TodoParts DEF Auth!TypeOK, Auth!Tx, Auth!Todos

-----------------------------------------------------------------------------
(* Requests begin and end                                                  *)

\* A connection without a request is well formed.
LEMMA IdleTyped ==
  /\ Auth!Idle \in Auth!Tx("idle") /\ Auth!Idle.op = "idle"
  /\ Auth!Idle.todo = <<>> /\ Auth!Idle.todo \notin {<<"sessions">>, <<"sessions", "user">>}
  /\ Auth!Idle.todo \notin {<<"user">>, <<"sessions", "user">>, <<"snap", "sessions", "user">>,
                       <<"user", "snap", "sessions">>, <<"snap", "sessions">>, <<"sessions">>}
  /\ Auth!Idle.read = Nothing /\ Auth!Idle.new = Nothing /\ Auth!Idle.snap = Nothing /\ Auth!Idle.owns = {}
  /\ Auth!Idle.issue = Nothing
BY DEF Auth!Idle, Auth!Tx, Auth!Todos, Auth!Args

\* An account without sessions satisfies the invariant.
LEMMA InitSessionsInv == Auth!Init => SessionsInv
<1> SUFFICES ASSUME Auth!Init PROVE SessionsInv
  OBVIOUS
<1>1. /\ \A c \in Conns : authTx[c] = Auth!Idle
      /\ \A t \in Tokens : session[t] = "none" /\ prior[t] = Nothing /\ access[t] = 0
      /\ ended = {}
  BY DEF Auth!Init
<1>u. user \in Auth!UserRow
  <2>1. user \in [level : {0}, status : {"pending", "active"}, version : {0},
                  attempts : {0}, locked : {FALSE}]
    BY DEF Auth!Init
  <2>2. PICK s \in {"pending", "active"} :
          user = [level |-> 0, status |-> s, version |-> 0, attempts |-> 0, locked |-> FALSE]
    BY <2>1, Zenon
  <2>3. 0 \in Auth!Levels /\ 0 \in Nat /\ s \in Auth!Statuses /\ FALSE \in BOOLEAN
    BY DEF Auth!Levels, Auth!Statuses
  <2> QED
    BY <2>2, <2>3, Zenon DEF Auth!UserRow
<1>2. Auth!TypeOK
  BY <1>1, <1>u, IdleTyped, AuthAssumption DEF Auth!Init, Auth!TypeOK
<1>3. TxFits /\ OwnsApart /\ IssueFresh /\ RowHeld /\ ReadPast /\ SnapCovered
  BY <1>1, IdleTyped DEF TxFits, Fits, OwnsApart, IssueFresh, RowHeld, ReadPast, SnapCovered, Covers, Revoking,
                         RowPending, RowWritten
<1>4. TablesAgree /\ Auth!RotatedOnce
  BY <1>1 DEF TablesAgree, Auth!RotatedOnce
<1> QED
  BY <1>2, <1>3, <1>4 DEF SessionsInv

\* A step of one transaction leaves the others as they are.
LEMMA StepFacts ==
  ASSUME Auth!TypeOK, NEW c \in Conns, NEW t, t.op \in Ops \cup {"idle"}, t \in Auth!Tx(t.op), Auth!Step(c, t)
  PROVE  /\ authTx' = [d \in Conns |-> authTx'[d]]
         /\ \A d \in Conns : authTx'[d].op \in Ops \cup {"idle"} /\ authTx'[d] \in Auth!Tx(authTx'[d].op)
         /\ authTx'[c] = t /\ \A d \in Conns \ {c} : authTx'[d] = authTx[d]
<1>1. authTx = [d \in Conns |-> authTx[d]] /\ authTx' = [authTx EXCEPT ![c] = t]
  BY DEF Auth!TypeOK, Auth!Step
<1>2. authTx' = [d \in Conns |-> IF d = c THEN t ELSE authTx[d]]
  BY <1>1
<1>3. authTx'[c] = t /\ \A d \in Conns \ {c} : authTx'[d] = authTx[d]
  BY <1>2
<1> QED
  BY <1>2, <1>3 DEF Auth!TypeOK

\* What is known of a transaction does not depend on the other ones' steps
\* while the tables stay as they are.
LEMMA OthersKeep ==
  ASSUME SessionsInv, NEW c \in Conns, \A d \in Conns \ {c} : authTx'[d] = authTx[d],
         UNCHANGED <<user, session, access>>
  PROVE  \A d \in Conns \ {c} : Fits(d)' /\ Covers(d)'
<1> SUFFICES ASSUME NEW d \in Conns \ {c} PROVE Fits(d)' /\ Covers(d)'
  OBVIOUS
<1>1. Fits(d) /\ Covers(d) /\ authTx'[d] = authTx[d]
  BY DEF SessionsInv, TxFits, SnapCovered
<1> QED
  BY <1>1 DEF Fits, Covers, Revoking, RowPending, RowWritten

\* A request begins: it has read the user row and holds nothing yet.
LEMMA BeginSessionsInv ==
  ASSUME SessionsInv, NEW c \in Conns, NEW op, NEW arg, NEW todo,
         Auth!Begin(c, op, arg, todo), op # "idle", todo \in Auth!Todos(op), arg \in Auth!Args(op), todo # <<>>,
         todo \notin {<<"sessions">>, <<"sessions", "user">>, <<"snap", "sessions">>},
         op = "decide" /\ todo # <<"user">> => arg = "rejected"
  PROVE  SessionsInv'
<1> DEFINE new == [Auth!Idle EXCEPT !.op = op, !.arg = arg, !.todo = todo, !.read = user]
<1>0. /\ Auth!Step(c, new) /\ op \in Ops \cup {"idle"}
      /\ starts < MaxStarts /\ starts' = starts + 1
      /\ UNCHANGED <<user, session, access, prior, tvmin, rowLock, ended, aborts>>
  BY DEF Auth!Begin, Auth!tables
<1>1. new \in Auth!Tx(op)
  BY DEF Auth!Tx, SessionsInv, Auth!TypeOK, Auth!Idle
<1>f. /\ new.op = op /\ new.todo = todo /\ new.arg = arg /\ new.read = user
      /\ new.new = Nothing /\ new.snap = Nothing /\ new.owns = {} /\ new.issue = Nothing
  BY DEF Auth!Idle
<1> HIDE DEF new
<1>2. authTx'[c] = new /\ \A d \in Conns \ {c} : authTx'[d] = authTx[d]
  BY <1>0, <1>1, <1>f, StepFacts DEF SessionsInv
<1>3. Auth!TypeOK'
  BY <1>0, <1>1, <1>f, StepFacts, AuthAssumption DEF SessionsInv, Auth!TypeOK
<1>4. TxFits' /\ OwnsApart' /\ IssueFresh'
  BY <1>0, <1>f, <1>2 DEF SessionsInv, TxFits, Fits, OwnsApart, IssueFresh, RowPending, RowWritten
<1>5. RowHeld' /\ SnapCovered'
  BY <1>0, <1>f, <1>2 DEF SessionsInv, RowHeld, SnapCovered, Covers, Revoking, RowWritten
<1>6. ReadPast'
  BY <1>0, <1>f, <1>2 DEF SessionsInv, ReadPast, Auth!TypeOK, Auth!UserRow
<1>7. TablesAgree' /\ Auth!RotatedOnce'
  BY <1>0 DEF SessionsInv, TablesAgree, Auth!RotatedOnce
<1> QED
  BY <1>3, <1>4, <1>5, <1>6, <1>7 DEF SessionsInv

\* A transaction that ends without a trace gives its rows and locks back.
LEMMA RollbackKeeps ==
  ASSUME SessionsInv, NEW c \in Conns, Auth!Rollback(c), UNCHANGED <<user, session, access, prior, ended>>,
         tvmin' \in Nat, starts' \in 0..MaxStarts, aborts' \in 0..MaxAborts
  PROVE  SessionsInv'
<1>0. Auth!Step(c, Auth!Idle) /\ rowLock' = IF rowLock = c THEN Nothing ELSE rowLock
  BY DEF Auth!Rollback
<1>2. authTx'[c] = Auth!Idle /\ \A d \in Conns \ {c} : authTx'[d] = authTx[d]
  BY <1>0, IdleTyped, StepFacts DEF SessionsInv
<1>3. Auth!TypeOK'
  BY <1>0, IdleTyped, StepFacts DEF SessionsInv, Auth!TypeOK
<1>4. TxFits' /\ OwnsApart' /\ IssueFresh'
  BY <1>2, IdleTyped DEF SessionsInv, TxFits, Fits, OwnsApart, IssueFresh, RowPending, RowWritten
<1>5. RowHeld'
  BY <1>0, <1>2, IdleTyped DEF SessionsInv, RowHeld, RowWritten
<1>6. SnapCovered'
  BY <1>2, IdleTyped DEF SessionsInv, SnapCovered, Covers, Revoking
<1>8. ReadPast'
  BY <1>2, IdleTyped DEF SessionsInv, ReadPast
<1>7. TablesAgree' /\ Auth!RotatedOnce'
  BY DEF SessionsInv, TablesAgree, Auth!RotatedOnce
<1> QED
  BY <1>3, <1>4, <1>5, <1>6, <1>7, <1>8 DEF SessionsInv

-----------------------------------------------------------------------------
(* The statements of a transaction                                         *)

\* consume_once takes a live token that no other transaction has changed, and
\* a session of its own to issue; a token that is not live ends the request.
LEMMA ConsumeSessionsInv ==
  ASSUME SessionsInv, NEW c \in Conns, Auth!Consume(c) PROVE SessionsInv'
<1>0. /\ authTx[c].op = "refresh" /\ authTx[c].todo = <<"token">> /\ Tail(authTx[c].todo) = <<>>
      /\ UNCHANGED <<user, session, access, prior, tvmin, ended, starts, aborts>> /\ Auth!TypeOK
  BY NextToken DEF Auth!Consume, SessionsInv, Auth!tables
<1>1. CASE Auth!Rollback(c)
  BY <1>0, <1>1, RollbackKeeps DEF Auth!TypeOK
<1>2. ASSUME NEW t \in Auth!Unused, UNCHANGED rowLock, Auth!StillLive(c),
             Auth!Step(c, [authTx[c] EXCEPT !.todo = Tail(@), !.owns = {authTx[c].arg},
                                   !.issue = t, !.read = user])
      PROVE  SessionsInv'
  <2> DEFINE new == [authTx[c] EXCEPT !.todo = Tail(@), !.owns = {authTx[c].arg}, !.issue = t, !.read = user]
  <2>0. authTx[c] \in Auth!Tx("refresh") /\ authTx[c].arg \in Tokens /\ t \in Tokens
          /\ "refresh" \in Ops \cup {"idle"}
    BY <1>0 DEF Auth!TypeOK, Auth!Tx, Auth!Args, Auth!Unused
  <2>1. /\ new.op = "refresh" /\ new.todo = <<>> /\ new.arg = authTx[c].arg /\ new.read = user
        /\ new.new = authTx[c].new /\ new.snap = authTx[c].snap /\ new.owns = {authTx[c].arg} /\ new.issue = t
    BY <1>0, <2>0 DEF Auth!Tx
  <2>2. new \in Auth!Tx("refresh")
    BY <1>0, <2>0 DEF Auth!Tx, Auth!Todos, Auth!TypeOK
  <2>3. Auth!Step(c, new)
    BY <1>2
  <2> HIDE DEF new
  <2>4. authTx'[c] = new /\ \A d \in Conns \ {c} : authTx'[d] = authTx[d]
    BY <1>0, <2>0, <2>1, <2>2, <2>3, StepFacts
  <2>5. Auth!TypeOK'
    BY <1>0, <1>2, <2>1, <2>2, <2>3, StepFacts DEF Auth!TypeOK
  <2>6. TxFits'
    BY <1>0, <2>0, <2>1, <2>4, AuthAssumption DEF SessionsInv, TxFits, Fits, RowPending, RowWritten, Auth!TypeOK
  <2>7. OwnsApart'
    <3>1. \A d \in Conns \ {c} : authTx[c].arg \notin authTx[d].owns
      BY DEF Auth!Consume, Auth!TokenFree, Auth!Owned
    <3> QED
      BY <1>0, <1>2, <2>1, <2>4, <3>1 DEF SessionsInv, OwnsApart, Auth!StillLive
  <2>8. IssueFresh'
    BY <1>0, <2>0, <2>1, <2>4 DEF SessionsInv, IssueFresh, Auth!Unused
  <2>9. RowHeld'
    BY <1>0, <1>2, <2>1, <2>4 DEF SessionsInv, RowHeld, RowWritten
  <2>10. SnapCovered'
    <3>1. authTx[c].snap = Nothing
      BY <1>0 DEF SessionsInv, SnapCovered, Covers
    <3> QED
      BY <1>0, <2>1, <2>4, <3>1 DEF SessionsInv, SnapCovered, Covers, Revoking
  <2>11. ReadPast'
    <3>1. user.version \in Nat
      BY <1>0 DEF Auth!TypeOK, Auth!UserRow
    <3> QED
      BY <1>0, <2>1, <2>4, <3>1 DEF SessionsInv, ReadPast
  <2>12. TablesAgree' /\ Auth!RotatedOnce'
    BY <1>0 DEF SessionsInv, TablesAgree, Auth!RotatedOnce
  <2> QED
    BY <2>5, <2>6, <2>7, <2>8, <2>9, <2>10, <2>11, <2>12 DEF SessionsInv
<1> QED
  BY <1>1, <1>2 DEF Auth!Consume

\* revoke_all_for_user begins: it sees the live sessions.
LEMMA SnapshotSessionsInv ==
  ASSUME SessionsInv, NEW c \in Conns, Auth!Snapshot(c) PROVE SessionsInv'
<1> DEFINE op == authTx[c].op
           new == [authTx[c] EXCEPT !.todo = Tail(@), !.snap = Auth!Live]
<1>0. /\ \/ /\ op = "logout" /\ Tail(authTx[c].todo) = <<"sessions", "user">>
            /\ authTx[c].todo = <<"snap", "sessions", "user">>
         \/ /\ op \in {"reset", "decide"} /\ Tail(authTx[c].todo) = <<"sessions">>
            /\ authTx[c].todo = <<"snap", "sessions">>
      /\ UNCHANGED <<user, session, access, prior, tvmin, rowLock, ended, starts, aborts>>
      /\ Auth!Step(c, new) /\ Auth!TypeOK
  BY NextSnap DEF Auth!Snapshot, SessionsInv, Auth!tables
<1>1. authTx[c] \in Auth!Tx(op) /\ op \in Ops \cup {"idle"} /\ Auth!Live \in SUBSET Tokens
  BY <1>0 DEF Auth!TypeOK, Auth!Live
<1>2. /\ new.op = op /\ new.todo = Tail(authTx[c].todo) /\ new.arg = authTx[c].arg /\ new.read = authTx[c].read
      /\ new.new = authTx[c].new /\ new.snap = Auth!Live /\ new.owns = authTx[c].owns /\ new.issue = authTx[c].issue
  BY <1>1 DEF Auth!Tx
<1>3. new \in Auth!Tx(op)
  BY <1>0, <1>1 DEF Auth!Tx, Auth!Todos
<1>a. op = "decide" => authTx[c].arg = "rejected"
  BY <1>0 DEF SessionsInv, TxFits, Fits
<1>b. \/ new.todo = <<"sessions", "user">> /\ authTx[c].new = Nothing
      \/ new.todo = <<"sessions">> /\ authTx[c].new # Nothing /\ authTx[c].new.version = user.version + 1
  BY <1>0, <1>2 DEF SessionsInv, RowHeld, TxFits, Fits, RowPending, RowWritten
<1> HIDE DEF new
<1>4. authTx'[c] = new /\ \A d \in Conns \ {c} : authTx'[d] = authTx[d]
  BY <1>0, <1>1, <1>2, <1>3, StepFacts
<1>5. Auth!TypeOK'
  BY <1>0, <1>1, <1>2, <1>3, StepFacts DEF Auth!TypeOK
<1>6. TxFits'
  <2>1. Fits(c)'
    BY <1>0, <1>2, <1>4, <1>a, <1>b, TodoApart DEF SessionsInv, TxFits, Fits, RowPending, RowWritten
  <2> QED
    BY <1>0, <1>4, <2>1, OthersKeep DEF TxFits
<1>7. OwnsApart' /\ IssueFresh'
  BY <1>0, <1>2, <1>4 DEF SessionsInv, OwnsApart, IssueFresh
<1>8. RowHeld'
  BY <1>0, <1>2, <1>4, <1>b DEF SessionsInv, RowHeld, RowWritten
<1>9. SnapCovered'
  <2>1. \A s \in Auth!Live : session[s] # "none" /\ access[s] <= user.version
    BY <1>0 DEF SessionsInv, TablesAgree, Auth!Live
  <2>2. Covers(c)'
    BY <1>0, <1>1, <1>2, <1>4, <1>a, <1>b, <2>1, TodoApart DEF Covers, Revoking
  <2> QED
    BY <1>0, <1>4, <2>2, OthersKeep DEF SnapCovered
<1>10. ReadPast'
  BY <1>0, <1>2, <1>4 DEF SessionsInv, ReadPast
<1>11. TablesAgree' /\ Auth!RotatedOnce'
  BY <1>0 DEF SessionsInv, TablesAgree, Auth!RotatedOnce
<1> QED
  BY <1>5, <1>6, <1>7, <1>8, <1>9, <1>10, <1>11 DEF SessionsInv

\* The update of a revocation takes the rows it saw that are still live; no
\* other transaction has changed one of them.
LEMMA RevokeSessionsInv ==
  ASSUME SessionsInv, NEW c \in Conns, Auth!Revoke(c) PROVE SessionsInv'
<1> DEFINE op == authTx[c].op
           new == [authTx[c] EXCEPT !.todo = Tail(@), !.owns = authTx[c].snap \cap Auth!Live]
<1>0. /\ \/ /\ op = "logout" /\ Tail(authTx[c].todo) = <<"user">>
            /\ authTx[c].todo = <<"sessions", "user">>
         \/ /\ op \in {"reset", "decide"} /\ Tail(authTx[c].todo) = <<>>
            /\ authTx[c].todo = <<"sessions">>
      /\ UNCHANGED <<user, session, access, prior, tvmin, rowLock, ended, starts, aborts>>
      /\ Auth!Step(c, new) /\ Auth!TypeOK
  BY NextSessions DEF Auth!Revoke, SessionsInv, Auth!tables
<1>1. authTx[c] \in Auth!Tx(op) /\ op \in Ops \cup {"idle"} /\ authTx[c].snap \cap Auth!Live \in SUBSET Tokens
  BY <1>0 DEF Auth!TypeOK, Auth!Live
<1>2. /\ new.op = op /\ new.todo = Tail(authTx[c].todo) /\ new.arg = authTx[c].arg /\ new.read = authTx[c].read
      /\ new.new = authTx[c].new /\ new.snap = authTx[c].snap /\ new.owns = authTx[c].snap \cap Auth!Live
      /\ new.issue = authTx[c].issue
  BY <1>1 DEF Auth!Tx
<1>3. new \in Auth!Tx(op)
  BY <1>0, <1>1 DEF Auth!Tx, Auth!Todos
<1>b. \/ new.todo = <<"user">> /\ authTx[c].new = Nothing
      \/ new.todo = <<>> /\ authTx[c].new # Nothing
  BY <1>0, <1>2 DEF SessionsInv, TxFits, Fits, RowPending, RowWritten
<1> HIDE DEF new
<1>4. authTx'[c] = new /\ \A d \in Conns \ {c} : authTx'[d] = authTx[d]
  BY <1>0, <1>1, <1>2, <1>3, StepFacts
<1>5. Auth!TypeOK'
  BY <1>0, <1>1, <1>2, <1>3, StepFacts DEF Auth!TypeOK
<1>6. TxFits'
  <2>1. Fits(c)'
    BY <1>0, <1>2, <1>4, <1>b, TodoApart DEF SessionsInv, TxFits, Fits, RowPending, RowWritten
  <2> QED
    BY <1>0, <1>4, <2>1, OthersKeep DEF TxFits
<1>7. OwnsApart'
  <2>1. \A d \in Conns \ {c} : authTx[c].snap \cap authTx[d].owns = {}
    BY DEF Auth!Revoke, Auth!Owned
  <2> QED
    BY <1>0, <1>2, <1>4, <2>1 DEF SessionsInv, OwnsApart, Auth!Live
<1>8. IssueFresh'
  BY <1>0, <1>2, <1>4 DEF SessionsInv, IssueFresh
<1>9. RowHeld'
  BY <1>0, <1>2, <1>4, <1>b, TodoApart DEF SessionsInv, RowHeld, RowWritten
<1>10. SnapCovered'
  <2>1. Covers(c)
    BY DEF SessionsInv, SnapCovered
  <2>2. authTx[c].snap \in SUBSET Tokens
    BY <1>0, <2>1 DEF Covers, Revoking
  <2>3. \A s \in authTx[c].snap : s \in new.owns \/ session[s] = "revoked" \/ session[s] = "none"
    BY <1>0, <1>2, <2>2 DEF Auth!Live, Auth!TypeOK
  <2>4. Covers(c)'
    BY <1>0, <1>2, <1>4, <1>b, <2>1, <2>2, <2>3, TodoApart DEF Covers, Revoking
  <2> QED
    BY <1>0, <1>4, <2>4, OthersKeep DEF SnapCovered
<1>11. ReadPast'
  BY <1>0, <1>2, <1>4 DEF SessionsInv, ReadPast
<1>12. TablesAgree' /\ Auth!RotatedOnce'
  BY <1>0 DEF SessionsInv, TablesAgree, Auth!RotatedOnce
<1> QED
  BY <1>5, <1>6, <1>7, <1>8, <1>9, <1>10, <1>11, <1>12 DEF SessionsInv

\* Setting the failures and the lock of a user row changes nothing else.
LEMMA RowWith ==
  ASSUME user \in Auth!UserRow, NEW n \in Nat, NEW b \in BOOLEAN
  PROVE  /\ [user EXCEPT !.attempts = n, !.locked = b] \in Auth!UserRow
         /\ [user EXCEPT !.attempts = n, !.locked = b].version = user.version
         /\ [user EXCEPT !.attempts = n, !.locked = b].level = user.level
BY DEF Auth!UserRow

\* The row a statement leaves: of a level that only an upgrade may lower, and
\* of the next version exactly when the operation bumps it.
LEMMA NewRowFacts ==
  ASSUME Auth!TypeOK, NEW c \in Conns
  PROVE  /\ Auth!NewRow(c) \in Auth!UserRow
         /\ authTx[c].op # "upgrade" => Auth!NewRow(c).level >= user.level
         /\ Auth!NewRow(c).version = IF Auth!Bumps(c) THEN user.version + 1 ELSE user.version
<1> DEFINE op == authTx[c].op
           bad == user.attempts + 1
           row == CASE op = "mistype" -> [user EXCEPT !.attempts = bad, !.locked = bad >= Threshold]
                    [] op \in {"login", "reset"} -> [user EXCEPT !.attempts = 0, !.locked = FALSE]
                    [] op = "decide" -> [user EXCEPT !.status = authTx[c].arg]
                    [] op = "upgrade" \/ (op = "grant" /\ Auth!Raises(c)) -> [user EXCEPT !.level = authTx[c].arg]
                    [] OTHER -> user
<1>0. /\ user \in Auth!UserRow /\ user.level \in Auth!Levels /\ user.version \in Nat /\ user.attempts \in Nat
      /\ bad \in Nat
  BY DEF Auth!TypeOK, Auth!UserRow
<1>1. /\ op = "decide" => authTx[c].arg \in Auth!Statuses
      /\ op \in {"upgrade", "grant"} => authTx[c].arg \in Auth!Levels
  BY DEF Auth!TypeOK, Auth!Tx, Auth!Args, Auth!Levels, Auth!Statuses
<1>2. /\ row \in Auth!UserRow /\ row.version = user.version
      /\ op # "upgrade" => row.level >= user.level
  <2>1. CASE op = "mistype"
    <3>1. PICK b \in BOOLEAN : b <=> bad >= Threshold
      BY <1>0
    <3>2. row = [user EXCEPT !.attempts = bad, !.locked = bad >= Threshold]
      BY <2>1
    <3>3. (bad >= Threshold) = b
      BY <3>1
    <3>4. row = [user EXCEPT !.attempts = bad, !.locked = b]
      BY <3>2, <3>3, Zenon
    <3> HIDE DEF row, bad
    <3>5. row \in Auth!UserRow /\ row.version = user.version /\ row.level = user.level
      BY <1>0, <3>4, RowWith
    <3> QED
      BY <1>0, <3>5 DEF Auth!Levels
  <2>2. CASE op \in {"login", "reset"}
    <3>1. row = [user EXCEPT !.attempts = 0, !.locked = FALSE]
      BY <2>2
    <3> HIDE DEF row
    <3>2. 0 \in Nat /\ FALSE \in BOOLEAN
      OBVIOUS
    <3>3. row \in Auth!UserRow /\ row.version = user.version /\ row.level = user.level
      BY <1>0, <3>1, <3>2, RowWith
    <3> QED
      BY <1>0, <3>3 DEF Auth!Levels
  <2>3. CASE op = "decide"
    <3>1. row = [user EXCEPT !.status = authTx[c].arg]
      BY <2>3
    <3> QED
      BY <1>0, <1>1, <2>3, <3>1 DEF Auth!UserRow, Auth!Levels
  <2>4. CASE op = "upgrade" \/ (op = "grant" /\ Auth!Raises(c))
    <3>1. row = [user EXCEPT !.level = authTx[c].arg]
      BY <2>4
    <3> QED
      BY <1>0, <1>1, <2>4, <3>1 DEF Auth!UserRow, Auth!Levels, Auth!Raises
  <2>5. CASE op \notin {"mistype", "login", "reset", "decide", "upgrade"} /\ ~(op = "grant" /\ Auth!Raises(c))
    <3>1. /\ op # "mistype" /\ op \notin {"login", "reset"} /\ op # "decide"
          /\ ~(op = "upgrade" \/ (op = "grant" /\ Auth!Raises(c)))
      BY <2>5
    <3>2. row = user
      BY <3>1
    <3> HIDE DEF row
    <3> QED
      BY <1>0, <3>2 DEF Auth!Levels
  <2> QED
    BY <2>1, <2>2, <2>3, <2>4, <2>5
<1>3. Auth!NewRow(c) = IF Auth!Bumps(c) THEN [row EXCEPT !.version = @ + 1] ELSE row
  BY DEF Auth!NewRow
<1> HIDE DEF row
<1>4. CASE Auth!Bumps(c)
  <2>1. [row EXCEPT !.version = row.version + 1] \in Auth!UserRow
    BY <1>0, <1>2 DEF Auth!UserRow
  <2> QED
    BY <1>0, <1>2, <1>3, <1>4, <2>1 DEF Auth!UserRow
<1>5. CASE ~Auth!Bumps(c)
  BY <1>2, <1>3, <1>5
<1> QED
  BY <1>4, <1>5

\* The user row is written under its lock, and a login takes a session of its
\* own to issue; a login that may not go on ends.
LEMMA WriteUserSessionsInv ==
  ASSUME SessionsInv, NEW c \in Conns, Auth!WriteUser(c) PROVE SessionsInv'
<1> DEFINE op == authTx[c].op
<1>0. /\ op \notin {"idle", "refresh"}
      /\ \/ authTx[c].todo = <<"user">> /\ Tail(authTx[c].todo) = <<>>
         \/ /\ op \in {"reset", "decide"} /\ authTx[c].todo = <<"user", "snap", "sessions">>
            /\ Tail(authTx[c].todo) = <<"snap", "sessions">>
      /\ UNCHANGED <<user, session, access, prior, ended, starts, aborts>> /\ Auth!TypeOK
      /\ rowLock = Nothing
  BY NextUser DEF Auth!WriteUser, SessionsInv, Auth!tables
<1>1. CASE Auth!Rollback(c) /\ UNCHANGED tvmin
  BY <1>0, <1>1, RollbackKeeps DEF Auth!TypeOK
<1>2. ASSUME NEW t, t \in IF op = "login" THEN Auth!Unused ELSE {Nothing}, rowLock' = c,
             tvmin' = IF Auth!Bumps(c) THEN user.version + 1 ELSE tvmin,
             Auth!Step(c, [authTx[c] EXCEPT !.todo = Tail(@), !.new = Auth!NewRow(c), !.read = user, !.issue = t])
      PROVE  SessionsInv'
  <2> DEFINE new == [authTx[c] EXCEPT !.todo = Tail(@), !.new = Auth!NewRow(c), !.read = user, !.issue = t]
  <2>0. /\ authTx[c] \in Auth!Tx(op) /\ op \in Ops \cup {"idle"} /\ t \in Tokens \cup {Nothing}
        /\ Auth!NewRow(c) \in Auth!UserRow /\ Auth!NewRow(c) # Nothing /\ user.version \in Nat
    BY <1>0, <1>2, NewRowFacts, AuthAssumption DEF Auth!TypeOK, Auth!Unused, Auth!UserRow
  <2>1. /\ new.op = op /\ new.todo = Tail(authTx[c].todo) /\ new.arg = authTx[c].arg /\ new.read = user
        /\ new.new = Auth!NewRow(c) /\ new.snap = authTx[c].snap /\ new.owns = authTx[c].owns /\ new.issue = t
    BY <2>0 DEF Auth!Tx
  <2>2. new \in Auth!Tx(op)
    <3>1. Tail(authTx[c].todo) \in Auth!Todos(op)
      BY <1>0, <2>0 DEF Auth!Tx, Auth!Todos
    <3> QED
      BY <1>0, <2>0, <3>1 DEF Auth!Tx, Auth!TypeOK
  <2>3. Auth!Step(c, new)
    BY <1>2
  <2> HIDE DEF new
  <2>4. authTx'[c] = new /\ \A d \in Conns \ {c} : authTx'[d] = authTx[d]
    BY <1>0, <2>0, <2>1, <2>2, <2>3, StepFacts
  <2>5. Auth!TypeOK'
    BY <1>0, <1>2, <2>0, <2>1, <2>2, <2>3, StepFacts DEF Auth!TypeOK
  <2>f. Fits(c) /\ Covers(c)
    BY DEF SessionsInv, TxFits, SnapCovered
  <2>g. authTx[c].snap # Nothing \/ new.todo = <<"snap", "sessions">> => Auth!Bumps(c)
    BY <1>0, <2>1, <2>f, TodoApart DEF Fits, Covers, Auth!Bumps
  <2>6. TxFits'
    <3>1. Fits(c)'
      BY <1>0, <2>0, <2>1, <2>4, <2>f, TodoApart, AuthAssumption
         DEF Fits, RowPending, RowWritten, Auth!TypeOK
    <3> QED
      BY <1>0, <2>4, <3>1, OthersKeep DEF TxFits
  <2>7. OwnsApart'
    BY <1>0, <2>1, <2>4 DEF SessionsInv, OwnsApart
  <2>8. IssueFresh'
    BY <1>0, <1>2, <2>1, <2>4, AuthAssumption DEF SessionsInv, IssueFresh, Auth!Unused
  <2>9. RowHeld'
    <3>1. \A d \in Conns : authTx[d].new = Nothing
      BY <1>0, AuthAssumption DEF SessionsInv, RowHeld
    <3>2. /\ new.op # "upgrade" => new.new.level >= user.level
          /\ new.new.version \in {user.version, user.version + 1}
          /\ new.snap # Nothing \/ new.todo = <<"snap", "sessions">> => new.new.version = user.version + 1
      BY <1>0, <2>1, <2>g, NewRowFacts
    <3>3. new.todo \in {<<"snap", "sessions">>, <<"sessions">>} => new.todo = <<"snap", "sessions">>
      BY <1>0, <2>1, TodoApart
    <3> QED
      BY <1>0, <1>2, <2>4, <3>1, <3>2, <3>3 DEF RowHeld, RowWritten
  <2>10. SnapCovered'
    <3>1. Covers(c)'
      BY <1>0, <2>0, <2>1, <2>4, <2>f, TodoApart DEF Covers, Revoking
    <3> QED
      BY <1>0, <2>4, <3>1, OthersKeep DEF SnapCovered
  <2>11. ReadPast'
    BY <1>0, <2>0, <2>1, <2>4 DEF SessionsInv, ReadPast
  <2>12. TablesAgree' /\ Auth!RotatedOnce'
    BY <1>0 DEF SessionsInv, TablesAgree, Auth!RotatedOnce
  <2> QED
    BY <2>5, <2>6, <2>7, <2>8, <2>9, <2>10, <2>11, <2>12 DEF SessionsInv
<1> QED
  BY <1>1, <1>2 DEF Auth!WriteUser

\* What a commit writes: a row of the user that is not older, and only if it
\* held the row's lock.
LEMMA CommitRow ==
  ASSUME SessionsInv, NEW c \in Conns, Auth!Commit(c)
  PROVE  /\ user' \in Auth!UserRow /\ user'.version >= user.version
         /\ authTx[c].op # "upgrade" => user'.level >= user.level
         /\ authTx[c].snap # Nothing => user'.version = user.version + 1
         /\ \A d \in Conns \ {c} : authTx[d].new # Nothing => user' = user
<1>0. /\ user' = (IF authTx[c].new = Nothing THEN user ELSE authTx[c].new) /\ authTx[c].todo = <<>>
      /\ user \in Auth!UserRow /\ user.version \in Nat /\ user.level \in Auth!Levels
      /\ authTx[c].new \in Auth!UserRow \cup {Nothing}
  BY DEF Auth!Commit, SessionsInv, Auth!TypeOK, Auth!UserRow, Auth!Tx
<1>1. CASE authTx[c].new = Nothing
  <2>1. authTx[c].snap = Nothing
    BY <1>0, <1>1 DEF SessionsInv, SnapCovered, Covers
  <2> QED
    BY <1>0, <1>1, <2>1 DEF Auth!Levels
<1>2. CASE authTx[c].new # Nothing
  <2>1. /\ rowLock = c /\ (authTx[c].op # "upgrade" => authTx[c].new.level >= user.level)
        /\ authTx[c].new.version \in {user.version, user.version + 1}
        /\ authTx[c].snap # Nothing => authTx[c].new.version = user.version + 1
    BY <1>2 DEF SessionsInv, RowHeld
  <2>2. \A d \in Conns \ {c} : authTx[d].new = Nothing
    BY <2>1 DEF SessionsInv, RowHeld
  <2> QED
    BY <1>0, <1>2, <2>1, <2>2
<1> QED
  BY <1>1, <1>2

\* What a commit does to the sessions: the rows it changed are revoked, the
\* one it issues is live, and no session comes back.
LEMMA CommitSessions ==
  ASSUME SessionsInv, NEW c \in Conns, Auth!Commit(c)
  PROVE  /\ session' \in [Tokens -> {"none", "live", "revoked"}] /\ access' \in [Tokens -> Nat]
         /\ \A s \in Tokens :
              /\ session'[s] = IF s \in authTx[c].owns THEN "revoked"
                               ELSE IF s = authTx[c].issue THEN "live" ELSE session[s]
              /\ session[s] # "none" =>
                   /\ session'[s] # "none" /\ access'[s] = access[s] /\ s # authTx[c].issue
                   /\ session[s] = "revoked" => session'[s] = "revoked"
         /\ authTx[c].issue # Nothing => /\ access'[authTx[c].issue] <= user.version
                                  /\ authTx[c].issue \in Tokens
<1>0. /\ session' = [s \in Tokens |-> IF s \in authTx[c].owns THEN "revoked"
                                     ELSE IF s = authTx[c].issue THEN "live" ELSE session[s]]
      /\ access' = IF authTx[c].issue = Nothing THEN access
                   ELSE [access EXCEPT ![authTx[c].issue] = authTx[c].read.version]
      /\ session \in [Tokens -> {"none", "live", "revoked"}] /\ access \in [Tokens -> Nat]
      /\ authTx[c].issue \in Tokens \cup {Nothing} /\ authTx[c].read \in Auth!UserRow \cup {Nothing}
  BY DEF Auth!Commit, SessionsInv, Auth!TypeOK, Auth!Tx
<1>1. authTx[c].issue # Nothing => /\ session[authTx[c].issue] = "none" /\ authTx[c].issue \in Tokens
                            /\ authTx[c].read \in Auth!UserRow /\ authTx[c].read.version \in Nat
                            /\ authTx[c].read.version <= user.version
  BY <1>0 DEF SessionsInv, IssueFresh, TxFits, Fits, ReadPast, Auth!UserRow
<1>2. session' \in [Tokens -> {"none", "live", "revoked"}] /\ access' \in [Tokens -> Nat]
  BY <1>0, <1>1
<1>3. ASSUME NEW s \in Tokens, session[s] # "none"
      PROVE  /\ session'[s] # "none" /\ access'[s] = access[s] /\ s # authTx[c].issue
             /\ session[s] = "revoked" => session'[s] = "revoked"
  BY <1>0, <1>1, <1>3, AuthAssumption
<1> QED
  BY <1>0, <1>1, <1>2, <1>3

\* The commit of a request: its writes show all at once.
LEMMA CommitSessionsInv ==
  ASSUME SessionsInv, NEW c \in Conns, Auth!Commit(c) PROVE SessionsInv'
<1> USE DEF SessionsInv
<1>0. /\ Auth!Step(c, Auth!Idle) /\ rowLock' = (IF rowLock = c THEN Nothing ELSE rowLock)
      /\ authTx[c].todo = <<>> /\ authTx[c].op # "idle"
      /\ prior' = (IF authTx[c].op = "refresh" THEN [prior EXCEPT ![authTx[c].issue] = authTx[c].arg] ELSE prior)
      /\ ended' = (IF authTx[c].snap = Nothing THEN ended ELSE ended \cup authTx[c].snap)
      /\ UNCHANGED <<tvmin, starts, aborts>> /\ Auth!TypeOK
  BY DEF Auth!Commit, Auth!Rollback
<1>1. /\ authTx'[c] = Auth!Idle /\ \A d \in Conns \ {c} : authTx'[d] = authTx[d]
  BY <1>0, IdleTyped, StepFacts
<1>2. /\ authTx[c] \in Auth!Tx(authTx[c].op) /\ authTx[c].owns \in SUBSET Tokens
      /\ authTx[c].snap # Nothing => authTx[c].snap \in SUBSET Tokens
      /\ authTx[c].op = "refresh" => /\ authTx[c].issue \in Tokens /\ authTx[c].arg \in Tokens
                                 /\ authTx[c].owns = {authTx[c].arg}
  BY <1>0 DEF Auth!TypeOK, Auth!Tx, Auth!Args, TxFits, Fits
<1>v. user.version \in Nat /\ user'.version \in Nat /\ user.version <= user'.version
  BY <1>0, CommitRow DEF Auth!TypeOK, Auth!UserRow
<1>3. Auth!TypeOK'
  <2>1. prior' \in [Tokens -> Tokens \cup {Nothing}] /\ ended' \subseteq Tokens
    BY <1>0, <1>2 DEF Auth!TypeOK
  <2> QED
    BY <1>0, <2>1, IdleTyped, StepFacts, CommitRow, CommitSessions DEF Auth!TypeOK
<1>4. TxFits'
  <2>1. \A d \in Conns \ {c} : Fits(d)'
    BY <1>1 DEF TxFits, Fits, RowPending, RowWritten
  <2>2. Fits(c)'
    BY <1>1, IdleTyped DEF Fits, RowPending, RowWritten
  <2> QED
    BY <2>1, <2>2 DEF TxFits
<1>5. OwnsApart'
  <2>1. ASSUME NEW d \in Conns \ {c}, NEW s \in authTx[d].owns PROVE session'[s] = "live"
    <3>1. s \in Tokens /\ session[s] = "live" /\ s \notin authTx[c].owns
      BY <1>0 DEF OwnsApart, Auth!TypeOK, Auth!Tx
    <3> QED
      BY <3>1, CommitSessions
  <2> QED
    BY <1>1, <2>1, IdleTyped DEF OwnsApart
<1>6. IssueFresh'
  <2>1. ASSUME NEW d \in Conns \ {c}, authTx[d].issue # Nothing PROVE session'[authTx[d].issue] = "none"
    <3>1. /\ authTx[d].issue \in Tokens /\ session[authTx[d].issue] = "none" /\ authTx[d].issue # authTx[c].issue
          /\ authTx[d].issue \notin authTx[c].owns
      BY <1>0, <2>1 DEF IssueFresh, OwnsApart, Auth!TypeOK, Auth!Tx
    <3> QED
      BY <3>1, CommitSessions
  <2> QED
    BY <1>1, <2>1, IdleTyped DEF IssueFresh
<1>7. RowHeld'
  BY <1>0, <1>1, IdleTyped, CommitRow DEF RowHeld, RowWritten
<1>8. SnapCovered'
  <2>1. ASSUME NEW d \in Conns \ {c} PROVE Covers(d)'
    <3>1. Covers(d) /\ authTx'[d] = authTx[d] /\ (authTx[d].snap # Nothing => authTx[d].snap \in SUBSET Tokens)
      BY <1>0, <1>1 DEF SnapCovered, Auth!TypeOK, Auth!Tx
    <3>2. ASSUME authTx[d].snap # Nothing, NEW s \in authTx[d].snap
          PROVE  /\ session'[s] # "none" /\ access'[s] <= user'.version
                 /\ session[s] = "revoked" => session'[s] = "revoked"
      <4>1. s \in Tokens /\ session[s] # "none" /\ access[s] <= user.version /\ access[s] \in Nat
        BY <1>0, <3>1, <3>2 DEF Covers, Auth!TypeOK
      <4> QED
        BY <4>1, <1>v, CommitSessions
    <3> QED
      BY <3>1, <3>2 DEF Covers, Revoking
  <2>2. Covers(c)'
    BY <1>1, IdleTyped DEF Covers, Revoking
  <2> QED
    BY <2>1, <2>2 DEF SnapCovered
<1>9. ReadPast'
  <2>1. ASSUME NEW d \in Conns \ {c}, authTx[d].read # Nothing PROVE authTx[d].read.version <= user'.version
    <3>1. authTx[d].read.version \in Nat /\ authTx[d].read.version <= user.version
      BY <1>0, <2>1 DEF ReadPast, Auth!TypeOK, Auth!Tx, Auth!UserRow
    <3> QED
      BY <3>1, <1>v
  <2> QED
    BY <1>1, <2>1, IdleTyped DEF ReadPast
<1>10. TablesAgree'
  <2>1. ASSUME NEW t \in Tokens, prior'[t] # Nothing PROVE session'[prior'[t]] = "revoked"
    <3>1. CASE authTx[c].op = "refresh" /\ t = authTx[c].issue
      <4>1. prior'[t] = authTx[c].arg
        BY <1>0, <1>2, <3>1 DEF Auth!TypeOK
      <4> QED
        BY <4>1, <3>1, <1>2, CommitSessions
    <3>2. CASE ~(authTx[c].op = "refresh" /\ t = authTx[c].issue)
      <4>1. prior'[t] = prior[t] /\ prior[t] \in Tokens /\ session[prior[t]] = "revoked"
        BY <1>0, <1>2, <2>1, <3>2 DEF Auth!TypeOK, TablesAgree
      <4> QED
        BY <4>1, CommitSessions
    <3> QED
      BY <3>1, <3>2
  <2>2. ASSUME NEW t \in Tokens, session'[t] # "none" PROVE access'[t] <= user'.version
    <3>1. CASE t = authTx[c].issue
      <4>1. t # Nothing /\ access'[t] <= user.version /\ access'[t] \in Nat
        BY <3>1, CommitSessions, AuthAssumption
      <4> QED
        BY <4>1, <1>v
    <3>2. CASE t # authTx[c].issue
      <4>1. session[t] # "none"
        BY <2>2, <3>2, CommitSessions DEF OwnsApart
      <4>2. access[t] <= user.version /\ access[t] \in Nat
        BY <1>0, <4>1 DEF TablesAgree, Auth!TypeOK
      <4> QED
        BY <4>1, <4>2, <1>v, CommitSessions
    <3> QED
      BY <3>1, <3>2
  <2>3. ASSUME NEW t \in ended' PROVE session'[t] = "revoked" /\ access'[t] < user'.version
    <3>1. CASE t \in ended
      <4>1. t \in Tokens /\ session[t] = "revoked" /\ access[t] < user.version /\ access[t] \in Nat
        BY <1>0, <3>1 DEF Auth!TypeOK, TablesAgree
      <4> QED
        BY <4>1, <1>v, CommitSessions
    <3>2. CASE t \notin ended
      <4>1. authTx[c].snap # Nothing /\ t \in authTx[c].snap /\ t \in Tokens
        BY <1>0, <1>2, <2>3, <3>2
      <4>2. /\ session[t] # "none" /\ access[t] <= user.version /\ access[t] \in Nat
            /\ t \in authTx[c].owns \/ session[t] = "revoked"
        BY <1>0, <4>1, TodoApart DEF SnapCovered, Covers, Revoking, Auth!TypeOK
      <4>3. user'.version = user.version + 1
        BY <4>1, CommitRow
      <4> QED
        BY <4>1, <4>2, <4>3, <1>v, CommitSessions
    <3> QED
      BY <3>1, <3>2
  <2> QED
    BY <2>1, <2>2, <2>3 DEF TablesAgree
<1>11. Auth!RotatedOnce'
  <2>1. CASE authTx[c].op = "refresh"
    <3>1. session[authTx[c].arg] = "live" /\ \A t \in Tokens : prior[t] # authTx[c].arg
      BY <1>2, <2>1, AuthAssumption DEF OwnsApart, TablesAgree
    <3> QED
      BY <1>0, <1>2, <2>1, <3>1 DEF Auth!RotatedOnce, Auth!TypeOK
  <2>2. CASE authTx[c].op # "refresh"
    BY <1>0, <2>2 DEF Auth!RotatedOnce
  <2> QED
    BY <2>1, <2>2
<1> QED
  BY <1>3, <1>4, <1>5, <1>6, <1>7, <1>8, <1>9, <1>10, <1>11

-----------------------------------------------------------------------------
(* The theorems                                                            *)

\* Every request that begins fits the statements it is going to run.
LEMMA RequestSessionsInv ==
  ASSUME SessionsInv, NEW c \in Conns,
         \/ \E good \in BOOLEAN : Auth!Login(c, good)
         \/ \E t \in Tokens : Auth!Refresh(c, t)
         \/ Auth!Logout(c) \/ Auth!Reset(c) \/ Auth!Upgrade(c)
         \/ \E s \in Auth!Statuses : Auth!Decide(c, s)
         \/ \E n \in Auth!Levels : Auth!Grant(c, n)
  PROVE  SessionsInv'
<1>1. ASSUME NEW good \in BOOLEAN, Auth!Login(c, good) PROVE SessionsInv'
  <2>1. /\ <<"user">> \in Auth!Todos("login") /\ <<"user">> \in Auth!Todos("mistype")
        /\ Nothing \in Auth!Args("login") /\ Nothing \in Auth!Args("mistype")
    BY DEF Auth!Todos, Auth!Args
  <2>2. Auth!Begin(c, "login", Nothing, <<"user">>) \/ Auth!Begin(c, "mistype", Nothing, <<"user">>)
    BY <1>1 DEF Auth!Login
  <2> QED
    BY <2>1, <2>2, BeginSessionsInv, TodoApart
<1>2. ASSUME NEW t \in Tokens, Auth!Refresh(c, t) PROVE SessionsInv'
  <2>1. <<"token">> \in Auth!Todos("refresh") /\ t \in Auth!Args("refresh")
    BY DEF Auth!Todos, Auth!Args
  <2>2. Auth!Begin(c, "refresh", t, <<"token">>)
    BY <1>2 DEF Auth!Refresh
  <2> QED
    BY <2>1, <2>2, BeginSessionsInv
<1>3. ASSUME Auth!Logout(c) PROVE SessionsInv'
  <2>1. <<"snap", "sessions", "user">> \in Auth!Todos("logout") /\ Nothing \in Auth!Args("logout")
    BY DEF Auth!Todos, Auth!Args
  <2>2. Auth!Begin(c, "logout", Nothing, <<"snap", "sessions", "user">>)
    BY <1>3 DEF Auth!Logout
  <2> QED
    BY <2>1, <2>2, BeginSessionsInv
<1>4. ASSUME Auth!Reset(c) PROVE SessionsInv'
  <2>1. <<"user", "snap", "sessions">> \in Auth!Todos("reset") /\ Nothing \in Auth!Args("reset")
    BY DEF Auth!Todos, Auth!Args
  <2>2. Auth!Begin(c, "reset", Nothing, <<"user", "snap", "sessions">>)
    BY <1>4 DEF Auth!Reset
  <2> QED
    BY <2>1, <2>2, BeginSessionsInv
<1>5. ASSUME Auth!Upgrade(c) PROVE SessionsInv'
  <2>1. <<"user">> \in Auth!Todos("upgrade") /\ 1 \in Auth!Args("upgrade")
    BY DEF Auth!Todos, Auth!Args
  <2>2. Auth!Begin(c, "upgrade", 1, <<"user">>)
    BY <1>5 DEF Auth!Upgrade
  <2> QED
    BY <2>1, <2>2, BeginSessionsInv, TodoApart
<1>6. ASSUME NEW s \in Auth!Statuses, Auth!Decide(c, s) PROVE SessionsInv'
  <2>1. /\ <<"user">> \in Auth!Todos("decide") /\ <<"user", "snap", "sessions">> \in Auth!Todos("decide")
        /\ s \in Auth!Args("decide")
    BY <1>6 DEF Auth!Todos, Auth!Args, Auth!Decide
  <2>2. \/ Auth!Begin(c, "decide", s, <<"user">>)
        \/ s = "rejected" /\ Auth!Begin(c, "decide", s, <<"user", "snap", "sessions">>)
    BY <1>6 DEF Auth!Decide
  <2> QED
    BY <2>1, <2>2, BeginSessionsInv, TodoApart
<1>7. ASSUME NEW n \in Auth!Levels, Auth!Grant(c, n) PROVE SessionsInv'
  <2>1. <<"user">> \in Auth!Todos("grant") /\ n \in Auth!Args("grant")
    BY DEF Auth!Todos, Auth!Args
  <2>2. Auth!Begin(c, "grant", n, <<"user">>)
    BY <1>7 DEF Auth!Grant
  <2> QED
    BY <2>1, <2>2, BeginSessionsInv, TodoApart
<1> QED
  BY <1>1, <1>2, <1>3, <1>4, <1>5, <1>6, <1>7

\* A refused, failed or deadlocked transaction rolls back.
LEMMA EndSessionsInv ==
  ASSUME SessionsInv, NEW c \in Conns, Auth!Deny(c) \/ Auth!Abort(c) \/ Auth!BreakDeadlock(c) PROVE SessionsInv'
<1>1. /\ Auth!Rollback(c) /\ UNCHANGED <<user, session, access, prior, ended>>
      /\ tvmin' = tvmin /\ starts' = starts
      /\ aborts' = aborts \/ (aborts < MaxAborts /\ aborts' = aborts + 1)
  BY DEF Auth!Deny, Auth!Abort, Auth!BreakDeadlock, Auth!tables
<1>2. tvmin' \in Nat /\ starts' \in 0..MaxStarts /\ aborts' \in 0..MaxAborts
  BY <1>1, AuthAssumption DEF SessionsInv, Auth!TypeOK
<1> QED
  BY <1>1, <1>2, RollbackKeeps

\* The expiry of tv:min, and no step at all.
LEMMA ExpireSessionsInv ==
  ASSUME SessionsInv, Auth!Expire \/ UNCHANGED Auth!vars PROVE SessionsInv'
<1>1. /\ UNCHANGED <<user, session, access, prior, rowLock, authTx, ended, starts, aborts>>
      /\ tvmin' \in Nat
  BY DEF Auth!Expire, Auth!vars, Auth!tables, SessionsInv, Auth!TypeOK
<1>2. Auth!TypeOK'
  BY <1>1 DEF SessionsInv, Auth!TypeOK
<1>3. TxFits' /\ OwnsApart' /\ IssueFresh' /\ ReadPast'
  BY <1>1 DEF SessionsInv, TxFits, Fits, OwnsApart, IssueFresh, ReadPast, RowPending, RowWritten
<1>4. RowHeld' /\ SnapCovered'
  BY <1>1 DEF SessionsInv, RowHeld, SnapCovered, Covers, Revoking, RowWritten
<1>5. TablesAgree' /\ Auth!RotatedOnce'
  BY <1>1 DEF SessionsInv, TablesAgree, Auth!RotatedOnce
<1> QED
  BY <1>2, <1>3, <1>4, <1>5 DEF SessionsInv

\* Every step preserves the inductive invariant.
LEMMA NextSessionsInv == SessionsInv /\ [Auth!Next]_(Auth!vars) => SessionsInv'
<1> SUFFICES ASSUME SessionsInv, [Auth!Next]_(Auth!vars) PROVE SessionsInv'
  OBVIOUS
<1>1. ASSUME NEW c \in Conns, Auth!Work(c) PROVE SessionsInv'
  BY <1>1, ConsumeSessionsInv, SnapshotSessionsInv, RevokeSessionsInv, WriteUserSessionsInv, EndSessionsInv,
     CommitSessionsInv DEF Auth!Work
<1>2. ASSUME NEW c \in Conns, Auth!Abort(c) \/ Auth!BreakDeadlock(c) PROVE SessionsInv'
  BY <1>2, EndSessionsInv
<1> QED
  BY <1>1, <1>2, RequestSessionsInv, ExpireSessionsInv DEF Auth!Next

\* The inductive invariant holds in every reachable state.
THEOREM SessionsInvariance == Auth!Spec => []SessionsInv
BY InitSessionsInv, NextSessionsInv, PTL DEF Auth!Spec

\* Rows, tokens and transactions keep their shape.
THEOREM SessionsTyped == Auth!Spec => []Auth!TypeOK
<1>1. SessionsInv => Auth!TypeOK
  BY DEF SessionsInv
<1> QED
  BY <1>1, SessionsInvariance, PTL

\* A refresh token is exchanged at most once, a session that a completed
\* revocation saw stays revoked, and its access token is of an older version,
\* for any number of connections and sessions and whatever fails
\* (refresh_access_token, revoke_all_for_user, bump_token_version).
THEOREM SessionsCorrect == Auth!Spec => []SessionsSound
<1>1. SessionsInv => SessionsSound
  BY DEF SessionsInv, TablesAgree, SessionsSound, Auth!SessionsSound, Auth!EndedStayEnded, Auth!EndedOutdated,
     Auth!Live
<1> QED
  BY <1>1, SessionsInvariance, PTL

\* Grants never lower the level of an account, whatever runs beside them:
\* the level is read again under the row's lock (_lock_user_row), and only an
\* upgrade writes without looking.
THEOREM LevelOnlyRises == Auth!Spec => Auth!LevelRises
<1>1. ASSUME SessionsInv, [Auth!Next]_(Auth!vars)
      PROVE  [user'.level < user.level
                 => \E c \in Conns : authTx[c].op = "upgrade" /\ authTx'[c] = Auth!Idle]_(Auth!vars)
  <2> SUFFICES ASSUME Auth!Next, user'.level < user.level
               PROVE  \E c \in Conns : authTx[c].op = "upgrade" /\ authTx'[c] = Auth!Idle
    BY <1>1
  <2>0. user.level \in Int /\ user \in Auth!UserRow
    BY <1>1 DEF SessionsInv, Auth!TypeOK, Auth!UserRow, Auth!Levels
  <2>1. user' # user
    BY <2>0
  <2>2. PICK c \in Conns : Auth!Commit(c)
    BY <2>1 DEF Auth!Next, Auth!Work, Auth!Login, Auth!Refresh, Auth!Logout, Auth!Reset, Auth!Upgrade, Auth!Decide,
       Auth!Grant, Auth!Begin, Auth!Consume,
                Auth!Snapshot, Auth!Revoke, Auth!WriteUser, Auth!Deny, Auth!Abort, Auth!BreakDeadlock, Auth!Expire,
                    Auth!tables
  <2>3. authTx[c].op = "upgrade"
    <3>1. user'.level \in Int
      BY <1>1, <2>2, CommitRow DEF Auth!UserRow, Auth!Levels
    <3> QED
      BY <1>1, <2>0, <2>2, <3>1, CommitRow
  <2>4. authTx'[c] = Auth!Idle
    BY <1>1, <2>2, IdleTyped, StepFacts DEF Auth!Commit, Auth!Rollback, SessionsInv
  <2> QED
    BY <2>3, <2>4
<1> QED
  BY <1>1, SessionsInvariance, PTL DEF Auth!Spec, Auth!LevelRises
=============================================================================

--------------------------- MODULE PublicationProofs ---------------------------
(***************************************************************************)
(* Proofs about the artifact pointer, for any number of operations,        *)
(* recoveries, crashes and retries: under a host that does not publish     *)
(* while it recovers and whose workers are done before their lease         *)
(* expires, every pointer advances the one before it by a generation, the  *)
(* rollback stays sealed, readers are served, and the pair recorded for    *)
(* the pointer is the pointer.                                             *)
(***************************************************************************)
EXTENDS PublicationProperties, FiniteSetTheorems, TLAPS

\* A host whose recovery and whose publishers take turns, with workers in time.
Serial == Recovery \in {"first", "alone"} /\ ~Overrun

-----------------------------------------------------------------------------
(* Types. *)

PublisherState ==
    [pc : PublisherSteps, attempt : 1 .. MaxAttempts, now : Nat, expect : Expectation,
     cur : PointerDocument \cup {None}, back : PointerArtifact \cup {None},
     writer : Hold \cup {None}, promotion : Hold \cup {None}]

IntentItem == Isolated \X PendingIntentStates
LeaseItem  == LeaseNames \X Hold
JobItem    == Ops \X (Workers \cup {None}) \X (Nat \cup {None})

Choice == [name : Artifacts, head : Pubs, role : {"active", "rollback"}, repair : BOOLEAN]

RecovererState ==
    [pc : RecoverySteps, now : Nat, ptr : PointerDocument \cup {None},
     sel : Choice \cup {None}, live : SUBSET Ops,
     todo : SUBSET (IntentItem \cup LeaseItem \cup JobItem),
     item : IntentItem \cup LeaseItem \cup {None}, crashes : 0 .. MaxCrashes]

FilesTyped ==
    /\ ptr \in PointerDocument \cup {None}
    /\ head \in [Artifacts -> Pubs \cup {None}]
    /\ parent \in [Pubs -> Pubs \cup {None}]
    /\ damaged \subseteq Artifacts
    /\ IsFiniteSet(damaged) /\ Cardinality(damaged) <= MaxDamage

ProcessesTyped ==
    /\ clock \in Nat /\ dirty \in BOOLEAN
    /\ pub \in [Ops -> PublisherState]
    /\ rec \in [Recoverers -> RecovererState]

\* What a recovery keeps in a step: its pointer, its selection, the page it is
\* working on, with intents that are there, and the row it left half done.
Resting == {"idle", "raised", "unreadable"}

PageTyped(q) ==
    /\ q.pc \notin Resting => q.ptr \in PointerDocument
    /\ q.pc \notin Resting \cup {"read"} => q.sel \in Choice
    /\ q.pc = "completed" => q.sel.head \in Ops
    /\ q.pc \in {"intents", "reconcile", "undo"} =>
           /\ q.todo \subseteq IntentItem
           /\ \A item \in q.todo : intents[item[1]] # None
    /\ q.pc \in {"reconcile", "undo"} =>
           q.item \in IntentItem /\ intents[q.item[1]] # None
    /\ q.pc \in {"leases", "fail"} => q.todo \subseteq LeaseItem
    /\ q.pc = "fail" => q.item \in LeaseItem
    /\ q.pc = "jobs" => q.todo \subseteq JobItem

RecoveryTyped(r) == PageTyped(rec[r])

\* A lease refers to a job that is there.
LeasedJobsExist ==
    \A n \in LeaseNames : leases[n] # None => jobs[leases[n].op] # None

StoreTyped == StoreTypeOK /\ LeasedJobsExist

Typed == StoreTyped /\ FilesTyped /\ ProcessesTyped

-----------------------------------------------------------------------------
(* The inductive invariant. *)

Busy(o) == pub[o].pc \notin Idle \cup {"ready"}

\* Publishers and recoveries take turns.
Apart == (\E r \in Recoverers : ~RecAt(r, "idle")) => \A o \in Ops : pub[o].pc \in Idle

\* A publisher at work holds the writer lease, and it has not expired; so there
\* is one such publisher at most.
Holds(o) ==
    Busy(o) =>
        LET lease == leases["analytical_writer"]
        IN  /\ lease # None
            /\ lease.op = o /\ lease.worker = WorkerOf(o)
            /\ lease.expires > clock
            /\ pub[o].writer = HoldOf(lease)

\* The pointer names a head that it is at, or that is the next one; its rollback
\* is another artifact, at the publication it was sealed at.
PointerServes ==
    ptr # None =>
        /\ head[ptr.active.name] # None
        /\ \/ head[ptr.active.name] = ptr.active.pub
           \/ parent[head[ptr.active.name]] = ptr.active.pub
        /\ ptr.active.file \in {None, ptr.active.pub}
        /\ ptr.rollback # None =>
               /\ ptr.rollback.name # ptr.active.name
               /\ head[ptr.rollback.name] = ptr.rollback.pub
               /\ ptr.rollback.file = ptr.rollback.pub

\* An artifact is at a publication made in place, or at its own.
HeadsAreOwn == \A a \in Artifacts : head[a] \in Small \cup {a, None}

\* A candidate that was promoted is not promoted again: its plan is an old one.
PlanIsOld(o) ==
    /\ o \in Isolated /\ ptr # None
    /\ ptr.active.name = o \/ (ptr.rollback # None /\ ptr.rollback.name = o)
    => head[o] # None /\ pub[o].expect.gen < ptr.gen

\* What a publisher knows of the files from one step to the next.
SmallWork(o) ==
    /\ pub[o].pc \in {"checked", "committed", "fenced"} => ptr # None /\ pub[o].cur = ptr
    /\ At(o, "checked") => pub[o].expect.pub = ptr.active.pub
    /\ pub[o].pc \in {"committed", "fenced", "written", "recorded"} =>
           ptr # None /\ head[ptr.active.name] = o
    /\ At(o, "written") => pub[o].cur # None /\ ptr = AdvancedPointer(o)

IsolatedWork(o) ==
    /\ pub[o].pc \in {"checked", "intended", "sealed", "fenced"} =>
           pub[o].cur = ptr /\ PointerExpected(o) /\ head[o] = o
    /\ pub[o].pc \in {"sealed", "fenced"} =>
           IF ptr = None THEN pub[o].back = None
           ELSE /\ pub[o].back = [ptr.active EXCEPT !.file = ptr.active.pub]
                /\ head[ptr.active.name] = ptr.active.pub
    /\ pub[o].pc \in {"written", "marked", "verified"} => ptr = PromotedPointer(o)
    /\ pub[o].pc \in {"written", "marked", "verified", "recorded", "reconciled"} =>
           ptr # None /\ ptr.active.name = o /\ head[o] = o

Works(o) == (o \in Small => SmallWork(o)) /\ (o \in Isolated => IsolatedWork(o))

\* A recovery's pointer is the pointer, or it lags and another recovery advanced
\* it as this one is about to.
Follows(p) ==
    \/ ptr = p
    \/ /\ NeedsRepair(p.active)
       /\ parent[head[p.active.name]] = p.active.pub
       /\ ptr = RepairedPointer(p, p.active.name, head[p.active.name])

RecoveryWorks(r) ==
    /\ rec[r].pc \notin Resting => ptr # None /\ Follows(rec[r].ptr)
    /\ RecAt(r, "selected") =>
           rec[r].sel.repair = (rec[r].sel.role = "active" /\ NeedsRepair(rec[r].ptr.active))
    /\ rec[r].pc \notin Resting \cup {"read", "selected"} /\ rec[r].sel.role = "active" =>
           ~NeedsRepair(rec[r].ptr.active)
    /\ rec[r].pc \notin Resting \cup {"read"} =>
           /\ rec[r].sel.role = "active" => /\ rec[r].sel.name = rec[r].ptr.active.name
                                            /\ rec[r].sel.head = head[rec[r].sel.name]
           /\ MaxDamage = 0 => rec[r].sel.role = "active"

\* No pair is recorded for a later pointer, and the one for this pointer is it.
RowsFollow ==
    MaxDamage = 0 =>
        \A row \in pointerRows :
            /\ ptr # None /\ row.gen <= ptr.gen
            /\ row.gen = ptr.gen => row = RowOf(ptr, row.owner)

IInv ==
    /\ Typed
    /\ Apart
    /\ HeadsAreOwn
    /\ PointerServes
    /\ RowsFollow
    /\ \A o \in Ops : Holds(o) /\ PlanIsOld(o) /\ Works(o)
    /\ \A r \in Recoverers : RecoveryTyped(r) /\ RecoveryWorks(r)

-----------------------------------------------------------------------------
(* What the operations of the sidecar do to its types. *)

\* A job that is there and not terminal is an active one, and not both.
LEMMA JobKinds ==
    ASSUME StoreTyped, NEW o \in Ops, jobs[o] # None
    PROVE  /\ jobs[o] \in Job
           /\ IsActive(o) \/ IsTerminal(o)
           /\ ~(IsActive(o) /\ IsTerminal(o))
BY DEF StoreTyped, StoreTypeOK, Job, JobStates, ActiveStates, TerminalStates,
       IsActive, IsTerminal

\* A lease row that is there is a lease, of a job that is there.
LEMMA LeaseRow ==
    ASSUME StoreTyped, NEW n \in LeaseNames, leases[n] # None
    PROVE  /\ leases[n] \in Lease /\ HoldOf(leases[n]) \in Hold
           /\ leases[n].op \in Ops /\ leases[n].worker \in Workers
           /\ leases[n].token \in Nat /\ leases[n].expires \in Nat
           /\ jobs[leases[n].op] # None
BY DEF StoreTyped, StoreTypeOK, LeasedJobsExist, Lease, Hold, HoldOf

\* Changing the row of one job keeps the types.
LEMMA JobsTyped ==
    ASSUME StoreTyped, NEW o \in Ops, NEW row \in Job,
           jobs' = [jobs EXCEPT ![o] = row],
           UNCHANGED <<leases, fence, intents, pointerRows>>
    PROVE  StoreTyped'
BY AbsentAssumption DEF StoreTyped, StoreTypeOK, LeasedJobsExist, Lease

LEMMA StartJobTyped ==
    ASSUME StoreTyped, NEW o \in Ops, NEW now \in Nat, StartJob(o, now)
    PROVE  StoreTyped'
<1> DEFINE row == [state |-> "planned", worker |-> None, heartbeat |-> None,
                   created |-> now, updated |-> now, candidate |-> None, terminal |-> None]
<1>1. row \in Job
  BY DEF Job, JobStates, ActiveStates
<1>2. jobs' = [jobs EXCEPT ![o] = row] /\ UNCHANGED <<leases, fence, intents, pointerRows>>
  BY DEF StartJob
<1> HIDE DEF row
<1> QED
  BY <1>1, <1>2, JobsTyped

LEMMA HeartbeatTyped ==
    ASSUME StoreTyped, NEW o \in Ops, NEW w, NEW now \in Nat, HeartbeatJob(o, w, now)
    PROVE  StoreTyped'
<1> DEFINE row == [jobs[o] EXCEPT !.heartbeat = now]
<1>1. row \in Job
  BY JobKinds DEF HeartbeatJob, IsActive, Job
<1>2. jobs' = [jobs EXCEPT ![o] = row] /\ UNCHANGED <<leases, fence, intents, pointerRows>>
  BY DEF HeartbeatJob
<1> HIDE DEF row
<1> QED
  BY <1>1, <1>2, JobsTyped

LEMMA ForceTerminalTyped ==
    ASSUME StoreTyped, NEW o \in Ops, NEW s, NEW p \in Pubs \cup {None}, NEW now \in Nat,
           ForceTerminal(o, s, p, now)
    PROVE  StoreTyped'
<1> DEFINE row == [jobs[o] EXCEPT !.state = s, !.worker = None, !.heartbeat = None,
                                  !.updated = now, !.terminal = p]
<1>1. CASE IsTerminal(o)
  BY <1>1 DEF ForceTerminal, StoreTyped, StoreTypeOK, LeasedJobsExist
<1>2. CASE ~IsTerminal(o)
  <2>1. row \in Job
    BY <1>2, JobKinds DEF ForceTerminal, MayForceTerminal, Job, JobStates
  <2>2. jobs' = [jobs EXCEPT ![o] = row] /\ UNCHANGED <<leases, fence, intents, pointerRows>>
    BY <1>2 DEF ForceTerminal
  <2> HIDE DEF row
  <2> QED
    BY <2>1, <2>2, JobsTyped
<1> QED
  BY <1>1, <1>2

\* What taking a lease does to the jobs: at most the previous holder's changes,
\* and it goes to recovery_required from an active state.
LEMMA DemotedJobs ==
    ASSUME StoreTyped, NEW n \in LeaseNames, NEW now \in Nat
    PROVE  /\ Demoted(n, now) \in [Ops -> Job \cup {None}]
           /\ \A q \in Ops : \/ Demoted(n, now)[q] = jobs[q]
                             \/ /\ leases[n] # None /\ q = leases[n].op
                                /\ IsActive(q)
                                /\ Demoted(n, now)[q] \in Job
                                /\ Demoted(n, now)[q].state = "recovery_required"
                                /\ Demoted(n, now)[q].updated = now
<1>1. CASE leases[n] = None
  BY <1>1 DEF Demoted, StoreTyped, StoreTypeOK
<1>2. CASE leases[n] # None
  <2> DEFINE prior == leases[n].op
             row == [jobs[prior] EXCEPT !.state = "recovery_required", !.worker = None,
                                        !.heartbeat = None, !.updated = now]
  <2>1. prior \in Ops /\ jobs[prior] # None
    BY <1>2, LeaseRow
  <2>2. CASE IsTerminal(prior)
    BY <1>2, <2>2 DEF Demoted, StoreTyped, StoreTypeOK
  <2>3. CASE ~IsTerminal(prior)
    <3>1. jobs[prior] \in Job /\ IsActive(prior)
      BY <2>1, <2>3, JobKinds
    <3>2. row \in Job /\ row.state = "recovery_required" /\ row.updated = now
      BY <3>1 DEF Job, JobStates, ActiveStates
    <3>3. Demoted(n, now) = [jobs EXCEPT ![prior] = row]
      BY <1>2, <2>3 DEF Demoted
    <3> HIDE DEF row
    <3> QED
      BY <1>2, <2>1, <3>1, <3>2, <3>3 DEF StoreTyped, StoreTypeOK
  <2> QED
    BY <2>2, <2>3
<1> QED
  BY <1>1, <1>2

\* What acquiring a lease does to the rows.
LEMMA AcquireTyped ==
    ASSUME StoreTyped, NEW n \in LeaseNames, NEW o \in Ops, NEW w \in Workers, NEW now \in Nat,
           NEW alive, AcquireLease(n, o, w, now, alive)
    PROVE  /\ StoreTyped'
           /\ leases'[n] \in Lease /\ leases'[n] # None /\ HoldOf(leases'[n]) \in Hold
           /\ leases'[n].op = o /\ leases'[n].worker = w /\ leases'[n].expires = now + TTL
           /\ \A m \in LeaseNames \ {n} : leases'[m] = leases[m]
           /\ UNCHANGED <<intents, pointerRows>>
           /\ leases[n] # None => Stale(leases[n], now, alive) \/ leases[n].op = o
<1> USE LeaseAssumption, AbsentAssumption
<1>1. CASE RenewLease(n, o, w, now, alive)
  <2> DEFINE row == [leases[n] EXCEPT !.expires = Expiry(now)]
  <2>1. leases[n] # None /\ leases[n].op = o /\ leases[n].worker = w
    BY <1>1 DEF RenewLease, MayRenew
  <2>2. /\ row \in Lease /\ HoldOf(row) \in Hold
        /\ row.op = o /\ row.worker = w /\ row.expires = now + TTL
    BY <2>1, LeaseRow DEF Lease, Hold, HoldOf, Expiry
  <2>3. leases' = [leases EXCEPT ![n] = row] /\ UNCHANGED <<jobs, fence, intents, pointerRows>>
    BY <1>1 DEF RenewLease
  <2> HIDE DEF row
  <2>4. leases'[n] = row /\ \A m \in LeaseNames \ {n} : leases'[m] = leases[m]
    BY <2>3 DEF StoreTyped, StoreTypeOK
  <2>5. StoreTyped'
    BY <2>1, <2>2, <2>3, LeaseRow DEF StoreTyped, StoreTypeOK, LeasedJobsExist
  <2> QED
    BY <2>1, <2>2, <2>3, <2>4, <2>5
<1>2. CASE TakeLease(n, o, w, now, alive)
  <2> DEFINE row == [op |-> o, worker |-> w, token |-> fence[n] + 1, acquired |-> now,
                     expires |-> Expiry(now)]
  <2>1. /\ row \in Lease /\ HoldOf(row) \in Hold
        /\ row.op = o /\ row.worker = w /\ row.expires = now + TTL
    BY DEF Lease, Hold, HoldOf, Expiry, StoreTyped, StoreTypeOK
  <2>2. leases' = [leases EXCEPT ![n] = row] /\ UNCHANGED <<intents, pointerRows>>
    BY <1>2 DEF TakeLease
  <2>3. jobs' = Demoted(n, now) /\ jobs[o] # None
    BY <1>2 DEF TakeLease
  <2>4. fence' \in [LeaseNames -> Nat]
    BY <1>2 DEF TakeLease, StoreTyped, StoreTypeOK
  <2>5. leases[n] # None => Stale(leases[n], now, alive)
    BY <1>2 DEF TakeLease, MayTake
  <2> HIDE DEF row
  <2>6. leases'[n] = row /\ \A m \in LeaseNames \ {n} : leases'[m] = leases[m]
    BY <2>2 DEF StoreTyped, StoreTypeOK
  <2>7. jobs' \in [Ops -> Job \cup {None}] /\ \A q \in Ops : jobs[q] # None => jobs'[q] # None
    BY <2>3, DemotedJobs
  <2>8. LeasedJobsExist'
    BY <2>1, <2>3, <2>6, <2>7, LeaseRow DEF LeasedJobsExist
  <2>9. StoreTypeOK'
    BY <2>1, <2>2, <2>4, <2>7 DEF StoreTyped, StoreTypeOK
  <2> QED
    BY <2>1, <2>2, <2>5, <2>6, <2>8, <2>9 DEF StoreTyped
<1> QED
  BY <1>1, <1>2 DEF AcquireLease

LEMMA ReleaseTyped ==
    ASSUME StoreTyped, NEW n \in LeaseNames, NEW l, ReleaseLease(n, l)
    PROVE  StoreTyped'
BY DEF ReleaseLease, StoreTyped, StoreTypeOK, LeasedJobsExist

LEMMA IntentsTyped ==
    ASSUME StoreTyped, NEW i \in Isolated, NEW row \in Intent,
           intents' = [intents EXCEPT ![i] = row],
           UNCHANGED <<jobs, leases, fence, pointerRows>>
    PROVE  StoreTyped' /\ \A j \in Isolated : intents[j] # None => intents'[j] # None
BY AbsentAssumption DEF StoreTyped, StoreTypeOK, LeasedJobsExist

LEMMA TransitionIntentTyped ==
    ASSUME StoreTyped, NEW i \in Isolated, NEW e, NEW s, NEW now \in Nat,
           TransitionIntent(i, e, s, now)
    PROVE  StoreTyped' /\ \A j \in Isolated : intents[j] # None => intents'[j] # None
<1> DEFINE row == [intents[i] EXCEPT !.state = s, !.updated = now]
<1>1. intents[i] # None /\ intents[i].state = e
  BY DEF TransitionIntent, MayMoveIntent
<1>2. s \in IntentStates
  BY <1>1 DEF TransitionIntent, IntentTransitions, IntentStates, PendingIntentStates,
         StoreTyped, StoreTypeOK, Intent
<1>3. row \in Intent
  BY <1>1, <1>2 DEF Intent, StoreTyped, StoreTypeOK
<1>4. intents' = [intents EXCEPT ![i] = row] /\ UNCHANGED <<jobs, leases, fence, pointerRows>>
  BY DEF TransitionIntent
<1> HIDE DEF row
<1> QED
  BY <1>3, <1>4, IntentsTyped

LEMMA RecordTyped ==
    ASSUME StoreTyped, NEW row \in PointerRow, RecordPointerPair(row)
    PROVE  StoreTyped'
BY DEF RecordPointerPair, StoreTyped, StoreTypeOK, LeasedJobsExist

-----------------------------------------------------------------------------
(* The initial state, and what steps leave alone. *)

LEMMA InvInit == Init => IInv
<1> SUFFICES ASSUME Init PROVE IInv
  OBVIOUS
<1> USE AbsentAssumption, BoundAssumption
<1>1. StoreTyped
  BY DEF Init, StoreInit, StoreTyped, StoreTypeOK, LeasedJobsExist
<1>2. /\ ptr = None \/ ptr = [gen |-> 1, active |-> [name |-> Base, pub |-> Base, file |-> Base],
                              rollback |-> None]
      /\ head \in [Artifacts -> Pubs \cup {None}]
      /\ \A a \in Artifacts : head[a] \in {a, None}
      /\ ptr # None => head[Base] = Base
      /\ parent = [p \in Pubs |-> None] /\ damaged = {}
  BY DEF Init, Artifacts, Pubs, Ops
<1>3. FilesTyped
  BY <1>2, FS_EmptySet DEF FilesTyped, PointerDocument, PointerArtifact, Artifacts, Pubs
<1>4. IdlePublisher \in PublisherState
  BY DEF IdlePublisher, PublisherState, PublisherSteps, NoExpectation, Expectation
<1>5. IdleRecoverer \in RecovererState
  BY DEF IdleRecoverer, RecovererState, RecoverySteps
<1>6. ProcessesTyped
  BY <1>4, <1>5 DEF Init, ProcessesTyped
<1>7. \A o \in Ops : pub[o].pc = "idle"
  BY DEF Init, IdlePublisher
<1>8. \A r \in Recoverers : rec[r].pc = "idle"
  BY DEF Init, IdleRecoverer
<1>9. Apart /\ HeadsAreOwn
  BY <1>2, <1>8 DEF Apart, RecAt, HeadsAreOwn
<1>10. PointerServes
  BY <1>2 DEF PointerServes, Pubs
<1>11. RowsFollow
  BY DEF RowsFollow, Init, StoreInit
<1>12. ASSUME NEW o \in Ops PROVE Holds(o) /\ PlanIsOld(o) /\ Works(o)
  <2>1. ~Busy(o)
    BY <1>7 DEF Busy, Idle, Outside
  <2>2. o # Base
    BY DisjointAssumption
  <2> QED
    BY <1>2, <1>7, <2>1, <2>2 DEF Holds, PlanIsOld, Works, SmallWork, IsolatedWork, At
<1>13. ASSUME NEW r \in Recoverers PROVE RecoveryTyped(r) /\ RecoveryWorks(r)
  BY <1>8 DEF RecoveryTyped, PageTyped, RecoveryWorks, RecAt, Resting
<1> QED
  BY <1>1, <1>3, <1>6, <1>9, <1>10, <1>11, <1>12, <1>13 DEF IInv, Typed

\* One publisher is at work at a time.
LEMMA OneAtWork ==
    ASSUME IInv, NEW o \in Ops, NEW q \in Ops, Busy(o), Busy(q)
    PROVE  o = q
BY DEF IInv, Holds

\* While one is, no recovery runs.
LEMMA NobodyRecovers ==
    ASSUME IInv, NEW o \in Ops, pub[o].pc \notin Idle
    PROVE  \A r \in Recoverers : RecAt(r, "idle")
BY DEF IInv, Apart

OnlyPublisher(o) ==
    /\ pub' \in [Ops -> PublisherState]
    /\ \A p \in Ops \ {o} : pub'[p] = pub[p]

OnlyRecoverer(r) ==
    /\ rec' \in [Recoverers -> RecovererState]
    /\ \A q \in Recoverers \ {r} : rec'[q] = rec[q]

IntentsStay == \A i \in Isolated : intents[i] # None => intents'[i] # None

\* A process that is out of the way does what it does.
LEMMA IdleIsFree ==
    ASSUME NEW o \in Ops, pub[o].pc \in Idle \cup {"ready"}
    PROVE  Holds(o) /\ Works(o)
BY DEF Holds, Busy, Works, SmallWork, IsolatedWork, Idle, Outside, At

LEMMA RestingIsFree ==
    ASSUME NEW r \in Recoverers, rec[r].pc \in Resting
    PROVE  RecoveryTyped(r) /\ RecoveryWorks(r)
BY DEF RecoveryTyped, PageTyped, RecoveryWorks, Resting, RecAt

\* What depends on the files and on one process only does not change with them.
LEMMA PublisherFrame ==
    ASSUME NEW o \in Ops, pub'[o] = pub[o], UNCHANGED <<ptr, head, parent>>
    PROVE  (PlanIsOld(o) => PlanIsOld(o)') /\ (Works(o) => Works(o)')
BY DEF PlanIsOld, Works, SmallWork, IsolatedWork, At, AdvancedPointer, PromotedPointer,
       PointerExpected

LEMMA HoldsFrame ==
    ASSUME NEW o \in Ops, pub'[o] = pub[o], clock' = clock,
           leases'["analytical_writer"] = leases["analytical_writer"], Holds(o)
    PROVE  Holds(o)'
BY DEF Holds, Busy, WorkerOf, HoldOf

LEMMA RecoveryFrame ==
    ASSUME NEW r \in Recoverers, rec'[r] = rec[r], UNCHANGED <<ptr, head, parent>>, IntentsStay,
           RecoveryTyped(r), RecoveryWorks(r), Typed
    PROVE  RecoveryTyped(r)' /\ RecoveryWorks(r)'
BY DEF RecoveryTyped, PageTyped, RecoveryWorks, RecAt, Follows, NeedsRepair, RepairedPointer, IntentsStay,
       IntentItem

LEMMA FilesFrame ==
    ASSUME UNCHANGED <<ptr, head, parent, damaged>>
    PROVE  /\ FilesTyped => FilesTyped'
           /\ HeadsAreOwn => HeadsAreOwn'
           /\ PointerServes => PointerServes'
BY DEF FilesTyped, HeadsAreOwn, PointerServes

LEMMA RowsFrame ==
    ASSUME UNCHANGED <<ptr, pointerRows>>, RowsFollow
    PROVE  RowsFollow'
BY DEF RowsFollow, RowOf

\* A publisher at work that keeps its leases, its plan and the files.
LEMMA PublisherMoves ==
    ASSUME IInv, NEW o \in Ops, Busy(o), OnlyPublisher(o), Busy(o)',
           pub'[o].attempt = pub[o].attempt, pub'[o].writer = pub[o].writer,
           pub'[o].expect = pub[o].expect,
           UNCHANGED <<ptr, head, parent, damaged, clock, rec>>, dirty' \in BOOLEAN,
           StoreTyped', leases'["analytical_writer"] = leases["analytical_writer"],
           RowsFollow', Works(o)'
    PROVE  IInv'
<1>1. \A r \in Recoverers : RecAt(r, "idle")'
  <2>1. pub[o].pc \notin Idle
    BY DEF Busy
  <2> QED
    BY <2>1, NobodyRecovers DEF RecAt
<1>2. Typed'
  BY FilesFrame DEF IInv, Typed, ProcessesTyped, OnlyPublisher
<1>3. Apart' /\ \A r \in Recoverers : RecoveryTyped(r)' /\ RecoveryWorks(r)'
  BY <1>1 DEF Apart, RecAt, RecoveryTyped, PageTyped, RecoveryWorks, Resting
<1>4. HeadsAreOwn' /\ PointerServes'
  BY FilesFrame DEF IInv
<1>5. ASSUME NEW p \in Ops \ {o} PROVE Holds(p)' /\ PlanIsOld(p)' /\ Works(p)'
  BY <1>5, PublisherFrame, HoldsFrame DEF IInv, OnlyPublisher
<1>6. Holds(o)'
  BY DEF IInv, Holds, Busy, WorkerOf, HoldOf
<1>7. PlanIsOld(o)'
  BY DEF IInv, PlanIsOld
<1> QED
  BY <1>2, <1>3, <1>4, <1>5, <1>6, <1>7 DEF IInv

\* A process that stops, waits or gets ready; a lease that goes is its own.
LEMMA HostMoves ==
    ASSUME IInv, NEW o \in Ops, OnlyPublisher(o), pub'[o].pc \in Idle \cup {"ready"},
           pub'[o].pc \in Idle \/ \A r \in Recoverers : RecAt(r, "idle"),
           UNCHANGED <<ptr, head, parent, damaged, clock, rec>>, dirty' \in BOOLEAN,
           StoreTyped', IntentsStay,
           Busy(o) \/ leases'["analytical_writer"] = leases["analytical_writer"],
           RowsFollow', PlanIsOld(o)'
    PROVE  IInv'
<1>1. Typed'
  BY FilesFrame DEF IInv, Typed, ProcessesTyped, OnlyPublisher
<1>2. Apart'
  <2> SUFFICES ASSUME NEW r \in Recoverers, ~RecAt(r, "idle")', NEW p \in Ops
               PROVE  pub'[p].pc \in Idle
    BY DEF Apart
  <2>1. ~RecAt(r, "idle")
    BY DEF RecAt
  <2>2. pub'[o].pc \in Idle /\ pub[p].pc \in Idle
    BY <2>1 DEF IInv, Apart
  <2> QED
    BY <2>2 DEF OnlyPublisher
<1>3. \A r \in Recoverers : RecoveryTyped(r)' /\ RecoveryWorks(r)'
  BY RecoveryFrame DEF IInv
<1>4. HeadsAreOwn' /\ PointerServes'
  BY FilesFrame DEF IInv
<1>5. ASSUME NEW p \in Ops \ {o} PROVE Holds(p)' /\ PlanIsOld(p)' /\ Works(p)'
  <2>1. PlanIsOld(p)' /\ Works(p)'
    BY <1>5, PublisherFrame DEF IInv, OnlyPublisher
  <2>2. CASE Busy(o)
    <3>1. ~Busy(p)
      BY <2>2, <1>5, OneAtWork
    <3> QED
      BY <3>1, <2>1, <1>5 DEF Holds, Busy, OnlyPublisher
  <2>3. CASE leases'["analytical_writer"] = leases["analytical_writer"]
    BY <2>3, <2>1, <1>5, HoldsFrame DEF IInv, OnlyPublisher
  <2> QED
    BY <2>2, <2>3
<1>6. Holds(o)' /\ Works(o)'
  BY DEF Holds, Busy, Works, SmallWork, IsolatedWork, Idle, Outside, At
<1> QED
  BY <1>1, <1>2, <1>3, <1>4, <1>5, <1>6 DEF IInv

\* A recovery that leaves the files alone.
LEMMA RecoveryMoves ==
    ASSUME IInv, NEW r \in Recoverers, OnlyRecoverer(r), \A o \in Ops : pub[o].pc \in Idle,
           UNCHANGED <<ptr, head, parent, damaged, clock, pub>>, dirty' \in BOOLEAN,
           StoreTyped', IntentsStay, RowsFollow', RecoveryTyped(r)', RecoveryWorks(r)'
    PROVE  IInv'
<1>1. Typed'
  BY FilesFrame DEF IInv, Typed, ProcessesTyped, OnlyRecoverer
<1>2. Apart'
  BY DEF Apart
<1>3. \A q \in Recoverers \ {r} : RecoveryTyped(q)' /\ RecoveryWorks(q)'
  BY RecoveryFrame DEF IInv, OnlyRecoverer
<1>4. HeadsAreOwn' /\ PointerServes'
  BY FilesFrame DEF IInv
<1>5. ASSUME NEW p \in Ops PROVE Holds(p)' /\ PlanIsOld(p)' /\ Works(p)'
  <2>1. pub'[p] = pub[p] /\ ~Busy(p)
    BY DEF Busy
  <2> QED
    BY <1>5, <2>1, PublisherFrame DEF IInv, Holds, Busy
<1> QED
  BY <1>1, <1>2, <1>3, <1>4, <1>5 DEF IInv

-----------------------------------------------------------------------------
(* The publishers. *)

LEMMA GotoKeeps ==
    ASSUME IInv, NEW o \in Ops, NEW x \in PublisherSteps, Goto(o, x)
    PROVE  /\ OnlyPublisher(o) /\ pub'[o] = [pub[o] EXCEPT !.pc = x]
           /\ pub'[o].pc = x /\ pub'[o].attempt = pub[o].attempt /\ pub'[o].now = pub[o].now
           /\ pub'[o].expect = pub[o].expect /\ pub'[o].cur = pub[o].cur
           /\ pub'[o].back = pub[o].back /\ pub'[o].writer = pub[o].writer
           /\ pub'[o].promotion = pub[o].promotion
BY DEF Goto, IInv, Typed, ProcessesTyped, PublisherState, OnlyPublisher

\* A publisher in a new state.
LEMMA PublisherIs ==
    ASSUME IInv, NEW o \in Ops, NEW row \in PublisherState, pub' = [pub EXCEPT ![o] = row]
    PROVE  OnlyPublisher(o) /\ pub'[o] = row
BY DEF IInv, Typed, ProcessesTyped, OnlyPublisher

LEMMA UnwindIsFree ==
    ASSUME NEW o \in Ops, pub[o].pc = "unwind"
    PROVE  Works(o) /\ Busy(o)
BY DEF Works, SmallWork, IsolatedWork, Busy, Idle, Outside, At

\* An exception leaves everything as it is.
LEMMA UnwindStep ==
    ASSUME IInv, NEW o \in Ops, Busy(o), Goto(o, "unwind"),
           UNCHANGED <<sidecarVars, fileVars, clock, rec, dirty>>
    PROVE  IInv'
<1>1. "unwind" \in PublisherSteps
  BY DEF PublisherSteps
<1>2. Works(o)' /\ Busy(o)'
  BY <1>1, GotoKeeps, UnwindIsFree DEF Works, SmallWork, IsolatedWork, Busy, Idle, Outside, At
<1>3. RowsFollow'
  BY RowsFrame DEF IInv, fileVars, sidecarVars
<1>4. StoreTyped'
  BY DEF IInv, Typed, StoreTyped, StoreTypeOK, LeasedJobsExist, sidecarVars
<1>5. dirty' \in BOOLEAN
  BY DEF IInv, Typed, ProcessesTyped
<1> QED
  BY <1>1, <1>2, <1>3, <1>4, <1>5, GotoKeeps, PublisherMoves DEF fileVars, sidecarVars

\* A step that leaves the files and the sidecar alone.
LEMMA QuietMoves ==
    ASSUME IInv, NEW o \in Ops, Busy(o), OnlyPublisher(o), Busy(o)',
           pub'[o].attempt = pub[o].attempt, pub'[o].writer = pub[o].writer,
           pub'[o].expect = pub[o].expect,
           UNCHANGED <<sidecarVars, fileVars, clock, rec, dirty>>, Works(o)'
    PROVE  IInv'
<1>1. RowsFollow'
  BY RowsFrame DEF IInv, fileVars, sidecarVars
<1>2. StoreTyped'
  BY DEF IInv, Typed, StoreTyped, StoreTypeOK, LeasedJobsExist, sidecarVars
<1>3. dirty' \in BOOLEAN
  BY DEF IInv, Typed, ProcessesTyped
<1> QED
  BY <1>1, <1>2, <1>3, PublisherMoves DEF fileVars, sidecarVars

LEMMA ReadPointerSmallStep ==
    ASSUME IInv, NEW o \in Ops, ReadPointerSmall(o)
    PROVE  IInv'
<1>1. o \in Small /\ o \notin Isolated /\ pub[o].pc = "locked" /\ Busy(o)
  BY DisjointAssumption DEF ReadPointerSmall, At, Busy, Idle, Outside
<1>2. UNCHANGED <<sidecarVars, fileVars, clock, rec, dirty>>
  BY DEF ReadPointerSmall
<1>3. CASE /\ ptr # None
           /\ pub[o].expect = [gen |-> ptr.gen, pub |-> ptr.active.pub,
                               name |-> ptr.active.name]
  <2>1. pub' = [pub EXCEPT ![o].pc = "checked", ![o].cur = ptr]
    BY <1>3 DEF ReadPointerSmall
  <2> DEFINE row == [pub[o] EXCEPT !.pc = "checked", !.cur = ptr]
  <2>4. pub[o] \in PublisherState /\ ptr \in PointerDocument \cup {None}
    BY DEF IInv, Typed, ProcessesTyped, FilesTyped
  <2>5. /\ row \in PublisherState /\ row.pc = "checked" /\ row.cur = ptr
        /\ row.attempt = pub[o].attempt /\ row.writer = pub[o].writer
        /\ row.expect = pub[o].expect
    BY <2>4 DEF PublisherState, PublisherSteps
  <2>6. pub' = [pub EXCEPT ![o] = row]
    BY <2>1
  <2> HIDE DEF row
  <2>2. /\ OnlyPublisher(o) /\ pub'[o].pc = "checked" /\ pub'[o].cur = ptr
        /\ pub'[o].attempt = pub[o].attempt /\ pub'[o].writer = pub[o].writer
        /\ pub'[o].expect = pub[o].expect
    BY <2>5, <2>6, PublisherIs
  <2>3. Works(o)' /\ Busy(o)'
    BY <2>2, <1>1, <1>2, <1>3 DEF Works, SmallWork, At, fileVars, Busy, Idle, Outside
  <2> QED
    BY <1>1, <1>2, <2>2, <2>3, QuietMoves
<1>4. CASE Goto(o, "unwind")
  BY <1>1, <1>2, <1>4, UnwindStep
<1> QED
  BY <1>3, <1>4 DEF ReadPointerSmall

LEMMA FenceSmallStep ==
    ASSUME IInv, NEW o \in Ops, FenceSmall(o)
    PROVE  IInv'
<1>1. o \in Small /\ o \notin Isolated /\ pub[o].pc = "committed" /\ Busy(o)
  BY DisjointAssumption DEF FenceSmall, At, Busy, Idle, Outside
<1>2. UNCHANGED <<sidecarVars, fileVars, clock, rec, dirty>>
  BY DEF FenceSmall
<1>3. CASE Goto(o, "fenced")
  <2>1. "fenced" \in PublisherSteps
    BY DEF PublisherSteps
  <2>2. Works(o)' /\ Busy(o)'
    BY <1>1, <1>2, <1>3, <2>1, GotoKeeps
    DEF IInv, Works, SmallWork, At, fileVars, Busy, Idle, Outside
  <2> QED
    BY <1>1, <1>2, <1>3, <2>1, <2>2, GotoKeeps, QuietMoves
<1>4. CASE Goto(o, "unwind")
  BY <1>1, <1>2, <1>4, UnwindStep
<1> QED
  BY <1>3, <1>4 DEF FenceSmall

LEMMA PreflightStep ==
    ASSUME IInv, NEW o \in Ops, Preflight(o)
    PROVE  IInv'
<1>1. o \in Isolated /\ o \notin Small /\ pub[o].pc = "locked" /\ Busy(o)
  BY DisjointAssumption DEF Preflight, At, Busy, Idle, Outside
<1>2. UNCHANGED <<sidecarVars, fileVars, clock, rec, dirty>>
  BY DEF Preflight
<1> DEFINE fits == o \notin damaged /\ head[o] = o /\ PointerExpected(o)
       step == IF fits THEN "checked" ELSE "unwind"
       row  == [pub[o] EXCEPT !.pc = step, !.cur = IF fits THEN ptr ELSE pub[o].cur]
<1>3. pub' = [pub EXCEPT ![o] = row]
  BY DEF Preflight
<1>6. pub[o] \in PublisherState /\ ptr \in PointerDocument \cup {None} /\ step \in PublisherSteps
  BY DEF IInv, Typed, ProcessesTyped, FilesTyped, PublisherSteps
<1>7. /\ row \in PublisherState /\ row.pc = step /\ (fits => row.cur = ptr)
      /\ row.attempt = pub[o].attempt /\ row.writer = pub[o].writer
      /\ row.expect = pub[o].expect
  <2> HIDE DEF fits, step
  <2> QED
    BY <1>6 DEF PublisherState
<1> HIDE DEF row
<1>4. /\ OnlyPublisher(o) /\ pub'[o].pc = (IF fits THEN "checked" ELSE "unwind")
      /\ fits => pub'[o].cur = ptr
      /\ pub'[o].attempt = pub[o].attempt /\ pub'[o].writer = pub[o].writer
      /\ pub'[o].expect = pub[o].expect
  BY <1>3, <1>7, PublisherIs
<1>5. Works(o)' /\ Busy(o)'
  BY <1>1, <1>2, <1>4
  DEF Works, IsolatedWork, At, fileVars, Busy, Idle, Outside, PointerExpected
<1> QED
  BY <1>1, <1>2, <1>4, <1>5, QuietMoves

LEMMA SealRollbackStep ==
    ASSUME IInv, NEW o \in Ops, SealRollback(o)
    PROVE  IInv'
<1>1. o \in Isolated /\ o \notin Small /\ pub[o].pc = "intended" /\ Busy(o)
  BY DisjointAssumption DEF SealRollback, At, Busy, Idle, Outside
<1>2. UNCHANGED <<sidecarVars, fileVars, clock, rec, dirty>>
  BY DEF SealRollback
<1>3. /\ pub[o].cur = ptr /\ PointerExpected(o) /\ head[o] = o
      /\ pub[o] \in PublisherState /\ ptr \in PointerDocument \cup {None}
  BY <1>1 DEF IInv, Works, IsolatedWork, At, Typed, ProcessesTyped, FilesTyped
<1> DEFINE cur  == pub[o].cur
           fits == cur # None => /\ ValidHead(cur.active) /\ DigestMatches(cur.active)
                                 /\ ~NeedsRepair(cur.active)
           back == IF fits /\ cur # None
                   THEN [cur.active EXCEPT !.file = head[cur.active.name]] ELSE None
       step == IF fits THEN "sealed" ELSE "unwind"
       row  == [pub[o] EXCEPT !.pc = step, !.back = back]
<1>4. pub' = [pub EXCEPT ![o] = row]
  BY DEF SealRollback
<1>5. back \in PointerArtifact \cup {None}
  <2>1. CASE fits /\ cur # None
    <3>1. cur.active \in PointerArtifact
      BY <1>3, <2>1 DEF PointerDocument
    <3>2. head[cur.active.name] = cur.active.pub
      BY <2>1 DEF NeedsRepair
    <3> QED
      BY <2>1, <3>1, <3>2 DEF PointerArtifact
  <2> QED
    BY <2>1
<1>6. fits => /\ ptr = None => back = None
              /\ ptr # None => /\ back = [ptr.active EXCEPT !.file = ptr.active.pub]
                               /\ head[ptr.active.name] = ptr.active.pub
  BY <1>3 DEF NeedsRepair
<1> HIDE DEF fits, back
<1>9. step \in PublisherSteps
  BY DEF PublisherSteps
<1>10. /\ row \in PublisherState /\ row.pc = step /\ row.back = back /\ row.cur = pub[o].cur
       /\ row.attempt = pub[o].attempt /\ row.writer = pub[o].writer
       /\ row.expect = pub[o].expect
  <2> HIDE DEF step
  <2> QED
    BY <1>3, <1>5, <1>9 DEF PublisherState
<1> HIDE DEF row
<1>7. /\ OnlyPublisher(o) /\ pub'[o].pc = (IF fits THEN "sealed" ELSE "unwind")
      /\ pub'[o].back = back /\ pub'[o].cur = pub[o].cur
      /\ pub'[o].attempt = pub[o].attempt /\ pub'[o].writer = pub[o].writer
      /\ pub'[o].expect = pub[o].expect
  BY <1>4, <1>10, PublisherIs
<1>8. Works(o)' /\ Busy(o)'
  BY <1>1, <1>2, <1>3, <1>6, <1>7
  DEF Works, IsolatedWork, At, fileVars, Busy, Idle, Outside, PointerExpected
<1> QED
  BY <1>1, <1>2, <1>7, <1>8, QuietMoves

LEMMA FenceIsolatedStep ==
    ASSUME IInv, NEW o \in Ops, FenceIsolated(o)
    PROVE  IInv'
<1>1. o \in Isolated /\ o \notin Small /\ pub[o].pc = "sealed" /\ Busy(o)
  BY DisjointAssumption DEF FenceIsolated, At, Busy, Idle, Outside
<1>2. UNCHANGED <<sidecarVars, fileVars, clock, rec, dirty>>
  BY DEF FenceIsolated
<1>3. CASE Goto(o, "fenced")
  <2>1. "fenced" \in PublisherSteps
    BY DEF PublisherSteps
  <2>2. Works(o)' /\ Busy(o)'
    BY <1>1, <1>2, <1>3, <2>1, GotoKeeps
    DEF IInv, Works, IsolatedWork, At, fileVars, Busy, Idle, Outside, PointerExpected
  <2> QED
    BY <1>1, <1>2, <1>3, <2>1, <2>2, GotoKeeps, QuietMoves
<1>4. CASE Goto(o, "unwind")
  BY <1>1, <1>2, <1>4, UnwindStep
<1> QED
  BY <1>3, <1>4 DEF FenceIsolated

\* A call of the sidecar that leaves the writer lease and the pairs alone.
LEMMA StoreMoves ==
    ASSUME IInv, NEW o \in Ops, Busy(o), NEW x \in PublisherSteps, Goto(o, x),
           x \notin Idle \cup {"ready"}, UNCHANGED <<fileVars, clock, rec, dirty>>,
           StoreTyped', UNCHANGED <<leases, pointerRows>>, Works(o)'
    PROVE  IInv'
<1>1. RowsFollow'
  BY RowsFrame DEF IInv, fileVars
<1>2. dirty' \in BOOLEAN
  BY DEF IInv, Typed, ProcessesTyped
<1>3. Busy(o)'
  BY GotoKeeps DEF Busy
<1> QED
  BY <1>1, <1>2, <1>3, GotoKeeps, PublisherMoves DEF fileVars

\* The pair recorded for the pointer a publisher wrote.
LEMMA RecordMoves ==
    ASSUME IInv, NEW o \in Ops, Busy(o), Goto(o, "recorded"),
           UNCHANGED <<fileVars, clock, rec, dirty>>,
           ptr \in PointerDocument, RecordPointerPair(RowOf(ptr, o)), Works(o)'
    PROVE  IInv'
<1>1. "recorded" \in PublisherSteps
  BY DEF PublisherSteps
<1>2. RowOf(ptr, o) \in PointerRow
  BY DEF RowOf, PointerRow, PointerDocument
<1>3. StoreTyped'
  BY <1>2, RecordTyped DEF IInv, Typed
<1>4. RowsFollow'
  BY AbsentAssumption DEF IInv, RowsFollow, RecordPointerPair, RowOf, PointerDocument, fileVars
<1>5. dirty' \in BOOLEAN /\ leases' = leases
  BY DEF IInv, Typed, ProcessesTyped, RecordPointerPair
<1>6. Busy(o)'
  BY <1>1, GotoKeeps DEF Busy, Idle, Outside
<1> QED
  BY <1>1, <1>3, <1>4, <1>5, <1>6, GotoKeeps, PublisherMoves DEF fileVars

LEMMA RecordSmallStep ==
    ASSUME IInv, NEW o \in Ops, RecordSmall(o)
    PROVE  IInv'
<1>1. o \in Small /\ o \notin Isolated /\ pub[o].pc = "written" /\ Busy(o)
  BY DisjointAssumption DEF RecordSmall, At, Busy, Idle, Outside
<1>2. UNCHANGED <<fileVars, clock, rec, dirty>>
  BY DEF RecordSmall
<1>3. ptr = AdvancedPointer(o) /\ ptr \in PointerDocument /\ head[ptr.active.name] = o
  BY <1>1 DEF IInv, Works, SmallWork, At, Typed, FilesTyped
<1>4. CASE RecordPointerPair(RowOf(ptr, o)) /\ Goto(o, "recorded")
  <2>1. "recorded" \in PublisherSteps
    BY DEF PublisherSteps
  <2>2. Works(o)'
    BY <1>1, <1>2, <1>3, <1>4, <2>1, GotoKeeps, AbsentAssumption
    DEF Works, SmallWork, At, fileVars
  <2> QED
    BY <1>1, <1>2, <1>3, <1>4, <2>2, RecordMoves
<1>5. CASE Raise(o)
  BY <1>1, <1>2, <1>5, UnwindStep DEF Raise
<1> QED
  BY <1>3, <1>4, <1>5 DEF RecordSmall

LEMMA RecordIsolatedStep ==
    ASSUME IInv, NEW o \in Ops, RecordIsolated(o)
    PROVE  IInv'
<1>1. o \in Isolated /\ o \notin Small /\ pub[o].pc = "verified" /\ Busy(o)
  BY DisjointAssumption DEF RecordIsolated, At, Busy, Idle, Outside
<1>2. UNCHANGED <<fileVars, clock, rec, dirty>>
  BY DEF RecordIsolated
<1>3. /\ ptr = PromotedPointer(o) /\ ptr \in PointerDocument
      /\ ptr.active.name = o /\ head[o] = o
  BY <1>1 DEF IInv, Works, IsolatedWork, At, Typed, FilesTyped
<1>4. CASE RecordPointerPair(RowOf(ptr, o)) /\ Goto(o, "recorded")
  <2>1. "recorded" \in PublisherSteps
    BY DEF PublisherSteps
  <2>2. Works(o)'
    BY <1>1, <1>2, <1>3, <1>4, <2>1, GotoKeeps, AbsentAssumption
    DEF Works, IsolatedWork, At, fileVars
  <2> QED
    BY <1>1, <1>2, <1>3, <1>4, <2>2, RecordMoves
<1>5. CASE Raise(o)
  BY <1>1, <1>2, <1>5, UnwindStep DEF Raise
<1> QED
  BY <1>3, <1>4, <1>5 DEF RecordIsolated

LEMMA PrepareIntentStep ==
    ASSUME IInv, NEW o \in Ops, PrepareIntent(o)
    PROVE  IInv'
<1>1. o \in Isolated /\ o \notin Small /\ pub[o].pc = "checked" /\ Busy(o)
  BY DisjointAssumption DEF PrepareIntent, At, Busy, Idle, Outside
<1>2. UNCHANGED <<fileVars, clock, rec, dirty>>
  BY DEF PrepareIntent
<1>3. "intended" \in PublisherSteps /\ "intended" \notin Idle \cup {"ready"}
  BY DEF PublisherSteps, Idle, Outside
<1>4. ASSUME Goto(o, "intended") PROVE Works(o)'
  <2>1. pub[o].cur = ptr /\ PointerExpected(o) /\ head[o] = o
    BY <1>1 DEF IInv, Works, IsolatedWork
  <2>2. /\ pub'[o].pc = "intended" /\ pub'[o].expect = pub[o].expect /\ pub'[o].cur = pub[o].cur
        /\ ptr' = ptr /\ head' = head
    BY <1>2, <1>3, <1>4, GotoKeeps DEF fileVars
  <2> QED
    BY <1>1, <2>1, <2>2 DEF Works, IsolatedWork, At, PointerExpected
<1>5. CASE CreateIntent(o, IntentOf(o)) /\ Goto(o, "intended")
  <2>1. IntentOf(o) \in Intent
    BY <1>1 DEF IntentOf, Intent, IntentStates, PendingIntentStates, IInv, Typed, ProcessesTyped,
                PublisherState, Expectation, Artifacts, Pubs, Ops
  <2>2. StoreTyped' /\ UNCHANGED <<leases, pointerRows>>
    BY <1>1, <1>5, <2>1, IntentsTyped DEF CreateIntent, IInv, Typed
  <2> QED
    BY <1>1, <1>2, <1>3, <1>4, <1>5, <2>2, StoreMoves
<1>6. CASE Goto(o, "intended") /\ UNCHANGED sidecarVars
  <2>1. StoreTyped' /\ UNCHANGED <<leases, pointerRows>>
    BY <1>6 DEF IInv, Typed, StoreTyped, StoreTypeOK, LeasedJobsExist, sidecarVars
  <2> QED
    BY <1>1, <1>2, <1>3, <1>4, <1>6, <2>1, StoreMoves
<1>7. CASE Raise(o)
  BY <1>1, <1>2, <1>7, UnwindStep DEF Raise
<1> QED
  BY <1>5, <1>6, <1>7 DEF PrepareIntent

LEMMA MoveIntentStep ==
    ASSUME IInv, NEW o \in Ops, NEW at, NEW s, NEW then \in PublisherSteps,
           MoveIntent(o, at, s, then), Busy(o), then \notin Idle \cup {"ready"},
           Goto(o, then) /\ UNCHANGED fileVars => Works(o)'
    PROVE  IInv'
<1>1. o \in Isolated /\ UNCHANGED <<fileVars, clock, rec, dirty>>
  BY DEF MoveIntent
<1>2. CASE TransitionIntent(o, s[1], s[2], pub[o].now) /\ Goto(o, then)
  <2>1. pub[o].now \in Nat
    BY DEF IInv, Typed, ProcessesTyped, PublisherState
  <2>2. StoreTyped' /\ UNCHANGED <<leases, pointerRows>>
    BY <1>1, <1>2, <2>1, TransitionIntentTyped DEF TransitionIntent, IInv, Typed
  <2> QED
    BY <1>1, <1>2, <2>2, StoreMoves
<1>3. CASE Raise(o)
  BY <1>1, <1>3, UnwindStep DEF Raise
<1> QED
  BY <1>2, <1>3 DEF MoveIntent

LEMMA MarksStep ==
    ASSUME IInv, NEW o \in Ops, MarkWritten(o) \/ Verify(o) \/ MarkReconciled(o)
    PROVE  IInv'
<1> USE DEF Idle, Outside
<1>1. {"marked", "verified", "reconciled", "unwind"} \subseteq PublisherSteps
  BY DEF PublisherSteps
<1>2. o \in Isolated /\ o \notin Small
  BY DisjointAssumption DEF MarkWritten, Verify, MarkReconciled, MoveIntent
<1>3. ASSUME NEW then \in {"marked", "verified", "reconciled"},
             pub[o].pc \in {"written", "marked", "verified", "recorded"},
             then = "marked" => pub[o].pc = "written",
             then = "verified" => pub[o].pc = "marked",
             Goto(o, then), UNCHANGED fileVars
      PROVE  Works(o)'
  <2>1. /\ then \in {"marked", "verified"} => ptr = PromotedPointer(o)
        /\ ptr # None /\ ptr.active.name = o /\ head[o] = o
    BY <1>2, <1>3 DEF IInv, Works, IsolatedWork
  <2>2. /\ pub'[o].pc = then /\ pub'[o].expect = pub[o].expect /\ pub'[o].back = pub[o].back
        /\ ptr' = ptr /\ head' = head
    BY <1>1, <1>3, GotoKeeps DEF fileVars
  <2> QED
    BY <1>2, <2>1, <2>2 DEF Works, IsolatedWork, At, PromotedPointer
<1>4. CASE MarkWritten(o)
  BY <1>1, <1>3, <1>4, MoveIntentStep DEF MarkWritten, MoveIntent, At, Busy
<1>5. CASE MarkReconciled(o)
  BY <1>1, <1>3, <1>5, MoveIntentStep DEF MarkReconciled, MoveIntent, At, Busy
<1>6. CASE Verify(o)
  <2>1. pub[o].pc = "marked" /\ Busy(o)
    BY <1>6 DEF Verify, At, Busy
  <2>2. CASE MoveIntent(o, "marked", <<"pointer_written", "verified">>, "verified")
    BY <1>1, <1>3, <2>1, <2>2, MoveIntentStep
  <2>3. CASE Raise(o) /\ UNCHANGED <<fileVars, clock, rec, dirty>>
    BY <2>1, <2>3, UnwindStep DEF Raise
  <2> QED
    BY <1>6, <2>2, <2>3 DEF Verify
<1> QED
  BY <1>4, <1>5, <1>6

LEMMA LockPromotionStep ==
    ASSUME IInv, NEW o \in Ops, LockPromotion(o)
    PROVE  IInv'
<1>1. o \in Isolated /\ o \notin Small /\ pub[o].pc = "writer" /\ Busy(o)
  BY DisjointAssumption DEF LockPromotion, At, Busy, Idle, Outside
<1>2. UNCHANGED <<fileVars, clock, rec, dirty>>
  BY DEF LockPromotion
<1> DEFINE n    == "artifact_promotion"
           hold == HoldOf(leases'[n])
           row  == [pub[o] EXCEPT !.pc = "locked", !.promotion = hold]
<1>3. CASE AcquireLease(n, o, WorkerOf(o), pub[o].now, Alive) /\ pub' = [pub EXCEPT ![o] = row]
  <2>1. pub[o] \in PublisherState /\ pub[o].now \in Nat /\ WorkerOf(o) \in Workers
    BY DEF IInv, Typed, ProcessesTyped, PublisherState, WorkerOf, Workers
  <2>2. /\ StoreTyped' /\ hold \in Hold /\ pointerRows' = pointerRows
        /\ leases'["analytical_writer"] = leases["analytical_writer"]
    BY <1>3, <2>1, AcquireTyped DEF IInv, Typed, LeaseNames
  <2> HIDE DEF hold
  <2>3. /\ row \in PublisherState /\ row.pc = "locked"
        /\ row.attempt = pub[o].attempt /\ row.writer = pub[o].writer
        /\ row.expect = pub[o].expect
    BY <2>1, <2>2 DEF PublisherState, PublisherSteps
  <2> HIDE DEF row
  <2>4. OnlyPublisher(o) /\ pub'[o] = row
    BY <1>3, <2>3, PublisherIs
  <2>5. Works(o)' /\ Busy(o)'
    BY <1>1, <2>3, <2>4 DEF Works, IsolatedWork, At, Busy, Idle, Outside
  <2>6. RowsFollow'
    BY <1>2, <2>2, RowsFrame DEF IInv, fileVars
  <2>7. dirty' \in BOOLEAN
    BY <1>2 DEF IInv, Typed, ProcessesTyped
  <2> QED
    BY <1>1, <1>2, <2>2, <2>3, <2>4, <2>5, <2>6, <2>7, PublisherMoves DEF fileVars
<1>4. CASE Raise(o)
  BY <1>1, <1>2, <1>4, UnwindStep DEF Raise
<1> QED
  BY <1>3, <1>4 DEF LockPromotion

LEMMA CompleteStep ==
    ASSUME IInv, NEW o \in Ops, Complete(o)
    PROVE  IInv'
<1>1. Busy(o)
  BY DEF Complete, At, Busy, Idle, Outside
<1>2. UNCHANGED <<fileVars, clock, rec, dirty>>
  BY DEF Complete
<1>3. CASE ForceTerminal(o, "completed", o, pub[o].now) /\ Goto(o, "unwind")
  <2>1. pub[o].now \in Nat /\ o \in Pubs \cup {None}
    BY DEF IInv, Typed, ProcessesTyped, PublisherState, Pubs
  <2>2. StoreTyped' /\ UNCHANGED <<leases, pointerRows>>
    BY <1>3, <2>1, ForceTerminalTyped DEF ForceTerminal, IInv, Typed
  <2>3. "unwind" \in PublisherSteps /\ "unwind" \notin Idle \cup {"ready"}
    BY DEF PublisherSteps, Idle, Outside
  <2>4. Works(o)'
    BY <1>3, <2>3, GotoKeeps DEF Works, SmallWork, IsolatedWork, At
  <2> QED
    BY <1>1, <1>2, <1>3, <2>2, <2>3, <2>4, StoreMoves
<1>4. CASE Raise(o)
  BY <1>1, <1>2, <1>4, UnwindStep DEF Raise
<1> QED
  BY <1>3, <1>4 DEF Complete

\* A process that is gone: only the plan of an isolated operation survives.
LEMMA StoppedIs ==
    ASSUME IInv, NEW o \in Ops, pub' = Stopped(o)
    PROVE  /\ OnlyPublisher(o) /\ pub'[o].pc = "stopped"
           /\ pub'[o].attempt = pub[o].attempt
           /\ o \in Isolated => pub'[o].expect = pub[o].expect
<1> DEFINE row == [IdlePublisher EXCEPT
                     !.pc      = "stopped",
                     !.attempt = pub[o].attempt,
                     !.expect  = IF o \in Isolated THEN pub[o].expect ELSE NoExpectation]
<1>1. pub[o] \in PublisherState
  BY DEF IInv, Typed, ProcessesTyped
<1>2. /\ row \in PublisherState /\ row.pc = "stopped" /\ row.attempt = pub[o].attempt
      /\ o \in Isolated => row.expect = pub[o].expect
  BY <1>1 DEF IdlePublisher, PublisherState, PublisherSteps, NoExpectation, Expectation
<1>3. pub' = [pub EXCEPT ![o] = row]
  BY DEF Stopped
<1> HIDE DEF row
<1> QED
  BY <1>2, <1>3, PublisherIs

\* It leaves its work and the sidecar alone, or releases a lease of its own.
LEMMA StopMoves ==
    ASSUME IInv, NEW o \in Ops, pub' = Stopped(o), UNCHANGED <<fileVars, clock, rec>>,
           dirty' \in BOOLEAN, StoreTyped', UNCHANGED <<intents, pointerRows>>,
           Busy(o) \/ leases' = leases
    PROVE  IInv'
<1>1. /\ OnlyPublisher(o) /\ pub'[o].pc \in Idle
      /\ o \in Isolated => pub'[o].expect = pub[o].expect
  BY StoppedIs DEF Idle, Outside
<1>2. RowsFollow' /\ IntentsStay
  BY RowsFrame DEF IInv, fileVars, IntentsStay
<1>3. PlanIsOld(o)'
  BY <1>1 DEF IInv, PlanIsOld, fileVars
<1> QED
  BY <1>1, <1>2, <1>3, HostMoves DEF fileVars

LEMMA UnwindAction ==
    ASSUME IInv, NEW o \in Ops, Unwind(o)
    PROVE  IInv'
<1>1. pub[o].pc = "unwind" /\ Busy(o)
  BY DEF Unwind, At, Busy, Idle, Outside
<1> DEFINE promotion == pub[o].promotion
           n    == IF promotion = None THEN "analytical_writer" ELSE "artifact_promotion"
           held == IF promotion = None THEN pub[o].writer ELSE promotion
<1>2. /\ ReleaseLease(n, held) \/ UNCHANGED sidecarVars
      /\ pub' = IF promotion = None THEN Stopped(o) ELSE [pub EXCEPT ![o].promotion = None]
      /\ dirty' = (dirty \/ (Recovery = "first" /\ promotion = None /\ IsActive(o)))
      /\ UNCHANGED <<fileVars, clock, rec>>
  BY DEF Unwind
<1>3. dirty' \in BOOLEAN
  BY <1>2 DEF IInv, Typed, ProcessesTyped
<1>4. StoreTyped' /\ UNCHANGED <<intents, pointerRows>>
  <2>1. CASE ReleaseLease(n, held)
    BY <2>1, ReleaseTyped DEF ReleaseLease, IInv, Typed, LeaseNames
  <2>2. CASE UNCHANGED sidecarVars
    BY <2>2 DEF IInv, Typed, StoreTyped, StoreTypeOK, LeasedJobsExist, sidecarVars
  <2> QED
    BY <1>2, <2>1, <2>2
<1>5. CASE promotion = None
  BY <1>1, <1>2, <1>3, <1>4, <1>5, StopMoves
<1>6. CASE promotion # None
  <2> DEFINE row == [pub[o] EXCEPT !.promotion = None]
  <2>1. pub' = [pub EXCEPT ![o] = row] /\ n = "artifact_promotion"
    BY <1>2, <1>6
  <2>2. pub[o] \in PublisherState
    BY DEF IInv, Typed, ProcessesTyped
  <2>3. /\ row \in PublisherState /\ row.pc = "unwind"
        /\ row.attempt = pub[o].attempt /\ row.writer = pub[o].writer
        /\ row.expect = pub[o].expect
    BY <1>1, <2>2 DEF PublisherState
  <2>4. leases'["analytical_writer"] = leases["analytical_writer"]
    BY <1>2, <2>1 DEF ReleaseLease, sidecarVars, IInv, Typed, StoreTyped, StoreTypeOK, LeaseNames
  <2> HIDE DEF row
  <2>5. OnlyPublisher(o) /\ pub'[o] = row
    BY <2>1, <2>3, PublisherIs
  <2>6. Works(o)' /\ Busy(o)'
    BY <2>3, <2>5 DEF Works, SmallWork, IsolatedWork, At, Busy, Idle, Outside
  <2>7. RowsFollow'
    BY <1>2, <1>4, RowsFrame DEF IInv, fileVars
  <2> QED
    BY <1>1, <1>2, <1>3, <1>4, <2>3, <2>4, <2>5, <2>6, <2>7, PublisherMoves DEF fileVars
<1> QED
  BY <1>5, <1>6

\* The others wait while one publisher changes the files: nobody recovers, and
\* what they know is only about candidates that were promoted.
LEMMA FilesMove ==
    ASSUME IInv, NEW o \in Ops, pub[o].pc \notin Idle, OnlyPublisher(o), pub'[o].pc \notin Idle,
           pub'[o].attempt = pub[o].attempt, pub'[o].writer = pub[o].writer,
           Busy(o)' => Busy(o),
           UNCHANGED <<leases, intents, pointerRows, damaged, clock, rec>>,
           dirty' \in BOOLEAN, StoreTyped', FilesTyped', HeadsAreOwn', PointerServes', RowsFollow',
           \A p \in Ops : PlanIsOld(p)', Works(o)',
           \A p \in Ops \ {o} : Works(p)'
    PROVE  IInv'
<1>1. \A r \in Recoverers : RecAt(r, "idle")'
  BY NobodyRecovers DEF RecAt
<1>2. Typed'
  BY DEF IInv, Typed, ProcessesTyped, OnlyPublisher
<1>3. Apart' /\ \A r \in Recoverers : RecoveryTyped(r)' /\ RecoveryWorks(r)'
  BY <1>1 DEF Apart, RecAt, RecoveryTyped, PageTyped, RecoveryWorks, Resting
<1>4. ASSUME NEW p \in Ops \ {o} PROVE Holds(p)'
  BY <1>4, HoldsFrame DEF IInv, OnlyPublisher
<1>5. Holds(o)'
  BY DEF IInv, Holds, Busy, WorkerOf, HoldOf
<1> QED
  BY <1>2, <1>3, <1>4, <1>5 DEF IInv

LEMMA OthersAreFree ==
    ASSUME IInv, NEW o \in Ops, Busy(o), OnlyPublisher(o)
    PROVE  \A p \in Ops \ {o} : Works(p)'
<1> SUFFICES ASSUME NEW p \in Ops \ {o} PROVE Works(p)'
  OBVIOUS
<1>1. pub'[p] = pub[p] /\ ~Busy(p)
  BY OneAtWork DEF OnlyPublisher
<1> QED
  BY <1>1 DEF Busy, Works, SmallWork, IsolatedWork, Idle, Outside, At

\* A publisher at work replaces the pointer by the next one.
LEMMA PointerMoves ==
    ASSUME IInv, NEW o \in Ops, Busy(o), Goto(o, "written"), ptr' \in PointerDocument,
           ptr'.gen = (IF ptr = None THEN 0 ELSE ptr.gen) + 1,
           UNCHANGED <<sidecarVars, head, parent, damaged, clock, rec, dirty>>,
           PointerServes', \A p \in Ops : PlanIsOld(p)', Works(o)'
    PROVE  IInv'
<1>1. "written" \in PublisherSteps
  BY DEF PublisherSteps
<1>2. OnlyPublisher(o) /\ Busy(o)'
  BY <1>1, GotoKeeps DEF Busy, Idle, Outside
<1>3. StoreTyped' /\ FilesTyped' /\ HeadsAreOwn' /\ dirty' \in BOOLEAN
  BY DEF IInv, Typed, StoreTyped, StoreTypeOK, LeasedJobsExist, sidecarVars, FilesTyped,
         HeadsAreOwn, ProcessesTyped
<1>4. RowsFollow'
  <2> SUFFICES ASSUME MaxDamage = 0, NEW row \in pointerRows
               PROVE  ptr' # None /\ row.gen <= ptr'.gen /\ row.gen # ptr'.gen
    BY DEF RowsFollow, sidecarVars
  <2>1. ptr # None /\ row.gen <= ptr.gen /\ row.gen \in Nat
    BY DEF IInv, RowsFollow, Typed, StoreTyped, StoreTypeOK, PointerRow
  <2> QED
    BY <2>1, AbsentAssumption DEF IInv, Typed, FilesTyped, PointerDocument
<1>5. pub[o].pc \notin Idle /\ pub'[o].pc \notin Idle
  BY <1>2 DEF Busy
<1> QED
  BY <1>1, <1>2, <1>3, <1>4, <1>5, GotoKeeps, OthersAreFree, FilesMove DEF sidecarVars

LEMMA WritePointerSmallStep ==
    ASSUME IInv, NEW o \in Ops, WritePointerSmall(o)
    PROVE  IInv' /\ ptr'.gen = ptr.gen + 1 /\ ptr # None
<1>1. o \in Small /\ o \notin Isolated /\ pub[o].pc = "fenced" /\ Busy(o)
  BY DisjointAssumption DEF WritePointerSmall, At, Busy, Idle, Outside
<1>2. /\ ptr' = AdvancedPointer(o) /\ Goto(o, "written")
      /\ UNCHANGED <<sidecarVars, head, parent, damaged, clock, rec, dirty>>
  BY DEF WritePointerSmall
<1>3. ptr # None /\ ptr \in PointerDocument /\ pub[o].cur = ptr /\ head[ptr.active.name] = o
  BY <1>1 DEF IInv, Works, SmallWork, Typed, FilesTyped
<1>4. /\ ptr' \in PointerDocument /\ ptr'.gen = ptr.gen + 1
      /\ ptr'.active = [name |-> ptr.active.name, pub |-> o, file |-> None]
      /\ ptr'.rollback = ptr.rollback
  BY <1>2, <1>3 DEF AdvancedPointer, PointerDocument, PointerArtifact, Pubs
<1>5. PointerServes'
  BY <1>2, <1>3, <1>4, AbsentAssumption DEF IInv, PointerServes, Ops, Pubs
<1>6. pub[o] \in PublisherState /\ \A p \in Isolated : p # o /\ p \in Ops /\ pub[p] \in PublisherState
  BY <1>1 DEF IInv, Typed, ProcessesTyped, Ops
<1>7. "written" \in PublisherSteps
  BY DEF PublisherSteps
<1>8. OnlyPublisher(o) /\ pub'[o].pc = "written" /\ pub'[o].cur = ptr
  BY <1>2, <1>3, <1>7, GotoKeeps
<1>9. ASSUME NEW p \in Ops PROVE PlanIsOld(p)'
  <2> SUFFICES ASSUME p \in Isolated,
                      ptr.active.name = p \/ (ptr.rollback # None /\ ptr.rollback.name = p)
               PROVE  head[p] # None /\ pub[p].expect.gen < ptr.gen + 1
    BY <1>2, <1>4, <1>6, <1>8 DEF PlanIsOld, OnlyPublisher
  <2>1. head[p] # None /\ pub[p].expect.gen < ptr.gen
    BY <1>3 DEF IInv, PlanIsOld
  <2> QED
    BY <2>1, <1>3, <1>6 DEF PointerDocument, PublisherState, Expectation
<1>10. Works(o)'
  BY <1>1, <1>2, <1>3, <1>4, <1>8, AbsentAssumption
  DEF Works, SmallWork, At, AdvancedPointer
<1> QED
  BY <1>1, <1>2, <1>3, <1>4, <1>5, <1>9, <1>10, PointerMoves

LEMMA WritePointerIsolatedStep ==
    ASSUME IInv, NEW o \in Ops, WritePointerIsolated(o)
    PROVE  IInv' /\ ptr'.gen = (IF ptr = None THEN 0 ELSE ptr.gen) + 1
<1>1. o \in Isolated /\ o \notin Small /\ pub[o].pc = "fenced" /\ Busy(o)
  BY DisjointAssumption DEF WritePointerIsolated, At, Busy, Idle, Outside
<1>2. /\ ptr' = PromotedPointer(o) /\ Goto(o, "written")
      /\ UNCHANGED <<sidecarVars, head, parent, damaged, clock, rec, dirty>>
  BY DEF WritePointerIsolated
<1>3. /\ PointerExpected(o) /\ head[o] = o /\ pub[o] \in PublisherState
      /\ ptr = None => pub[o].back = None
      /\ ptr # None => /\ pub[o].back = [ptr.active EXCEPT !.file = ptr.active.pub]
                       /\ head[ptr.active.name] = ptr.active.pub
                       /\ ptr \in PointerDocument
  BY <1>1 DEF IInv, Works, IsolatedWork, Typed, FilesTyped, ProcessesTyped
<1>4. /\ ptr' \in PointerDocument /\ ptr'.gen = (IF ptr = None THEN 0 ELSE ptr.gen) + 1
      /\ ptr'.active = [name |-> o, pub |-> o, file |-> o]
      /\ ptr'.rollback = pub[o].back
  BY <1>1, <1>2, <1>3
  DEF PromotedPointer, PointerExpected, PointerDocument, PointerArtifact, Pubs, Artifacts, Ops,
      PublisherState, Expectation
<1>5. ptr # None => ptr.active.name # o /\ (ptr.rollback # None => ptr.rollback.name # o)
  BY <1>1, <1>3 DEF IInv, PlanIsOld, PointerExpected, PointerDocument
<1>6. ptr # None => /\ pub[o].back.name = ptr.active.name /\ pub[o].back.pub = ptr.active.pub
                    /\ pub[o].back.file = ptr.active.pub
  BY <1>3 DEF PointerDocument, PointerArtifact
<1>7. PointerServes'
  <2>1. o # None /\ head' = head /\ parent' = parent
    BY <1>2, AbsentAssumption
  <2> QED
    BY <2>1, <1>3, <1>4, <1>5, <1>6 DEF PointerServes
<1>8. "written" \in PublisherSteps
  BY DEF PublisherSteps
<1>9. OnlyPublisher(o) /\ pub'[o].pc = "written" /\ pub'[o].expect = pub[o].expect
      /\ pub'[o].back = pub[o].back
  BY <1>2, <1>8, GotoKeeps
<1>10. ASSUME NEW p \in Ops PROVE PlanIsOld(p)'
  <2> SUFFICES ASSUME p \in Isolated,
                      o = p \/ (pub[o].back # None /\ pub[o].back.name = p)
               PROVE  head[p] # None /\ pub'[p].expect.gen < ptr'.gen
    BY <1>2, <1>4 DEF PlanIsOld
  <2>1. CASE p = o
    BY <2>1, <1>1, <1>3, <1>4, <1>9, AbsentAssumption
    DEF PointerExpected, PublisherState, Expectation
  <2>2. CASE p # o
    <3>1. ptr # None /\ ptr.active.name = p
      BY <2>2, <1>3, <1>6
    <3>2. head[p] # None /\ pub[p].expect.gen < ptr.gen
      BY <3>1 DEF IInv, PlanIsOld
    <3>3. pub'[p] = pub[p] /\ pub[p] \in PublisherState
      BY <2>2, <1>9 DEF OnlyPublisher, IInv, Typed, ProcessesTyped
    <3> QED
      BY <3>1, <3>2, <3>3, <1>3, <1>4 DEF PointerDocument, PublisherState, Expectation
  <2> QED
    BY <2>1, <2>2
<1>11. Works(o)'
  BY <1>1, <1>2, <1>3, <1>4, <1>9, AbsentAssumption
  DEF Works, IsolatedWork, At, PromotedPointer
<1> QED
  BY <1>1, <1>2, <1>4, <1>7, <1>10, <1>11, PointerMoves

LEMMA CommitAnalyticalStep ==
    ASSUME IInv, NEW o \in Ops, CommitAnalytical(o)
    PROVE  IInv'
<1>1. o \in Small /\ o \notin Isolated /\ pub[o].pc = "checked" /\ Busy(o)
  BY DisjointAssumption DEF CommitAnalytical, At, Busy, Idle, Outside
<1> DEFINE active == pub[o].cur.active
           fits   == /\ ValidHead(active) /\ DigestMatches(active)
                     /\ head[active.name] = pub[o].expect.pub
                     /\ parent[o] = None
<1>2. /\ head' = IF fits THEN [head EXCEPT ![active.name] = o] ELSE head
      /\ parent' = IF fits THEN [parent EXCEPT ![o] = pub[o].expect.pub] ELSE parent
      /\ Goto(o, IF fits THEN "committed" ELSE "unwind")
      /\ UNCHANGED <<sidecarVars, ptr, damaged, clock, rec, dirty>>
  BY DEF CommitAnalytical
<1>3. CASE ~fits
  BY <1>1, <1>2, <1>3, UnwindStep DEF fileVars
<1>4. CASE fits
  <2>1. /\ ptr # None /\ ptr \in PointerDocument /\ pub[o].cur = ptr
        /\ pub[o].expect.pub = ptr.active.pub
    BY <1>1 DEF IInv, Works, SmallWork, At, Typed, FilesTyped
  <2> DEFINE a == ptr.active.name
  <2>2. /\ head' = [head EXCEPT ![a] = o] /\ parent' = [parent EXCEPT ![o] = ptr.active.pub]
        /\ Goto(o, "committed") /\ ptr' = ptr
        /\ a \in Artifacts /\ o \in Pubs /\ ptr.active.pub \in Pubs
    BY <1>2, <1>4, <2>1 DEF PointerDocument, PointerArtifact, Pubs
  <2>3. /\ head \in [Artifacts -> Pubs \cup {None}] /\ parent \in [Pubs -> Pubs \cup {None}]
    BY DEF IInv, Typed, FilesTyped
  <2>4. /\ head' \in [Artifacts -> Pubs \cup {None}] /\ parent' \in [Pubs -> Pubs \cup {None}]
        /\ head'[a] = o /\ parent'[o] = ptr.active.pub
        /\ \A b \in Artifacts \ {a} : head'[b] = head[b]
    BY <2>2, <2>3
  <2>5. StoreTyped' /\ FilesTyped' /\ HeadsAreOwn' /\ dirty' \in BOOLEAN
    BY <1>1, <1>2, <2>4 DEF IInv, Typed, StoreTyped, StoreTypeOK, LeasedJobsExist, sidecarVars,
       FilesTyped, HeadsAreOwn, ProcessesTyped
  <2>6. PointerServes'
    <3>1. head'[a] # None /\ parent'[head'[a]] = ptr.active.pub
      BY <2>4, AbsentAssumption
    <3>2. ptr.rollback # None => ptr.rollback.name \in Artifacts \ {a}
      BY <2>1 DEF IInv, PointerServes, PointerDocument, PointerArtifact
    <3> QED
      BY <2>1, <2>2, <2>4, <3>1, <3>2 DEF IInv, PointerServes
  <2>7. "committed" \in PublisherSteps
    BY DEF PublisherSteps
  <2>8. /\ OnlyPublisher(o) /\ pub'[o].pc = "committed" /\ pub'[o].cur = ptr
        /\ pub'[o].attempt = pub[o].attempt /\ pub'[o].writer = pub[o].writer
        /\ pub'[o].expect = pub[o].expect
    BY <2>1, <2>2, <2>7, GotoKeeps
  <2>9. ASSUME NEW p \in Ops PROVE PlanIsOld(p)'
    <3> SUFFICES ASSUME p \in Isolated,
                        ptr.active.name = p \/ (ptr.rollback # None /\ ptr.rollback.name = p)
                 PROVE  head'[p] # None /\ pub[p].expect.gen < ptr.gen
      BY <1>1, <2>2, <2>8 DEF PlanIsOld, OnlyPublisher
    <3>1. head[p] # None /\ pub[p].expect.gen < ptr.gen
      BY <2>1 DEF IInv, PlanIsOld
    <3>2. p \in Artifacts /\ o # None
      BY AbsentAssumption DEF Artifacts
    <3> QED
      BY <2>4, <3>1, <3>2
  <2>10. Works(o)'
    BY <1>1, <2>1, <2>2, <2>4, <2>8 DEF Works, SmallWork, At
  <2>11. RowsFollow'
    BY <1>2, RowsFrame DEF IInv, sidecarVars
  <2>12. pub[o].pc \notin Idle /\ pub'[o].pc \notin Idle
    BY <1>1, <2>8 DEF Idle, Outside
  <2> QED
    BY <1>1, <1>2, <2>5, <2>6, <2>8, <2>9, <2>10, <2>11, <2>12, OthersAreFree, FilesMove
    DEF sidecarVars
<1> QED
  BY <1>3, <1>4

-----------------------------------------------------------------------------
(* The host. *)

LEMMA CrashStep ==
    ASSUME IInv, NEW o \in Ops, Crash(o)
    PROVE  IInv'
<1>1. /\ pub' = Stopped(o) /\ dirty' = (Recovery = "first")
      /\ UNCHANGED <<sidecarVars, fileVars, clock, rec>>
  BY DEF Crash
<1>2. StoreTyped'
  BY <1>1 DEF IInv, Typed, StoreTyped, StoreTypeOK, LeasedJobsExist, sidecarVars
<1> QED
  BY <1>1, <1>2, StopMoves DEF sidecarVars

LEMMA PlanStep ==
    ASSUME IInv, NEW o \in Ops, Plan(o)
    PROVE  IInv'
<1>1. /\ StartJob(o, clock) /\ Goto(o, "planned") /\ UNCHANGED <<fileVars, clock, rec, dirty>>
  BY DEF Plan
<1>2. "planned" \in PublisherSteps /\ clock \in Nat /\ dirty' \in BOOLEAN
  BY <1>1 DEF PublisherSteps, IInv, Typed, ProcessesTyped
<1>3. StoreTyped' /\ UNCHANGED <<leases, intents, pointerRows>>
  BY <1>1, <1>2, StartJobTyped DEF IInv, Typed, StartJob
<1>4. OnlyPublisher(o) /\ pub'[o].pc = "planned" /\ pub'[o].expect = pub[o].expect
  BY <1>1, <1>2, GotoKeeps
<1>5. RowsFollow' /\ IntentsStay /\ PlanIsOld(o)'
  BY <1>1, <1>3, <1>4, RowsFrame DEF IInv, IntentsStay, PlanIsOld, fileVars
<1> QED
  BY <1>1, <1>2, <1>3, <1>4, <1>5, HostMoves DEF Idle, fileVars

LEMMA RetryStep ==
    ASSUME IInv, NEW o \in Ops, Retry(o)
    PROVE  IInv'
<1> DEFINE row == [pub[o] EXCEPT !.pc = "planned", !.attempt = pub[o].attempt + 1]
<1>1. /\ pub' = [pub EXCEPT ![o] = row] /\ pub[o].attempt < MaxAttempts
      /\ UNCHANGED <<sidecarVars, fileVars, clock, rec, dirty>>
  BY DEF Retry
<1>2. pub[o] \in PublisherState /\ dirty' \in BOOLEAN
  BY <1>1 DEF IInv, Typed, ProcessesTyped
<1>3. row \in PublisherState /\ row.pc = "planned" /\ row.expect = pub[o].expect
  <2>1. pub[o].attempt + 1 \in 1 .. MaxAttempts
    BY <1>1, <1>2, BoundAssumption DEF PublisherState
  <2>2. "planned" \in PublisherSteps
    BY DEF PublisherSteps
  <2> QED
    BY <1>2, <2>1, <2>2 DEF PublisherState
<1> HIDE DEF row
<1>4. OnlyPublisher(o) /\ pub'[o] = row
  BY <1>1, <1>3, PublisherIs
<1>5. StoreTyped' /\ UNCHANGED <<leases, intents, pointerRows>>
  BY <1>1 DEF IInv, Typed, StoreTyped, StoreTypeOK, LeasedJobsExist, sidecarVars
<1>6. RowsFollow' /\ IntentsStay /\ PlanIsOld(o)'
  BY <1>1, <1>3, <1>4, <1>5, RowsFrame DEF IInv, IntentsStay, PlanIsOld, fileVars
<1> QED
  BY <1>1, <1>2, <1>3, <1>4, <1>5, <1>6, HostMoves DEF Idle, fileVars

LEMMA BeatStep ==
    ASSUME IInv, NEW o \in Ops, Beat(o)
    PROVE  IInv'
<1>1. /\ HeartbeatJob(o, WorkerOf(o), clock) /\ pub[o].pc = "ready"
      /\ UNCHANGED <<fileVars, clock, pub, rec, dirty>>
  BY DEF Beat, At
<1>2. clock \in Nat /\ dirty' \in BOOLEAN /\ OnlyPublisher(o)
  BY <1>1 DEF IInv, Typed, ProcessesTyped, OnlyPublisher
<1>3. StoreTyped' /\ UNCHANGED <<leases, intents, pointerRows>>
  BY <1>1, <1>2, HeartbeatTyped DEF IInv, Typed, HeartbeatJob
<1>4. RowsFollow' /\ IntentsStay /\ PlanIsOld(o)'
  BY <1>1, <1>3, RowsFrame DEF IInv, IntentsStay, PlanIsOld, fileVars
<1>5. \A r \in Recoverers : RecAt(r, "idle")
  BY <1>1, NobodyRecovers DEF Idle, Outside
<1> QED
  BY <1>1, <1>2, <1>3, <1>4, <1>5, HostMoves DEF fileVars

LEMMA BeginStep ==
    ASSUME IInv, Serial, NEW o \in Ops, Begin(o)
    PROVE  IInv'
<1> DEFINE n    == "analytical_writer"
           to   == IF o \in Small THEN "locked" ELSE "writer"
           hold == HoldOf(leases'[n])
           row  == [pub[o] EXCEPT !.pc = to, !.now = clock, !.writer = hold]
<1>1. /\ pub[o].pc = "ready" /\ AcquireLease(n, o, WorkerOf(o), clock, Alive)
      /\ pub' = [pub EXCEPT ![o] = row]
      /\ UNCHANGED <<fileVars, clock, rec, dirty>>
      /\ \A r \in Recoverers : RecAt(r, "idle")
  BY DEF Begin, At, MayPublish, Serial
<1>2. pub[o] \in PublisherState /\ clock \in Nat /\ WorkerOf(o) \in Workers /\ dirty' \in BOOLEAN
  BY <1>1 DEF IInv, Typed, ProcessesTyped, PublisherState, WorkerOf, Workers
<1>3. /\ StoreTyped' /\ hold \in Hold /\ pointerRows' = pointerRows
      /\ leases'[n] # None /\ leases'[n].op = o /\ leases'[n].worker = WorkerOf(o)
      /\ leases'[n].expires = clock + TTL
      /\ leases[n] # None => Stale(leases[n], clock, Alive) \/ leases[n].op = o
  BY <1>1, <1>2, AcquireTyped DEF IInv, Typed, LeaseNames
<1>4. to \in PublisherSteps
  BY DEF PublisherSteps
<1>5. ASSUME NEW p \in Ops PROVE ~Busy(p)
  <2> SUFFICES ASSUME Busy(p) PROVE FALSE
    OBVIOUS
  <2>1. /\ leases[n] # None /\ leases[n].op = p /\ leases[n].worker = WorkerOf(p)
        /\ leases[n].expires > clock
    BY DEF IInv, Holds
  <2>2. WorkerOf(p) \in Alive
    BY DEF Alive, Busy, Idle
  <2>3. p # o
    BY <1>1 DEF Busy
  <2>4. leases[n].expires \in Nat
    BY <2>1, LeaseRow DEF IInv, Typed, LeaseNames
  <2> QED
    BY <1>2, <1>3, <2>1, <2>2, <2>3, <2>4 DEF Stale
<1> HIDE DEF hold, to
<1>6. /\ row \in PublisherState /\ row.pc = to /\ row.writer = hold
      /\ row.attempt = pub[o].attempt /\ row.expect = pub[o].expect
  BY <1>2, <1>3, <1>4 DEF PublisherState
<1> HIDE DEF row
<1>7. OnlyPublisher(o) /\ pub'[o] = row
  BY <1>1, <1>6, PublisherIs
<1>8. Typed'
  BY <1>1, <1>2, <1>3, <1>7, FilesFrame DEF IInv, Typed, ProcessesTyped, OnlyPublisher, fileVars
<1>9. \A r \in Recoverers : RecAt(r, "idle")'
  BY <1>1 DEF RecAt
<1>10. Apart' /\ \A r \in Recoverers : RecoveryTyped(r)' /\ RecoveryWorks(r)'
  BY <1>9 DEF Apart, RecAt, RecoveryTyped, PageTyped, RecoveryWorks, Resting
<1>11. HeadsAreOwn' /\ PointerServes' /\ RowsFollow'
  BY <1>1, <1>3, FilesFrame, RowsFrame DEF IInv, fileVars
<1>12. ASSUME NEW p \in Ops \ {o} PROVE Holds(p)' /\ PlanIsOld(p)' /\ Works(p)'
  <2>1. pub'[p] = pub[p]
    BY <1>7 DEF OnlyPublisher
  <2> QED
    BY <1>1, <1>5, <2>1, PublisherFrame DEF IInv, Holds, Busy, fileVars
<1>13. Holds(o)'
  BY <1>1, <1>2, <1>3, <1>6, <1>7, LeaseAssumption DEF Holds, WorkerOf, hold
<1>14. PlanIsOld(o)'
  BY <1>1, <1>6, <1>7 DEF IInv, PlanIsOld, fileVars
<1>15. Works(o)'
  BY <1>6, <1>7 DEF to, Works, SmallWork, IsolatedWork, At
<1> QED
  BY <1>8, <1>10, <1>11, <1>12, <1>13, <1>14, <1>15 DEF IInv

LEMMA PrepareStep ==
    ASSUME IInv, Serial, NEW o \in Ops, Prepare(o)
    PROVE  IInv'
<1> DEFINE seen  == IF ptr = None THEN NoExpectation
                    ELSE [gen |-> ptr.gen, pub |-> ptr.active.pub, name |-> ptr.active.name]
           build == o \in Isolated /\ head[o] = None
           plan  == IF o \in Small \/ build THEN seen ELSE pub[o].expect
           row   == [pub[o] EXCEPT !.pc = "ready", !.expect = plan]
           job   == [jobs[o] EXCEPT !.state     = IF o \in Small THEN "writing" ELSE "promoting",
                                    !.worker    = WorkerOf(o),
                                    !.heartbeat = clock,
                                    !.updated   = clock,
                                    !.candidate = IF o \in Small THEN None ELSE o]
<1>1. /\ pub[o].pc = "planned" /\ IsActive(o)
      /\ pub' = [pub EXCEPT ![o] = row]
      /\ head' = IF build THEN [head EXCEPT ![o] = o] ELSE head
      /\ parent' = IF build THEN [parent EXCEPT ![o] = seen.pub] ELSE parent
      /\ jobs' = [jobs EXCEPT ![o] = job]
      /\ UNCHANGED <<leases, fence, intents, pointerRows, ptr, damaged, clock, rec, dirty>>
      /\ \A r \in Recoverers : RecAt(r, "idle")
  BY DEF Prepare, At, MayPublish, Serial
<1>2. /\ pub[o] \in PublisherState /\ ptr \in PointerDocument \cup {None}
      /\ head \in [Artifacts -> Pubs \cup {None}] /\ parent \in [Pubs -> Pubs \cup {None}]
      /\ clock \in Nat /\ WorkerOf(o) \in Workers /\ dirty' \in BOOLEAN
      /\ o \in Pubs /\ (o \notin Small => o \in Isolated /\ o \in Artifacts)
  BY <1>1 DEF IInv, Typed, FilesTyped, ProcessesTyped, PublisherState, WorkerOf, Workers, Pubs,
              Ops, Artifacts
<1>3. seen \in Expectation
  BY <1>2 DEF Expectation, NoExpectation, PointerDocument, PointerArtifact
<1>4. StoreTyped'
  <2>1. jobs[o] \in Job
    BY <1>1, JobKinds DEF IInv, Typed, IsActive
  <2>2. job \in Job
    BY <1>2, <2>1 DEF Job, JobStates, ActiveStates
  <2> HIDE DEF job
  <2> QED
    BY <1>1, <2>2, JobsTyped DEF IInv, Typed
<1> HIDE DEF job
<1>5. plan \in Expectation
  BY <1>2, <1>3 DEF PublisherState
<1>6. seen.pub \in Pubs \cup {None}
  BY <1>3 DEF Expectation
<1> HIDE DEF plan
<1>7. row \in PublisherState /\ row.pc = "ready" /\ row.expect = plan
  BY <1>2, <1>5 DEF PublisherState, PublisherSteps
<1> HIDE DEF row
<1>8. OnlyPublisher(o) /\ pub'[o] = row
  BY <1>1, <1>7, PublisherIs
<1>9. /\ head' \in [Artifacts -> Pubs \cup {None}] /\ parent' \in [Pubs -> Pubs \cup {None}]
      /\ \A a \in Artifacts : head[a] # None => head'[a] = head[a]
      /\ \A a \in Artifacts : head'[a] \in {head[a], a}
      /\ \A p \in Pubs : parent'[p] = parent[p] \/ (build /\ p = o)
  BY <1>1, <1>2, <1>6
<1>10. ptr # None => /\ ptr \in PointerDocument
                     /\ ptr.active.name \in Artifacts /\ head[ptr.active.name] \in Pubs
                     /\ head[ptr.active.name] # o \/ ~build
                     /\ ptr.rollback # None =>
                            ptr.rollback.name \in Artifacts /\ head[ptr.rollback.name] # None
  <2> SUFFICES ASSUME ptr # None
               PROVE  /\ ptr \in PointerDocument
                      /\ ptr.active.name \in Artifacts /\ head[ptr.active.name] \in Pubs
                      /\ head[ptr.active.name] # o \/ ~build
                      /\ ptr.rollback # None =>
                            ptr.rollback.name \in Artifacts /\ head[ptr.rollback.name] # None
    OBVIOUS
  <2>1. ptr \in PointerDocument /\ PointerServes
    BY <1>2 DEF IInv
  <2>2. ptr.active.name \in Artifacts
    BY <2>1 DEF PointerDocument, PointerArtifact
  <2>3. head[ptr.active.name] \in Pubs
    BY <1>2, <2>1, <2>2 DEF PointerServes
  <2>4. head[ptr.active.name] # o \/ ~build
    BY <2>1, <2>2, DisjointAssumption DEF IInv, HeadsAreOwn, PointerServes
  <2>5. ptr.rollback # None => ptr.rollback.name \in Artifacts /\ head[ptr.rollback.name] # None
    BY <2>1, AbsentAssumption DEF PointerServes, PointerDocument, PointerArtifact
  <2> QED
    BY <2>1, <2>2, <2>3, <2>4, <2>5
<1>11. HeadsAreOwn' /\ FilesTyped'
  BY <1>1, <1>9 DEF IInv, Typed, FilesTyped, HeadsAreOwn
<1>12. PointerServes'
  <2> SUFFICES ASSUME ptr # None
               PROVE  /\ head'[ptr.active.name] = head[ptr.active.name]
                      /\ parent'[head[ptr.active.name]] = parent[head[ptr.active.name]]
                      /\ ptr.rollback # None => head'[ptr.rollback.name] = head[ptr.rollback.name]
    BY <1>1 DEF IInv, PointerServes
  <2> QED
    BY <1>9, <1>10, AbsentAssumption
<1>13. ASSUME NEW p \in Ops PROVE PlanIsOld(p)'
  <2> SUFFICES ASSUME p \in Isolated, ptr # None,
                      ptr.active.name = p \/ (ptr.rollback # None /\ ptr.rollback.name = p)
               PROVE  head'[p] # None /\ pub'[p].expect.gen < ptr.gen
    BY <1>1 DEF PlanIsOld
  <2>1. head[p] # None /\ pub[p].expect.gen < ptr.gen /\ p \in Artifacts
    BY DEF IInv, PlanIsOld, Artifacts
  <2>2. head'[p] # None
    BY <1>9, <2>1
  <2>3. p = o => plan = pub[o].expect
    BY <2>1, DisjointAssumption DEF plan
  <2> QED
    BY <1>7, <1>8, <2>1, <2>2, <2>3 DEF OnlyPublisher
<1>14. Works(o)'
  BY <1>7, <1>8 DEF Works, SmallWork, IsolatedWork, At
<1>15. ASSUME NEW p \in Ops \ {o} PROVE Works(p)'
  <2>1. pub'[p] = pub[p] /\ ptr' = ptr /\ Works(p) /\ p # None
    BY <1>1, <1>8, AbsentAssumption DEF OnlyPublisher, IInv
  <2>2. \A a \in Artifacts : head[a] = p => head'[a] = p
    BY <1>9, <2>1
  <2>3. p \in Small => SmallWork(p)'
    <3> SUFFICES ASSUME SmallWork(p) PROVE SmallWork(p)'
      BY <2>1 DEF Works
    <3>1. ptr # None => (head[ptr.active.name] = p => head'[ptr.active.name] = p)
      BY <1>10, <2>2
    <3> QED
      BY <2>1, <3>1 DEF SmallWork, At, AdvancedPointer
  <2>4. p \in Isolated => IsolatedWork(p)'
    <3> SUFFICES ASSUME p \in Isolated, IsolatedWork(p) PROVE IsolatedWork(p)'
      BY <2>1 DEF Works
    <3>1. head[p] = p => head'[p] = p
      BY <2>2 DEF Artifacts
    <3>2. ptr # None => head'[ptr.active.name] = head[ptr.active.name]
      BY <1>9, <1>10, AbsentAssumption
    <3> QED
      BY <2>1, <3>1, <3>2 DEF IsolatedWork, At, PromotedPointer, PointerExpected
  <2> QED
    BY <2>3, <2>4 DEF Works
<1>16. Typed' /\ RowsFollow'
  BY <1>1, <1>2, <1>4, <1>8, <1>11, RowsFrame DEF IInv, Typed, ProcessesTyped, OnlyPublisher
<1>17. Apart' /\ \A r \in Recoverers : RecoveryTyped(r)' /\ RecoveryWorks(r)'
  BY <1>1 DEF Apart, RecAt, RecoveryTyped, PageTyped, RecoveryWorks, Resting
<1>18. ASSUME NEW p \in Ops PROVE Holds(p)'
  <2>1. CASE p = o
    BY <1>7, <1>8, <2>1 DEF Holds, Busy
  <2>2. CASE p # o
    BY <1>1, <1>8, <2>2, HoldsFrame DEF IInv, OnlyPublisher
  <2> QED
    BY <2>1, <2>2
<1> QED
  BY <1>11, <1>12, <1>13, <1>14, <1>15, <1>16, <1>17, <1>18 DEF IInv

-----------------------------------------------------------------------------
(* Recovery. *)

Late == RecoverySteps \ (Resting \cup {"read", "selected"})

LEMMA RecovererIs ==
    ASSUME IInv, NEW r \in Recoverers, NEW row \in RecovererState, rec' = [rec EXCEPT ![r] = row]
    PROVE  OnlyRecoverer(r) /\ rec'[r] = row
BY DEF IInv, Typed, ProcessesTyped, OnlyRecoverer

LEMMA NobodyPublishes ==
    ASSUME IInv, NEW r \in Recoverers, rec[r].pc # "idle"
    PROVE  \A o \in Ops : pub[o].pc \in Idle
BY DEF IInv, Apart, RecAt

\* A recovery that ends, for whatever reason.
LEMMA RestMoves ==
    ASSUME IInv, NEW r \in Recoverers, rec[r].pc # "idle",
           NEW row \in RecovererState, row.pc \in Resting, rec' = [rec EXCEPT ![r] = row],
           UNCHANGED <<sidecarVars, fileVars, clock, pub>>, dirty' \in BOOLEAN
    PROVE  IInv'
<1>1. OnlyRecoverer(r) /\ rec'[r] = row
  BY RecovererIs
<1>2. StoreTyped' /\ IntentsStay
  BY DEF IInv, Typed, StoreTyped, StoreTypeOK, LeasedJobsExist, sidecarVars, IntentsStay
<1>3. RecoveryTyped(r)' /\ RecoveryWorks(r)'
  BY <1>1 DEF RecoveryTyped, PageTyped, RecoveryWorks, Resting, RecAt
<1>4. RowsFollow'
  BY RowsFrame DEF IInv, sidecarVars, fileVars
<1> QED
  BY <1>1, <1>2, <1>3, <1>4, NobodyPublishes, RecoveryMoves DEF fileVars

LEMMA RestIs ==
    ASSUME IInv, NEW r \in Recoverers, NEW pc \in Resting
    PROVE  Rest(r, pc) \in RecovererState /\ Rest(r, pc).pc = pc
<1>1. rec[r].crashes \in 0 .. MaxCrashes
  BY DEF IInv, Typed, ProcessesTyped, RecovererState
<1> QED
  BY <1>1 DEF Rest, IdleRecoverer, RecovererState, RecoverySteps, Resting

LEMMA RaiseMoves ==
    ASSUME IInv, NEW r \in Recoverers, rec[r].pc # "idle", RecRaise(r),
           UNCHANGED <<fileVars, clock, pub, dirty>>
    PROVE  IInv'
<1>1. "raised" \in Resting /\ dirty' \in BOOLEAN
  BY DEF Resting, IInv, Typed, ProcessesTyped
<1> QED
  BY <1>1, RestIs, RestMoves DEF RecRaise

\* A recovery past its repair that keeps its pointer and its selection.
LEMMA LateMoves ==
    ASSUME IInv, NEW r \in Recoverers, rec[r].pc \in Late,
           NEW row \in RecovererState, row.pc \in Late, rec' = [rec EXCEPT ![r] = row],
           row.ptr = rec[r].ptr, row.sel = rec[r].sel, PageTyped(row),
           UNCHANGED <<fileVars, clock, pub, dirty>>,
           StoreTyped', IntentsStay, RowsFollow'
    PROVE  IInv'
<1>1. OnlyRecoverer(r) /\ rec'[r] = row
  BY RecovererIs
<1>2. dirty' \in BOOLEAN
  BY DEF IInv, Typed, ProcessesTyped
<1>3. RecoveryTyped(r)'
  <2>1. \A item \in IntentItem : intents[item[1]] # None => intents'[item[1]] # None
    BY DEF IntentItem, IntentsStay
  <2> QED
    BY <1>1, <2>1 DEF RecoveryTyped, PageTyped
<1>4. RecoveryWorks(r)'
  <2>1. RecoveryWorks(r)
    BY DEF IInv
  <2> QED
    BY <1>1, <2>1
    DEF RecoveryWorks, RecAt, Follows, NeedsRepair, RepairedPointer, fileVars, Late
<1>5. rec[r].pc # "idle"
  BY DEF Late, Resting
<1> QED
  BY <1>1, <1>2, <1>3, <1>4, <1>5, NobodyPublishes, RecoveryMoves DEF fileVars

\* The same, when it leaves the sidecar alone too.
LEMMA LateQuiet ==
    ASSUME IInv, NEW r \in Recoverers, rec[r].pc \in Late,
           NEW row \in RecovererState, row.pc \in Late, rec' = [rec EXCEPT ![r] = row],
           row.ptr = rec[r].ptr, row.sel = rec[r].sel, PageTyped(row),
           UNCHANGED <<sidecarVars, fileVars, clock, pub, dirty>>
    PROVE  IInv'
<1>1. StoreTyped' /\ IntentsStay
  BY DEF IInv, Typed, StoreTyped, StoreTypeOK, LeasedJobsExist, sidecarVars, IntentsStay
<1>2. RowsFollow'
  BY RowsFrame DEF IInv, sidecarVars, fileVars
<1> QED
  BY <1>1, <1>2, LateMoves

LEMMA TerminaliseMoves ==
    ASSUME IInv, NEW r \in Recoverers, rec[r].pc \in Late,
           NEW o \in Ops, NEW s, NEW p \in Pubs \cup {None},
           NEW row \in RecovererState, row.pc \in Late, Terminalise(r, o, s, p, row),
           row.ptr = rec[r].ptr, row.sel = rec[r].sel, PageTyped(row),
           UNCHANGED <<fileVars, clock, pub, dirty>>
    PROVE  IInv'
<1>1. rec[r].pc # "idle" /\ rec[r].now \in Nat
  BY DEF Late, Resting, IInv, Typed, ProcessesTyped, RecovererState
<1>2. CASE ForceTerminal(o, s, p, rec[r].now) /\ rec' = [rec EXCEPT ![r] = row]
  <2>1. StoreTyped' /\ IntentsStay /\ pointerRows' = pointerRows
    BY <1>1, <1>2, ForceTerminalTyped DEF ForceTerminal, IInv, Typed, IntentsStay
  <2>2. RowsFollow'
    BY <2>1, RowsFrame DEF IInv, fileVars
  <2> QED
    BY <1>2, <2>1, <2>2, LateMoves
<1>3. CASE RecRaise(r)
  BY <1>1, <1>3, RaiseMoves
<1>4. CASE rec' = [rec EXCEPT ![r] = row] /\ UNCHANGED sidecarVars
  BY <1>4, LateQuiet
<1> QED
  BY <1>2, <1>3, <1>4 DEF Terminalise

\* Without damage a recovery records the pair of the pointer that is there.
LEMMA SelectedRowIs ==
    ASSUME IInv, NEW r \in Recoverers, rec[r].pc \in Late, NEW owner \in Ops
    PROVE  /\ SelectedRow(r, owner) \in PointerRow
           /\ SelectedRow(r, owner).owner = owner
           /\ ptr # None
           /\ MaxDamage = 0 => SelectedRow(r, owner) = RowOf(ptr, owner)
<1> DEFINE p == rec[r].ptr
           h == rec[r].sel.head
           d == [p EXCEPT !.active = [p.active EXCEPT !.pub = h]]
<1>1. p \in PointerDocument /\ rec[r].sel \in Choice /\ h \in Pubs /\ ptr # None /\ Follows(p)
  BY DEF IInv, RecoveryTyped, PageTyped, RecoveryWorks, Late, Choice
<1>2. SelectedRow(r, owner) = RowOf(d, owner)
  BY DEF SelectedRow
<1>3. d \in PointerDocument
  BY <1>1 DEF PointerDocument, PointerArtifact
<1>4. ASSUME MaxDamage = 0 PROVE d = ptr
  <2>1. /\ rec[r].sel.role = "active" /\ ~NeedsRepair(p.active)
        /\ h = head[p.active.name]
    BY <1>4 DEF IInv, RecoveryWorks, Late
  <2>2. h = p.active.pub /\ ptr = p
    BY <1>1, <2>1 DEF NeedsRepair, Follows
  <2> QED
    BY <1>1, <2>2 DEF PointerDocument, PointerArtifact
<1> HIDE DEF d
<1> QED
  BY <1>1, <1>2, <1>3, <1>4 DEF RowOf, PointerRow, PointerDocument

LEMMA RecordSelectedMoves ==
    ASSUME IInv, NEW r \in Recoverers, rec[r].pc \in Late, NEW owner \in Ops,
           NEW row \in RecovererState, row.pc \in Late, RecordSelected(r, owner, row),
           row.ptr = rec[r].ptr, row.sel = rec[r].sel, PageTyped(row),
           UNCHANGED <<fileVars, clock, pub, dirty>>
    PROVE  IInv'
<1>1. CASE RecordPointerPair(SelectedRow(r, owner)) /\ rec' = [rec EXCEPT ![r] = row]
  <2>1. StoreTyped' /\ IntentsStay
    BY <1>1, SelectedRowIs, RecordTyped DEF RecordPointerPair, IInv, Typed, IntentsStay
  <2>2. RowsFollow'
    <3> SUFFICES ASSUME MaxDamage = 0, NEW x \in pointerRows \cup {RowOf(ptr, owner)}
                 PROVE  /\ ptr # None /\ x.gen <= ptr.gen
                        /\ x.gen = ptr.gen => x = RowOf(ptr, x.owner)
      BY <1>1, SelectedRowIs DEF RowsFollow, RecordPointerPair, fileVars, RowOf
    <3>1. ptr # None /\ ptr.gen \in Nat
      BY SelectedRowIs DEF IInv, Typed, FilesTyped, PointerDocument
    <3>2. CASE x = RowOf(ptr, owner)
      BY <3>1, <3>2 DEF RowOf
    <3>3. CASE x \in pointerRows
      BY <3>1, <3>3 DEF IInv, RowsFollow
    <3> QED
      BY <3>2, <3>3
  <2> QED
    BY <1>1, <2>1, <2>2, LateMoves
<1>2. CASE RecRaise(r)
  BY <1>2, RaiseMoves DEF Late, Resting
<1> QED
  BY <1>1, <1>2 DEF RecordSelected

LEMMA ReadPointerStep ==
    ASSUME IInv, Serial, NEW r \in Recoverers, ReadPointer(r)
    PROVE  IInv'
<1> DEFINE row == [rec[r] EXCEPT !.pc = "read", !.ptr = ptr]
<1>1. /\ rec[r].pc = "idle" /\ ptr # None /\ \A o \in Ops : pub[o].pc \in Idle
      /\ rec' = [rec EXCEPT ![r] = row]
      /\ UNCHANGED <<sidecarVars, fileVars, clock, pub, dirty>>
  BY DEF ReadPointer, RecAt, MayRecover, Serial
<1>2. rec[r] \in RecovererState /\ ptr \in PointerDocument /\ dirty' \in BOOLEAN
  BY <1>1 DEF IInv, Typed, FilesTyped, ProcessesTyped
<1>3. row \in RecovererState /\ row.pc = "read" /\ row.ptr = ptr
  BY <1>2 DEF RecovererState, RecoverySteps
<1> HIDE DEF row
<1>4. OnlyRecoverer(r) /\ rec'[r] = row
  BY <1>1, <1>3, RecovererIs
<1>5. StoreTyped' /\ IntentsStay
  BY <1>1 DEF IInv, Typed, StoreTyped, StoreTypeOK, LeasedJobsExist, sidecarVars, IntentsStay
<1>6. RecoveryTyped(r)'
  BY <1>2, <1>3, <1>4 DEF RecoveryTyped, PageTyped, Resting
<1>7. RecoveryWorks(r)'
  BY <1>1, <1>3, <1>4 DEF RecoveryWorks, RecAt, Follows, Resting, fileVars
<1>8. RowsFollow'
  BY <1>1, RowsFrame DEF IInv, sidecarVars, fileVars
<1> QED
  BY <1>1, <1>2, <1>4, <1>5, <1>6, <1>7, <1>8, RecoveryMoves DEF fileVars

\* Without damage the active artifact can be read, also when a recovery reads
\* the pointer that another one has repaired meanwhile.
LEMMA ActiveIsReadable ==
    ASSUME IInv, MaxDamage = 0, NEW p \in PointerDocument, ptr # None, Follows(p)
    PROVE  ActiveReadable(p)
<1>1. ptr \in PointerDocument /\ PointerServes
  BY DEF IInv, Typed, FilesTyped
<1>2. damaged = {}
  BY FS_EmptySet, FS_CardinalityType DEF IInv, Typed, FilesTyped
<1>3. CASE ptr = p
  BY <1>1, <1>2, <1>3
  DEF PointerServes, ActiveReadable, ValidHead, DigestMatches, NeedsRepair
<1>4. CASE ptr # p
  <2>1. /\ NeedsRepair(p.active)
        /\ parent[head[p.active.name]] = p.active.pub
        /\ ptr.active.name = p.active.name
    BY <1>4 DEF Follows, RepairedPointer
  <2> QED
    BY <1>1, <1>2, <2>1 DEF PointerServes, ActiveReadable, ValidHead
<1> QED
  BY <1>3, <1>4

LEMMA OpenSelectedStep ==
    ASSUME IInv, NEW r \in Recoverers, OpenSelected(r)
    PROVE  IInv'
<1> DEFINE p   == rec[r].ptr
           sel == Selection(p)
           row == [rec[r] EXCEPT !.pc = "selected", !.sel = sel, !.now = clock]
<1>1. /\ rec[r].pc = "read"
      /\ rec' = [rec EXCEPT ![r] = IF Readable(p) THEN row ELSE Rest(r, "unreadable")]
      /\ UNCHANGED <<sidecarVars, fileVars, clock, pub, dirty>>
  BY DEF OpenSelected, RecAt
<1>2. /\ rec[r] \in RecovererState /\ p \in PointerDocument /\ dirty' \in BOOLEAN /\ clock \in Nat
      /\ ptr # None /\ Follows(p)
      /\ head \in [Artifacts -> Pubs \cup {None}]
  BY <1>1 DEF IInv, Typed, FilesTyped, ProcessesTyped, RecoveryTyped, PageTyped, RecoveryWorks,
              Resting
<1>3. CASE ~Readable(p)
  <2>1. "unreadable" \in Resting
    BY DEF Resting
  <2> QED
    BY <1>1, <1>2, <1>3, <2>1, RestIs, RestMoves
<1>4. CASE Readable(p)
  <2>1. /\ ActiveReadable(p) =>
               /\ sel.name = p.active.name /\ sel.head = head[sel.name] /\ sel.role = "active"
               /\ sel.repair = NeedsRepair(p.active)
               /\ p.active \in PointerArtifact /\ ValidHead(p.active)
        /\ ~ActiveReadable(p) =>
               /\ sel.name = p.rollback.name /\ sel.head = head[sel.name]
               /\ sel.role = "rollback" /\ sel.repair = FALSE
               /\ p.rollback \in PointerArtifact /\ ValidHead(p.rollback)
    <3>1. CASE ActiveReadable(p)
      <4>1. /\ sel.name = p.active.name /\ sel.head = head[sel.name] /\ sel.role = "active"
            /\ sel.repair = NeedsRepair(p.active)
        BY <3>1 DEF Selection, NeedsRepair
      <4> HIDE DEF sel
      <4> QED
        BY <1>2, <3>1, <4>1 DEF ActiveReadable, PointerDocument
    <3>2. CASE ~ActiveReadable(p)
      <4>1. /\ sel.name = p.rollback.name /\ sel.head = head[sel.name] /\ sel.role = "rollback"
            /\ sel.repair = FALSE
        BY <3>2 DEF Selection
      <4> HIDE DEF sel
      <4> QED
        BY <1>2, <1>4, <3>2, <4>1 DEF Readable, RollbackReadable, PointerDocument
    <3> QED
      BY <3>1, <3>2
  <2>2. sel.repair \in BOOLEAN
    BY <2>1 DEF NeedsRepair
  <2>3. sel.name \in Artifacts /\ sel.head \in Pubs /\ sel.role \in {"active", "rollback"}
    BY <1>2, <2>1 DEF PointerArtifact, ValidHead
  <2>4. sel = [name |-> sel.name, head |-> sel.head, role |-> sel.role, repair |-> sel.repair]
    BY DEF Selection
  <2>5. sel \in Choice
    BY <2>2, <2>3, <2>4 DEF Choice
  <2>6. MaxDamage = 0 => sel.role = "active"
    BY <1>2, <2>1, ActiveIsReadable
  <2> HIDE DEF sel
  <2>7. row \in RecovererState /\ row.pc = "selected" /\ row.ptr = p /\ row.sel = sel
    BY <1>2, <2>5 DEF RecovererState, RecoverySteps
  <2> HIDE DEF row
  <2>8. OnlyRecoverer(r) /\ rec'[r] = row
    BY <1>1, <1>4, <2>7, RecovererIs
  <2>9. StoreTyped' /\ IntentsStay
    BY <1>1 DEF IInv, Typed, StoreTyped, StoreTypeOK, LeasedJobsExist, sidecarVars, IntentsStay
  <2>10. RecoveryTyped(r)'
    BY <1>2, <2>5, <2>7, <2>8 DEF RecoveryTyped, PageTyped, Resting
  <2>11. RecoveryWorks(r)'
    BY <1>1, <1>2, <2>1, <2>6, <2>7, <2>8
    DEF RecoveryWorks, RecAt, Follows, NeedsRepair, RepairedPointer, Resting, fileVars
  <2>12. RowsFollow'
    BY <1>1, RowsFrame DEF IInv, sidecarVars, fileVars
  <2>13. rec[r].pc # "idle"
    BY <1>1
  <2> QED
    BY <1>1, <1>2, <2>8, <2>9, <2>10, <2>11, <2>12, <2>13, NobodyPublishes, RecoveryMoves
    DEF fileVars
<1> QED
  BY <1>3, <1>4

LEMMA RepairPointerStep ==
    ASSUME IInv, NEW r \in Recoverers, RepairPointer(r)
    PROVE  /\ IInv'
           /\ ptr # None
           /\ ptr' # ptr => ptr'.gen = ptr.gen + 1
<1> DEFINE p   == rec[r].ptr
           sel == rec[r].sel
           doc == IF sel.repair THEN RepairedPointer(p, sel.name, sel.head) ELSE p
           row == [rec[r] EXCEPT !.pc = "repaired", !.ptr = doc]
<1>1. /\ rec[r].pc = "selected"
      /\ ptr' = IF sel.repair THEN doc ELSE ptr
      /\ rec' = [rec EXCEPT ![r] = row]
      /\ UNCHANGED <<sidecarVars, head, parent, damaged, clock, pub, dirty>>
  BY DEF RepairPointer, RecAt
<1>2. /\ rec[r] \in RecovererState /\ p \in PointerDocument /\ sel \in Choice
      /\ dirty' \in BOOLEAN /\ ptr # None /\ ptr \in PointerDocument /\ Follows(p)
      /\ sel.repair = (sel.role = "active" /\ NeedsRepair(p.active))
      /\ sel.role = "active" => sel.name = p.active.name /\ sel.head = head[sel.name]
      /\ MaxDamage = 0 => sel.role = "active"
      /\ \A o \in Ops : pub[o].pc \in Idle
  BY <1>1, NobodyPublishes
  DEF IInv, Typed, FilesTyped, ProcessesTyped, RecoveryTyped, PageTyped, RecoveryWorks, Resting,
      RecAt
<1>3. doc \in PointerDocument
  <2>1. RepairedPointer(p, sel.name, sel.head) \in PointerDocument
    BY <1>2 DEF RepairedPointer, PointerDocument, PointerArtifact, Choice
  <2> QED
    BY <1>2, <2>1
<1>4. sel.repair => /\ doc = RepairedPointer(p, p.active.name, head[p.active.name])
                    /\ doc.active.name = p.active.name /\ doc.active.pub = head[p.active.name]
                    /\ doc.active.file = None
                    /\ doc.gen = p.gen + 1 /\ doc.rollback = p.rollback
  BY <1>2 DEF RepairedPointer
<1>5. ~sel.repair => doc = p
  OBVIOUS
<1>6. row \in RecovererState /\ row.pc = "repaired" /\ row.ptr = doc /\ row.sel = sel
  BY <1>2, <1>3 DEF RecovererState, RecoverySteps
<1> HIDE DEF row, doc
<1>7. OnlyRecoverer(r) /\ rec'[r] = row
  BY <1>1, <1>6, RecovererIs
<1>8. RecoveryTyped(r)'
  BY <1>2, <1>3, <1>6, <1>7 DEF RecoveryTyped, PageTyped, Resting
<1>9. StoreTyped' /\ IntentsStay
  BY <1>1 DEF IInv, Typed, StoreTyped, StoreTypeOK, LeasedJobsExist, sidecarVars, IntentsStay
<1>10. rec[r].pc # "idle"
  BY <1>1
<1>11. CASE ptr' = ptr
  <2>1. sel.repair => ptr = doc
    BY <1>1, <1>11
  <2>4. rec'[r].ptr = doc /\ rec'[r].sel = sel /\ rec'[r].pc = "repaired"
    BY <1>6, <1>7
  <2>2. RecoveryWorks(r)'
    <3>1. CASE sel.repair
      <4>1. ptr' = doc /\ head'[doc.active.name] = doc.active.pub
        BY <1>1, <1>4, <2>1, <3>1, <1>11
      <4>2. sel.name = doc.active.name /\ sel.head = head'[sel.name]
        BY <1>1, <1>2, <1>4, <3>1
      <4> QED
        BY <1>2, <1>11, <2>4, <4>1, <4>2
        DEF RecoveryWorks, RecAt, Resting, Follows, NeedsRepair
    <3>2. CASE ~sel.repair
      <4>1. rec'[r].ptr = p
        BY <1>5, <2>4, <3>2
      <4> QED
        BY <1>1, <1>2, <1>11, <2>4, <3>2, <4>1
        DEF RecoveryWorks, RecAt, Resting, Follows, NeedsRepair, RepairedPointer
    <3> QED
      BY <3>1, <3>2
  <2>3. RowsFollow'
    BY <1>1, <1>11, RowsFrame DEF IInv, sidecarVars
  <2> QED
    BY <1>1, <1>2, <1>7, <1>8, <1>9, <1>11, <2>2, <2>3, RecoveryMoves DEF fileVars
<1>12. CASE ptr' # ptr
  <2>1. sel.repair /\ ptr' = doc /\ NeedsRepair(p.active)
    BY <1>1, <1>2, <1>12
  <2>2. ptr = p
    BY <1>2, <1>4, <1>12, <2>1 DEF Follows
  <2>3. parent[head[ptr.active.name]] = ptr.active.pub /\ head[ptr.active.name] # None
    BY <1>2, <2>1, <2>2 DEF IInv, PointerServes, NeedsRepair
  <2>4. /\ ptr' \in PointerDocument /\ ptr'.gen = ptr.gen + 1 /\ ptr'.rollback = ptr.rollback
        /\ ptr'.active.name = ptr.active.name /\ ptr'.active.pub = head[ptr.active.name]
        /\ ptr'.active.file = None
    <3>1. /\ doc.gen = p.gen + 1 /\ doc.rollback = p.rollback
          /\ doc.active.name = p.active.name /\ doc.active.pub = head[p.active.name]
          /\ doc.active.file = None
      BY <1>4, <2>1
    <3> QED
      BY <1>3, <2>1, <2>2, <3>1
  <2>5. PointerServes'
    BY <1>1, <1>2, <2>3, <2>4 DEF IInv, PointerServes
  <2>6. ASSUME NEW o \in Ops PROVE Holds(o)' /\ PlanIsOld(o)' /\ Works(o)'
    <3>1. pub'[o] = pub[o] /\ ~Busy(o) /\ pub[o] \in PublisherState
      BY <1>1, <1>2 DEF Busy, IInv, Typed, ProcessesTyped
    <3>2. PlanIsOld(o)'
      <4> SUFFICES ASSUME o \in Isolated,
                          ptr.active.name = o \/ (ptr.rollback # None /\ ptr.rollback.name = o)
                   PROVE  head[o] # None /\ pub[o].expect.gen < ptr.gen + 1
        BY <1>1, <2>4, <3>1 DEF PlanIsOld
      <4>1. head[o] # None /\ pub[o].expect.gen < ptr.gen
        BY <1>2 DEF IInv, PlanIsOld
      <4> QED
        BY <1>2, <3>1, <4>1 DEF PublisherState, Expectation, PointerDocument
    <3> QED
      BY <3>1, <3>2 DEF Holds, Busy, Works, SmallWork, IsolatedWork, Idle, Outside, At
  <2>7. RowsFollow'
    <3> SUFFICES ASSUME MaxDamage = 0, NEW x \in pointerRows
                 PROVE  ptr' # None /\ x.gen <= ptr'.gen /\ x.gen # ptr'.gen
      BY <1>1 DEF RowsFollow, sidecarVars
    <3>1. x.gen <= ptr.gen /\ x.gen \in Nat
      BY DEF IInv, RowsFollow, Typed, StoreTyped, StoreTypeOK, PointerRow
    <3> QED
      BY <1>2, <2>4, <3>1, AbsentAssumption DEF PointerDocument
  <2>8. Typed' /\ HeadsAreOwn' /\ Apart'
    BY <1>1, <1>2, <1>7, <1>9, <2>4
    DEF IInv, Typed, FilesTyped, ProcessesTyped, OnlyRecoverer, HeadsAreOwn, Apart
  <2>9. RecoveryWorks(r)'
    BY <1>1, <1>2, <1>4, <1>6, <1>7, <2>1, <2>2, <2>4, AbsentAssumption
    DEF RecoveryWorks, RecAt, Follows, NeedsRepair, RepairedPointer, Resting
  <2>10. ASSUME NEW q \in Recoverers \ {r} PROVE RecoveryTyped(q)' /\ RecoveryWorks(q)'
    <3>1. rec'[q] = rec[q] /\ RecoveryTyped(q) /\ RecoveryWorks(q)
      BY <1>7 DEF OnlyRecoverer, IInv
    <3>2. RecoveryTyped(q)'
      BY <1>1, <3>1 DEF RecoveryTyped, PageTyped, sidecarVars
    <3>3. ~(ptr # rec[q].ptr /\ Follows(rec[q].ptr))
      BY <2>1, <2>2 DEF Follows, NeedsRepair, RepairedPointer
    <3>4. ptr = rec[q].ptr => Follows(rec[q].ptr)'
      BY <1>1, <1>4, <2>1, <2>2, <2>3 DEF Follows, NeedsRepair, RepairedPointer
    <3> QED
      BY <1>1, <2>4, <3>1, <3>2, <3>3, <3>4, AbsentAssumption
      DEF RecoveryWorks, RecAt, NeedsRepair
  <2> QED
    BY <1>2, <1>8, <2>4, <2>5, <2>6, <2>7, <2>8, <2>9, <2>10 DEF IInv
<1> QED
  BY <1>2, <1>11, <1>12

\* What a recovery past its repair has in memory.
LEMMA LateIs ==
    ASSUME IInv, NEW r \in Recoverers, rec[r].pc \in Late
    PROVE  /\ rec[r] \in RecovererState /\ PageTyped(rec[r])
           /\ rec[r].ptr \in PointerDocument /\ rec[r].sel \in Choice
           /\ rec[r].sel.head \in Pubs /\ rec[r].now \in Nat
           /\ rec[r].pc # "idle" /\ dirty \in BOOLEAN
BY DEF IInv, Typed, ProcessesTyped, RecoveryTyped, PageTyped, Late, Choice, Resting, RecovererState

LEMMA SnapshotStep ==
    ASSUME IInv, NEW r \in Recoverers, SnapshotStatus(r)
    PROVE  IInv'
<1> DEFINE live == {leases[n].op : n \in {n \in LeaseNames :
                        leases[n] # None /\ ~Stale(leases[n], rec[r].now, Alive)}}
           row  == [rec[r] EXCEPT !.pc = "status", !.live = live]
<1>1. /\ rec[r].pc = "repaired" /\ rec' = [rec EXCEPT ![r] = row]
      /\ UNCHANGED <<sidecarVars, fileVars, clock, pub, dirty>>
  BY DEF SnapshotStatus, RecAt
<1>2. rec[r].pc \in Late /\ "status" \in Late
  BY <1>1 DEF Late, RecoverySteps, Resting
<1>3. live \subseteq Ops
  BY LeaseRow DEF IInv, Typed
<1> HIDE DEF live
<1>4. /\ row \in RecovererState /\ row.pc = "status" /\ row.ptr = rec[r].ptr
      /\ row.sel = rec[r].sel
  BY <1>2, <1>3, LateIs DEF RecovererState, RecoverySteps
<1>5. PageTyped(row)
  BY <1>2, <1>4, LateIs DEF PageTyped
<1> HIDE DEF row
<1> QED
  BY <1>1, <1>2, <1>4, <1>5, LateQuiet

LEMMA CompleteSelectedStep ==
    ASSUME IInv, NEW r \in Recoverers, CompleteSelected(r)
    PROVE  IInv'
<1> DEFINE o    == rec[r].sel.head
           done == [rec[r] EXCEPT !.pc = "completed"]
           row  == [rec[r] EXCEPT !.pc = "list_intents"]
<1>1. /\ rec[r].pc = "status"
      /\ \/ o \in Ops /\ Terminalise(r, o, "completed", o, done)
         \/ rec' = [rec EXCEPT ![r] = row] /\ UNCHANGED sidecarVars
      /\ UNCHANGED <<fileVars, clock, pub, dirty>>
  BY DEF CompleteSelected, RecAt, RecGoto
<1>2. rec[r].pc \in Late /\ {"completed", "list_intents"} \subseteq Late
  BY <1>1 DEF Late, RecoverySteps, Resting
<1>3. /\ done \in RecovererState /\ done.pc = "completed"
      /\ done.ptr = rec[r].ptr /\ done.sel = rec[r].sel
      /\ row \in RecovererState /\ row.pc = "list_intents"
      /\ row.ptr = rec[r].ptr /\ row.sel = rec[r].sel
  BY <1>2, LateIs DEF RecovererState, RecoverySteps
<1>4. PageTyped(row) /\ (o \in Ops => PageTyped(done))
  BY <1>2, <1>3, LateIs DEF PageTyped
<1> HIDE DEF done, row
<1>5. CASE o \in Ops /\ Terminalise(r, o, "completed", o, done)
  BY <1>1, <1>2, <1>3, <1>4, <1>5, TerminaliseMoves DEF Pubs
<1>6. CASE rec' = [rec EXCEPT ![r] = row] /\ UNCHANGED sidecarVars
  BY <1>1, <1>2, <1>3, <1>4, <1>6, LateQuiet
<1> QED
  BY <1>1, <1>5, <1>6

LEMMA RecordCompletedStep ==
    ASSUME IInv, NEW r \in Recoverers, RecordCompleted(r)
    PROVE  IInv'
<1> DEFINE row == [rec[r] EXCEPT !.pc = "list_intents"]
<1>1. /\ rec[r].pc = "completed" /\ RecordSelected(r, rec[r].sel.head, row)
      /\ UNCHANGED <<fileVars, clock, pub, dirty>>
  BY DEF RecordCompleted, RecAt
<1>2. rec[r].pc \in Late /\ "list_intents" \in Late
  BY <1>1 DEF Late, RecoverySteps, Resting
<1>3. rec[r].sel.head \in Ops
  BY <1>1, <1>2, LateIs DEF PageTyped
<1>4. /\ row \in RecovererState /\ row.pc = "list_intents"
      /\ row.ptr = rec[r].ptr /\ row.sel = rec[r].sel
  BY <1>2, LateIs DEF RecovererState, RecoverySteps
<1>5. PageTyped(row)
  BY <1>2, <1>4, LateIs DEF PageTyped
<1> HIDE DEF row
<1> QED
  BY <1>1, <1>2, <1>3, <1>4, <1>5, RecordSelectedMoves

LEMMA ListIntentsStep ==
    ASSUME IInv, NEW r \in Recoverers, ListIntents(r)
    PROVE  IInv'
<1> DEFINE row == [rec[r] EXCEPT !.pc = "intents", !.todo = PendingIntents]
<1>1. /\ rec[r].pc = "list_intents" /\ rec' = [rec EXCEPT ![r] = row]
      /\ UNCHANGED <<sidecarVars, fileVars, clock, pub, dirty>>
  BY DEF ListIntents, RecAt
<1>2. rec[r].pc \in Late /\ "intents" \in Late
  BY <1>1 DEF Late, RecoverySteps, Resting
<1>3. PendingIntents \subseteq IntentItem /\ \A item \in PendingIntents : intents[item[1]] # None
  BY DEF PendingIntents, IntentItem, IsPending
<1>4. /\ row \in RecovererState /\ row.pc = "intents" /\ row.todo = PendingIntents
      /\ row.ptr = rec[r].ptr /\ row.sel = rec[r].sel
  BY <1>2, <1>3, LateIs DEF RecovererState, RecoverySteps
<1>5. PageTyped(row)
  BY <1>2, <1>3, <1>4, LateIs DEF PageTyped
<1> HIDE DEF row
<1> QED
  BY <1>1, <1>2, <1>4, <1>5, LateQuiet

\* A page shrinks by the row that is dealt with.
LEMMA RestOfPage ==
    ASSUME IInv, NEW r \in Recoverers, rec[r].pc \in Late, NEW item
    PROVE  LET rest == [rec[r] EXCEPT !.todo = @ \ {item}]
           IN  /\ rest \in RecovererState /\ PageTyped(rest)
               /\ rest.ptr = rec[r].ptr /\ rest.sel = rec[r].sel /\ rest.pc = rec[r].pc
               /\ rest.todo \subseteq rec[r].todo
<1> DEFINE rest == [rec[r] EXCEPT !.todo = rec[r].todo \ {item}]
<1>1. /\ rest \in RecovererState /\ rest.ptr = rec[r].ptr /\ rest.sel = rec[r].sel
      /\ rest.pc = rec[r].pc /\ rest.item = rec[r].item /\ rest.todo = rec[r].todo \ {item}
  BY LateIs DEF RecovererState
<1>2. PageTyped(rest)
  <2> HIDE DEF rest
  <2> QED
    BY <1>1, LateIs DEF PageTyped
<1> QED
  BY <1>1, <1>2

LEMMA RecoverIntentStep ==
    ASSUME IInv, NEW r \in Recoverers, RecoverIntent(r)
    PROVE  IInv'
<1>1. rec[r].pc = "intents" /\ UNCHANGED <<fileVars, clock, pub, dirty>>
  BY DEF RecoverIntent, RecAt
<1>2. rec[r].pc \in Late /\ {"intents", "reconcile", "undo"} \subseteq Late
  BY <1>1 DEF Late, RecoverySteps, Resting
<1> DEFINE rest(item) == [rec[r] EXCEPT !.todo = @ \ {item}]
           rec1(item) == [rest(item) EXCEPT !.pc = "reconcile", !.item = item]
           undo(item) == [rest(item) EXCEPT !.pc = "undo", !.item = item]
<1>3. PICK item \in rec[r].todo :
        LET i == item[1]
            s == IF item[2] = "verified" THEN "failed" ELSE "rolled_back"
        IN  \/ RecordSelected(r, intents[i].op, rec1(item))
            \/ rec' = [rec EXCEPT ![r] = rest(item)] /\ UNCHANGED sidecarVars
            \/ /\ TransitionIntent(i, item[2], s, rec[r].now)
               /\ rec' = [rec EXCEPT ![r] = undo(item)]
            \/ RecRaise(r)
  BY DEF RecoverIntent
<1> DEFINE i == item[1]
           s == IF item[2] = "verified" THEN "failed" ELSE "rolled_back"
<1>4. item \in IntentItem /\ i \in Isolated /\ intents[i] # None
  BY <1>1, <1>2, LateIs DEF PageTyped, IntentItem
<1>5. intents[i].op \in Ops
  BY <1>4 DEF IInv, Typed, StoreTyped, StoreTypeOK, Intent
<1>6. /\ rest(item) \in RecovererState /\ PageTyped(rest(item))
      /\ rest(item).ptr = rec[r].ptr /\ rest(item).sel = rec[r].sel
      /\ rest(item).pc = "intents"
      /\ rest(item).todo \subseteq IntentItem
      /\ \A x \in rest(item).todo : intents[x[1]] # None
  <2>1. /\ rest(item) \in RecovererState /\ PageTyped(rest(item))
        /\ rest(item).ptr = rec[r].ptr /\ rest(item).sel = rec[r].sel
        /\ rest(item).pc = rec[r].pc
    BY <1>2, RestOfPage
  <2> HIDE DEF rest
  <2> QED
    BY <1>1, <2>1 DEF PageTyped
<1> HIDE DEF rest
<1>7. ASSUME NEW pc \in {"reconcile", "undo"},
             NEW row, row = [rest(item) EXCEPT !.pc = pc, !.item = item]
      PROVE  /\ row \in RecovererState /\ row.pc \in Late /\ PageTyped(row)
             /\ row.ptr = rec[r].ptr /\ row.sel = rec[r].sel
  <2>1. /\ row \in RecovererState /\ row.pc = pc /\ row.item = item
        /\ row.todo = rest(item).todo /\ row.ptr = rec[r].ptr /\ row.sel = rec[r].sel
    BY <1>4, <1>6, <1>7 DEF RecovererState, RecoverySteps
  <2>2. row.ptr \in PointerDocument /\ row.sel \in Choice
    BY <1>2, <2>1, LateIs
  <2> HIDE <1>7
  <2> QED
    BY <1>2, <1>4, <1>6, <2>1, <2>2 DEF PageTyped
<1>8. CASE RecordSelected(r, intents[i].op, rec1(item))
  <2>1. rec1(item) = [rest(item) EXCEPT !.pc = "reconcile", !.item = item]
    OBVIOUS
  <2> HIDE DEF rec1
  <2> QED
    BY <1>1, <1>2, <1>5, <1>7, <1>8, <2>1, RecordSelectedMoves
<1>9. CASE rec' = [rec EXCEPT ![r] = rest(item)] /\ UNCHANGED sidecarVars
  BY <1>1, <1>2, <1>6, <1>9, LateQuiet
<1>10. CASE /\ TransitionIntent(i, item[2], s, rec[r].now)
            /\ rec' = [rec EXCEPT ![r] = undo(item)]
  <2>1. undo(item) = [rest(item) EXCEPT !.pc = "undo", !.item = item]
    OBVIOUS
  <2> HIDE DEF undo
  <2>2. StoreTyped' /\ IntentsStay /\ pointerRows' = pointerRows
    BY <1>2, <1>4, <1>10, LateIs, TransitionIntentTyped
    DEF TransitionIntent, IInv, Typed, IntentsStay
  <2>3. RowsFollow'
    BY <1>1, <2>2, RowsFrame DEF IInv, fileVars
  <2> QED
    BY <1>1, <1>2, <1>7, <1>10, <2>1, <2>2, <2>3, LateMoves
<1>11. CASE RecRaise(r)
  BY <1>1, <1>11, RaiseMoves
<1> QED
  BY <1>3, <1>8, <1>9, <1>10, <1>11

LEMMA ReconcileIntentStep ==
    ASSUME IInv, NEW r \in Recoverers, ReconcileIntent(r)
    PROVE  IInv'
<1> DEFINE i == rec[r].item[1]
           s == rec[r].item[2]
           t == CASE s = "prepared"        -> "pointer_written"
                  [] s = "pointer_written" -> "verified"
                  [] s = "verified"        -> "reconciled"
           done == [rec[r] EXCEPT !.pc = "intents", !.item = None]
           next == [rec[r] EXCEPT !.item = <<i, t>>]
           row  == IF t = "reconciled" THEN done ELSE next
<1>1. /\ rec[r].pc = "reconcile"
      /\ \/ TransitionIntent(i, s, t, rec[r].now) /\ rec' = [rec EXCEPT ![r] = row]
         \/ RecRaise(r)
      /\ UNCHANGED <<fileVars, clock, pub, dirty>>
  BY DEF ReconcileIntent, RecAt
<1>2. rec[r].pc \in Late /\ {"intents", "reconcile"} \subseteq Late
  BY <1>1 DEF Late, RecoverySteps, Resting
<1>3. rec[r].item \in IntentItem /\ i \in Isolated /\ s \in PendingIntentStates
      /\ intents[i] # None
  BY <1>1, <1>2, LateIs DEF PageTyped, IntentItem
<1>4. t = "reconciled" \/ t \in PendingIntentStates
  BY <1>3 DEF PendingIntentStates
<1> HIDE DEF t
<1>5. /\ row \in RecovererState /\ row.pc \in {"intents", "reconcile"}
      /\ row.ptr = rec[r].ptr /\ row.sel = rec[r].sel /\ row.todo = rec[r].todo
      /\ row.pc = "reconcile" => row.item = <<i, t>> /\ <<i, t>> \in IntentItem
  <2>1. CASE t = "reconciled"
    BY <1>1, <1>2, <2>1, LateIs DEF RecovererState, RecoverySteps
  <2>2. CASE t # "reconciled"
    <3>1. <<i, t>> \in IntentItem
      BY <1>3, <1>4, <2>2 DEF IntentItem
    <3> QED
      BY <1>1, <1>2, <2>2, <3>1, LateIs DEF RecovererState, RecoverySteps
  <2> QED
    BY <2>1, <2>2
<1> HIDE DEF row
<1>6. PageTyped(row)
  BY <1>1, <1>2, <1>3, <1>5, LateIs DEF PageTyped
<1>7. CASE TransitionIntent(i, s, t, rec[r].now) /\ rec' = [rec EXCEPT ![r] = row]
  <2>1. StoreTyped' /\ IntentsStay /\ pointerRows' = pointerRows
    BY <1>2, <1>3, <1>7, LateIs, TransitionIntentTyped
    DEF TransitionIntent, IInv, Typed, IntentsStay
  <2>2. RowsFollow'
    BY <1>1, <2>1, RowsFrame DEF IInv, fileVars
  <2> QED
    BY <1>1, <1>2, <1>5, <1>6, <1>7, <2>1, <2>2, LateMoves
<1>8. CASE RecRaise(r)
  BY <1>1, <1>8, RaiseMoves
<1> QED
  BY <1>1, <1>7, <1>8

LEMMA UndoOperationStep ==
    ASSUME IInv, NEW r \in Recoverers, UndoOperation(r)
    PROVE  IInv'
<1> DEFINE o   == intents[rec[r].item[1]].op
           row == [rec[r] EXCEPT !.pc = "intents", !.item = None]
<1>1. /\ rec[r].pc = "undo" /\ Terminalise(r, o, "rolled_back", None, row)
      /\ UNCHANGED <<fileVars, clock, pub, dirty>>
  BY DEF UndoOperation, RecAt
<1>2. rec[r].pc \in Late /\ "intents" \in Late
  BY <1>1 DEF Late, RecoverySteps, Resting
<1>3. o \in Ops
  <2>1. rec[r].item[1] \in Isolated /\ intents[rec[r].item[1]] # None
    BY <1>1, <1>2, LateIs DEF PageTyped, IntentItem
  <2> QED
    BY <2>1 DEF IInv, Typed, StoreTyped, StoreTypeOK, Intent
<1>4. /\ row \in RecovererState /\ row.pc = "intents" /\ row.todo = rec[r].todo
      /\ row.ptr = rec[r].ptr /\ row.sel = rec[r].sel
  BY <1>2, LateIs DEF RecovererState, RecoverySteps
<1> HIDE DEF row
<1>5. PageTyped(row)
  BY <1>1, <1>2, <1>4, LateIs DEF PageTyped
<1> QED
  BY <1>1, <1>2, <1>3, <1>4, <1>5, TerminaliseMoves

LEMMA ListLeasesStep ==
    ASSUME IInv, NEW r \in Recoverers, ListLeases(r)
    PROVE  IInv'
<1> DEFINE held  == {n \in LeaseNames : leases[n] # None}
           stale == {n \in held : Stale(leases[n], rec[r].now, Alive)}
           page  == {<<n, HoldOf(leases[n])>> : n \in stale}
           row   == [rec[r] EXCEPT !.pc = "leases", !.todo = page]
<1>1. /\ rec[r].pc = "intents" /\ rec' = [rec EXCEPT ![r] = row]
      /\ UNCHANGED <<sidecarVars, fileVars, clock, pub, dirty>>
  BY DEF ListLeases, RecAt
<1>2. rec[r].pc \in Late /\ "leases" \in Late
  BY <1>1 DEF Late, RecoverySteps, Resting
<1>3. page \subseteq LeaseItem
  BY LeaseRow DEF IInv, Typed, LeaseItem
<1> HIDE DEF page
<1>4. /\ row \in RecovererState /\ row.pc = "leases" /\ row.todo = page
      /\ row.ptr = rec[r].ptr /\ row.sel = rec[r].sel
  BY <1>2, <1>3, LateIs DEF RecovererState, RecoverySteps
<1> HIDE DEF row
<1>5. PageTyped(row)
  BY <1>2, <1>3, <1>4, LateIs DEF PageTyped
<1> QED
  BY <1>1, <1>2, <1>4, <1>5, LateQuiet

LEMMA RemoveLeaseStep ==
    ASSUME IInv, NEW r \in Recoverers, RemoveLease(r)
    PROVE  IInv'
<1>1. rec[r].pc = "leases" /\ UNCHANGED <<fileVars, clock, pub, dirty>>
  BY DEF RemoveLease, RecAt
<1>2. rec[r].pc \in Late /\ {"leases", "fail"} \subseteq Late
  BY <1>1 DEF Late, RecoverySteps, Resting
<1> DEFINE rest(item) == [rec[r] EXCEPT !.todo = @ \ {item}]
           next(item) == IF item[2].op = rec[r].sel.head THEN rest(item)
                         ELSE [rest(item) EXCEPT !.pc = "fail", !.item = item]
<1>3. PICK item \in rec[r].todo :
        \/ ReleaseLease(item[1], item[2]) /\ rec' = [rec EXCEPT ![r] = next(item)]
        \/ RecRaise(r)
  BY DEF RemoveLease
<1> DEFINE row == next(item)
<1>4. item \in LeaseItem
  BY <1>1, <1>2, LateIs DEF PageTyped
<1>5. /\ rest(item) \in RecovererState /\ PageTyped(rest(item))
      /\ rest(item).ptr = rec[r].ptr /\ rest(item).sel = rec[r].sel
      /\ rest(item).pc = "leases" /\ rest(item).todo \subseteq LeaseItem
  <2>1. /\ rest(item) \in RecovererState /\ PageTyped(rest(item))
        /\ rest(item).ptr = rec[r].ptr /\ rest(item).sel = rec[r].sel
        /\ rest(item).pc = rec[r].pc
    BY <1>2, RestOfPage
  <2> HIDE DEF rest
  <2> QED
    BY <1>1, <2>1 DEF PageTyped
<1> HIDE DEF rest
<1>6. /\ row \in RecovererState /\ row.pc \in Late /\ PageTyped(row)
      /\ row.ptr = rec[r].ptr /\ row.sel = rec[r].sel
  <2>1. CASE item[2].op = rec[r].sel.head
    BY <1>2, <1>5, <2>1
  <2>2. CASE item[2].op # rec[r].sel.head
    <3>1. /\ row \in RecovererState /\ row.pc = "fail" /\ row.item = item
          /\ row.todo = rest(item).todo /\ row.ptr = rec[r].ptr /\ row.sel = rec[r].sel
      BY <1>4, <1>5, <2>2 DEF RecovererState, RecoverySteps
    <3>2. row.ptr \in PointerDocument /\ row.sel \in Choice
      BY <1>2, <3>1, LateIs
    <3> HIDE DEF row, next
    <3> QED
      BY <1>2, <1>4, <1>5, <3>1, <3>2 DEF PageTyped
  <2> QED
    BY <2>1, <2>2
<1>7. CASE ReleaseLease(item[1], item[2]) /\ rec' = [rec EXCEPT ![r] = row]
  <2> HIDE DEF row, next
  <2>1. StoreTyped' /\ IntentsStay /\ pointerRows' = pointerRows
    BY <1>4, <1>7, ReleaseTyped DEF ReleaseLease, LeaseItem, IInv, Typed, IntentsStay
  <2>2. RowsFollow'
    BY <1>1, <2>1, RowsFrame DEF IInv, fileVars
  <2> QED
    BY <1>1, <1>2, <1>6, <1>7, <2>1, <2>2, LateMoves
<1>8. CASE RecRaise(r)
  BY <1>1, <1>8, RaiseMoves
<1> QED
  BY <1>3, <1>7, <1>8

LEMMA FailHolderStep ==
    ASSUME IInv, NEW r \in Recoverers, FailHolder(r)
    PROVE  IInv'
<1> DEFINE o   == rec[r].item[2].op
           row == [rec[r] EXCEPT !.pc = "leases", !.item = None]
<1>1. /\ rec[r].pc = "fail" /\ Terminalise(r, o, "failed", None, row)
      /\ UNCHANGED <<fileVars, clock, pub, dirty>>
  BY DEF FailHolder, RecAt
<1>2. rec[r].pc \in Late /\ "leases" \in Late
  BY <1>1 DEF Late, RecoverySteps, Resting
<1>3. o \in Ops
  BY <1>1, <1>2, LateIs DEF PageTyped, LeaseItem, Hold
<1>4. /\ row \in RecovererState /\ row.pc = "leases" /\ row.todo = rec[r].todo
      /\ row.ptr = rec[r].ptr /\ row.sel = rec[r].sel
  BY <1>2, LateIs DEF RecovererState, RecoverySteps
<1> HIDE DEF row
<1>5. PageTyped(row)
  BY <1>1, <1>2, <1>4, LateIs DEF PageTyped
<1> QED
  BY <1>1, <1>2, <1>3, <1>4, <1>5, TerminaliseMoves

LEMMA ListJobsStep ==
    ASSUME IInv, NEW r \in Recoverers, ListJobs(r)
    PROVE  IInv'
<1> DEFINE page == {<<o, jobs[o].worker, jobs[o].heartbeat>> : o \in {p \in Ops : IsActive(p)}}
           row  == [rec[r] EXCEPT !.pc = "jobs", !.todo = page]
<1>1. /\ rec[r].pc = "leases" /\ rec' = [rec EXCEPT ![r] = row]
      /\ UNCHANGED <<sidecarVars, fileVars, clock, pub, dirty>>
  BY DEF ListJobs, RecAt
<1>2. rec[r].pc \in Late /\ "jobs" \in Late
  BY <1>1 DEF Late, RecoverySteps, Resting
<1>3. page \subseteq JobItem
  <2>1. \A o \in Ops : IsActive(o) =>
            jobs[o].worker \in Workers \cup {None} /\ jobs[o].heartbeat \in Nat \cup {None}
    BY DEF IInv, Typed, StoreTyped, StoreTypeOK, Job, IsActive
  <2> QED
    BY <2>1 DEF JobItem
<1> HIDE DEF page
<1>4. /\ row \in RecovererState /\ row.pc = "jobs" /\ row.todo = page
      /\ row.ptr = rec[r].ptr /\ row.sel = rec[r].sel
  BY <1>2, <1>3, LateIs DEF RecovererState, RecoverySteps
<1> HIDE DEF row
<1>5. PageTyped(row)
  BY <1>2, <1>3, <1>4, LateIs DEF PageTyped
<1> QED
  BY <1>1, <1>2, <1>4, <1>5, LateQuiet

LEMMA RecoverJobStep ==
    ASSUME IInv, NEW r \in Recoverers, RecoverJob(r)
    PROVE  IInv'
<1>1. rec[r].pc = "jobs" /\ UNCHANGED <<fileVars, clock, pub, dirty>>
  BY DEF RecoverJob, RecAt
<1>2. rec[r].pc \in Late
  BY <1>1 DEF Late, RecoverySteps, Resting
<1> DEFINE rest(item) == [rec[r] EXCEPT !.todo = @ \ {item}]
<1>3. PICK item \in rec[r].todo :
        \/ Terminalise(r, item[1], "failed", None, rest(item))
        \/ rec' = [rec EXCEPT ![r] = rest(item)] /\ UNCHANGED sidecarVars
  BY DEF RecoverJob
<1>4. item[1] \in Ops
  BY <1>1, <1>2, LateIs DEF PageTyped, JobItem
<1>5. /\ rest(item) \in RecovererState /\ PageTyped(rest(item)) /\ rest(item).pc \in Late
      /\ rest(item).ptr = rec[r].ptr /\ rest(item).sel = rec[r].sel
  BY <1>2, RestOfPage
<1> HIDE DEF rest
<1> QED
  BY <1>1, <1>2, <1>3, <1>4, <1>5, TerminaliseMoves, LateQuiet

\* A recovery that is over, by its end, an exception seen or a crash.
LEMMA EndsStep ==
    ASSUME IInv, NEW r \in Recoverers, EndRecovery(r) \/ StartOver(r) \/ CrashRecovery(r)
    PROVE  IInv'
<1> DEFINE gone == [IdleRecoverer EXCEPT !.crashes = rec[r].crashes + 1]
<1>1. /\ rec[r].pc # "idle" /\ UNCHANGED <<sidecarVars, fileVars, clock, pub>>
      /\ dirty' \in BOOLEAN
      /\ \/ rec' = [rec EXCEPT ![r] = Rest(r, "idle")]
         \/ rec[r].crashes < MaxCrashes /\ rec' = [rec EXCEPT ![r] = gone]
  BY DEF EndRecovery, StartOver, CrashRecovery, RecAt, IInv, Typed, ProcessesTyped
<1>2. "idle" \in Resting
  BY DEF Resting
<1>3. CASE rec' = [rec EXCEPT ![r] = Rest(r, "idle")]
  BY <1>1, <1>2, <1>3, RestIs, RestMoves
<1>4. CASE rec[r].crashes < MaxCrashes /\ rec' = [rec EXCEPT ![r] = gone]
  <2>1. rec[r].crashes \in 0 .. MaxCrashes
    BY DEF IInv, Typed, ProcessesTyped, RecovererState
  <2>2. gone \in RecovererState /\ gone.pc = "idle"
    BY <1>4, <2>1, BoundAssumption DEF IdleRecoverer, RecovererState, RecoverySteps
  <2> HIDE DEF gone
  <2> QED
    BY <1>1, <1>2, <1>4, <2>2, RestMoves
<1> QED
  BY <1>1, <1>3, <1>4

-----------------------------------------------------------------------------
(* The environment, and every step. *)

\* A publisher at work is alive: it is done before its lease expires.
LEMMA TickStep ==
    ASSUME IInv, Serial, Tick
    PROVE  IInv'
<1>1. /\ clock' = clock + 1 /\ InTime
      /\ UNCHANGED <<sidecarVars, fileVars, pub, rec, dirty>>
  BY DEF Tick, Serial
<1>2. ASSUME NEW o \in Ops PROVE Holds(o)'
  <2> SUFFICES ASSUME Busy(o) PROVE Holds(o)'
    BY <1>1 DEF Holds, Busy
  <2> DEFINE lease == leases["analytical_writer"]
  <2>1. lease # None /\ lease.worker = WorkerOf(o) /\ Holds(o)
    BY DEF IInv, Holds
  <2>2. WorkerOf(o) \in Alive
    BY DEF Alive, Busy, Idle
  <2>3. lease.expires > clock + 1
    BY <1>1, <2>1, <2>2 DEF InTime, LeaseNames
  <2> QED
    BY <1>1, <2>1, <2>3 DEF Holds, Busy, WorkerOf, sidecarVars, HoldOf
<1>3. Typed'
  BY <1>1, FilesFrame
  DEF IInv, Typed, ProcessesTyped, StoreTyped, StoreTypeOK, LeasedJobsExist, sidecarVars, fileVars
<1>4. HeadsAreOwn' /\ PointerServes' /\ RowsFollow' /\ Apart'
  BY <1>1, FilesFrame, RowsFrame DEF IInv, sidecarVars, fileVars, Apart, RecAt
<1>5. \A o \in Ops : PlanIsOld(o)' /\ Works(o)'
  BY <1>1, PublisherFrame DEF IInv, fileVars
<1>6. IntentsStay
  BY <1>1 DEF IntentsStay, sidecarVars
<1>7. \A r \in Recoverers : RecoveryTyped(r)' /\ RecoveryWorks(r)'
  BY <1>1, <1>6, RecoveryFrame DEF IInv, fileVars
<1> QED
  BY <1>2, <1>3, <1>4, <1>5, <1>7 DEF IInv

LEMMA DamageStep ==
    ASSUME IInv, NEW a \in Artifacts, Damage(a)
    PROVE  IInv'
<1>1. /\ Cardinality(damaged) < MaxDamage /\ a \notin damaged /\ damaged' = damaged \cup {a}
      /\ UNCHANGED <<sidecarVars, ptr, head, parent, clock, pub, rec, dirty>>
  BY DEF Damage
<1>2. FilesTyped'
  <2>1. IsFiniteSet(damaged) /\ Cardinality(damaged) \in Nat
    BY FS_CardinalityType DEF IInv, Typed, FilesTyped
  <2>2. IsFiniteSet(damaged') /\ Cardinality(damaged') = Cardinality(damaged) + 1
    BY <1>1, <2>1, FS_AddElement
  <2>3. Cardinality(damaged') <= MaxDamage
    BY <1>1, <2>1, <2>2, BoundAssumption
  <2> QED
    BY <1>1, <2>2, <2>3 DEF IInv, Typed, FilesTyped
<1>3. Typed'
  BY <1>1, <1>2
  DEF IInv, Typed, ProcessesTyped, StoreTyped, StoreTypeOK, LeasedJobsExist, sidecarVars
<1>4. HeadsAreOwn' /\ PointerServes' /\ RowsFollow' /\ Apart'
  BY <1>1, RowsFrame DEF IInv, sidecarVars, HeadsAreOwn, PointerServes, Apart, RecAt
<1>5. \A o \in Ops : Holds(o)' /\ PlanIsOld(o)' /\ Works(o)'
  BY <1>1, PublisherFrame, HoldsFrame DEF IInv, sidecarVars
<1>6. IntentsStay
  BY <1>1 DEF IntentsStay, sidecarVars
<1>7. \A r \in Recoverers : RecoveryTyped(r)' /\ RecoveryWorks(r)'
  BY <1>1, <1>6, RecoveryFrame DEF IInv
<1> QED
  BY <1>3, <1>4, <1>5, <1>7 DEF IInv

LEMMA StutteringStep ==
    ASSUME IInv, UNCHANGED vars
    PROVE  IInv'
<1>1. UNCHANGED <<sidecarVars, fileVars, clock, pub, rec, dirty>>
  BY DEF vars
<1>2. Typed'
  BY <1>1, FilesFrame
  DEF IInv, Typed, ProcessesTyped, StoreTyped, StoreTypeOK, LeasedJobsExist, sidecarVars, fileVars
<1>3. HeadsAreOwn' /\ PointerServes' /\ RowsFollow' /\ Apart'
  BY <1>1, FilesFrame, RowsFrame DEF IInv, sidecarVars, fileVars, Apart, RecAt
<1>4. \A o \in Ops : Holds(o)' /\ PlanIsOld(o)' /\ Works(o)'
  BY <1>1, PublisherFrame, HoldsFrame DEF IInv, fileVars, sidecarVars
<1>5. IntentsStay
  BY <1>1 DEF IntentsStay, sidecarVars
<1>6. \A r \in Recoverers : RecoveryTyped(r)' /\ RecoveryWorks(r)'
  BY <1>1, <1>5, RecoveryFrame DEF IInv, fileVars
<1> QED
  BY <1>2, <1>3, <1>4, <1>6 DEF IInv

\* What every action does to the pointer.
OneGeneration == ptr' # ptr => ptr'.gen = (IF ptr = None THEN 0 ELSE ptr.gen) + 1

LEMMA PublisherStep ==
    ASSUME IInv, Serial, NEW o \in Ops, Publisher(o)
    PROVE  IInv' /\ OneGeneration
<1>1. CASE Begin(o)
  BY <1>1, BeginStep DEF Begin, fileVars, OneGeneration
<1>2. CASE ReadPointerSmall(o)
  BY <1>2, ReadPointerSmallStep DEF ReadPointerSmall, fileVars, OneGeneration
<1>3. CASE CommitAnalytical(o)
  BY <1>3, CommitAnalyticalStep DEF CommitAnalytical, OneGeneration
<1>4. CASE FenceSmall(o)
  BY <1>4, FenceSmallStep DEF FenceSmall, fileVars, OneGeneration
<1>5. CASE WritePointerSmall(o)
  BY <1>5, WritePointerSmallStep DEF OneGeneration
<1>6. CASE RecordSmall(o)
  BY <1>6, RecordSmallStep DEF RecordSmall, fileVars, OneGeneration
<1>7. CASE LockPromotion(o)
  BY <1>7, LockPromotionStep DEF LockPromotion, fileVars, OneGeneration
<1>8. CASE Preflight(o)
  BY <1>8, PreflightStep DEF Preflight, fileVars, OneGeneration
<1>9. CASE PrepareIntent(o)
  BY <1>9, PrepareIntentStep DEF PrepareIntent, fileVars, OneGeneration
<1>10. CASE SealRollback(o)
  BY <1>10, SealRollbackStep DEF SealRollback, fileVars, OneGeneration
<1>11. CASE FenceIsolated(o)
  BY <1>11, FenceIsolatedStep DEF FenceIsolated, fileVars, OneGeneration
<1>12. CASE WritePointerIsolated(o)
  BY <1>12, WritePointerIsolatedStep DEF OneGeneration
<1>13. CASE MarkWritten(o) \/ Verify(o) \/ MarkReconciled(o)
  BY <1>13, MarksStep DEF MarkWritten, Verify, MarkReconciled, MoveIntent, fileVars, OneGeneration
<1>14. CASE RecordIsolated(o)
  BY <1>14, RecordIsolatedStep DEF RecordIsolated, fileVars, OneGeneration
<1>15. CASE Complete(o)
  BY <1>15, CompleteStep DEF Complete, fileVars, OneGeneration
<1>16. CASE Unwind(o)
  BY <1>16, UnwindAction DEF Unwind, fileVars, OneGeneration
<1> QED
  BY <1>1, <1>2, <1>3, <1>4, <1>5, <1>6, <1>7, <1>8, <1>9, <1>10, <1>11, <1>12, <1>13, <1>14,
     <1>15, <1>16
  DEF Publisher, PublishSmall, Promote

LEMMA HostStep ==
    ASSUME IInv, Serial, NEW o \in Ops,
           Plan(o) \/ Prepare(o) \/ Beat(o) \/ Crash(o) \/ Retry(o)
    PROVE  IInv' /\ OneGeneration
<1>1. IInv'
  BY PlanStep, PrepareStep, BeatStep, CrashStep, RetryStep
<1>2. ptr' = ptr
  BY DEF Plan, Prepare, Beat, Crash, Retry, fileVars
<1> QED
  BY <1>1, <1>2 DEF OneGeneration

LEMMA RecovererStep ==
    ASSUME IInv, Serial, NEW r \in Recoverers, Recover(r) \/ CrashRecovery(r)
    PROVE  IInv' /\ OneGeneration
<1>1. CASE RepairPointer(r)
  BY <1>1, RepairPointerStep DEF OneGeneration
<1>2. CASE ReadPointer(r) \/ OpenSelected(r) \/ SnapshotStatus(r)
  BY <1>2, ReadPointerStep, OpenSelectedStep, SnapshotStep
  DEF ReadPointer, OpenSelected, SnapshotStatus, fileVars, OneGeneration
<1>3. CASE CompleteSelected(r) \/ RecordCompleted(r)
  BY <1>3, CompleteSelectedStep, RecordCompletedStep
  DEF CompleteSelected, RecordCompleted, fileVars, OneGeneration
<1>4. CASE ListIntents(r) \/ RecoverIntent(r) \/ ReconcileIntent(r) \/ UndoOperation(r)
  BY <1>4, ListIntentsStep, RecoverIntentStep, ReconcileIntentStep, UndoOperationStep
  DEF ListIntents, RecoverIntent, ReconcileIntent, UndoOperation, fileVars, OneGeneration
<1>5. CASE ListLeases(r) \/ RemoveLease(r) \/ FailHolder(r) \/ ListJobs(r) \/ RecoverJob(r)
  BY <1>5, ListLeasesStep, RemoveLeaseStep, FailHolderStep, ListJobsStep, RecoverJobStep
  DEF ListLeases, RemoveLease, FailHolder, ListJobs, RecoverJob, fileVars, OneGeneration
<1>6. CASE EndRecovery(r) \/ StartOver(r) \/ CrashRecovery(r)
  BY <1>6, EndsStep DEF EndRecovery, StartOver, CrashRecovery, fileVars, OneGeneration
<1> QED
  BY <1>1, <1>2, <1>3, <1>4, <1>5, <1>6 DEF Recover

LEMMA InvNext ==
    ASSUME IInv, Serial, [Next]_vars
    PROVE  IInv' /\ OneGeneration
<1>1. CASE \E o \in Ops : Publisher(o)
  BY <1>1, PublisherStep
<1>2. CASE \E o \in Ops : Plan(o) \/ Prepare(o) \/ Beat(o) \/ Crash(o) \/ Retry(o)
  BY <1>2, HostStep
<1>3. CASE \E r \in Recoverers : Recover(r) \/ CrashRecovery(r)
  BY <1>3, RecovererStep
<1>4. CASE Tick
  BY <1>4, TickStep DEF Tick, fileVars, OneGeneration
<1>5. CASE \E a \in Artifacts : Damage(a)
  BY <1>5, DamageStep DEF Damage, OneGeneration
<1>6. CASE UNCHANGED vars
  BY <1>6, StutteringStep DEF vars, fileVars, OneGeneration
<1> QED
  BY <1>1, <1>2, <1>3, <1>4, <1>5, <1>6 DEF Next

LEMMA InvariantHolds == Spec /\ Serial => []IInv
<1>1. IInv /\ Serial /\ [Next]_vars => IInv'
  BY InvNext
<1>2. CASE Serial
  BY <1>1, <1>2, InvInit, PTL DEF Spec
<1> QED
  BY <1>2

-----------------------------------------------------------------------------
(* The theorems. *)

\* Whatever publishers, crashes and recoveries do in turn, the artifact a pointer
\* names as its rollback stays at the digest it was sealed at: publish_small and
\* the repair write the active artifact only, and a promotion makes another one
\* active.
THEOREM RollbackStaysSealed == Spec /\ Serial => []RollbackSealed
<1>1. IInv => RollbackSealed
  BY DEF IInv, PointerServes, RollbackSealed
<1> QED
  BY <1>1, InvariantHolds, PTL

\* Without damaged files the active artifact of the pointer can always be read,
\* by a client and by the recovery, at every step of a publisher or of a
\* recovery that crashed there.
THEOREM ActiveStaysServed == Spec /\ Serial /\ MaxDamage = 0 => []ActiveServed
<1>1. IInv /\ MaxDamage = 0 => ActiveServed
  <2> SUFFICES ASSUME IInv, MaxDamage = 0, ptr # None PROVE ActiveReadable(ptr)
    BY DEF ActiveServed
  <2>1. ptr \in PointerDocument /\ Follows(ptr)
    BY DEF IInv, Typed, FilesTyped, Follows
  <2> QED
    BY <2>1, ActiveIsReadable
<1>2. CASE MaxDamage = 0
  BY <1>1, <1>2, InvariantHolds, PTL
<1> QED
  BY <1>2

\* With one damaged file at most, a pointer that has a rollback can be read:
\* its two artifacts are two files, and the rollback is as it was sealed.
THEOREM FallbackStaysServed == Spec /\ Serial /\ MaxDamage <= 1 => []FallbackServed
<1>1. IInv /\ MaxDamage <= 1 => FallbackServed
  <2> SUFFICES ASSUME IInv, MaxDamage <= 1, ptr # None, ptr.rollback # None
               PROVE  Readable(ptr)
    BY DEF FallbackServed
  <2> DEFINE a == ptr.active.name
             b == ptr.rollback.name
  <2>1. /\ ptr \in PointerDocument /\ PointerServes
        /\ IsFiniteSet(damaged) /\ Cardinality(damaged) <= MaxDamage
    BY DEF IInv, Typed, FilesTyped
  <2>2. a \notin damaged \/ b \notin damaged
    <3> SUFFICES ASSUME a \in damaged, b \in damaged PROVE FALSE
      OBVIOUS
    <3>1. a # b
      BY <2>1 DEF PointerServes
    <3> HIDE DEF a, b
    <3>2. Cardinality({a} \cup {b}) = 2
      <4>1. IsFiniteSet({a}) /\ Cardinality({a}) = 1 /\ b \notin {a}
        BY <3>1, FS_Singleton
      <4>2. Cardinality({a} \cup {b}) = Cardinality({a}) + 1
        BY <4>1, FS_AddElement
      <4> QED
        BY <4>1, <4>2
    <3>3. Cardinality({a} \cup {b}) <= Cardinality(damaged)
      BY <2>1, FS_Subset
    <3>4. Cardinality(damaged) \in Nat
      BY <2>1, FS_CardinalityType
    <3> QED
      BY <2>1, <3>2, <3>3, <3>4, BoundAssumption
  <2>3. CASE a \notin damaged
    BY <2>1, <2>3
    DEF PointerServes, Readable, ActiveReadable, ValidHead, DigestMatches, NeedsRepair
  <2>4. CASE b \notin damaged
    <3>1. head[b] # None
      BY <2>1, AbsentAssumption DEF PointerServes, PointerDocument, PointerArtifact
    <3> QED
      BY <2>1, <2>4, <3>1
      DEF PointerServes, Readable, RollbackReadable, ValidHead, DigestMatches
  <2> QED
    BY <2>2, <2>3, <2>4
<1>2. CASE MaxDamage <= 1
  BY <1>1, <1>2, InvariantHolds, PTL
<1> QED
  BY <1>2

\* The pair recorded for the pointer's generation is the pointer, whichever of
\* the publisher and the recoveries recorded it: a recovery records what it read
\* or repaired, and nobody replaced it since.
THEOREM PairsStayRecorded == Spec /\ Serial /\ MaxDamage = 0 => []RecordedPairIsPointer
<1>1. IInv /\ MaxDamage = 0 => RecordedPairIsPointer
  BY DEF IInv, RowsFollow, RecordedPairIsPointer
<1>2. CASE MaxDamage = 0
  BY <1>1, <1>2, InvariantHolds, PTL
<1> QED
  BY <1>2

\* Every pointer replaces the one before it in the next generation: a publisher
\* advances the pointer it read under the writer lease, and the second of two
\* recoveries that found the same head to repair writes what the first wrote.
THEOREM GenerationsFollow == Spec /\ Serial => EachGenerationOnce
<1>1. IInv /\ Serial /\ [Next]_vars =>
          [ptr' # ptr => ptr'.gen = (IF ptr = None THEN 0 ELSE ptr.gen) + 1]_vars
  BY InvNext DEF OneGeneration
<1>2. CASE Serial
  BY <1>1, <1>2, InvariantHolds, PTL DEF Spec, EachGenerationOnce
<1> QED
  BY <1>2

-----------------------------------------------------------------------------
(* Startup recovery is never refused what it asks for, as long as it is   *)
(* the only one: for any number of operations, crashes and retries.       *)

\* The host of these proofs.  Two recoveries trip over each other: the second one
\* to remove a stale lease finds it gone.
RecoversAlone == Serial /\ MaxDamage = 0 /\ \A q, r \in Recoverers : q = r

-----------------------------------------------------------------------------
(* The inductive invariant, beside the one of the artifact pointer. *)

\* No row a recovery may have to change is newer than a reading of the clock.
Stamped(now) ==
    /\ \A o \in Ops : jobs[o] # None => jobs[o].updated <= now
    /\ \A i \in Isolated : intents[i] # None => intents[i].updated <= now

\* Nobody's clock reading is ahead of the clock.
ReadingsPast ==
    /\ \A o \in Ops : pub[o].now <= clock
    /\ \A r \in Recoverers : rec[r].now <= clock

\* An intent, and the pair recorded for the pointer, are owned by the operation
\* whose publication they name: recovery records the same owner.
OwnIntents == \A i \in Isolated : intents[i] # None => intents[i].op = intents[i].pub

OwnRows == \A row \in pointerRows : ptr # None /\ row.gen = ptr.gen => row.owner = ptr.active.pub

\* What a recovery read, and has not dealt with, is still so.
PageHolds(q) ==
    /\ q.pc \in {"intents", "reconcile", "undo"} =>
           \A item \in q.todo : intents[item[1]].state = item[2]
    /\ q.pc = "reconcile" =>
           /\ intents[q.item[1]].state = q.item[2]
           /\ \A item \in q.todo : item[1] # q.item[1]
    /\ q.pc \in {"leases", "fail"} =>
           \A item \in q.todo : leases[item[1]] # None /\ HoldOf(leases[item[1]]) = item[2]

Unrefused(q) ==
    /\ q.pc \notin {"raised", "unreadable"}
    /\ q.pc \notin Resting \cup {"read"} => Stamped(q.now)
    /\ PageHolds(q)

AInv ==
    /\ Stamped(clock)
    /\ ReadingsPast
    /\ OwnIntents
    /\ OwnRows
    /\ \A r \in Recoverers : Unrefused(rec[r])

-----------------------------------------------------------------------------
(* What the operations of the sidecar stamp. *)

\* Rows of jobs and intents are new, or changed, with one stamp at most.
StampsWith(now) ==
    /\ \A o \in Ops : jobs'[o] # None =>
           \/ jobs[o] # None /\ jobs'[o].updated = jobs[o].updated
           \/ jobs'[o].updated = now
    /\ \A i \in Isolated : intents'[i] # None =>
           \/ intents[i] # None /\ intents'[i].updated = intents[i].updated
           \/ intents'[i].updated = now

IntentsKeepOwner ==
    \A i \in Isolated : intents'[i] # None =>
        \/ intents[i] # None /\ intents'[i].op = intents[i].op /\ intents'[i].pub = intents[i].pub
        \/ intents'[i].op = intents'[i].pub

LEMMA NothingStamped ==
    ASSUME UNCHANGED <<jobs, intents>>, NEW now
    PROVE  StampsWith(now) /\ IntentsKeepOwner
BY DEF StampsWith, IntentsKeepOwner

LEMMA StartJobStamps ==
    ASSUME StoreTyped, NEW o \in Ops, NEW now, StartJob(o, now)
    PROVE  StampsWith(now) /\ IntentsKeepOwner
BY DEF StartJob, StoreTyped, StoreTypeOK, StampsWith, IntentsKeepOwner

LEMMA HeartbeatStamps ==
    ASSUME StoreTyped, NEW o \in Ops, NEW w, NEW now, HeartbeatJob(o, w, now)
    PROVE  StampsWith(now) /\ IntentsKeepOwner
<1> DEFINE row == [jobs[o] EXCEPT !.heartbeat = now]
<1>1. row.updated = jobs[o].updated /\ jobs[o] # None
  BY JobKinds DEF HeartbeatJob, IsActive, Job
<1>2. jobs' = [jobs EXCEPT ![o] = row] /\ intents' = intents
  BY DEF HeartbeatJob
<1> HIDE DEF row
<1> QED
  BY <1>1, <1>2 DEF StoreTyped, StoreTypeOK, StampsWith, IntentsKeepOwner

LEMMA ForceTerminalStamps ==
    ASSUME StoreTyped, NEW o \in Ops, NEW s, NEW p, NEW now, ForceTerminal(o, s, p, now)
    PROVE  StampsWith(now) /\ IntentsKeepOwner
<1> DEFINE row == [jobs[o] EXCEPT !.state = s, !.worker = None, !.heartbeat = None,
                                  !.updated = now, !.terminal = p]
<1>1. CASE IsTerminal(o)
  BY <1>1, NothingStamped DEF ForceTerminal
<1>2. CASE ~IsTerminal(o)
  <2>1. row.updated = now
    BY <1>2, JobKinds DEF ForceTerminal, MayForceTerminal, Job
  <2>2. jobs' = [jobs EXCEPT ![o] = row] /\ intents' = intents
    BY <1>2 DEF ForceTerminal
  <2> HIDE DEF row
  <2> QED
    BY <2>1, <2>2 DEF StoreTyped, StoreTypeOK, StampsWith, IntentsKeepOwner
<1> QED
  BY <1>1, <1>2

LEMMA AcquireStamps ==
    ASSUME StoreTyped, NEW n \in LeaseNames, NEW o \in Ops, NEW w, NEW now \in Nat, NEW alive,
           AcquireLease(n, o, w, now, alive)
    PROVE  StampsWith(now) /\ IntentsKeepOwner /\ pointerRows' = pointerRows
<1>1. CASE RenewLease(n, o, w, now, alive)
  BY <1>1, NothingStamped DEF RenewLease
<1>2. CASE TakeLease(n, o, w, now, alive)
  <2>1. jobs' = Demoted(n, now) /\ UNCHANGED <<intents, pointerRows>>
    BY <1>2 DEF TakeLease
  <2>2. \A q \in Ops : jobs'[q] = jobs[q] \/ jobs'[q].updated = now
    BY <2>1, DemotedJobs
  <2> QED
    BY <2>1, <2>2 DEF StampsWith, IntentsKeepOwner
<1> QED
  BY <1>1, <1>2 DEF AcquireLease

LEMMA TransitionStamps ==
    ASSUME StoreTyped, NEW i \in Isolated, NEW e, NEW s, NEW now, TransitionIntent(i, e, s, now)
    PROVE  /\ StampsWith(now) /\ IntentsKeepOwner
           /\ intents'[i].state = s /\ \A j \in Isolated \ {i} : intents'[j] = intents[j]
<1> DEFINE row == [intents[i] EXCEPT !.state = s, !.updated = now]
<1>1. intents[i] \in Intent
  BY DEF TransitionIntent, MayMoveIntent, StoreTyped, StoreTypeOK
<1>2. row.updated = now /\ row.state = s /\ row.op = intents[i].op /\ row.pub = intents[i].pub
  BY <1>1 DEF Intent
<1>3. intents' = [intents EXCEPT ![i] = row] /\ jobs' = jobs /\ intents[i] # None
  BY DEF TransitionIntent, MayMoveIntent
<1> HIDE DEF row
<1> QED
  BY <1>2, <1>3 DEF StoreTyped, StoreTypeOK, StampsWith, IntentsKeepOwner

\* What was stamped by a reading of the past is stamped by one of the past.
LEMMA StampedNext ==
    ASSUME IInv, IInv', NEW now \in Nat, NEW then \in Nat, now <= then,
           StampsWith(now), Stamped(then)
    PROVE  /\ \A o \in Ops : jobs'[o] # None => jobs'[o].updated <= then
           /\ \A i \in Isolated : intents'[i] # None => intents'[i].updated <= then
BY DEF StampsWith, Stamped

\* Pairs are recorded for the pointer, or the pointer advances beyond them all.
LEMMA RowsOwned ==
    ASSUME IInv, MaxDamage = 0, OneGeneration, OwnRows,
           \/ pointerRows' = pointerRows
           \/ /\ ptr' = ptr /\ ptr # None
              /\ pointerRows' \subseteq pointerRows \cup {RowOf(ptr, ptr.active.pub)}
    PROVE  OwnRows'
<1>1. CASE ptr' = ptr
  BY <1>1 DEF OwnRows, RowOf
<1>2. CASE ptr' # ptr
  <2>1. pointerRows' = pointerRows /\ ptr'.gen = (IF ptr = None THEN 0 ELSE ptr.gen) + 1
    BY <1>2 DEF OneGeneration
  <2>2. ASSUME NEW row \in pointerRows PROVE row.gen # ptr'.gen
    <3>1. ptr # None /\ row.gen <= ptr.gen
      BY DEF IInv, RowsFollow
    <3>2. ptr.gen \in Nat /\ row.gen \in Nat
      BY <3>1 DEF IInv, Typed, FilesTyped, StoreTyped, StoreTypeOK, PointerDocument, PointerRow
    <3> QED
      BY <2>1, <3>1, <3>2
  <2> QED
    BY <2>1, <2>2 DEF OwnRows
<1> QED
  BY <1>1, <1>2

-----------------------------------------------------------------------------
(* The publishers and the host. *)

\* A publisher reads the clock when it begins, and forgets its reading when it stops.
LEMMA ReadingsOfPublishers ==
    ASSUME IInv, NEW o \in Ops,
           \/ Publisher(o)
           \/ Plan(o) \/ Prepare(o) \/ Beat(o) \/ Crash(o) \/ Retry(o)
    PROVE  \A p \in Ops : pub'[p].now \in {0, clock, pub[p].now}
<1>1. pub \in [Ops -> PublisherState]
  BY DEF IInv, Typed, ProcessesTyped
<1>2. CASE \E x : Goto(o, x)
  BY <1>1, <1>2 DEF Goto, PublisherState
<1>3. CASE pub' = Stopped(o)
  <2> DEFINE row == [IdlePublisher EXCEPT
                       !.pc      = "stopped",
                       !.attempt = pub[o].attempt,
                       !.expect  = IF o \in Isolated THEN pub[o].expect ELSE NoExpectation]
  <2>1. row.now = 0 /\ pub' = [pub EXCEPT ![o] = row]
    BY <1>3 DEF Stopped, IdlePublisher
  <2> HIDE DEF row
  <2> QED
    BY <1>1, <2>1
<1>4. CASE Begin(o)
  BY <1>1, <1>4 DEF Begin, PublisherState
<1>5. CASE ReadPointerSmall(o)
  BY <1>1, <1>2, <1>5 DEF ReadPointerSmall, PublisherState
<1>6. CASE LockPromotion(o)
  BY <1>1, <1>2, <1>6 DEF LockPromotion, Raise, PublisherState
<1>7. CASE Preflight(o) \/ SealRollback(o)
  BY <1>1, <1>7 DEF Preflight, SealRollback, PublisherState
<1>8. CASE Prepare(o)
  BY <1>1, <1>8 DEF Prepare, PublisherState
<1>9. CASE Retry(o)
  BY <1>1, <1>9 DEF Retry, PublisherState
<1>10. CASE Unwind(o)
  BY <1>1, <1>3, <1>10 DEF Unwind, PublisherState
<1>11. CASE Plan(o) \/ Beat(o) \/ Crash(o)
  BY <1>2, <1>3, <1>11 DEF Plan, Beat, Crash
<1>12. CASE \/ CommitAnalytical(o) \/ FenceSmall(o) \/ WritePointerSmall(o) \/ RecordSmall(o)
            \/ PrepareIntent(o) \/ FenceIsolated(o) \/ WritePointerIsolated(o)
            \/ MarkWritten(o) \/ Verify(o) \/ RecordIsolated(o) \/ MarkReconciled(o) \/ Complete(o)
  BY <1>2, <1>12
  DEF CommitAnalytical, FenceSmall, WritePointerSmall, RecordSmall, PrepareIntent,
      FenceIsolated, WritePointerIsolated, MarkWritten, Verify, RecordIsolated,
      MarkReconciled, Complete, MoveIntent, Raise
<1> QED
  BY <1>4, <1>5, <1>6, <1>7, <1>8, <1>9, <1>10, <1>11, <1>12
  DEF Publisher, PublishSmall, Promote

\* What it stamps, it stamps with a reading of the past.
StampsPast(o) == StampsWith(clock) \/ StampsWith(pub[o].now)

RowsGrow == \/ pointerRows' = pointerRows
            \/ /\ ptr' = ptr /\ ptr # None
               /\ pointerRows' \subseteq pointerRows \cup {RowOf(ptr, ptr.active.pub)}

LEMMA StampsOfPublishers ==
    ASSUME IInv, NEW o \in Ops, Publisher(o)
    PROVE  StampsPast(o) /\ IntentsKeepOwner /\ RowsGrow
<1>1. StoreTyped /\ clock \in Nat /\ pub[o].now \in Nat
  BY DEF IInv, Typed, ProcessesTyped, PublisherState
<1>2. CASE UNCHANGED sidecarVars
  BY <1>2, NothingStamped DEF sidecarVars, StampsPast, RowsGrow
<1>3. CASE Begin(o)
  <2>1. AcquireLease("analytical_writer", o, WorkerOf(o), clock, Alive)
    BY <1>3 DEF Begin
  <2> QED
    BY <1>1, <2>1, AcquireStamps DEF LeaseNames, StampsPast, RowsGrow
<1>4. CASE LockPromotion(o)
  <2>1. CASE AcquireLease("artifact_promotion", o, WorkerOf(o), pub[o].now, Alive)
    BY <1>1, <2>1, AcquireStamps DEF LeaseNames, StampsPast, RowsGrow
  <2> QED
    BY <1>2, <1>4, <2>1 DEF LockPromotion, Raise
<1>5. CASE RecordSmall(o)
  <2>1. CASE RecordPointerPair(RowOf(AdvancedPointer(o), o))
    <3>1. ptr # None /\ ptr = AdvancedPointer(o) /\ ptr' = ptr /\ ptr.active.pub = o
      <4>1. o \in Small /\ At(o, "written") /\ ptr' = ptr
        BY <1>5 DEF RecordSmall, fileVars
      <4>2. ptr # None /\ ptr = AdvancedPointer(o)
        BY <4>1 DEF IInv, Works, SmallWork, At
      <4> QED
        BY <4>1, <4>2 DEF AdvancedPointer
    <3> QED
      BY <2>1, <3>1, NothingStamped DEF RecordPointerPair, StampsPast, RowsGrow
  <2> QED
    BY <1>2, <1>5, <2>1 DEF RecordSmall, Raise
<1>6. CASE RecordIsolated(o)
  <2>1. CASE RecordPointerPair(RowOf(PromotedPointer(o), o))
    <3>1. ptr # None /\ ptr = PromotedPointer(o) /\ ptr' = ptr /\ ptr.active.pub = o
      <4>1. o \in Isolated /\ At(o, "verified") /\ ptr' = ptr
        BY <1>6 DEF RecordIsolated, fileVars
      <4>2. ptr # None /\ ptr = PromotedPointer(o)
        BY <4>1 DEF IInv, Works, IsolatedWork, At
      <4> QED
        BY <4>1, <4>2 DEF PromotedPointer
    <3> QED
      BY <2>1, <3>1, NothingStamped DEF RecordPointerPair, StampsPast, RowsGrow
  <2> QED
    BY <1>2, <1>6, <2>1 DEF RecordIsolated, Raise
<1>7. CASE PrepareIntent(o)
  <2>1. CASE CreateIntent(o, IntentOf(o))
    <3> DEFINE row == IntentOf(o)
    <3>1. row.updated = pub[o].now /\ row.op = row.pub
      BY DEF IntentOf
    <3>2. /\ intents' = [intents EXCEPT ![o] = row] /\ UNCHANGED <<jobs, pointerRows>>
      BY <2>1 DEF CreateIntent
    <3> HIDE DEF row
    <3> QED
      BY <1>1, <3>1, <3>2
      DEF StoreTyped, StoreTypeOK, StampsPast, StampsWith, IntentsKeepOwner, RowsGrow
  <2> QED
    BY <1>2, <1>7, <2>1 DEF PrepareIntent, Raise
<1>8. CASE MarkWritten(o) \/ Verify(o) \/ MarkReconciled(o)
  <2>1. o \in Isolated
    BY <1>8 DEF MarkWritten, Verify, MarkReconciled, MoveIntent
  <2>2. CASE \E e, s : TransitionIntent(o, e, s, pub[o].now)
    BY <1>1, <2>1, <2>2, TransitionStamps DEF TransitionIntent, StampsPast, RowsGrow
  <2> QED
    BY <1>2, <1>8, <2>2 DEF MarkWritten, Verify, MarkReconciled, MoveIntent, Raise
<1>9. CASE Complete(o)
  <2>1. CASE ForceTerminal(o, "completed", o, pub[o].now)
    <3>1. pointerRows' = pointerRows
      BY <2>1 DEF ForceTerminal
    <3>2. StampsWith(pub[o].now) /\ IntentsKeepOwner
      BY <1>1, <2>1, ForceTerminalStamps
    <3> QED
      BY <3>1, <3>2 DEF StampsPast, RowsGrow
  <2> QED
    BY <1>2, <1>9, <2>1 DEF Complete, Raise
<1>10. CASE Unwind(o)
  <2>1. CASE \E n, l : ReleaseLease(n, l)
    BY <2>1, NothingStamped DEF ReleaseLease, StampsPast, RowsGrow
  <2> QED
    BY <1>2, <1>10, <2>1 DEF Unwind
<1>11. CASE \/ ReadPointerSmall(o) \/ CommitAnalytical(o) \/ FenceSmall(o) \/ WritePointerSmall(o)
            \/ Preflight(o) \/ SealRollback(o) \/ FenceIsolated(o) \/ WritePointerIsolated(o)
  BY <1>2, <1>11
  DEF ReadPointerSmall, CommitAnalytical, FenceSmall, WritePointerSmall, Preflight,
      SealRollback, FenceIsolated, WritePointerIsolated
<1> QED
  BY <1>3, <1>4, <1>5, <1>6, <1>7, <1>8, <1>9, <1>10, <1>11 DEF Publisher, PublishSmall, Promote

LEMMA StampsOfHost ==
    ASSUME IInv, NEW o \in Ops, Plan(o) \/ Prepare(o) \/ Beat(o) \/ Crash(o) \/ Retry(o)
    PROVE  StampsPast(o) /\ IntentsKeepOwner /\ RowsGrow
<1>1. StoreTyped /\ clock \in Nat
  BY DEF IInv, Typed, ProcessesTyped
<1>2. CASE Crash(o) \/ Retry(o)
  BY <1>2, NothingStamped DEF Crash, Retry, sidecarVars, StampsPast, RowsGrow
<1>3. CASE Plan(o)
  BY <1>1, <1>3, StartJobStamps DEF Plan, StartJob, StampsPast, RowsGrow
<1>4. CASE Beat(o)
  BY <1>1, <1>4, HeartbeatStamps DEF Beat, HeartbeatJob, StampsPast, RowsGrow
<1>5. CASE Prepare(o)
  <2> DEFINE row == [jobs[o] EXCEPT !.state     = IF o \in Small THEN "writing" ELSE "promoting",
                                    !.worker    = WorkerOf(o),
                                    !.heartbeat = clock,
                                    !.updated   = clock,
                                    !.candidate = IF o \in Small THEN None ELSE o]
  <2>1. jobs[o] \in Job
    BY <1>1, <1>5, JobKinds DEF Prepare, IsActive
  <2>2. row.updated = clock
    BY <2>1 DEF Job
  <2>3. jobs' = [jobs EXCEPT ![o] = row] /\ UNCHANGED <<intents, pointerRows>>
    BY <1>5 DEF Prepare
  <2> HIDE DEF row
  <2> QED
    BY <1>1, <2>2, <2>3
    DEF StoreTyped, StoreTypeOK, StampsPast, StampsWith, IntentsKeepOwner, RowsGrow
<1> QED
  BY <1>2, <1>3, <1>4, <1>5

\* While a publisher or the host touches the sidecar, no recovery is under way.
LEMMA PublishersKeep ==
    ASSUME IInv, IInv', OneGeneration, RecoversAlone, AInv, NEW o \in Ops,
           \/ Publisher(o)
           \/ Plan(o) \/ Prepare(o) \/ Beat(o) \/ Crash(o) \/ Retry(o)
    PROVE  AInv'
<1>1. clock' = clock /\ rec' = rec /\ clock \in Nat /\ pub[o].now \in Nat /\ pub[o].now <= clock
  <2>1. clock' = clock /\ rec' = rec
    BY DEF Publisher, PublishSmall, Promote, Plan, Prepare, Beat, Crash, Retry, Begin,
           ReadPointerSmall, CommitAnalytical, FenceSmall, WritePointerSmall, RecordSmall,
           LockPromotion, Preflight, PrepareIntent, SealRollback, FenceIsolated,
           WritePointerIsolated, MarkWritten, Verify, RecordIsolated, MarkReconciled,
           MoveIntent, Complete, Unwind
  <2> QED
    BY <2>1 DEF IInv, Typed, ProcessesTyped, PublisherState, AInv, ReadingsPast
<1>2. StampsPast(o) /\ IntentsKeepOwner /\ RowsGrow
  BY StampsOfPublishers, StampsOfHost
<1>3. Stamped(clock)'
  BY <1>1, <1>2, StampedNext DEF AInv, Stamped, StampsPast
<1>4. ReadingsPast'
  <2>1. \A p \in Ops : pub'[p].now \in {0, clock, pub[p].now}
    BY ReadingsOfPublishers
  <2> QED
    BY <1>1, <2>1 DEF AInv, ReadingsPast
<1>5. OwnIntents' /\ OwnRows'
  BY <1>2, RowsOwned DEF AInv, OwnIntents, IntentsKeepOwner, RowsGrow, RecoversAlone
<1>6. ASSUME NEW r \in Recoverers PROVE Unrefused(rec[r])'
  <2>1. CASE RecAt(r, "idle")
    BY <1>1, <2>1 DEF Unrefused, PageHolds, RecAt, Resting
  <2>2. CASE UNCHANGED sidecarVars
    BY <1>1, <2>2 DEF AInv, Unrefused, Stamped, PageHolds, sidecarVars, HoldOf
  <2>3. CASE MayPublish
    BY <2>1, <2>3 DEF MayPublish, RecoversAlone, Serial
  <2>4. CASE pub[o].pc \notin Idle
    BY <2>1, <2>4, NobodyRecovers
  <2>5. CASE Publisher(o)
    BY <2>4, <2>5
    DEF Publisher, PublishSmall, Promote, Begin,
        ReadPointerSmall, CommitAnalytical, FenceSmall, WritePointerSmall, RecordSmall,
        LockPromotion, Preflight, PrepareIntent, SealRollback, FenceIsolated,
        WritePointerIsolated, MarkWritten, Verify, RecordIsolated, MarkReconciled,
        MoveIntent, Complete, Unwind, At, Idle, Outside
  <2> QED
    BY <2>2, <2>3, <2>4, <2>5 DEF Plan, Prepare, Beat, Crash, Retry, At, Idle, Outside
<1> QED
  BY <1>3, <1>4, <1>5, <1>6 DEF AInv

-----------------------------------------------------------------------------
(* The recovery. *)

LEMMA RecoveryIs ==
    ASSUME IInv, AInv, NEW r \in Recoverers
    PROVE  /\ rec[r] \in RecovererState /\ rec[r].now \in Nat /\ rec[r].now <= clock
           /\ clock \in Nat /\ StoreTyped /\ Unrefused(rec[r])
           /\ Stamped(clock) /\ (rec[r].pc \in Late => Stamped(rec[r].now))
BY DEF IInv, Typed, ProcessesTyped, RecovererState, AInv, ReadingsPast, Unrefused, Late

LEMMA RecoveryGoes ==
    ASSUME IInv, IInv', OneGeneration, RecoversAlone, AInv, NEW r \in Recoverers,
           NEW row \in RecovererState, rec' = [rec EXCEPT ![r] = row], UNCHANGED <<clock, pub>>,
           StampsWith(rec[r].now), IntentsKeepOwner, RowsGrow,
           row.now <= clock, Unrefused(row)'
    PROVE  AInv'
<1>1. \A q \in Recoverers : q = r /\ rec'[q] = row
  BY RecovererIs DEF RecoversAlone
<1>2. Stamped(clock)'
  BY RecoveryIs, StampedNext DEF Stamped
<1>3. ReadingsPast'
  BY <1>1 DEF AInv, ReadingsPast
<1>4. OwnIntents' /\ OwnRows'
  BY RowsOwned DEF AInv, OwnIntents, IntentsKeepOwner, RowsGrow, RecoversAlone
<1>5. \A q \in Recoverers : Unrefused(rec[q])'
  BY <1>1 DEF Unrefused, PageHolds
<1> QED
  BY <1>2, <1>3, <1>4, <1>5 DEF AInv

\* Past its selection, with the reading it selected at.
LEMMA RecoveryGoesOn ==
    ASSUME IInv, IInv', OneGeneration, RecoversAlone, AInv, NEW r \in Recoverers,
           rec[r].pc \in Late \cup {"selected"},
           NEW row \in RecovererState, rec' = [rec EXCEPT ![r] = row], UNCHANGED <<clock, pub>>,
           StampsWith(rec[r].now), IntentsKeepOwner, RowsGrow,
           row.pc \in Late, row.now = rec[r].now, PageHolds(row)'
    PROVE  AInv'
<1>1. Stamped(rec[r].now)
  BY RecoveryIs DEF Unrefused, Late, Resting
<1>2. /\ \A o \in Ops : jobs'[o] # None => jobs'[o].updated <= row.now
      /\ \A i \in Isolated : intents'[i] # None => intents'[i].updated <= row.now
  BY <1>1, RecoveryIs, StampedNext
<1>3. Unrefused(row)'
  BY <1>2 DEF Unrefused, Stamped, Late, Resting
<1> QED
  BY <1>3, RecoveryIs, RecoveryGoes

\* A job is ended in between.
LEMMA TerminaliseGoes ==
    ASSUME IInv, IInv', OneGeneration, RecoversAlone, AInv, NEW r \in Recoverers,
           rec[r].pc \in Late, NEW o \in Ops, NEW s, NEW p, NEW row \in RecovererState,
           Terminalise(r, o, s, p, row), row.pc \in Late, row.now = rec[r].now,
           PageHolds(row), UNCHANGED <<clock, pub>>
    PROVE  AInv'
<1>1. MayForceTerminal(o, rec[r].now) \/ ~IsActive(o)
  BY RecoveryIs, JobKinds DEF Stamped, MayForceTerminal, IsActive
<1>2. CASE ForceTerminal(o, s, p, rec[r].now) /\ rec' = [rec EXCEPT ![r] = row]
  <2>1. StampsWith(rec[r].now) /\ IntentsKeepOwner
    BY <1>2, RecoveryIs, ForceTerminalStamps
  <2>2. UNCHANGED <<intents, leases, pointerRows>>
    BY <1>2 DEF ForceTerminal
  <2>3. PageHolds(row)' /\ RowsGrow
    BY <2>2 DEF PageHolds, HoldOf, RowsGrow
  <2> QED
    BY <1>2, <2>1, <2>3, RecoveryGoesOn
<1>3. CASE rec' = [rec EXCEPT ![r] = row] /\ UNCHANGED sidecarVars
  <2>1. StampsWith(rec[r].now) /\ IntentsKeepOwner
    BY <1>3, NothingStamped DEF sidecarVars
  <2>2. PageHolds(row)' /\ RowsGrow
    BY <1>3 DEF PageHolds, HoldOf, RowsGrow, sidecarVars
  <2> QED
    BY <1>3, <2>1, <2>2, RecoveryGoesOn
<1> QED
  BY <1>1, <1>2, <1>3 DEF Terminalise

\* The sidecar is left alone.
LEMMA QuietGoes ==
    ASSUME IInv, IInv', OneGeneration, RecoversAlone, AInv, NEW r \in Recoverers,
           rec[r].pc \in Late \cup {"selected"},
           NEW row \in RecovererState, rec' = [rec EXCEPT ![r] = row],
           row.pc \in Late, row.now = rec[r].now, PageHolds(row),
           UNCHANGED <<sidecarVars, clock, pub>>
    PROVE  AInv'
<1>1. StampsWith(rec[r].now) /\ IntentsKeepOwner
  BY NothingStamped DEF sidecarVars
<1>2. PageHolds(row)' /\ RowsGrow
  BY DEF PageHolds, HoldOf, RowsGrow, sidecarVars
<1> QED
  BY <1>1, <1>2, RecoveryGoesOn

\* The pair of the pointer is recorded, by the owner it always has.
LEMMA RecordSelectedGoes ==
    ASSUME IInv, IInv', OneGeneration, RecoversAlone, AInv, NEW r \in Recoverers,
           rec[r].pc \in Late, rec[r].sel.head \in Ops,
           NEW row \in RecovererState, RecordSelected(r, rec[r].sel.head, row),
           row.pc \in Late, row.now = rec[r].now, PageHolds(row),
           UNCHANGED <<fileVars, clock, pub>>
    PROVE  AInv'
<1>1. /\ ptr # None /\ ptr' = ptr
      /\ rec[r].sel.head = ptr.active.pub
      /\ SelectedRow(r, rec[r].sel.head) = RowOf(ptr, ptr.active.pub)
  <2>1. ptr # None /\ SelectedRow(r, rec[r].sel.head) = RowOf(ptr, rec[r].sel.head)
    BY SelectedRowIs DEF RecoversAlone
  <2>2. /\ rec[r].sel.role = "active" /\ ~NeedsRepair(rec[r].ptr.active)
        /\ rec[r].sel.head = head[rec[r].ptr.active.name] /\ Follows(rec[r].ptr)
    BY DEF IInv, RecoveryWorks, RecoversAlone, Late
  <2>3. rec[r].sel.head = ptr.active.pub
    BY <2>2 DEF NeedsRepair, Follows
  <2> QED
    BY <2>1, <2>3 DEF fileVars
<1>2. MayRecord(SelectedRow(r, rec[r].sel.head))
  <2>1. \A other \in pointerRows : other.gen = ptr.gen => other = RowOf(ptr, ptr.active.pub)
    BY <1>1 DEF AInv, OwnRows, IInv, RowsFollow, RecoversAlone
  <2> QED
    BY <1>1, <2>1 DEF MayRecord, RowOf
<1>3. /\ rec' = [rec EXCEPT ![r] = row] /\ UNCHANGED <<jobs, leases, intents>>
      /\ pointerRows' = pointerRows \cup {RowOf(ptr, ptr.active.pub)}
  BY <1>1, <1>2 DEF RecordSelected, RecordPointerPair
<1>4. StampsWith(rec[r].now) /\ IntentsKeepOwner /\ RowsGrow
  BY <1>1, <1>3, NothingStamped DEF RowsGrow
<1>5. PageHolds(row)'
  BY <1>3 DEF PageHolds, HoldOf
<1> QED
  BY <1>3, <1>4, <1>5, RecoveryGoesOn

LEMMA RowIs ==
    ASSUME IInv, IInv', NEW r \in Recoverers, NEW row, rec' = [rec EXCEPT ![r] = row]
    PROVE  row \in RecovererState
BY DEF IInv, Typed, ProcessesTyped

\* It reads the pointer, and opens on what it names: without damage that is there.
LEMMA OpeningGoes ==
    ASSUME IInv, IInv', OneGeneration, RecoversAlone, AInv, NEW r \in Recoverers,
           ReadPointer(r) \/ OpenSelected(r)
    PROVE  AInv'
<1>1. /\ UNCHANGED <<sidecarVars, clock, pub>> /\ RowsGrow
      /\ StampsWith(rec[r].now) /\ IntentsKeepOwner
  BY NothingStamped DEF ReadPointer, OpenSelected, sidecarVars, RowsGrow
<1>2. rec[r] \in RecovererState /\ rec[r].now <= clock
  BY RecoveryIs
<1>3. CASE ReadPointer(r)
  <2>1. PICK row : row = [rec[r] EXCEPT !.pc = "read", !.ptr = ptr]
    OBVIOUS
  <2>2. rec' = [rec EXCEPT ![r] = row]
    BY <1>3, <2>1 DEF ReadPointer
  <2>3. row.pc = "read" /\ row.now = rec[r].now
    BY <1>2, <2>1 DEF RecovererState
  <2>4. Unrefused(row)'
    BY <2>3 DEF Unrefused, PageHolds
  <2> QED
    BY <1>1, <1>2, <2>2, <2>3, <2>4, RowIs, RecoveryGoes
<1>4. CASE OpenSelected(r)
  <2>1. /\ rec[r].ptr \in PointerDocument /\ ptr # None /\ Follows(rec[r].ptr)
        /\ rec[r].pc = "read"
    BY <1>4 DEF OpenSelected, RecAt, IInv, RecoveryTyped, PageTyped, RecoveryWorks, Resting
  <2>2. Readable(rec[r].ptr)
    BY <2>1, ActiveIsReadable DEF Readable, RecoversAlone
  <2>3. PICK row : row = [rec[r] EXCEPT !.pc = "selected", !.sel = Selection(rec[r].ptr),
                                        !.now = clock]
    OBVIOUS
  <2>4. rec' = [rec EXCEPT ![r] = row]
    BY <1>4, <2>2, <2>3 DEF OpenSelected
  <2>5. row.pc = "selected" /\ row.now = clock
    BY <1>2, <2>3 DEF RecovererState
  <2>6. Unrefused(row)'
    BY <1>1, <2>5, RecoveryIs DEF Unrefused, PageHolds, Stamped, sidecarVars
  <2>7. row \in RecovererState
    BY <2>4, RowIs
  <2>8. row.now <= clock
    <3>1. clock \in Nat
      BY DEF IInv, Typed, ProcessesTyped
    <3> QED
      BY <2>5, <3>1
  <2> QED
    BY <1>1, <2>4, <2>6, <2>7, <2>8, RecoveryGoes
<1> QED
  BY <1>3, <1>4

LEMMA PagesGo ==
    ASSUME IInv, IInv', OneGeneration, RecoversAlone, AInv, NEW r \in Recoverers,
           \/ RepairPointer(r) \/ SnapshotStatus(r)
           \/ ListIntents(r) \/ ListLeases(r) \/ ListJobs(r)
    PROVE  AInv'
<1>1. /\ UNCHANGED <<sidecarVars, clock, pub>>
      /\ rec[r].pc \in {"selected", "repaired", "list_intents", "intents", "leases"}
  BY DEF RepairPointer, SnapshotStatus, ListIntents, ListLeases, ListJobs, RecAt
<1>2. rec[r].pc \in Late \cup {"selected"} /\ rec[r] \in RecovererState
  BY <1>1, RecoveryIs DEF Late, RecoverySteps, Resting
<1>3. {"repaired", "status", "intents", "leases", "jobs"} \subseteq Late
  BY DEF Late, RecoverySteps, Resting
<1>4. CASE RepairPointer(r) \/ SnapshotStatus(r) \/ ListJobs(r)
  <2>1. ASSUME NEW row, NEW pc \in {"repaired", "status", "jobs"},
               rec' = [rec EXCEPT ![r] = row], row.pc = pc, row.now = rec[r].now
        PROVE  AInv'
    <3>1. PageHolds(row)
      BY <2>1 DEF PageHolds
    <3> QED
      BY <1>1, <1>2, <1>3, <2>1, <3>1, RowIs, QuietGoes
  <2>2. CASE RepairPointer(r)
    <3>1. PICK doc : rec' = [rec EXCEPT ![r].pc = "repaired", ![r].ptr = doc]
      BY <2>2 DEF RepairPointer
    <3>2. PICK row : row = [rec[r] EXCEPT !.pc = "repaired", !.ptr = doc]
      OBVIOUS
    <3>3. rec' = [rec EXCEPT ![r] = row]
      BY <3>1, <3>2
    <3>4. row.pc = "repaired" /\ row.now = rec[r].now
      BY <1>2, <3>2 DEF RecovererState
    <3> QED
      BY <2>1, <3>3, <3>4
  <2>3. CASE SnapshotStatus(r)
    <3>1. PICK live : rec' = [rec EXCEPT ![r].pc = "status", ![r].live = live]
      BY <2>3 DEF SnapshotStatus
    <3>2. PICK row : row = [rec[r] EXCEPT !.pc = "status", !.live = live]
      OBVIOUS
    <3>3. rec' = [rec EXCEPT ![r] = row]
      BY <3>1, <3>2
    <3>4. row.pc = "status" /\ row.now = rec[r].now
      BY <1>2, <3>2 DEF RecovererState
    <3> QED
      BY <2>1, <3>3, <3>4
  <2>4. CASE ListJobs(r)
    <3>1. PICK page : rec' = [rec EXCEPT ![r].pc = "jobs", ![r].todo = page]
      BY <2>4 DEF ListJobs
    <3>2. PICK row : row = [rec[r] EXCEPT !.pc = "jobs", !.todo = page]
      OBVIOUS
    <3>3. rec' = [rec EXCEPT ![r] = row]
      BY <3>1, <3>2
    <3>4. row.pc = "jobs" /\ row.now = rec[r].now
      BY <1>2, <3>2 DEF RecovererState
    <3> QED
      BY <2>1, <3>3, <3>4
  <2> QED
    BY <1>4, <2>2, <2>3, <2>4
<1>5. CASE ListIntents(r)
  <2>1. PICK row : row = [rec[r] EXCEPT !.pc = "intents", !.todo = PendingIntents]
    OBVIOUS
  <2>2. rec' = [rec EXCEPT ![r] = row]
    BY <1>5, <2>1 DEF ListIntents
  <2>3. row.pc = "intents" /\ row.todo = PendingIntents /\ row.now = rec[r].now
    BY <1>2, <2>1 DEF RecovererState
  <2>4. PageHolds(row)
    BY <2>3 DEF PageHolds, PendingIntents
  <2> QED
    BY <1>1, <1>2, <1>3, <2>2, <2>3, <2>4, RowIs, QuietGoes
<1>6. CASE ListLeases(r)
  <2> DEFINE stale == {n \in LeaseNames :
                          leases[n] # None /\ Stale(leases[n], rec[r].now, Alive)}
  <2>1. PICK page : page = {<<n, HoldOf(leases[n])>> : n \in stale}
    OBVIOUS
  <2>6. rec' = [rec EXCEPT ![r].pc = "leases", ![r].todo = page]
    BY <1>6, <2>1 DEF ListLeases
  <2>7. \A item \in page : leases[item[1]] # None /\ HoldOf(leases[item[1]]) = item[2]
    BY <2>1
  <2> HIDE DEF stale
  <2>2. PICK row : row = [rec[r] EXCEPT !.pc = "leases", !.todo = page]
    OBVIOUS
  <2>3. rec' = [rec EXCEPT ![r] = row]
    BY <2>2, <2>6
  <2>4. row.pc = "leases" /\ row.todo = page /\ row.now = rec[r].now
    BY <1>2, <2>2 DEF RecovererState
  <2>5. PageHolds(row)
    BY <2>4, <2>7 DEF PageHolds
  <2> QED
    BY <1>1, <1>2, <1>3, <2>3, <2>4, <2>5, RowIs, QuietGoes
<1> QED
  BY <1>4, <1>5, <1>6

\* It ends the jobs of the selected operation, of intents undone, of stale holders
\* and of dead workers, or passes them over.
LEMMA VerdictsGo ==
    ASSUME IInv, IInv', OneGeneration, RecoversAlone, AInv, NEW r \in Recoverers,
           \/ CompleteSelected(r) \/ RecordCompleted(r)
           \/ UndoOperation(r) \/ FailHolder(r) \/ RecoverJob(r)
    PROVE  AInv'
<1>1. /\ UNCHANGED <<fileVars, clock, pub>>
      /\ rec[r].pc \in {"status", "completed", "undo", "fail", "jobs"}
  BY DEF CompleteSelected, RecordCompleted, UndoOperation, FailHolder, RecoverJob, RecAt
<1>2. rec[r].pc \in Late /\ rec[r] \in RecovererState /\ PageHolds(rec[r])
  BY <1>1, RecoveryIs DEF Late, RecoverySteps, Resting, Unrefused
<1>3. {"completed", "list_intents", "intents", "leases", "jobs"} \subseteq Late
  BY DEF Late, RecoverySteps, Resting
<1>4. ASSUME NEW pc \in {"completed", "list_intents"}
      PROVE  LET row == [rec[r] EXCEPT !.pc = pc]
             IN  /\ row \in RecovererState /\ row.pc \in Late /\ row.now = rec[r].now
                 /\ PageHolds(row)
  <2> DEFINE row == [rec[r] EXCEPT !.pc = pc]
  <2>1. row \in RecovererState /\ row.pc = pc /\ row.now = rec[r].now
    BY <1>2, <1>3 DEF RecovererState, Late
  <2> HIDE DEF row
  <2>2. PageHolds(row)
    BY <2>1 DEF PageHolds
  <2> QED
    BY <1>3, <2>1, <2>2 DEF row
<1>5. CASE CompleteSelected(r)
  <2>1. CASE rec[r].sel.head \in Ops /\ IsActive(rec[r].sel.head)
    <3>1. Terminalise(r, rec[r].sel.head, "completed", rec[r].sel.head,
                      [rec[r] EXCEPT !.pc = "completed"])
      BY <1>5, <2>1 DEF CompleteSelected
    <3> QED
      BY <1>1, <1>2, <1>4, <2>1, <3>1, TerminaliseGoes
  <2>2. CASE ~(rec[r].sel.head \in Ops /\ IsActive(rec[r].sel.head))
    <3>1. rec' = [rec EXCEPT ![r] = [rec[r] EXCEPT !.pc = "list_intents"]] /\ UNCHANGED sidecarVars
      BY <1>5, <2>2 DEF CompleteSelected, RecGoto
    <3> QED
      BY <1>1, <1>2, <1>4, <3>1, QuietGoes
  <2> QED
    BY <2>1, <2>2
<1>6. CASE RecordCompleted(r)
  <2>1. RecordSelected(r, rec[r].sel.head, [rec[r] EXCEPT !.pc = "list_intents"])
    BY <1>6 DEF RecordCompleted
  <2>2. rec[r].sel.head \in Ops
    BY <1>6 DEF RecordCompleted, RecAt, IInv, RecoveryTyped, PageTyped
  <2> QED
    BY <1>1, <1>2, <1>4, <2>1, <2>2, RecordSelectedGoes
<1>7. CASE UndoOperation(r)
  <2>1. PICK row : row = [rec[r] EXCEPT !.pc = "intents", !.item = None]
    OBVIOUS
  <2>2. PICK o : o = intents[rec[r].item[1]].op
    OBVIOUS
  <2>3. Terminalise(r, o, "rolled_back", None, row) /\ rec[r].pc = "undo"
    BY <1>7, <2>1, <2>2 DEF UndoOperation, RecAt
  <2>4. o \in Ops
    <3>1. rec[r].item[1] \in Isolated /\ intents[rec[r].item[1]] # None
      BY <1>2, <2>3, LateIs DEF PageTyped, IntentItem
    <3> QED
      BY <2>2, <3>1 DEF IInv, Typed, StoreTyped, StoreTypeOK, Intent
  <2>5. /\ row \in RecovererState /\ row.pc = "intents" /\ row.now = rec[r].now
        /\ row.todo = rec[r].todo
    BY <1>2, <2>1 DEF RecovererState, RecoverySteps
  <2>6. PageHolds(row)
    BY <1>2, <2>3, <2>5 DEF PageHolds
  <2> QED
    BY <1>1, <1>2, <1>3, <2>3, <2>4, <2>5, <2>6, TerminaliseGoes
<1>8. CASE FailHolder(r)
  <2>1. PICK row : row = [rec[r] EXCEPT !.pc = "leases", !.item = None]
    OBVIOUS
  <2>2. PICK o : o = rec[r].item[2].op
    OBVIOUS
  <2>3. Terminalise(r, o, "failed", None, row) /\ rec[r].pc = "fail"
    BY <1>8, <2>1, <2>2 DEF FailHolder, RecAt
  <2>4. o \in Ops
    BY <1>2, <2>2, <2>3, LateIs DEF PageTyped, LeaseItem, Hold
  <2>5. /\ row \in RecovererState /\ row.pc = "leases" /\ row.now = rec[r].now
        /\ row.todo = rec[r].todo
    BY <1>2, <2>1 DEF RecovererState, RecoverySteps
  <2>6. PageHolds(row)
    BY <1>2, <2>3, <2>5 DEF PageHolds
  <2> QED
    BY <1>1, <1>2, <1>3, <2>3, <2>4, <2>5, <2>6, TerminaliseGoes
<1>9. CASE RecoverJob(r)
  <2>1. PICK item \in rec[r].todo :
            \/ Terminalise(r, item[1], "failed", None, [rec[r] EXCEPT !.todo = @ \ {item}])
            \/ /\ rec' = [rec EXCEPT ![r] = [rec[r] EXCEPT !.todo = @ \ {item}]]
               /\ UNCHANGED sidecarVars
    BY <1>9 DEF RecoverJob
  <2>2. item[1] \in Ops /\ rec[r].pc = "jobs"
    BY <1>2, <1>9, <2>1, LateIs DEF RecoverJob, RecAt, PageTyped, JobItem
  <2>3. PICK row : row = [rec[r] EXCEPT !.todo = @ \ {item}]
    OBVIOUS
  <2>4. row \in RecovererState /\ row.pc = "jobs" /\ row.now = rec[r].now
    BY <1>2, <2>2, <2>3 DEF RecovererState
  <2>5. PageHolds(row)
    BY <2>4 DEF PageHolds
  <2> QED
    BY <1>1, <1>2, <1>3, <2>1, <2>2, <2>3, <2>4, <2>5, TerminaliseGoes, QuietGoes
<1> QED
  BY <1>5, <1>6, <1>7, <1>8, <1>9

\* A pending intent of the page is as it was read.
LEMMA ItemIs ==
    ASSUME IInv, AInv, NEW r \in Recoverers, rec[r].pc = "intents", NEW item \in rec[r].todo
    PROVE  /\ item \in IntentItem /\ item[1] \in Isolated /\ intents[item[1]] \in Intent
           /\ intents[item[1]] # None /\ intents[item[1]].op \in Ops
           /\ intents[item[1]].op = intents[item[1]].pub
           /\ MayMoveIntent(item[1], item[2], rec[r].now)
           /\ \A x \in rec[r].todo \ {item} : x[1] # item[1]
<1>1. rec[r].pc \in Late
  BY DEF Late, RecoverySteps, Resting
<1>2. rec[r].todo \subseteq IntentItem /\ \A x \in rec[r].todo : intents[x[1]] # None
  BY <1>1, LateIs DEF PageTyped
<1>3. item \in IntentItem /\ item[1] \in Isolated /\ intents[item[1]] # None
  BY <1>2 DEF IntentItem
<1>4. intents[item[1]] \in Intent /\ intents[item[1]].op \in Ops
  BY <1>3 DEF IInv, Typed, StoreTyped, StoreTypeOK, Intent
<1>5. \A x \in rec[r].todo : intents[x[1]].state = x[2]
  BY RecoveryIs DEF Unrefused, PageHolds
<1>6. MayMoveIntent(item[1], item[2], rec[r].now)
  BY <1>1, <1>3, <1>5, RecoveryIs DEF Stamped, MayMoveIntent
<1>7. ASSUME NEW x \in rec[r].todo \ {item} PROVE x[1] # item[1]
  <2>1. x \in IntentItem /\ x[2] = intents[x[1]].state /\ item[2] = intents[item[1]].state
    BY <1>2, <1>5
  <2>2. x = <<x[1], x[2]>> /\ item = <<item[1], item[2]>>
    BY <1>3, <2>1 DEF IntentItem
  <2> QED
    BY <2>1, <2>2
<1> QED
  BY <1>3, <1>4, <1>6, <1>7 DEF AInv, OwnIntents

LEMMA RecoverIntentGoes ==
    ASSUME IInv, IInv', OneGeneration, RecoversAlone, AInv, NEW r \in Recoverers, RecoverIntent(r)
    PROVE  AInv'
<1>1. rec[r].pc = "intents" /\ UNCHANGED <<fileVars, clock, pub>>
  BY DEF RecoverIntent, RecAt
<1>2. /\ rec[r].pc \in Late /\ {"intents", "reconcile", "undo"} \subseteq Late
      /\ rec[r] \in RecovererState /\ PageHolds(rec[r])
  BY <1>1, RecoveryIs DEF Late, RecoverySteps, Resting, Unrefused
<1> DEFINE rest(item) == [rec[r] EXCEPT !.todo = @ \ {item}]
<1>3. PICK item \in rec[r].todo :
        LET i == item[1]
            s == IF item[2] = "verified" THEN "failed" ELSE "rolled_back"
        IN  \/ /\ CandidateSelected(r, i)
               /\ RecordSelected(r, intents[i].op, [rest(item) EXCEPT !.pc = "reconcile", !.item = item])
            \/ rec' = [rec EXCEPT ![r] = rest(item)] /\ UNCHANGED sidecarVars
            \/ /\ TransitionIntent(i, item[2], s, rec[r].now)
               /\ rec' = [rec EXCEPT ![r] = [rest(item) EXCEPT !.pc = "undo", !.item = item]]
            \/ ~MayMoveIntent(i, item[2], rec[r].now)
  BY DEF RecoverIntent
<1>4. /\ item \in IntentItem /\ item[1] \in Isolated /\ intents[item[1]].op \in Ops
      /\ intents[item[1]].op = intents[item[1]].pub
      /\ MayMoveIntent(item[1], item[2], rec[r].now)
      /\ \A x \in rec[r].todo \ {item} : x[1] # item[1]
  BY <1>1, ItemIs
<1>5. \A x \in rec[r].todo : intents[x[1]].state = x[2]
  BY <1>1, <1>2 DEF PageHolds
<1>6. CASE /\ CandidateSelected(r, item[1])
           /\ RecordSelected(r, intents[item[1]].op,
                             [rest(item) EXCEPT !.pc = "reconcile", !.item = item])
  <2>1. PICK row : row = [rest(item) EXCEPT !.pc = "reconcile", !.item = item]
    OBVIOUS
  <2>2. /\ row \in RecovererState /\ row.pc = "reconcile" /\ row.now = rec[r].now
        /\ row.todo = rec[r].todo \ {item} /\ row.item = item
    BY <1>2, <1>4, <2>1 DEF RecovererState, RecoverySteps
  <2>3. PageHolds(row)
    BY <1>4, <1>5, <2>2 DEF PageHolds
  <2>4. intents[item[1]].op = rec[r].sel.head
    BY <1>4, <1>6 DEF CandidateSelected
  <2>5. RecordSelected(r, rec[r].sel.head, row) /\ rec[r].sel.head \in Ops
    BY <1>4, <1>6, <2>1, <2>4
  <2> QED
    BY <1>1, <1>2, <2>2, <2>3, <2>5, RecordSelectedGoes
<1>7. CASE rec' = [rec EXCEPT ![r] = rest(item)] /\ UNCHANGED sidecarVars
  <2>1. PICK row : row = rest(item)
    OBVIOUS
  <2>2. /\ row \in RecovererState /\ row.pc = "intents" /\ row.now = rec[r].now
        /\ row.todo = rec[r].todo \ {item}
    BY <1>1, <1>2, <2>1 DEF RecovererState
  <2>3. PageHolds(row)
    BY <1>5, <2>2 DEF PageHolds
  <2> QED
    BY <1>1, <1>2, <1>7, <2>1, <2>2, <2>3, QuietGoes
<1>8. CASE \E s : /\ TransitionIntent(item[1], item[2], s, rec[r].now)
                  /\ rec' = [rec EXCEPT ![r] = [rest(item) EXCEPT !.pc = "undo", !.item = item]]
  <2>1. PICK s : /\ TransitionIntent(item[1], item[2], s, rec[r].now)
                 /\ rec' = [rec EXCEPT ![r] = [rest(item) EXCEPT !.pc = "undo", !.item = item]]
    BY <1>8
  <2>2. PICK row : row = [rest(item) EXCEPT !.pc = "undo", !.item = item]
    OBVIOUS
  <2>3. /\ row \in RecovererState /\ row.pc = "undo" /\ row.now = rec[r].now
        /\ row.todo = rec[r].todo \ {item}
    BY <1>2, <1>4, <2>2 DEF RecovererState, RecoverySteps
  <2>4. /\ StampsWith(rec[r].now) /\ IntentsKeepOwner /\ pointerRows' = pointerRows
        /\ \A j \in Isolated \ {item[1]} : intents'[j] = intents[j]
    BY <1>4, <2>1, RecoveryIs, TransitionStamps DEF TransitionIntent
  <2>5. PageHolds(row)'
    <3>1. \A x \in rec[r].todo : x[1] \in Isolated
      BY <1>1, <1>2, LateIs DEF PageTyped, IntentItem
    <3>2. \A x \in row.todo : intents'[x[1]].state = x[2]
      BY <1>4, <1>5, <2>3, <2>4, <3>1
    <3> QED
      BY <2>3, <3>2 DEF PageHolds
  <2>6. rec' = [rec EXCEPT ![r] = row] /\ RowsGrow
    BY <2>1, <2>2, <2>4 DEF RowsGrow
  <2> QED
    BY <1>1, <1>2, <2>3, <2>4, <2>5, <2>6, RecoveryGoesOn
<1> QED
  BY <1>3, <1>4, <1>6, <1>7, <1>8

LEMMA ReconcileIntentGoes ==
    ASSUME IInv, IInv', OneGeneration, RecoversAlone, AInv, NEW r \in Recoverers, ReconcileIntent(r)
    PROVE  AInv'
<1>1. rec[r].pc = "reconcile" /\ UNCHANGED <<fileVars, clock, pub>>
  BY DEF ReconcileIntent, RecAt
<1>2. /\ rec[r].pc \in Late /\ {"intents", "reconcile"} \subseteq Late
      /\ rec[r] \in RecovererState /\ PageHolds(rec[r])
  BY <1>1, RecoveryIs DEF Late, RecoverySteps, Resting, Unrefused
<1>3. PICK item : item = rec[r].item
  OBVIOUS
<1>4. /\ item[1] \in Isolated /\ intents[item[1]] # None
      /\ rec[r].todo \subseteq IntentItem
  BY <1>1, <1>2, <1>3, LateIs DEF PageTyped, IntentItem
<1>5. /\ intents[item[1]].state = item[2]
      /\ \A x \in rec[r].todo : x[1] # item[1] /\ intents[x[1]].state = x[2]
  BY <1>1, <1>2, <1>3 DEF PageHolds
<1>6. MayMoveIntent(item[1], item[2], rec[r].now)
  BY <1>2, <1>4, <1>5, RecoveryIs DEF Stamped, MayMoveIntent
<1>7. PICK t : /\ TransitionIntent(item[1], item[2], t, rec[r].now)
               /\ rec' = [rec EXCEPT ![r] =
                     IF t = "reconciled" THEN [rec[r] EXCEPT !.pc = "intents", !.item = None]
                     ELSE [rec[r] EXCEPT !.item = <<item[1], t>>]]
  BY <1>3, <1>6 DEF ReconcileIntent
<1>8. PICK row : row = IF t = "reconciled" THEN [rec[r] EXCEPT !.pc = "intents", !.item = None]
                       ELSE [rec[r] EXCEPT !.item = <<item[1], t>>]
  OBVIOUS
<1>9. rec' = [rec EXCEPT ![r] = row]
  BY <1>7, <1>8
<1>10. /\ row.pc \in {"intents", "reconcile"} /\ row.now = rec[r].now /\ row.todo = rec[r].todo
       /\ row.pc = "reconcile" => row.item = <<item[1], t>>
  BY <1>1, <1>2, <1>8 DEF RecovererState
<1>11. /\ StampsWith(rec[r].now) /\ IntentsKeepOwner /\ pointerRows' = pointerRows
       /\ intents'[item[1]].state = t
       /\ \A j \in Isolated \ {item[1]} : intents'[j] = intents[j]
  <2>1. TransitionIntent(item[1], item[2], t, rec[r].now) /\ StoreTyped
    BY <1>7, RecoveryIs
  <2>2. pointerRows' = pointerRows
    BY <2>1 DEF TransitionIntent
  <2> QED
    BY <1>4, <2>1, <2>2, TransitionStamps
<1>12. PageHolds(row)'
  <2>1. \A x \in row.todo : intents'[x[1]].state = x[2]
    BY <1>4, <1>5, <1>10, <1>11 DEF IntentItem
  <2> QED
    BY <1>5, <1>10, <1>11, <2>1 DEF PageHolds
<1> QED
  BY <1>1, <1>2, <1>9, <1>10, <1>11, <1>12, RowIs, RecoveryGoesOn DEF RowsGrow

LEMMA RemoveLeaseGoes ==
    ASSUME IInv, IInv', OneGeneration, RecoversAlone, AInv, NEW r \in Recoverers, RemoveLease(r)
    PROVE  AInv'
<1>1. rec[r].pc = "leases" /\ UNCHANGED <<fileVars, clock, pub>>
  BY DEF RemoveLease, RecAt
<1>2. /\ rec[r].pc \in Late /\ {"leases", "fail"} \subseteq Late
      /\ rec[r] \in RecovererState /\ PageHolds(rec[r])
  BY <1>1, RecoveryIs DEF Late, RecoverySteps, Resting, Unrefused
<1>3. PICK item \in rec[r].todo :
        \/ /\ ReleaseLease(item[1], item[2])
           /\ \/ rec' = [rec EXCEPT ![r] = [rec[r] EXCEPT !.todo = @ \ {item}]]
              \/ rec' = [rec EXCEPT ![r] = [rec[r] EXCEPT !.todo = @ \ {item}, !.pc = "fail",
                                                          !.item = item]]
        \/ ~MayRelease(item[1], item[2])
  BY DEF RemoveLease
<1>4. /\ rec[r].todo \subseteq LeaseItem
      /\ \A x \in rec[r].todo : leases[x[1]] # None /\ HoldOf(leases[x[1]]) = x[2]
  BY <1>1, <1>2, LateIs DEF PageTyped, PageHolds
<1>5. MayRelease(item[1], item[2])
  <2>1. leases[item[1]] # None /\ item[2] = HoldOf(leases[item[1]])
    BY <1>4
  <2>2. SameHold(leases[item[1]], HoldOf(leases[item[1]]))
    BY DEF SameHold, HoldOf
  <2> QED
    BY <2>1, <2>2 DEF MayRelease
<1>6. ReleaseLease(item[1], item[2])
  BY <1>3, <1>5
<1>7. PICK row : /\ rec' = [rec EXCEPT ![r] = row] /\ row.pc \in {"leases", "fail"}
                 /\ row.now = rec[r].now /\ row.todo = rec[r].todo \ {item}
  <2>1. CASE rec' = [rec EXCEPT ![r] = [rec[r] EXCEPT !.todo = @ \ {item}]]
    <3>1. PICK row : row = [rec[r] EXCEPT !.todo = @ \ {item}]
      OBVIOUS
    <3>2. row.pc = "leases" /\ row.now = rec[r].now /\ row.todo = rec[r].todo \ {item}
      BY <1>1, <1>2, <3>1 DEF RecovererState
    <3> QED
      BY <2>1, <3>1, <3>2
  <2>2. CASE rec' = [rec EXCEPT ![r] = [rec[r] EXCEPT !.todo = @ \ {item}, !.pc = "fail",
                                                      !.item = item]]
    <3>1. PICK row : row = [rec[r] EXCEPT !.todo = @ \ {item}, !.pc = "fail", !.item = item]
      OBVIOUS
    <3>2. row.pc = "fail" /\ row.now = rec[r].now /\ row.todo = rec[r].todo \ {item}
      BY <1>2, <3>1 DEF RecovererState
    <3> QED
      BY <2>2, <3>1, <3>2
  <2> QED
    BY <1>3, <1>5, <2>1, <2>2
<1>8. ASSUME NEW x \in rec[r].todo \ {item} PROVE x[1] # item[1] /\ leases'[x[1]] = leases[x[1]]
  <2>1. x = <<x[1], x[2]>> /\ item = <<item[1], item[2]>> /\ x[1] \in LeaseNames
    BY <1>4 DEF LeaseItem
  <2>2. x[1] # item[1]
    BY <1>4, <2>1
  <2> QED
    BY <1>6, <2>1, <2>2 DEF ReleaseLease, IInv, Typed, StoreTyped, StoreTypeOK
<1>9. PageHolds(row)'
  BY <1>4, <1>7, <1>8 DEF PageHolds, HoldOf
<1>10. StampsWith(rec[r].now) /\ IntentsKeepOwner /\ RowsGrow
  BY <1>6, NothingStamped DEF ReleaseLease, RowsGrow
<1> QED
  BY <1>1, <1>2, <1>7, <1>9, <1>10, RowIs, RecoveryGoesOn

\* A recovery that is over, and one that starts again.
LEMMA EndsGo ==
    ASSUME IInv, IInv', OneGeneration, RecoversAlone, AInv, NEW r \in Recoverers,
           EndRecovery(r) \/ StartOver(r) \/ CrashRecovery(r)
    PROVE  AInv'
<1>1. UNCHANGED <<sidecarVars, clock, pub>>
  BY DEF EndRecovery, StartOver, CrashRecovery
<1>2. PICK row : rec' = [rec EXCEPT ![r] = row] /\ row.pc = "idle" /\ row.now = 0
  <2>1. ASSUME NEW crashes PROVE LET row == [IdleRecoverer EXCEPT !.crashes = crashes]
                                 IN  row.pc = "idle" /\ row.now = 0
    BY DEF IdleRecoverer
  <2>2. Rest(r, "idle").pc = "idle" /\ Rest(r, "idle").now = 0
    BY DEF Rest, IdleRecoverer
  <2>3. CASE rec' = [rec EXCEPT ![r] = Rest(r, "idle")]
    BY <2>2, <2>3
  <2>4. CASE rec' = [rec EXCEPT ![r] = [IdleRecoverer EXCEPT !.crashes = rec[r].crashes + 1]]
    BY <2>1, <2>4
  <2> QED
    BY <2>3, <2>4 DEF EndRecovery, StartOver, CrashRecovery
<1>3. Unrefused(row)'
  BY <1>2 DEF Unrefused, PageHolds, Resting
<1>4. StampsWith(rec[r].now) /\ IntentsKeepOwner /\ RowsGrow
  BY <1>1, NothingStamped DEF sidecarVars, RowsGrow
<1>5. row.now <= clock
  BY <1>2 DEF IInv, Typed, ProcessesTyped
<1>6. row \in RecovererState
  BY <1>2, RowIs
<1> QED
  BY <1>1, <1>2, <1>3, <1>4, <1>5, <1>6, RecoveryGoes

-----------------------------------------------------------------------------
(* The theorem. *)

LEMMA AcceptedInit == Init => AInv
<1> SUFFICES ASSUME Init PROVE AInv
  OBVIOUS
<1>1. /\ \A o \in Ops : jobs[o] = None /\ pub[o].now = 0
      /\ \A i \in Isolated : intents[i] = None
      /\ \A r \in Recoverers : rec[r].pc = "idle" /\ rec[r].now = 0
      /\ pointerRows = {} /\ clock = 0
  BY DEF Init, StoreInit, IdlePublisher, IdleRecoverer
<1> QED
  BY <1>1 DEF AInv, Stamped, ReadingsPast, OwnIntents, OwnRows, Unrefused, PageHolds, Resting

LEMMA AcceptedNext ==
    ASSUME IInv, IInv', OneGeneration, RecoversAlone, AInv, [Next]_vars
    PROVE  AInv'
<1>1. CASE \E o \in Ops : \/ Publisher(o)
                          \/ Plan(o) \/ Prepare(o) \/ Beat(o) \/ Crash(o) \/ Retry(o)
  BY <1>1, PublishersKeep
<1>2. CASE \E r \in Recoverers : Recover(r) \/ CrashRecovery(r)
  BY <1>2, OpeningGoes, PagesGo, VerdictsGo, RecoverIntentGoes, ReconcileIntentGoes,
     RemoveLeaseGoes, EndsGo
  DEF Recover
<1>3. CASE UNCHANGED <<sidecarVars, ptr, pub, rec>> /\ clock' \in Nat /\ clock <= clock'
  <2>1. clock \in Nat
    BY DEF IInv, Typed, ProcessesTyped
  <2>2. Stamped(clock)'
    <3>1. (\A o \in Ops : jobs[o] # None => jobs[o].updated \in Nat)
          /\ \A i \in Isolated : intents[i] # None => intents[i].updated \in Nat
      BY DEF IInv, Typed, StoreTyped, StoreTypeOK, Job, Intent
    <3> QED
      BY <1>3, <2>1, <3>1 DEF AInv, Stamped, sidecarVars
  <2>3. ReadingsPast'
    <3>1. (\A o \in Ops : pub[o].now \in Nat) /\ \A r \in Recoverers : rec[r].now \in Nat
      BY DEF IInv, Typed, ProcessesTyped, PublisherState, RecovererState
    <3> QED
      BY <1>3, <2>1, <3>1 DEF AInv, ReadingsPast
  <2>4. OwnIntents' /\ OwnRows'
    BY <1>3 DEF AInv, OwnIntents, OwnRows, sidecarVars
  <2>5. \A r \in Recoverers : Unrefused(rec[r])'
    BY <1>3 DEF AInv, Unrefused, Stamped, PageHolds, HoldOf, sidecarVars
  <2> QED
    BY <2>2, <2>3, <2>4, <2>5 DEF AInv
<1>4. clock \in Nat
  BY DEF IInv, Typed, ProcessesTyped
<1>5. CASE Tick \/ (\E a \in Artifacts : Damage(a)) \/ UNCHANGED vars
  BY <1>3, <1>4, <1>5 DEF Tick, Damage, vars, fileVars
<1> QED
  BY <1>1, <1>2, <1>5 DEF Next

\* A recovery finds a readable artifact, and the sidecar refuses none of its calls:
\* no pair conflicts with the one it records, no lease it removes is gone, no intent
\* has moved since it was listed, and no job or intent is newer than the clock
\* reading it goes by.  It holds wherever publishers, or an earlier recovery, died.
THEOREM RecoveryStaysAccepted == Spec /\ RecoversAlone => []RecoveryNeverRefused
<1>1. RecoversAlone => Serial
  BY DEF RecoversAlone
<1>2. IInv /\ AInv /\ RecoversAlone /\ [Next]_vars => (IInv /\ AInv)'
  BY <1>1, InvNext, AcceptedNext
<1>3. AInv => RecoveryNeverRefused
  BY DEF AInv, Unrefused, RecoveryNeverRefused
<1>4. CASE RecoversAlone
  BY <1>2, <1>3, <1>4, InvInit, AcceptedInit, PTL DEF Spec
<1> QED
  BY <1>4

=============================================================================

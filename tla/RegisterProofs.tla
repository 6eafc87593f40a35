---------------------------- MODULE RegisterProofs ----------------------------
(***************************************************************************)
(* The publication protocol implements the register of publications, for   *)
(* any number of operations, recoveries, crashes and retries, under a host *)
(* that recovers before it publishes again, with workers in time and files *)
(* that stay readable: what readers see grows by one publication at its    *)
(* end, and every operation is reported once, as what readers see.         *)
(***************************************************************************)
EXTENDS PublicationProofs

\* The host of these proofs.  One that only keeps recovery and publication apart
\* may publish over an operation that committed and died, and report it failed.
RecoversFirst == Recovery = "first" /\ ~Overrun /\ MaxDamage = 0

-----------------------------------------------------------------------------
(* What readers see, without the selection. *)

\* The publication at the head of the active artifact, and its ancestors.
Served  == IF ptr = None THEN None ELSE head[ptr.active.name]
Chain   == IF ptr = None THEN <<>> ELSE ancestry[Served]
Members == {Chain[k] : k \in DOMAIN Chain}

\* The equation that ancestry solves; it has one solution, since no publication
\* becomes a parent before it has one itself.
Solves(f) ==
    f = [p \in Pubs |-> IF parent[p] = None THEN <<p>> ELSE Append(f[parent[p]], p)]

AncestryKnown ==
    /\ \E f : Solves(f) /\ f \in [Pubs -> Seq(Pubs)]
    /\ \A f, g : Solves(f) /\ Solves(g) => f = g

\* An operation that has published, or that has built its candidate.
Made(o) == IF o \in Small THEN parent[o] # None ELSE head[o] # None

Rooted ==
    \A o \in Ops :
        \/ \E p \in Pubs : parent[p] = o
        \/ \E a \in Artifacts : head[a] = o
        => Made(o)

\* A candidate is built on the publication its plan was made against.
Built(o) == IF head[o] = None THEN parent[o] = None ELSE parent[o] = pub[o].expect.pub

\* What is in the chain cannot be published again.
Past(o) == /\ o \in Small => parent[o] # None
           /\ o \in Isolated => head[o] # None /\ pub[o].expect.gen < ptr.gen

-----------------------------------------------------------------------------
(* The inductive invariant, beside the one of the artifact pointer. *)

Quiet == Idle \cup {"unwind"}

\* A publisher at work is not reported yet.
Unreported(o) == pub[o].pc \notin Quiet => IsActive(o)

\* In the chain all but its last operation are reported published.
ChainReported ==
    \A o \in Members \cap Ops :
        Outcome(o) = "published" \/ (o = Served /\ IsActive(o))

\* The last one is reported, is being published, or awaits a recovery that is
\* due before anything else is published.
Settled ==
    Served \in Ops /\ Outcome(Served) # "published" =>
        Busy(Served) \/ (dirty /\ \A o \in Ops : ~Busy(o))

\* A recovery reports it before it judges any other operation.
Judging == {"completed", "list_intents", "intents", "reconcile", "undo", "leases", "fail", "jobs"}

Judged(r) == rec[r].pc \in Judging /\ Served \in Ops => Outcome(Served) = "published"

Progress ==
    /\ Rooted
    /\ \A o \in Isolated : Built(o)
    /\ \A o \in Members : Past(o)
    /\ \A o \in Ops : Unreported(o)
    /\ ChainReported
    /\ Settled
    /\ \A r \in Recoverers : Judged(r)

RInv == AncestryKnown /\ Progress

-----------------------------------------------------------------------------
(* The ancestors of a publication. *)

LEMMA AncestryIs == AncestryKnown => Solves(ancestry) /\ ancestry \in [Pubs -> Seq(Pubs)]
<1> SUFFICES ASSUME AncestryKnown PROVE Solves(ancestry) /\ ancestry \in [Pubs -> Seq(Pubs)]
  OBVIOUS
<1>1. ancestry = CHOOSE f : Solves(f)
  BY DEF ancestry, Solves
<1>2. PICK f : Solves(f) /\ f \in [Pubs -> Seq(Pubs)]
  BY DEF AncestryKnown
<1>3. Solves(ancestry)
  <2> HIDE DEF Solves
  <2> QED
    BY <1>1, <1>2
<1>4. ancestry = f
  BY <1>2, <1>3 DEF AncestryKnown
<1> QED
  BY <1>2, <1>3, <1>4

LEMMA AncestryIsNext == AncestryKnown' => Solves(ancestry)'
BY AncestryIs, PTL

LEMMA AncestryAt ==
    ASSUME AncestryKnown, NEW p \in Pubs
    PROVE  ancestry[p] = IF parent[p] = None THEN <<p>> ELSE Append(ancestry[parent[p]], p)
BY AncestryIs DEF Solves

LEMMA AncestryInit ==
    ASSUME parent = [p \in Pubs |-> None]
    PROVE  AncestryKnown /\ \A p \in Pubs : ancestry[p] = <<p>>
<1> DEFINE f == [p \in Pubs |-> <<p>>]
<1>1. \A g : Solves(g) <=> g = f
  BY DEF Solves
<1>2. f \in [Pubs -> Seq(Pubs)]
  OBVIOUS
<1> HIDE DEF f
<1>3. AncestryKnown
  BY <1>1, <1>2 DEF AncestryKnown
<1>4. ancestry = f
  BY <1>1, <1>3, AncestryIs
<1> QED
  BY <1>3, <1>4 DEF f

LEMMA AncestryFrame ==
    ASSUME parent' = parent
    PROVE  ancestry' = ancestry /\ (AncestryKnown => AncestryKnown')
BY DEF ancestry, AncestryKnown, Solves

\* A publication that is nobody's parent gets one: only its ancestors change.
LEMMA AncestryGrows ==
    ASSUME AncestryKnown, parent \in [Pubs -> Pubs \cup {None}],
           NEW o \in Pubs, NEW q \in Pubs, q # o,
           parent[o] = None, \A p \in Pubs : parent[p] # o,
           parent' = [parent EXCEPT ![o] = q]
    PROVE  /\ AncestryKnown'
           /\ \A p \in Pubs \ {o} : ancestry'[p] = ancestry[p]
           /\ ancestry'[o] = Append(ancestry[q], o)
<1>0. PICK f : f = [ancestry EXCEPT ![o] = Append(ancestry[q], o)]
  OBVIOUS
<1>1. None \notin Pubs
  BY AbsentAssumption
<1>2. ancestry \in [Pubs -> Seq(Pubs)] /\ Solves(ancestry)
  BY AncestryIs
<1>3. /\ f \in [Pubs -> Seq(Pubs)]
      /\ f[o] = Append(ancestry[q], o)
      /\ \A p \in Pubs \ {o} : f[p] = ancestry[p]
  <2>1. Append(ancestry[q], o) \in Seq(Pubs)
    <3>1. ancestry[q] \in Seq(Pubs)
      BY <1>2
    <3> QED
      BY <3>1
  <2> QED
    BY <1>0, <1>2, <2>1
<1>4. Solves(f)'
  <2>1. ASSUME NEW p \in Pubs
        PROVE  f[p] = IF parent'[p] = None THEN <<p>> ELSE Append(f[parent'[p]], p)
    <3>1. CASE p = o
      BY <1>1, <1>3, <3>1
    <3>2. CASE p # o
      <4>1. parent'[p] = parent[p] /\ parent[p] # o /\ f[p] = ancestry[p]
        BY <1>3, <3>2
      <4>2. ancestry[p] = IF parent[p] = None THEN <<p>> ELSE Append(ancestry[parent[p]], p)
        BY AncestryAt
      <4> QED
        BY <1>1, <1>3, <4>1, <4>2
    <3> QED
      BY <3>1, <3>2
  <2> DEFINE g == [p \in Pubs |-> IF parent'[p] = None THEN <<p>> ELSE Append(f[parent'[p]], p)]
  <2>2. f = g
    BY <1>3, <2>1
  <2> QED
    BY <2>2 DEF Solves
<1>5. ASSUME NEW g, Solves(g)' PROVE g = f
  <2> DEFINE h == [g EXCEPT ![o] = <<o>>]
  <2>1. /\ g = [p \in Pubs |-> g[p]]
        /\ \A p \in Pubs : g[p] = IF parent'[p] = None THEN <<p>> ELSE Append(g[parent'[p]], p)
    <3>1. g = [p \in Pubs |-> IF parent'[p] = None THEN <<p>> ELSE Append(g[parent'[p]], p)]
      BY <1>5 DEF Solves
    <3> QED
      BY <3>1
  <2>2. /\ h = [p \in Pubs |-> h[p]] /\ h[o] = <<o>>
        /\ \A p \in Pubs \ {o} : h[p] = g[p]
    BY <2>1
  <2> HIDE DEF h
  <2>3. Solves(h)
    <3>1. ASSUME NEW p \in Pubs
          PROVE  h[p] = IF parent[p] = None THEN <<p>> ELSE Append(h[parent[p]], p)
      <4>1. CASE p = o
        BY <2>2, <4>1
      <4>2. CASE p # o
        <5>1. parent'[p] = parent[p] /\ parent[p] # o /\ h[p] = g[p]
          BY <2>2, <4>2
        <5>2. parent[p] # None => parent[p] \in Pubs \ {o}
          BY <5>1
        <5> QED
          BY <2>1, <2>2, <5>1, <5>2
      <4> QED
        BY <4>1, <4>2
    <3> DEFINE k == [p \in Pubs |-> IF parent[p] = None THEN <<p>> ELSE Append(h[parent[p]], p)]
    <3>2. h = k
      BY <2>2, <3>1
    <3> QED
      BY <3>2 DEF Solves
  <2>4. h = ancestry
    BY <1>2, <2>3 DEF AncestryKnown
  <2>5. \A p \in Pubs \ {o} : g[p] = f[p]
    BY <1>3, <2>2, <2>4
  <2>6. g[o] = Append(g[q], o)
    BY <1>1, <2>1
  <2>7. g[o] = f[o]
    BY <1>3, <2>5, <2>6
  <2> QED
    BY <1>3, <2>1, <2>5, <2>7
<1>6. AncestryKnown'
  BY <1>3, <1>4, <1>5 DEF AncestryKnown
<1>7. ancestry' = f
  <2>1. Solves(ancestry)'
    BY <1>6, AncestryIsNext
  <2>2. \A g : g = ancestry' => (g = f)
    <3> SUFFICES ASSUME NEW g, g = ancestry' PROVE g = f
      OBVIOUS
    <3>1. Solves(g)'
      BY <2>1 DEF Solves
    <3> QED
      BY <1>5, <3>1
  <2> QED
    BY <2>2
<1> QED
  BY <1>3, <1>6, <1>7

-----------------------------------------------------------------------------
(* What a step does to what readers see and to what is reported. *)

LEMMA ChainIs == RecoversFirst => (IInv => VisibleChain = Chain)
<1> SUFFICES ASSUME IInv, RecoversFirst PROVE VisibleChain = Chain
  OBVIOUS
<1>1. CASE ptr = None
  BY <1>1 DEF VisibleChain, Chain
<1>2. CASE ptr # None
  <2>1. ptr \in PointerDocument /\ Follows(ptr)
    BY <1>2 DEF IInv, Typed, FilesTyped, Follows
  <2>2. ActiveReadable(ptr)
    BY <1>2, <2>1, ActiveIsReadable DEF RecoversFirst
  <2>3. Readable(ptr) /\ Selection(ptr).head = Served
    BY <1>2, <2>2 DEF Readable, Selection, Served
  <2> QED
    BY <1>2, <2>3 DEF VisibleChain, Chain
<1> QED
  BY <1>1, <1>2

LEMMA ChainIsNext == RecoversFirst => (IInv' => (VisibleChain = Chain)')
<1>1. CASE RecoversFirst
  <2>1. IInv => VisibleChain = Chain
    BY <1>1, ChainIs
  <2> QED
    BY <2>1, PTL
<1> QED
  BY <1>1

LEMMA ServedIs ==
    ASSUME IInv, AncestryKnown, ptr # None
    PROVE  /\ ptr \in PointerDocument /\ ptr.active.name \in Artifacts
           /\ Served = head[ptr.active.name] /\ Served \in Pubs
           /\ Chain = ancestry[Served] /\ Chain \in Seq(Pubs)
           /\ Served \in Members /\ Members \subseteq Pubs
<1>1. /\ ptr \in PointerDocument /\ head \in [Artifacts -> Pubs \cup {None}]
      /\ parent \in [Pubs -> Pubs \cup {None}] /\ PointerServes
  BY DEF IInv, Typed, FilesTyped
<1>2. ptr.active.name \in Artifacts
  BY <1>1 DEF PointerDocument, PointerArtifact
<1>3. Served = head[ptr.active.name] /\ Served \in Pubs
  BY <1>1, <1>2 DEF Served, PointerServes
<1>4. Chain = ancestry[Served] /\ Chain \in Seq(Pubs)
  BY <1>3, AncestryIs DEF Chain
<1>5. Served \in Members
  <2>1. Chain = IF parent[Served] = None THEN <<Served>>
                ELSE Append(ancestry[parent[Served]], Served)
    BY <1>3, <1>4, AncestryAt
  <2>2. CASE parent[Served] = None
    BY <2>1, <2>2 DEF Members
  <2>3. CASE parent[Served] # None
    <3> DEFINE before == ancestry[parent[Served]]
    <3>1. before \in Seq(Pubs)
      BY <1>1, <1>3, <2>3, AncestryIs
    <3>2. Chain = Append(before, Served)
      BY <2>1, <2>3
    <3> HIDE DEF before
    <3>3. Len(before) + 1 \in DOMAIN Chain /\ Chain[Len(before) + 1] = Served
      BY <1>3, <3>1, <3>2
    <3> QED
      BY <3>3 DEF Members
  <2> QED
    BY <2>2, <2>3
<1>6. Members \subseteq Pubs
  BY <1>4 DEF Members
<1> QED
  BY <1>1, <1>2, <1>3, <1>4, <1>5, <1>6

\* Readers see the same publications, in a pointer that may have advanced.
SameServed ==
    /\ UNCHANGED <<head, parent>>
    /\ ptr' = None <=> ptr = None
    /\ ptr # None => ptr'.active.name = ptr.active.name /\ ptr.gen <= ptr'.gen

SamePlans == \A o \in Isolated : pub'[o].expect = pub[o].expect

\* No operation is reported, and none that is active ends.
SameOutcomes == \A o \in Ops : Outcome(o)' = Outcome(o) /\ (IsActive(o) => IsActive(o)')

Publishes(o) ==
    /\ o \notin Members /\ Outcome(o) = "unknown"
    /\ Chain' = Append(Chain, o)
    /\ \A p \in Ops : Outcome(p)' = Outcome(p)

Reports(o) ==
    /\ Outcome(o) = "unknown"
    /\ Chain' = Chain
    /\ Outcome(o)' = IF o \in Members THEN "published" ELSE "abandoned"
    /\ \A p \in Ops \ {o} : Outcome(p)' = Outcome(p)

RegisterStep ==
    \/ Chain' = Chain /\ \A o \in Ops : Outcome(o)' = Outcome(o)
    \/ \E o \in Ops : Publishes(o) \/ Reports(o)

LEMMA ServedFrame ==
    ASSUME SameServed
    PROVE  Served' = Served /\ Chain' = Chain /\ Members' = Members
BY AncestryFrame DEF SameServed, Served, Chain, Members

LEMMA FilesProgress ==
    ASSUME IInv, IInv', RInv, SameServed, SamePlans
    PROVE  /\ AncestryKnown' /\ Rooted' /\ \A o \in Isolated : Built(o)'
           /\ \A o \in Members' : Past(o)'
<1>1. AncestryKnown' /\ Members' = Members
  BY ServedFrame, AncestryFrame DEF RInv, SameServed
<1>2. Rooted' /\ \A o \in Isolated : Built(o)'
  BY DEF RInv, Progress, Rooted, Made, Built, SameServed, SamePlans
<1>3. ASSUME NEW o \in Members PROVE Past(o)'
  <2>1. ptr # None
    BY DEF Members, Chain
  <2>2. ptr'.gen \in Nat /\ ptr.gen \in Nat /\ ptr.gen <= ptr'.gen
    BY <2>1 DEF SameServed, IInv, Typed, FilesTyped, PointerDocument
  <2>3. o \in Isolated => pub[o].expect.gen \in Nat
    BY DEF IInv, Typed, ProcessesTyped, PublisherState, Expectation, Ops
  <2>4. Past(o)
    BY DEF RInv, Progress
  <2> QED
    BY <2>2, <2>3, <2>4 DEF Past, SameServed, SamePlans
<1> QED
  BY <1>1, <1>2, <1>3

\* What is left to show of a step that changes neither.
LEMMA QuietStep ==
    ASSUME IInv, IInv', RInv, SameServed, SamePlans, SameOutcomes,
           \A o \in Ops : Unreported(o)', Settled', \A r \in Recoverers : Judged(r)'
    PROVE  RInv' /\ RegisterStep
<1>1. Served' = Served /\ Chain' = Chain /\ Members' = Members
  BY ServedFrame
<1>2. ChainReported'
  BY <1>1 DEF RInv, Progress, ChainReported, SameOutcomes
<1>3. RegisterStep
  BY <1>1 DEF RegisterStep, SameOutcomes
<1> QED
  BY <1>2, <1>3, FilesProgress DEF RInv, Progress

\* And of one that reports an operation as what readers see.
LEMMA ReportStep ==
    ASSUME IInv, IInv', RInv, SameServed, SamePlans,
           NEW o \in Ops, Outcome(o) = "unknown",
           Outcome(o)' = IF o \in Members THEN "published" ELSE "abandoned",
           \A p \in Ops \ {o} : jobs'[p] = jobs[p],
           \A p \in Ops : Unreported(p)', Settled', \A r \in Recoverers : Judged(r)'
    PROVE  RInv' /\ RegisterStep
<1>1. Served' = Served /\ Chain' = Chain /\ Members' = Members
  BY ServedFrame
<1>2. \A p \in Ops \ {o} : Outcome(p)' = Outcome(p) /\ (IsActive(p) => IsActive(p)')
  BY DEF Outcome, JobIn, IsActive
<1>3. ChainReported'
  BY <1>1, <1>2 DEF RInv, Progress, ChainReported
<1>4. RegisterStep
  BY <1>1, <1>2 DEF RegisterStep, Reports
<1> QED
  BY <1>3, <1>4, FilesProgress DEF RInv, Progress

-----------------------------------------------------------------------------
(* The publishers: steps that readers and clients do not see. *)

LEMMA JobsKept ==
    ASSUME jobs' = jobs
    PROVE  SameOutcomes
BY DEF SameOutcomes, Outcome, JobIn, IsActive

LEMMA FilesKept ==
    ASSUME UNCHANGED fileVars, IInv
    PROVE  SameServed
BY DEF SameServed, fileVars, IInv, Typed, FilesTyped, PointerDocument

\* The job that loses a lease stays active.
LEMMA AcquireOutcomes ==
    ASSUME IInv, NEW n \in LeaseNames, NEW o \in Ops, NEW w, NEW now \in Nat, NEW alive,
           AcquireLease(n, o, w, now, alive)
    PROVE  SameOutcomes
<1>1. CASE RenewLease(n, o, w, now, alive)
  BY <1>1, JobsKept DEF RenewLease
<1>2. CASE TakeLease(n, o, w, now, alive)
  <2>1. jobs' = Demoted(n, now)
    BY <1>2 DEF TakeLease
  <2>2. \A q \in Ops : \/ jobs'[q] = jobs[q]
                       \/ /\ IsActive(q) /\ jobs'[q] \in Job
                          /\ jobs'[q].state = "recovery_required"
    BY <2>1, DemotedJobs DEF IInv, Typed
  <2> QED
    BY <2>2, AbsentAssumption DEF SameOutcomes, Outcome, JobIn, IsActive, ActiveStates
<1> QED
  BY <1>1, <1>2 DEF AcquireLease

\* A publisher at work stays at work.
LEMMA WorkKeeps ==
    ASSUME IInv, IInv', RInv, NEW o \in Ops, Busy(o), Busy(o)',
           \A p \in Ops \ {o} : pub'[p] = pub[p], pub'[o].expect = pub[o].expect,
           pub[o].pc = "unwind" => pub'[o].pc = "unwind",
           rec' = rec, SameServed, SameOutcomes
    PROVE  RInv' /\ RegisterStep
<1>1. SamePlans
  BY DEF SamePlans, Ops
<1>2. ASSUME NEW p \in Ops PROVE Unreported(p)'
  <2>1. Unreported(p) /\ (IsActive(p) => IsActive(p)')
    BY DEF RInv, Progress, SameOutcomes
  <2> QED
    BY <2>1 DEF Unreported, Quiet, Busy
<1>3. Settled'
  <2>1. Served' = Served
    BY ServedFrame
  <2>2. Served \in Ops /\ Outcome(Served) # "published" => Served = o
    BY OneAtWork DEF RInv, Progress, Settled
  <2> QED
    BY <2>1, <2>2 DEF Settled, SameOutcomes
<1>4. \A r \in Recoverers : Judged(r)'
  BY NobodyRecovers DEF Judged, Judging, Busy, RecAt
<1> QED
  BY <1>1, <1>2, <1>3, <1>4, QuietStep

\* It goes on, or gives up.
LEMMA WorkGoes ==
    ASSUME IInv, IInv', RInv, NEW o \in Ops, Busy(o), pub[o].pc # "unwind",
           NEW x \in PublisherSteps, Goto(o, x), x \notin Idle \cup {"ready"},
           rec' = rec, SameServed, jobs' = jobs
    PROVE  RInv' /\ RegisterStep
<1>1. Busy(o)'
  BY GotoKeeps DEF Busy
<1> QED
  BY <1>1, GotoKeeps, WorkKeeps, JobsKept DEF OnlyPublisher

LEMMA SmallWorks ==
    ASSUME IInv, IInv', RInv, NEW o \in Ops,
           ReadPointerSmall(o) \/ FenceSmall(o) \/ WritePointerSmall(o) \/ RecordSmall(o)
    PROVE  RInv' /\ RegisterStep
<1> USE DEF Busy, Idle, Outside
<1>1. {"checked", "fenced", "written", "recorded", "unwind"} \subseteq PublisherSteps
  BY DEF PublisherSteps
<1>2. CASE ReadPointerSmall(o)
  <2>1. pub[o].pc = "locked" /\ UNCHANGED <<fileVars, jobs, rec>>
    BY <1>2 DEF ReadPointerSmall, At, sidecarVars
  <2>2. CASE pub' = [pub EXCEPT ![o].pc = "checked", ![o].cur = ptr]
    <3>1. pub \in [Ops -> PublisherState]
      BY DEF IInv, Typed, ProcessesTyped
    <3>2. pub'[o].pc = "checked" /\ pub'[o].expect = pub[o].expect
          /\ \A p \in Ops \ {o} : pub'[p] = pub[p]
      BY <2>2, <3>1 DEF PublisherState
    <3> QED
      BY <2>1, <3>2, WorkKeeps, FilesKept, JobsKept
  <2>3. CASE Goto(o, "unwind")
    BY <1>1, <2>1, <2>3, WorkGoes, FilesKept
  <2> QED
    BY <1>2, <2>2, <2>3 DEF ReadPointerSmall
<1>3. CASE FenceSmall(o)
  BY <1>1, <1>3, WorkGoes, FilesKept DEF FenceSmall, At, sidecarVars
<1>4. CASE WritePointerSmall(o)
  <2>1. pub[o].pc = "fenced" /\ o \in Small
    BY <1>4 DEF WritePointerSmall, At
  <2>2. ptr # None /\ pub[o].cur = ptr /\ ptr \in PointerDocument
    BY <2>1 DEF IInv, Works, SmallWork, Typed, FilesTyped
  <2>3. SameServed
    <3>1. ptr' = [gen |-> ptr.gen + 1,
                  active |-> [name |-> ptr.active.name, pub |-> o, file |-> None],
                  rollback |-> ptr.rollback]
      BY <1>4, <2>2 DEF WritePointerSmall, AdvancedPointer
    <3>2. ptr' # None
      <4>1. ptr' \in PointerDocument
        BY <2>2, <3>1 DEF PointerDocument, PointerArtifact, Pubs
      <4> QED
        BY <4>1, AbsentAssumption
    <3>3. ptr.gen \in Nat
      BY <2>2 DEF PointerDocument
    <3> QED
      BY <1>4, <2>2, <3>1, <3>2, <3>3 DEF WritePointerSmall, SameServed
  <2> QED
    BY <1>1, <1>4, <2>1, <2>3, WorkGoes DEF WritePointerSmall, sidecarVars
<1>5. CASE RecordSmall(o)
  BY <1>1, <1>5, WorkGoes, FilesKept
  DEF RecordSmall, RecordPointerPair, Raise, At, sidecarVars
<1> QED
  BY <1>2, <1>3, <1>4, <1>5

LEMMA IsolatedWorks ==
    ASSUME IInv, IInv', RInv, NEW o \in Ops,
           \/ LockPromotion(o) \/ Preflight(o) \/ PrepareIntent(o) \/ SealRollback(o)
           \/ FenceIsolated(o) \/ MarkWritten(o) \/ Verify(o) \/ RecordIsolated(o)
           \/ MarkReconciled(o)
    PROVE  RInv' /\ RegisterStep
<1> USE DEF Busy, Idle, Outside
<1>1. {"locked", "checked", "intended", "sealed", "fenced", "marked", "verified", "recorded",
       "reconciled", "unwind"} \subseteq PublisherSteps
  BY DEF PublisherSteps
<1>2. UNCHANGED <<fileVars, rec>> /\ SameServed
  BY FilesKept DEF LockPromotion, Preflight, PrepareIntent, SealRollback, FenceIsolated,
     MarkWritten, Verify, RecordIsolated, MarkReconciled, MoveIntent
<1>3. /\ pub \in [Ops -> PublisherState] /\ pub[o] \in PublisherState /\ pub[o].now \in Nat
      /\ "artifact_promotion" \in LeaseNames
  BY DEF IInv, Typed, ProcessesTyped, PublisherState, LeaseNames
<1>4. ASSUME NEW x \in PublisherSteps, x \notin Idle \cup {"ready"}, NEW y, NEW z,
             SameOutcomes, Busy(o), pub[o].pc # "unwind",
             \/ pub' = [pub EXCEPT ![o].pc = x, ![o].cur = y]
             \/ pub' = [pub EXCEPT ![o].pc = x, ![o].back = y]
             \/ pub' = [pub EXCEPT ![o].pc = x, ![o].promotion = y]
      PROVE  RInv' /\ RegisterStep
  <2>1. /\ pub'[o].pc = x /\ pub'[o].expect = pub[o].expect
        /\ \A p \in Ops \ {o} : pub'[p] = pub[p]
    BY <1>3, <1>4 DEF PublisherState
  <2> QED
    BY <1>2, <1>4, <2>1, WorkKeeps
<1>5. CASE LockPromotion(o)
  <2>1. pub[o].pc = "writer"
    BY <1>5 DEF LockPromotion, At
  <2>2. CASE AcquireLease("artifact_promotion", o, WorkerOf(o), pub[o].now, Alive)
             /\ pub' = [pub EXCEPT ![o].pc = "locked",
                                   ![o].promotion = HoldOf(leases'["artifact_promotion"])]
    BY <1>1, <1>3, <1>4, <2>1, <2>2, AcquireOutcomes
  <2>3. CASE Raise(o)
    BY <1>1, <1>2, <2>1, <2>3, WorkGoes DEF Raise, sidecarVars
  <2> QED
    BY <1>5, <2>2, <2>3 DEF LockPromotion
<1>6. CASE Preflight(o)
  <2>1. pub[o].pc = "locked" /\ SameOutcomes
    BY <1>6, JobsKept DEF Preflight, At, sidecarVars
  <2>2. PICK x \in {"checked", "unwind"} : \E y : pub' = [pub EXCEPT ![o].pc = x, ![o].cur = y]
    BY <1>6 DEF Preflight
  <2>3. PICK y : pub' = [pub EXCEPT ![o].pc = x, ![o].cur = y]
    BY <2>2
  <2> QED
    BY <1>1, <1>4, <2>1, <2>3
<1>7. CASE SealRollback(o)
  <2>1. pub[o].pc = "intended" /\ SameOutcomes
    BY <1>7, JobsKept DEF SealRollback, At, sidecarVars
  <2>2. PICK x \in {"sealed", "unwind"} : \E y : pub' = [pub EXCEPT ![o].pc = x, ![o].back = y]
    BY <1>7 DEF SealRollback
  <2>3. PICK y : pub' = [pub EXCEPT ![o].pc = x, ![o].back = y]
    BY <2>2
  <2> QED
    BY <1>1, <1>4, <2>1, <2>3
<1>8. CASE PrepareIntent(o)
  BY <1>1, <1>2, <1>8, WorkGoes DEF PrepareIntent, CreateIntent, Raise, At, sidecarVars
<1>9. CASE FenceIsolated(o)
  BY <1>1, <1>2, <1>9, WorkGoes DEF FenceIsolated, At, sidecarVars
<1>10. CASE MarkWritten(o) \/ Verify(o) \/ MarkReconciled(o)
  BY <1>1, <1>2, <1>10, WorkGoes
  DEF MarkWritten, Verify, MarkReconciled, MoveIntent, TransitionIntent, Raise, At, sidecarVars
<1>11. CASE RecordIsolated(o)
  BY <1>1, <1>2, <1>11, WorkGoes DEF RecordIsolated, RecordPointerPair, Raise, At, sidecarVars
<1> QED
  BY <1>5, <1>6, <1>7, <1>8, <1>9, <1>10, <1>11

-----------------------------------------------------------------------------
(* The publishers: the steps that publish and report. *)

LEMMA ActiveIsUnknown ==
    ASSUME NEW o \in Ops, IsActive(o)
    PROVE  Outcome(o) = "unknown"
BY DEF IsActive, ActiveStates, Outcome, JobIn

\* The chain is extended by the publisher at work, which is not in it: what was
\* its last operation is reported, as nobody else is at work.
LEMMA PublishStep ==
    ASSUME IInv, IInv', RInv, NEW o \in Ops, Busy(o), Busy(o)', pub[o].pc # "unwind",
           \A p \in Ops \ {o} : pub'[p] = pub[p],
           UNCHANGED <<jobs, rec>>,
           o \notin Members, Served' = o, Chain \in Seq(Pubs), Chain' = Append(Chain, o),
           AncestryKnown', Rooted', \A i \in Isolated : Built(i)',
           \A p \in Members \cup {o} : Past(p)'
    PROVE  RInv' /\ RegisterStep
<1>1. SameOutcomes /\ \A p \in Ops : IsActive(p)' <=> IsActive(p)
  BY JobsKept DEF IsActive
<1>2. IsActive(o) /\ Outcome(o) = "unknown"
  BY ActiveIsUnknown DEF RInv, Progress, Unreported, Quiet, Busy
<1>3. Members' = Members \cup {o}
  <2>1. DOMAIN Chain' = DOMAIN Chain \cup {Len(Chain) + 1}
    OBVIOUS
  <2>2. Chain'[Len(Chain) + 1] = o /\ \A k \in DOMAIN Chain : Chain'[k] = Chain[k]
    BY DEF Pubs
  <2> QED
    BY <2>1, <2>2 DEF Members
<1>4. RegisterStep
  BY <1>1, <1>2 DEF RegisterStep, Publishes, SameOutcomes
<1>5. ASSUME NEW p \in Ops PROVE Unreported(p)'
  BY <1>1, <1>2 DEF RInv, Progress, Unreported
<1>6. ASSUME NEW p \in Members \cap Ops PROVE Outcome(p)' = "published"
  <2>1. CASE p = Served
    <3>1. ~Busy(p)
      BY OneAtWork
    <3> QED
      BY <1>1, <2>1, <3>1 DEF RInv, Progress, Settled, SameOutcomes
  <2>2. CASE p # Served
    BY <1>1, <2>2 DEF RInv, Progress, ChainReported, SameOutcomes
  <2> QED
    BY <2>1, <2>2
<1>7. ChainReported'
  BY <1>1, <1>2, <1>3, <1>6 DEF ChainReported
<1>8. Settled' /\ \A r \in Recoverers : Judged(r)'
  BY NobodyRecovers DEF Settled, Judged, Judging, Busy, RecAt
<1> QED
  BY <1>3, <1>4, <1>5, <1>7, <1>8 DEF RInv, Progress

LEMMA CommitPublishes ==
    ASSUME IInv, IInv', RInv, NEW o \in Ops, CommitAnalytical(o)
    PROVE  RInv' /\ RegisterStep
<1> DEFINE name == pub[o].cur.active.name
           q    == pub[o].expect.pub
           fits == /\ ValidHead(pub[o].cur.active) /\ DigestMatches(pub[o].cur.active)
                   /\ head[name] = q /\ parent[o] = None
<1>1. /\ o \in Small /\ o \notin Isolated /\ pub[o].pc = "checked" /\ Busy(o)
      /\ head' = IF fits THEN [head EXCEPT ![name] = o] ELSE head
      /\ parent' = IF fits THEN [parent EXCEPT ![o] = q] ELSE parent
      /\ Goto(o, IF fits THEN "committed" ELSE "unwind")
      /\ UNCHANGED <<jobs, rec, ptr>>
  BY DisjointAssumption DEF CommitAnalytical, At, Busy, Idle, Outside, sidecarVars
<1>2. {"committed", "unwind"} \subseteq PublisherSteps \ (Idle \cup {"ready"})
  BY DEF PublisherSteps, Idle, Outside
<1>3. /\ ptr # None /\ name = ptr.active.name /\ AncestryKnown /\ None \notin Pubs
      /\ o \in Pubs /\ Ops \subseteq Pubs /\ Isolated \subseteq Artifacts /\ Small \subseteq Ops
      /\ head \in [Artifacts -> Pubs \cup {None}] /\ parent \in [Pubs -> Pubs \cup {None}]
  BY <1>1, AbsentAssumption
  DEF IInv, Works, SmallWork, RInv, Pubs, Ops, Artifacts, Typed, FilesTyped
<1>4. CASE ~fits
  <2>1. SameServed
    BY <1>1, <1>4 DEF SameServed, IInv, Typed, FilesTyped, PointerDocument
  <2> QED
    BY <1>1, <1>2, <1>4, <2>1, WorkGoes
<1>5. CASE fits
  <2>1. /\ name \in Artifacts /\ Served = q /\ q \in Pubs /\ head[name] = q /\ parent[o] = None
        /\ Chain = ancestry[q] /\ Chain \in Seq(Pubs)
    BY <1>3, <1>5, ServedIs
  <2>2. /\ head' = [head EXCEPT ![name] = o] /\ parent' = [parent EXCEPT ![o] = q]
        /\ Goto(o, "committed")
    BY <1>1, <1>5
  <2> HIDE DEF fits
  <2>3. q # o /\ \A p \in Pubs : parent[p] # o
    BY <1>1, <2>1 DEF RInv, Progress, Rooted, Made
  <2>4. AncestryKnown' /\ ancestry'[o] = Append(ancestry[q], o)
    BY <1>3, <2>1, <2>2, <2>3, AncestryGrows
  <2>5. /\ pub'[o].pc = "committed" /\ Busy(o)'
        /\ \A p \in Ops \ {o} : pub'[p] = pub[p]
    BY <1>2, <2>2, GotoKeeps DEF OnlyPublisher, Busy
  <2>6. Served' = o /\ Chain' = Append(Chain, o)
    BY <1>1, <1>3, <2>1, <2>2, <2>4 DEF Served, Chain
  <2>7. o \notin Members
    BY <1>1, <2>1 DEF RInv, Progress, Past
  <2>8. \A x \in Ops : Made(x) => Made(x)'
    BY <1>1, <1>3, <2>1, <2>2 DEF Made, Ops
  <2>9. Rooted'
    <3>1. Made(o)'
      BY <1>1, <1>3, <2>1, <2>2 DEF Made
    <3>2. ASSUME NEW x \in Ops, NEW p \in Pubs, parent'[p] = x PROVE Made(x)'
      BY <1>3, <2>1, <2>2, <2>8, <3>2 DEF RInv, Progress, Rooted
    <3>3. ASSUME NEW x \in Ops, NEW a \in Artifacts, head'[a] = x PROVE Made(x)'
      BY <1>3, <2>1, <2>2, <2>8, <3>1, <3>3 DEF RInv, Progress, Rooted
    <3> QED
      BY <3>2, <3>3 DEF Rooted
  <2>10. \A i \in Isolated : Built(i)'
    BY <1>1, <1>3, <2>1, <2>2, <2>5 DEF RInv, Progress, Built, Ops
  <2>11. ASSUME NEW p \in Members \cup {o} PROVE Past(p)'
    <3>1. CASE p = o
      BY <1>1, <1>3, <2>1, <2>2, <3>1 DEF Past
    <3>2. CASE p # o
      <4>1. Past(p)
        BY <3>2 DEF RInv, Progress
      <4>2. p \in Pubs
        BY <1>3, <3>2, ServedIs
      <4> QED
        BY <1>1, <1>3, <2>1, <2>2, <2>5, <3>2, <4>1, <4>2 DEF Past, Ops
    <3> QED
      BY <3>1, <3>2
  <2> QED
    BY <1>1, <2>1, <2>4, <2>5, <2>6, <2>7, <2>9, <2>10, <2>11, PublishStep
<1> QED
  BY <1>4, <1>5

LEMMA PromotionPublishes ==
    ASSUME IInv, IInv', RInv, NEW o \in Ops, WritePointerIsolated(o)
    PROVE  RInv' /\ RegisterStep
<1>1. /\ o \in Isolated /\ o \notin Small /\ pub[o].pc = "fenced" /\ Busy(o)
      /\ ptr' = PromotedPointer(o) /\ Goto(o, "written")
      /\ UNCHANGED <<jobs, rec, head, parent>>
  BY DisjointAssumption DEF WritePointerIsolated, At, Busy, Idle, Outside, sidecarVars
<1>2. /\ PointerExpected(o) /\ head[o] = o /\ AncestryKnown /\ None \notin Pubs
      /\ o \in Pubs /\ o \in Artifacts
      /\ ptr # None => head[ptr.active.name] = ptr.active.pub
      /\ pub[o].expect.gen \in Nat
      /\ pub[o].back \in PointerArtifact \cup {None}
  BY <1>1, AbsentAssumption
  DEF IInv, Works, IsolatedWork, RInv, Pubs, Ops, Artifacts, Typed, ProcessesTyped,
      PublisherState, Expectation
<1>3. "written" \in PublisherSteps \ (Idle \cup {"ready"})
  BY DEF PublisherSteps, Idle, Outside
<1>4. /\ pub'[o].pc = "written" /\ Busy(o)' /\ pub'[o].expect = pub[o].expect
      /\ \A p \in Ops \ {o} : pub'[p] = pub[p]
  BY <1>1, <1>3, GotoKeeps DEF OnlyPublisher, Busy
<1>5. ptr'.gen = pub[o].expect.gen + 1 /\ ptr'.active.name = o /\ ptr' # None
  <2>1. PromotedPointer(o) \in PointerDocument
    BY <1>2 DEF PromotedPointer, PointerDocument, PointerArtifact
  <2>2. PromotedPointer(o) # None
    BY <2>1, AbsentAssumption
  <2> QED
    BY <1>1, <2>2 DEF PromotedPointer
<1>6. ancestry' = ancestry /\ AncestryKnown' /\ Served' = o
  BY <1>1, <1>2, <1>5, AncestryFrame DEF Served
<1>7. ancestry[o] = IF pub[o].expect.pub = None THEN <<o>>
                    ELSE Append(ancestry[pub[o].expect.pub], o)
  BY <1>1, <1>2, AncestryAt DEF RInv, Progress, Built
<1>8. Chain' = Append(Chain, o) /\ Chain \in Seq(Pubs) /\ o \notin Members
  <2>1. Chain' = ancestry[o]
    BY <1>5, <1>6 DEF Chain
  <2>2. CASE ptr = None
    <3>1. Chain = <<>> /\ Members = {} /\ pub[o].expect.pub = None
      BY <1>2, <2>2 DEF Chain, Members, PointerExpected
    <3> QED
      BY <1>7, <2>1, <3>1
  <2>3. CASE ptr # None
    <3>1. /\ pub[o].expect.pub = ptr.active.pub /\ pub[o].expect.gen = ptr.gen
          /\ Served = ptr.active.pub /\ Served \in Pubs
          /\ Chain = ancestry[Served] /\ Chain \in Seq(Pubs)
      BY <1>2, <2>3, ServedIs DEF PointerExpected
    <3>2. o \notin Members
      BY <1>1, <1>2, <3>1 DEF RInv, Progress, Past
    <3> QED
      BY <1>2, <1>7, <2>1, <3>1, <3>2
  <2> QED
    BY <2>2, <2>3
<1>9. Rooted' /\ \A i \in Isolated : Built(i)'
  BY <1>1, <1>4 DEF RInv, Progress, Rooted, Made, Built, Ops
<1>10. ASSUME NEW p \in Members \cup {o} PROVE Past(p)'
  <2>1. CASE p = o
    BY <1>1, <1>2, <1>4, <1>5, <2>1 DEF Past
  <2>2. CASE p # o
    <3>1. Past(p) /\ ptr # None
      BY <2>2 DEF RInv, Progress, Members, Chain
    <3>2. ptr.gen = pub[o].expect.gen
      BY <1>2, <3>1 DEF PointerExpected
    <3>3. p \in Isolated => pub[p].expect.gen \in Nat /\ pub'[p] = pub[p]
      BY <1>4, <2>2 DEF IInv, Typed, ProcessesTyped, PublisherState, Expectation, Ops
    <3> QED
      BY <1>1, <1>2, <1>5, <3>1, <3>2, <3>3 DEF Past
  <2> QED
    BY <2>1, <2>2
<1> QED
  BY <1>1, <1>4, <1>6, <1>8, <1>9, <1>10, PublishStep

LEMMA ForceOutcome ==
    ASSUME IInv, NEW o \in Ops, IsActive(o), NEW s, NEW p \in Pubs \cup {None}, NEW now \in Nat,
           ForceTerminal(o, s, p, now)
    PROVE  /\ Outcome(o)' = IF s = "completed" THEN "published" ELSE "abandoned"
           /\ \A q \in Ops \ {o} : jobs'[q] = jobs[q]
<1> DEFINE row == [jobs[o] EXCEPT !.state = s, !.worker = None, !.heartbeat = None,
                                  !.updated = now, !.terminal = p]
<1>1. jobs[o] \in Job /\ ~IsTerminal(o)
  BY JobKinds DEF IInv, Typed, IsActive
<1>2. s \in TerminalStates /\ jobs' = [jobs EXCEPT ![o] = row]
  BY <1>1 DEF ForceTerminal
<1>3. row \in Job /\ row.state = s
  BY <1>1, <1>2 DEF Job, JobStates
<1> HIDE DEF row
<1>4. jobs'[o] = row /\ row # None /\ \A q \in Ops \ {o} : jobs'[q] = jobs[q]
  BY <1>2, <1>3, AbsentAssumption DEF IInv, Typed, StoreTyped, StoreTypeOK
<1> QED
  BY <1>2, <1>3, <1>4 DEF Outcome, JobIn, TerminalStates

LEMMA CompleteReports ==
    ASSUME IInv, IInv', RInv, NEW o \in Ops, Complete(o)
    PROVE  RInv' /\ RegisterStep
<1>1. /\ pub[o].pc \in {"recorded", "reconciled"} /\ Busy(o)
      /\ o \in Small => pub[o].pc = "recorded"
      /\ UNCHANGED <<fileVars, rec>>
  BY DEF Complete, At, Busy, Idle, Outside
<1>2. "unwind" \in PublisherSteps /\ SameServed
  BY <1>1, FilesKept DEF PublisherSteps
<1>3. ptr # None /\ Served = o
  <2>1. Works(o)
    BY DEF IInv
  <2> QED
    BY <1>1, <2>1 DEF Works, SmallWork, IsolatedWork, Served, Ops
<1>4. IsActive(o) /\ Outcome(o) = "unknown"
  BY <1>1, ActiveIsUnknown DEF RInv, Progress, Unreported, Quiet, Busy
<1>5. CASE ForceTerminal(o, "completed", o, pub[o].now) /\ Goto(o, "unwind")
  <2>1. pub[o].now \in Nat /\ o \in Pubs \cup {None}
    BY DEF IInv, Typed, ProcessesTyped, PublisherState, Pubs
  <2>2. Outcome(o)' = "published" /\ \A p \in Ops \ {o} : jobs'[p] = jobs[p]
    BY <1>4, <1>5, <2>1, ForceOutcome
  <2>3. /\ pub'[o].pc = "unwind" /\ pub'[o].expect = pub[o].expect
        /\ \A p \in Ops \ {o} : pub'[p] = pub[p]
    BY <1>2, <1>5, GotoKeeps DEF OnlyPublisher
  <2>4. o \in Members /\ Served' = o
    BY <1>2, <1>3, ServedIs, ServedFrame DEF RInv
  <2>5. \A p \in Ops : Unreported(p)'
    BY <2>2, <2>3 DEF RInv, Progress, Unreported, Quiet, IsActive
  <2>6. Settled' /\ \A r \in Recoverers : Judged(r)'
    BY <2>2, <2>4 DEF Settled, Judged
  <2>7. SamePlans
    BY <2>3 DEF SamePlans, Ops
  <2> QED
    BY <1>2, <1>4, <2>2, <2>4, <2>5, <2>6, <2>7, ReportStep
<1>6. CASE Raise(o)
  BY <1>1, <1>2, <1>6, WorkGoes DEF Raise, sidecarVars, Idle, Outside
<1> QED
  BY <1>5, <1>6 DEF Complete

-----------------------------------------------------------------------------
(* The host: processes that stop, start and get ready.                       *)

LEMMA JudgedFrame ==
    ASSUME RInv, SameServed, SameOutcomes, rec' = rec
    PROVE  \A r \in Recoverers : Judged(r)'
BY ServedFrame DEF RInv, Progress, Judged, SameOutcomes

\* A process that is gone leaves its operation to a recovery that is due.
LEMMA StopKeeps ==
    ASSUME IInv, IInv', RInv, NEW o \in Ops, pub' = Stopped(o),
           UNCHANGED <<fileVars, jobs, rec>>, dirty => dirty',
           Busy(o) /\ IsActive(o) => dirty'
    PROVE  RInv' /\ RegisterStep
<1>1. SameServed /\ SameOutcomes /\ Served' = Served
  BY FilesKept, JobsKept, ServedFrame
<1>2. /\ pub'[o].pc = "stopped" /\ \A p \in Ops \ {o} : pub'[p] = pub[p]
      /\ SamePlans
  BY StoppedIs DEF OnlyPublisher, SamePlans, Ops
<1>3. \A p \in Ops : Unreported(p)'
  BY <1>1, <1>2 DEF RInv, Progress, Unreported, Quiet, Idle, Outside, SameOutcomes
<1>4. \A p \in Ops : Busy(p)' <=> p # o /\ Busy(p)
  BY <1>2 DEF Busy, Idle, Outside
<1>5. Settled'
  <2> SUFFICES ASSUME Served \in Ops, Outcome(Served)' # "published"
               PROVE  Busy(Served)' \/ (dirty' /\ \A p \in Ops : ~Busy(p)')
    BY <1>1 DEF Settled
  <2>1. Outcome(Served) # "published" /\ ptr # None
    BY <1>1, AbsentAssumption DEF SameOutcomes, Served
  <2>2. CASE Busy(Served)
    <3>1. IsActive(Served)
      BY <2>1, ServedIs DEF RInv, Progress, ChainReported
    <3>2. \A p \in Ops : Busy(p) => p = Served
      BY <2>2, OneAtWork
    <3> QED
      BY <1>1, <1>4, <2>2, <3>1, <3>2 DEF Busy
  <2>3. CASE dirty /\ \A p \in Ops : ~Busy(p)
    BY <1>4, <2>3
  <2> QED
    BY <2>1, <2>2, <2>3 DEF RInv, Progress, Settled
<1> QED
  BY <1>1, <1>2, <1>3, <1>5, JudgedFrame, QuietStep

\* A process that is not at work, before and after.
LEMMA HostKeeps ==
    ASSUME IInv, IInv', RInv, NEW o \in Ops, ~Busy(o), ~Busy(o)',
           \A p \in Ops \ {o} : pub'[p] = pub[p],
           o \in Isolated => pub'[o].expect = pub[o].expect,
           SameServed, SameOutcomes, UNCHANGED <<rec, dirty>>, Unreported(o)'
    PROVE  RInv' /\ RegisterStep
<1>1. SamePlans /\ Served' = Served
  BY ServedFrame DEF SamePlans, Ops
<1>2. \A p \in Ops : Unreported(p)'
  BY DEF RInv, Progress, Unreported, SameOutcomes
<1>3. \A p \in Ops : Busy(p)' <=> Busy(p)
  BY DEF Busy
<1>4. Settled'
  BY <1>1, <1>3 DEF RInv, Progress, Settled, SameOutcomes, Busy
<1> QED
  BY <1>1, <1>2, <1>4, JudgedFrame, QuietStep

LEMMA UnwindKeeps ==
    ASSUME IInv, IInv', RInv, RecoversFirst, NEW o \in Ops, Unwind(o)
    PROVE  RInv' /\ RegisterStep
<1>1. /\ pub[o].pc = "unwind" /\ UNCHANGED <<fileVars, jobs, rec>>
      /\ pub' = IF pub[o].promotion = None THEN Stopped(o)
                ELSE [pub EXCEPT ![o].promotion = None]
      /\ dirty' = (dirty \/ (Recovery = "first" /\ pub[o].promotion = None /\ IsActive(o)))
  BY DEF Unwind, At, ReleaseLease, sidecarVars
<1>2. CASE pub[o].promotion = None
  BY <1>1, <1>2, StopKeeps DEF RecoversFirst
<1>3. CASE pub[o].promotion # None
  <2>1. pub \in [Ops -> PublisherState] /\ pub[o] \in PublisherState
    BY DEF IInv, Typed, ProcessesTyped
  <2>2. /\ pub'[o].pc = "unwind" /\ pub'[o].expect = pub[o].expect
        /\ \A p \in Ops \ {o} : pub'[p] = pub[p]
    BY <1>1, <1>3, <2>1 DEF PublisherState
  <2> QED
    BY <1>1, <2>2, WorkKeeps, FilesKept, JobsKept DEF Busy, Idle, Outside
<1> QED
  BY <1>2, <1>3

LEMMA CrashKeeps ==
    ASSUME IInv, IInv', RInv, RecoversFirst, NEW o \in Ops, Crash(o)
    PROVE  RInv' /\ RegisterStep
BY StopKeeps DEF Crash, RecoversFirst, sidecarVars

LEMMA PlanKeeps ==
    ASSUME IInv, IInv', RInv, NEW o \in Ops, Plan(o)
    PROVE  RInv' /\ RegisterStep
<1> DEFINE row == [state |-> "planned", worker |-> None, heartbeat |-> None,
                   created |-> clock, updated |-> clock, candidate |-> None, terminal |-> None]
<1>1. /\ pub[o].pc = "idle" /\ Goto(o, "planned") /\ UNCHANGED <<fileVars, rec, dirty>>
      /\ jobs[o] = None /\ jobs' = [jobs EXCEPT ![o] = row]
  BY DEF Plan, At, StartJob
<1>2. /\ pub'[o].pc = "planned" /\ pub'[o].expect = pub[o].expect
      /\ \A p \in Ops \ {o} : pub'[p] = pub[p]
  <2>1. "planned" \in PublisherSteps
    BY DEF PublisherSteps
  <2> QED
    BY <1>1, <2>1, GotoKeeps DEF OnlyPublisher
<1>3. row.state = "planned"
  OBVIOUS
<1> HIDE DEF row
<1>4. SameOutcomes
  BY <1>1, <1>3
  DEF SameOutcomes, Outcome, JobIn, IsActive, IInv, Typed, StoreTyped, StoreTypeOK
<1> QED
  BY <1>1, <1>2, <1>4, HostKeeps, FilesKept DEF Busy, Idle, Outside, Unreported, Quiet

LEMMA RetryKeeps ==
    ASSUME IInv, IInv', RInv, NEW o \in Ops, Retry(o)
    PROVE  RInv' /\ RegisterStep
<1>1. pub[o].pc = "stopped" /\ UNCHANGED <<fileVars, jobs, rec, dirty>>
  BY DEF Retry, At, sidecarVars
<1>2. pub \in [Ops -> PublisherState] /\ pub[o] \in PublisherState
  BY DEF IInv, Typed, ProcessesTyped
<1>3. /\ pub'[o].pc = "planned" /\ pub'[o].expect = pub[o].expect
      /\ \A p \in Ops \ {o} : pub'[p] = pub[p]
  BY <1>2 DEF Retry, PublisherState
<1> QED
  BY <1>1, <1>3, HostKeeps, FilesKept, JobsKept DEF Busy, Idle, Outside, Unreported, Quiet

LEMMA BeatKeeps ==
    ASSUME IInv, IInv', RInv, NEW o \in Ops, Beat(o)
    PROVE  RInv' /\ RegisterStep
<1> DEFINE row == [jobs[o] EXCEPT !.heartbeat = clock]
<1>1. /\ pub[o].pc = "ready" /\ UNCHANGED <<fileVars, pub, rec, dirty>>
      /\ IsActive(o) /\ jobs' = [jobs EXCEPT ![o] = row]
  BY DEF Beat, At, HeartbeatJob
<1>2. row \in Job /\ row.state = jobs[o].state /\ row # None
  <2>1. jobs[o] \in Job /\ clock \in Nat
    BY <1>1, JobKinds DEF IInv, Typed, ProcessesTyped, IsActive
  <2>2. row \in Job /\ row.state = jobs[o].state
    BY <2>1 DEF Job
  <2> HIDE DEF row
  <2> QED
    BY <2>2, AbsentAssumption
<1> HIDE DEF row
<1>3. jobs'[o] = row /\ \A p \in Ops \ {o} : jobs'[p] = jobs[p]
  BY <1>1 DEF IInv, Typed, StoreTyped, StoreTypeOK
<1>4. SameOutcomes
  BY <1>1, <1>2, <1>3 DEF SameOutcomes, Outcome, JobIn, IsActive
<1>5. Unreported(o)'
  BY <1>1, <1>4 DEF Unreported, SameOutcomes
<1> QED
  BY <1>1, <1>4, <1>5, HostKeeps, FilesKept DEF Busy

\* A host that recovers first starts no work while its last operation in the
\* chain awaits a recovery.
LEMMA NothingDue ==
    ASSUME RInv, RecoversFirst, MayPublish, Served \in Ops, Outcome(Served) # "published"
    PROVE  Busy(Served)
BY AbsentAssumption DEF RInv, Progress, Settled, RecoversFirst, MayPublish, Served

LEMMA BeginKeeps ==
    ASSUME IInv, IInv', RInv, RecoversFirst, NEW o \in Ops, Begin(o)
    PROVE  RInv' /\ RegisterStep
<1>1. /\ pub[o].pc = "ready" /\ MayPublish /\ UNCHANGED <<fileVars, rec, dirty>>
      /\ AcquireLease("analytical_writer", o, WorkerOf(o), clock, Alive)
  BY DEF Begin, At
<1>2. /\ pub \in [Ops -> PublisherState] /\ pub[o] \in PublisherState
      /\ clock \in Nat /\ "analytical_writer" \in LeaseNames
  BY DEF IInv, Typed, ProcessesTyped, LeaseNames
<1>3. /\ pub'[o].pc \in {"locked", "writer"} /\ pub'[o].expect = pub[o].expect
      /\ \A p \in Ops \ {o} : pub'[p] = pub[p]
  BY <1>2 DEF Begin, PublisherState
<1>4. SameOutcomes /\ SameServed /\ Served' = Served /\ SamePlans
  BY <1>1, <1>2, <1>3, AcquireOutcomes, FilesKept, ServedFrame DEF SamePlans, Ops
<1>5. \A p \in Ops : Unreported(p)'
  BY <1>1, <1>3, <1>4 DEF RInv, Progress, Unreported, SameOutcomes, Quiet, Idle, Outside
<1>6. Settled'
  BY <1>3, <1>1, <1>4, NothingDue DEF Settled, Busy, Idle, Outside, SameOutcomes
<1> QED
  BY <1>1, <1>4, <1>5, <1>6, JudgedFrame, QuietStep

\* A candidate is built on what readers see, and not seen before it is promoted.
LEMMA BuildKeeps ==
    ASSUME IInv, IInv', RInv, NEW o \in Isolated, head[o] = None,
           NEW q \in Pubs \cup {None}, q = IF ptr = None THEN None ELSE ptr.active.pub,
           head' = [head EXCEPT ![o] = o], parent' = [parent EXCEPT ![o] = q],
           ptr' = ptr, pub'[o].expect.pub = q,
           \A p \in Isolated \ {o} : pub'[p] = pub[p]
    PROVE  /\ AncestryKnown' /\ Rooted' /\ \A i \in Isolated : Built(i)'
           /\ \A p \in Members' : Past(p)'
           /\ Served' = Served /\ Chain' = Chain /\ Members' = Members
<1>1. /\ o \in Pubs /\ o \in Artifacts /\ o \in Ops /\ o \notin Small /\ None \notin Pubs
      /\ o # Base /\ Ops \subseteq Pubs /\ Isolated \subseteq Artifacts /\ AncestryKnown
      /\ head \in [Artifacts -> Pubs \cup {None}] /\ parent \in [Pubs -> Pubs \cup {None}]
  BY DisjointAssumption, AbsentAssumption
  DEF Pubs, Ops, Artifacts, IInv, Typed, FilesTyped, RInv
<1>2. parent[o] = None /\ ~Made(o)
  BY <1>1 DEF RInv, Progress, Built, Made
<1>3. (\A p \in Pubs : parent[p] # o) /\ (\A a \in Artifacts : head[a] # o)
  BY <1>1, <1>2 DEF RInv, Progress, Rooted
<1>4. ptr # None => /\ ptr.active.name \in Artifacts /\ Served = head[ptr.active.name]
                    /\ Served \in Pubs \ {o}
                    /\ q = Served \/ q = parent[Served]
                    /\ Members \subseteq Pubs
  BY <1>1, <1>3, ServedIs DEF IInv, PointerServes
<1>5. q # o
  BY <1>1, <1>3, <1>4
<1>6. AncestryKnown' /\ \A p \in Pubs \ {o} : ancestry'[p] = ancestry[p]
  <2>1. CASE q = None
    <3>1. parent' = parent
      BY <1>1, <1>2, <2>1
    <3> QED
      BY <1>1, <3>1, AncestryFrame
  <2>2. CASE q # None
    BY <1>1, <1>2, <1>3, <1>5, <2>2, AncestryGrows
  <2> QED
    BY <2>1, <2>2
<1>7. Served' = Served
  BY <1>1, <1>2, <1>4 DEF Served, Made
<1>8. Chain' = Chain /\ Members' = Members
  BY <1>4, <1>6, <1>7 DEF Chain, Members
<1>9. \A x \in Ops : Made(x) => Made(x)'
  BY <1>1, <1>2 DEF Made, Ops
<1>10. Rooted'
  <2>1. Made(o)'
    BY <1>1 DEF Made
  <2>2. ASSUME NEW x \in Ops, NEW p \in Pubs, parent'[p] = x PROVE Made(x)'
    <3>1. CASE p = o
      BY <1>1, <1>4, <1>9, <2>2, <3>1 DEF RInv, Progress, Rooted
    <3>2. CASE p # o
      BY <1>1, <1>9, <2>2, <3>2 DEF RInv, Progress, Rooted
    <3> QED
      BY <3>1, <3>2
  <2>3. ASSUME NEW x \in Ops, NEW a \in Artifacts, head'[a] = x PROVE Made(x)'
    BY <1>1, <1>9, <2>1, <2>3 DEF RInv, Progress, Rooted
  <2> QED
    BY <2>2, <2>3 DEF Rooted
<1>11. ASSUME NEW i \in Isolated PROVE Built(i)'
  <2>1. i \in Pubs /\ i \in Artifacts
    BY <1>1 DEF Ops
  <2>2. Built(i)
    BY DEF RInv, Progress
  <2> QED
    BY <1>1, <2>1, <2>2 DEF Built
<1>12. ASSUME NEW p \in Members PROVE Past(p)'
  <2>1. Past(p) /\ ptr # None /\ p \in Pubs
    BY <1>4 DEF RInv, Progress, Members, Chain
  <2>2. p # o
    BY <1>1, <2>1 DEF Past
  <2> QED
    BY <1>1, <2>1, <2>2 DEF Past
<1> QED
  BY <1>6, <1>7, <1>8, <1>10, <1>11, <1>12

LEMMA PrepareKeeps ==
    ASSUME IInv, IInv', RInv, RecoversFirst, NEW o \in Ops, Prepare(o)
    PROVE  RInv' /\ RegisterStep
<1> DEFINE seen  == IF ptr = None THEN NoExpectation
                    ELSE [gen |-> ptr.gen, pub |-> ptr.active.pub, name |-> ptr.active.name]
           build == o \in Isolated /\ head[o] = None
           plan  == IF o \in Small \/ build THEN seen ELSE pub[o].expect
           job   == [jobs[o] EXCEPT !.state     = IF o \in Small THEN "writing" ELSE "promoting",
                                    !.worker    = WorkerOf(o),
                                    !.heartbeat = clock,
                                    !.updated   = clock,
                                    !.candidate = IF o \in Small THEN None ELSE o]
<1>1. /\ pub[o].pc = "planned" /\ IsActive(o)
      /\ pub' = [pub EXCEPT ![o].pc = "ready", ![o].expect = plan]
      /\ head' = IF build THEN [head EXCEPT ![o] = o] ELSE head
      /\ parent' = IF build THEN [parent EXCEPT ![o] = seen.pub] ELSE parent
      /\ jobs' = [jobs EXCEPT ![o] = job]
      /\ UNCHANGED <<ptr, rec, dirty>>
  BY DEF Prepare, At
<1>2. job \in Job /\ job.state \in {"writing", "promoting"} /\ job # None
  <2>1. jobs[o] \in Job /\ clock \in Nat /\ WorkerOf(o) \in Workers
    BY <1>1, JobKinds
    DEF IInv, Typed, ProcessesTyped, IsActive, PublisherState, WorkerOf, Workers
  <2>2. o \notin Small => o \in Artifacts
    BY DEF Ops, Artifacts
  <2>3. job \in Job /\ job.state \in {"writing", "promoting"}
    BY <2>1, <2>2 DEF Job, JobStates, ActiveStates
  <2> HIDE DEF job
  <2> QED
    BY <2>3, AbsentAssumption
<1> HIDE DEF job
<1>3. SameOutcomes
  <2>1. jobs'[o] = job /\ \A p \in Ops \ {o} : jobs'[p] = jobs[p]
    BY <1>1 DEF IInv, Typed, StoreTyped, StoreTypeOK
  <2> QED
    BY <1>1, <1>2, <2>1, ActiveIsUnknown
    DEF SameOutcomes, Outcome, JobIn, IsActive, ActiveStates
<1> HIDE DEF plan
<1>4. /\ pub'[o].pc = "ready" /\ pub'[o].expect = plan
      /\ \A p \in Ops \ {o} : pub'[p] = pub[p]
  BY <1>1 DEF IInv, Typed, ProcessesTyped, PublisherState
<1>5. Unreported(o)' /\ ~Busy(o) /\ ~Busy(o)'
  BY <1>1, <1>3, <1>4 DEF Unreported, SameOutcomes, Busy, Idle, Outside
<1>6. CASE ~build
  <2>1. o \in Isolated => plan = pub[o].expect
    BY <1>6, DisjointAssumption DEF plan
  <2>2. SameServed
    BY <1>1, <1>6 DEF SameServed, IInv, Typed, FilesTyped, PointerDocument
  <2> QED
    BY <1>1, <1>3, <1>4, <1>5, <2>1, <2>2, HostKeeps
<1>7. CASE build
  <2>1. /\ seen.pub = IF ptr = None THEN None ELSE ptr.active.pub
        /\ seen.pub \in Pubs \cup {None} /\ plan = seen
    BY <1>7 DEF plan, NoExpectation, IInv, Typed, FilesTyped, PointerDocument, PointerArtifact
  <2>2. /\ AncestryKnown' /\ Rooted' /\ \A i \in Isolated : Built(i)'
        /\ \A p \in Members' : Past(p)'
        /\ Served' = Served /\ Chain' = Chain /\ Members' = Members
    BY <1>1, <1>4, <1>7, <2>1, BuildKeeps DEF Ops
  <2>3. \A p \in Ops : Unreported(p)' /\ (Busy(p)' <=> Busy(p))
    BY <1>3, <1>4, <1>5 DEF RInv, Progress, Unreported, SameOutcomes, Busy
  <2>4. ChainReported' /\ RegisterStep
    BY <1>3, <2>2 DEF RInv, Progress, ChainReported, SameOutcomes, RegisterStep
  <2>5. Settled'
    BY <1>1, <1>3, <2>2, <2>3 DEF RInv, Progress, Settled, SameOutcomes, Busy
  <2>6. \A r \in Recoverers : Judged(r)'
    BY <1>1, <1>3, <2>2 DEF RInv, Progress, Judged, SameOutcomes
  <2> QED
    BY <2>2, <2>3, <2>4, <2>5, <2>6 DEF RInv, Progress
<1> QED
  BY <1>6, <1>7

LEMMA PublisherRegisters ==
    ASSUME IInv, IInv', RInv, RecoversFirst, NEW o \in Ops, Publisher(o)
    PROVE  RInv' /\ RegisterStep
BY BeginKeeps, SmallWorks, IsolatedWorks, CommitPublishes, PromotionPublishes, CompleteReports,
   UnwindKeeps
DEF Publisher, PublishSmall, Promote

LEMMA HostRegisters ==
    ASSUME IInv, IInv', RInv, RecoversFirst, NEW o \in Ops,
           Plan(o) \/ Prepare(o) \/ Beat(o) \/ Crash(o) \/ Retry(o)
    PROVE  RInv' /\ RegisterStep
BY PlanKeeps, PrepareKeeps, BeatKeeps, CrashKeeps, RetryKeeps

-----------------------------------------------------------------------------
(* Recovery. *)

\* What a recovery selects is what readers see.
LEMMA SelectedIs ==
    ASSUME IInv, RecoversFirst, NEW r \in Recoverers, rec[r].pc \in Late \cup {"selected"}
    PROVE  /\ ptr # None /\ rec[r].sel.head = Served
           /\ rec[r].sel.name = ptr.active.name /\ ptr.gen <= rec[r].ptr.gen + 1
           /\ rec[r].ptr \in PointerDocument /\ rec[r].sel \in Choice
<1>1. /\ ptr # None /\ Follows(rec[r].ptr) /\ rec[r].ptr \in PointerDocument
      /\ rec[r].sel \in Choice
      /\ rec[r].sel.name = rec[r].ptr.active.name /\ rec[r].sel.head = head[rec[r].sel.name]
  BY DEF IInv, RecoveryTyped, PageTyped, RecoveryWorks, Late, RecoversFirst, Resting
<1>2. rec[r].ptr.gen \in Nat
  BY <1>1 DEF PointerDocument
<1> QED
  BY <1>1, <1>2 DEF Follows, RepairedPointer, Served

\* A recovery that reports nothing.
LEMMA RecoveryKeeps ==
    ASSUME IInv, IInv', RInv, NEW r \in Recoverers, \A o \in Ops : pub[o].pc \in Idle,
           pub' = pub, \A q \in Recoverers \ {r} : rec'[q] = rec[q],
           SameServed, SameOutcomes,
           dirty => dirty' \/ rec[r].pc \in Judging,
           rec[r].pc \in Judging \/ rec'[r].pc \notin Judging
    PROVE  RInv' /\ RegisterStep
<1>1. Served' = Served
  BY ServedFrame
<1>2. SamePlans /\ \A o \in Ops : Unreported(o)'
  BY DEF SamePlans, Unreported, Quiet
<1>3. Settled'
  BY <1>1 DEF RInv, Progress, Settled, Judged, SameOutcomes, Busy
<1>4. \A q \in Recoverers : Judged(q)'
  BY <1>1 DEF RInv, Progress, Judged, SameOutcomes
<1> QED
  BY <1>2, <1>3, <1>4, QuietStep

LEMMA RaiseKeeps ==
    ASSUME IInv, IInv', RInv, NEW r \in Recoverers, rec[r].pc # "idle", RecRaise(r),
           UNCHANGED <<fileVars, pub, dirty>>
    PROVE  RInv' /\ RegisterStep
<1>1. rec'[r].pc = "raised" /\ \A q \in Recoverers \ {r} : rec'[q] = rec[q]
  BY DEF RecRaise, Rest, IdleRecoverer, IInv, Typed, ProcessesTyped
<1>2. jobs' = jobs
  BY DEF RecRaise, sidecarVars
<1> QED
  BY <1>1, <1>2, NobodyPublishes, RecoveryKeeps, FilesKept, JobsKept DEF Judging

\* A recovery that reported what readers see judges the rest: whoever is still
\* active is not in the chain, and will not be.
LEMMA TerminaliseKeeps ==
    ASSUME IInv, IInv', RInv, NEW r \in Recoverers, rec[r].pc \in Judging,
           NEW o \in Ops, NEW s \in {"failed", "rolled_back"}, NEW next,
           Terminalise(r, o, s, None, next), UNCHANGED <<fileVars, pub, dirty>>
    PROVE  RInv' /\ RegisterStep
<1>1. rec[r].pc # "idle" /\ \A p \in Ops : pub[p].pc \in Idle
  BY NobodyPublishes DEF Judging
<1>2. SameServed /\ Served' = Served /\ rec \in [Recoverers -> RecovererState] /\ rec[r].now \in Nat
  BY FilesKept, ServedFrame DEF IInv, Typed, ProcessesTyped, RecovererState
<1>3. CASE /\ IsActive(o) /\ ForceTerminal(o, s, None, rec[r].now)
           /\ rec' = [rec EXCEPT ![r] = next]
  <2>1. Outcome(o) = "unknown" /\ Outcome(o)' = "abandoned"
        /\ \A p \in Ops \ {o} : jobs'[p] = jobs[p]
    BY <1>2, <1>3, ActiveIsUnknown, ForceOutcome
  <2>2. Served \in Ops => Outcome(Served) = "published"
    BY DEF RInv, Progress, Judged
  <2>3. o \notin Members
    BY <2>1, <2>2 DEF RInv, Progress, ChainReported
  <2>4. \A p \in Ops : Outcome(p) = "published" => Outcome(p)' = "published"
    BY <2>1 DEF Outcome, JobIn
  <2>5. SamePlans /\ \A p \in Ops : Unreported(p)'
    BY <1>1 DEF SamePlans, Unreported, Quiet
  <2>6. Settled' /\ \A q \in Recoverers : Judged(q)'
    BY <1>2, <2>2, <2>4 DEF Settled, Judged
  <2> QED
    BY <1>2, <2>1, <2>3, <2>5, <2>6, ReportStep
<1>4. CASE RecRaise(r)
  BY <1>1, <1>4, RaiseKeeps
<1>5. CASE rec' = [rec EXCEPT ![r] = next] /\ UNCHANGED sidecarVars
  <2>1. jobs' = jobs /\ \A q \in Recoverers \ {r} : rec'[q] = rec[q]
    BY <1>2, <1>5 DEF sidecarVars
  <2> QED
    BY <1>1, <1>2, <2>1, RecoveryKeeps, JobsKept
<1> QED
  BY <1>3, <1>4, <1>5 DEF Terminalise

LEMMA CompleteSelectedReports ==
    ASSUME IInv, IInv', RInv, RecoversFirst, NEW r \in Recoverers, CompleteSelected(r)
    PROVE  RInv' /\ RegisterStep
<1>0. PICK o : o = rec[r].sel.head
  OBVIOUS
<1>1. rec[r].pc = "status" /\ UNCHANGED <<fileVars, pub, dirty>>
  BY DEF CompleteSelected, RecAt
<1>2. \A p \in Ops : pub[p].pc \in Idle
  BY <1>1, NobodyPublishes
<1>3. ptr # None /\ o = Served
  BY <1>0, <1>1, SelectedIs DEF Late, RecoverySteps, Resting
<1>4. /\ SameServed /\ Served' = Served /\ Served \in Members
      /\ rec \in [Recoverers -> RecovererState] /\ rec[r].now \in Nat
      /\ SamePlans /\ \A p \in Ops : Unreported(p)'
  BY <1>1, <1>2, <1>3, FilesKept, ServedIs, ServedFrame
  DEF IInv, Typed, ProcessesTyped, RecovererState, SamePlans, Unreported, Quiet, RInv
<1>5. CASE o \in Ops /\ IsActive(o)
  <2>1. CASE ForceTerminal(o, "completed", o, rec[r].now)
    <3>1. Outcome(o) = "unknown" /\ Outcome(o)' = "published"
          /\ \A p \in Ops \ {o} : jobs'[p] = jobs[p]
      BY <1>4, <1>5, <2>1, ActiveIsUnknown, ForceOutcome DEF Pubs
    <3>2. Settled' /\ \A q \in Recoverers : Judged(q)'
      BY <1>3, <1>4, <3>1 DEF Settled, Judged
    <3> QED
      BY <1>3, <1>4, <1>5, <3>1, <3>2, ReportStep
  <2>2. CASE RecRaise(r)
    BY <1>1, <2>2, RaiseKeeps
  <2> QED
    BY <1>0, <1>5, <2>1, <2>2 DEF CompleteSelected, Terminalise
<1>6. CASE ~(o \in Ops /\ IsActive(o))
  <2>1. jobs' = jobs /\ \A q \in Recoverers \ {r} : rec'[q] = rec[q]
    BY <1>0, <1>4, <1>6 DEF CompleteSelected, RecGoto, sidecarVars
  <2>2. SameOutcomes
    BY <2>1, JobsKept
  <2>3. Served \in Ops => Outcome(Served)' = "published"
    BY <1>3, <1>4, <1>6, <2>2 DEF RInv, Progress, ChainReported, SameOutcomes
  <2>4. Settled' /\ \A q \in Recoverers : Judged(q)'
    BY <1>4, <2>3 DEF Settled, Judged
  <2> QED
    BY <1>4, <2>2, <2>4, QuietStep
<1> QED
  BY <1>5, <1>6

\* The start of a recovery, up to the report.
LEMMA OpeningKeeps ==
    ASSUME IInv, IInv', RInv, RecoversFirst, NEW r \in Recoverers,
           ReadPointer(r) \/ OpenSelected(r) \/ RepairPointer(r) \/ SnapshotStatus(r)
    PROVE  RInv' /\ RegisterStep
<1>1. /\ \A p \in Ops : pub[p].pc \in Idle
      /\ pub' = pub /\ jobs' = jobs /\ dirty' = dirty
  <2>1. rec[r].pc # "idle" \/ MayRecover
    BY DEF ReadPointer, OpenSelected, RepairPointer, SnapshotStatus, RecAt
  <2> QED
    BY <2>1, NobodyPublishes
    DEF ReadPointer, OpenSelected, RepairPointer, SnapshotStatus, MayRecover, RecoversFirst,
        sidecarVars
<1>2. rec \in [Recoverers -> RecovererState] /\ rec[r] \in RecovererState
  BY DEF IInv, Typed, ProcessesTyped
<1>3. PICK row : rec' = [rec EXCEPT ![r] = row] /\ row.pc \notin Judging
  <2>1. CASE ReadPointer(r)
    <3> DEFINE row == [rec[r] EXCEPT !.pc = "read", !.ptr = ptr]
    <3>1. rec' = [rec EXCEPT ![r] = row]
      BY <2>1 DEF ReadPointer
    <3>2. row.pc = "read"
      BY <1>2 DEF RecovererState
    <3> HIDE DEF row
    <3> QED
      BY <3>1, <3>2 DEF Judging
  <2>2. CASE OpenSelected(r)
    <3> DEFINE row == IF Readable(rec[r].ptr)
                      THEN [rec[r] EXCEPT !.pc  = "selected",
                                          !.sel = Selection(rec[r].ptr),
                                          !.now = clock]
                      ELSE Rest(r, "unreadable")
    <3>1. rec' = [rec EXCEPT ![r] = row]
      BY <2>2 DEF OpenSelected
    <3>2. row.pc \in {"selected", "unreadable"}
      BY <1>2 DEF RecovererState, Rest, IdleRecoverer
    <3> HIDE DEF row
    <3> QED
      BY <3>1, <3>2 DEF Judging
  <2>3. CASE RepairPointer(r)
    <3> DEFINE row == [rec[r] EXCEPT !.pc = "repaired", !.ptr =
                        IF rec[r].sel.repair
                        THEN RepairedPointer(rec[r].ptr, rec[r].sel.name, rec[r].sel.head)
                        ELSE rec[r].ptr]
    <3>1. rec' = [rec EXCEPT ![r] = row]
      BY <2>3 DEF RepairPointer
    <3>2. row.pc = "repaired"
      BY <1>2 DEF RecovererState
    <3> HIDE DEF row
    <3> QED
      BY <3>1, <3>2 DEF Judging
  <2>4. CASE SnapshotStatus(r)
    <3> DEFINE row == [rec[r] EXCEPT !.pc = "status", !.live =
                        {leases[n].op : n \in {m \in LeaseNames :
                            leases[m] # None /\ ~Stale(leases[m], rec[r].now, Alive)}}]
    <3>1. rec' = [rec EXCEPT ![r] = row]
      BY <2>4 DEF SnapshotStatus
    <3>2. row.pc = "status"
      BY <1>2 DEF RecovererState
    <3> HIDE DEF row
    <3> QED
      BY <3>1, <3>2 DEF Judging
  <2> QED
    BY <2>1, <2>2, <2>3, <2>4
<1>4. rec'[r].pc \notin Judging /\ \A q \in Recoverers \ {r} : rec'[q] = rec[q]
  BY <1>2, <1>3
<1>5. SameServed
  <2>1. CASE RepairPointer(r)
    <3>1. /\ rec[r].pc = "selected" /\ UNCHANGED <<head, parent>>
          /\ ptr' = IF rec[r].sel.repair
                    THEN RepairedPointer(rec[r].ptr, rec[r].sel.name, rec[r].sel.head) ELSE ptr
      BY <2>1 DEF RepairPointer, RecAt
    <3>2. /\ ptr # None /\ rec[r].sel.name = ptr.active.name
          /\ ptr.gen <= rec[r].ptr.gen + 1
          /\ rec[r].ptr \in PointerDocument /\ rec[r].sel \in Choice
      BY <3>1, SelectedIs
    <3>3. RepairedPointer(rec[r].ptr, rec[r].sel.name, rec[r].sel.head) \in PointerDocument
      BY <3>2 DEF RepairedPointer, PointerDocument, PointerArtifact, Choice
    <3>4. RepairedPointer(rec[r].ptr, rec[r].sel.name, rec[r].sel.head) # None
      BY <3>3, AbsentAssumption
    <3>5. ptr.gen \in Nat
      BY <3>2 DEF IInv, Typed, FilesTyped, PointerDocument
    <3> QED
      BY <3>1, <3>2, <3>4, <3>5 DEF SameServed, RepairedPointer
  <2>2. CASE ReadPointer(r) \/ OpenSelected(r) \/ SnapshotStatus(r)
    BY <2>2, FilesKept DEF ReadPointer, OpenSelected, SnapshotStatus
  <2> QED
    BY <2>1, <2>2
<1> QED
  BY <1>1, <1>4, <1>5, RecoveryKeeps, JobsKept

\* A step of a recovery that only reads, or that changes rows other than jobs.
LEMMA JudgingKeeps ==
    ASSUME IInv, IInv', RInv, NEW r \in Recoverers, rec[r].pc \in Judging,
           NEW row, rec' = [rec EXCEPT ![r] = row], jobs' = jobs,
           UNCHANGED <<fileVars, pub>>
    PROVE  RInv' /\ RegisterStep
<1>1. \A q \in Recoverers \ {r} : rec'[q] = rec[q]
  BY DEF IInv, Typed, ProcessesTyped
<1>2. rec[r].pc # "idle"
  BY DEF Judging
<1> QED
  BY <1>1, <1>2, NobodyPublishes, RecoveryKeeps, FilesKept, JobsKept

LEMMA PagesKeep ==
    ASSUME IInv, IInv', RInv, NEW r \in Recoverers,
           \/ RecordCompleted(r) \/ ListIntents(r) \/ RecoverIntent(r) \/ ReconcileIntent(r)
           \/ ListLeases(r) \/ RemoveLease(r) \/ ListJobs(r) \/ EndRecovery(r)
    PROVE  RInv' /\ RegisterStep
<1>1. rec[r].pc \in Judging /\ jobs' = jobs /\ UNCHANGED <<fileVars, pub>>
  BY DEF RecordCompleted, ListIntents, RecoverIntent, ReconcileIntent, ListLeases, RemoveLease,
         ListJobs, EndRecovery, RecAt, Judging, RecordSelected, RecordPointerPair, RecRaise,
         TransitionIntent, ReleaseLease, sidecarVars
<1>2. \E row : rec' = [rec EXCEPT ![r] = row]
  <2>1. CASE RecordCompleted(r)
    BY <2>1 DEF RecordCompleted, RecordSelected, RecRaise
  <2>2. CASE ListIntents(r) \/ ListLeases(r) \/ ListJobs(r) \/ EndRecovery(r)
    BY <2>2 DEF ListIntents, ListLeases, ListJobs, EndRecovery
  <2>3. CASE RecoverIntent(r)
    BY <2>3 DEF RecoverIntent, RecordSelected, RecRaise
  <2>4. CASE ReconcileIntent(r)
    BY <2>4 DEF ReconcileIntent, RecRaise
  <2>5. CASE RemoveLease(r)
    BY <2>5 DEF RemoveLease, RecRaise
  <2> QED
    BY <2>1, <2>2, <2>3, <2>4, <2>5
<1> QED
  BY <1>1, <1>2, JudgingKeeps

LEMMA VerdictsKeep ==
    ASSUME IInv, IInv', RInv, NEW r \in Recoverers,
           UndoOperation(r) \/ FailHolder(r) \/ RecoverJob(r)
    PROVE  RInv' /\ RegisterStep
<1>1. /\ rec[r].pc \in Judging /\ rec[r].pc \in Late /\ UNCHANGED <<fileVars, pub, dirty>>
      /\ PageTyped(rec[r])
  BY DEF UndoOperation, FailHolder, RecoverJob, RecAt, Judging, Late, RecoverySteps, Resting,
         IInv, RecoveryTyped
<1>2. CASE UndoOperation(r)
  <2>1. /\ rec[r].pc = "undo"
        /\ Terminalise(r, intents[rec[r].item[1]].op, "rolled_back", None,
                       [rec[r] EXCEPT !.pc = "intents", !.item = None])
    BY <1>2 DEF UndoOperation, RecAt
  <2>2. rec[r].item[1] \in Isolated /\ intents[rec[r].item[1]] # None
    BY <1>1, <2>1 DEF PageTyped, IntentItem
  <2>3. intents[rec[r].item[1]].op \in Ops
    BY <2>2 DEF IInv, Typed, StoreTyped, StoreTypeOK, Intent
  <2> QED
    BY <1>1, <2>1, <2>3, TerminaliseKeeps
<1>3. CASE FailHolder(r)
  <2>1. /\ rec[r].pc = "fail"
        /\ Terminalise(r, rec[r].item[2].op, "failed", None,
                       [rec[r] EXCEPT !.pc = "leases", !.item = None])
    BY <1>3 DEF FailHolder, RecAt
  <2>2. rec[r].item[2].op \in Ops
    BY <1>1, <2>1 DEF PageTyped, LeaseItem, Hold
  <2> QED
    BY <1>1, <2>1, <2>2, TerminaliseKeeps
<1>4. CASE RecoverJob(r)
  <2>1. rec[r].pc = "jobs"
    BY <1>4 DEF RecoverJob, RecAt
  <2>2. PICK item \in rec[r].todo :
          \/ Terminalise(r, item[1], "failed", None, [rec[r] EXCEPT !.todo = @ \ {item}])
          \/ /\ rec' = [rec EXCEPT ![r] = [rec[r] EXCEPT !.todo = @ \ {item}]]
             /\ UNCHANGED sidecarVars
    BY <1>4 DEF RecoverJob
  <2>3. item[1] \in Ops
    BY <1>1, <2>1 DEF PageTyped, JobItem
  <2> QED
    BY <1>1, <2>2, <2>3, TerminaliseKeeps, JudgingKeeps DEF sidecarVars
<1> QED
  BY <1>2, <1>3, <1>4

\* A recovery that crashes is due again.
LEMMA EndsKeep ==
    ASSUME IInv, IInv', RInv, RecoversFirst, NEW r \in Recoverers,
           StartOver(r) \/ CrashRecovery(r)
    PROVE  RInv' /\ RegisterStep
<1>1. rec[r].pc # "idle" /\ UNCHANGED <<fileVars, pub, jobs>>
  BY DEF StartOver, CrashRecovery, sidecarVars
<1>3. dirty => dirty'
  BY Zenon DEF StartOver, CrashRecovery, RecoversFirst
<1>2. rec'[r].pc = "idle" /\ \A q \in Recoverers \ {r} : rec'[q] = rec[q]
  BY DEF StartOver, CrashRecovery, Rest, IdleRecoverer, IInv, Typed, ProcessesTyped
<1> QED
  BY <1>1, <1>2, <1>3, NobodyPublishes, RecoveryKeeps, FilesKept, JobsKept DEF Judging

LEMMA RecovererRegisters ==
    ASSUME IInv, IInv', RInv, RecoversFirst, NEW r \in Recoverers, Recover(r) \/ CrashRecovery(r)
    PROVE  RInv' /\ RegisterStep
BY OpeningKeeps, CompleteSelectedReports, PagesKeep, VerdictsKeep, EndsKeep DEF Recover

-----------------------------------------------------------------------------
(* The refinement. *)

LEMMA RegisterInit == Init => RInv
<1> SUFFICES ASSUME Init PROVE RInv
  OBVIOUS
<1>1. /\ parent = [p \in Pubs |-> None] /\ None \notin Pubs /\ None \notin Ops
      /\ \A o \in Ops : pub[o].pc = "idle"
      /\ \A r \in Recoverers : rec[r].pc = "idle"
      /\ Base \notin Ops /\ Ops \subseteq Pubs /\ Isolated \subseteq Artifacts
  BY AbsentAssumption, DisjointAssumption
  DEF Init, IdlePublisher, IdleRecoverer, Pubs, Ops, Artifacts
<1>2. \A a \in Artifacts : head[a] \in {None, Base} /\ (a # Base => head[a] = None)
  BY DEF Init
<1>3. AncestryKnown /\ \A p \in Pubs : ancestry[p] = <<p>>
  BY <1>1, AncestryInit
<1>4. ptr # None => Served = Base /\ Chain = <<Base>>
  BY <1>3 DEF Init, Served, Chain, Artifacts, Pubs
<1>5. Members \subseteq {Base} /\ Served \notin Ops
  BY <1>1, <1>4 DEF Members, Chain, Served
<1>6. Rooted /\ \A o \in Isolated : Built(o)
  BY <1>1, <1>2 DEF Rooted, Built, Ops
<1>7. \A o \in Members : Past(o)
  BY <1>1, <1>5 DEF Past, Ops
<1>8. (\A o \in Ops : Unreported(o)) /\ \A r \in Recoverers : Judged(r)
  BY <1>1 DEF Unreported, Quiet, Idle, Outside, Judged, Judging
<1>9. ChainReported /\ Settled
  BY <1>1, <1>5 DEF ChainReported, Settled
<1> QED
  BY <1>3, <1>6, <1>7, <1>8, <1>9 DEF RInv, Progress

LEMMA RegisterNext ==
    ASSUME IInv, IInv', RInv, RecoversFirst, [Next]_vars
    PROVE  RInv' /\ RegisterStep
<1>1. CASE \E o \in Ops : Publisher(o)
  BY <1>1, PublisherRegisters
<1>2. CASE \E o \in Ops : Plan(o) \/ Prepare(o) \/ Beat(o) \/ Crash(o) \/ Retry(o)
  BY <1>2, HostRegisters
<1>3. CASE \E r \in Recoverers : Recover(r) \/ CrashRecovery(r)
  BY <1>3, RecovererRegisters
<1>4. CASE Tick \/ UNCHANGED vars
  <2>1. UNCHANGED <<fileVars, jobs, pub, rec, dirty>>
    BY <1>4 DEF Tick, vars, sidecarVars
  <2>2. /\ SameServed /\ Served' = Served /\ SameOutcomes /\ SamePlans
        /\ \A r \in Recoverers : Judged(r)'
    BY <2>1, FilesKept, JobsKept, ServedFrame, JudgedFrame DEF SamePlans
  <2>3. (\A o \in Ops : Unreported(o)') /\ Settled'
    BY <2>1, <2>2 DEF RInv, Progress, Unreported, Settled, SameOutcomes, Busy
  <2> QED
    BY <2>2, <2>3, QuietStep
<1>5. CASE \E a \in Artifacts : Damage(a)
  BY <1>5, FS_CardinalityType DEF Damage, RecoversFirst, IInv, Typed, FilesTyped
<1> QED
  BY <1>1, <1>2, <1>3, <1>4, <1>5 DEF Next

LEMMA RegisterInvariant == Spec /\ RecoversFirst => [](IInv /\ RInv)
<1>1. RecoversFirst => Serial
  BY DEF RecoversFirst, Serial
<1>2. IInv /\ RInv /\ RecoversFirst /\ [Next]_vars => (IInv /\ RInv)'
  BY <1>1, InvNext, RegisterNext
<1>3. CASE RecoversFirst
  BY <1>2, <1>3, InvInit, RegisterInit, PTL DEF Spec
<1> QED
  BY <1>3

\* The register's step of a step of the protocol.
LEMMA StepIsRegisters ==
    ASSUME RegisterStep, VisibleChain = Chain, VisibleChain' = Chain'
    PROVE  [Register!Next]_(Register!register)
<1> DEFINE outcomes == [o \in Ops |-> Outcome(o)]
<1>1. Register!Seen = Members
  BY DEF Register!Seen, Members
<1>2. CASE Chain' = Chain /\ \A o \in Ops : Outcome(o)' = Outcome(o)
  <2>1. outcomes' = outcomes
    BY <1>2
  <2> QED
    BY <1>2, <2>1 DEF Register!register
<1>3. ASSUME NEW o \in Ops, Publishes(o) PROVE Register!Publish(o)
  <2>1. outcomes' = outcomes /\ outcomes[o] = "unknown"
    BY <1>3 DEF Publishes
  <2> QED
    BY <1>1, <1>3, <2>1 DEF Publishes, Register!Publish
<1>4. ASSUME NEW o \in Ops, Reports(o) PROVE Register!Report(o)
  <2>1. outcomes[o] = "unknown"
    BY <1>4 DEF Reports
  <2>2. outcomes' = [outcomes EXCEPT ![o] = IF o \in Members THEN "published" ELSE "abandoned"]
    BY <1>4 DEF Reports
  <2> QED
    BY <1>1, <1>4, <2>1, <2>2 DEF Reports, Register!Report
<1> QED
  BY <1>2, <1>3, <1>4 DEF RegisterStep, Register!Next

\* Through every interleaving of publishers that crash anywhere and are retried,
\* and of recoveries that crash anywhere and start over, readers see a chain that
\* only grows by one publication at its end; the analytical commit and the
\* promotion's pointer are where it grows.  A client is told once how its
\* operation ended: published only if readers see it, and abandoned only if no
\* reader ever saw it or will.
THEOREM PublicationIsRegister == Spec /\ RecoversFirst => ImplementsRegister
<1>1. RecoversFirst => Serial
  BY DEF RecoversFirst, Serial
<1>2. Init /\ RecoversFirst => Register!Init
  <2> SUFFICES ASSUME Init, RecoversFirst PROVE Register!Init
    OBVIOUS
  <2>1. IInv /\ RInv /\ VisibleChain = Chain
    BY InvInit, RegisterInit, ChainIs
  <2>2. \A p \in Pubs : ancestry[p] = <<p>>
    BY AncestryInit DEF Init
  <2>3. VisibleChain \in {<<>>, <<Base>>}
    <3>1. ptr = None => Chain = <<>>
      BY DEF Chain
    <3>2. ptr # None => Chain = <<Base>>
      BY <2>2 DEF Init, Served, Chain, Artifacts, Pubs
    <3> QED
      BY <2>1, <3>1, <3>2
  <2>4. \A o \in Ops : Outcome(o) = "unknown"
    BY DEF Init, StoreInit, Outcome, JobIn
  <2> QED
    BY <2>3, <2>4 DEF Register!Init
<1>3. IInv /\ RInv /\ IInv' /\ RecoversFirst /\ [Next]_vars
          => [Register!Next]_(Register!register)
  <2> SUFFICES ASSUME IInv, RInv, IInv', RecoversFirst, [Next]_vars
               PROVE  [Register!Next]_(Register!register)
    OBVIOUS
  <2>1. VisibleChain = Chain /\ VisibleChain' = Chain'
    BY ChainIs, ChainIsNext
  <2> QED
    BY <2>1, RegisterNext, StepIsRegisters
<1>4. CASE RecoversFirst
  BY <1>2, <1>3, <1>4, RegisterInvariant, PTL DEF Spec, ImplementsRegister, Register!Spec
<1> QED
  BY <1>4

=============================================================================

-------------------------- MODULE KernelRefreshProofs --------------------------
(***************************************************************************)
(* Proofs about the released refresh, for any files, workers, contents and *)
(* generations, under a launch guard and with leases that outlive their    *)
(* workers: one worker at a time writes and publishes, each generation is  *)
(* the one after the published generation, and what readers see is left    *)
(* alone until the next one is published.  While files only come and grow, *)
(* the rollups of the published generation count what its readers see.     *)
(***************************************************************************)
EXTENDS KernelRefreshProperties, FiniteSetTheorems, WellFoundedInduction, TLAPS

\* The host of these proofs: workers are started under the launch guard, a live
\* worker keeps its lease, and what a worker observed is not rewritten under it.
Attended == /\ Guarded /\ Lapses = "dead"
            /\ \A x \in Worlds : x.mid \subseteq {"append", "appear"}

-----------------------------------------------------------------------------
(* What the operators on a database give. *)

LEMMA PlanChanged ==
    ASSUME NEW p \in Plan, NEW known \in SourceIds, NEW n \in 1 .. MaxLines
    PROVE  /\ [p EXCEPT !.prior = known] \in Plan /\ [p EXCEPT !.prior = known].obs = p.obs
           /\ [p EXCEPT !.prior = known, !.start = n, !.replace = FALSE] \in Plan
           /\ [p EXCEPT !.prior = known, !.start = n, !.replace = FALSE].obs = p.obs
<1>1. n \in 0 .. MaxLines
  BY ArtifactBounds
<1>2. [p EXCEPT !.prior = known] \in Plan /\ [p EXCEPT !.prior = known].obs = p.obs
  BY DEF Plan
<1>3. [p EXCEPT !.prior = known, !.start = n, !.replace = FALSE] \in Plan
  BY <1>1 DEF Plan
<1>4. [p EXCEPT !.prior = known, !.start = n, !.replace = FALSE].obs = p.obs
  BY DEF Plan
<1> QED
  BY <1>2, <1>3, <1>4

LEMMA PlanTyped ==
    ASSUME NEW a \in Artifact, NEW o \in Observation, NEW known \in SourceIds, NEW now \in Observation
    PROVE  /\ plan_source(a, o, known, now) \in SUBSET Plan
           /\ \A p \in plan_source(a, o, known, now) : p.obs = o
<1> DEFINE cursor == a.rows[known]
           new == [obs |-> o, prior |-> None, start |-> 0, replace |-> TRUE, lines |-> {}]
<1>1. MaxLines \in Nat
  BY ArtifactBounds
<1>2. cursor = None \/ cursor \in Cursor
  BY DEF Artifact
<1>3. new \in Plan /\ new.obs = o
  BY <1>1 DEF Plan
<1>4. cursor # None => cursor.off \in 1 .. MaxLines
  BY <1>2 DEF Cursor
<1> HIDE DEF new
<1>6. plan_source(a, o, known, now)
         = IF cursor = None THEN {new}
           ELSE IF Replaced(o, known, cursor, now) THEN {[new EXCEPT !.prior = known]}
           ELSE IF o.len > cursor.off
                THEN {[new EXCEPT !.prior = known, !.start = cursor.off, !.replace = FALSE]}
           ELSE {}
  BY DEF plan_source, new
<1>7. /\ [new EXCEPT !.prior = known] \in Plan /\ [new EXCEPT !.prior = known].obs = o
      /\ cursor # None =>
           LET p == [new EXCEPT !.prior = known, !.start = cursor.off, !.replace = FALSE]
           IN  p \in Plan /\ p.obs = o
  <2>1. 1 \in 1 .. MaxLines
    BY <1>1 DEF Observation
  <2> QED
    BY <1>3, <1>4, <2>1, PlanChanged
<1> QED
  BY <1>3, <1>6, <1>7

LEMMA ContentTyped ==
    ASSUME NEW o \in Observation
    PROVE  Content(o) \subseteq Line
<1>1. MaxLines \in Nat /\ o.len \in 1 .. MaxLines
  BY ArtifactBounds DEF Observation
<1>2. 1 .. o.len \subseteq 1 .. MaxLines
  BY <1>1
<1> QED
  BY <1>2 DEF Content, Line, Observation

LEMMA ParsedTyped ==
    ASSUME NEW p \in Plan, NEW now \in Observation
    PROVE  Parsed(p, now) \in Plan /\ Parsed(p, now).obs = p.obs
<1> DEFINE there == [now EXCEPT !.id = p.obs.id]
           lines == {l \in Content(there) : p.start < l.ix /\ l.ix <= p.obs.len}
<1>1. there \in Observation
  BY DEF Observation, Plan
<1>2. lines \subseteq Line
  BY <1>1, ContentTyped
<1> HIDE DEF lines
<1>3. [p EXCEPT !.lines = lines] \in Plan /\ [p EXCEPT !.lines = lines].obs = p.obs
  BY <1>2 DEF Plan
<1> QED
  BY <1>3 DEF Parsed, lines

LEMMA VisibleTyped ==
    ASSUME NEW a \in Artifact, NEW g
    PROVE  VisibleLines(a, g) \subseteq Line /\ LinesOf(a) \subseteq Line
BY DEF VisibleLines, LinesOf, Artifact, Fact

LEMMA UpsertTyped ==
    ASSUME NEW a \in Artifact, NEW plans \in SUBSET Plan
    PROVE  UpsertSources(a, plans) \in Artifact
<1> DEFINE row(i) == LET o == (CHOOSE p \in plans : p.obs.id = i).obs IN [ver |-> o.ver, off |-> o.len]
           rows == [i \in SourceIds |-> IF \E p \in plans : p.obs.id = i THEN row(i) ELSE a.rows[i]]
<1>1. ASSUME NEW i \in SourceIds, \E p \in plans : p.obs.id = i PROVE row(i) \in Cursor
  <2>1. (CHOOSE p \in plans : p.obs.id = i) \in plans
    BY <1>1
  <2> QED
    BY <2>1 DEF Plan, Observation, Cursor
<1>2. \A i \in SourceIds : a.rows[i] \in Cursor \cup {None}
  BY DEF Artifact
<1>3. rows \in [SourceIds -> Cursor \cup {None}]
  BY <1>1, <1>2
<1>4. UpsertSources(a, plans) = [a EXCEPT !.rows = rows]
  BY DEF UpsertSources
<1> HIDE DEF rows
<1> QED
  BY <1>3, <1>4 DEF Artifact

LEMMA DeleteTyped ==
    ASSUME NEW a \in Artifact, NEW ids
    PROVE  DeleteSources(a, ids) \in Artifact
<1> DEFINE rows == [i \in SourceIds |-> IF i \in ids THEN None ELSE a.rows[i]]
           facts == {f \in a.facts : f.line.id \notin ids}
           states == {x \in a.states : x.line.id \notin ids}
<1>1. /\ rows \in [SourceIds -> Cursor \cup {None}]
      /\ facts \in SUBSET Fact /\ states \in SUBSET State
  BY DEF Artifact
<1>2. DeleteSources(a, ids) = [a EXCEPT !.rows = rows, !.facts = facts, !.states = states]
  BY DEF DeleteSources, Artifact
<1> HIDE DEF rows, facts, states
<1> QED
  BY <1>1, <1>2 DEF Artifact

LEMMA GenTyped ==
    ASSUME NEW a \in Artifact, NEW g, NEW s \in {"absent", "pending", "valid"}
    PROVE  [a EXCEPT !.gens[g] = s] \in Artifact
BY DEF Artifact

LEMMA OpenTyped ==
    ASSUME NEW a \in Artifact, NEW plans \in SUBSET Plan, NEW g
    PROVE  OpenRefresh(a, plans, g) \in Artifact
<1> DEFINE replaced == {p.prior : p \in {x \in plans : x.replace /\ x.prior # None}}
           b == [a EXCEPT !.gens[g] = "pending"]
           c == DeleteSources(b, replaced)
           some == {p \in plans : p.prior = None \/ p.replace}
<1>1. b \in Artifact
  BY GenTyped
<1> HIDE DEF b, replaced
<1>2. c \in Artifact
  BY <1>1, DeleteTyped
<1> HIDE DEF c
<1>3. some \in SUBSET Plan
  OBVIOUS
<1>4. UpsertSources(c, some) \in Artifact
  BY <1>2, <1>3, UpsertTyped
<1> QED
  BY <1>4 DEF OpenRefresh, b, c, replaced

LEMMA StatesTyped ==
    ASSUME NEW states, NEW lines, NEW g
    PROVE  InsertStates(states, lines, g) \in SUBSET State
BY DEF InsertStates

LEMMA InsertTyped ==
    ASSUME NEW a \in Artifact, NEW p \in Plan, NEW g \in Generations
    PROVE  InsertFacts(a, p, g) \in Artifact
<1> DEFINE facts == a.facts \cup {[line |-> l, gen |-> g] : l \in p.lines \ LinesOf(a)}
           states == InsertStates(a.states, p.lines, g)
<1>1. facts \in SUBSET Fact /\ states \in SUBSET State
  BY StatesTyped DEF Artifact, Plan, Fact
<1>2. InsertFacts(a, p, g) = [a EXCEPT !.facts = facts, !.states = states]
  BY DEF InsertFacts, Artifact
<1> HIDE DEF facts, states
<1> QED
  BY <1>1, <1>2 DEF Artifact

LEMMA BatchTyped ==
    ASSUME NEW a \in Artifact, NEW p \in Plan, NEW g \in Generations, NEW first
    PROVE  CommitBatch(a, p, g, first) \in Artifact
<1> DEFINE b == IF first THEN [a EXCEPT !.gens[g] = "pending"] ELSE a
           c == UpsertSources(b, {p})
<1>1. b \in Artifact
  BY GenTyped
<1> HIDE DEF b
<1>2. c \in Artifact
  BY <1>1, UpsertTyped
<1> HIDE DEF c
<1>3. InsertFacts(c, p, g) \in Artifact
  BY <1>2, InsertTyped
<1> QED
  BY <1>3 DEF CommitBatch, b, c

LEMMA SealTyped ==
    ASSUME NEW a \in Artifact, NEW plans \in SUBSET Plan, NEW g
    PROVE  SealRefresh(a, plans, g) \in Artifact
<1> DEFINE b == UpsertSources(a, plans)
<1>1. b \in Artifact
  BY UpsertTyped
<1> HIDE DEF b
<1>2. [b EXCEPT !.gens[g] = "valid"] \in Artifact
  BY <1>1, GenTyped
<1> QED
  BY <1>1, <1>2 DEF SealRefresh, b

LEMMA RebuildTyped ==
    ASSUME NEW a \in Artifact, NEW g
    PROVE  RebuildRollups(a, g) \in Artifact
<1> DEFINE lines == VisibleLines(a, g)
<1>1. lines \in SUBSET Line
  BY VisibleTyped
<1> HIDE DEF lines
<1>2. [a EXCEPT !.roll[g] = lines] \in Artifact
  BY <1>1 DEF Artifact
<1> QED
  BY <1>2 DEF RebuildRollups, lines

LEMMA AdvanceTyped ==
    ASSUME NEW a \in Artifact, NEW g, NEW from \in Generations, a.roll[from] # None
    PROVE  AdvanceRollups(a, g, from) \in Artifact
<1> DEFINE lines == a.roll[from] \cup {f.line : f \in {x \in a.facts : x.gen = g}}
<1>1. a.roll[from] \in SUBSET Line
  BY DEF Artifact
<1>2. lines \in SUBSET Line
  BY <1>1 DEF Artifact, Fact
<1> HIDE DEF lines
<1>3. [a EXCEPT !.roll[g] = lines] \in Artifact
  BY <1>2 DEF Artifact
<1> QED
  BY <1>3 DEF AdvanceRollups, lines

-----------------------------------------------------------------------------
(* Types. *)

Steps == Live \cup Ended \cup {"idle"}

WorkerState ==
    [pc : Steps, obs : [Sources -> Observation \cup {None}], scope : SUBSET Sources,
     read : Control, wasFailed : BOOLEAN, plans : SUBSET Plan, planned : SUBSET Observation,
     todo : SUBSET Plan, gen : 0 .. MaxGeneration, prior : 0 .. MaxGeneration,
     path : Paths \cup {None}, incremental : BOOLEAN, stream : BOOLEAN, attempt : Nat,
     fenced : BOOLEAN]

\* A worker in these has observed the files it goes on from.
Informed == {"acquire"} \cup Guarding

\* A worker in these builds a generation that it has chosen.
Chosen == Building \ {"prepare"}

\* A worker in these has a database that it plans from or writes.
Pathed == {"stage"} \cup Building

\* What a worker knows is about files that are there.
Looked(r) ==
    /\ \A s \in r.scope : file[s] # None
    /\ \A s \in Sources : r.obs[s] # None => s \in r.scope /\ r.obs[s].id[1] = s
    /\ r.pc \in Informed => \A s \in r.scope : r.obs[s] # None
    /\ \A p \in r.plans \cup r.todo : p.obs.id[1] \in r.scope
    /\ r.pc \in Chosen => r.gen \in Generations
    /\ r.pc \in Pathed => r.path \in Paths

Typed ==
    /\ RefreshControlTypeOK
    /\ file \in [Sources -> Observation \cup {None}]
    /\ \A s \in Sources : file[s] # None => file[s].id[1] = s
    /\ artifact \in [Paths -> Artifact]
    /\ wk \in [Workers -> WorkerState]
    /\ world \in Worlds

TypeInv == Typed /\ \A w \in Workers : Looked(wk[w])

LEMMA BecomesIs ==
    ASSUME TypeInv, NEW w \in Workers, NEW rec \in WorkerState, Becomes(w, rec)
    PROVE  /\ wk' \in [Workers -> WorkerState]
           /\ wk'[w] = rec
           /\ \A v \in Workers \ {w} : wk'[v] = wk[v]
BY DEF TypeInv, Typed, Becomes

\* A step of one worker that leaves the files alone.
LEMMA WorkerSteps ==
    ASSUME TypeInv, NEW w \in Workers, NEW rec \in WorkerState, Becomes(w, rec), Looked(rec),
           RefreshControlTypeOK', artifact' \in [Paths -> Artifact], UNCHANGED <<file, world>>
    PROVE  TypeInv'
<1>1. /\ wk' \in [Workers -> WorkerState]
      /\ wk'[w] = rec
      /\ \A v \in Workers \ {w} : wk'[v] = wk[v]
  BY BecomesIs
<1>2. \A v \in Workers : Looked(wk'[v])
  BY <1>1 DEF TypeInv
<1>3. \A v \in Workers : Looked(wk[v])'
  BY <1>2 DEF Looked
<1>4. Typed'
  BY <1>1 DEF TypeInv, Typed
<1> QED
  BY <1>3, <1>4 DEF TypeInv

LEMMA WorkerTyped ==
    ASSUME TypeInv, NEW w \in Workers
    PROVE  wk[w] \in WorkerState /\ Looked(wk[w])
BY DEF TypeInv, Typed

\* The step of a worker that keeps what it knows.
LEMMA GotoIs ==
    ASSUME TypeInv, NEW w \in Workers, NEW pc \in Steps
    PROVE  LET rec == [wk[w] EXCEPT !.pc = pc, !.fenced = FALSE]
           IN  /\ rec \in WorkerState
               /\ (/\ pc \in Informed => wk[w].pc \in Informed
                   /\ pc \in Chosen => wk[w].pc \in Chosen
                   /\ pc \in Pathed => wk[w].pc \in Pathed) => Looked(rec)
<1> DEFINE rec == [wk[w] EXCEPT !.pc = pc, !.fenced = FALSE]
<1>1. wk[w] \in WorkerState /\ Looked(wk[w])
  BY WorkerTyped
<1>2. rec \in WorkerState
  BY <1>1 DEF WorkerState
<1>3. /\ rec.pc = pc /\ rec.scope = wk[w].scope /\ rec.obs = wk[w].obs /\ rec.plans = wk[w].plans
      /\ rec.todo = wk[w].todo /\ rec.gen = wk[w].gen /\ rec.path = wk[w].path
  BY <1>1 DEF WorkerState
<1> HIDE DEF rec
<1>4. ASSUME pc \in Informed => wk[w].pc \in Informed, pc \in Chosen => wk[w].pc \in Chosen,
             pc \in Pathed => wk[w].pc \in Pathed
      PROVE  Looked(rec)
  BY <1>1, <1>3, <1>4 DEF Looked
<1> QED
  BY <1>2, <1>4 DEF rec

LEMMA EndIs ==
    ASSUME TypeInv, NEW pc \in Ended
    PROVE  LET rec == [IdleWorker EXCEPT !.pc = pc]
           IN  rec \in WorkerState /\ Looked(rec) /\ rec.pc = pc
<1> DEFINE rec == [IdleWorker EXCEPT !.pc = pc]
<1>1. NoControl \in Control
  BY ArtifactBounds DEF NoControl, Control
<1>2. IdleWorker \in WorkerState
  BY <1>1, ArtifactBounds DEF IdleWorker, WorkerState, Steps
<1>3. rec \in WorkerState
  BY <1>2 DEF WorkerState, Steps
<1>4. rec.pc = pc /\ rec.scope = {} /\ rec.obs = [s \in Sources |-> None] /\ rec.plans = {} /\ rec.todo = {}
  BY DEF IdleWorker
<1>5. pc \notin Informed /\ pc \notin Chosen /\ pc \notin Pathed
  BY DEF Ended, Informed, Chosen, Pathed, Guarding, Recovery, Planning, Building, Finishing, Fenced
<1> HIDE DEF rec
<1>6. Looked(rec)
  BY <1>4, <1>5 DEF Looked
<1> QED
  BY <1>3, <1>4, <1>6 DEF rec

\* All steps of workers.
LEMMA StepsAre ==
    /\ Steps = {"initialize", "wipe", "observe", "acquire", "recover", "recoverRollups",
                "recoverBegin", "recoverPromote", "interrupt", "discard", "admit", "plan", "stage",
                "prepare", "clone", "open", "facts", "seal", "batch", "finalize", "promote",
                "begin", "catchUp", "replan", "rollup", "register", "catalog", "capture",
                "complete", "failRun", "blame", "condemn", "done", "dead", "idle"}
    /\ Informed = {"acquire", "recover", "recoverRollups",
                "recoverBegin", "recoverPromote", "interrupt", "discard", "admit", "plan", "stage",
                "prepare", "clone", "open", "facts", "seal", "batch", "finalize", "promote",
                "begin", "catchUp", "replan", "rollup", "register", "catalog", "capture",
                "complete"}
    /\ Chosen = {"clone", "open", "facts", "seal", "batch", "finalize", "promote",
                "begin", "catchUp", "replan", "rollup"}
    /\ Pathed = {"stage", "prepare", "clone", "open", "facts", "seal", "batch", "finalize",
                "promote", "begin", "catchUp", "replan", "rollup"}
BY DEF Steps, Informed, Chosen, Pathed, Live, Ended, Unleased, Guarding, Handling, Recovery, Planning,
       Building, Finishing, Fenced

-----------------------------------------------------------------------------
(* Every step keeps the types. *)

LEMMA ArtifactSet ==
    ASSUME artifact \in [Paths -> Artifact], NEW path, NEW a, path \in Paths => a \in Artifact
    PROVE  [artifact EXCEPT ![path] = a] \in [Paths -> Artifact]
OBVIOUS

LEMMA EmptyTyped == EmptyArtifact \in Artifact
BY DEF EmptyArtifact, Artifact

LEMMA ActivePathTyped ==
    ASSUME TypeInv
    PROVE  ActivePath \in Paths /\ artifact[ActivePath] \in Artifact
BY DEF TypeInv, Typed, RefreshControlTypeOK, Control, ActivePath, Paths

LEMMA RegisterTyped ==
    ASSUME registry \in [Sources -> SourceIds \cup {None}], NEW obs \in SUBSET Observation,
           RegisterSources(obs)
    PROVE  registry' \in [Sources -> SourceIds \cup {None}]
<1>1. ASSUME NEW s \in Sources, \E o \in obs : o.id[1] = s
      PROVE  (CHOOSE o \in obs : o.id[1] = s).id \in SourceIds
  <2>1. (CHOOSE o \in obs : o.id[1] = s) \in obs
    BY <1>1
  <2> QED
    BY <2>1 DEF Observation
<1> QED
  BY <1>1 DEF RegisterSources

LEMMA ObservedInTyped ==
    ASSUME NEW obs \in [Sources -> Observation \cup {None}]
    PROVE  ObservedIn(obs) \in SUBSET Observation
BY DEF ObservedIn

LEMMA RecordTyped ==
    ASSUME RefreshControlTypeOK, NEW obs \in [Sources -> Observation \cup {None}],
           RecordCatalog(obs)
    PROVE  /\ registry' \in [Sources -> SourceIds \cup {None}]
           /\ coverage' \in [Sources -> Observation \cup {None}]
           /\ staged' \in BOOLEAN
BY ObservedInTyped, RegisterTyped DEF RecordCatalog, RefreshControlTypeOK

LEMMA PromotedTyped ==
    ASSUME control \in Control, NEW path \in Paths \cup {None}, NEW gen \in 0 .. MaxGeneration
    PROVE  Promoted(path, gen) \in Control
BY DEF Promoted, Control

LEMMA BeginTyped ==
    ASSUME control \in Control, NEW run \in Workers \cup {None}, NEW path \in Paths \cup {None},
           BeginCutover(run, path)
    PROVE  control' \in Control
BY DEF BeginCutover, Control

LEMMA FailTyped ==
    ASSUME control \in Control, FailCutover
    PROVE  control' \in Control
BY DEF FailCutover, Control

LEMMA CloseTyped ==
    ASSUME runs \in [Workers -> Run], NEW w \in Workers, NEW s \in RunState, CloseRun(w, s)
    PROVE  runs' \in [Workers -> Run]
BY DEF CloseRun, Run

LEMMA CreateTyped ==
    ASSUME runs \in [Workers -> Run], NEW w \in Workers, CreateRun(w)
    PROVE  runs' \in [Workers -> Run]
BY DEF CreateRun, Run, RunState

LEMMA LaunchTyped ==
    ASSUME TypeInv, NEW w \in Workers, Launch(w)
    PROVE  TypeInv'
<1> DEFINE found == {s \in Sources : file[s] # None}
           rec == [wk[w] EXCEPT !.pc = "initialize", !.scope = found]
<1>1. wk[w] \in WorkerState /\ Looked(wk[w])
  BY WorkerTyped
<1>2. rec \in WorkerState
  BY <1>1, StepsAre DEF WorkerState
<1>3. /\ rec.pc = "initialize" /\ rec.scope = found /\ rec.obs = wk[w].obs
      /\ rec.plans = wk[w].plans /\ rec.todo = wk[w].todo
  BY <1>1 DEF WorkerState
<1>4. wk[w].scope \subseteq found
  BY <1>1 DEF Looked, WorkerState
<1>5. Becomes(w, rec) /\ UNCHANGED <<sidecarVars, file, artifact, world>>
  BY DEF Launch
<1> HIDE DEF rec
<1>6. Looked(rec)
  BY <1>1, <1>3, <1>4, StepsAre DEF Looked
<1>7. RefreshControlTypeOK' /\ artifact' \in [Paths -> Artifact]
  BY <1>5 DEF TypeInv, Typed, RefreshControlTypeOK, sidecarVars
<1> QED
  BY <1>2, <1>5, <1>6, <1>7, WorkerSteps

LEMMA ObserveTyped ==
    ASSUME TypeInv, NEW w \in Workers, Observe(w)
    PROVE  TypeInv'
<1> DEFINE obs == Observed(wk[w].scope)
           rec == [wk[w] EXCEPT !.pc = "acquire", !.obs = obs]
<1>1. wk[w] \in WorkerState /\ Looked(wk[w])
  BY WorkerTyped
<1>2. /\ obs \in [Sources -> Observation \cup {None}]
      /\ \A s \in Sources : obs[s] # None => s \in wk[w].scope /\ obs[s].id[1] = s
      /\ \A s \in wk[w].scope : obs[s] # None
  BY <1>1 DEF Observed, TypeInv, Typed, Looked, WorkerState
<1> HIDE DEF obs
<1>3. rec \in WorkerState
  BY <1>1, <1>2, StepsAre DEF WorkerState
<1>4. /\ rec.pc = "acquire" /\ rec.scope = wk[w].scope /\ rec.obs = obs
      /\ rec.plans = wk[w].plans /\ rec.todo = wk[w].todo
  BY <1>1 DEF WorkerState
<1>5. Becomes(w, rec) /\ UNCHANGED <<sidecarVars, file, artifact, world>>
  BY DEF Observe, obs
<1> HIDE DEF rec
<1>6. Looked(rec)
  BY <1>1, <1>2, <1>4, StepsAre DEF Looked
<1>7. RefreshControlTypeOK' /\ artifact' \in [Paths -> Artifact]
  BY <1>5 DEF TypeInv, Typed, RefreshControlTypeOK, sidecarVars
<1> QED
  BY <1>3, <1>5, <1>6, <1>7, WorkerSteps

\* A worker that goes on knowing what it knew.
GoesOn(w, pc) ==
    /\ Goto(w, pc)
    /\ pc \in Informed => wk[w].pc \in Informed
    /\ pc \in Chosen => wk[w].pc \in Chosen
    /\ pc \in Pathed => wk[w].pc \in Pathed

LEMMA GoesOnTyped ==
    ASSUME TypeInv, NEW w \in Workers, NEW pc \in Steps, GoesOn(w, pc),
           RefreshControlTypeOK', artifact' \in [Paths -> Artifact], UNCHANGED <<file, world>>
    PROVE  TypeInv'
<1> DEFINE rec == [wk[w] EXCEPT !.pc = pc, !.fenced = FALSE]
<1>1. rec \in WorkerState /\ Looked(rec)
  BY GotoIs DEF GoesOn
<1>2. Becomes(w, rec)
  BY DEF GoesOn, Goto
<1> HIDE DEF rec
<1> QED
  BY <1>1, <1>2, WorkerSteps

LEMMA EndsTyped ==
    ASSUME TypeInv, NEW w \in Workers, NEW pc \in Ended, End(w, pc),
           RefreshControlTypeOK', artifact' \in [Paths -> Artifact], UNCHANGED <<file, world>>
    PROVE  TypeInv'
<1> DEFINE rec == [IdleWorker EXCEPT !.pc = pc]
<1>1. rec \in WorkerState /\ Looked(rec)
  BY EndIs
<1>2. Becomes(w, rec)
  BY DEF End
<1> HIDE DEF rec
<1> QED
  BY <1>1, <1>2, WorkerSteps

\* Steps that change the program counter, and rows of the sidecar.
LEMMA SimpleTyped ==
    ASSUME TypeInv, NEW w \in Workers,
           \/ Initialize(w) \/ Wipe(w) \/ Acquire(w) \/ RecoverBegin(w) \/ RecoverPromote(w)
           \/ Interrupt(w) \/ Discard(w) \/ Admit(w) \/ Stage(w) \/ Catalog(w) \/ Capture(w)
           \/ Promote(w) \/ Register(w) \/ Complete(w) \/ FailRun(w) \/ Blame(w) \/ Condemn(w)
           \/ Fault(w) \/ Crash(w)
    PROVE  TypeInv'
<1>0. /\ wk[w] \in WorkerState /\ RefreshControlTypeOK
      /\ artifact \in [Paths -> Artifact] /\ Base \in Paths
      /\ wk[w].obs \in [Sources -> Observation \cup {None}]
      /\ wk[w].read \in Control /\ wk[w].path \in Paths \cup {None}
      /\ wk[w].gen \in 0 .. MaxGeneration /\ wk[w].planned \in SUBSET Observation
  BY WorkerTyped DEF TypeInv, Typed, Paths, WorkerState
<1>1. CASE Initialize(w)
  <2>1. PICK pc \in {"wipe", "observe"} : Goto(w, pc)
    BY <1>1 DEF Initialize
  <2> QED
    BY <1>0, <1>1, <2>1, GoesOnTyped, StepsAre DEF GoesOn, Initialize, sidecarVars, RefreshControlTypeOK
<1>2. CASE Wipe(w)
  <2>1. artifact' \in [Paths -> Artifact]
    BY <1>0, <1>2, EmptyTyped, ArtifactSet DEF Wipe
  <2> QED
    BY <1>0, <1>2, <2>1, GoesOnTyped, StepsAre DEF GoesOn, Wipe, sidecarVars, RefreshControlTypeOK
<1>3. CASE Acquire(w)
  <2>1. runs' \in [Workers -> Run]
    BY <1>0, <1>3, CreateTyped DEF Acquire, RefreshControlTypeOK
  <2>2. RefreshControlTypeOK' /\ artifact' \in [Paths -> Artifact] /\ UNCHANGED <<file, world>>
    BY <1>0, <1>3, <2>1 DEF Acquire, RefreshControlTypeOK
  <2>3. CASE End(w, "done")
    BY <2>2, <2>3, EndsTyped DEF Ended
  <2>4. CASE Goto(w, "recover")
    BY <1>3, <2>2, <2>4, GoesOnTyped, StepsAre DEF GoesOn, Acquire, At
  <2> QED
    BY <1>3, <2>3, <2>4 DEF Acquire
<1>4. CASE RecoverBegin(w)
  <2>1. wk[w].read.run \in Workers \cup {None} /\ wk[w].read.staging \in Paths \cup {None}
    BY <1>0 DEF Control
  <2>2. control' \in Control
    BY <1>0, <1>4, <2>1, BeginTyped DEF RecoverBegin, RefreshControlTypeOK
  <2> QED
    BY <1>0, <1>4, <2>2, GoesOnTyped, StepsAre DEF GoesOn, RecoverBegin, RefreshControlTypeOK, At
<1>5. CASE RecoverPromote(w)
  <2>1. wk[w].read.staging \in Paths \cup {None}
    BY <1>0 DEF Control
  <2>2. control' \in Control /\ staged' \in BOOLEAN
    BY <1>0, <1>5, <2>1, PromotedTyped DEF RecoverPromote, RefreshControlTypeOK
  <2>3. PICK pc \in {"admit", "failRun"} : Goto(w, pc)
    BY <1>5 DEF RecoverPromote, Raise
  <2> QED
    BY <1>0, <1>5, <2>2, <2>3, GoesOnTyped, StepsAre DEF GoesOn, RecoverPromote, RefreshControlTypeOK, At
<1>6. CASE Interrupt(w)
  <2>1. control' \in Control
    BY <1>0, <1>6, FailTyped DEF Interrupt, RefreshControlTypeOK
  <2>2. PICK pc \in {"discard", "failRun"} : Goto(w, pc)
    BY <1>6 DEF Interrupt, Raise
  <2> QED
    BY <1>0, <1>6, <2>1, <2>2, GoesOnTyped, StepsAre DEF GoesOn, Interrupt, RefreshControlTypeOK, At
<1>7. CASE Discard(w)
  BY <1>0, <1>7, GoesOnTyped, StepsAre DEF GoesOn, Discard, RefreshControlTypeOK, At
<1>8. CASE Admit(w)
  <2>1. registry' \in [Sources -> SourceIds \cup {None}]
    BY <1>0, <1>8, RegisterTyped, ObservedInTyped DEF Admit, RefreshControlTypeOK
  <2> QED
    BY <1>0, <1>8, <2>1, GoesOnTyped, StepsAre DEF GoesOn, Admit, RefreshControlTypeOK, At
<1>9. CASE Stage(w)
  <2>1. registry' \in [Sources -> SourceIds \cup {None}] /\ staged' \in BOOLEAN
    BY <1>0, <1>9 DEF Stage, StageCatalog, RefreshControlTypeOK, Observation
  <2>2. PICK pc \in {"catalog", "prepare"} : Goto(w, pc)
    BY <1>9 DEF Stage
  <2> QED
    BY <1>0, <1>9, <2>1, <2>2, GoesOnTyped, StepsAre DEF GoesOn, Stage, RefreshControlTypeOK, At
<1>10. CASE Catalog(w)
  <2>1. RefreshControlTypeOK'
    BY <1>0, <1>10, RecordTyped DEF Catalog, RefreshControlTypeOK
  <2> QED
    BY <1>0, <1>10, <2>1, GoesOnTyped, StepsAre DEF GoesOn, Catalog, At
<1>11. CASE Capture(w)
  <2>1. PICK pc \in {"complete", "failRun"} : Goto(w, pc)
    BY <1>11 DEF Capture, Raise
  <2> QED
    BY <1>0, <1>11, <2>1, GoesOnTyped, StepsAre
       DEF GoesOn, Capture, sidecarVars, RefreshControlTypeOK, At
<1>12. CASE Promote(w)
  <2>1. control' \in Control
    BY <1>0, <1>12, PromotedTyped DEF Promote, RefreshControlTypeOK
  <2>2. RefreshControlTypeOK'
    BY <1>0, <1>12, <2>1, RecordTyped DEF Promote, RefreshControlTypeOK
  <2>3. PICK pc \in {"register", "failRun"} : Goto(w, pc)
    BY <1>12 DEF Promote, Raise
  <2> QED
    BY <1>0, <1>12, <2>2, <2>3, GoesOnTyped, StepsAre DEF GoesOn, Promote, At
<1>13. CASE Register(w)
  <2>1. registry' \in [Sources -> SourceIds \cup {None}]
    BY <1>0, <1>13, RegisterTyped DEF Register, RefreshControlTypeOK
  <2> QED
    BY <1>0, <1>13, <2>1, GoesOnTyped, StepsAre DEF GoesOn, Register, RefreshControlTypeOK, At
<1>14. CASE Complete(w)
  <2>1. runs' \in [Workers -> Run]
    BY <1>0, <1>14, CloseTyped DEF Complete, RefreshControlTypeOK, RunState
  <2> QED
    BY <1>0, <1>14, <2>1, EndsTyped DEF Complete, RefreshControlTypeOK, Ended
<1>15. CASE FailRun(w)
  <2>1. runs' \in [Workers -> Run]
    BY <1>0, <1>15, CloseTyped DEF FailRun, RefreshControlTypeOK, RunState
  <2> QED
    BY <1>0, <1>15, <2>1, GoesOnTyped, StepsAre DEF GoesOn, FailRun, RefreshControlTypeOK, At
<1>16. CASE Blame(w)
  <2>1. RefreshControlTypeOK' /\ artifact' \in [Paths -> Artifact] /\ UNCHANGED <<file, world>>
    BY <1>0, <1>16 DEF Blame, sidecarVars, RefreshControlTypeOK
  <2> QED
    BY <1>16, <2>1, EndsTyped, GoesOnTyped, StepsAre DEF GoesOn, Blame, At, Ended
<1>17. CASE Condemn(w)
  <2>1. control' \in Control
    BY <1>0, <1>17, FailTyped DEF Condemn, RefreshControlTypeOK
  <2> QED
    BY <1>0, <1>17, <2>1, EndsTyped DEF Condemn, RefreshControlTypeOK, Ended
<1>18. CASE Fault(w)
  BY <1>0, <1>18, GoesOnTyped, StepsAre
     DEF GoesOn, Fault, Raise, sidecarVars, RefreshControlTypeOK
<1>19. CASE Crash(w)
  BY <1>0, <1>19, EndsTyped DEF Crash, sidecarVars, RefreshControlTypeOK, Ended
<1> QED
  BY <1>1, <1>2, <1>3, <1>4, <1>5, <1>6, <1>7, <1>8, <1>9, <1>10, <1>11, <1>12, <1>13, <1>14,
     <1>15, <1>16, <1>17, <1>18, <1>19

-----------------------------------------------------------------------------
(* The steps that learn something. *)

LEMMA Least ==
    ASSUME NEW S \in SUBSET Nat, S # {}
    PROVE  \E n \in S : \A m \in S : n <= m
<1> DEFINE T == {0 .. n : n \in S}
           R == StrictSubsetOrdering(Nat)
<1>1. IsWellFoundedOn(R, FiniteSubsetsOf(Nat))
  BY FS_StrictSubsetOrderingWellFounded
<1>2. T \subseteq FiniteSubsetsOf(Nat) /\ T # {}
  <2>1. ASSUME NEW n \in S PROVE 0 .. n \in SUBSET Nat /\ IsFiniteSet(0 .. n)
    BY FS_Interval
  <2> QED
    BY <2>1 DEF FiniteSubsetsOf
<1>3. \E x \in T : \A y \in T : ~(<<y, x>> \in R)
  <2> HIDE DEF T, R
  <2> QED
    BY <1>1, <1>2, WFMin
<1>4. PICK n \in S : \A m \in S : ~(<<0 .. m, 0 .. n>> \in R)
  BY <1>3
<1>5. ASSUME NEW m \in S, m < n PROVE FALSE
  <2>1. 0 .. m \subseteq 0 .. n /\ n \in 0 .. n /\ n \notin 0 .. m /\ 0 .. n \subseteq Nat
    BY <1>5
  <2>2. <<0 .. m, 0 .. n>> \in R
    BY <2>1 DEF StrictSubsetOrdering
  <2> QED
    BY <2>2, <1>4
<1> QED
  BY <1>5

\* The latest valid generation of a database is one, and no valid one is above it.
LEMMA LatestIs ==
    ASSUME NEW a
    PROVE  /\ LatestValid(a) \in 0 .. MaxGeneration
           /\ LatestValid(a) > 0 => LatestValid(a) \in Generations /\ a.gens[LatestValid(a)] = "valid"
           /\ \A g \in Generations : a.gens[g] = "valid" => g <= LatestValid(a)
<1> DEFINE valid == {g \in Generations : a.gens[g] = "valid"}
           below == {MaxGeneration - g : g \in valid}
<1>0. MaxGeneration \in Nat /\ \A g \in Generations : g \in 1 .. MaxGeneration
  BY ArtifactBounds DEF Generations
<1>1. CASE valid = {}
  BY <1>0, <1>1 DEF LatestValid
<1>2. CASE valid # {}
  <2>1. below \in SUBSET Nat /\ below # {}
    BY <1>0, <1>2
  <2>2. PICK n \in below : \A m \in below : n <= m
    BY <2>1, Least
  <2>3. PICK g \in valid : n = MaxGeneration - g
    BY <2>2
  <2>4. ASSUME NEW h \in valid PROVE h <= g
    <3>1. n <= MaxGeneration - h /\ h \in 1 .. MaxGeneration /\ g \in 1 .. MaxGeneration
      BY <1>0, <2>2, <2>3
    <3> QED
      BY <1>0, <2>3, <3>1
  <2> HIDE DEF valid
  <2>5. LET top == CHOOSE x \in valid : \A h \in valid : h <= x
        IN  top \in valid /\ \A h \in valid : h <= top
    BY <2>4
  <2>6. LatestValid(a) = CHOOSE x \in valid : \A h \in valid : h <= x
    BY <1>2 DEF LatestValid, valid
  <2> QED
    BY <1>0, <2>5, <2>6 DEF valid, Generations
<1> QED
  BY <1>1, <1>2

\* A worker's state in which some of what it knows was set.
LEMMA Kept ==
    ASSUME TypeInv, NEW w \in Workers, NEW rec \in WorkerState,
           rec.scope = wk[w].scope, rec.obs = wk[w].obs,
           rec.plans \subseteq wk[w].plans \/ \A p \in rec.plans : p.obs.id[1] \in wk[w].scope,
           rec.todo \subseteq wk[w].todo \cup wk[w].plans \/ \A p \in rec.todo : p.obs.id[1] \in wk[w].scope,
           rec.pc \in Informed => wk[w].pc \in Informed,
           rec.pc \in Chosen => rec.gen \in Generations,
           rec.pc \in Pathed => rec.path \in Paths
    PROVE  Looked(rec)
<1>1. Looked(wk[w])
  BY WorkerTyped
<1>2. \A p \in wk[w].plans \cup wk[w].todo : p.obs.id[1] \in wk[w].scope
  BY <1>1 DEF Looked
<1>3. \A p \in rec.plans \cup rec.todo : p.obs.id[1] \in rec.scope
  BY <1>2
<1> QED
  BY <1>1, <1>3 DEF Looked

LEMMA Unchanged ==
    ASSUME TypeInv, UNCHANGED <<sidecarVars, file, artifact, world>>
    PROVE  RefreshControlTypeOK' /\ artifact' \in [Paths -> Artifact]
BY DEF TypeInv, Typed, RefreshControlTypeOK, sidecarVars

LEMMA RecoverTyped ==
    ASSUME TypeInv, NEW w \in Workers, Recover(w)
    PROVE  TypeInv'
<1>0. wk[w] \in WorkerState /\ control \in Control
  BY WorkerTyped DEF TypeInv, Typed, RefreshControlTypeOK
<1>1. PICK next \in {"recoverRollups", "recoverBegin", "recoverPromote", "interrupt", "discard", "admit"},
           found \in BOOLEAN, latest \in 0 .. MaxGeneration, failed \in BOOLEAN :
         Becomes(w, [wk[w] EXCEPT !.pc = next, !.read = control, !.wasFailed = failed,
                                  !.gen = IF found THEN latest ELSE control.gen])
  <2>1. (IF control.staging = None THEN 0 ELSE LatestValid(artifact[control.staging])) \in 0 .. MaxGeneration
    BY LatestIs, ArtifactBounds
  <2> QED
    BY <2>1 DEF Recover
<1> DEFINE rec == [wk[w] EXCEPT !.pc = next, !.read = control, !.wasFailed = failed,
                                !.gen = IF found THEN latest ELSE control.gen]
<1>2. rec \in WorkerState
  <2>1. (IF found THEN latest ELSE control.gen) \in 0 .. MaxGeneration
    BY <1>0 DEF Control
  <2>2. next \in Steps
    BY StepsAre
  <2> QED
    BY <1>0, <2>1, <2>2 DEF WorkerState
<1>3. /\ rec.pc = next /\ rec.scope = wk[w].scope /\ rec.obs = wk[w].obs /\ rec.plans = wk[w].plans
      /\ rec.todo = wk[w].todo
  BY <1>0 DEF WorkerState
<1>4. wk[w].pc \in Informed
  BY StepsAre DEF Recover, At
<1>5. Becomes(w, rec)
  BY <1>1
<1> HIDE DEF rec
<1>6. Looked(rec)
  BY <1>2, <1>3, <1>4, Kept, StepsAre
<1>7. UNCHANGED <<sidecarVars, file, artifact, world>>
  BY DEF Recover
<1> QED
  BY <1>2, <1>5, <1>6, <1>7, Unchanged, WorkerSteps

LEMMA RecoverRollupsTyped ==
    ASSUME TypeInv, NEW w \in Workers, RecoverRollups(w)
    PROVE  TypeInv'
<1> DEFINE path == wk[w].read.staging
           a == artifact[path]
           from == wk[w].read.gen
           b == IF RollupsReady(a, from) THEN AdvanceRollups(a, wk[w].gen, from)
                ELSE RebuildRollups(a, wk[w].gen)
<1>0. wk[w] \in WorkerState /\ RefreshControlTypeOK /\ artifact \in [Paths -> Artifact]
  BY WorkerTyped DEF TypeInv, Typed
<1>1. path \in Paths => b \in Artifact
  <2>1. ASSUME path \in Paths PROVE a \in Artifact
    BY <1>0, <2>1
  <2> HIDE DEF a, from
  <2> QED
    BY <2>1, AdvanceTyped, RebuildTyped DEF RollupsReady
<1>2. artifact' = [artifact EXCEPT ![path] = b]
  BY DEF RecoverRollups
<1> HIDE DEF b, path
<1>3. artifact' \in [Paths -> Artifact]
  BY <1>0, <1>1, <1>2
<1>4. PICK pc \in {"recoverBegin", "recoverPromote"} : Goto(w, pc)
  BY DEF RecoverRollups
<1>5. GoesOn(w, pc)
  BY <1>4, StepsAre DEF GoesOn, RecoverRollups, At
<1>6. RefreshControlTypeOK' /\ UNCHANGED <<file, world>>
  BY <1>0 DEF RecoverRollups, sidecarVars, RefreshControlTypeOK
<1> QED
  BY <1>3, <1>4, <1>5, <1>6, GoesOnTyped, StepsAre

\* What a plan is made of.
LEMMA PlansTyped ==
    ASSUME TypeInv, NEW w \in Workers, wk[w].pc \in Informed, NEW path \in Paths
    PROVE  /\ PlansFor(w, path) \in SUBSET Plan
           /\ \A p \in PlansFor(w, path) : \E s \in wk[w].scope : p.obs = wk[w].obs[s] /\ p.obs.id[1] = s
<1>0. /\ wk[w] \in WorkerState /\ Looked(wk[w]) /\ RefreshControlTypeOK
      /\ artifact[path] \in Artifact /\ file \in [Sources -> Observation \cup {None}]
  BY WorkerTyped DEF TypeInv, Typed
<1> DEFINE known(s) == IF registry[s] = None THEN wk[w].obs[s].id ELSE registry[s]
           made(s) == plan_source(artifact[path], wk[w].obs[s], known(s), file[s])
<1>1. ASSUME NEW s \in wk[w].scope
      PROVE  /\ s \in Sources /\ wk[w].obs[s] \in Observation /\ file[s] \in Observation
             /\ wk[w].obs[s].id[1] = s /\ known(s) \in SourceIds
  BY <1>0 DEF WorkerState, Looked, RefreshControlTypeOK, Observation
<1>2. ASSUME NEW s \in wk[w].scope
      PROVE  made(s) \in SUBSET Plan /\ \A p \in made(s) : p.obs = wk[w].obs[s]
  <2> HIDE DEF known
  <2> QED
    BY <1>0, <1>1, PlanTyped
<1>3. PlansFor(w, path) = UNION {made(s) : s \in wk[w].scope}
  BY DEF PlansFor
<1> HIDE DEF made
<1> QED
  BY <1>1, <1>2, <1>3

LEMMA MakePlansTyped ==
    ASSUME TypeInv, NEW w \in Workers, MakePlans(w)
    PROVE  TypeInv'
<1> DEFINE plans == PlansFor(w, ActivePath)
           planned == {p.obs : p \in plans}
<1>0. wk[w] \in WorkerState /\ ActivePath \in Paths /\ wk[w].pc \in Informed
  BY WorkerTyped, ActivePathTyped, StepsAre DEF MakePlans, At
<1>1. plans \in SUBSET Plan /\ \A p \in plans : p.obs.id[1] \in wk[w].scope
  BY <1>0, PlansTyped
<1>2. planned \in SUBSET Observation
  BY <1>1 DEF Plan
<1>3. PICK pc \in {"capture", "stage"} :
        Becomes(w, [wk[w] EXCEPT !.pc = pc, !.plans = plans, !.planned = planned, !.path = ActivePath])
  BY DEF MakePlans
<1> HIDE DEF plans, planned
<1> DEFINE rec == [wk[w] EXCEPT !.pc = pc, !.plans = plans, !.planned = planned, !.path = ActivePath]
<1>4. rec \in WorkerState
  BY <1>0, <1>1, <1>2, StepsAre DEF WorkerState
<1>5. /\ rec.pc = pc /\ rec.scope = wk[w].scope /\ rec.obs = wk[w].obs /\ rec.plans = plans
      /\ rec.todo = wk[w].todo /\ rec.path = ActivePath
  BY <1>0 DEF WorkerState
<1>6. Becomes(w, rec)
  BY <1>3
<1> HIDE DEF rec
<1>7. Looked(rec)
  BY <1>0, <1>1, <1>4, <1>5, Kept, StepsAre
<1>8. UNCHANGED <<sidecarVars, file, artifact, world>>
  BY DEF MakePlans
<1> QED
  BY <1>4, <1>6, <1>7, <1>8, Unchanged, WorkerSteps

\* A step of a worker that writes what it may write to a database.
LEMMA Writes ==
    ASSUME TypeInv, NEW w \in Workers, NEW b, wk[w].path \in Paths => b \in Artifact,
           artifact' = [artifact EXCEPT ![wk[w].path] = b]
    PROVE  artifact' \in [Paths -> Artifact]
BY ArtifactSet DEF TypeInv, Typed

LEMMA ParsedNowTyped ==
    ASSUME TypeInv, NEW plans \in SUBSET Plan, NEW scope,
           \A s \in scope : file[s] # None /\ s \in Sources,
           \A p \in plans : p.obs.id[1] \in scope
    PROVE  /\ ParsedNow(plans) \in SUBSET Plan
           /\ \A p \in ParsedNow(plans) : p.obs.id[1] \in scope
<1> DEFINE read(p) == Parsed(p, file[p.obs.id[1]])
<1>1. ASSUME NEW p \in plans PROVE read(p) \in Plan /\ read(p).obs = p.obs
  <2>1. file[p.obs.id[1]] \in Observation
    BY DEF TypeInv, Typed
  <2> QED
    BY <2>1, ParsedTyped
<1>2. ParsedNow(plans) = {read(p) : p \in plans}
  BY DEF ParsedNow
<1> HIDE DEF read
<1> QED
  BY <1>1, <1>2

LEMMA ScopeIs ==
    ASSUME TypeInv, NEW w \in Workers
    PROVE  /\ \A s \in wk[w].scope : file[s] # None /\ s \in Sources
           /\ \A p \in wk[w].plans \cup wk[w].todo : p.obs.id[1] \in wk[w].scope
           /\ \A p \in wk[w].plans \cup wk[w].todo : p \in Plan
           /\ wk[w].pc \in Chosen => wk[w].gen \in Generations
           /\ wk[w].pc \in Pathed => wk[w].path \in Paths
BY WorkerTyped DEF Looked, WorkerState

LEMMA FenceTyped ==
    ASSUME TypeInv, NEW w \in Workers, Fence(w)
    PROVE  TypeInv'
<1> DEFINE rec == [wk[w] EXCEPT !.fenced = TRUE]
<1>0. wk[w] \in WorkerState /\ UNCHANGED <<sidecarVars, file, artifact, world>>
  BY WorkerTyped DEF Fence
<1>1. rec \in WorkerState
  BY <1>0 DEF WorkerState
<1>2. /\ rec.pc = wk[w].pc /\ rec.scope = wk[w].scope /\ rec.obs = wk[w].obs /\ rec.plans = wk[w].plans
      /\ rec.todo = wk[w].todo /\ rec.gen = wk[w].gen /\ rec.path = wk[w].path
  BY <1>0 DEF WorkerState
<1>3. CASE Becomes(w, rec)
  <2> HIDE DEF rec
  <2>1. Looked(rec)
    BY <1>1, <1>2, ScopeIs, Kept
  <2> QED
    BY <1>0, <1>1, <1>3, <2>1, Unchanged, WorkerSteps
<1>4. CASE Goto(w, "failRun")
  BY <1>0, <1>4, Unchanged, GoesOnTyped, StepsAre DEF GoesOn
<1> QED
  BY <1>3, <1>4 DEF Fence, Raise

LEMMA PrepareTyped ==
    ASSUME TypeInv, NEW w \in Workers, Prepare(w)
    PROVE  TypeInv'
<1>0. /\ wk[w] \in WorkerState /\ UNCHANGED <<sidecarVars, file, artifact, world>>
      /\ control.gen \in Nat /\ control.gen + 1 \in Generations
      /\ control.gen + 1 \in 0 .. MaxGeneration
      /\ wk[w].pc \in Informed /\ wk[w].path \in Paths
  BY WorkerTyped, ScopeIs, ArtifactBounds, StepsAre
     DEF Prepare, TypeInv, Typed, RefreshControlTypeOK, Control, Generations, At
<1>1. PICK stream \in BOOLEAN :
        Becomes(w, [wk[w] EXCEPT !.pc = "clone", !.fenced = FALSE, !.gen = control.gen + 1,
                                 !.stream = stream,
                                 !.plans = IF stream THEN wk[w].plans ELSE ParsedNow(wk[w].plans)])
  <2>1. MayStream(wk[w].plans) \subseteq BOOLEAN
    BY DEF MayStream
  <2> QED
    BY <1>0, <2>1 DEF Prepare, WorkerState
<1> DEFINE plans == IF stream THEN wk[w].plans ELSE ParsedNow(wk[w].plans)
<1>2. plans \in SUBSET Plan /\ \A p \in plans : p.obs.id[1] \in wk[w].scope
  BY ScopeIs, ParsedNowTyped
<1> HIDE DEF plans
<1> DEFINE rec == [wk[w] EXCEPT !.pc = "clone", !.fenced = FALSE, !.gen = control.gen + 1,
                                !.stream = stream, !.plans = plans]
<1>3. rec \in WorkerState
  BY <1>0, <1>2, StepsAre DEF WorkerState
<1>4. /\ rec.scope = wk[w].scope /\ rec.obs = wk[w].obs /\ rec.plans = plans
      /\ rec.todo = wk[w].todo /\ rec.gen = control.gen + 1 /\ rec.path = wk[w].path
  BY <1>0 DEF WorkerState
<1>5. Becomes(w, rec)
  BY <1>1 DEF plans
<1> HIDE DEF rec
<1>6. Looked(rec)
  BY <1>0, <1>2, <1>3, <1>4, Kept
<1> QED
  BY <1>0, <1>3, <1>5, <1>6, Unchanged, WorkerSteps

\* The ways a build may be isolated.
LEMMA IsolationsAre ==
    ASSUME NEW w
    PROVE  /\ \A way \in Isolations(w) : \/ way = [isolated |-> FALSE, incremental |-> TRUE]
                                        \/ way = [isolated |-> TRUE, incremental |-> FALSE]
                                        \/ way = [isolated |-> TRUE, incremental |-> TRUE]
           /\ \A way \in Isolations(w) : way.isolated \in BOOLEAN /\ way.incremental \in BOOLEAN
           /\ [isolated |-> FALSE, incremental |-> TRUE] \in Isolations(w) =>
                 /\ ~(wk[w].stream /\ control.gen > 0)
                 /\ \A p \in wk[w].plans : ~(p.replace /\ p.prior # None)
<1> DEFINE replacement == \E p \in wk[w].plans : p.replace /\ p.prior # None
           forced == wk[w].stream /\ control.gen > 0
           x == [isolated |-> FALSE, incremental |-> TRUE]
           y == [isolated |-> TRUE, incremental |-> FALSE]
           z == [isolated |-> TRUE, incremental |-> TRUE]
<1>1. Isolations(w) = IF replacement \/ forced THEN {y}
                      ELSE IF control.gen = 0 THEN {x} ELSE {x, y, z}
  BY DEF Isolations
<1>2. x # y
  <2>1. x.isolated = FALSE /\ y.isolated = TRUE
    OBVIOUS
  <2> QED
    BY <2>1, Zenon
<1>6. /\ x.isolated = FALSE /\ x.incremental = TRUE
      /\ y.isolated = TRUE /\ y.incremental = FALSE
      /\ z.isolated = TRUE /\ z.incremental = TRUE
  OBVIOUS
<1>7. /\ x.isolated \in BOOLEAN /\ x.incremental \in BOOLEAN
      /\ y.isolated \in BOOLEAN /\ y.incremental \in BOOLEAN
      /\ z.isolated \in BOOLEAN /\ z.incremental \in BOOLEAN
  BY <1>6, Zenon
<1> HIDE DEF x, y, z, replacement, forced
<1>3. \A way \in Isolations(w) : way = x \/ way = y \/ way = z
  BY <1>1
<1>4. x \in Isolations(w) => ~replacement /\ ~forced
  BY <1>1, <1>2
<1>5. replacement \/ ~replacement
  OBVIOUS
<1>8. \A way \in Isolations(w) : way.isolated \in BOOLEAN /\ way.incremental \in BOOLEAN
  BY <1>3, <1>7, Zenon
<1> QED
  BY <1>3, <1>4, <1>8 DEF x, y, z, replacement, forced

LEMMA CloneTyped ==
    ASSUME TypeInv, NEW w \in Workers, Clone(w)
    PROVE  TypeInv'
<1>0. /\ wk[w] \in WorkerState /\ UNCHANGED <<sidecarVars, file, world>>
      /\ control.gen \in 0 .. MaxGeneration /\ w \in Paths /\ artifact \in [Paths -> Artifact]
      /\ wk[w].pc \in Informed /\ wk[w].pc \in Chosen /\ wk[w].path \in Paths
  BY WorkerTyped, ScopeIs, StepsAre DEF Clone, TypeInv, Typed, RefreshControlTypeOK, Control, Paths, At
<1>1. PICK isolated \in BOOLEAN, incremental \in BOOLEAN :
        /\ artifact' = IF isolated THEN [artifact EXCEPT ![w] = artifact[wk[w].path]] ELSE artifact
        /\ Becomes(w, [wk[w] EXCEPT !.pc = "begin", !.fenced = FALSE, !.prior = control.gen,
                                    !.path = IF isolated THEN w ELSE wk[w].path,
                                    !.incremental = incremental])
  <2>1. \A way \in Isolations(w) : way.isolated \in BOOLEAN /\ way.incremental \in BOOLEAN
    BY IsolationsAre, Zenon
  <2> QED
    BY <1>0, <2>1 DEF Clone, WorkerState
<1> DEFINE path == IF isolated THEN w ELSE wk[w].path
           rec == [wk[w] EXCEPT !.pc = "begin", !.fenced = FALSE, !.prior = control.gen,
                                !.path = path, !.incremental = incremental]
<1>2. path \in Paths
  BY <1>0
<1> HIDE DEF path
<1>3. rec \in WorkerState
  BY <1>0, <1>2, StepsAre DEF WorkerState
<1>4. /\ rec.scope = wk[w].scope /\ rec.obs = wk[w].obs /\ rec.plans = wk[w].plans
      /\ rec.todo = wk[w].todo /\ rec.gen = wk[w].gen /\ rec.path = path
  BY <1>0 DEF WorkerState
<1>5. Becomes(w, rec)
  BY <1>1 DEF path
<1> HIDE DEF rec
<1>6. Looked(rec)
  BY <1>0, <1>2, <1>3, <1>4, ScopeIs, Kept
<1>7. RefreshControlTypeOK'
  BY <1>0 DEF sidecarVars, RefreshControlTypeOK, TypeInv, Typed
<1>8. artifact' \in [Paths -> Artifact]
  BY <1>0, <1>1
<1> QED
  BY <1>0, <1>3, <1>5, <1>6, <1>7, <1>8, WorkerSteps

LEMMA BeginStepTyped ==
    ASSUME TypeInv, NEW w \in Workers, Begin(w)
    PROVE  TypeInv'
<1>0. /\ wk[w] \in WorkerState /\ UNCHANGED <<file, artifact, world>>
      /\ wk[w].pc \in Informed /\ wk[w].pc \in Chosen /\ wk[w].path \in Paths
      /\ artifact \in [Paths -> Artifact]
  BY WorkerTyped, ScopeIs, StepsAre DEF Begin, At, TypeInv, Typed
<1>1. RefreshControlTypeOK'
  BY <1>0, BeginTyped DEF Begin, RefreshControlTypeOK, TypeInv, Typed
<1>2. CASE Goto(w, "open")
  BY <1>0, <1>1, <1>2, GoesOnTyped, StepsAre DEF GoesOn, At
<1>3. CASE wk[w].stream
  <2> DEFINE rec == [wk[w] EXCEPT !.pc = "batch", !.todo = wk[w].plans]
  <2>1. rec \in WorkerState
    BY <1>0, StepsAre DEF WorkerState
  <2>2. /\ rec.scope = wk[w].scope /\ rec.obs = wk[w].obs /\ rec.plans = wk[w].plans
        /\ rec.todo = wk[w].plans /\ rec.gen = wk[w].gen /\ rec.path = wk[w].path
    BY <1>0 DEF WorkerState
  <2>3. Becomes(w, rec)
    BY <1>3 DEF Begin
  <2> HIDE DEF rec
  <2>4. Looked(rec)
    BY <1>0, <2>1, <2>2, ScopeIs, Kept
  <2> QED
    BY <1>0, <1>1, <2>1, <2>3, <2>4, WorkerSteps
<1> QED
  BY <1>2, <1>3 DEF Begin

\* A commit that keeps the plans.
LEMMA CommitTyped ==
    ASSUME TypeInv, NEW w \in Workers, NEW b \in Artifact, NEW pc \in Chosen,
           NEW todo \in SUBSET (wk[w].todo \cup wk[w].plans), wk[w].pc \in Chosen,
           Commit(w, b, [wk[w] EXCEPT !.pc = pc, !.todo = todo]),
           UNCHANGED <<sidecarVars, file, world>>
    PROVE  TypeInv'
<1> DEFINE rec == [[wk[w] EXCEPT !.pc = pc, !.todo = todo] EXCEPT !.fenced = FALSE]
<1>0. /\ wk[w] \in WorkerState /\ artifact \in [Paths -> Artifact]
      /\ wk[w].pc \in Informed /\ wk[w].pc \in Pathed /\ wk[w].gen \in Generations
      /\ pc \in Steps /\ todo \in SUBSET Plan
  BY WorkerTyped, ScopeIs, StepsAre DEF TypeInv, Typed
<1>1. rec \in WorkerState
  BY <1>0 DEF WorkerState
<1>2. /\ rec.scope = wk[w].scope /\ rec.obs = wk[w].obs /\ rec.plans = wk[w].plans
      /\ rec.todo = todo /\ rec.gen = wk[w].gen /\ rec.path = wk[w].path
  BY <1>0 DEF WorkerState
<1>3. Becomes(w, rec) /\ artifact' = [artifact EXCEPT ![wk[w].path] = b]
  BY DEF Commit
<1> HIDE DEF rec
<1>4. Looked(rec)
  BY <1>0, <1>1, <1>2, ScopeIs, Kept
<1>5. RefreshControlTypeOK'
  BY DEF sidecarVars, RefreshControlTypeOK, TypeInv, Typed
<1>6. artifact' \in [Paths -> Artifact]
  BY <1>3, Writes
<1> QED
  BY <1>1, <1>3, <1>4, <1>5, <1>6, WorkerSteps

\* The commits of a build.
LEMMA CommitsTyped ==
    ASSUME TypeInv, NEW w \in Workers,
           Open(w) \/ Facts(w) \/ Seal(w) \/ Batch(w) \/ Finalize(w)
    PROVE  TypeInv'
<1>0. /\ wk[w] \in WorkerState /\ wk[w].pc \in Chosen /\ wk[w].path \in Paths
      /\ Written(w) \in Artifact /\ wk[w].gen \in Generations
      /\ wk[w].plans \in SUBSET Plan /\ wk[w].todo \in SUBSET Plan
      /\ UNCHANGED <<sidecarVars, file, world>>
      /\ \A p \in wk[w].todo : file[p.obs.id[1]] \in Observation
  <2>1. wk[w].pc \in Chosen /\ wk[w].pc \in Pathed /\ UNCHANGED <<sidecarVars, file, world>>
    BY StepsAre DEF Open, Facts, Seal, Batch, Finalize, At
  <2> QED
    BY <2>1, WorkerTyped, ScopeIs DEF TypeInv, Typed, WorkerState, Written
<1>1. CASE Open(w)
  <2> DEFINE pc == IF wk[w].plans = {} THEN "seal" ELSE "facts"
             b == OpenRefresh(Written(w), wk[w].plans, wk[w].gen)
  <2>1. pc \in Chosen /\ b \in Artifact
    BY <1>0, StepsAre, OpenTyped
  <2>2. Commit(w, b, [wk[w] EXCEPT !.pc = pc, !.todo = wk[w].plans])
    BY <1>1 DEF Open
  <2> HIDE DEF b, pc
  <2> QED
    BY <1>0, <2>1, <2>2, CommitTyped
<1>2. CASE Facts(w)
  <2>1. CASE Goto(w, "failRun") /\ UNCHANGED artifact
    BY <1>0, <2>1, Unchanged, GoesOnTyped, StepsAre DEF GoesOn
  <2>2. ASSUME NEW plan \in wk[w].todo, NEW pc \in Chosen,
               Commit(w, InsertFacts(Written(w), plan, wk[w].gen),
                      [wk[w] EXCEPT !.pc = pc, !.todo = wk[w].todo \ {plan}])
        PROVE  TypeInv'
    <3> DEFINE b == InsertFacts(Written(w), plan, wk[w].gen)
    <3>1. b \in Artifact
      BY <1>0, InsertTyped
    <3> HIDE DEF b
    <3>2. Commit(w, b, [wk[w] EXCEPT !.pc = pc, !.todo = wk[w].todo \ {plan}])
      BY <2>2 DEF b
    <3> QED
      BY <1>0, <3>1, <3>2, CommitTyped
  <2>3. PICK plan \in wk[w].todo :
          \/ Commit(w, InsertFacts(Written(w), plan, wk[w].gen),
                    [wk[w] EXCEPT !.pc = IF wk[w].todo \ {plan} = {} THEN "seal" ELSE wk[w].pc,
                                  !.todo = wk[w].todo \ {plan}])
          \/ Raise(w) /\ UNCHANGED artifact
    BY <1>2 DEF Facts
  <2>4. (IF wk[w].todo \ {plan} = {} THEN "seal" ELSE wk[w].pc) \in Chosen
    BY <1>0, StepsAre
  <2> QED
    BY <2>1, <2>2, <2>3, <2>4 DEF Raise
<1>3. CASE Seal(w)
  <2> DEFINE b == SealRefresh(Written(w), wk[w].plans, wk[w].gen)
             rec == [wk[w] EXCEPT !.pc = "catchUp"]
  <2>1. b \in Artifact /\ "catchUp" \in Chosen
    BY <1>0, StepsAre, SealTyped
  <2>2. rec = [wk[w] EXCEPT !.pc = "catchUp", !.todo = wk[w].todo]
    BY <1>0 DEF WorkerState
  <2>3. Commit(w, b, rec)
    BY <1>3 DEF Seal
  <2> HIDE DEF b, rec
  <2> QED
    BY <1>0, <2>1, <2>2, <2>3, CommitTyped
<1>4. CASE Batch(w)
  <2>1. CASE Goto(w, "failRun") /\ UNCHANGED artifact
    BY <1>0, <2>1, Unchanged, GoesOnTyped, StepsAre DEF GoesOn
  <2>2. ASSUME NEW plan \in wk[w].todo, NEW pc \in Chosen, NEW first \in BOOLEAN,
               Commit(w, CommitBatch(Written(w), Parsed(plan, file[plan.obs.id[1]]), wk[w].gen, first),
                      [wk[w] EXCEPT !.pc = pc, !.todo = wk[w].todo \ {plan}])
        PROVE  TypeInv'
    <3> DEFINE read == Parsed(plan, file[plan.obs.id[1]])
               b == CommitBatch(Written(w), read, wk[w].gen, first)
    <3>1. read \in Plan
      BY <1>0, ParsedTyped
    <3>2. Commit(w, b, [wk[w] EXCEPT !.pc = pc, !.todo = wk[w].todo \ {plan}])
      BY <2>2
    <3> HIDE DEF read
    <3>3. b \in Artifact
      BY <1>0, <3>1, BatchTyped
    <3> HIDE DEF b
    <3> QED
      BY <1>0, <3>2, <3>3, CommitTyped
  <2>3. PICK plan \in wk[w].todo :
          \/ Commit(w, CommitBatch(Written(w), Parsed(plan, file[plan.obs.id[1]]), wk[w].gen,
                                   wk[w].todo = wk[w].plans),
                    [wk[w] EXCEPT !.pc = IF wk[w].todo \ {plan} = {} THEN "finalize" ELSE wk[w].pc,
                                  !.todo = wk[w].todo \ {plan}])
          \/ Raise(w) /\ UNCHANGED artifact
    BY <1>4 DEF Batch
  <2>4. (IF wk[w].todo \ {plan} = {} THEN "finalize" ELSE wk[w].pc) \in Chosen
    BY <1>0, StepsAre
  <2>5. (wk[w].todo = wk[w].plans) \in BOOLEAN
    OBVIOUS
  <2> QED
    BY <2>1, <2>2, <2>3, <2>4, <2>5 DEF Raise
<1>5. CASE Finalize(w)
  <2> DEFINE b == SealRefresh(Written(w), {}, wk[w].gen)
             rec == [wk[w] EXCEPT !.pc = "catchUp"]
  <2>1. b \in Artifact /\ "catchUp" \in Chosen
    BY <1>0, StepsAre, SealTyped
  <2>2. rec = [wk[w] EXCEPT !.pc = "catchUp", !.todo = wk[w].todo]
    BY <1>0 DEF WorkerState
  <2>3. Commit(w, b, rec)
    BY <1>5 DEF Finalize
  <2> HIDE DEF b, rec
  <2> QED
    BY <1>0, <2>1, <2>2, <2>3, CommitTyped
<1> QED
  BY <1>1, <1>2, <1>3, <1>4, <1>5

LEMMA CatchUpTyped ==
    ASSUME TypeInv, NEW w \in Workers, CatchUp(w)
    PROVE  TypeInv'
<1>0. /\ wk[w] \in WorkerState /\ UNCHANGED <<sidecarVars, file, artifact, world>> /\ Looked(wk[w])
      /\ wk[w].pc \in Chosen /\ wk[w].pc \in Pathed /\ wk[w].pc \in Informed
  BY WorkerTyped, StepsAre DEF CatchUp, At
<1>1. CASE Goto(w, "failRun")
  BY <1>0, <1>1, Unchanged, GoesOnTyped, StepsAre DEF GoesOn
<1>2. CASE Becomes(w, [wk[w] EXCEPT !.pc = "replan", !.attempt = wk[w].attempt + 1,
                                    !.obs = Observed(wk[w].scope)])
  <2> DEFINE obs == Observed(wk[w].scope)
             n == wk[w].attempt + 1
  <2>1. /\ obs \in [Sources -> Observation \cup {None}]
        /\ \A s \in Sources : obs[s] # None => s \in wk[w].scope /\ obs[s].id[1] = s
        /\ \A s \in wk[w].scope : obs[s] # None
    BY <1>0 DEF Observed, TypeInv, Typed, Looked, WorkerState
  <2>2. n \in Nat
    BY <1>0 DEF WorkerState
  <2> HIDE DEF obs, n
  <2> DEFINE rec == [wk[w] EXCEPT !.pc = "replan", !.attempt = n, !.obs = obs]
  <2>3. rec \in WorkerState
    BY <1>0, <2>1, <2>2, StepsAre DEF WorkerState
  <2>4. /\ rec.scope = wk[w].scope /\ rec.obs = obs /\ rec.plans = wk[w].plans
        /\ rec.todo = wk[w].todo /\ rec.gen = wk[w].gen /\ rec.path = wk[w].path
    BY <1>0 DEF WorkerState
  <2>5. Becomes(w, rec)
    BY <1>2 DEF n, obs
  <2> HIDE DEF rec
  <2>6. Looked(rec)
    BY <1>0, <2>1, <2>4 DEF Looked
  <2> QED
    BY <1>0, <2>3, <2>5, <2>6, Unchanged, WorkerSteps
<1> QED
  BY <1>1, <1>2 DEF CatchUp, Raise

LEMMA ReplanTyped ==
    ASSUME TypeInv, NEW w \in Workers, Replan(w)
    PROVE  TypeInv'
<1>0. /\ wk[w] \in WorkerState /\ UNCHANGED <<sidecarVars, file, artifact, world>> /\ Looked(wk[w])
      /\ wk[w].pc \in Chosen /\ wk[w].pc \in Pathed /\ wk[w].pc \in Informed
      /\ wk[w].gen \in Generations /\ wk[w].path \in Paths
      /\ Written(w) \in Artifact /\ file \in [Sources -> Observation \cup {None}]
  BY WorkerTyped, ScopeIs, StepsAre DEF Replan, At, TypeInv, Typed, Written
<1> DEFINE made(s) == LET o == wk[w].obs[s] IN plan_source(Written(w), o, o.id, file[s])
           again == UNION {made(s) : s \in wk[w].scope}
           plans == ParsedNow(again)
<1>1. ASSUME NEW s \in wk[w].scope
      PROVE  /\ s \in Sources /\ wk[w].obs[s] \in Observation /\ file[s] \in Observation
             /\ wk[w].obs[s].id[1] = s /\ wk[w].obs[s].id \in SourceIds
  BY <1>0 DEF WorkerState, Looked, Observation
<1>2. ASSUME NEW s \in wk[w].scope
      PROVE  made(s) \in SUBSET Plan /\ \A p \in made(s) : p.obs = wk[w].obs[s]
  BY <1>0, <1>1, PlanTyped
<1>3. PICK pc \in {"rollup", "open"} : Becomes(w, [wk[w] EXCEPT !.pc = pc, !.plans = plans])
  BY DEF Replan
<1> HIDE DEF made
<1>4. again \in SUBSET Plan /\ \A p \in again : p.obs.id[1] \in wk[w].scope
  BY <1>1, <1>2
<1> HIDE DEF again
<1>5. plans \in SUBSET Plan /\ \A p \in plans : p.obs.id[1] \in wk[w].scope
  BY <1>4, ScopeIs, ParsedNowTyped
<1> HIDE DEF plans
<1> DEFINE rec == [wk[w] EXCEPT !.pc = pc, !.plans = plans]
<1>6. rec \in WorkerState
  BY <1>0, <1>5, StepsAre DEF WorkerState
<1>7. /\ rec.scope = wk[w].scope /\ rec.obs = wk[w].obs /\ rec.plans = plans
      /\ rec.todo = wk[w].todo /\ rec.gen = wk[w].gen /\ rec.path = wk[w].path
  BY <1>0 DEF WorkerState
<1>8. Becomes(w, rec)
  BY <1>3
<1> HIDE DEF rec
<1>9. Looked(rec)
  BY <1>0, <1>5, <1>6, <1>7, Kept
<1> QED
  BY <1>0, <1>6, <1>8, <1>9, Unchanged, WorkerSteps

LEMMA RollupTyped ==
    ASSUME TypeInv, NEW w \in Workers, Rollup(w)
    PROVE  TypeInv'
<1> DEFINE a == Written(w)
           advance == wk[w].prior > 0 /\ wk[w].incremental
           b == IF advance THEN AdvanceRollups(a, wk[w].gen, wk[w].prior)
                ELSE RebuildRollups(a, wk[w].gen)
<1>0. /\ wk[w] \in WorkerState /\ UNCHANGED <<sidecarVars, file, world>> /\ Looked(wk[w])
      /\ wk[w].pc \in Chosen /\ wk[w].pc \in Pathed /\ wk[w].pc \in Informed
      /\ wk[w].gen \in Generations /\ wk[w].path \in Paths /\ a \in Artifact
      /\ wk[w].prior \in 0 .. MaxGeneration /\ MaxGeneration \in Nat
  BY WorkerTyped, ScopeIs, ArtifactBounds, StepsAre
     DEF Rollup, At, TypeInv, Typed, Written, WorkerState
<1>1. advance => wk[w].prior \in Generations
  BY <1>0 DEF Generations
<1>2. CASE Goto(w, "failRun") /\ UNCHANGED artifact
  BY <1>0, <1>2, Unchanged, GoesOnTyped, StepsAre DEF GoesOn
<1>3. CASE ~(advance /\ a.roll[wk[w].prior] = None)
  <2> DEFINE fenced == wk[w].planned = {}
             rec == [wk[w] EXCEPT !.pc = "promote", !.fenced = fenced]
  <2>1. b \in Artifact
    <3> HIDE DEF a
    <3> QED
      BY <1>0, <1>1, <1>3, AdvanceTyped, RebuildTyped
  <2>2. artifact' = [artifact EXCEPT ![wk[w].path] = b] /\ Becomes(w, rec)
    BY <1>3 DEF Rollup
  <2>3. fenced \in BOOLEAN
    OBVIOUS
  <2> HIDE DEF b, fenced
  <2>4. artifact' \in [Paths -> Artifact]
    BY <2>1, <2>2, Writes
  <2>5. rec \in WorkerState
    BY <1>0, <2>3, StepsAre DEF WorkerState
  <2>6. /\ rec.scope = wk[w].scope /\ rec.obs = wk[w].obs /\ rec.plans = wk[w].plans
        /\ rec.todo = wk[w].todo /\ rec.gen = wk[w].gen /\ rec.path = wk[w].path
    BY <1>0 DEF WorkerState
  <2> HIDE DEF rec
  <2>7. Looked(rec)
    BY <1>0, <2>5, <2>6, ScopeIs, Kept
  <2>8. RefreshControlTypeOK'
    BY <1>0 DEF sidecarVars, RefreshControlTypeOK, TypeInv, Typed
  <2> QED
    BY <1>0, <2>2, <2>4, <2>5, <2>7, <2>8, WorkerSteps
<1> QED
  BY <1>2, <1>3 DEF Rollup, Raise

LEMMA LeaseTyped ==
    ASSUME TypeInv, NEW w \in Workers, LeaseExpires(w) \/ Heartbeat(w)
    PROVE  TypeInv'
<1>1. runs' \in [Workers -> Run] /\ UNCHANGED <<control, staged, registry, coverage, file, artifact, wk, world>>
  BY DEF TypeInv, Typed, RefreshControlTypeOK, LeaseExpires, Heartbeat, Expire, Renew, Run
<1>2. Typed'
  BY <1>1 DEF TypeInv, Typed, RefreshControlTypeOK
<1>3. \A v \in Workers : Looked(wk[v])'
  BY <1>1 DEF TypeInv, Looked
<1> QED
  BY <1>2, <1>3 DEF TypeInv

\* What a change of a file is.
LEMMA FileChanges ==
    ASSUME TypeInv, NEW s \in Sources, ChangeFile(s)
    PROVE  \E o \in Observation :
              /\ file' = [file EXCEPT ![s] = o]
              /\ o.id[1] = s
              /\ \/ file[s] = None /\ MayChange("appear") /\ o.id = <<s, 1>> /\ o.ver = 1
                 \/ /\ file[s] # None /\ MayChange("append") /\ o.id = file[s].id
                    /\ o.ver = file[s].ver /\ o.len = file[s].len + 1
                 \/ file[s] # None /\ (MayChange("overwrite") \/ MayChange("rename"))
<1>0. /\ file[s] = None \/ (file[s] \in Observation /\ file[s].id[1] = s)
      /\ MaxLines \in Nat /\ MaxVersion \in Nat
  BY ArtifactBounds DEF TypeInv, Typed
<1>1. ASSUME file[s] = None, MayChange("appear"), NEW n \in 1 .. MaxLines,
             file' = [file EXCEPT ![s] = [id |-> <<s, 1>>, ver |-> 1, len |-> n]]
      PROVE  \E o \in Observation : /\ file' = [file EXCEPT ![s] = o] /\ o.id[1] = s
                                    /\ o.id = <<s, 1>> /\ o.ver = 1
  <2> DEFINE o == [id |-> <<s, 1>>, ver |-> 1, len |-> n]
  <2>1. o \in Observation
    BY <1>1, ArtifactBounds DEF Observation, SourceIds, Versions
  <2>2. o.id[1] = s /\ o.id = <<s, 1>> /\ o.ver = 1
    OBVIOUS
  <2> QED
    BY <1>1, <2>1, <2>2
<1>2. ASSUME file[s] # None, file[s].len < MaxLines, file' = [file EXCEPT ![s].len = @ + 1]
      PROVE  \E o \in Observation : /\ file' = [file EXCEPT ![s] = o] /\ o.id[1] = s
                                    /\ o.id = file[s].id /\ o.ver = file[s].ver
                                    /\ o.len = file[s].len + 1
  <2> DEFINE n == file[s].len + 1
             o == [file[s] EXCEPT !.len = n]
  <2>1. n \in 1 .. MaxLines
    BY <1>0, <1>2 DEF Observation
  <2>2. file' = [file EXCEPT ![s] = o]
    BY <1>2
  <2>3. o \in Observation /\ o.id = file[s].id /\ o.ver = file[s].ver /\ o.len = n
    <3> HIDE DEF n
    <3> QED
      BY <1>0, <1>2, <2>1 DEF Observation
  <2> QED
    BY <1>0, <1>2, <2>2, <2>3
<1>3. ASSUME file[s] # None, file[s].ver < MaxVersion, NEW n \in 1 .. MaxLines,
             NEW i \in {file[s].id[2], file[s].ver + 1}, file' = [file EXCEPT ![s] = Rewritten(s, i, n)]
      PROVE  \E o \in Observation : file' = [file EXCEPT ![s] = o] /\ o.id[1] = s
  <2> DEFINE v == file[s].ver + 1
             o == [id |-> <<s, i>>, ver |-> v, len |-> n]
  <2>1. v \in Versions /\ i \in Versions
    BY <1>0, <1>3 DEF Observation, Versions, SourceIds
  <2>2. file' = [file EXCEPT ![s] = o]
    BY <1>3 DEF Rewritten
  <2>3. o \in Observation /\ o.id[1] = s
    <3> HIDE DEF v
    <3> QED
      BY <2>1 DEF Observation, SourceIds
  <2> QED
    BY <2>2, <2>3
<1>4. CASE file[s] = None
  BY <1>1, <1>4 DEF ChangeFile
<1>5. CASE file[s] # None
  BY <1>2, <1>3, <1>5 DEF ChangeFile
<1> QED
  BY <1>4, <1>5

LEMMA ChangeTyped ==
    ASSUME TypeInv, NEW s \in Sources, ChangeFile(s)
    PROVE  TypeInv'
<1>1. PICK o \in Observation : file' = [file EXCEPT ![s] = o] /\ o.id[1] = s
  BY FileChanges
<1>2. UNCHANGED <<sidecarVars, artifact, wk, world>> /\ o # None
  BY AbsentArtifact DEF ChangeFile
<1>3. /\ file' \in [Sources -> Observation \cup {None}]
      /\ \A x \in Sources : file'[x] = IF x = s THEN o ELSE file[x]
  BY <1>1 DEF TypeInv, Typed
<1>4. Typed'
  BY <1>1, <1>2, <1>3 DEF TypeInv, Typed, RefreshControlTypeOK, sidecarVars
<1>5. \A v \in Workers : Looked(wk[v])'
  <2> SUFFICES ASSUME NEW v \in Workers PROVE Looked(wk[v])'
    OBVIOUS
  <2>1. wk[v] \in WorkerState /\ Looked(wk[v])
    BY WorkerTyped
  <2>2. \A x \in wk[v].scope : file'[x] # None
    BY <1>2, <1>3, <2>1 DEF Looked, WorkerState
  <2> QED
    BY <1>2, <2>1, <2>2 DEF Looked
<1> QED
  BY <1>4, <1>5 DEF TypeInv

LEMMA RollbackTyped ==
    ASSUME TypeInv, Rollback
    PROVE  TypeInv'
<1>1. RolledBack \in Control
  BY DEF TypeInv, Typed, RefreshControlTypeOK, RolledBack, Control
<1>2. control' = RolledBack /\ UNCHANGED <<runs, staged, registry, coverage, file, artifact, wk, world>>
  BY DEF Rollback
<1>3. Typed'
  BY <1>1, <1>2 DEF TypeInv, Typed, RefreshControlTypeOK
<1>4. \A v \in Workers : Looked(wk[v])'
  BY <1>2 DEF TypeInv, Looked
<1> QED
  BY <1>3, <1>4 DEF TypeInv

LEMMA TypeSteps ==
    ASSUME TypeInv, [Next]_vars
    PROVE  TypeInv'
<1>1. ASSUME NEW w \in Workers, Step(w) \/ Fault(w) \/ Crash(w)
      PROVE  TypeInv'
  BY <1>1, LaunchTyped, ObserveTyped, SimpleTyped, RecoverTyped, RecoverRollupsTyped, MakePlansTyped,
     FenceTyped, PrepareTyped, CloneTyped, BeginStepTyped, CommitsTyped, CatchUpTyped, ReplanTyped,
     RollupTyped DEF Step
<1>2. CASE UNCHANGED vars
  BY <1>2 DEF vars, sidecarVars, TypeInv, Typed, RefreshControlTypeOK, Looked
<1> QED
  BY <1>1, <1>2, LeaseTyped, ChangeTyped, RollbackTyped DEF Next


\* What the publication before the first step left.
PublishedPlans == {[obs |-> o, prior |-> None, start |-> 0, replace |-> TRUE,
                    lines |-> Content(o)] : o \in ObservedIn(file)}
PublishedFacts == {[line |-> l, gen |-> 1] : l \in UNION {p.lines : p \in PublishedPlans}}
PublishedStates == UNION {InsertStates({}, p.lines, 1) : p \in PublishedPlans}
PublishedBuild ==
    RebuildRollups(SealRefresh([OpenRefresh(EmptyArtifact, PublishedPlans, 1)
                                  EXCEPT !.facts = PublishedFacts, !.states = PublishedStates],
                               PublishedPlans, 1), 1)

LEMMA PublishedTyped ==
    ASSUME file \in [Sources -> Observation \cup {None}], 1 \in Generations
    PROVE  /\ PublishedPlans \in SUBSET Plan
           /\ PublishedFacts \in SUBSET Fact
           /\ PublishedBuild \in Artifact
<1> DEFINE made(o) == [obs |-> o, prior |-> None, start |-> 0, replace |-> TRUE, lines |-> Content(o)]
<1>0. ObservedIn(file) \in SUBSET Observation /\ MaxLines \in Nat
  BY ObservedInTyped, ArtifactBounds
<1>1. PublishedPlans \in SUBSET Plan
  <2>1. ASSUME NEW o \in Observation PROVE made(o) \in Plan
    <3>1. Content(o) \in SUBSET Line
      BY ContentTyped
    <3> DEFINE c == Content(o)
    <3> HIDE DEF c
    <3>2. [obs |-> o, prior |-> None, start |-> 0, replace |-> TRUE, lines |-> c] \in Plan
      BY <1>0, <3>1 DEF Plan, c
    <3> QED
      BY <3>2 DEF c
  <2> QED
    BY <1>0, <2>1 DEF PublishedPlans
<1>2. PublishedFacts \in SUBSET Fact
  <2>1. UNION {p.lines : p \in PublishedPlans} \subseteq Line
    BY <1>1 DEF Plan
  <2> DEFINE lines == UNION {p.lines : p \in PublishedPlans}
  <2> HIDE DEF lines
  <2>2. {[line |-> l, gen |-> 1] : l \in lines} \in SUBSET Fact
    BY <2>1 DEF Fact, lines
  <2> QED
    BY <2>2 DEF PublishedFacts, lines
<1>3. PublishedBuild \in Artifact
  <2> DEFINE opened == OpenRefresh(EmptyArtifact, PublishedPlans, 1)
             facts == [opened EXCEPT !.facts = PublishedFacts, !.states = PublishedStates]
             sealed == SealRefresh(facts, PublishedPlans, 1)
  <2>0. PublishedStates \in SUBSET State
    BY StatesTyped DEF PublishedStates
  <2>1. opened \in Artifact
    BY <1>1, EmptyTyped, OpenTyped
  <2> HIDE DEF opened
  <2>2. facts \in Artifact
    BY <1>2, <2>0, <2>1 DEF Artifact
  <2> HIDE DEF facts
  <2>3. sealed \in Artifact
    BY <1>1, <2>2, SealTyped
  <2> HIDE DEF sealed
  <2>4. RebuildRollups(sealed, 1) \in Artifact
    BY <2>3, RebuildTyped
  <2> QED
    BY <2>4 DEF PublishedBuild, sealed, facts, opened
<1> QED
  BY <1>1, <1>2, <1>3

LEMMA PublishedIs ==
    ASSUME PublishedInit
    PROVE  /\ PublishedPlans # {}
           /\ artifact = [p \in Paths |-> IF p = Base THEN PublishedBuild ELSE EmptyArtifact]
           /\ control = [NoControl EXCEPT !.state = "active", !.active = Base, !.gen = 1]
           /\ registry = [s \in Sources |-> IF file[s] = None THEN None ELSE file[s].id]
           /\ coverage = file
BY DEF PublishedInit, PublishedPlans, PublishedFacts, PublishedStates, PublishedBuild

LEMMA TypeInit ==
    ASSUME Init
    PROVE  TypeInv
<1>1. /\ file \in [Sources -> Observation \cup {None}]
      /\ \A s \in Sources : file[s] # None => file[s].id[1] = s
  BY DEF Init, FirstFiles
<1>2. IdleWorker \in WorkerState /\ NoControl \in Control
  <2>1. NoControl \in Control
    BY ArtifactBounds DEF NoControl, Control
  <2> QED
    BY <2>1, ArtifactBounds, StepsAre DEF IdleWorker, WorkerState
<1>3. IdleWorker.pc = "idle" /\ IdleWorker.scope = {} /\ IdleWorker.obs = [s \in Sources |-> None]
      /\ IdleWorker.plans = {} /\ IdleWorker.todo = {}
  BY DEF IdleWorker
<1>4. /\ artifact \in [Paths -> Artifact] /\ control \in Control
      /\ registry \in [Sources -> SourceIds \cup {None}]
      /\ coverage \in [Sources -> Observation \cup {None}]
  <2>1. CASE EmptyInit
    BY <1>2, <2>1, EmptyTyped DEF EmptyInit
  <2>2. CASE "published" \in Starts /\ PublishedInit
    <3>1. 1 \in Generations
      BY <2>2, RefreshRegime
    <3>2. artifact \in [Paths -> Artifact]
      BY <1>1, <2>2, <3>1, PublishedIs, PublishedTyped, EmptyTyped
    <3>3. control \in Control
      <4>1. Base \in Paths /\ 1 \in 0 .. MaxGeneration
        BY <3>1, ArtifactBounds DEF Paths, Generations
      <4> QED
        BY <1>2, <2>2, <4>1, PublishedIs DEF Control
    <3> QED
      BY <1>1, <2>2, <3>2, <3>3, PublishedIs DEF Observation
  <2> QED
    BY <2>1, <2>2 DEF Init
<1>5. Typed
  BY <1>1, <1>2, <1>4 DEF Typed, Init, RefreshControlTypeOK, NoRun, Run, RunState
<1>6. \A w \in Workers : Looked(wk[w])
  <2>1. Looked(IdleWorker)
    BY <1>3, StepsAre DEF Looked
  <2> QED
    BY <2>1 DEF Init
<1> QED
  BY <1>5, <1>6 DEF TypeInv

\* In every state the sidecar, the databases, the files and the workers hold what the code
\* can put there (the declarations of the sidecar's tables and of the ingestor's locals).
THEOREM RefreshTypesCorrect == Spec => []TypeOK
<1>1. TypeInv => TypeOK
  <2> SUFFICES ASSUME TypeInv PROVE TypeOK
    OBVIOUS
  <2>1. ASSUME NEW p \in Paths
        PROVE  /\ artifact[p].gens \in [Generations -> {"absent", "pending", "valid"}]
               /\ artifact[p].rows \in [SourceIds -> Cursor \cup {None}]
               /\ artifact[p].facts \subseteq Fact
               /\ artifact[p].states \subseteq State
               /\ \A g \in Generations : artifact[p].roll[g] # None => artifact[p].roll[g] \subseteq Line
    BY DEF TypeInv, Typed, Artifact
  <2>2. ASSUME NEW w \in Workers
        PROVE  /\ wk[w].pc \in Live \cup Ended \cup {"idle"}
               /\ wk[w].obs \in [Sources -> Observation \cup {None}]
               /\ \A p \in wk[w].plans : p.lines \subseteq Line
               /\ wk[w].path \in Paths \cup {None}
    <3>1. \A p \in Plan : p.lines \subseteq Line
      BY DEF Plan
    <3> QED
      BY <3>1, WorkerTyped DEF WorkerState, Steps
  <2> QED
    BY <2>1, <2>2 DEF TypeOK, TypeInv, Typed
<1> QED
  BY <1>1, TypeInit, TypeSteps, PTL DEF Spec

-----------------------------------------------------------------------------
(* One worker at a time, and it owns the lease. *)

\* A worker in these may still write or publish.
AtWork == Unleased \cup Guarding \cup {"failRun"}

\* ... and in these it has taken the lease.
Leasing == Guarding \cup {"failRun"}

Alone  == \A v, w \in Workers : wk[v].pc \in AtWork /\ wk[w].pc \in AtWork => v = w
Leased == \A w \in Workers : wk[w].pc \in Leasing => Owned(w)
Exclusive == Alone /\ Leased

LEMMA WorkIs ==
    /\ AtWork = {"initialize", "wipe", "observe"} \cup Informed \cup {"failRun"}
    /\ Leasing = (Informed \ {"acquire"}) \cup {"failRun"}
    /\ Guarding = Informed \ {"acquire"}
    /\ Unleased = {"initialize", "wipe", "observe", "acquire"}
BY DEF AtWork, Leasing, Informed, Guarding, Unleased, Recovery, Planning, Building, Finishing, Fenced

LEMMA BecomesGives ==
    ASSUME TypeInv, NEW w \in Workers, NEW rec, Becomes(w, rec)
    PROVE  wk'[w] = rec /\ \A v \in Workers \ {w} : wk'[v] = wk[v]
BY DEF TypeInv, Typed, Becomes

LEMMA GotoGives ==
    ASSUME TypeInv, NEW w \in Workers, NEW pc, Goto(w, pc)
    PROVE  /\ wk'[w].pc = pc /\ wk'[w].fenced = FALSE
           /\ wk'[w].obs = wk[w].obs /\ wk'[w].scope = wk[w].scope /\ wk'[w].read = wk[w].read
           /\ wk'[w].wasFailed = wk[w].wasFailed /\ wk'[w].plans = wk[w].plans
           /\ wk'[w].planned = wk[w].planned /\ wk'[w].todo = wk[w].todo /\ wk'[w].gen = wk[w].gen
           /\ wk'[w].prior = wk[w].prior /\ wk'[w].path = wk[w].path
           /\ wk'[w].incremental = wk[w].incremental /\ wk'[w].stream = wk[w].stream
           /\ wk'[w].attempt = wk[w].attempt
           /\ \A v \in Workers \ {w} : wk'[v] = wk[v]
<1>1. /\ wk'[w] = [wk[w] EXCEPT !.pc = pc, !.fenced = FALSE]
      /\ \A v \in Workers \ {w} : wk'[v] = wk[v]
  BY BecomesGives DEF Goto
<1>2. wk[w] \in WorkerState
  BY WorkerTyped
<1> QED
  BY <1>1, <1>2 DEF WorkerState

LEMMA EndGives ==
    ASSUME TypeInv, NEW w \in Workers, NEW pc, End(w, pc)
    PROVE  /\ wk'[w].pc = pc /\ \A v \in Workers \ {w} : wk'[v] = wk[v]
           /\ wk'[w] = [IdleWorker EXCEPT !.pc = pc]
<1>1. wk'[w] = [IdleWorker EXCEPT !.pc = pc] /\ \A v \in Workers \ {w} : wk'[v] = wk[v]
  BY BecomesGives DEF End
<1> QED
  BY <1>1 DEF IdleWorker

\* The steps that leave the lease alone.
Plain(w) ==
    \/ Recover(w) \/ RecoverRollups(w) \/ RecoverBegin(w) \/ RecoverPromote(w)
    \/ Interrupt(w) \/ Discard(w) \/ Admit(w)
    \/ MakePlans(w) \/ Stage(w) \/ Catalog(w) \/ Capture(w)
    \/ Fence(w) \/ Prepare(w) \/ Clone(w) \/ Begin(w)
    \/ Open(w) \/ Facts(w) \/ Seal(w) \/ Batch(w) \/ Finalize(w)
    \/ CatchUp(w) \/ Replan(w) \/ Rollup(w) \/ Promote(w) \/ Register(w) \/ Fault(w)

\* They are taken by a worker that has the lease, and leave it one or failing.
LEMMA PlainMoves ==
    ASSUME TypeInv, NEW w \in Workers, Plain(w)
    PROVE  /\ wk[w].pc \in Guarding /\ wk'[w].pc \in Leasing /\ UNCHANGED runs
           /\ \A v \in Workers \ {w} : wk'[v] = wk[v]
<1>0. wk[w] \in WorkerState
  BY WorkerTyped
<1>1. ASSUME NEW pc \in Leasing, Goto(w, pc)
      PROVE  wk'[w].pc \in Leasing /\ \A v \in Workers \ {w} : wk'[v] = wk[v]
  BY <1>1, GotoGives
<1>2. ASSUME NEW rec, rec.pc \in Leasing, Becomes(w, rec)
      PROVE  wk'[w].pc \in Leasing /\ \A v \in Workers \ {w} : wk'[v] = wk[v]
  BY <1>2, BecomesGives
<1>3. wk[w].pc \in Guarding /\ UNCHANGED runs
  BY WorkIs, StepsAre
     DEF Plain, Recover, RecoverRollups, RecoverBegin, RecoverPromote, Interrupt, Discard, Admit,
         MakePlans, Stage, Catalog, Capture, Fence, Prepare, Clone, Begin, Open, Facts, Seal, Batch,
         Finalize, CatchUp, Replan, Rollup, Promote, Register, Fault, At, Fenced, sidecarVars
<1>4. CASE \/ RecoverRollups(w) \/ RecoverBegin(w) \/ RecoverPromote(w) \/ Interrupt(w)
           \/ Discard(w) \/ Admit(w) \/ Stage(w) \/ Catalog(w) \/ Capture(w) \/ Promote(w)
           \/ Register(w) \/ Fault(w)
  <2>1. \E pc \in Leasing : Goto(w, pc)
    BY <1>4, WorkIs, StepsAre
       DEF RecoverRollups, RecoverBegin, RecoverPromote, Interrupt, Discard, Admit, Stage, Catalog,
           Capture, Promote, Register, Fault, Raise
  <2> QED
    BY <1>1, <1>3, <2>1
<1>5. CASE Recover(w) \/ MakePlans(w)
  <2>1. \E rec : rec.pc \in Leasing /\ Becomes(w, rec)
    <3>1. CASE Recover(w)
      BY <1>0, <3>1, WorkIs, StepsAre DEF Recover, WorkerState
    <3>2. CASE MakePlans(w)
      BY <1>0, <3>2, WorkIs, StepsAre DEF MakePlans, WorkerState
    <3> QED
      BY <1>5, <3>1, <3>2
  <2> QED
    BY <1>2, <1>3, <2>1
<1>6. CASE Fence(w) \/ CatchUp(w) \/ Replan(w) \/ Begin(w) \/ Rollup(w)
  <2>1. (\E rec : rec.pc \in Leasing /\ Becomes(w, rec)) \/ (\E pc \in Leasing : Goto(w, pc))
    <3>1. CASE Fence(w)
      BY <1>0, <3>1, WorkIs, StepsAre DEF Fence, Raise, WorkerState, Fenced
    <3>2. CASE CatchUp(w)
      BY <1>0, <3>2, WorkIs, StepsAre DEF CatchUp, Raise, WorkerState
    <3>3. CASE Replan(w)
      BY <1>0, <3>3, WorkIs, StepsAre DEF Replan, Raise, WorkerState
    <3>4. CASE Begin(w)
      BY <1>0, <3>4, WorkIs, StepsAre DEF Begin, Raise, WorkerState
    <3>5. CASE Rollup(w)
      BY <1>0, <3>5, WorkIs, StepsAre DEF Rollup, Raise, WorkerState
    <3> QED
      BY <1>6, <3>1, <3>2, <3>3, <3>4, <3>5
  <2> QED
    BY <1>1, <1>2, <1>3, <2>1
<1>7. CASE Prepare(w) \/ Clone(w)
  <2>1. \E rec : rec.pc \in Leasing /\ Becomes(w, rec)
    <3>1. CASE Prepare(w)
      BY <1>0, <3>1, WorkIs, StepsAre DEF Prepare, WorkerState
    <3>2. CASE Clone(w)
      BY <1>0, <3>2, WorkIs, StepsAre DEF Clone, WorkerState
    <3> QED
      BY <1>7, <3>1, <3>2
  <2> QED
    BY <1>2, <1>3, <2>1
<1>8. CASE Open(w) \/ Facts(w) \/ Seal(w) \/ Batch(w) \/ Finalize(w)
  <2>1. (\E rec : rec.pc \in Leasing /\ Becomes(w, rec)) \/ (\E pc \in Leasing : Goto(w, pc))
    <3>1. CASE Open(w)
      BY <1>0, <3>1, WorkIs, StepsAre DEF Open, Commit, WorkerState
    <3>2. CASE Facts(w)
      BY <1>0, <3>2, WorkIs, StepsAre DEF Facts, At, Commit, Raise, WorkerState
    <3>3. CASE Seal(w)
      BY <1>0, <3>3, WorkIs, StepsAre DEF Seal, Commit, WorkerState
    <3>4. CASE Batch(w)
      BY <1>0, <3>4, WorkIs, StepsAre DEF Batch, At, Commit, Raise, WorkerState
    <3>5. CASE Finalize(w)
      BY <1>0, <3>5, WorkIs, StepsAre DEF Finalize, Commit, WorkerState
    <3> QED
      BY <1>8, <3>1, <3>2, <3>3, <3>4, <3>5
  <2> QED
    BY <1>1, <1>2, <1>3, <2>1
<1> QED
  BY <1>3, <1>4, <1>5, <1>6, <1>7, <1>8 DEF Plain

\* The steps of a worker that has not the lease yet, and those that give it up.
LEMMA OtherMoves ==
    ASSUME TypeInv, NEW w \in Workers, Step(w) \/ Fault(w) \/ Crash(w), ~Plain(w)
    PROVE  /\ \A v \in Workers \ {w} : wk'[v] = wk[v]
           /\ \/ Launch(w) /\ wk'[w].pc = "initialize" /\ UNCHANGED runs
              \/ /\ wk[w].pc \in Unleased /\ UNCHANGED runs
                 /\ wk'[w].pc \in (Unleased \cup Ended)
              \/ Acquire(w) /\ CreateRun(w) /\ wk'[w].pc = "recover"
              \/ /\ wk'[w].pc \notin AtWork
                 /\ \A v \in Workers \ {w} : runs'[v] = runs[v]
<1>0. wk[w] \in WorkerState /\ runs \in [Workers -> Run]
  BY WorkerTyped DEF TypeInv, Typed, RefreshControlTypeOK
<1>1. CASE Launch(w)
  <2>1. PICK rec : Becomes(w, rec) /\ rec.pc = "initialize"
    <3> DEFINE found == {s \in Sources : file[s] # None}
    <3> HIDE DEF found
    <3>1. [wk[w] EXCEPT !.pc = "initialize", !.scope = found].pc = "initialize"
      BY <1>0 DEF WorkerState
    <3>2. Becomes(w, [wk[w] EXCEPT !.pc = "initialize", !.scope = found])
      BY <1>1 DEF Launch, found
    <3> QED
      BY <3>1, <3>2
  <2> QED
    BY <1>1, <2>1, BecomesGives DEF Launch, sidecarVars
<1>2. CASE Initialize(w)
  <2>1. PICK pc \in {"wipe", "observe"} : Goto(w, pc)
    BY <1>2 DEF Initialize
  <2> QED
    BY <1>2, <2>1, GotoGives, WorkIs DEF Initialize, At, sidecarVars
<1>3. CASE Wipe(w)
  BY <1>3, GotoGives, WorkIs DEF Wipe, At, sidecarVars
<1>4. CASE Observe(w)
  <2>1. PICK rec : Becomes(w, rec) /\ rec.pc = "acquire"
    <3> DEFINE obs == Observed(wk[w].scope)
    <3> HIDE DEF obs
    <3>1. [wk[w] EXCEPT !.pc = "acquire", !.obs = obs].pc = "acquire"
      BY <1>0 DEF WorkerState
    <3>2. Becomes(w, [wk[w] EXCEPT !.pc = "acquire", !.obs = obs])
      BY <1>4 DEF Observe, obs
    <3> QED
      BY <3>1, <3>2
  <2> QED
    BY <1>4, <2>1, BecomesGives, WorkIs DEF Observe, At, sidecarVars
<1>5. CASE Acquire(w)
  <2>1. CASE End(w, "done") /\ UNCHANGED runs
    BY <1>5, <2>1, EndGives, WorkIs DEF Acquire, At, Ended
  <2>2. CASE CreateRun(w) /\ Goto(w, "recover")
    BY <1>5, <2>2, GotoGives
  <2> QED
    BY <1>5, <2>1, <2>2 DEF Acquire
<1>6. CASE Complete(w)
  <2>1. wk'[w].pc = "done" /\ \A v \in Workers \ {w} : wk'[v] = wk[v]
    BY <1>6, EndGives DEF Complete
  <2> QED
    BY <1>0, <1>6, <2>1, WorkIs, StepsAre DEF Complete, CloseRun
<1>7. CASE FailRun(w)
  <2>1. wk'[w].pc = "blame" /\ \A v \in Workers \ {w} : wk'[v] = wk[v]
    BY <1>7, GotoGives DEF FailRun
  <2> QED
    BY <1>0, <1>7, <2>1, WorkIs, StepsAre DEF FailRun, CloseRun
<1>8. CASE Blame(w)
  <2>1. wk'[w].pc \in {"condemn", "done"} /\ \A v \in Workers \ {w} : wk'[v] = wk[v]
    BY <1>8, GotoGives, EndGives DEF Blame
  <2> QED
    BY <1>8, <2>1, WorkIs, StepsAre DEF Blame, sidecarVars
<1>9. CASE Condemn(w)
  <2>1. wk'[w].pc = "done" /\ \A v \in Workers \ {w} : wk'[v] = wk[v]
    BY <1>9, EndGives DEF Condemn
  <2> QED
    BY <1>9, <2>1, WorkIs, StepsAre DEF Condemn
<1>10. CASE Crash(w)
  <2>1. wk'[w].pc = "dead" /\ \A v \in Workers \ {w} : wk'[v] = wk[v]
    BY <1>10, EndGives DEF Crash
  <2> QED
    BY <1>10, <2>1, WorkIs, StepsAre DEF Crash, sidecarVars
<1> QED
  BY <1>1, <1>2, <1>3, <1>4, <1>5, <1>6, <1>7, <1>8, <1>9, <1>10 DEF Step, Plain

LEMMA ExclusiveInit ==
    ASSUME Init
    PROVE  Exclusive
<1>1. \A w \in Workers : wk[w].pc = "idle"
  BY DEF Init, IdleWorker
<1> QED
  BY <1>1, WorkIs, StepsAre DEF Exclusive, Alone, Leased

LEMMA ExclusiveSteps ==
    ASSUME Attended, TypeInv, Exclusive, [Next]_vars
    PROVE  Exclusive'
<1>0. runs \in [Workers -> Run] /\ Leasing \subseteq AtWork
  BY DEF TypeInv, Typed, RefreshControlTypeOK, Leasing, AtWork
<1> SUFFICES ASSUME NEW v \in Workers
             PROVE  /\ \A u \in Workers : wk'[v].pc \in AtWork /\ wk'[u].pc \in AtWork => u = v
                    /\ wk'[v].pc \in Leasing => Owned(v)'
  BY DEF Exclusive, Alone, Leased
<1>1. ASSUME NEW w \in Workers, Plain(w)
      PROVE  /\ \A u \in Workers : wk'[v].pc \in AtWork /\ wk'[u].pc \in AtWork => u = v
             /\ wk'[v].pc \in Leasing => Owned(v)'
  <2>1. /\ wk[w].pc \in Guarding /\ wk'[w].pc \in Leasing /\ UNCHANGED runs
        /\ \A u \in Workers \ {w} : wk'[u] = wk[u]
    BY <1>1, PlainMoves
  <2>2. wk[w].pc \in Leasing /\ wk[w].pc \in AtWork
    BY <2>1 DEF Leasing, AtWork
  <2>3. \A u \in Workers : wk'[u].pc \in AtWork => wk[u].pc \in AtWork
    BY <2>1, <2>2
  <2>4. \A u \in Workers : wk'[u].pc \in Leasing => wk[u].pc \in Leasing
    BY <2>1, <2>2
  <2>5. Owned(v)' <=> Owned(v)
    BY <2>1 DEF Owned, Running
  <2> QED
    BY <2>3, <2>4, <2>5 DEF Exclusive, Alone, Leased
<1>2. ASSUME NEW w \in Workers, Step(w) \/ Fault(w) \/ Crash(w), ~Plain(w)
      PROVE  /\ \A u \in Workers : wk'[v].pc \in AtWork /\ wk'[u].pc \in AtWork => u = v
             /\ wk'[v].pc \in Leasing => Owned(v)'
  <2>0. \A u \in Workers \ {w} : wk'[u] = wk[u]
    BY <1>2, OtherMoves
  <2>1. CASE Launch(w) /\ wk'[w].pc = "initialize" /\ UNCHANGED runs
    <3>1. ~ActiveJob /\ \A u \in Workers : wk[u].pc \notin Unleased
      BY <2>1 DEF Launch, MayLaunch, Attended
    <3>2. \A u \in Workers : wk[u].pc \notin AtWork
      BY <3>1 DEF Exclusive, Leased, AtWork, Leasing, ActiveJob
    <3>3. "initialize" \notin Leasing
      BY WorkIs, StepsAre
    <3> QED
      BY <1>0, <2>0, <2>1, <3>2, <3>3
  <2>2. CASE wk[w].pc \in Unleased /\ UNCHANGED runs /\ wk'[w].pc \in Unleased \cup Ended
    <3>1. wk'[w].pc \notin Leasing /\ wk[w].pc \in AtWork
      BY <2>2, WorkIs, StepsAre DEF Ended
    <3>2. \A u \in Workers : wk'[u].pc \in AtWork => wk[u].pc \in AtWork
      BY <2>0, <3>1
    <3>3. Owned(v)' <=> Owned(v)
      BY <2>2 DEF Owned, Running
    <3> QED
      BY <2>0, <3>1, <3>2, <3>3 DEF Exclusive, Alone, Leased
  <2>3. CASE Acquire(w) /\ CreateRun(w) /\ wk'[w].pc = "recover"
    <3>1. wk[w].pc \in AtWork
      BY <2>3, WorkIs, StepsAre DEF Acquire, At
    <3>2. \A u \in Workers : wk'[u].pc \in AtWork => wk[u].pc \in AtWork
      BY <2>0, <3>1
    <3>3. Owned(w)'
      BY <2>3 DEF CreateRun, Owned, Running
    <3>4. ASSUME v # w PROVE wk'[v].pc \notin Leasing
      BY <1>0, <2>0, <3>1, <3>4 DEF Exclusive, Alone
    <3> QED
      BY <3>2, <3>3, <3>4 DEF Exclusive, Alone
  <2>4. CASE wk'[w].pc \notin AtWork /\ \A u \in Workers \ {w} : runs'[u] = runs[u]
    <3>1. \A u \in Workers : wk'[u].pc \in AtWork => u # w /\ wk[u].pc \in AtWork
      BY <2>0, <2>4
    <3>2. ASSUME wk'[v].pc \in Leasing PROVE Owned(v)'
      <4>1. v # w /\ wk[v].pc \in Leasing
        BY <1>0, <2>0, <2>4, <3>2
      <4> QED
        BY <2>4, <4>1 DEF Exclusive, Leased, Owned, Running
    <3> QED
      BY <3>1, <3>2 DEF Exclusive, Alone
  <2> QED
    BY <1>2, <2>1, <2>2, <2>3, <2>4, OtherMoves
<1>3. ASSUME NEW w \in Workers, LeaseExpires(w) \/ Heartbeat(w)
      PROVE  /\ \A u \in Workers : wk'[v].pc \in AtWork /\ wk'[u].pc \in AtWork => u = v
             /\ wk'[v].pc \in Leasing => Owned(v)'
  <2>1. wk' = wk
    BY <1>3 DEF LeaseExpires, Heartbeat
  <2>2. ASSUME wk[v].pc \in Leasing PROVE Owned(v)'
    <3>1. Owned(v)
      BY <2>2 DEF Exclusive, Leased
    <3>2. CASE LeaseExpires(w)
      <4>1. wk[w].pc = "dead"
        BY <3>2 DEF LeaseExpires, MayExpire, Attended, At
      <4>2. v # w
        BY <2>2, <4>1, WorkIs, StepsAre
      <4> QED
        BY <1>0, <3>1, <3>2, <4>2 DEF LeaseExpires, Expire, Owned, Running
    <3>3. CASE Heartbeat(w)
      BY <1>0, <3>1, <3>3 DEF Heartbeat, Renew, Owned, Running, Run
    <3> QED
      BY <1>3, <3>2, <3>3
  <2> QED
    BY <2>1, <2>2 DEF Exclusive, Alone
<1>4. CASE (\E s \in Sources : ChangeFile(s)) \/ Rollback \/ UNCHANGED vars
  <2>1. wk' = wk /\ runs' = runs
    BY <1>4 DEF ChangeFile, Rollback, vars, sidecarVars
  <2> QED
    BY <2>1 DEF Exclusive, Alone, Leased, Owned, Running
<1> QED
  BY <1>1, <1>2, <1>3, <1>4 DEF Next

-----------------------------------------------------------------------------
(* What the steps that learn something leave of a worker. *)

\* Locals that no step of recovery, planning and preparing touches by the way.
SameBasics(w) == wk'[w].obs = wk[w].obs /\ wk'[w].scope = wk[w].scope /\ wk'[w].todo = wk[w].todo

LEMMA RecoverGives ==
    ASSUME TypeInv, NEW w \in Workers, Recover(w)
    PROVE  LET latest == IF control.staging = None THEN 0 ELSE LatestValid(artifact[control.staging])
               found  == latest > control.gen /\ staged
           IN  /\ found /\ ~RollupsReady(artifact[control.staging], latest) =>
                     wk'[w].pc = "recoverRollups"
               /\ found /\ RollupsReady(artifact[control.staging], latest) =>
                     wk'[w].pc = IF control.state = "failed" THEN "recoverBegin" ELSE "recoverPromote"
               /\ ~found => wk'[w].pc = IF control.state = "building" THEN "interrupt"
                                        ELSE IF control.staging # None THEN "discard" ELSE "admit"
               /\ wk'[w].gen = IF found THEN latest ELSE control.gen
               /\ wk'[w].read = control
               /\ SameBasics(w) /\ wk'[w].plans = wk[w].plans /\ wk'[w].path = wk[w].path
               /\ \A v \in Workers \ {w} : wk'[v] = wk[v]
<1> DEFINE candidate == control.staging
           latest == IF candidate = None THEN 0 ELSE LatestValid(artifact[candidate])
           found == latest > control.gen /\ staged
           next == IF found
                   THEN IF ~RollupsReady(artifact[candidate], latest) THEN "recoverRollups"
                        ELSE IF control.state = "failed" THEN "recoverBegin" ELSE "recoverPromote"
                   ELSE IF control.state = "building" THEN "interrupt"
                        ELSE IF candidate # None THEN "discard" ELSE "admit"
           failed == control.state = "failed"
           gen == IF found THEN latest ELSE control.gen
           rec == [wk[w] EXCEPT !.pc = next, !.read = control, !.wasFailed = failed, !.gen = gen]
<1>1. wk[w] \in WorkerState
  BY WorkerTyped
<1>2. Becomes(w, rec)
  BY DEF Recover
<1>3. wk'[w] = rec /\ \A v \in Workers \ {w} : wk'[v] = wk[v]
  BY <1>2, BecomesGives
<1>4. /\ found /\ ~RollupsReady(artifact[candidate], latest) => next = "recoverRollups"
      /\ found /\ RollupsReady(artifact[candidate], latest) =>
            next = IF control.state = "failed" THEN "recoverBegin" ELSE "recoverPromote"
      /\ ~found => next = IF control.state = "building" THEN "interrupt"
                          ELSE IF control.staging # None THEN "discard" ELSE "admit"
  OBVIOUS
<1>5. gen = IF found THEN latest ELSE control.gen
  OBVIOUS
<1> HIDE DEF next, failed, gen, found, latest
<1>6. /\ wk'[w].pc = next /\ wk'[w].read = control /\ wk'[w].gen = gen
      /\ SameBasics(w) /\ wk'[w].plans = wk[w].plans /\ wk'[w].path = wk[w].path
  BY <1>1, <1>3 DEF WorkerState, SameBasics
<1> QED
  BY <1>3, <1>4, <1>5, <1>6 DEF found, latest

LEMMA MakePlansGives ==
    ASSUME TypeInv, NEW w \in Workers, MakePlans(w)
    PROVE  /\ wk'[w].pc = IF PlansFor(w, ActivePath) = {} /\ coverage = wk[w].obs
                          THEN "capture" ELSE "stage"
           /\ wk'[w].plans = PlansFor(w, ActivePath) /\ wk'[w].path = ActivePath
           /\ wk'[w].planned = {p.obs : p \in PlansFor(w, ActivePath)}
           /\ SameBasics(w) /\ wk'[w].gen = wk[w].gen /\ wk'[w].stream = wk[w].stream
           /\ \A v \in Workers \ {w} : wk'[v] = wk[v]
<1> DEFINE plans == PlansFor(w, ActivePath)
           pc == IF plans = {} /\ coverage = wk[w].obs THEN "capture" ELSE "stage"
           planned == {p.obs : p \in plans}
           path == ActivePath
           rec == [wk[w] EXCEPT !.pc = pc, !.plans = plans, !.planned = planned, !.path = path]
<1>1. wk[w] \in WorkerState
  BY WorkerTyped
<1>2. Becomes(w, rec)
  BY DEF MakePlans
<1>3. wk'[w] = rec /\ \A v \in Workers \ {w} : wk'[v] = wk[v]
  BY <1>2, BecomesGives
<1> HIDE DEF plans, planned, path, pc
<1>4. /\ wk'[w].pc = pc /\ wk'[w].plans = plans /\ wk'[w].path = path /\ wk'[w].planned = planned
      /\ SameBasics(w) /\ wk'[w].gen = wk[w].gen /\ wk'[w].stream = wk[w].stream
  BY <1>1, <1>3 DEF WorkerState, SameBasics
<1> QED
  BY <1>3, <1>4 DEF plans, planned, path, pc

LEMMA PrepareGives ==
    ASSUME TypeInv, NEW w \in Workers, Prepare(w)
    PROVE  /\ wk'[w].pc = "clone" /\ wk'[w].gen = control.gen + 1 /\ wk'[w].fenced = FALSE
           /\ wk'[w].stream \in MayStream(wk[w].plans)
           /\ wk'[w].plans = IF wk'[w].stream THEN wk[w].plans ELSE ParsedNow(wk[w].plans)
           /\ SameBasics(w) /\ wk'[w].path = wk[w].path /\ wk'[w].planned = wk[w].planned
           /\ \A v \in Workers \ {w} : wk'[v] = wk[v]
<1>0. wk[w] \in WorkerState
  BY WorkerTyped
<1>1. PICK stream \in MayStream(wk[w].plans) :
        Becomes(w, [wk[w] EXCEPT !.pc = "clone", !.fenced = FALSE, !.gen = control.gen + 1,
                                 !.stream = stream,
                                 !.plans = IF stream THEN wk[w].plans ELSE ParsedNow(wk[w].plans)])
  BY DEF Prepare
<1> DEFINE plans == IF stream THEN wk[w].plans ELSE ParsedNow(wk[w].plans)
           n == control.gen + 1
           rec == [wk[w] EXCEPT !.pc = "clone", !.fenced = FALSE, !.gen = n, !.stream = stream,
                                !.plans = plans]
<1>2. wk'[w] = rec /\ \A v \in Workers \ {w} : wk'[v] = wk[v]
  BY <1>1, BecomesGives
<1> HIDE DEF plans, n
<1>3. /\ wk'[w].pc = "clone" /\ wk'[w].gen = n /\ wk'[w].fenced = FALSE
      /\ wk'[w].stream = stream /\ wk'[w].plans = plans
      /\ SameBasics(w) /\ wk'[w].path = wk[w].path /\ wk'[w].planned = wk[w].planned
  BY <1>0, <1>2 DEF WorkerState, SameBasics
<1> QED
  BY <1>1, <1>2, <1>3 DEF plans, n

LEMMA CloneGives ==
    ASSUME TypeInv, NEW w \in Workers, Clone(w)
    PROVE  \E isolated \in BOOLEAN, incremental \in BOOLEAN :
             /\ artifact' = IF isolated THEN [artifact EXCEPT ![w] = artifact[wk[w].path]] ELSE artifact
             /\ ~isolated => /\ ~(wk[w].stream /\ control.gen > 0)
                             /\ \A p \in wk[w].plans : ~(p.replace /\ p.prior # None)
             /\ wk'[w].pc = "begin" /\ wk'[w].prior = control.gen /\ wk'[w].gen = wk[w].gen
             /\ wk'[w].path = IF isolated THEN w ELSE wk[w].path
             /\ wk'[w].incremental = incremental
             /\ SameBasics(w) /\ wk'[w].plans = wk[w].plans /\ wk'[w].stream = wk[w].stream
             /\ wk'[w].planned = wk[w].planned
             /\ \A v \in Workers \ {w} : wk'[v] = wk[v]
<1>0. wk[w] \in WorkerState
  BY WorkerTyped
<1>1. PICK way \in Isolations(w) :
        /\ artifact' = IF way.isolated THEN [artifact EXCEPT ![w] = artifact[wk[w].path]] ELSE artifact
        /\ Becomes(w, [wk[w] EXCEPT !.pc = "begin", !.fenced = FALSE, !.prior = control.gen,
                                    !.path = IF way.isolated THEN w ELSE wk[w].path,
                                    !.incremental = way.incremental])
  BY DEF Clone
<1>2. PICK isolated \in BOOLEAN, incremental \in BOOLEAN :
        isolated = way.isolated /\ incremental = way.incremental
  BY <1>1, IsolationsAre, Zenon
<1>3. ~isolated => /\ ~(wk[w].stream /\ control.gen > 0)
                   /\ \A p \in wk[w].plans : ~(p.replace /\ p.prior # None)
  <2>1. ~way.isolated => way = [isolated |-> FALSE, incremental |-> TRUE]
    BY <1>1, IsolationsAre
  <2>2. ~isolated => [isolated |-> FALSE, incremental |-> TRUE] \in Isolations(w)
    BY <1>1, <1>2, <2>1
  <2> QED
    BY <2>2, IsolationsAre
<1> DEFINE path == IF isolated THEN w ELSE wk[w].path
           prior == control.gen
           rec == [wk[w] EXCEPT !.pc = "begin", !.fenced = FALSE, !.prior = prior, !.path = path,
                                !.incremental = incremental]
<1>4. Becomes(w, rec)
  BY <1>1, <1>2
<1>5. wk'[w] = rec /\ \A v \in Workers \ {w} : wk'[v] = wk[v]
  BY <1>4, BecomesGives
<1>6. artifact' = IF isolated THEN [artifact EXCEPT ![w] = artifact[wk[w].path]] ELSE artifact
  BY <1>1, <1>2
<1> HIDE DEF path, prior
<1>7. /\ wk'[w].pc = "begin" /\ wk'[w].prior = prior /\ wk'[w].gen = wk[w].gen
      /\ wk'[w].path = path /\ wk'[w].incremental = incremental
      /\ SameBasics(w) /\ wk'[w].plans = wk[w].plans /\ wk'[w].stream = wk[w].stream
      /\ wk'[w].planned = wk[w].planned
  BY <1>0, <1>5 DEF WorkerState, SameBasics
<1> QED
  BY <1>3, <1>5, <1>6, <1>7 DEF path, prior

LEMMA BeginGives ==
    ASSUME TypeInv, NEW w \in Workers, Begin(w)
    PROVE  /\ wk'[w].pc = IF wk[w].stream THEN "batch" ELSE "open"
           /\ wk'[w].todo = IF wk[w].stream THEN wk[w].plans ELSE wk[w].todo
           /\ wk'[w].obs = wk[w].obs /\ wk'[w].scope = wk[w].scope /\ wk'[w].plans = wk[w].plans
           /\ wk'[w].gen = wk[w].gen /\ wk'[w].prior = wk[w].prior /\ wk'[w].path = wk[w].path
           /\ wk'[w].stream = wk[w].stream /\ wk'[w].incremental = wk[w].incremental
           /\ wk'[w].planned = wk[w].planned
           /\ \A v \in Workers \ {w} : wk'[v] = wk[v]
<1>0. wk[w] \in WorkerState
  BY WorkerTyped
<1>1. CASE wk[w].stream
  <2>1. Becomes(w, [wk[w] EXCEPT !.pc = "batch", !.todo = wk[w].plans])
    BY <1>1 DEF Begin
  <2>2. /\ wk'[w] = [wk[w] EXCEPT !.pc = "batch", !.todo = wk[w].plans]
        /\ \A v \in Workers \ {w} : wk'[v] = wk[v]
    BY <2>1, BecomesGives
  <2>3. /\ wk'[w].pc = "batch" /\ wk'[w].todo = wk[w].plans
        /\ wk'[w].obs = wk[w].obs /\ wk'[w].scope = wk[w].scope /\ wk'[w].plans = wk[w].plans
        /\ wk'[w].gen = wk[w].gen /\ wk'[w].prior = wk[w].prior /\ wk'[w].path = wk[w].path
        /\ wk'[w].stream = wk[w].stream /\ wk'[w].incremental = wk[w].incremental
        /\ wk'[w].planned = wk[w].planned
    BY <1>0, <2>2 DEF WorkerState
  <2> QED
    BY <1>1, <2>2, <2>3
<1>2. CASE ~wk[w].stream
  BY <1>2, GotoGives DEF Begin
<1> QED
  BY <1>1, <1>2

\* A commit of a build: the database it writes, and how far the build is.
LEMMA CommitGives ==
    ASSUME TypeInv, NEW w \in Workers, NEW b, NEW pc, NEW todo,
           Commit(w, b, [wk[w] EXCEPT !.pc = pc, !.todo = todo])
    PROVE  /\ artifact' = [artifact EXCEPT ![wk[w].path] = b]
           /\ wk'[w].pc = pc /\ wk'[w].todo = todo
           /\ wk'[w].obs = wk[w].obs /\ wk'[w].scope = wk[w].scope /\ wk'[w].plans = wk[w].plans
           /\ wk'[w].gen = wk[w].gen /\ wk'[w].prior = wk[w].prior /\ wk'[w].path = wk[w].path
           /\ wk'[w].stream = wk[w].stream /\ wk'[w].incremental = wk[w].incremental
           /\ wk'[w].planned = wk[w].planned
           /\ \A v \in Workers \ {w} : wk'[v] = wk[v]
<1>0. wk[w] \in WorkerState
  BY WorkerTyped
<1>1. /\ wk'[w] = [[wk[w] EXCEPT !.pc = pc, !.todo = todo] EXCEPT !.fenced = FALSE]
      /\ \A v \in Workers \ {w} : wk'[v] = wk[v]
  BY BecomesGives DEF Commit
<1> QED
  BY <1>0, <1>1 DEF WorkerState, Commit

LEMMA CatchUpGives ==
    ASSUME TypeInv, NEW w \in Workers, CatchUp(w)
    PROVE  /\ \A v \in Workers \ {w} : wk'[v] = wk[v]
           /\ \/ Goto(w, "failRun")
              \/ /\ wk'[w].pc = "replan" /\ wk'[w].obs = Observed(wk[w].scope)
                 /\ wk'[w].todo = wk[w].todo /\ wk'[w].scope = wk[w].scope /\ wk'[w].plans = wk[w].plans
                 /\ wk'[w].gen = wk[w].gen /\ wk'[w].prior = wk[w].prior /\ wk'[w].path = wk[w].path
                 /\ wk'[w].stream = wk[w].stream /\ wk'[w].incremental = wk[w].incremental
<1>0. wk[w] \in WorkerState
  BY WorkerTyped
<1>1. CASE Goto(w, "failRun")
  BY <1>1, GotoGives
<1>2. CASE Becomes(w, [wk[w] EXCEPT !.pc = "replan", !.attempt = wk[w].attempt + 1,
                                    !.obs = Observed(wk[w].scope)])
  <2> DEFINE obs == Observed(wk[w].scope)
             n == wk[w].attempt + 1
  <2> HIDE DEF obs, n
  <2>1. /\ wk'[w] = [wk[w] EXCEPT !.pc = "replan", !.attempt = n, !.obs = obs]
        /\ \A v \in Workers \ {w} : wk'[v] = wk[v]
    BY <1>2, BecomesGives DEF obs, n
  <2> QED
    BY <1>0, <2>1 DEF WorkerState, obs
<1> QED
  BY <1>1, <1>2 DEF CatchUp, Raise

\* The plans that a build makes again from its own database.
Again(w) == UNION {plan_source(Written(w), wk[w].obs[s], wk[w].obs[s].id, file[s]) : s \in wk[w].scope}

LEMMA ReplanGives ==
    ASSUME TypeInv, NEW w \in Workers, Replan(w)
    PROVE  /\ wk'[w].pc = IF Again(w) = {} THEN "rollup" ELSE "open"
           /\ wk'[w].plans = ParsedNow(Again(w))
           /\ SameBasics(w)
           /\ wk'[w].gen = wk[w].gen /\ wk'[w].prior = wk[w].prior /\ wk'[w].path = wk[w].path
           /\ wk'[w].stream = wk[w].stream /\ wk'[w].incremental = wk[w].incremental
           /\ \A v \in Workers \ {w} : wk'[v] = wk[v]
<1> DEFINE plans == ParsedNow(Again(w))
           pc == IF Again(w) = {} THEN "rollup" ELSE "open"
<1>0. wk[w] \in WorkerState
  BY WorkerTyped
<1>1. Becomes(w, [wk[w] EXCEPT !.pc = pc, !.plans = plans])
  BY DEF Replan, Again
<1> HIDE DEF plans, pc
<1>2. /\ wk'[w] = [wk[w] EXCEPT !.pc = pc, !.plans = plans]
      /\ \A v \in Workers \ {w} : wk'[v] = wk[v]
  BY <1>1, BecomesGives
<1>3. /\ wk'[w].pc = pc /\ wk'[w].plans = plans /\ SameBasics(w)
      /\ wk'[w].gen = wk[w].gen /\ wk'[w].prior = wk[w].prior /\ wk'[w].path = wk[w].path
      /\ wk'[w].stream = wk[w].stream /\ wk'[w].incremental = wk[w].incremental
  BY <1>0, <1>2 DEF WorkerState, SameBasics
<1> QED
  BY <1>2, <1>3 DEF plans, pc

\* What a rollup makes of the database that a build wrote.
RolledUp(w) ==
    IF wk[w].prior > 0 /\ wk[w].incremental THEN AdvanceRollups(Written(w), wk[w].gen, wk[w].prior)
    ELSE RebuildRollups(Written(w), wk[w].gen)

LEMMA RollupGives ==
    ASSUME TypeInv, NEW w \in Workers, Rollup(w)
    PROVE  /\ \A v \in Workers \ {w} : wk'[v] = wk[v]
           /\ \/ Goto(w, "failRun") /\ UNCHANGED artifact
              \/ /\ artifact' = [artifact EXCEPT ![wk[w].path] = RolledUp(w)]
                 /\ ~(wk[w].prior > 0 /\ wk[w].incremental /\ Written(w).roll[wk[w].prior] = None)
                 /\ wk'[w].pc = "promote" /\ SameBasics(w) /\ wk'[w].plans = wk[w].plans
                 /\ wk'[w].gen = wk[w].gen /\ wk'[w].prior = wk[w].prior /\ wk'[w].path = wk[w].path
                 /\ wk'[w].stream = wk[w].stream
<1>0. wk[w] \in WorkerState
  BY WorkerTyped
<1>1. CASE Goto(w, "failRun") /\ UNCHANGED artifact
  BY <1>1, GotoGives
<1>2. CASE ~(wk[w].prior > 0 /\ wk[w].incremental /\ Written(w).roll[wk[w].prior] = None)
  <2> DEFINE fenced == wk[w].planned = {}
  <2>1. /\ artifact' = [artifact EXCEPT ![wk[w].path] = RolledUp(w)]
        /\ Becomes(w, [wk[w] EXCEPT !.pc = "promote", !.fenced = fenced])
    BY <1>2 DEF Rollup, RolledUp
  <2> HIDE DEF fenced
  <2>2. /\ wk'[w] = [wk[w] EXCEPT !.pc = "promote", !.fenced = fenced]
        /\ \A v \in Workers \ {w} : wk'[v] = wk[v]
    BY <2>1, BecomesGives
  <2> QED
    BY <1>0, <1>2, <2>1, <2>2 DEF WorkerState, SameBasics
<1> QED
  BY <1>1, <1>2 DEF Rollup, Raise

\* A check of the lease.
LEMMA FenceGives ==
    ASSUME TypeInv, NEW w \in Workers, Fence(w)
    PROVE  /\ \A v \in Workers \ {w} : wk'[v] = wk[v]
           /\ \/ Goto(w, "failRun")
              \/ /\ Owned(w) /\ wk'[w].pc = wk[w].pc /\ SameBasics(w) /\ wk'[w].plans = wk[w].plans
                 /\ wk'[w].gen = wk[w].gen /\ wk'[w].prior = wk[w].prior /\ wk'[w].path = wk[w].path
                 /\ wk'[w].stream = wk[w].stream /\ wk'[w].incremental = wk[w].incremental
                 /\ wk'[w].read = wk[w].read /\ wk'[w].planned = wk[w].planned
<1>0. wk[w] \in WorkerState
  BY WorkerTyped
<1>1. CASE Goto(w, "failRun")
  BY <1>1, GotoGives
<1>2. CASE Owned(w) /\ Becomes(w, [wk[w] EXCEPT !.fenced = TRUE])
  <2>1. /\ wk'[w] = [wk[w] EXCEPT !.fenced = TRUE]
        /\ \A v \in Workers \ {w} : wk'[v] = wk[v]
    BY <1>2, BecomesGives
  <2> QED
    BY <1>0, <1>2, <2>1 DEF WorkerState, SameBasics
<1> QED
  BY <1>1, <1>2 DEF Fence, Raise

LEMMA LaunchGives ==
    ASSUME TypeInv, NEW w \in Workers
    PROVE  /\ Launch(w) => /\ wk'[w].pc = "initialize"
                           /\ wk'[w].scope = {s \in Sources : file[s] # None}
                           /\ wk'[w].obs = wk[w].obs /\ wk'[w].plans = wk[w].plans
                           /\ \A v \in Workers \ {w} : wk'[v] = wk[v]
           /\ Observe(w) => /\ wk'[w].pc = "acquire" /\ wk'[w].obs = Observed(wk[w].scope)
                            /\ wk'[w].scope = wk[w].scope /\ wk'[w].plans = wk[w].plans
                            /\ \A v \in Workers \ {w} : wk'[v] = wk[v]
<1>0. wk[w] \in WorkerState
  BY WorkerTyped
<1>1. ASSUME Launch(w)
      PROVE  /\ wk'[w].pc = "initialize" /\ wk'[w].scope = {s \in Sources : file[s] # None}
             /\ wk'[w].obs = wk[w].obs /\ wk'[w].plans = wk[w].plans
             /\ \A v \in Workers \ {w} : wk'[v] = wk[v]
  <2> DEFINE found == {s \in Sources : file[s] # None}
  <2> HIDE DEF found
  <2>1. Becomes(w, [wk[w] EXCEPT !.pc = "initialize", !.scope = found])
    BY <1>1 DEF Launch, found
  <2>2. /\ wk'[w] = [wk[w] EXCEPT !.pc = "initialize", !.scope = found]
        /\ \A v \in Workers \ {w} : wk'[v] = wk[v]
    BY <2>1, BecomesGives
  <2>3. /\ wk'[w].pc = "initialize" /\ wk'[w].scope = found
        /\ wk'[w].obs = wk[w].obs /\ wk'[w].plans = wk[w].plans
    BY <1>0, <2>2 DEF WorkerState
  <2> QED
    BY <2>2, <2>3 DEF found
<1>2. ASSUME Observe(w)
      PROVE  /\ wk'[w].pc = "acquire" /\ wk'[w].obs = Observed(wk[w].scope)
             /\ wk'[w].scope = wk[w].scope /\ wk'[w].plans = wk[w].plans
             /\ \A v \in Workers \ {w} : wk'[v] = wk[v]
  <2> DEFINE obs == Observed(wk[w].scope)
  <2> HIDE DEF obs
  <2>1. Becomes(w, [wk[w] EXCEPT !.pc = "acquire", !.obs = obs])
    BY <1>2 DEF Observe, obs
  <2>2. /\ wk'[w] = [wk[w] EXCEPT !.pc = "acquire", !.obs = obs]
        /\ \A v \in Workers \ {w} : wk'[v] = wk[v]
    BY <2>1, BecomesGives
  <2>3. /\ wk'[w].pc = "acquire" /\ wk'[w].obs = obs
        /\ wk'[w].scope = wk[w].scope /\ wk'[w].plans = wk[w].plans
    BY <1>0, <2>2 DEF WorkerState
  <2> QED
    BY <2>2, <2>3 DEF obs
<1> QED
  BY <1>1, <1>2

-----------------------------------------------------------------------------
(* A build is written under its lease. *)

\* From the check before the clone on, the heartbeat keeps the lease of a build.
Kept4Build(w) == wk[w].pc \in Maintained /\ (wk[w].pc = "clone" => wk[w].fenced)
BuildOwned == \A w \in Workers : Kept4Build(w) => Owned(w)

\* How a worker gets there.
LEMMA BuildMoves ==
    ASSUME TypeInv, NEW w \in Workers, Plain(w), Kept4Build(w)'
    PROVE  Kept4Build(w) \/ Owned(w)
<1>0. wk[w] \in WorkerState
  BY WorkerTyped
<1>1. Maintained = Chosen
  BY DEF Maintained, Chosen
<1>2. ASSUME NEW pc, Goto(w, pc), pc \notin Chosen PROVE FALSE
  BY <1>1, <1>2, GotoGives DEF Kept4Build
<1>3. ASSUME wk[w].pc \in Chosen \ {"clone"} PROVE Kept4Build(w)
  BY <1>1, <1>3 DEF Kept4Build
<1>4. CASE wk[w].pc \notin Chosen
  <2>1. CASE Prepare(w)
    <3>3. wk'[w].pc = "clone" /\ wk'[w].fenced = FALSE
      BY <2>1, PrepareGives
    <3> QED
      BY <3>3 DEF Kept4Build
  <2>2. CASE \E next : next \notin Chosen /\ wk'[w].pc = next
    BY <1>1, <2>2 DEF Kept4Build
  <2>3. CASE Fence(w)
    <3>1. wk[w].pc = "prepare"
      BY <1>4, <2>3, StepsAre DEF Fence, Fenced
    <3>2. CASE Becomes(w, [wk[w] EXCEPT !.fenced = TRUE])
      <4>1. wk'[w].pc = "prepare"
        BY <1>0, <3>1, <3>2, BecomesGives DEF WorkerState
      <4> QED
        BY <2>2, <4>1, StepsAre
    <3>3. CASE Goto(w, "failRun")
      BY <1>2, <3>3, StepsAre
    <3> QED
      BY <2>3, <3>2, <3>3 DEF Fence, Raise
  <2>4. CASE \/ RecoverRollups(w) \/ RecoverBegin(w) \/ RecoverPromote(w) \/ Interrupt(w)
             \/ Discard(w) \/ Admit(w) \/ Stage(w) \/ Catalog(w) \/ Capture(w)
             \/ Register(w) \/ Fault(w)
    <3>1. \E pc : pc \notin Chosen /\ Goto(w, pc)
      BY <2>4, StepsAre
         DEF RecoverRollups, RecoverBegin, RecoverPromote, Interrupt, Discard, Admit, Stage, Catalog,
             Capture, Register, Fault, Raise
    <3> QED
      BY <1>2, <3>1
  <2>5. CASE Recover(w) \/ MakePlans(w)
    <3>1. CASE Recover(w)
      <4>1. wk'[w].pc \in {"recoverRollups", "recoverBegin", "recoverPromote", "interrupt", "discard",
                           "admit"}
        BY <3>1, RecoverGives, Zenon
      <4> QED
        BY <2>2, <4>1, StepsAre
    <3>2. CASE MakePlans(w)
      BY <2>2, <3>2, MakePlansGives, StepsAre
    <3> QED
      BY <2>5, <3>1, <3>2
  <2>6. CASE \/ Clone(w) \/ Begin(w) \/ Open(w) \/ Facts(w) \/ Seal(w) \/ Batch(w) \/ Finalize(w)
             \/ CatchUp(w) \/ Replan(w) \/ Rollup(w) \/ Promote(w)
    BY <1>4, <2>6, StepsAre
       DEF Clone, Begin, Open, Facts, Seal, Batch, Finalize, CatchUp, Replan, Rollup, Promote, At
  <2> QED
    BY <2>1, <2>3, <2>4, <2>5, <2>6 DEF Plain
<1>5. CASE wk[w].pc = "clone"
  <2>1. CASE Clone(w)
    BY <1>5, <2>1, <1>1, StepsAre DEF Clone, Kept4Build
  <2>2. CASE Fence(w)
    <3>1. CASE Owned(w)
      BY <3>1
    <3>2. CASE Goto(w, "failRun")
      BY <1>2, <3>2, StepsAre
    <3> QED
      BY <2>2, <3>1, <3>2 DEF Fence, Raise
  <2>3. CASE Fault(w)
    BY <1>2, <2>3, StepsAre DEF Fault, Raise
  <2> QED
    BY <1>5, <2>1, <2>2, <2>3
       DEF Plain, Recover, RecoverRollups, RecoverBegin, RecoverPromote, Interrupt, Discard, Admit,
           MakePlans, Stage, Catalog, Capture, Prepare, Begin, Open, Facts, Seal, Batch,
           Finalize, CatchUp, Replan, Rollup, Promote, Register, At
<1> QED
  BY <1>3, <1>4, <1>5

LEMMA BuildOwnedSteps ==
    ASSUME Lapses # "any", TypeInv, BuildOwned, [Next]_vars
    PROVE  BuildOwned'
<1>0. runs \in [Workers -> Run] /\ Maintained = Chosen
  BY DEF TypeInv, Typed, RefreshControlTypeOK, Maintained, Chosen
<1> SUFFICES ASSUME NEW v \in Workers, Kept4Build(v)' PROVE Owned(v)'
  BY DEF BuildOwned
<1>1. ASSUME NEW w \in Workers, Plain(w) PROVE Owned(v)'
  <2>1. UNCHANGED runs /\ \A u \in Workers \ {w} : wk'[u] = wk[u]
    BY <1>1, PlainMoves
  <2>2. Kept4Build(v) \/ Owned(v)
    <3>1. CASE v = w
      BY <1>1, <3>1, BuildMoves
    <3>2. CASE v # w
      BY <2>1, <3>2 DEF Kept4Build
    <3> QED
      BY <3>1, <3>2
  <2>3. Owned(v)
    BY <2>2 DEF BuildOwned
  <2> QED
    BY <2>1, <2>3 DEF Owned, Running
<1>2. ASSUME NEW w \in Workers, Step(w) \/ Fault(w) \/ Crash(w), ~Plain(w) PROVE Owned(v)'
  <2>0. \A u \in Workers \ {w} : wk'[u] = wk[u]
    BY <1>2, OtherMoves
  <2>1. v # w
    <3>1. wk'[w].pc \in Unleased \cup Ended \cup {"recover"} \/ wk'[w].pc \notin AtWork
      BY <1>2, OtherMoves, WorkIs
    <3>2. wk'[w].pc \notin Chosen
      BY <3>1, WorkIs, StepsAre DEF Ended
    <3> QED
      BY <1>0, <3>2 DEF Kept4Build
  <2>2. Owned(v)
    BY <2>0, <2>1 DEF BuildOwned, Kept4Build
  <2>3. runs'[v] = runs[v]
    BY <1>2, <2>1, <2>2, OtherMoves DEF CreateRun, ActiveJob
  <2> QED
    BY <2>2, <2>3 DEF Owned, Running
<1>3. ASSUME NEW w \in Workers, LeaseExpires(w) \/ Heartbeat(w) PROVE Owned(v)'
  <2>1. Kept4Build(v) /\ wk' = wk
    BY <1>3 DEF LeaseExpires, Heartbeat, Kept4Build
  <2>2. Owned(v)
    BY <2>1 DEF BuildOwned
  <2>3. CASE LeaseExpires(w)
    <3>1. v # w
      <4>1. wk[v].pc \in Maintained /\ wk[v].pc # "dead"
        BY <1>0, <2>1, StepsAre DEF Kept4Build
      <4> QED
        BY <2>3, <4>1, RefreshRegime DEF LeaseExpires, MayExpire, At
    <3> QED
      BY <1>0, <2>2, <2>3, <3>1 DEF LeaseExpires, Expire, Owned, Running
  <2>4. CASE Heartbeat(w)
    BY <1>0, <2>2, <2>4 DEF Heartbeat, Renew, Owned, Running, Run
  <2> QED
    BY <1>3, <2>3, <2>4
<1>4. CASE (\E s \in Sources : ChangeFile(s)) \/ Rollback \/ UNCHANGED vars
  <2>1. wk' = wk /\ runs' = runs
    BY <1>4 DEF ChangeFile, Rollback, vars, sidecarVars
  <2> QED
    BY <2>1 DEF BuildOwned, Kept4Build, Owned, Running
<1> QED
  BY <1>1, <1>2, <1>3, <1>4 DEF Next

\* A worker that publishes what it built holds the lease, although the step that
\* publishes is preceded by a rollup that checks nothing: leases lapse while nothing
\* renews them, and workers are started with or without the launch guard.
THEOREM PublishingIsOwned == Spec /\ Lapses # "any" => PromotionIsOwned
<1>1. Init => BuildOwned
  <2>1. ASSUME Init PROVE \A w \in Workers : wk[w].pc = "idle"
    BY <2>1 DEF Init, IdleWorker
  <2>2. "idle" \notin Maintained
    BY StepsAre DEF Maintained, Chosen
  <2> QED
    BY <2>1, <2>2 DEF BuildOwned, Kept4Build
<1>2. TypeInv /\ BuildOwned /\ [Next]_vars
        => [\A w \in Workers : At(w, "promote") /\ wk'[w].pc = "register" => Owned(w)]_vars
  <2>1. "promote" \in Maintained
    BY StepsAre DEF Maintained, Chosen
  <2> QED
    BY <2>1 DEF BuildOwned, Kept4Build, At
<1>3. CASE Lapses # "any"
  <2>1. TypeInv /\ BuildOwned /\ [Next]_vars => (TypeInv /\ BuildOwned)'
    BY <1>3, TypeSteps, BuildOwnedSteps
  <2>2. Spec => [](TypeInv /\ BuildOwned)
    BY <1>1, <2>1, TypeInit, PTL DEF Spec
  <2> QED
    BY <1>2, <2>2, PTL DEF Spec, PromotionIsOwned
<1>4. CASE ~(Lapses # "any")
  BY <1>4, PTL
<1> QED
  BY <1>3, <1>4

-----------------------------------------------------------------------------
(* What a transaction leaves of a database. *)

\* Where the cursor of a source id is after plans were recorded.
EndOf(o) == [ver |-> o.ver, off |-> o.len]
Recorded(plans, i) == EndOf((CHOOSE p \in plans : p.obs.id = i).obs)
IdsOf(plans) == {p.obs.id : p \in plans}

\* The ids whose rows the first transaction of a build deletes, the plans it records,
\* the facts it leaves, and those of a database to which a plan was added.
ReplacedIds(plans) == {p.prior : p \in {x \in plans : x.replace /\ x.prior # None}}
Fresh(plans)       == {p \in plans : p.prior = None \/ p.replace}
Cleared(a, ids)    == {f \in a.facts : f.line.id \notin ids}
Added(a, p, g)     == a.facts \cup {[line |-> l, gen |-> g] : l \in p.lines \ LinesOf(a)}
Counted(a, g)      == {f.line : f \in {x \in a.facts : x.gen = g}}

\* What a transaction on a database "a" makes of it.
IsOpened(a, b, plans, g) ==
    /\ \A h \in Generations \ {g} : b.gens[h] = a.gens[h]
    /\ g \in Generations => b.gens[g] = "pending"
    /\ b.roll = a.roll /\ b.facts = Cleared(a, ReplacedIds(plans))
    /\ \A i \in SourceIds : b.rows[i] = IF i \in IdsOf(Fresh(plans)) THEN Recorded(Fresh(plans), i)
                                         ELSE IF i \in ReplacedIds(plans) THEN None ELSE a.rows[i]
IsInserted(a, b, p, g) ==
    b.gens = a.gens /\ b.rows = a.rows /\ b.roll = a.roll /\ b.facts = Added(a, p, g)
IsBatched(a, b, p, g, first) ==
    /\ \A h \in Generations \ {g} : b.gens[h] = a.gens[h]
    /\ g \in Generations => b.gens[g] = IF first THEN "pending" ELSE a.gens[g]
    /\ b.roll = a.roll /\ b.facts = Added(a, p, g)
    /\ \A i \in SourceIds : b.rows[i] = IF i = p.obs.id THEN EndOf(p.obs) ELSE a.rows[i]
IsSealed(a, b, plans, g) ==
    /\ \A h \in Generations \ {g} : b.gens[h] = a.gens[h]
    /\ g \in Generations => b.gens[g] = IF a.gens[g] = "absent" THEN "absent" ELSE "valid"
    /\ b.facts = a.facts /\ b.roll = a.roll
    /\ \A i \in SourceIds : b.rows[i] = IF i \in IdsOf(plans) THEN Recorded(plans, i) ELSE a.rows[i]
IsRolled(a, b, g, lines) ==
    /\ b.gens = a.gens /\ b.rows = a.rows /\ b.facts = a.facts
    /\ \A h \in Generations : b.roll[h] = IF h = g THEN lines ELSE a.roll[h]

LEMMA UpsertGives ==
    ASSUME NEW a \in Artifact, NEW plans
    PROVE  LET b == UpsertSources(a, plans)
           IN  /\ b.gens = a.gens /\ b.facts = a.facts /\ b.roll = a.roll
               /\ \A i \in SourceIds :
                     b.rows[i] = IF i \in IdsOf(plans) THEN Recorded(plans, i) ELSE a.rows[i]
<1> DEFINE rows == [i \in SourceIds |-> IF i \in IdsOf(plans) THEN Recorded(plans, i) ELSE a.rows[i]]
<1>1. UpsertSources(a, plans) = [a EXCEPT !.rows = rows]
  BY DEF UpsertSources, Recorded, EndOf, IdsOf
<1>2. \A i \in SourceIds : rows[i] = IF i \in IdsOf(plans) THEN Recorded(plans, i) ELSE a.rows[i]
  OBVIOUS
<1> HIDE DEF rows
<1>3. LET b == [a EXCEPT !.rows = rows]
      IN  b.gens = a.gens /\ b.facts = a.facts /\ b.roll = a.roll /\ b.rows = rows
  BY DEF Artifact
<1> QED
  BY <1>1, <1>2, <1>3

LEMMA DeleteGives ==
    ASSUME NEW a \in Artifact, NEW ids
    PROVE  LET b == DeleteSources(a, ids)
           IN  /\ b.gens = a.gens /\ b.roll = a.roll /\ b.facts = Cleared(a, ids)
               /\ \A i \in SourceIds : b.rows[i] = IF i \in ids THEN None ELSE a.rows[i]
<1> DEFINE rows == [i \in SourceIds |-> IF i \in ids THEN None ELSE a.rows[i]]
           facts == Cleared(a, ids)
           states == {x \in a.states : x.line.id \notin ids}
<1>1. DeleteSources(a, ids) = [a EXCEPT !.rows = rows, !.facts = facts, !.states = states]
  BY DEF DeleteSources, Artifact, Cleared
<1>2. \A i \in SourceIds : rows[i] = IF i \in ids THEN None ELSE a.rows[i]
  OBVIOUS
<1> HIDE DEF rows, facts, states
<1>3. LET b == [a EXCEPT !.rows = rows, !.facts = facts, !.states = states]
      IN  b.gens = a.gens /\ b.facts = facts /\ b.roll = a.roll /\ b.rows = rows
  BY DEF Artifact
<1> QED
  BY <1>1, <1>2, <1>3 DEF facts

LEMMA OpenGives ==
    ASSUME NEW a \in Artifact, NEW plans, NEW g
    PROVE  IsOpened(a, OpenRefresh(a, plans, g), plans, g)
<1> DEFINE ids == ReplacedIds(plans)
           x == [a EXCEPT !.gens[g] = "pending"]
           y == DeleteSources(x, ids)
           b == OpenRefresh(a, plans, g)
<1>1. b = UpsertSources(y, Fresh(plans))
  BY DEF OpenRefresh, ReplacedIds, Fresh
<1>2. /\ x \in Artifact /\ x.facts = a.facts /\ x.roll = a.roll /\ x.rows = a.rows
      /\ \A h \in Generations : x.gens[h] = IF h = g THEN "pending" ELSE a.gens[h]
  <2>1. x \in Artifact
    BY GenTyped
  <2> QED
    BY <2>1 DEF Artifact
<1> HIDE DEF x, ids, b
<1>3. /\ y \in Artifact /\ y.gens = x.gens /\ y.roll = x.roll /\ y.facts = Cleared(x, ids)
      /\ \A i \in SourceIds : y.rows[i] = IF i \in ids THEN None ELSE x.rows[i]
  BY <1>2, DeleteTyped, DeleteGives
<1>4. Cleared(x, ids) = Cleared(a, ids)
  BY <1>2 DEF Cleared
<1> HIDE DEF y
<1>5. /\ b.gens = y.gens /\ b.facts = y.facts /\ b.roll = y.roll
      /\ \A i \in SourceIds :
            b.rows[i] = IF i \in IdsOf(Fresh(plans)) THEN Recorded(Fresh(plans), i) ELSE y.rows[i]
  BY <1>1, <1>3, UpsertGives
<1>6. /\ \A h \in Generations : b.gens[h] = IF h = g THEN "pending" ELSE a.gens[h]
      /\ b.roll = a.roll /\ b.facts = Cleared(a, ids)
  BY <1>2, <1>3, <1>4, <1>5
<1>7. \A i \in SourceIds :
         b.rows[i] = IF i \in IdsOf(Fresh(plans)) THEN Recorded(Fresh(plans), i)
                     ELSE IF i \in ids THEN None ELSE a.rows[i]
  BY <1>2, <1>3, <1>5
<1> QED
  BY <1>6, <1>7 DEF b, ids, IsOpened

LEMMA InsertGives ==
    ASSUME NEW a \in Artifact, NEW p, NEW g
    PROVE  IsInserted(a, InsertFacts(a, p, g), p, g)
<1> DEFINE facts == Added(a, p, g)
           states == InsertStates(a.states, p.lines, g)
<1>1. InsertFacts(a, p, g) = [a EXCEPT !.facts = facts, !.states = states]
  BY DEF InsertFacts, Artifact, Added
<1> HIDE DEF facts, states
<1>2. LET b == [a EXCEPT !.facts = facts, !.states = states]
      IN  b.gens = a.gens /\ b.facts = facts /\ b.roll = a.roll /\ b.rows = a.rows
  BY DEF Artifact
<1> QED
  BY <1>1, <1>2 DEF facts, IsInserted

LEMMA BatchGives ==
    ASSUME NEW a \in Artifact, NEW p \in Plan, NEW g, NEW first \in BOOLEAN
    PROVE  IsBatched(a, CommitBatch(a, p, g, first), p, g, first)
<1> DEFINE x == IF first THEN [a EXCEPT !.gens[g] = "pending"] ELSE a
           y == UpsertSources(x, {p})
           b == CommitBatch(a, p, g, first)
<1>1. b = InsertFacts(y, p, g)
  BY DEF CommitBatch
<1>2. /\ x \in Artifact /\ x.facts = a.facts /\ x.roll = a.roll /\ x.rows = a.rows
      /\ \A h \in Generations : x.gens[h] = IF first /\ h = g THEN "pending" ELSE a.gens[h]
  <2> DEFINE z == [a EXCEPT !.gens[g] = "pending"]
  <2>1. /\ z \in Artifact /\ z.facts = a.facts /\ z.roll = a.roll /\ z.rows = a.rows
        /\ \A h \in Generations : z.gens[h] = IF h = g THEN "pending" ELSE a.gens[h]
    <3>1. z \in Artifact
      BY GenTyped
    <3> QED
      BY <3>1 DEF Artifact
  <2>2. x = IF first THEN z ELSE a
    OBVIOUS
  <2> HIDE DEF z, x
  <2> QED
    BY <2>1, <2>2
<1> HIDE DEF x, b
<1>3. /\ y \in Artifact /\ y.gens = x.gens /\ y.facts = x.facts /\ y.roll = x.roll
      /\ \A i \in SourceIds : y.rows[i] = IF i \in IdsOf({p}) THEN Recorded({p}, i) ELSE x.rows[i]
  BY <1>2, UpsertTyped, UpsertGives
<1>5. \A i \in SourceIds :
         y.rows[i] = IF i = p.obs.id THEN EndOf(p.obs) ELSE x.rows[i]
  <2> SUFFICES ASSUME NEW i \in SourceIds
               PROVE  y.rows[i] = IF i = p.obs.id THEN EndOf(p.obs) ELSE x.rows[i]
    OBVIOUS
  <2>1. p.obs.id = i => (CHOOSE q \in {p} : q.obs.id = i) = p
    OBVIOUS
  <2> QED
    BY <1>3, <2>1 DEF Recorded, IdsOf
<1>6. LinesOf(y) = LinesOf(a)
  BY <1>2, <1>3 DEF LinesOf
<1> HIDE DEF y
<1>7. b.gens = y.gens /\ b.rows = y.rows /\ b.roll = y.roll /\ b.facts = Added(y, p, g)
  <2>1. IsInserted(y, b, p, g)
    BY <1>1, <1>3, InsertGives
  <2> QED
    BY <2>1 DEF IsInserted
<1>8. Added(y, p, g) = Added(a, p, g)
  BY <1>2, <1>3, <1>6 DEF Added
<1> QED
  BY <1>2, <1>3, <1>5, <1>7, <1>8 DEF b, IsBatched

LEMMA SealGives ==
    ASSUME NEW a \in Artifact, NEW plans \in SUBSET Plan, NEW g
    PROVE  IsSealed(a, SealRefresh(a, plans, g), plans, g)
<1> DEFINE x == UpsertSources(a, plans)
           z == [x EXCEPT !.gens[g] = "valid"]
<1>1. /\ x \in Artifact /\ x.gens = a.gens /\ x.facts = a.facts /\ x.roll = a.roll
      /\ \A i \in SourceIds : x.rows[i] = IF i \in IdsOf(plans) THEN Recorded(plans, i) ELSE a.rows[i]
  BY UpsertTyped, UpsertGives
<1>2. SealRefresh(a, plans, g) = IF a.gens[g] = "absent" THEN x ELSE z
  BY DEF SealRefresh
<1> HIDE DEF x
<1>3. /\ z.facts = x.facts /\ z.roll = x.roll /\ z.rows = x.rows
      /\ \A h \in Generations : z.gens[h] = IF h = g THEN "valid" ELSE x.gens[h]
  BY <1>1 DEF Artifact
<1> HIDE DEF z
<1> QED
  BY <1>1, <1>2, <1>3 DEF IsSealed

LEMMA RebuildGives ==
    ASSUME NEW a \in Artifact, NEW g
    PROVE  IsRolled(a, RebuildRollups(a, g), g, VisibleLines(a, g))
<1> DEFINE lines == VisibleLines(a, g)
           b == RebuildRollups(a, g)
<1>1. b = [a EXCEPT !.roll[g] = lines]
  BY DEF RebuildRollups
<1> HIDE DEF lines, b
<1>2. /\ b.gens = a.gens /\ b.rows = a.rows /\ b.facts = a.facts
      /\ \A h \in Generations : b.roll[h] = IF h = g THEN lines ELSE a.roll[h]
  BY <1>1 DEF Artifact
<1> QED
  BY <1>2 DEF lines, b, IsRolled

LEMMA AdvanceGives ==
    ASSUME NEW a \in Artifact, NEW g, NEW from
    PROVE  IsRolled(a, AdvanceRollups(a, g, from), g, a.roll[from] \cup Counted(a, g))
<1> DEFINE lines == a.roll[from] \cup Counted(a, g)
           b == AdvanceRollups(a, g, from)
<1>1. b = [a EXCEPT !.roll[g] = lines]
  BY DEF AdvanceRollups, Counted
<1> HIDE DEF lines, b
<1>2. /\ b.gens = a.gens /\ b.rows = a.rows /\ b.facts = a.facts
      /\ \A h \in Generations : b.roll[h] = IF h = g THEN lines ELSE a.roll[h]
  BY <1>1 DEF Artifact
<1> QED
  BY <1>2 DEF lines, b, IsRolled

LEMMA RollsKeep ==
    ASSUME NEW a \in Artifact, NEW g, NEW from
    PROVE  /\ AdvanceRollups(a, g, from).gens = a.gens /\ AdvanceRollups(a, g, from).rows = a.rows
           /\ AdvanceRollups(a, g, from).facts = a.facts
           /\ RebuildRollups(a, g).gens = a.gens /\ RebuildRollups(a, g).rows = a.rows
           /\ RebuildRollups(a, g).facts = a.facts
<1> DEFINE lines == a.roll[from] \cup Counted(a, g)
           b == AdvanceRollups(a, g, from)
           c == RebuildRollups(a, g)
<1>1. b = [a EXCEPT !.roll[g] = lines]
  BY DEF AdvanceRollups, Counted
<1>2. c = [a EXCEPT !.roll[g] = VisibleLines(a, g)]
  BY DEF RebuildRollups
<1> HIDE DEF lines, b, c
<1>3. b.gens = a.gens /\ b.rows = a.rows /\ b.facts = a.facts
  BY <1>1 DEF Artifact
<1>4. c.gens = a.gens /\ c.rows = a.rows /\ c.facts = a.facts
  BY <1>2 DEF Artifact
<1> QED
  BY <1>3, <1>4 DEF b, c

-----------------------------------------------------------------------------
(* The generations are numbered one after another. *)

\* No generation above "n" is valid in a database.
UpTo(a, n) == \A g \in Generations : a.gens[g] = "valid" => g <= n

\* Workers in these have written to no database of their own yet.
Early == {"idle"} \cup Unleased \cup Recovery \cup Planning \cup {"prepare", "clone"}

Recovering == {"recoverRollups", "recoverBegin", "recoverPromote"}
Located    == {"stage", "prepare", "clone"}

\* Workers in these have a generation on record, or one to put there.
Built == Building \ {"prepare", "clone"}

\* The cutover record names three different databases, and none of them holds more
\* than one generation above the one that it serves or would serve.
RecordsFit ==
    /\ control.active # None <=> control.gen > 0
    /\ control.rollback # None => /\ control.active # None /\ control.rollback # control.active
                                  /\ control.rollbackGen > 0
                                  /\ UpTo(artifact[control.rollback], control.rollbackGen + 1)
    /\ control.staging # None => /\ control.staging # control.rollback
                                 /\ UpTo(artifact[control.staging], control.gen + 1)
    /\ UpTo(artifact[ActivePath], control.gen + 1)
    /\ \A w \in Workers : wk[w].pc \in Early => w \notin {control.active, control.rollback, control.staging}

\* What a worker recovers or builds is the generation after the published one.
Numbered(w) ==
    /\ wk[w].pc = "wipe" => control.active = None
    /\ wk[w].pc \in Recovering => /\ wk[w].read.staging = control.staging /\ control.staging # None
                                  /\ wk[w].gen = control.gen + 1
    /\ wk[w].pc \in Located => wk[w].path = ActivePath
    /\ wk[w].pc \in Chosen => wk[w].gen = control.gen + 1
    /\ wk[w].pc \in Built => /\ wk[w].path \in {ActivePath, w}
                             /\ w \notin {control.active, control.rollback}
                             /\ UpTo(artifact[wk[w].path], control.gen + 1)

Ordered == RecordsFit /\ \A w \in Workers : Numbered(w)

\* What holds of an attended host so far.
Kernel == TypeInv /\ Exclusive

LEMMA ClassesAre ==
    /\ Early = {"idle", "initialize", "wipe", "observe", "acquire", "recover", "recoverRollups",
                "recoverBegin", "recoverPromote", "interrupt", "discard", "admit", "plan", "stage",
                "prepare", "clone"}
    /\ Built = {"open", "facts", "seal", "batch", "finalize", "promote", "begin", "catchUp",
                "replan", "rollup"}
    /\ {"wipe"} \cup Recovering \cup Located \cup Chosen \cup Built \subseteq AtWork
    /\ Recovering \cap Chosen = {} /\ Built \subseteq Chosen
BY DEF Early, Built, Recovering, Located, Chosen, AtWork, Unleased, Guarding, Recovery, Planning,
       Building, Finishing, Fenced

LEMMA ControlTyped ==
    ASSUME TypeInv
    PROVE  /\ control.gen \in Nat /\ control.gen <= MaxGeneration /\ control.rollbackGen \in Nat
           /\ control.active \in Paths \cup {None} /\ control.staging \in Paths \cup {None}
           /\ control.rollback \in Paths \cup {None}
           /\ artifact \in [Paths -> Artifact] /\ None \notin Paths /\ Base \in Paths
           /\ Workers \subseteq Paths /\ Base \notin Workers
BY ArtifactBounds, BaseAssumption DEF TypeInv, Typed, RefreshControlTypeOK, Control, Paths

\* Steps that change neither the record's names nor a database.
LEMMA QuietOrdered ==
    ASSUME TypeInv, Ordered, NEW w \in Workers,
           control'.active = control.active, control'.gen = control.gen,
           control'.staging = control.staging, control'.rollback = control.rollback,
           control'.rollbackGen = control.rollbackGen, UNCHANGED artifact,
           \A v \in Workers \ {w} : wk'[v] = wk[v],
           wk'[w].pc \in Early => wk[w].pc \in Early,
           Numbered(w)'
    PROVE  Ordered'
<1>1. ActivePath' = ActivePath
  BY DEF ActivePath
<1>2. RecordsFit'
  BY <1>1 DEF Ordered, RecordsFit, UpTo
<1>3. ASSUME NEW v \in Workers \ {w} PROVE Numbered(v)'
  <2>1. Numbered(v) /\ wk'[v] = wk[v]
    BY DEF Ordered
  <2> QED
    BY <1>1, <2>1 DEF Numbered, UpTo
<1> QED
  BY <1>2, <1>3 DEF Ordered

\* ... and of a worker that keeps its locals.
LEMMA NumberedKept ==
    ASSUME TypeInv, Ordered, NEW w \in Workers,
           control'.active = control.active, control'.gen = control.gen,
           control'.staging = control.staging, control'.rollback = control.rollback, UNCHANGED artifact,
           wk'[w].path = wk[w].path, wk'[w].gen = wk[w].gen, wk'[w].read = wk[w].read,
           wk'[w].pc = "wipe" => control.active = None,
           wk'[w].pc \in Recovering => wk[w].pc \in Recovering,
           wk'[w].pc \in Located => wk[w].pc \in Located,
           wk'[w].pc \in Chosen => wk[w].pc \in Chosen,
           wk'[w].pc \in Built => wk[w].pc \in Built
    PROVE  Numbered(w)'
<1>1. ActivePath' = ActivePath /\ Numbered(w)
  BY DEF ActivePath, Ordered
<1> QED
  BY <1>1 DEF Numbered, UpTo

LEMMA NumberedOff ==
    ASSUME NEW w \in Workers, wk'[w].pc \notin {"wipe"} \cup Recovering \cup Located \cup Chosen
    PROVE  Numbered(w)'
BY ClassesAre DEF Numbered

\* Steps that go on.
LEMMA GotoOrdered ==
    ASSUME TypeInv, Ordered, NEW w \in Workers, NEW pc, Goto(w, pc),
           control'.active = control.active, control'.gen = control.gen,
           control'.staging = control.staging, control'.rollback = control.rollback,
           control'.rollbackGen = control.rollbackGen, UNCHANGED artifact,
           pc \in Early => wk[w].pc \in Early,
           pc = "wipe" => control.active = None,
           pc \in Recovering => wk[w].pc \in Recovering,
           pc \in Located => wk[w].pc \in Located,
           pc \in Chosen => wk[w].pc \in Chosen,
           pc \in Built => wk[w].pc \in Built
    PROVE  Ordered'
<1>1. /\ wk'[w].pc = pc /\ wk'[w].path = wk[w].path /\ wk'[w].gen = wk[w].gen
      /\ wk'[w].read = wk[w].read /\ \A v \in Workers \ {w} : wk'[v] = wk[v]
  BY GotoGives
<1>2. Numbered(w)'
  BY <1>1, NumberedKept
<1> QED
  BY <1>1, <1>2, QuietOrdered

LEMMA EndOrdered ==
    ASSUME TypeInv, Ordered, NEW w \in Workers, NEW pc \in Ended, End(w, pc),
           control'.active = control.active, control'.gen = control.gen,
           control'.staging = control.staging, control'.rollback = control.rollback,
           control'.rollbackGen = control.rollbackGen, UNCHANGED artifact
    PROVE  Ordered'
<1>1. wk'[w].pc = pc /\ \A v \in Workers \ {w} : wk'[v] = wk[v]
  BY EndGives
<1>2. pc \notin Early /\ pc \notin {"wipe"} \cup Recovering \cup Located \cup Chosen
  BY ClassesAre, StepsAre DEF Ended, Recovering, Located
<1>3. Numbered(w)'
  BY <1>1, <1>2, NumberedOff
<1> QED
  BY <1>1, <1>2, <1>3, QuietOrdered

LEMMA SimpleOrdered ==
    ASSUME TypeInv, Ordered, NEW w \in Workers,
           \/ Initialize(w) \/ Interrupt(w) \/ Discard(w) \/ Admit(w) \/ Stage(w) \/ Catalog(w)
           \/ Capture(w) \/ Register(w) \/ Complete(w) \/ FailRun(w) \/ Blame(w) \/ Condemn(w)
           \/ Fault(w) \/ Crash(w) \/ Acquire(w) \/ CatchUp(w) \/ Replan(w) \/ Fence(w)
           \/ Launch(w) \/ Observe(w)
    PROVE  Ordered'
<1>0. control \in Control
  BY DEF TypeInv, Typed, RefreshControlTypeOK
<1>1. CASE \/ Initialize(w) \/ Interrupt(w) \/ Discard(w) \/ Admit(w) \/ Stage(w) \/ Catalog(w)
           \/ Capture(w) \/ Register(w) \/ FailRun(w) \/ Fault(w)
  <2>1. /\ control'.active = control.active /\ control'.gen = control.gen
        /\ control'.staging = control.staging /\ control'.rollback = control.rollback
        /\ control'.rollbackGen = control.rollbackGen /\ UNCHANGED artifact
    BY <1>0, <1>1 DEF Initialize, Interrupt, Discard, Admit, Stage, Catalog, Capture, Register, FailRun,
                     Fault, FailCutover, Control, sidecarVars
  <2>2. \E pc : /\ Goto(w, pc)
                /\ pc \in Early => wk[w].pc \in Early
                /\ pc = "wipe" => control.active = None
                /\ pc \notin Recovering /\ pc \notin Chosen /\ pc \notin Built
                /\ pc \in Located => wk[w].pc \in Located
    <3>1. CASE Initialize(w)
      BY <3>1, ClassesAre, StepsAre DEF Initialize, Recovering, Located, At
    <3>2. CASE Interrupt(w)
      BY <3>2, ClassesAre, StepsAre DEF Interrupt, Raise, Recovering, Located, At
    <3>3. CASE Discard(w) \/ Admit(w)
      BY <3>3, ClassesAre, StepsAre DEF Discard, Admit, Recovering, Located, At
    <3>4. CASE Stage(w)
      BY <3>4, ClassesAre, StepsAre DEF Stage, Recovering, Located, At
    <3>5. CASE Catalog(w) \/ Register(w)
      BY <3>5, ClassesAre, StepsAre DEF Catalog, Register, Recovering, Located, At
    <3>6. CASE Capture(w)
      BY <3>6, ClassesAre, StepsAre DEF Capture, Raise, Recovering, Located, At
    <3>7. CASE FailRun(w) \/ Fault(w)
      BY <3>7, ClassesAre, StepsAre DEF FailRun, Fault, Raise, Recovering, Located, At
    <3> QED
      BY <1>1, <3>1, <3>2, <3>3, <3>4, <3>5, <3>6, <3>7
  <2> QED
    BY <2>1, <2>2, GotoOrdered
<1>2. CASE Blame(w) \/ Condemn(w) \/ Complete(w) \/ Crash(w) \/ Acquire(w)
  <2>1. /\ control'.active = control.active /\ control'.gen = control.gen
        /\ control'.staging = control.staging /\ control'.rollback = control.rollback
        /\ control'.rollbackGen = control.rollbackGen /\ UNCHANGED artifact
    BY <1>0, <1>2 DEF Blame, Condemn, Complete, Crash, Acquire, FailCutover, Control, sidecarVars
  <2>2. \/ \E pc \in Ended : End(w, pc)
        \/ \E pc : /\ Goto(w, pc)
                   /\ pc \in Early => wk[w].pc \in Early
                   /\ pc # "wipe"
                   /\ pc \notin Recovering /\ pc \notin Chosen /\ pc \notin Built /\ pc \notin Located
    BY <1>2, ClassesAre, StepsAre
       DEF Blame, Condemn, Complete, Crash, Acquire, Ended, Recovering, Located, At
  <2> QED
    BY <2>1, <2>2, GotoOrdered, EndOrdered
<1>3. CASE CatchUp(w) \/ Replan(w)
  <2>0. UNCHANGED <<control, artifact>> /\ wk[w].pc \in {"catchUp", "replan"}
    BY <1>3 DEF CatchUp, Replan, At, sidecarVars
  <2>1. CASE Goto(w, "failRun")
    BY <2>0, <2>1, GotoOrdered, ClassesAre, StepsAre DEF Recovering, Located
  <2>2. CASE /\ wk'[w].pc \in {"replan", "rollup", "open"} /\ wk'[w].path = wk[w].path
             /\ wk'[w].gen = wk[w].gen /\ \A v \in Workers \ {w} : wk'[v] = wk[v]
    <3>1. /\ wk'[w].pc \notin Early /\ wk'[w].pc \notin Recovering /\ wk'[w].pc \notin Located
          /\ wk[w].pc \in Chosen /\ wk[w].pc \in Built
      BY <2>0, <2>2, ClassesAre, StepsAre DEF Recovering, Located
    <3>2. Numbered(w)'
      <4>1. ActivePath' = ActivePath /\ Numbered(w)
        BY <2>0 DEF ActivePath, Ordered
      <4> QED
        BY <2>0, <2>2, <3>1, <4>1 DEF Numbered, UpTo
    <3> QED
      BY <2>0, <2>2, <3>1, <3>2, QuietOrdered
  <2> QED
    BY <1>3, <2>1, <2>2, CatchUpGives, ReplanGives
<1>4. CASE Fence(w)
  <2>0. UNCHANGED <<control, artifact>> /\ wk[w].pc \notin Recovering /\ wk[w].pc # "wipe"
    BY <1>4, StepsAre DEF Fence, sidecarVars, Fenced, Recovering
  <2>1. CASE Goto(w, "failRun")
    BY <2>0, <2>1, GotoOrdered, ClassesAre, StepsAre DEF Recovering, Located
  <2>2. CASE ~Goto(w, "failRun")
    <3>1. /\ wk'[w].pc = wk[w].pc /\ wk'[w].path = wk[w].path /\ wk'[w].gen = wk[w].gen
          /\ wk'[w].read = wk[w].read /\ \A v \in Workers \ {w} : wk'[v] = wk[v]
      BY <1>4, <2>2, FenceGives
    <3>2. Numbered(w)'
      BY <2>0, <3>1, NumberedKept
    <3> QED
      BY <2>0, <3>1, <3>2, QuietOrdered
  <2> QED
    BY <2>1, <2>2
<1>5. CASE Launch(w) \/ Observe(w)
  <2>1. wk'[w].pc \in {"initialize", "acquire"} /\ \A v \in Workers \ {w} : wk'[v] = wk[v]
    BY <1>5, LaunchGives
  <2>2. UNCHANGED <<control, artifact>> /\ wk[w].pc \in Early
    BY <1>5, ClassesAre DEF Launch, Observe, At, sidecarVars
  <2>3. Numbered(w)'
    BY <2>1, NumberedOff, StepsAre DEF Recovering, Located
  <2> QED
    BY <2>1, <2>2, <2>3, QuietOrdered
<1> QED
  BY <1>1, <1>2, <1>3, <1>4, <1>5

\* Other workers are not at work.
LEMMA OthersNumbered ==
    ASSUME Exclusive, NEW w \in Workers, wk[w].pc \in AtWork,
           \A v \in Workers \ {w} : wk'[v] = wk[v]
    PROVE  \A v \in Workers \ {w} : wk[v].pc \notin AtWork /\ Numbered(v)'
<1> SUFFICES ASSUME NEW v \in Workers \ {w} PROVE wk[v].pc \notin AtWork /\ Numbered(v)'
  OBVIOUS
<1>1. wk[v].pc \notin AtWork
  BY DEF Exclusive, Alone
<1>2. wk'[v].pc \notin {"wipe"} \cup Recovering \cup Located \cup Chosen
  BY <1>1, ClassesAre
<1> QED
  BY <1>1, <1>2, NumberedOff

\* Steps that change the worker and no record and no database.
LEMMA LearnOrdered ==
    ASSUME Kernel, Ordered, NEW w \in Workers, Recover(w) \/ MakePlans(w) \/ Prepare(w)
    PROVE  Ordered'
<1>0. /\ TypeInv /\ Exclusive /\ UNCHANGED <<control, artifact>> /\ ActivePath' = ActivePath
      /\ wk[w].pc \in Early /\ control.gen \in Nat /\ Numbered(w) /\ RecordsFit
  BY ClassesAre, ControlTyped
     DEF Kernel, Recover, MakePlans, Prepare, At, sidecarVars, ActivePath, Ordered
<1>1. CASE Recover(w)
  <2> DEFINE latest == IF control.staging = None THEN 0 ELSE LatestValid(artifact[control.staging])
             found == latest > control.gen /\ staged
  <2>1. /\ ~found => wk'[w].pc \in {"interrupt", "discard", "admit"}
        /\ found => wk'[w].pc \in Recovering
        /\ wk'[w].gen = IF found THEN latest ELSE control.gen
        /\ wk'[w].read = control
        /\ \A v \in Workers \ {w} : wk'[v] = wk[v]
    BY <1>0, <1>1, RecoverGives DEF Recovering
  <2>2. found => control.staging # None /\ latest = control.gen + 1
    <3>1. SUFFICES ASSUME found PROVE control.staging # None /\ latest = control.gen + 1
      OBVIOUS
    <3>2. control.staging # None
      BY <1>0, <3>1
    <3>3. UpTo(artifact[control.staging], control.gen + 1)
      BY <1>0, <3>2 DEF RecordsFit
    <3>4. latest \in Generations /\ artifact[control.staging].gens[latest] = "valid"
      BY <1>0, <3>1, <3>2, LatestIs
    <3>5. latest <= control.gen + 1 /\ latest \in Nat
      BY <3>3, <3>4, ArtifactBounds DEF UpTo, Generations
    <3> QED
      BY <1>0, <3>1, <3>2, <3>5
  <2>3. Numbered(w)'
    <3>1. CASE found
      <4>1. /\ wk'[w].pc \in Recovering /\ wk'[w].gen = control.gen + 1 /\ wk'[w].read = control
            /\ control.staging # None
        BY <2>1, <2>2, <3>1
      <4>2. /\ wk'[w].pc \notin Located /\ wk'[w].pc \notin Chosen /\ wk'[w].pc \notin Built
            /\ wk'[w].pc # "wipe"
        BY <4>1, ClassesAre, StepsAre DEF Recovering, Located
      <4> QED
        BY <1>0, <4>1, <4>2 DEF Numbered
    <3>2. CASE ~found
      <4>1. wk'[w].pc \in {"interrupt", "discard", "admit"}
        BY <2>1, <3>2
      <4>2. wk'[w].pc \notin {"wipe"} \cup Recovering \cup Located \cup Chosen
        BY <4>1, StepsAre DEF Recovering, Located
      <4> QED
        BY <4>2, NumberedOff
    <3> QED
      BY <3>1, <3>2
  <2> QED
    BY <1>0, <2>1, <2>3, QuietOrdered
<1>2. CASE MakePlans(w)
  <2>1. /\ wk'[w].pc \in {"capture", "stage"} /\ wk'[w].path = ActivePath
        /\ \A v \in Workers \ {w} : wk'[v] = wk[v]
    BY <1>0, <1>2, MakePlansGives
  <2>2. wk'[w].pc \notin Recovering \cup Chosen \cup Built
    BY <2>1, ClassesAre, StepsAre DEF Recovering
  <2>3. Numbered(w)'
    BY <1>0, <2>1, <2>2 DEF Numbered
  <2> QED
    BY <1>0, <2>1, <2>3, QuietOrdered
<1>3. CASE Prepare(w)
  <2>1. /\ wk'[w].pc = "clone" /\ wk'[w].path = wk[w].path /\ wk'[w].gen = control.gen + 1
        /\ \A v \in Workers \ {w} : wk'[v] = wk[v]
    BY <1>0, <1>3, PrepareGives
  <2>2. wk'[w].pc \notin Recovering \cup Built /\ wk[w].pc \in Located
    BY <1>3, <2>1, ClassesAre DEF Recovering, Located, Prepare, At
  <2>3. Numbered(w)'
    BY <1>0, <2>1, <2>2 DEF Numbered
  <2> QED
    BY <1>0, <2>1, <2>3, QuietOrdered
<1> QED
  BY <1>1, <1>2, <1>3

\* A write of a database that makes no other generation valid than the next one.
LEMMA WriteOrdered ==
    ASSUME Kernel, Ordered, NEW w \in Workers, wk[w].pc \in AtWork,
           NEW path \in Paths \ {control.rollback}, NEW b,
           artifact' = [artifact EXCEPT ![path] = b], UNCHANGED control,
           \A g \in Generations : b.gens[g] = "valid" =>
               artifact[path].gens[g] = "valid" \/ g <= control.gen + 1,
           \A v \in Workers \ {w} : wk'[v] = wk[v],
           wk'[w].pc \in Early => wk[w].pc \in Early,
           Numbered(w)'
    PROVE  Ordered'
<1>0. RecordsFit /\ ActivePath' = ActivePath /\ ActivePath \in Paths
  BY ActivePathTyped DEF Ordered, ActivePath, Kernel
<1>1. \A p \in Paths \ {path} : artifact'[p] = artifact[p]
  BY DEF Kernel, TypeInv, Typed
<1>2. artifact'[path] = b
  BY DEF Kernel, TypeInv, Typed
<1>3. ASSUME NEW p \in Paths, UpTo(artifact[p], control.gen + 1)
      PROVE  UpTo(artifact'[p], control.gen + 1)
  BY <1>1, <1>2, <1>3 DEF UpTo
<1>4. control.rollback # None => artifact'[control.rollback] = artifact[control.rollback]
  BY <1>1, ControlTyped DEF Kernel
<1>5. control.staging # None => control.staging \in Paths
  BY ControlTyped DEF Kernel
<1>6. UpTo(artifact'[ActivePath], control.gen + 1)
  BY <1>0, <1>3 DEF RecordsFit
<1>7. control.staging # None => UpTo(artifact'[control.staging], control.gen + 1)
  BY <1>0, <1>3, <1>5 DEF RecordsFit
<1>8. \A v \in Workers : wk'[v].pc \in Early => v \notin {control.active, control.rollback, control.staging}
  BY <1>0 DEF RecordsFit
<1>9. RecordsFit'
  <2>1. control.rollback # None => UpTo(artifact'[control.rollback], control.rollbackGen + 1)
    BY <1>0, <1>4 DEF RecordsFit
  <2> QED
    BY <1>0, <1>6, <1>7, <1>8, <2>1 DEF RecordsFit
<1>10. \A v \in Workers : Numbered(v)'
  BY OthersNumbered DEF Kernel
<1> QED
  BY <1>9, <1>10 DEF Ordered

LEMMA WipeOrdered ==
    ASSUME Kernel, Ordered, NEW w \in Workers, Wipe(w)
    PROVE  Ordered'
<1> DEFINE b == EmptyArtifact
<1>1. /\ wk'[w].pc = "observe" /\ \A v \in Workers \ {w} : wk'[v] = wk[v]
      /\ wk[w].pc = "wipe" /\ UNCHANGED control
      /\ artifact' = [artifact EXCEPT ![Base] = b]
  BY GotoGives DEF Wipe, At, Kernel, sidecarVars
<1>2. /\ wk[w].pc \in AtWork /\ wk[w].pc \in Early
      /\ wk'[w].pc \notin {"wipe"} \cup Recovering \cup Located \cup Chosen
  BY <1>1, ClassesAre, WorkIs, StepsAre DEF Recovering, Located
<1>3. Numbered(w)'
  BY <1>2, NumberedOff
<1>4. Base \in Paths \ {control.rollback}
  <2>1. control.active = None
    BY <1>1 DEF Ordered, Numbered
  <2> QED
    BY <2>1, ControlTyped DEF Kernel, Ordered, RecordsFit
<1>5. \A g \in Generations : b.gens[g] # "valid"
  BY DEF EmptyArtifact
<1>6. \A g \in Generations : b.gens[g] = "valid" =>
               artifact[Base].gens[g] = "valid" \/ g <= control.gen + 1
  BY <1>5
<1>7. wk[w].pc \in AtWork /\ (wk'[w].pc \in Early => wk[w].pc \in Early)
  BY <1>2
<1>8. control' = control /\ artifact' = [artifact EXCEPT ![Base] = b]
  BY <1>1
<1>9. \A v \in Workers \ {w} : wk'[v] = wk[v]
  BY <1>1
<1> HIDE DEF b
<1> QED
  BY <1>3, <1>4, <1>6, <1>7, <1>8, <1>9, WriteOrdered

LEMMA RecoverRollupsOrdered ==
    ASSUME Kernel, Ordered, NEW w \in Workers, RecoverRollups(w)
    PROVE  Ordered'
<1> DEFINE path == wk[w].read.staging
           a == artifact[path]
           from == wk[w].read.gen
           b == IF RollupsReady(a, from) THEN AdvanceRollups(a, wk[w].gen, from)
                ELSE RebuildRollups(a, wk[w].gen)
<1>1. /\ wk[w].pc = "recoverRollups" /\ UNCHANGED control
      /\ artifact' = [artifact EXCEPT ![path] = b]
      /\ \E pc \in {"recoverBegin", "recoverPromote"} : Goto(w, pc)
  BY DEF RecoverRollups, At, sidecarVars
<1>2. /\ wk'[w].pc \in {"recoverBegin", "recoverPromote"} /\ \A v \in Workers \ {w} : wk'[v] = wk[v]
      /\ wk'[w].read = wk[w].read /\ wk'[w].gen = wk[w].gen
  BY <1>1, GotoGives DEF Kernel
<1>3. Numbered(w) /\ wk[w].pc \in AtWork /\ wk[w].pc \in Early /\ wk[w].pc \in Recovering
  BY <1>1, ClassesAre, WorkIs, StepsAre DEF Ordered, Recovering
<1>4. path = control.staging /\ control.staging # None /\ wk[w].gen = control.gen + 1
  BY <1>3 DEF Numbered
<1>5. path \in Paths \ {control.rollback} /\ a \in Artifact
  BY <1>4, ControlTyped DEF Kernel, Ordered, RecordsFit
<1>6. b.gens = a.gens
  <2> DEFINE g == wk[w].gen
  <2>0. a \in Artifact
    BY <1>5
  <2> HIDE DEF a, from, g
  <2>1. AdvanceRollups(a, g, from).gens = a.gens
    BY <2>0, RollsKeep
  <2>2. RebuildRollups(a, g).gens = a.gens
    BY <2>0, RollsKeep
  <2> QED
    BY <2>1, <2>2 DEF g
<1>7. \A g \in Generations : b.gens[g] = "valid" => artifact[path].gens[g] = "valid" \/ g <= control.gen + 1
  BY <1>6
<1>8. Numbered(w)'
  <2>1. /\ wk'[w].pc \notin Located /\ wk'[w].pc \notin Chosen /\ wk'[w].pc \notin Built
        /\ wk'[w].pc # "wipe"
    BY <1>2, ClassesAre, StepsAre DEF Located
  <2> QED
    BY <1>1, <1>2, <1>4, <2>1 DEF Numbered
<1>9. control' = control
  BY <1>1
<1> HIDE DEF b, path
<1> QED
  BY <1>1, <1>2, <1>3, <1>5, <1>7, <1>8, <1>9, WriteOrdered

LEMMA RecoverBeginOrdered ==
    ASSUME Kernel, Ordered, NEW w \in Workers, RecoverBegin(w)
    PROVE  Ordered'
<1>0. control \in Control /\ TypeInv
  BY DEF Kernel, TypeInv, Typed, RefreshControlTypeOK
<1>1. Goto(w, "recoverPromote") /\ wk[w].pc = "recoverBegin" /\ UNCHANGED artifact
  BY DEF RecoverBegin, At
<1>2. wk[w].read.staging = control.staging
  BY <1>1, StepsAre DEF Ordered, Numbered, Recovering
<1>3. /\ control'.active = control.active /\ control'.gen = control.gen
      /\ control'.staging = control.staging /\ control'.rollback = control.rollback
      /\ control'.rollbackGen = control.rollbackGen
  BY <1>0, <1>2 DEF RecoverBegin, BeginCutover, Control
<1> QED
  BY <1>0, <1>1, <1>3, GotoOrdered, ClassesAre, StepsAre DEF Recovering, Located

\* A publication keeps the record in order.
LEMMA PromotedOrdered ==
    ASSUME Kernel, Ordered, NEW w \in Workers, wk[w].pc \in AtWork, NEW path \in Paths,
           path # control.rollback, UpTo(artifact[path], control.gen + 1),
           path \in Workers => path = w \/ wk[path].pc \notin Early \/ path = control.staging \/ path = control.active,
           control' = Promoted(path, control.gen + 1), control.gen + 1 \in Generations, UNCHANGED artifact,
           \A v \in Workers \ {w} : wk'[v] = wk[v],
           wk'[w].pc \in Early => wk[w].pc \in Early /\ path # w,
           Numbered(w)'
    PROVE  Ordered'
<1>0. RecordsFit /\ control.gen \in Nat /\ control \in Control /\ None \notin Paths /\ path # None
  BY ControlTyped DEF Kernel, TypeInv, Typed, RefreshControlTypeOK, Ordered
<1> DEFINE moved == control.active # None /\ control.active # path
<1>1. /\ control'.active = path /\ control'.gen = control.gen + 1 /\ control'.staging = None
      /\ control'.rollback = (IF moved THEN control.active ELSE control.rollback)
      /\ control'.rollbackGen = (IF moved THEN control.gen ELSE control.rollbackGen)
  BY DEF Promoted
<1>2. ActivePath' = path
  BY <1>0, <1>1 DEF ActivePath
<1>3. UpTo(artifact'[path], control'.gen + 1)
  <2>1. \A g \in Generations : g \in Nat
    BY DEF Generations
  <2> QED
    BY <1>0, <1>1, <2>1 DEF UpTo
<1>4. control'.rollback # None =>
         /\ control'.active # None /\ control'.rollback # control'.active
         /\ control'.rollbackGen > 0 /\ UpTo(artifact'[control'.rollback], control'.rollbackGen + 1)
  <2>1. CASE moved
    <3>1. ActivePath = control.active /\ control.gen > 0
      BY <1>0, <2>1 DEF ActivePath, RecordsFit
    <3> QED
      BY <1>0, <1>1, <2>1, <3>1 DEF RecordsFit
  <2>2. CASE ~moved
    BY <1>0, <1>1, <2>2 DEF RecordsFit
  <2> QED
    BY <2>1, <2>2
<1>5. \A v \in Workers : wk'[v].pc \in Early => v \notin {control'.active, control'.rollback, control'.staging}
  <2> SUFFICES ASSUME NEW v \in Workers, wk'[v].pc \in Early
               PROVE  v \notin {control'.active, control'.rollback, control'.staging}
    OBVIOUS
  <2>1. wk[v].pc \in Early
    OBVIOUS
  <2>2. v \notin {control.active, control.rollback, control.staging}
    BY <1>0, <2>1 DEF RecordsFit
  <2>3. v # path
    BY <2>1, <2>2
  <2>4. v # None
    BY BaseAssumption
  <2> QED
    BY <1>1, <2>2, <2>3, <2>4
<1>6. RecordsFit'
  BY <1>0, <1>1, <1>2, <1>3, <1>4, <1>5 DEF RecordsFit
<1> QED
  BY <1>6, OthersNumbered DEF Ordered, Kernel

LEMMA RecoverPromoteOrdered ==
    ASSUME Kernel, Ordered, NEW w \in Workers, RecoverPromote(w)
    PROVE  Ordered'
<1>0. /\ wk[w].pc = "recoverPromote" /\ UNCHANGED artifact /\ TypeInv /\ RecordsFit
      /\ wk[w].pc \in AtWork /\ wk[w].pc \in Early
  BY ClassesAre, WorkIs, StepsAre DEF RecoverPromote, At, Kernel, Ordered
<1>1. /\ wk[w].read.staging = control.staging /\ control.staging # None
      /\ wk[w].gen = control.gen + 1
  BY <1>0 DEF Ordered, Numbered, Recovering
<1>2. CASE Goto(w, "failRun") /\ UNCHANGED control
  BY <1>0, <1>2, GotoOrdered, ClassesAre, StepsAre DEF Recovering, Located
<1>3. CASE /\ control' = Promoted(control.staging, control.gen + 1) /\ Goto(w, "admit")
           /\ artifact[control.staging].gens[control.gen + 1] = "valid"
  <2>1. wk'[w].pc = "admit" /\ \A v \in Workers \ {w} : wk'[v] = wk[v]
    BY <1>0, <1>3, GotoGives
  <2>2. Numbered(w)'
    BY <2>1, NumberedOff, StepsAre DEF Recovering, Located
  <2>3. control.staging \in Paths /\ control.gen \in Nat
    BY <1>0, <1>1, ControlTyped
  <2>4. wk[w].gen \in 0 .. MaxGeneration
    BY <1>0, WorkerTyped DEF WorkerState
  <2>5. control.gen + 1 \in Generations
    BY <1>1, <2>3, <2>4, ArtifactBounds DEF Generations
  <2>6. control.staging # control.rollback /\ UpTo(artifact[control.staging], control.gen + 1) /\ control.staging # w
    BY <1>0, <1>1 DEF RecordsFit
  <2> DEFINE path == control.staging
  <2>7. control' = Promoted(path, control.gen + 1)
    BY <1>3
  <2>8. path \in Paths /\ path # control.rollback /\ UpTo(artifact[path], control.gen + 1) /\ path # w
    BY <2>3, <2>6
  <2>9. path \in Workers => path = w \/ wk[path].pc \notin Early \/ path = control.staging \/ path = control.active
    OBVIOUS
  <2> HIDE DEF path
  <2> QED
    BY <1>0, <2>1, <2>2, <2>5, <2>7, <2>8, <2>9, PromotedOrdered
<1> QED
  BY <1>1, <1>2, <1>3 DEF RecoverPromote, Raise

LEMMA PromoteOrdered ==
    ASSUME Kernel, Ordered, NEW w \in Workers, Promote(w)
    PROVE  Ordered'
<1>0. /\ wk[w].pc = "promote" /\ UNCHANGED artifact /\ TypeInv /\ RecordsFit /\ Numbered(w)
      /\ wk[w].pc \in AtWork /\ wk[w].pc \in Built /\ wk[w].pc \in Chosen
  BY ClassesAre, WorkIs, StepsAre DEF Promote, At, Kernel, Ordered
<1>1. /\ wk[w].path \in {ActivePath, w} /\ w \notin {control.active, control.rollback}
      /\ wk[w].gen = control.gen + 1 /\ UpTo(artifact[wk[w].path], control.gen + 1)
  BY <1>0 DEF Numbered
<1>2. CASE Goto(w, "failRun") /\ UNCHANGED control
  BY <1>0, <1>2, GotoOrdered, ClassesAre, StepsAre DEF Recovering, Located
<1>3. CASE /\ control' = Promoted(wk[w].path, control.gen + 1) /\ Goto(w, "register")
  <2>1. wk'[w].pc = "register" /\ \A v \in Workers \ {w} : wk'[v] = wk[v]
    BY <1>0, <1>3, GotoGives
  <2>2. Numbered(w)' /\ wk'[w].pc \notin Early
    BY <2>1, NumberedOff, ClassesAre, StepsAre DEF Recovering, Located
  <2> DEFINE path == wk[w].path
  <2>3. path \in Paths /\ control.gen + 1 \in Generations
    BY <1>0, <1>1, ScopeIs, ClassesAre, StepsAre
  <2>4. path # control.rollback
    <3>1. ActivePath # control.rollback
      BY <1>0, ControlTyped DEF ActivePath, RecordsFit
    <3> QED
      BY <1>1, <3>1
  <2>5. path \in Workers => path = w \/ wk[path].pc \notin Early \/ path = control.staging \/ path = control.active
    <3>1. ActivePath \in Workers => ActivePath = control.active
      BY BaseAssumption DEF ActivePath
    <3> QED
      BY <1>1, <3>1
  <2>6. control' = Promoted(path, control.gen + 1) /\ UpTo(artifact[path], control.gen + 1)
    BY <1>1, <1>3
  <2> HIDE DEF path
  <2> QED
    BY <1>0, <2>1, <2>2, <2>3, <2>4, <2>5, <2>6, PromotedOrdered
<1> QED
  BY <1>1, <1>2, <1>3 DEF Promote, Raise

LEMMA CloneOrdered ==
    ASSUME Kernel, Ordered, NEW w \in Workers, Clone(w)
    PROVE  Ordered'
<1>0. /\ wk[w].pc = "clone" /\ TypeInv /\ RecordsFit /\ Numbered(w) /\ UNCHANGED control
      /\ wk[w].pc \in AtWork /\ wk[w].pc \in Early /\ wk[w].pc \in Chosen
      /\ ActivePath \in Paths /\ artifact \in [Paths -> Artifact] /\ w \in Paths
  BY ClassesAre, WorkIs, StepsAre, ActivePathTyped, ControlTyped
     DEF Clone, At, Kernel, Ordered, sidecarVars
<1>1. /\ wk[w].path = ActivePath /\ wk[w].gen = control.gen + 1
      /\ w \notin {control.active, control.rollback, control.staging}
      /\ UpTo(artifact[ActivePath], control.gen + 1)
  BY <1>0 DEF Numbered, RecordsFit, Located
<1>2. ActivePath # w
  BY <1>1, BaseAssumption DEF ActivePath
<1>3. PICK isolated \in BOOLEAN :
         /\ artifact' = IF isolated THEN [artifact EXCEPT ![w] = artifact[wk[w].path]] ELSE artifact
         /\ wk'[w].pc = "begin" /\ wk'[w].gen = wk[w].gen
         /\ wk'[w].path = IF isolated THEN w ELSE wk[w].path
         /\ \A v \in Workers \ {w} : wk'[v] = wk[v]
  BY <1>0, CloneGives
<1>4. /\ wk'[w].pc \notin Early /\ wk'[w].pc \notin Recovering /\ wk'[w].pc \notin Located
      /\ wk'[w].pc # "wipe"
  BY <1>3, ClassesAre, StepsAre DEF Recovering, Located
<1>5. ActivePath' = ActivePath
  BY <1>0 DEF ActivePath
<1>6. CASE isolated
  <2> DEFINE b == artifact[wk[w].path]
  <2>1. artifact' = [artifact EXCEPT ![w] = b] /\ wk'[w].path = w
    BY <1>3, <1>6
  <2>2. UpTo(b, control.gen + 1) /\ b = artifact[wk[w].path]
    BY <1>1
  <2> HIDE DEF b
  <2>3. artifact'[w] = b
    BY <1>0, <2>1
  <2>4. Numbered(w)'
    BY <1>0, <1>1, <1>3, <1>4, <1>5, <2>1, <2>2, <2>3 DEF Numbered
  <2>5. \A g \in Generations : b.gens[g] = "valid" => artifact[w].gens[g] = "valid" \/ g <= control.gen + 1
    BY <2>2 DEF UpTo
  <2>6. w \in Paths \ {control.rollback}
    BY <1>0, <1>1
  <2> QED
    BY <1>0, <1>3, <1>4, <2>1, <2>4, <2>5, <2>6, WriteOrdered
<1>7. CASE ~isolated
  <2>1. UNCHANGED artifact /\ wk'[w].path = ActivePath
    BY <1>1, <1>3, <1>7
  <2>2. Numbered(w)'
    BY <1>0, <1>1, <1>3, <1>4, <1>5, <2>1 DEF Numbered
  <2> QED
    BY <1>0, <1>3, <1>4, <2>1, <2>2, QuietOrdered
<1> QED
  BY <1>6, <1>7

LEMMA BeginOrdered ==
    ASSUME Kernel, Ordered, NEW w \in Workers, Begin(w)
    PROVE  Ordered'
<1>0. /\ wk[w].pc = "begin" /\ TypeInv /\ RecordsFit /\ Numbered(w) /\ UNCHANGED artifact
      /\ wk[w].pc \in AtWork /\ wk[w].pc \in Built /\ wk[w].pc \in Chosen
      /\ control \in Control
  BY ClassesAre, WorkIs, StepsAre
     DEF Begin, At, Kernel, Ordered, TypeInv, Typed, RefreshControlTypeOK
<1>1. /\ wk[w].path \in {ActivePath, w} /\ w \notin {control.active, control.rollback}
      /\ wk[w].gen = control.gen + 1 /\ UpTo(artifact[wk[w].path], control.gen + 1)
  BY <1>0 DEF Numbered
<1>2. /\ wk'[w].pc \in {"batch", "open"} /\ wk'[w].path = wk[w].path /\ wk'[w].gen = wk[w].gen
      /\ \A v \in Workers \ {w} : wk'[v] = wk[v]
  BY <1>0, BeginGives
<1>3. /\ wk'[w].pc \notin Early /\ wk'[w].pc \notin Recovering /\ wk'[w].pc \notin Located
      /\ wk'[w].pc # "wipe"
  BY <1>2, ClassesAre, StepsAre DEF Recovering, Located
<1>4. /\ control'.active = control.active /\ control'.gen = control.gen
      /\ control'.rollback = control.rollback /\ control'.rollbackGen = control.rollbackGen
      /\ control'.staging \in {control.staging, wk[w].path}
  BY <1>0 DEF Begin, BeginCutover, Control
<1>5. ActivePath' = ActivePath /\ ActivePath # control.rollback
  BY <1>0, <1>4, ControlTyped DEF ActivePath, RecordsFit
<1>6. Numbered(w)'
  BY <1>0, <1>1, <1>2, <1>3, <1>4, <1>5 DEF Numbered
<1>7. RecordsFit'
  <2>1. control'.staging # None => /\ control'.staging # control.rollback
                                   /\ UpTo(artifact[control'.staging], control.gen + 1)
    BY <1>0, <1>1, <1>4, <1>5 DEF RecordsFit
  <2>2. ASSUME NEW v \in Workers, wk'[v].pc \in Early
        PROVE  v \notin {control.active, control.rollback, control'.staging}
    <3>1. v # w /\ wk[v].pc \in Early
      BY <1>2, <1>3, <2>2
    <3>2. v \notin {control.active, control.rollback, control.staging}
      BY <1>0, <3>1 DEF RecordsFit
    <3>3. v # ActivePath
      BY <3>2, BaseAssumption DEF ActivePath
    <3> QED
      BY <1>1, <1>4, <3>1, <3>2, <3>3
  <2> QED
    BY <1>0, <1>4, <1>5, <2>1, <2>2 DEF RecordsFit
<1> QED
  BY <1>0, <1>2, <1>6, <1>7, OthersNumbered DEF Ordered, Kernel

\* A commit of a build.
LEMMA BuildWriteOrdered ==
    ASSUME Kernel, Ordered, NEW w \in Workers, wk[w].pc \in Built, NEW b \in Artifact,
           artifact' = [artifact EXCEPT ![wk[w].path] = b], UNCHANGED control,
           \A g \in Generations \ {wk[w].gen} : b.gens[g] = artifact[wk[w].path].gens[g],
           wk'[w].pc \in Built, wk'[w].path = wk[w].path, wk'[w].gen = wk[w].gen,
           \A v \in Workers \ {w} : wk'[v] = wk[v]
    PROVE  Ordered'
<1>0. /\ TypeInv /\ RecordsFit /\ Numbered(w)
      /\ wk[w].pc \in AtWork /\ wk[w].pc \in Chosen /\ wk[w].pc \in Pathed
      /\ wk'[w].pc \in Chosen /\ wk'[w].pc \notin Early /\ wk'[w].pc \notin Recovering
      /\ wk'[w].pc \notin Located /\ wk'[w].pc # "wipe"
  BY ClassesAre, StepsAre DEF Kernel, Ordered, Recovering, Located
<1>1. /\ wk[w].path \in {ActivePath, w} /\ w \notin {control.active, control.rollback}
      /\ wk[w].gen = control.gen + 1 /\ UpTo(artifact[wk[w].path], control.gen + 1)
  BY <1>0 DEF Numbered
<1>2. ActivePath' = ActivePath /\ ActivePath # control.rollback
  BY <1>0, ControlTyped DEF ActivePath, RecordsFit
<1>3. wk[w].path \in Paths \ {control.rollback}
  BY <1>0, <1>1, <1>2, ScopeIs
<1>4. UpTo(b, control.gen + 1)
  <2>1. control.gen \in Nat
    BY <1>0, ControlTyped
  <2> QED
    BY <1>1, <2>1 DEF UpTo
<1>5. artifact'[wk[w].path] = b
  BY <1>0, <1>3, ControlTyped
<1>6. Numbered(w)'
  BY <1>0, <1>1, <1>2, <1>4, <1>5 DEF Numbered
<1>7. \A g \in Generations : b.gens[g] = "valid" =>
          artifact[wk[w].path].gens[g] = "valid" \/ g <= control.gen + 1
  BY <1>4 DEF UpTo
<1> DEFINE path == wk[w].path
<1>8. /\ path \in Paths \ {control.rollback} /\ artifact' = [artifact EXCEPT ![path] = b]
      /\ \A g \in Generations : b.gens[g] = "valid" =>
            artifact[path].gens[g] = "valid" \/ g <= control.gen + 1
  BY <1>3, <1>7
<1> HIDE DEF path
<1> QED
  BY <1>0, <1>6, <1>8, WriteOrdered

LEMMA CommitOrdered ==
    ASSUME Kernel, Ordered, NEW w \in Workers, wk[w].pc \in Built, NEW b \in Artifact, NEW pc \in Built, NEW todo,
           Commit(w, b, [wk[w] EXCEPT !.pc = pc, !.todo = todo]), UNCHANGED control,
           \A g \in Generations \ {wk[w].gen} : b.gens[g] = artifact[wk[w].path].gens[g]
    PROVE  Ordered'
<1>1. /\ artifact' = [artifact EXCEPT ![wk[w].path] = b] /\ wk'[w].pc = pc
      /\ wk'[w].path = wk[w].path /\ wk'[w].gen = wk[w].gen
      /\ \A v \in Workers \ {w} : wk'[v] = wk[v]
  <2>1. TypeInv /\ wk[w] \in WorkerState
    BY WorkerTyped DEF Kernel
  <2>2. /\ wk'[w] = [[wk[w] EXCEPT !.pc = pc, !.todo = todo] EXCEPT !.fenced = FALSE]
        /\ \A v \in Workers \ {w} : wk'[v] = wk[v]
    BY <2>1, BecomesGives DEF Commit
  <2> QED
    BY <2>1, <2>2 DEF WorkerState, Commit
<1>2. wk'[w].pc \in Built
  BY <1>1
<1> QED
  BY <1>1, <1>2, BuildWriteOrdered

\* A build is written to a database that is there.
LEMMA WrittenIs ==
    ASSUME TypeInv, NEW w \in Workers, wk[w].pc \in Built
    PROVE  /\ Written(w) \in Artifact /\ Written(w) = artifact[wk[w].path]
           /\ wk[w].gen \in Generations /\ wk[w].plans \in SUBSET Plan /\ wk[w].todo \in SUBSET Plan
           /\ wk[w].path \in Paths
<1>1. wk[w].pc \in Chosen /\ wk[w].pc \in Pathed
  BY ClassesAre, StepsAre
<1>2. wk[w].path \in Paths /\ wk[w].gen \in Generations
  BY <1>1, ScopeIs
<1>3. wk[w] \in WorkerState
  BY WorkerTyped
<1> QED
  BY <1>2, <1>3 DEF Written, TypeInv, Typed, WorkerState

LEMMA OpenOrdered ==
    ASSUME Kernel, Ordered, NEW w \in Workers, Open(w)
    PROVE  Ordered'
<1> DEFINE b == OpenRefresh(Written(w), wk[w].plans, wk[w].gen)
           pc == IF wk[w].plans = {} THEN "seal" ELSE "facts"
           todo == wk[w].plans
<1>1. TypeInv /\ wk[w].pc \in Built /\ pc \in Built /\ UNCHANGED control
  BY ClassesAre DEF Open, At, Kernel, sidecarVars
<1>2. Commit(w, b, [wk[w] EXCEPT !.pc = pc, !.todo = todo])
  BY DEF Open
<1>3. b \in Artifact
  BY <1>1, WrittenIs, OpenTyped
<1>4. \A g \in Generations \ {wk[w].gen} : b.gens[g] = Written(w).gens[g]
  <2>1. IsOpened(Written(w), b, todo, wk[w].gen)
    BY <1>1, WrittenIs, OpenGives
  <2> HIDE DEF b, todo
  <2> QED
    BY <2>1 DEF IsOpened
<1>5. \A g \in Generations \ {wk[w].gen} : b.gens[g] = artifact[wk[w].path].gens[g]
  BY <1>1, <1>4, WrittenIs
<1> HIDE DEF b, pc, todo
<1> QED
  BY <1>1, <1>2, <1>3, <1>5, CommitOrdered

LEMMA FactsOrdered ==
    ASSUME Kernel, Ordered, NEW w \in Workers, Facts(w)
    PROVE  Ordered'
<1>1. /\ TypeInv /\ wk[w].pc \in Built /\ wk[w].pc = "facts" /\ UNCHANGED control
      /\ "facts" \in Built /\ "seal" \in Built
  BY ClassesAre DEF Facts, At, Kernel, sidecarVars
<1>2. PICK plan \in wk[w].todo :
         \/ Commit(w, InsertFacts(Written(w), plan, wk[w].gen),
                   [wk[w] EXCEPT !.pc = IF wk[w].todo \ {plan} = {} THEN "seal" ELSE wk[w].pc,
                                 !.todo = wk[w].todo \ {plan}])
         \/ Raise(w) /\ UNCHANGED artifact
  BY DEF Facts
<1>3. CASE Raise(w) /\ UNCHANGED artifact
  BY <1>1, <1>3, GotoOrdered, ClassesAre, StepsAre DEF Raise, Recovering, Located
<1>4. CASE Commit(w, InsertFacts(Written(w), plan, wk[w].gen),
                   [wk[w] EXCEPT !.pc = IF wk[w].todo \ {plan} = {} THEN "seal" ELSE wk[w].pc,
                                 !.todo = wk[w].todo \ {plan}])
  <2> DEFINE b == InsertFacts(Written(w), plan, wk[w].gen)
             todo == wk[w].todo \ {plan}
             pc == IF todo = {} THEN "seal" ELSE wk[w].pc
  <2>1. Commit(w, b, [wk[w] EXCEPT !.pc = pc, !.todo = todo])
    BY <1>4
  <2>2. b \in Artifact /\ b.gens = Written(w).gens
    <3>1. plan \in Plan
      BY <1>1, <1>2, WrittenIs
    <3> QED
      <4>1. b \in Artifact /\ IsInserted(Written(w), b, plan, wk[w].gen)
        BY <1>1, <3>1, WrittenIs, InsertTyped, InsertGives
      <4> HIDE DEF b
      <4> QED
        BY <4>1 DEF IsInserted
  <2>3. \A g \in Generations \ {wk[w].gen} : b.gens[g] = artifact[wk[w].path].gens[g]
    BY <1>1, <2>2, WrittenIs
  <2>4. pc \in Built
    BY <1>1
  <2> HIDE DEF b, pc, todo
  <2> QED
    BY <1>1, <2>1, <2>2, <2>3, <2>4, CommitOrdered
<1> QED
  BY <1>2, <1>3, <1>4

LEMMA SealOrdered ==
    ASSUME Kernel, Ordered, NEW w \in Workers, Seal(w) \/ Finalize(w)
    PROVE  Ordered'
<1> DEFINE todo == wk[w].todo
           pc == "catchUp"
<1>1. TypeInv /\ wk[w].pc \in Built /\ pc \in Built /\ UNCHANGED control
  BY ClassesAre DEF Seal, Finalize, At, Kernel, sidecarVars
<1>2. wk[w] \in WorkerState
  BY <1>1, WorkerTyped
<1>3. [wk[w] EXCEPT !.pc = pc] = [wk[w] EXCEPT !.pc = pc, !.todo = todo]
  BY <1>2 DEF WorkerState
<1>4. PICK plans \in SUBSET Plan :
        Commit(w, SealRefresh(Written(w), plans, wk[w].gen), [wk[w] EXCEPT !.pc = pc])
  BY <1>1, WrittenIs DEF Seal, Finalize
<1> DEFINE b == SealRefresh(Written(w), plans, wk[w].gen)
<1>5. Commit(w, b, [wk[w] EXCEPT !.pc = pc, !.todo = todo])
  BY <1>3, <1>4
<1>6. b \in Artifact
  BY <1>1, WrittenIs, SealTyped
<1>7. \A g \in Generations \ {wk[w].gen} : b.gens[g] = Written(w).gens[g]
  <2> DEFINE a == Written(w)
             n == wk[w].gen
  <2>1. a \in Artifact /\ plans \in SUBSET Plan
    BY <1>1, <1>4, WrittenIs
  <2>2. IsSealed(a, b, plans, n)
    BY <2>1, SealGives
  <2> HIDE DEF b
  <2> QED
    BY <2>2 DEF IsSealed, a, n
<1>8. \A g \in Generations \ {wk[w].gen} : b.gens[g] = artifact[wk[w].path].gens[g]
  BY <1>1, <1>7, WrittenIs
<1> HIDE DEF b, pc, todo
<1> QED
  BY <1>1, <1>5, <1>6, <1>8, CommitOrdered

LEMMA BatchOrdered ==
    ASSUME Kernel, Ordered, NEW w \in Workers, Batch(w)
    PROVE  Ordered'
<1>1. /\ TypeInv /\ wk[w].pc \in Built /\ wk[w].pc = "batch" /\ UNCHANGED control
      /\ "batch" \in Built /\ "finalize" \in Built
  BY ClassesAre DEF Batch, At, Kernel, sidecarVars
<1>2. PICK plan \in wk[w].todo :
         \/ Commit(w, CommitBatch(Written(w), Parsed(plan, file[plan.obs.id[1]]), wk[w].gen,
                                  wk[w].todo = wk[w].plans),
                   [wk[w] EXCEPT !.pc = IF wk[w].todo \ {plan} = {} THEN "finalize" ELSE wk[w].pc,
                                 !.todo = wk[w].todo \ {plan}])
         \/ Raise(w) /\ UNCHANGED artifact
  BY DEF Batch
<1>3. CASE Raise(w) /\ UNCHANGED artifact
  BY <1>1, <1>3, GotoOrdered, ClassesAre, StepsAre DEF Raise, Recovering, Located
<1>4. CASE Commit(w, CommitBatch(Written(w), Parsed(plan, file[plan.obs.id[1]]), wk[w].gen,
                                 wk[w].todo = wk[w].plans),
                   [wk[w] EXCEPT !.pc = IF wk[w].todo \ {plan} = {} THEN "finalize" ELSE wk[w].pc,
                                 !.todo = wk[w].todo \ {plan}])
  <2> DEFINE read == Parsed(plan, file[plan.obs.id[1]])
             first == wk[w].todo = wk[w].plans
             a == Written(w)
             n == wk[w].gen
             b == CommitBatch(a, read, n, first)
             todo == wk[w].todo \ {plan}
             pc == IF todo = {} THEN "finalize" ELSE wk[w].pc
  <2>1. Commit(w, b, [wk[w] EXCEPT !.pc = pc, !.todo = todo])
    BY <1>4
  <2>2. read \in Plan
    <3>1. plan \in Plan /\ file[plan.obs.id[1]] # None /\ plan.obs.id[1] \in Sources
      BY <1>1, <1>2, ScopeIs
    <3>2. file[plan.obs.id[1]] \in Observation
      BY <1>1, <3>1 DEF TypeInv, Typed
    <3> QED
      BY <3>1, <3>2, ParsedTyped
  <2>3. a \in Artifact /\ n \in Generations /\ first \in BOOLEAN /\ a = artifact[wk[w].path] /\ n = wk[w].gen
    BY <1>1, WrittenIs
  <2>4. pc \in Built
    BY <1>1
  <2> HIDE DEF read, pc, todo, first, a, n
  <2>5. b \in Artifact
    BY <2>2, <2>3, BatchTyped
  <2>6. \A h \in Generations \ {n} : b.gens[h] = a.gens[h]
    <3>1. IsBatched(a, b, read, n, first)
      BY <2>2, <2>3, BatchGives
    <3> HIDE DEF b
    <3> QED
      BY <3>1 DEF IsBatched
  <2>7. \A h \in Generations \ {wk[w].gen} : b.gens[h] = artifact[wk[w].path].gens[h]
    BY <2>3, <2>6
  <2> HIDE DEF b
  <2> QED
    BY <1>1, <2>1, <2>4, <2>5, <2>7, CommitOrdered
<1> QED
  BY <1>2, <1>3, <1>4

LEMMA RollupOrdered ==
    ASSUME Kernel, Ordered, NEW w \in Workers, Rollup(w)
    PROVE  Ordered'
<1>1. /\ TypeInv /\ wk[w].pc \in Built /\ wk[w].pc = "rollup" /\ UNCHANGED control
      /\ "promote" \in Built
  BY ClassesAre DEF Rollup, At, Kernel, sidecarVars
<1>2. CASE Goto(w, "failRun") /\ UNCHANGED artifact
  BY <1>1, <1>2, GotoOrdered, ClassesAre, StepsAre DEF Raise, Recovering, Located
<1>3. CASE /\ artifact' = [artifact EXCEPT ![wk[w].path] = RolledUp(w)]
           /\ wk'[w].pc = "promote" /\ wk'[w].gen = wk[w].gen /\ wk'[w].path = wk[w].path
           /\ \A v \in Workers \ {w} : wk'[v] = wk[v]
           /\ ~(wk[w].prior > 0 /\ wk[w].incremental /\ Written(w).roll[wk[w].prior] = None)
  <2> DEFINE b == RolledUp(w)
             a == Written(w)
             g == wk[w].gen
             from == wk[w].prior
  <2>1. a \in Artifact /\ g \in Generations /\ a = artifact[wk[w].path]
    BY <1>1, WrittenIs
  <2>2. from \in 0 .. MaxGeneration
    BY <1>1, WorkerTyped DEF WorkerState
  <2>3. b = IF from > 0 /\ wk[w].incremental THEN AdvanceRollups(a, g, from) ELSE RebuildRollups(a, g)
    BY DEF RolledUp
  <2>4. from > 0 /\ wk[w].incremental => from \in Generations /\ a.roll[from] # None
    BY <1>3, <2>2, ArtifactBounds DEF Generations
  <2> HIDE DEF a, g, from, b
  <2>5. b \in Artifact
    <3>1. CASE from > 0 /\ wk[w].incremental
      BY <2>1, <2>3, <2>4, <3>1, AdvanceTyped
    <3>2. CASE ~(from > 0 /\ wk[w].incremental)
      BY <2>1, <2>3, <3>2, RebuildTyped
    <3> QED
      BY <3>1, <3>2
  <2>6. b.gens = a.gens
    BY <2>1, <2>3, RollsKeep
  <2>7. \A h \in Generations \ {wk[w].gen} : b.gens[h] = artifact[wk[w].path].gens[h]
    BY <2>1, <2>6
  <2>8. artifact' = [artifact EXCEPT ![wk[w].path] = b] /\ wk'[w].pc \in Built
    BY <1>1, <1>3 DEF b
  <2> QED
    BY <1>1, <1>3, <2>5, <2>7, <2>8, BuildWriteOrdered
<1> QED
  BY <1>1, <1>2, <1>3, RollupGives

\* The database of a first publication.
LEMMA PublishedGives ==
    ASSUME file \in [Sources -> Observation \cup {None}], 1 \in Generations
    PROVE  LET b == PublishedBuild
           IN  /\ b \in Artifact /\ b.facts = PublishedFacts
               /\ \A h \in Generations \ {1} : b.gens[h] = "absent" /\ b.roll[h] = None
               /\ b.gens[1] = "valid" /\ b.roll[1] = VisibleLines(b, 1)
               /\ \A i \in SourceIds : b.rows[i] = IF i \in IdsOf(PublishedPlans)
                                                   THEN Recorded(PublishedPlans, i) ELSE None
<1> DEFINE plans == PublishedPlans
           new == PublishedFacts
           o == OpenRefresh(EmptyArtifact, plans, 1)
           states == PublishedStates
           f == [o EXCEPT !.facts = new, !.states = states]
           s == SealRefresh(f, plans, 1)
           b == RebuildRollups(s, 1)
<1>1. /\ plans \in SUBSET Plan /\ new \in SUBSET Fact /\ EmptyArtifact \in Artifact
      /\ states \in SUBSET State
  BY PublishedTyped, EmptyTyped, StatesTyped DEF PublishedStates
<1>2. /\ \A h \in Generations : EmptyArtifact.gens[h] = "absent" /\ EmptyArtifact.roll[h] = None
      /\ \A i \in SourceIds : EmptyArtifact.rows[i] = None
  BY DEF EmptyArtifact
<1>3. Fresh(plans) = plans /\ ReplacedIds(plans) = {}
  <2>1. \A p \in plans : p.prior = None
    BY DEF PublishedPlans
  <2> QED
    BY <2>1 DEF Fresh, ReplacedIds
<1> DEFINE e == EmptyArtifact
<1> HIDE DEF plans, new, states, e
<1>4. e \in Artifact /\ o \in Artifact
  BY <1>1, OpenTyped DEF e
<1>5. IsOpened(e, o, plans, 1)
  <2>1. OpenRefresh(e, plans, 1) = o
    BY DEF e
  <2> QED
    BY <1>4, <2>1, OpenGives
<1> HIDE DEF o
<1>6. f \in Artifact /\ f.gens = o.gens /\ f.roll = o.roll /\ f.rows = o.rows /\ f.facts = new
  BY <1>1, <1>4 DEF Artifact
<1> HIDE DEF f
<1>7. s \in Artifact /\ IsSealed(f, s, plans, 1)
  BY <1>1, <1>6, SealTyped, SealGives
<1> HIDE DEF s
<1>8. b \in Artifact /\ IsRolled(s, b, 1, VisibleLines(s, 1))
  BY <1>7, RebuildTyped, RebuildGives
<1> HIDE DEF b
<1>9. VisibleLines(b, 1) = VisibleLines(s, 1)
  BY <1>8 DEF VisibleLines, IsRolled
<1>10. /\ \A h \in Generations \ {1} : b.gens[h] = "absent" /\ b.roll[h] = None
       /\ b.gens[1] = "valid" /\ b.roll[1] = VisibleLines(b, 1) /\ b.facts = new /\ b \in Artifact
  <2>1. \A h \in Generations \ {1} : b.gens[h] = "absent" /\ b.roll[h] = None
    BY <1>2, <1>5, <1>6, <1>7, <1>8 DEF e, IsOpened, IsSealed, IsRolled
  <2>2. b.gens[1] = "valid"
    BY <1>5, <1>6, <1>7, <1>8 DEF IsOpened, IsSealed, IsRolled
  <2> QED
    BY <1>6, <1>7, <1>8, <1>9, <2>1, <2>2 DEF IsSealed, IsRolled
<1>11. \A i \in SourceIds : b.rows[i] = IF i \in IdsOf(plans) THEN Recorded(plans, i) ELSE None
  BY <1>2, <1>3, <1>5, <1>6, <1>7, <1>8 DEF e, IsOpened, IsSealed, IsRolled
<1>12. b = PublishedBuild
  BY DEF b, s, f, o, plans, new, states, PublishedBuild
<1> QED
  BY <1>10, <1>11, <1>12 DEF plans, new

LEMMA OrderedInit ==
    ASSUME Init
    PROVE  Ordered
<1>0. TypeInv /\ \A w \in Workers : wk[w].pc = "idle"
  BY TypeInit DEF Init, IdleWorker
<1>1. \A w \in Workers : Numbered(w)
  BY <1>0, ClassesAre, StepsAre DEF Numbered, Recovering, Located
<1>2. UpTo(EmptyArtifact, control.gen + 1)
  BY DEF UpTo, EmptyArtifact
<1>3. CASE EmptyInit
  <2>1. /\ control.active = None /\ control.gen = 0 /\ control.rollback = None /\ control.staging = None
        /\ ActivePath = Base /\ artifact[Base] = EmptyArtifact
    BY <1>3 DEF EmptyInit, NoControl, ActivePath, Paths
  <2>2. \A w \in Workers : w # None
    BY BaseAssumption
  <2>3. RecordsFit
    BY <1>2, <2>1, <2>2 DEF RecordsFit
  <2> QED
    BY <1>1, <2>3 DEF Ordered
<1>4. CASE "published" \in Starts /\ PublishedInit
  <2>0. 1 \in Generations /\ file \in [Sources -> Observation \cup {None}]
    BY <1>0, <1>4, RefreshRegime DEF TypeInv, Typed
  <2>1. /\ control.active = Base /\ control.gen = 1 /\ control.rollback = None /\ control.staging = None
    BY <1>4, PublishedIs DEF NoControl
  <2>2. \A w \in Workers : w # None /\ w # Base
    BY BaseAssumption
  <2>3. ActivePath = Base /\ artifact[Base] = PublishedBuild /\ Base # None
    BY <1>4, <2>1, PublishedIs, BaseAssumption DEF ActivePath, Paths
  <2>4. UpTo(artifact[ActivePath], control.gen + 1)
    <3>1. \A h \in Generations : PublishedBuild.gens[h] = "valid" => h = 1
      BY <2>0, PublishedGives
    <3> QED
      BY <2>1, <2>3, <3>1 DEF UpTo
  <2>5. RecordsFit
    BY <2>1, <2>2, <2>3, <2>4 DEF RecordsFit
  <2> QED
    BY <1>1, <2>5 DEF Ordered
<1> QED
  BY <1>3, <1>4 DEF Init

\* A rollback finds nobody at work.
LEMMA RollbackQuiet ==
    ASSUME Attended, TypeInv, Rollback
    PROVE  \A w \in Workers : wk[w].pc \notin Live /\ wk[w].pc \notin AtWork
<1>1. world.mid \subseteq {"append", "appear"}
  BY DEF Attended, TypeInv, Typed
<1>2. \A w \in Workers : wk[w].pc \notin Live
  BY <1>1 DEF Rollback, MayChange
<1> QED
  BY <1>2 DEF AtWork, Live, Handling

LEMMA RollbackOrdered ==
    ASSUME Attended, Kernel, Ordered, Rollback
    PROVE  Ordered'
<1>0. /\ TypeInv /\ RecordsFit /\ control.rollback # None /\ wk' = wk /\ artifact' = artifact
      /\ control.active # None /\ control.gen \in Nat
  BY ControlTyped DEF Kernel, Ordered, Rollback, RecordsFit
<1>1. /\ control'.active = control.rollback /\ control'.gen = control.rollbackGen
      /\ control'.staging = None /\ control'.rollback = control.active
      /\ control'.rollbackGen = control.gen
  BY DEF Rollback, RolledBack
<1>2. ActivePath = control.active /\ ActivePath' = control.rollback
  BY <1>0, <1>1 DEF ActivePath
<1>3. \A w \in Workers : w # None
  BY BaseAssumption
<1>4. RecordsFit'
  BY <1>0, <1>1, <1>2, <1>3 DEF RecordsFit, UpTo
<1>5. \A w \in Workers : Numbered(w)'
  <2>1. \A w \in Workers : wk'[w].pc \notin {"wipe"} \cup Recovering \cup Located \cup Chosen
    BY <1>0, RollbackQuiet, ClassesAre
  <2> QED
    BY <2>1, NumberedOff
<1> QED
  BY <1>4, <1>5 DEF Ordered

LEMMA RestOrdered ==
    ASSUME Kernel, Ordered, UNCHANGED <<control, artifact, wk>>
    PROVE  Ordered'
BY DEF Ordered, RecordsFit, Numbered, UpTo, ActivePath

LEMMA OrderedSteps ==
    ASSUME Attended, Kernel, Ordered, [Next]_vars
    PROVE  Ordered'
<1>0. TypeInv
  BY DEF Kernel
<1>1. ASSUME NEW w \in Workers, Step(w) \/ Fault(w) \/ Crash(w) PROVE Ordered'
  <2>1. CASE \/ Initialize(w) \/ Interrupt(w) \/ Discard(w) \/ Admit(w) \/ Stage(w) \/ Catalog(w)
             \/ Capture(w) \/ Register(w) \/ Complete(w) \/ FailRun(w) \/ Blame(w) \/ Condemn(w)
             \/ Fault(w) \/ Crash(w) \/ Acquire(w) \/ CatchUp(w) \/ Replan(w) \/ Fence(w)
             \/ Launch(w) \/ Observe(w)
    BY <1>0, <2>1, SimpleOrdered
  <2>2. CASE Recover(w) \/ MakePlans(w) \/ Prepare(w)
    BY <2>2, LearnOrdered
  <2>3. CASE Wipe(w) \/ RecoverRollups(w) \/ RecoverBegin(w) \/ RecoverPromote(w)
    BY <2>3, WipeOrdered, RecoverRollupsOrdered, RecoverBeginOrdered, RecoverPromoteOrdered
  <2>4. CASE Clone(w) \/ Begin(w) \/ Open(w) \/ Facts(w) \/ Seal(w) \/ Finalize(w)
    BY <2>4, CloneOrdered, BeginOrdered, OpenOrdered, FactsOrdered, SealOrdered
  <2>5. CASE Batch(w) \/ Rollup(w) \/ Promote(w)
    BY <2>5, BatchOrdered, RollupOrdered, PromoteOrdered
  <2> QED
    BY <1>1, <2>1, <2>2, <2>3, <2>4, <2>5 DEF Step
<1>2. ASSUME NEW w \in Workers, LeaseExpires(w) \/ Heartbeat(w) PROVE Ordered'
  BY <1>2, RestOrdered DEF LeaseExpires, Heartbeat
<1>3. ASSUME NEW s \in Sources, ChangeFile(s) PROVE Ordered'
  BY <1>3, RestOrdered DEF ChangeFile, sidecarVars
<1>4. CASE UNCHANGED vars
  BY <1>4, RestOrdered DEF vars, sidecarVars
<1> QED
  BY <1>1, <1>2, <1>3, <1>4, RollbackOrdered DEF Next

\* Which steps move the published generation.
LEMMA GenerationMoves ==
    ASSUME Kernel, Ordered, [Next]_vars
    PROVE  \/ control'.gen = control.gen /\ control'.active = control.active
           \/ /\ control'.gen = control.gen + 1
              /\ \E w \in Workers : RecoverPromote(w) \/ Promote(w)
           \/ Rollback /\ rollbacks' = rollbacks + 1
<1>0. TypeInv /\ control \in Control
  BY DEF Kernel, TypeInv, Typed, RefreshControlTypeOK
<1>1. ASSUME NEW w \in Workers, Step(w) \/ Fault(w) \/ Crash(w), ~RecoverPromote(w), ~Promote(w)
      PROVE  control'.gen = control.gen /\ control'.active = control.active
  <2>1. CASE Begin(w) \/ RecoverBegin(w)
    BY <1>0, <2>1 DEF Begin, RecoverBegin, BeginCutover, Control
  <2>2. CASE Interrupt(w) \/ Condemn(w)
    BY <1>0, <2>2 DEF Interrupt, Condemn, FailCutover, Control
  <2>3. CASE UNCHANGED control
    BY <2>3
  <2>4. CASE \/ Launch(w) \/ Initialize(w) \/ Wipe(w) \/ Observe(w) \/ Acquire(w)
             \/ Recover(w) \/ RecoverRollups(w) \/ Discard(w) \/ Admit(w)
             \/ MakePlans(w) \/ Stage(w) \/ Catalog(w) \/ Capture(w)
             \/ Fence(w) \/ Prepare(w) \/ Clone(w)
    BY <2>3, <2>4
       DEF Launch, Initialize, Wipe, Observe, Acquire, Recover, RecoverRollups, Discard, Admit,
           MakePlans, Stage, Catalog, Capture, Fence, Prepare, Clone, sidecarVars
  <2>5. CASE \/ Open(w) \/ Facts(w) \/ Seal(w) \/ Batch(w) \/ Finalize(w)
             \/ CatchUp(w) \/ Replan(w) \/ Rollup(w) \/ Register(w) \/ Complete(w)
             \/ FailRun(w) \/ Blame(w) \/ Fault(w) \/ Crash(w)
    BY <2>3, <2>5
       DEF Open, Facts, Seal, Batch, Finalize, CatchUp, Replan, Rollup, Register, Complete,
           FailRun, Blame, Fault, Crash, sidecarVars
  <2> QED
    BY <1>1, <2>1, <2>2, <2>4, <2>5 DEF Step
<1>2. ASSUME NEW w \in Workers, RecoverPromote(w)
      PROVE  control' = control \/ control'.gen = control.gen + 1
  <2>1. wk[w].gen = control.gen + 1
    BY <1>2, StepsAre DEF RecoverPromote, At, Ordered, Numbered, Recovering
  <2> QED
    BY <1>2, <2>1 DEF RecoverPromote, Promoted
<1>3. ASSUME NEW w \in Workers, Promote(w)
      PROVE  control' = control \/ control'.gen = control.gen + 1
  <2>1. wk[w].gen = control.gen + 1
    BY <1>3, StepsAre DEF Promote, At, Ordered, Numbered
  <2> QED
    BY <1>3, <2>1 DEF Promote, Promoted
<1>4. ASSUME \/ \E w \in Workers : LeaseExpires(w) \/ Heartbeat(w)
             \/ \E s \in Sources : ChangeFile(s)
             \/ UNCHANGED vars
      PROVE  control' = control
  BY <1>4 DEF LeaseExpires, Heartbeat, ChangeFile, vars, sidecarVars
<1>5. Rollback => rollbacks' = rollbacks + 1
  BY DEF Rollback
<1> QED
  BY <1>1, <1>2, <1>3, <1>4, <1>5 DEF Next

\* Rollbacks are counted.
LEMMA RollbackCounts ==
    ASSUME [Next]_vars
    PROVE  rollbacks' \in {rollbacks, rollbacks + 1}
<1>1. ASSUME NEW w \in Workers,
             \/ Launch(w) \/ Initialize(w) \/ Wipe(w) \/ Observe(w) \/ Acquire(w)
             \/ Recover(w) \/ RecoverRollups(w) \/ RecoverBegin(w) \/ RecoverPromote(w)
             \/ Interrupt(w) \/ Discard(w) \/ Admit(w)
             \/ MakePlans(w) \/ Stage(w) \/ Catalog(w) \/ Capture(w)
             \/ Fence(w) \/ Prepare(w) \/ Clone(w) \/ Begin(w)
      PROVE  UNCHANGED rollbacks
  BY <1>1
     DEF Launch, Initialize, Wipe, Observe, Acquire, Recover, RecoverRollups, RecoverBegin,
         RecoverPromote, Interrupt, Discard, Admit, MakePlans, Stage, Catalog, Capture, Fence,
         Prepare, Clone, Begin
<1>2. ASSUME NEW w \in Workers,
             \/ Open(w) \/ Facts(w) \/ Seal(w) \/ Batch(w) \/ Finalize(w)
             \/ CatchUp(w) \/ Replan(w) \/ Rollup(w) \/ Promote(w) \/ Register(w) \/ Complete(w)
             \/ FailRun(w) \/ Blame(w) \/ Condemn(w) \/ Fault(w) \/ Crash(w)
             \/ LeaseExpires(w) \/ Heartbeat(w)
      PROVE  UNCHANGED rollbacks
  BY <1>2
     DEF Open, Facts, Seal, Batch, Finalize, CatchUp, Replan, Rollup, Promote, Register, Complete,
         FailRun, Blame, Condemn, Fault, Crash, LeaseExpires, Heartbeat
<1>3. CASE (\E s \in Sources : ChangeFile(s)) \/ Rollback \/ UNCHANGED vars
  BY <1>3 DEF ChangeFile, Rollback, vars
<1> QED
  BY <1>1, <1>2, <1>3 DEF Next, Step

LEMMA RollbacksCounted == Spec => [](rollbacks \in Nat)
<1>1. Init => rollbacks \in Nat
  BY DEF Init
<1>2. rollbacks \in Nat /\ [Next]_vars => (rollbacks \in Nat)'
  BY RollbackCounts
<1> QED
  BY <1>1, <1>2, PTL DEF Spec

LEMMA KernelHolds == Spec /\ Attended => [](Kernel /\ Ordered)
<1>1. CASE Attended
  <2>1. Init => Kernel /\ Ordered
    BY TypeInit, ExclusiveInit, OrderedInit DEF Kernel
  <2>2. Kernel /\ Ordered /\ [Next]_vars => (Kernel /\ Ordered)'
    BY <1>1, TypeSteps, ExclusiveSteps, OrderedSteps DEF Kernel
  <2> QED
    BY <2>1, <2>2, PTL DEF Spec
<1>2. CASE ~Attended
  BY <1>2, PTL
<1> QED
  BY <1>1, <1>2

\* On an attended host generations are published one after another, whoever dies, fails
\* or takes over: a worker that recovers or builds a generation makes it the one after
\* the published generation, and nobody publishes in between.
THEOREM GenerationsAreNext == Spec /\ Attended => NextGeneration
<1>1. Kernel /\ Ordered /\ rollbacks \in Nat /\ [Next]_vars
        => [control'.gen # control.gen /\ rollbacks' = rollbacks => control'.gen = control.gen + 1]_vars
  <2>1. SUFFICES ASSUME Kernel, Ordered, rollbacks \in Nat, [Next]_vars,
                        control'.gen # control.gen, rollbacks' = rollbacks
                 PROVE  control'.gen = control.gen + 1
    OBVIOUS
  <2> QED
    BY <2>1, GenerationMoves
<1> QED
  BY <1>1, KernelHolds, RollbacksCounted, PTL DEF Spec, NextGeneration

-----------------------------------------------------------------------------
(* The plans. *)

\* What a plan says of the source it is for.
IsPlan(p, c, o, known, now) ==
    /\ p.obs = o /\ p.lines = {}
    /\ c = None => p.prior = None /\ p.start = 0 /\ p.replace
    /\ c # None => p.prior = known
    /\ c # None /\ Replaced(o, known, c, now) => p.start = 0 /\ p.replace
    /\ c # None /\ ~Replaced(o, known, c, now) => p.start = c.off /\ p.start < o.len /\ ~p.replace

\* The cursor of a source for which nothing is planned.
UpToDate(c, o, known, now) == c # None /\ o.id = known /\ now.ver = c.ver /\ o.len = c.off

LEMMA PlanFields ==
    ASSUME NEW p \in Plan, NEW known \in SourceIds, NEW n \in 1 .. MaxLines
    PROVE  LET replaced == [p EXCEPT !.prior = known]
               appended == [p EXCEPT !.prior = known, !.start = n, !.replace = FALSE]
           IN  /\ replaced.obs = p.obs /\ replaced.lines = p.lines /\ replaced.prior = known
               /\ replaced.start = p.start /\ replaced.replace = p.replace
               /\ appended.obs = p.obs /\ appended.lines = p.lines /\ appended.prior = known
               /\ appended.start = n /\ appended.replace = FALSE
BY DEF Plan

LEMMA PlanIs ==
    ASSUME NEW a \in Artifact, NEW o \in Observation, NEW known \in SourceIds, NEW now \in Observation
    PROVE  /\ \A p \in plan_source(a, o, known, now) : IsPlan(p, a.rows[known], o, known, now)
           /\ plan_source(a, o, known, now) = {} => UpToDate(a.rows[known], o, known, now)
<1> DEFINE c == a.rows[known]
           new == [obs |-> o, prior |-> None, start |-> 0, replace |-> TRUE, lines |-> {}]
           n == IF c = None THEN 1 ELSE c.off
           replaced == [new EXCEPT !.prior = known]
           appended == [new EXCEPT !.prior = known, !.start = n, !.replace = FALSE]
<1>1. MaxLines \in Nat /\ o.len \in 1 .. MaxLines
  BY ArtifactBounds DEF Observation
<1>2. c = None \/ c \in Cursor
  BY DEF Artifact
<1>3. /\ new \in Plan /\ new.obs = o /\ new.prior = None /\ new.start = 0 /\ new.replace = TRUE
      /\ new.lines = {}
  BY <1>1 DEF Plan
<1>4. n \in 1 .. MaxLines
  BY <1>1, <1>2 DEF Cursor
<1> HIDE DEF new
<1>5. plan_source(a, o, known, now) = IF c = None THEN {new}
                                      ELSE IF Replaced(o, known, c, now) THEN {replaced}
                                      ELSE IF o.len > c.off THEN {appended}
                                      ELSE {}
  BY DEF plan_source, new
<1> HIDE DEF c, n
<1>6. /\ replaced.obs = o /\ replaced.lines = {} /\ replaced.prior = known
      /\ replaced.start = 0 /\ replaced.replace = TRUE
      /\ appended.obs = o /\ appended.lines = {} /\ appended.prior = known
      /\ appended.start = n /\ appended.replace = FALSE
  BY <1>3, <1>4, PlanFields
<1> HIDE DEF replaced, appended
<1>7. CASE c = None
  <2>1. IsPlan(new, c, o, known, now)
    BY <1>3, <1>7 DEF IsPlan
  <2> QED
    BY <1>5, <1>7, <2>1 DEF c
<1>8. CASE c # None /\ Replaced(o, known, c, now)
  <2>1. IsPlan(replaced, c, o, known, now)
    BY <1>6, <1>8 DEF IsPlan
  <2> QED
    BY <1>5, <1>8, <2>1 DEF c
<1>9. CASE c # None /\ ~Replaced(o, known, c, now)
  <2>1. n = c.off /\ c.off \in 1 .. MaxLines
    BY <1>4, <1>9 DEF n
  <2>2. o.len > c.off => IsPlan(appended, c, o, known, now)
    BY <1>1, <1>6, <1>9, <2>1 DEF IsPlan
  <2>3. ~(o.len > c.off) => UpToDate(c, o, known, now)
    BY <1>1, <1>9, <2>1 DEF UpToDate, Replaced
  <2> QED
    BY <1>5, <1>9, <2>2, <2>3 DEF c
<1> QED
  BY <1>7, <1>8, <1>9

\* Parsing changes nothing else of a plan.
LEMMA ParsedKeeps ==
    ASSUME NEW p \in Plan, NEW now
    PROVE  LET q == Parsed(p, now)
           IN  q.obs = p.obs /\ q.prior = p.prior /\ q.start = p.start /\ q.replace = p.replace
<1> DEFINE lines == {l \in Content([now EXCEPT !.id = p.obs.id]) : p.start < l.ix /\ l.ix <= p.obs.len}
           q == Parsed(p, now)
<1>1. q = [p EXCEPT !.lines = lines]
  BY DEF Parsed
<1> HIDE DEF lines, q
<1>2. q.obs = p.obs /\ q.prior = p.prior /\ q.start = p.start /\ q.replace = p.replace
  BY <1>1 DEF Plan
<1> QED
  BY <1>2 DEF q

\* The source id whose cursor a worker consults.
KnownId(w, s) == IF registry[s] = None THEN wk[w].obs[s].id ELSE registry[s]

LEMMA ObsTyped ==
    ASSUME TypeInv, NEW w \in Workers, wk[w].pc \in Informed, NEW s \in wk[w].scope
    PROVE  /\ s \in Sources /\ wk[w].obs[s] \in Observation /\ file[s] \in Observation
           /\ wk[w].obs[s].id[1] = s /\ wk[w].obs[s].id \in SourceIds /\ KnownId(w, s) \in SourceIds
           /\ file[s].id[1] = s /\ file[s].id \in SourceIds
<1>1. /\ wk[w] \in WorkerState /\ Looked(wk[w]) /\ RefreshControlTypeOK
      /\ file \in [Sources -> Observation \cup {None}]
      /\ \A x \in Sources : file[x] # None => file[x].id[1] = x
  BY WorkerTyped DEF TypeInv, Typed
<1>2. /\ s \in Sources /\ wk[w].obs[s] \in Observation /\ file[s] \in Observation
      /\ wk[w].obs[s].id[1] = s /\ file[s].id[1] = s
  BY <1>1 DEF WorkerState, Looked
<1>3. wk[w].obs[s].id \in SourceIds /\ file[s].id \in SourceIds
  BY <1>2 DEF Observation
<1> QED
  BY <1>1, <1>2, <1>3 DEF KnownId, RefreshControlTypeOK

LEMMA PlansForIs ==
    ASSUME TypeInv, NEW w \in Workers, wk[w].pc \in Informed, NEW path \in Paths
    PROVE  /\ \A p \in PlansFor(w, path) : \E s \in wk[w].scope :
                IsPlan(p, artifact[path].rows[KnownId(w, s)], wk[w].obs[s], KnownId(w, s), file[s])
           /\ \A s \in wk[w].scope :
                \/ \E p \in PlansFor(w, path) :
                     IsPlan(p, artifact[path].rows[KnownId(w, s)], wk[w].obs[s], KnownId(w, s), file[s])
                \/ UpToDate(artifact[path].rows[KnownId(w, s)], wk[w].obs[s], KnownId(w, s), file[s])
<1> DEFINE a == artifact[path]
           made(s) == plan_source(a, wk[w].obs[s], KnownId(w, s), file[s])
<1>1. a \in Artifact
  BY DEF TypeInv, Typed
<1>2. ASSUME NEW s \in wk[w].scope
      PROVE  /\ \A p \in made(s) : IsPlan(p, a.rows[KnownId(w, s)], wk[w].obs[s], KnownId(w, s), file[s])
             /\ made(s) = {} => UpToDate(a.rows[KnownId(w, s)], wk[w].obs[s], KnownId(w, s), file[s])
  BY <1>1, ObsTyped, PlanIs
<1>3. PlansFor(w, path) = UNION {made(s) : s \in wk[w].scope}
  BY DEF PlansFor, KnownId
<1> HIDE DEF made
<1> QED
  BY <1>2, <1>3 DEF a

LEMMA AgainIs ==
    ASSUME TypeInv, NEW w \in Workers, wk[w].pc \in Built
    PROVE  /\ Again(w) \in SUBSET Plan
           /\ \A p \in Again(w) : \E s \in wk[w].scope :
                IsPlan(p, Written(w).rows[wk[w].obs[s].id], wk[w].obs[s], wk[w].obs[s].id, file[s])
           /\ \A s \in wk[w].scope :
                \/ \E p \in Again(w) :
                     IsPlan(p, Written(w).rows[wk[w].obs[s].id], wk[w].obs[s], wk[w].obs[s].id, file[s])
                \/ UpToDate(Written(w).rows[wk[w].obs[s].id], wk[w].obs[s], wk[w].obs[s].id, file[s])
<1> DEFINE a == Written(w)
           made(s) == plan_source(a, wk[w].obs[s], wk[w].obs[s].id, file[s])
<1>1. a \in Artifact /\ wk[w].pc \in Informed
  BY WrittenIs, ClassesAre, StepsAre
<1>2. ASSUME NEW s \in wk[w].scope
      PROVE  /\ made(s) \in SUBSET Plan
             /\ \A p \in made(s) : IsPlan(p, a.rows[wk[w].obs[s].id], wk[w].obs[s], wk[w].obs[s].id, file[s])
             /\ made(s) = {} => UpToDate(a.rows[wk[w].obs[s].id], wk[w].obs[s], wk[w].obs[s].id, file[s])
  BY <1>1, ObsTyped, PlanIs, PlanTyped
<1>3. Again(w) = UNION {made(s) : s \in wk[w].scope}
  BY DEF Again
<1> HIDE DEF made
<1> QED
  BY <1>2, <1>3 DEF a

\* What parsing the plans of a worker leaves of them.
LEMMA ParsedNowIs ==
    ASSUME NEW plans \in SUBSET Plan
    PROVE  /\ \A q \in ParsedNow(plans) : \E p \in plans :
                /\ q = Parsed(p, file[p.obs.id[1]])
                /\ q.obs = p.obs /\ q.prior = p.prior /\ q.start = p.start /\ q.replace = p.replace
           /\ \A p \in plans : \E q \in ParsedNow(plans) :
                /\ q = Parsed(p, file[p.obs.id[1]])
                /\ q.obs = p.obs /\ q.prior = p.prior /\ q.start = p.start /\ q.replace = p.replace
           /\ plans = {} <=> ParsedNow(plans) = {}
<1> DEFINE read(p) == Parsed(p, file[p.obs.id[1]])
<1>1. ASSUME NEW p \in plans
      PROVE  LET q == read(p)
             IN  q.obs = p.obs /\ q.prior = p.prior /\ q.start = p.start /\ q.replace = p.replace
  BY ParsedKeeps
<1>2. ParsedNow(plans) = {read(p) : p \in plans}
  BY DEF ParsedNow
<1>3. \A p \in plans : read(p) = Parsed(p, file[p.obs.id[1]])
  OBVIOUS
<1> HIDE DEF read
<1> QED
  BY <1>1, <1>2, <1>3

-----------------------------------------------------------------------------
(* What a worker writes to the database that readers have. *)

\* A cursor that goes on from a place of the file as it is; a file that has only grown
\* since it was observed.
Fits(c, f) == c = None \/ (c.ver = f.ver /\ c.off <= f.len)
Same(o, f) == o.id = f.id /\ o.ver = f.ver /\ o.len <= f.len

\* Workers in these have plans for the files they observed.
Planned == Located \cup {"begin", "open", "facts", "seal"}

\* It plans from, or writes, the database that readers have.
Serving(w) == /\ control.active # None /\ wk[w].path = control.active
              /\ wk[w].pc \in Located \cup Built

Row(w, s) == artifact[wk[w].path].rows[file[s].id]

\* A source has a plan, or its cursor is one to go on from.
Settles(w, s) == (\E p \in wk[w].plans : p.obs = wk[w].obs[s]) \/ Fits(Row(w, s), file[s])

\* A build in place never replaces a source: its cursors were checked, or are those
\* that it recorded for the file as it observed it.
AlignedAt(w) ==
    /\ wk[w].pc \in Informed => \A s \in wk[w].scope : Same(wk[w].obs[s], file[s])
    /\ wk[w].pc \in Planned => \A p \in wk[w].plans : p.obs = wk[w].obs[p.obs.id[1]]
    /\ Serving(w) /\ wk[w].pc \in Planned => \A s \in wk[w].scope : Settles(w, s)
    /\ Serving(w) =>
          /\ wk[w].pc \notin {"batch", "finalize"} /\ (wk[w].pc = "begin" => ~wk[w].stream)
          /\ wk[w].pc \in {"begin", "open"} => ReplacedIds(wk[w].plans) = {}
          /\ wk[w].pc = "catchUp" => \A s \in wk[w].scope : Fits(Row(w, s), file[s])
          /\ wk[w].pc = "replan" => \A s \in wk[w].scope : Fits(Row(w, s), wk[w].obs[s])

Aligned == \A w \in Workers : AlignedAt(w)

LEMMA PhasesAre ==
    /\ Located = {"stage", "prepare", "clone"}
    /\ Planned = {"stage", "prepare", "clone", "begin", "open", "facts", "seal"}
    /\ Located \cup Built = {"stage", "prepare", "clone", "open", "facts", "seal", "batch", "finalize",
                             "promote", "begin", "catchUp", "replan", "rollup"}
    /\ Informed \subseteq AtWork /\ Planned \subseteq Informed /\ Located \cup Built \subseteq Informed
BY ClassesAre, StepsAre, WorkIs DEF Planned, Located

\* A worker that does not know of files has nothing to keep.
LEMMA AlignedOff ==
    ASSUME NEW w \in Workers, wk'[w].pc \notin Informed
    PROVE  AlignedAt(w)'
BY PhasesAre DEF AlignedAt, Serving

\* Workers that take no step.
LEMMA OthersAligned ==
    ASSUME Kernel, Aligned, NEW w \in Workers, UNCHANGED file,
           \A v \in Workers \ {w} : wk'[v] = wk[v],
           wk[w].pc \in AtWork \/ (UNCHANGED artifact /\ control'.active = control.active)
    PROVE  \A v \in Workers \ {w} : AlignedAt(v)'
<1> SUFFICES ASSUME NEW v \in Workers \ {w} PROVE AlignedAt(v)'
  OBVIOUS
<1>1. CASE wk[w].pc \in AtWork
  <2>1. wk[v].pc \notin AtWork
    BY <1>1 DEF Kernel, Exclusive, Alone
  <2>2. wk'[v].pc \notin Informed
    BY <2>1, PhasesAre
  <2> QED
    BY <2>2, AlignedOff
<1>2. CASE UNCHANGED artifact /\ control'.active = control.active
  <2>1. AlignedAt(v) /\ wk'[v] = wk[v]
    BY DEF Aligned
  <2> QED
    BY <1>2, <2>1 DEF AlignedAt, Serving, Settles, Row
<1> QED
  BY <1>1, <1>2

\* A worker that keeps what it observed, and has no plans yet or any more.
LEMMA InformedAligned ==
    ASSUME Aligned, NEW w \in Workers, UNCHANGED file,
           wk'[w].pc \in Informed => wk[w].pc \in Informed,
           wk'[w].pc \notin Located \cup Built,
           wk'[w].obs = wk[w].obs, wk'[w].scope = wk[w].scope
    PROVE  AlignedAt(w)'
<1>1. AlignedAt(w) /\ wk'[w].pc \notin Planned
  BY PhasesAre DEF Aligned, Planned
<1>2. ~Serving(w)'
  BY DEF Serving
<1> QED
  BY <1>1, <1>2 DEF AlignedAt

\* A worker that keeps what it knows, and does not write.
LEMMA KeptAligned ==
    ASSUME Aligned, NEW w \in Workers, UNCHANGED <<file, artifact>>, control'.active = control.active,
           wk'[w].pc \in Informed => wk[w].pc \in Informed,
           wk'[w].pc \in Located \cup Built => wk'[w].pc = wk[w].pc \/ wk'[w].pc = "promote"
                                               \/ (wk[w].pc = "stage" /\ wk'[w].pc = "prepare"),
           wk'[w].pc \in Located \cup Built => wk[w].pc \in Located \cup Built,
           wk'[w].obs = wk[w].obs, wk'[w].scope = wk[w].scope, wk'[w].plans = wk[w].plans,
           wk'[w].path = wk[w].path, wk'[w].stream = wk[w].stream
    PROVE  AlignedAt(w)'
<1>1. AlignedAt(w) /\ Serving(w)' => Serving(w)
  BY DEF Aligned, Serving
<1>2. wk'[w].pc \in Informed => \A s \in wk'[w].scope : Same(wk'[w].obs[s], file'[s])
  BY <1>1 DEF Aligned, AlignedAt
<1>3. CASE wk'[w].pc \notin Located \cup Built
  BY <1>3, InformedAligned
<1>4. CASE wk'[w].pc = "promote"
  BY <1>2, <1>4, PhasesAre, StepsAre DEF AlignedAt
<1>5. CASE wk[w].pc = "stage" /\ wk'[w].pc = "prepare"
  <2>1. "stage" \in Planned /\ "stage" \in Located
    BY PhasesAre
  <2> QED
    BY <1>2, <1>5, <2>1, StepsAre DEF Aligned, AlignedAt, Serving, Settles, Row
<1>6. CASE wk'[w].pc = wk[w].pc
  <2>1. AlignedAt(w) /\ (Serving(w)' <=> Serving(w))
    BY <1>6 DEF Aligned, Serving
  <2> QED
    BY <1>6, <2>1 DEF AlignedAt, Settles, Row
<1> QED
  BY <1>3, <1>4, <1>5, <1>6

LEMMA GotoAligned ==
    ASSUME Kernel, Aligned, NEW w \in Workers, NEW pc, Goto(w, pc), UNCHANGED file,
           pc \in Informed => wk[w].pc \in Informed, pc \notin Located \cup Built,
           wk[w].pc \in AtWork \/ (UNCHANGED artifact /\ control'.active = control.active)
    PROVE  Aligned'
<1>1. /\ wk'[w].pc = pc /\ wk'[w].obs = wk[w].obs /\ wk'[w].scope = wk[w].scope
      /\ \A v \in Workers \ {w} : wk'[v] = wk[v]
  BY GotoGives DEF Kernel
<1>2. AlignedAt(w)'
  BY <1>1, InformedAligned
<1>3. \A v \in Workers \ {w} : AlignedAt(v)'
  BY <1>1, OthersAligned
<1> QED
  BY <1>2, <1>3 DEF Aligned

LEMMA EndAligned ==
    ASSUME Kernel, Aligned, NEW w \in Workers, NEW pc \in Ended, End(w, pc), UNCHANGED file,
           wk[w].pc \in AtWork \/ (UNCHANGED artifact /\ control'.active = control.active)
    PROVE  Aligned'
<1>1. wk'[w].pc = pc /\ \A v \in Workers \ {w} : wk'[v] = wk[v]
  BY EndGives DEF Kernel
<1>2. AlignedAt(w)'
  BY <1>1, AlignedOff, StepsAre DEF Ended
<1>3. \A v \in Workers \ {w} : AlignedAt(v)'
  BY <1>1, OthersAligned
<1> QED
  BY <1>2, <1>3 DEF Aligned

\* The steps after which a worker has no plans.
LEMMA PlanlessAligned ==
    ASSUME Kernel, Aligned, NEW w \in Workers,
           \/ Launch(w) \/ Initialize(w) \/ Wipe(w) \/ Observe(w) \/ Acquire(w)
           \/ Recover(w) \/ RecoverRollups(w) \/ RecoverBegin(w) \/ RecoverPromote(w)
           \/ Interrupt(w) \/ Discard(w) \/ Admit(w) \/ Catalog(w) \/ Capture(w)
           \/ Promote(w) \/ Register(w) \/ Complete(w) \/ FailRun(w) \/ Blame(w) \/ Condemn(w)
           \/ Fault(w) \/ Crash(w)
    PROVE  Aligned'
<1>0. TypeInv /\ control \in Control
  BY DEF Kernel, TypeInv, Typed, RefreshControlTypeOK
<1>1. CASE Initialize(w) \/ Wipe(w)
  <2>1. PICK pc \in {"wipe", "observe"} : Goto(w, pc)
    BY <1>1 DEF Initialize, Wipe
  <2>2. UNCHANGED file /\ wk[w].pc \in AtWork
    BY <1>1, WorkIs DEF Initialize, Wipe, At
  <2> QED
    BY <2>1, <2>2, PhasesAre, StepsAre, GotoAligned
<1>2. CASE RecoverRollups(w) \/ RecoverBegin(w) \/ RecoverPromote(w) \/ Interrupt(w) \/ Discard(w)
           \/ Admit(w) \/ Catalog(w) \/ Capture(w) \/ Promote(w) \/ Register(w)
  <2>1. PICK pc \in {"recoverBegin", "recoverPromote", "discard", "admit", "plan", "complete",
                  "register", "failRun"} :
           Goto(w, pc)
    <3>1. CASE RecoverRollups(w)
      BY <3>1 DEF RecoverRollups
    <3>2. CASE RecoverBegin(w) \/ RecoverPromote(w) \/ Interrupt(w) \/ Discard(w) \/ Admit(w)
      BY <3>2 DEF RecoverBegin, RecoverPromote, Interrupt, Discard, Admit, Raise
    <3>3. CASE Catalog(w) \/ Capture(w) \/ Promote(w) \/ Register(w)
      BY <3>3 DEF Catalog, Capture, Promote, Register, Raise
    <3> QED
      BY <1>2, <3>1, <3>2, <3>3
  <2>2. UNCHANGED file /\ wk[w].pc \in Informed
    BY <1>2, StepsAre DEF RecoverRollups, RecoverBegin, RecoverPromote, Interrupt, Discard, Admit,
                          Catalog, Capture, Promote, Register, At
  <2> QED
    BY <2>1, <2>2, PhasesAre, StepsAre, GotoAligned
<1>3. CASE Complete(w) \/ Crash(w) \/ Condemn(w)
  <2>1. PICK pc \in Ended : End(w, pc)
    BY <1>3 DEF Complete, Crash, Condemn, Ended
  <2>2. UNCHANGED file /\ UNCHANGED artifact /\ control'.active = control.active
    BY <1>0, <1>3 DEF Complete, Crash, Condemn, FailCutover, Control, sidecarVars
  <2> QED
    BY <2>1, <2>2, EndAligned
<1>4. CASE FailRun(w) \/ Fault(w) \/ Blame(w)
  <2>1. UNCHANGED file /\ UNCHANGED artifact /\ control'.active = control.active
    BY <1>4 DEF FailRun, Fault, Blame, sidecarVars
  <2>2. (\E pc \in {"blame", "failRun", "condemn"} : Goto(w, pc)) \/ End(w, "done")
    BY <1>4 DEF FailRun, Fault, Blame, Raise
  <2> QED
    BY <2>1, <2>2, GotoAligned, EndAligned, PhasesAre, StepsAre DEF Ended
<1>5. CASE Acquire(w)
  <2>1. UNCHANGED file /\ UNCHANGED artifact /\ UNCHANGED control /\ wk[w].pc \in Informed
    BY <1>5, StepsAre DEF Acquire, At
  <2>2. End(w, "done") \/ Goto(w, "recover")
    BY <1>5 DEF Acquire
  <2> QED
    BY <2>1, <2>2, GotoAligned, EndAligned, PhasesAre, StepsAre DEF Ended
<1>6. CASE Recover(w)
  <2>1. /\ SameBasics(w) /\ \A v \in Workers \ {w} : wk'[v] = wk[v]
        /\ wk'[w].pc \in {"recoverRollups", "recoverBegin", "recoverPromote", "interrupt",
                          "discard", "admit"}
    BY <1>0, <1>6, RecoverGives
  <2>2. UNCHANGED file /\ wk[w].pc \in AtWork /\ wk[w].pc \in Informed
    BY <1>6, StepsAre, PhasesAre DEF Recover, At
  <2>3. AlignedAt(w)'
    BY <2>1, <2>2, PhasesAre, StepsAre, InformedAligned DEF SameBasics
  <2> QED
    BY <2>1, <2>2, <2>3, OthersAligned DEF Aligned
<1>7. CASE Launch(w)
  <2>1. wk'[w].pc = "initialize" /\ \A v \in Workers \ {w} : wk'[v] = wk[v]
    BY <1>0, <1>7, LaunchGives
  <2>2. UNCHANGED <<file, artifact, control>>
    BY <1>7 DEF Launch, sidecarVars
  <2>3. AlignedAt(w)'
    BY <2>1, AlignedOff, StepsAre
  <2> QED
    BY <2>1, <2>2, <2>3, OthersAligned DEF Aligned
<1>8. CASE Observe(w)
  <2>1. /\ wk'[w].pc = "acquire" /\ wk'[w].obs = Observed(wk[w].scope) /\ wk'[w].scope = wk[w].scope
        /\ \A v \in Workers \ {w} : wk'[v] = wk[v]
    BY <1>0, <1>8, LaunchGives
  <2>2. UNCHANGED file /\ UNCHANGED <<artifact, control>>
    BY <1>8 DEF Observe, sidecarVars
  <2>3. \A s \in wk[w].scope : Same(Observed(wk[w].scope)[s], file[s])
    <3> SUFFICES ASSUME NEW s \in wk[w].scope PROVE Same(Observed(wk[w].scope)[s], file[s])
      OBVIOUS
    <3>1. s \in Sources /\ file[s] \in Observation
      BY <1>0, ScopeIs DEF TypeInv, Typed
    <3> QED
      BY <3>1, ArtifactBounds DEF Observed, Same, Observation
  <2>4. wk'[w].pc \notin Located \cup Built
    BY <2>1, PhasesAre
  <2>5. AlignedAt(w)'
    BY <2>1, <2>2, <2>3, <2>4, PhasesAre DEF AlignedAt, Serving
  <2> QED
    BY <2>1, <2>2, <2>5, OthersAligned DEF Aligned
<1> QED
  BY <1>1, <1>2, <1>3, <1>4, <1>5, <1>6, <1>7, <1>8

\* What a plan says of a source that has grown since it was observed.
LEMMA UpToDateFits ==
    ASSUME NEW c \in Cursor \cup {None}, NEW o \in Observation, NEW known, NEW now \in Observation,
           Same(o, now), UpToDate(c, o, known, now)
    PROVE  Fits(c, now) /\ o.id = known
<1>1. c \in Cursor
  BY DEF UpToDate
<1> QED
  BY <1>1 DEF UpToDate, Fits, Same

LEMMA MakePlansAligned ==
    ASSUME Kernel, Aligned, NEW w \in Workers, MakePlans(w)
    PROVE  Aligned'
<1>0. /\ TypeInv /\ wk[w].pc \in Informed /\ wk[w].pc \in AtWork /\ UNCHANGED file
      /\ UNCHANGED <<artifact, control>> /\ ActivePath \in Paths
  BY StepsAre, PhasesAre, ActivePathTyped DEF MakePlans, At, Kernel, sidecarVars
<1> DEFINE plans == PlansFor(w, ActivePath)
           path == ActivePath
<1>1. /\ wk'[w].pc \in {"capture", "stage"} /\ wk'[w].plans = plans /\ wk'[w].path = path
      /\ wk'[w].obs = wk[w].obs /\ wk'[w].scope = wk[w].scope
      /\ \A v \in Workers \ {w} : wk'[v] = wk[v]
  BY <1>0, MakePlansGives DEF SameBasics
<1>2. \A s \in wk[w].scope : Same(wk[w].obs[s], file[s])
  BY <1>0 DEF Aligned, AlignedAt
<1>3. /\ \A p \in plans : \E s \in wk[w].scope :
             IsPlan(p, artifact[path].rows[KnownId(w, s)], wk[w].obs[s], KnownId(w, s), file[s])
      /\ \A s \in wk[w].scope :
             \/ \E p \in plans :
                  IsPlan(p, artifact[path].rows[KnownId(w, s)], wk[w].obs[s], KnownId(w, s), file[s])
             \/ UpToDate(artifact[path].rows[KnownId(w, s)], wk[w].obs[s], KnownId(w, s), file[s])
  BY <1>0, PlansForIs
<1> HIDE DEF plans, path
<1>4. \A p \in plans : p.obs = wk[w].obs[p.obs.id[1]]
  <2> SUFFICES ASSUME NEW p \in plans PROVE p.obs = wk[w].obs[p.obs.id[1]]
    OBVIOUS
  <2>1. PICK s \in wk[w].scope : p.obs = wk[w].obs[s]
    BY <1>3 DEF IsPlan
  <2>2. wk[w].obs[s].id[1] = s
    BY <1>0, ObsTyped
  <2> QED
    BY <2>1, <2>2
<1>5. ASSUME NEW s \in wk[w].scope
      PROVE  \/ \E p \in plans : p.obs = wk[w].obs[s]
             \/ Fits(artifact[path].rows[file[s].id], file[s])
  <2>1. CASE \E p \in plans :
               IsPlan(p, artifact[path].rows[KnownId(w, s)], wk[w].obs[s], KnownId(w, s), file[s])
    BY <2>1 DEF IsPlan
  <2>2. CASE UpToDate(artifact[path].rows[KnownId(w, s)], wk[w].obs[s], KnownId(w, s), file[s])
    <3>1. artifact[path] \in Artifact
      BY <1>0 DEF TypeInv, Typed, path
    <3>2. /\ wk[w].obs[s] \in Observation /\ file[s] \in Observation /\ KnownId(w, s) \in SourceIds
          /\ Same(wk[w].obs[s], file[s])
      BY <1>0, <1>2, ObsTyped
    <3>3. artifact[path].rows[KnownId(w, s)] \in Cursor \cup {None}
      BY <3>1, <3>2 DEF Artifact
    <3>4. /\ Fits(artifact[path].rows[KnownId(w, s)], file[s])
          /\ wk[w].obs[s].id = KnownId(w, s)
      BY <2>2, <3>2, <3>3, UpToDateFits
    <3> QED
      BY <3>2, <3>4 DEF Same
  <2> QED
    BY <1>3, <2>1, <2>2
<1>6. AlignedAt(w)'
  <2>1. wk'[w].pc \notin {"batch", "finalize", "begin", "open", "catchUp", "replan"}
    BY <1>1
  <2> QED
    BY <1>0, <1>1, <1>2, <1>4, <1>5, <2>1 DEF AlignedAt, Settles, Row
<1> QED
  BY <1>0, <1>1, <1>6, OthersAligned DEF Aligned

LEMMA StageAligned ==
    ASSUME Kernel, Aligned, NEW w \in Workers, Stage(w) \/ Fence(w)
    PROVE  Aligned'
<1>0. /\ TypeInv /\ UNCHANGED <<file, artifact>> /\ UNCHANGED control
      /\ wk[w].pc \in Located \cup Built /\ wk[w].pc \in Informed /\ wk[w].pc \in AtWork
  BY PhasesAre, StepsAre DEF Stage, Fence, At, Fenced, Kernel, sidecarVars
<1>1. CASE Goto(w, "failRun") \/ Goto(w, "catalog")
  BY <1>0, <1>1, GotoAligned, PhasesAre, StepsAre
<1>2. CASE wk[w].pc = "stage" /\ Goto(w, "prepare")
  <2>1. AlignedAt(w)' /\ \A v \in Workers \ {w} : wk'[v] = wk[v]
    BY <1>0, <1>2, GotoGives, KeptAligned
  <2> QED
    BY <1>0, <2>1, OthersAligned DEF Aligned
<1>3. CASE Fence(w) /\ ~Goto(w, "failRun")
  <2>1. /\ wk'[w].pc = wk[w].pc /\ wk'[w].obs = wk[w].obs /\ wk'[w].scope = wk[w].scope
        /\ wk'[w].plans = wk[w].plans /\ wk'[w].path = wk[w].path /\ wk'[w].stream = wk[w].stream
        /\ \A v \in Workers \ {w} : wk'[v] = wk[v]
    BY <1>0, <1>3, FenceGives DEF SameBasics
  <2>2. AlignedAt(w)'
    BY <1>0, <2>1, KeptAligned
  <2> QED
    BY <1>0, <2>1, <2>2, OthersAligned DEF Aligned
<1> QED
  BY <1>1, <1>2, <1>3 DEF Stage, At

\* The steps of a build that write nothing.
LEMMA PrepareAligned ==
    ASSUME Kernel, Aligned, NEW w \in Workers, Prepare(w)
    PROVE  Aligned'
<1>0. /\ TypeInv /\ UNCHANGED <<file, artifact>> /\ UNCHANGED control
      /\ wk[w].pc = "prepare" /\ wk[w].pc \in Informed /\ wk[w].pc \in AtWork
      /\ wk[w].pc \in Planned /\ wk[w].pc \in Located \cup Built
  BY PhasesAre, StepsAre DEF Prepare, At, Kernel, sidecarVars
<1> DEFINE plans == wk[w].plans
           read == wk'[w].plans
<1>1. /\ wk'[w].pc = "clone" /\ (read = plans \/ read = ParsedNow(plans))
      /\ wk'[w].obs = wk[w].obs /\ wk'[w].scope = wk[w].scope /\ wk'[w].path = wk[w].path
      /\ \A v \in Workers \ {w} : wk'[v] = wk[v]
  BY <1>0, PrepareGives DEF SameBasics
<1>2. /\ \A s \in wk[w].scope : Same(wk[w].obs[s], file[s])
      /\ \A p \in plans : p.obs = wk[w].obs[p.obs.id[1]]
      /\ Serving(w) => \A s \in wk[w].scope : Settles(w, s)
      /\ plans \in SUBSET Plan
  BY <1>0, ScopeIs DEF Aligned, AlignedAt
<1>3. /\ \A q \in read : \E p \in plans : q.obs = p.obs
      /\ \A p \in plans : \E q \in read : q.obs = p.obs
  BY <1>1, <1>2, ParsedNowIs
<1> HIDE DEF plans
<1>4. \A q \in read : q.obs = wk[w].obs[q.obs.id[1]]
  BY <1>2, <1>3
<1>5. Serving(w)' => Serving(w)
  BY <1>0, <1>1 DEF Serving
<1>6. ASSUME NEW s \in wk[w].scope, Serving(w)
      PROVE  (\E q \in read : q.obs = wk[w].obs[s]) \/ Fits(Row(w, s), file[s])
  <2>1. Settles(w, s)
    BY <1>2, <1>6
  <2> QED
    BY <1>3, <2>1 DEF Settles, plans
<1>7. \A s \in wk[w].scope : Serving(w) => Settles(w, s)'
  BY <1>0, <1>1, <1>6 DEF Settles, Row
<1>8. AlignedAt(w)'
  <2>1. wk'[w].pc \notin {"batch", "finalize", "begin", "open", "catchUp", "replan"}
    BY <1>1
  <2> QED
    BY <1>0, <1>1, <1>2, <1>4, <1>5, <1>7, <2>1 DEF AlignedAt
<1> QED
  BY <1>0, <1>1, <1>8, OthersAligned DEF Aligned

LEMMA CloneAligned ==
    ASSUME Kernel, Ordered, Aligned, NEW w \in Workers, Clone(w)
    PROVE  Aligned'
<1>0. /\ TypeInv /\ UNCHANGED file /\ UNCHANGED control
      /\ wk[w].pc = "clone" /\ wk[w].pc \in Informed /\ wk[w].pc \in AtWork
      /\ wk[w].pc \in Planned /\ wk[w].pc \in Located \cup Built /\ wk[w].pc \in Early
  BY PhasesAre, ClassesAre, StepsAre DEF Clone, At, Kernel, sidecarVars
<1>1. PICK isolated \in BOOLEAN :
         /\ artifact' = IF isolated THEN [artifact EXCEPT ![w] = artifact[wk[w].path]] ELSE artifact
         /\ ~isolated => /\ ~(wk[w].stream /\ control.gen > 0)
                         /\ \A p \in wk[w].plans : ~(p.replace /\ p.prior # None)
         /\ wk'[w].pc = "begin" /\ wk'[w].path = IF isolated THEN w ELSE wk[w].path
         /\ wk'[w].stream = wk[w].stream /\ wk'[w].plans = wk[w].plans
         /\ wk'[w].obs = wk[w].obs /\ wk'[w].scope = wk[w].scope
         /\ \A v \in Workers \ {w} : wk'[v] = wk[v]
  BY <1>0, CloneGives DEF SameBasics
<1>2. AlignedAt(w) /\ w # control.active /\ (control.active # None => control.gen > 0)
  BY <1>0 DEF Aligned, Ordered, RecordsFit
<1>3. /\ wk'[w].pc \in Informed => \A s \in wk'[w].scope : Same(wk'[w].obs[s], file'[s])
      /\ wk'[w].pc \in Planned => \A p \in wk'[w].plans : p.obs = wk'[w].obs[p.obs.id[1]]
  BY <1>0, <1>1, <1>2 DEF AlignedAt
<1>4. CASE isolated
  <2>1. ~Serving(w)'
    BY <1>0, <1>1, <1>2, <1>4 DEF Serving
  <2> QED
    BY <1>0, <1>1, <1>3, <2>1, OthersAligned DEF Aligned, AlignedAt
<1>5. CASE ~isolated
  <2>1. UNCHANGED artifact /\ wk'[w].path = wk[w].path
    BY <1>1, <1>5
  <2>2. Serving(w)' => Serving(w)
    BY <1>0, <1>1, <2>1 DEF Serving
  <2>3. Serving(w)' => \A s \in wk'[w].scope : Settles(w, s)'
    BY <1>0, <1>1, <1>2, <2>1, <2>2 DEF AlignedAt, Settles, Row
  <2>4. ReplacedIds(wk'[w].plans) = {} /\ (Serving(w)' => ~wk'[w].stream)
    BY <1>0, <1>1, <1>2, <1>5 DEF ReplacedIds, Serving
  <2>5. AlignedAt(w)'
    BY <1>1, <1>3, <2>3, <2>4 DEF AlignedAt
  <2> QED
    BY <1>0, <1>1, <2>5, OthersAligned DEF Aligned
<1> QED
  BY <1>4, <1>5

LEMMA BeginAligned ==
    ASSUME Kernel, Aligned, NEW w \in Workers, Begin(w)
    PROVE  Aligned'
<1>0. /\ TypeInv /\ UNCHANGED <<file, artifact>> /\ control'.active = control.active
      /\ wk[w].pc = "begin" /\ wk[w].pc \in Informed /\ wk[w].pc \in AtWork
      /\ wk[w].pc \in Planned /\ wk[w].pc \in Located \cup Built
  BY PhasesAre, StepsAre DEF Begin, BeginCutover, Control, At, Kernel, TypeInv, Typed, RefreshControlTypeOK
<1>1. /\ wk'[w].pc = (IF wk[w].stream THEN "batch" ELSE "open")
      /\ wk'[w].path = wk[w].path /\ wk'[w].plans = wk[w].plans
      /\ wk'[w].obs = wk[w].obs /\ wk'[w].scope = wk[w].scope
      /\ \A v \in Workers \ {w} : wk'[v] = wk[v]
  BY <1>0, BeginGives
<1>2. AlignedAt(w) /\ (Serving(w)' => Serving(w))
  BY <1>0, <1>1 DEF Aligned, Serving
<1>3. Serving(w)' => wk'[w].pc = "open" /\ ReplacedIds(wk'[w].plans) = {}
  BY <1>0, <1>1, <1>2 DEF AlignedAt
<1>4. Serving(w)' => \A s \in wk'[w].scope : Settles(w, s)'
  BY <1>0, <1>1, <1>2 DEF AlignedAt, Settles, Row
<1>5. AlignedAt(w)'
  BY <1>0, <1>1, <1>2, <1>3, <1>4 DEF AlignedAt
<1> QED
  BY <1>0, <1>1, <1>5, OthersAligned DEF Aligned

LEMMA CatchUpAligned ==
    ASSUME Kernel, Aligned, NEW w \in Workers, CatchUp(w)
    PROVE  Aligned'
<1>0. /\ TypeInv /\ UNCHANGED <<file, artifact>> /\ UNCHANGED control
      /\ wk[w].pc = "catchUp" /\ wk[w].pc \in Informed /\ wk[w].pc \in AtWork
      /\ wk[w].pc \in Located \cup Built
  BY PhasesAre, StepsAre DEF CatchUp, At, Kernel, sidecarVars
<1>1. CASE Goto(w, "failRun")
  BY <1>0, <1>1, GotoAligned, PhasesAre, StepsAre
<1>2. CASE ~Goto(w, "failRun")
  <2>1. /\ wk'[w].pc = "replan" /\ wk'[w].obs = Observed(wk[w].scope) /\ wk'[w].scope = wk[w].scope
        /\ wk'[w].path = wk[w].path /\ \A v \in Workers \ {w} : wk'[v] = wk[v]
    BY <1>0, <1>2, CatchUpGives
  <2>2. \A s \in wk[w].scope : wk'[w].obs[s] = file[s] /\ Same(file[s], file[s])
    <3> SUFFICES ASSUME NEW s \in wk[w].scope
                 PROVE  Observed(wk[w].scope)[s] = file[s] /\ Same(file[s], file[s])
      BY <2>1
    <3>1. s \in Sources /\ file[s] \in Observation
      BY <1>0, ScopeIs DEF TypeInv, Typed
    <3> QED
      BY <3>1, ArtifactBounds DEF Observed, Same, Observation
  <2>3. wk'[w].pc \notin Planned
    BY <2>1, PhasesAre
  <2>4. Serving(w)' => \A s \in wk[w].scope : Fits(Row(w, s), file[s])
    BY <1>0, <2>1 DEF Serving, Aligned, AlignedAt
  <2>5. \A s \in wk[w].scope : Row(w, s)' = Row(w, s)
    BY <1>0, <2>1 DEF Row
  <2>6. AlignedAt(w)'
    BY <1>0, <2>1, <2>2, <2>3, <2>4, <2>5 DEF AlignedAt
  <2> QED
    BY <1>0, <2>1, <2>6, OthersAligned DEF Aligned
<1> QED
  BY <1>1, <1>2

LEMMA ReplanAligned ==
    ASSUME Kernel, Aligned, NEW w \in Workers, Replan(w)
    PROVE  Aligned'
<1>0. /\ TypeInv /\ UNCHANGED <<file, artifact>> /\ UNCHANGED control
      /\ wk[w].pc = "replan" /\ wk[w].pc \in Informed /\ wk[w].pc \in AtWork
      /\ wk[w].pc \in Located \cup Built /\ wk[w].pc \in Built
  BY PhasesAre, ClassesAre, StepsAre DEF Replan, At, Kernel, sidecarVars
<1> DEFINE plans == Again(w)
           read == wk'[w].plans
           c(s) == Written(w).rows[wk[w].obs[s].id]
           id(s) == wk[w].obs[s].id
<1>1. /\ wk'[w].pc = (IF plans = {} THEN "rollup" ELSE "open") /\ read = ParsedNow(plans)
      /\ wk'[w].obs = wk[w].obs /\ wk'[w].scope = wk[w].scope /\ wk'[w].path = wk[w].path
      /\ \A v \in Workers \ {w} : wk'[v] = wk[v]
  BY <1>0, ReplanGives DEF SameBasics
<1>2. AlignedAt(w) /\ (Serving(w)' => Serving(w))
  BY <1>0, <1>1 DEF Aligned, Serving
<1>3. /\ plans \in SUBSET Plan
      /\ \A p \in plans : \E s \in wk[w].scope : IsPlan(p, c(s), wk[w].obs[s], id(s), file[s])
      /\ \A s \in wk[w].scope :
            \/ \E p \in plans : IsPlan(p, c(s), wk[w].obs[s], id(s), file[s])
            \/ UpToDate(c(s), wk[w].obs[s], id(s), file[s])
  BY <1>0, AgainIs
<1>4. \A s \in wk[w].scope : Same(wk[w].obs[s], file[s])
  BY <1>0, <1>2 DEF AlignedAt
<1>5. ASSUME NEW s \in wk[w].scope
      PROVE  /\ wk[w].obs[s] \in Observation /\ file[s] \in Observation /\ id(s) \in SourceIds
             /\ id(s)[1] = s /\ c(s) \in Cursor \cup {None} /\ c(s) = Row(w, s)
  <2>1. /\ wk[w].obs[s] \in Observation /\ file[s] \in Observation /\ id(s) \in SourceIds
        /\ id(s)[1] = s
    BY <1>0, ObsTyped
  <2>2. Written(w) \in Artifact
    BY <1>0, WrittenIs
  <2>3. c(s) \in Cursor \cup {None}
    BY <2>1, <2>2 DEF Artifact
  <2>4. c(s) = Row(w, s)
    BY <1>4 DEF Same, Row, Written
  <2> QED
    BY <2>1, <2>3, <2>4
<1>6. /\ \A q \in read : \E p \in plans : q.obs = p.obs /\ q.prior = p.prior /\ q.replace = p.replace
      /\ \A p \in plans : \E q \in read : q.obs = p.obs
  BY <1>1, <1>3, ParsedNowIs
<1> HIDE DEF plans, c, id
<1>7. \A q \in read : q.obs = wk[w].obs[q.obs.id[1]]
  <2> SUFFICES ASSUME NEW q \in read PROVE q.obs = wk[w].obs[q.obs.id[1]]
    OBVIOUS
  <2>1. PICK p \in plans : q.obs = p.obs
    BY <1>6
  <2>2. PICK s \in wk[w].scope : p.obs = wk[w].obs[s]
    BY <1>3 DEF IsPlan
  <2> QED
    BY <1>5, <2>1, <2>2 DEF id
<1>8. \A s \in wk[w].scope : (\E q \in read : q.obs = wk[w].obs[s]) \/ Fits(Row(w, s), file[s])
  <2> SUFFICES ASSUME NEW s \in wk[w].scope
               PROVE  (\E q \in read : q.obs = wk[w].obs[s]) \/ Fits(Row(w, s), file[s])
    OBVIOUS
  <2>1. CASE \E p \in plans : IsPlan(p, c(s), wk[w].obs[s], id(s), file[s])
    BY <1>6, <2>1 DEF IsPlan
  <2>2. CASE UpToDate(c(s), wk[w].obs[s], id(s), file[s])
    BY <1>4, <1>5, <2>2, UpToDateFits
  <2> QED
    BY <1>3, <2>1, <2>2
<1>9. Serving(w) => ReplacedIds(read) = {}
  <2> SUFFICES ASSUME Serving(w), NEW q \in read, q.replace, q.prior # None PROVE FALSE
    BY DEF ReplacedIds
  <2>1. PICK p \in plans : q.prior = p.prior /\ q.replace = p.replace
    BY <1>6
  <2>2. PICK s \in wk[w].scope : IsPlan(p, c(s), wk[w].obs[s], id(s), file[s])
    BY <1>3
  <2>3. Fits(c(s), wk[w].obs[s])
    BY <1>0, <1>2, <1>5 DEF AlignedAt
  <2>4. c(s) # None
    BY <2>1, <2>2 DEF IsPlan
  <2>5. ~Replaced(wk[w].obs[s], id(s), c(s), file[s])
    <3>1. wk[w].obs[s].len \in Nat /\ c(s).off \in Nat
      BY <1>5, <2>4, ArtifactBounds DEF Observation, Cursor
    <3> QED
      BY <1>4, <2>3, <2>4, <3>1 DEF Replaced, Fits, Same, id
  <2> QED
    BY <2>1, <2>2, <2>4, <2>5 DEF IsPlan
<1>10. \A s \in wk[w].scope : Settles(w, s)'
  BY <1>0, <1>1, <1>8 DEF Settles, Row
<1>11. wk'[w].pc \in {"rollup", "open"}
  BY <1>1
<1>12. AlignedAt(w)'
  BY <1>0, <1>1, <1>2, <1>4, <1>7, <1>9, <1>10, <1>11 DEF AlignedAt
<1> QED
  BY <1>0, <1>1, <1>12, OthersAligned DEF Aligned

\* The transactions of a build.  What they have in common:
LEMMA CommitAligned ==
    ASSUME Kernel, Aligned, NEW w \in Workers, wk[w].pc \in Built, UNCHANGED <<file, control>>,
           NEW b, NEW pc, NEW todo, pc \in Built,
           Commit(w, b, [wk[w] EXCEPT !.pc = pc, !.todo = todo]),
           pc \in Planned => wk[w].pc \in Planned,
           Serving(w) =>
              /\ pc \notin {"batch", "finalize", "begin", "open", "replan"}
              /\ pc \in Planned => \A s \in wk[w].scope :
                    (\E p \in wk[w].plans : p.obs = wk[w].obs[s]) \/ Fits(b.rows[file[s].id], file[s])
              /\ pc = "catchUp" => \A s \in wk[w].scope : Fits(b.rows[file[s].id], file[s])
    PROVE  Aligned'
<1>0. /\ TypeInv /\ wk[w].pc \in AtWork /\ wk[w].pc \in Informed /\ wk[w].pc \in Located \cup Built
      /\ wk[w].path \in Paths
  BY PhasesAre, WrittenIs DEF Kernel
<1>1. /\ artifact' = [artifact EXCEPT ![wk[w].path] = b] /\ wk'[w].pc = pc
      /\ wk'[w].path = wk[w].path /\ wk'[w].plans = wk[w].plans
      /\ wk'[w].obs = wk[w].obs /\ wk'[w].scope = wk[w].scope
      /\ \A v \in Workers \ {w} : wk'[v] = wk[v]
  <2>1. /\ artifact' = [artifact EXCEPT ![wk[w].path] = b]
        /\ wk'[w].pc = pc /\ wk'[w].todo = todo
        /\ wk'[w].obs = wk[w].obs /\ wk'[w].scope = wk[w].scope /\ wk'[w].plans = wk[w].plans
        /\ wk'[w].gen = wk[w].gen /\ wk'[w].prior = wk[w].prior /\ wk'[w].path = wk[w].path
        /\ wk'[w].stream = wk[w].stream /\ wk'[w].incremental = wk[w].incremental
        /\ wk'[w].planned = wk[w].planned
        /\ \A v \in Workers \ {w} : wk'[v] = wk[v]
    BY <1>0, CommitGives, Zenon
  <2> QED
    BY <2>1
<1>2. AlignedAt(w) /\ (Serving(w)' => Serving(w))
  BY <1>0, <1>1 DEF Aligned, Serving
<1>3. \A s \in wk[w].scope : Row(w, s)' = b.rows[file[s].id]
  BY <1>0, <1>1 DEF Row, TypeInv, Typed
<1>4. Serving(w)' /\ wk'[w].pc \in Planned => \A s \in wk'[w].scope : Settles(w, s)'
  <2> SUFFICES ASSUME Serving(w)', wk'[w].pc \in Planned, NEW s \in wk[w].scope PROVE Settles(w, s)'
    BY <1>1
  <2>1. (\E p \in wk[w].plans : p.obs = wk[w].obs[s]) \/ Fits(b.rows[file[s].id], file[s])
    BY <1>1, <1>2
  <2> QED
    BY <1>1, <1>3, <2>1 DEF Settles
<1>5. wk'[w].pc \in Informed => \A s \in wk'[w].scope : Same(wk'[w].obs[s], file'[s])
  BY <1>0, <1>1, <1>2 DEF AlignedAt
<1>6. wk'[w].pc \in Planned => \A p \in wk'[w].plans : p.obs = wk'[w].obs[p.obs.id[1]]
  BY <1>1, <1>2 DEF AlignedAt
<1>7. Serving(w)' =>
        /\ wk'[w].pc \notin {"batch", "finalize", "begin", "open", "replan"}
        /\ wk'[w].pc = "catchUp" => \A s \in wk'[w].scope : Fits(Row(w, s)', file'[s])
  BY <1>1, <1>2, <1>3
<1>8. AlignedAt(w)'
  BY <1>4, <1>5, <1>6, <1>7 DEF AlignedAt
<1> QED
  BY <1>0, <1>1, <1>8, OthersAligned DEF Aligned

\* A plan that is recorded leaves the cursor at the end of what was observed.
LEMMA RecordedFits ==
    ASSUME TypeInv, NEW w \in Workers, wk[w].pc \in Informed, NEW s \in wk[w].scope,
           Same(wk[w].obs[s], file[s]),
           NEW plans \in SUBSET wk[w].plans,
           \A p \in plans : p.obs = wk[w].obs[p.obs.id[1]]
    PROVE  /\ file[s].id \in IdsOf(plans) => /\ Fits(Recorded(plans, file[s].id), file[s])
                                             /\ \E p \in plans : p.obs = wk[w].obs[s]
           /\ file[s].id \in SourceIds
           /\ (\E p \in plans : p.obs = wk[w].obs[s]) => file[s].id \in IdsOf(plans)
<1>1. /\ wk[w].obs[s].id[1] = s /\ file[s].id = wk[w].obs[s].id /\ file[s].id \in SourceIds
  BY ObsTyped DEF Same
<1>2. ASSUME file[s].id \in IdsOf(plans)
      PROVE  /\ Fits(Recorded(plans, file[s].id), file[s])
             /\ \E p \in plans : p.obs = wk[w].obs[s]
  <2> DEFINE q == CHOOSE p \in plans : p.obs.id = file[s].id
  <2>1. q \in plans /\ q.obs.id = file[s].id
    BY <1>2 DEF IdsOf
  <2>2. Recorded(plans, file[s].id) = EndOf(q.obs)
    BY DEF Recorded
  <2> HIDE DEF q
  <2>3. q.obs = wk[w].obs[s]
    BY <1>1, <2>1
  <2> QED
    BY <2>1, <2>2, <2>3 DEF EndOf, Fits, Same
<1>3. (\E p \in plans : p.obs = wk[w].obs[s]) => file[s].id \in IdsOf(plans)
  BY <1>1 DEF IdsOf
<1> QED
  BY <1>1, <1>2, <1>3

LEMMA OpenAligned ==
    ASSUME Kernel, Aligned, NEW w \in Workers, Open(w)
    PROVE  Aligned'
<1> DEFINE b == OpenRefresh(Written(w), wk[w].plans, wk[w].gen)
           pc == IF wk[w].plans = {} THEN "seal" ELSE "facts"
           todo == wk[w].plans
           fresh == Fresh(wk[w].plans)
<1>0. /\ TypeInv /\ wk[w].pc \in Built /\ wk[w].pc = "open" /\ wk[w].pc \in Planned /\ pc \in Built
      /\ wk[w].pc \in Informed /\ UNCHANGED <<file, control>>
  BY ClassesAre, PhasesAre DEF Open, At, Kernel, sidecarVars
<1>1. Commit(w, b, [wk[w] EXCEPT !.pc = pc, !.todo = todo])
  BY DEF Open
<1>2. IsOpened(Written(w), b, wk[w].plans, wk[w].gen)
  BY <1>0, WrittenIs, OpenGives
<1>3. pc \in {"seal", "facts"}
  OBVIOUS
<1>4. fresh \in SUBSET wk[w].plans
  BY DEF Fresh
<1>5. /\ \A s \in wk[w].scope : Same(wk[w].obs[s], file[s])
      /\ \A p \in wk[w].plans : p.obs = wk[w].obs[p.obs.id[1]]
      /\ Serving(w) => \A s \in wk[w].scope : Settles(w, s)
  BY <1>0 DEF Aligned, AlignedAt
<1> HIDE DEF b, pc, todo
<1>6. ASSUME Serving(w), NEW s \in wk[w].scope
      PROVE  (\E p \in wk[w].plans : p.obs = wk[w].obs[s]) \/ Fits(b.rows[file[s].id], file[s])
  <2>1. /\ file[s].id \in SourceIds
        /\ file[s].id \in IdsOf(fresh) => \E p \in fresh : p.obs = wk[w].obs[s]
    <3>1. \A p \in fresh : p.obs = wk[w].obs[p.obs.id[1]]
      BY <1>4, <1>5
    <3>2. Same(wk[w].obs[s], file[s])
      BY <1>5
    <3> HIDE DEF fresh
    <3> QED
      BY <1>0, <1>4, <3>1, <3>2, RecordedFits
  <2>2. CASE file[s].id \in IdsOf(fresh)
    BY <1>4, <2>1, <2>2
  <2>3. CASE file[s].id \notin IdsOf(fresh)
    <3>1. b.rows[file[s].id] \in {None, Written(w).rows[file[s].id]}
      BY <1>2, <2>1, <2>3 DEF IsOpened
    <3>2. Written(w).rows[file[s].id] = Row(w, s)
      BY DEF Written, Row
    <3> QED
      BY <1>5, <1>6, <3>1, <3>2 DEF Settles, Fits
  <2> QED
    BY <2>2, <2>3
<1> HIDE DEF fresh
<1>7. pc # "catchUp" /\ pc \notin {"batch", "finalize", "begin", "open", "replan"}
  BY <1>3
<1> QED
  BY <1>0, <1>1, <1>6, <1>7, CommitAligned

LEMMA FactsAligned ==
    ASSUME Kernel, Aligned, NEW w \in Workers, Facts(w)
    PROVE  Aligned'
<1>0. /\ TypeInv /\ wk[w].pc \in Built /\ wk[w].pc = "facts" /\ UNCHANGED <<file, control>>
      /\ wk[w].pc \in Planned /\ wk[w].pc \in Informed /\ wk[w].pc \in AtWork
      /\ "facts" \in Built /\ "seal" \in Built
  BY ClassesAre, PhasesAre DEF Facts, At, Kernel, sidecarVars
<1>1. PICK plan \in wk[w].todo :
         \/ Commit(w, InsertFacts(Written(w), plan, wk[w].gen),
                   [wk[w] EXCEPT !.pc = IF wk[w].todo \ {plan} = {} THEN "seal" ELSE wk[w].pc,
                                 !.todo = wk[w].todo \ {plan}])
         \/ Raise(w) /\ UNCHANGED artifact
  BY DEF Facts
<1>2. CASE Raise(w) /\ UNCHANGED artifact
  BY <1>0, <1>2, GotoAligned, PhasesAre, StepsAre DEF Raise
<1>3. CASE Commit(w, InsertFacts(Written(w), plan, wk[w].gen),
                   [wk[w] EXCEPT !.pc = IF wk[w].todo \ {plan} = {} THEN "seal" ELSE wk[w].pc,
                                 !.todo = wk[w].todo \ {plan}])
  <2> DEFINE b == InsertFacts(Written(w), plan, wk[w].gen)
             todo == wk[w].todo \ {plan}
             pc == IF todo = {} THEN "seal" ELSE wk[w].pc
  <2>1. Commit(w, b, [wk[w] EXCEPT !.pc = pc, !.todo = todo])
    BY <1>3
  <2>2. IsInserted(Written(w), b, plan, wk[w].gen)
    BY <1>0, WrittenIs, InsertGives
  <2>3. pc \in {"seal", "facts"} /\ pc \in Built
    BY <1>0
  <2> HIDE DEF b, pc, todo
  <2>4. \A s \in wk[w].scope : b.rows[file[s].id] = Row(w, s)
    BY <2>2 DEF IsInserted, Written, Row
  <2>5. Serving(w) => \A s \in wk[w].scope :
           (\E p \in wk[w].plans : p.obs = wk[w].obs[s]) \/ Fits(b.rows[file[s].id], file[s])
    BY <1>0, <2>4 DEF Aligned, AlignedAt, Settles
  <2>6. pc # "catchUp" /\ pc \notin {"batch", "finalize", "begin", "open", "replan"}
    BY <2>3
  <2> QED
    BY <1>0, <2>1, <2>3, <2>5, <2>6, CommitAligned
<1> QED
  BY <1>1, <1>2, <1>3

LEMMA SealAligned ==
    ASSUME Kernel, Aligned, NEW w \in Workers, Seal(w)
    PROVE  Aligned'
<1> DEFINE b == SealRefresh(Written(w), wk[w].plans, wk[w].gen)
           pc == "catchUp"
           todo == wk[w].todo
           plans == wk[w].plans
<1>0. /\ TypeInv /\ wk[w].pc \in Built /\ wk[w].pc = "seal" /\ pc \in Built
      /\ wk[w].pc \in Planned /\ wk[w].pc \in Informed /\ UNCHANGED <<file, control>>
  BY ClassesAre, PhasesAre DEF Seal, At, Kernel, sidecarVars
<1>1. [wk[w] EXCEPT !.pc = pc] = [wk[w] EXCEPT !.pc = pc, !.todo = todo]
  BY <1>0, WorkerTyped DEF WorkerState
<1>2. Commit(w, b, [wk[w] EXCEPT !.pc = pc, !.todo = todo])
  BY <1>1 DEF Seal
<1>3. IsSealed(Written(w), b, plans, wk[w].gen)
  BY <1>0, WrittenIs, SealGives
<1>4. /\ \A s \in wk[w].scope : Same(wk[w].obs[s], file[s])
      /\ \A p \in plans : p.obs = wk[w].obs[p.obs.id[1]]
      /\ Serving(w) => \A s \in wk[w].scope : Settles(w, s)
  BY <1>0 DEF Aligned, AlignedAt
<1> HIDE DEF b, todo
<1>5. ASSUME Serving(w), NEW s \in wk[w].scope
      PROVE  Fits(b.rows[file[s].id], file[s])
  <2>1. /\ file[s].id \in SourceIds
        /\ file[s].id \in IdsOf(plans) => Fits(Recorded(plans, file[s].id), file[s])
        /\ (\E p \in plans : p.obs = wk[w].obs[s]) => file[s].id \in IdsOf(plans)
    BY <1>0, <1>4, RecordedFits
  <2>2. CASE file[s].id \in IdsOf(plans)
    BY <1>3, <2>1, <2>2 DEF IsSealed
  <2>3. CASE file[s].id \notin IdsOf(plans)
    <3>1. b.rows[file[s].id] = Row(w, s)
      BY <1>3, <2>1, <2>3 DEF IsSealed, Written, Row
    <3> QED
      BY <1>4, <1>5, <2>1, <2>3, <3>1 DEF Settles
  <2> QED
    BY <2>2, <2>3
<1>6. pc \notin Planned /\ pc \notin {"batch", "finalize", "begin", "open", "replan"}
  BY PhasesAre
<1> HIDE DEF pc
<1> QED
  BY <1>0, <1>2, <1>5, <1>6, CommitAligned

\* A streamed build is not written to what readers have.
LEMMA StreamAligned ==
    ASSUME Kernel, Aligned, NEW w \in Workers, Batch(w) \/ Finalize(w)
    PROVE  Aligned'
<1>0. /\ TypeInv /\ wk[w].pc \in Built /\ wk[w].pc \in {"batch", "finalize"} /\ UNCHANGED <<file, control>>
      /\ wk[w].pc \in Informed /\ wk[w].pc \in AtWork
      /\ "batch" \in Built /\ "finalize" \in Built /\ "catchUp" \in Built
      /\ {"batch", "finalize", "catchUp"} \cap Planned = {}
  BY ClassesAre, PhasesAre DEF Batch, Finalize, At, Kernel, sidecarVars
<1>1. ~Serving(w)
  BY <1>0 DEF Aligned, AlignedAt
<1>2. CASE Raise(w)
  BY <1>0, <1>2, GotoAligned, PhasesAre, StepsAre DEF Raise
<1>3. CASE Batch(w) /\ ~Raise(w)
  <2>1. PICK plan \in wk[w].todo :
           Commit(w, CommitBatch(Written(w), Parsed(plan, file[plan.obs.id[1]]), wk[w].gen,
                                 wk[w].todo = wk[w].plans),
                  [wk[w] EXCEPT !.pc = IF wk[w].todo \ {plan} = {} THEN "finalize" ELSE wk[w].pc,
                                !.todo = wk[w].todo \ {plan}])
    BY <1>3 DEF Batch
  <2> DEFINE b == CommitBatch(Written(w), Parsed(plan, file[plan.obs.id[1]]), wk[w].gen,
                              wk[w].todo = wk[w].plans)
             todo == wk[w].todo \ {plan}
             pc == IF todo = {} THEN "finalize" ELSE wk[w].pc
  <2>2. Commit(w, b, [wk[w] EXCEPT !.pc = pc, !.todo = todo])
    BY <2>1
  <2>3. pc \in Built /\ pc \notin Planned
    BY <1>0
  <2> HIDE DEF b, pc, todo
  <2> QED
    BY <1>0, <1>1, <2>2, <2>3, CommitAligned
<1>4. CASE Finalize(w)
  <2> DEFINE b == SealRefresh(Written(w), {}, wk[w].gen)
             pc == "catchUp"
             todo == wk[w].todo
  <2>1. [wk[w] EXCEPT !.pc = pc] = [wk[w] EXCEPT !.pc = pc, !.todo = todo]
    BY <1>0, WorkerTyped DEF WorkerState
  <2>2. Commit(w, b, [wk[w] EXCEPT !.pc = pc, !.todo = todo])
    BY <1>4, <2>1 DEF Finalize
  <2>3. pc \in Built /\ pc \notin Planned
    BY <1>0
  <2> HIDE DEF b, pc, todo
  <2> QED
    BY <1>0, <1>1, <2>2, <2>3, CommitAligned
<1> QED
  BY <1>2, <1>3, <1>4

LEMMA RollupAligned ==
    ASSUME Kernel, Aligned, NEW w \in Workers, Rollup(w)
    PROVE  Aligned'
<1>0. /\ TypeInv /\ wk[w].pc \in Built /\ wk[w].pc = "rollup" /\ UNCHANGED <<file, control>>
      /\ wk[w].pc \in Informed /\ wk[w].pc \in AtWork
  BY ClassesAre, PhasesAre DEF Rollup, At, Kernel, sidecarVars
<1>1. CASE Goto(w, "failRun")
  BY <1>0, <1>1, GotoAligned, PhasesAre, StepsAre
<1>2. CASE ~Goto(w, "failRun")
  <2>1. /\ wk'[w].pc = "promote" /\ wk'[w].obs = wk[w].obs /\ wk'[w].scope = wk[w].scope
        /\ \A v \in Workers \ {w} : wk'[v] = wk[v]
    BY <1>0, <1>2, RollupGives DEF SameBasics
  <2>2. \A s \in wk'[w].scope : Same(wk'[w].obs[s], file'[s])
    BY <1>0, <2>1 DEF Aligned, AlignedAt
  <2>3. AlignedAt(w)'
    BY <2>1, <2>2, PhasesAre DEF AlignedAt
  <2> QED
    BY <1>0, <2>1, <2>3, OthersAligned DEF Aligned
<1> QED
  BY <1>1, <1>2

\* While a worker is at work, a file it observed at most grows.
LEMMA ChangeAligned ==
    ASSUME Attended, Kernel, Aligned, NEW x \in Sources, ChangeFile(x)
    PROVE  Aligned'
<1>0. /\ TypeInv /\ UNCHANGED <<artifact, wk>> /\ UNCHANGED control
      /\ file \in [Sources -> Observation \cup {None}]
      /\ world.mid \subseteq {"append", "appear"}
  BY DEF ChangeFile, sidecarVars, Kernel, Attended, TypeInv, Typed
<1> SUFFICES ASSUME NEW w \in Workers PROVE AlignedAt(w)'
  BY DEF Aligned
<1>1. CASE wk[w].pc \notin Informed
  BY <1>0, <1>1, AlignedOff
<1>2. CASE wk[w].pc \in Informed
  <2>1. wk[w].pc \in Live
    BY <1>2 DEF Informed, Live, Unleased
  <2>2. \A kind : MayChange(kind) => kind \in {"append", "appear"}
    BY <1>0, <2>1 DEF MayChange
  <2>3. ASSUME NEW s \in wk[w].scope
        PROVE  /\ file[s] \in Observation /\ file'[s].id = file[s].id /\ file'[s].ver = file[s].ver
               /\ file[s].len \in Nat /\ file'[s].len \in Nat /\ file[s].len <= file'[s].len
    <3>1. s \in Sources /\ file[s] \in Observation
      BY <1>0, ScopeIs
    <3>2. file[s].len \in Nat
      BY <3>1, ArtifactBounds DEF Observation
    <3>3. CASE x # s
      <4>1. file'[s] = file[s]
        BY <1>0, <3>1, <3>3 DEF ChangeFile
      <4> QED
        BY <3>1, <3>2, <4>1
    <3>4. CASE x = s
      <4>1. file[x] # None
        BY <3>1, <3>4, AbsentArtifact
      <4>2. file' = [file EXCEPT ![x].len = file[x].len + 1]
        BY <2>2, <4>1 DEF ChangeFile
      <4>3. file'[s] = [file[s] EXCEPT !.len = file[s].len + 1]
        BY <1>0, <3>4, <4>2
      <4> QED
        BY <3>1, <3>2, <4>3 DEF Observation
    <3> QED
      BY <3>1, <3>2, <3>3, <3>4
  <2>4. ASSUME NEW s \in wk[w].scope
        PROVE  /\ wk[w].obs[s].len \in Nat
               /\ Row(w, s) = None \/ Row(w, s).off \in Nat \/ wk[w].path \notin Paths
    <3>1. wk[w].obs[s].len \in Nat /\ file[s].id \in SourceIds
      BY <1>0, <1>2, ObsTyped, ArtifactBounds DEF Observation
    <3>2. wk[w].path \in Paths => Row(w, s) \in Cursor \cup {None}
      BY <1>0, <3>1 DEF TypeInv, Typed, Row, Artifact
    <3> QED
      BY <3>1, <3>2, ArtifactBounds DEF Cursor
  <2>5. AlignedAt(w) /\ (Serving(w)' <=> Serving(w)) /\ (Serving(w) => wk[w].path \in Paths)
    <3>1. control.active \in Paths \cup {None}
      BY <1>0, ControlTyped
    <3> QED
      BY <1>0, <3>1 DEF Aligned, Serving
  <2>6. \A s \in wk[w].scope : Row(w, s)' = Row(w, s) /\ (Same(wk[w].obs[s], file[s]) => Same(wk[w].obs[s], file'[s]))
    BY <1>0, <2>3, <2>4 DEF Row, Same
  <2>7. \A s \in wk[w].scope : Serving(w) /\ Fits(Row(w, s), file[s]) => Fits(Row(w, s), file'[s])
    BY <2>3, <2>4, <2>5 DEF Fits
  <2>8. \A s \in wk[w].scope : Serving(w) /\ Settles(w, s) => Settles(w, s)'
    BY <1>0, <2>6, <2>7 DEF Settles
  <2>9. wk' = wk
    BY <1>0
  <2> QED
    BY <2>5, <2>6, <2>7, <2>8, <2>9 DEF AlignedAt
<1> QED
  BY <1>1, <1>2

LEMMA AlignedInit ==
    ASSUME Init
    PROVE  Aligned
<1> SUFFICES ASSUME NEW w \in Workers PROVE AlignedAt(w)
  BY DEF Aligned
<1>1. wk[w].pc = "idle"
  BY DEF Init, IdleWorker
<1>2. wk[w].pc \notin Informed
  BY <1>1, StepsAre
<1> QED
  BY <1>2, PhasesAre DEF AlignedAt, Serving

LEMMA AlignedSteps ==
    ASSUME Attended, Kernel, Ordered, Aligned, [Next]_vars
    PROVE  Aligned'
<1>1. ASSUME NEW w \in Workers, Step(w) \/ Fault(w) \/ Crash(w) PROVE Aligned'
  <2>1. CASE \/ Launch(w) \/ Initialize(w) \/ Wipe(w) \/ Observe(w) \/ Acquire(w)
             \/ Recover(w) \/ RecoverRollups(w) \/ RecoverBegin(w) \/ RecoverPromote(w)
             \/ Interrupt(w) \/ Discard(w) \/ Admit(w) \/ Catalog(w) \/ Capture(w)
             \/ Promote(w) \/ Register(w) \/ Complete(w) \/ FailRun(w) \/ Blame(w) \/ Condemn(w)
             \/ Fault(w) \/ Crash(w)
    BY <2>1, PlanlessAligned
  <2>2. CASE MakePlans(w) \/ Stage(w) \/ Fence(w) \/ Prepare(w) \/ Clone(w) \/ Begin(w)
    BY <2>2, MakePlansAligned, StageAligned, PrepareAligned, CloneAligned, BeginAligned
  <2>3. CASE Open(w) \/ Facts(w) \/ Seal(w) \/ Batch(w) \/ Finalize(w)
    BY <2>3, OpenAligned, FactsAligned, SealAligned, StreamAligned
  <2>4. CASE CatchUp(w) \/ Replan(w) \/ Rollup(w)
    BY <2>4, CatchUpAligned, ReplanAligned, RollupAligned
  <2> QED
    BY <1>1, <2>1, <2>2, <2>3, <2>4 DEF Step
<1>2. CASE UNCHANGED <<control, artifact, file, wk>>
  BY <1>2 DEF Aligned, AlignedAt, Serving, Settles, Row
<1>3. ASSUME NEW w \in Workers, LeaseExpires(w) \/ Heartbeat(w) PROVE Aligned'
  BY <1>2, <1>3 DEF LeaseExpires, Heartbeat
<1>4. CASE UNCHANGED vars
  BY <1>2, <1>4 DEF vars, sidecarVars
<1>5. CASE Rollback
  <2>1. \A w \in Workers : wk[w].pc \notin Live
    BY <1>5, RollbackQuiet DEF Kernel
  <2>2. \A w \in Workers : wk'[w].pc \notin Informed
    BY <1>5, <2>1 DEF Rollback, Informed, Live, Unleased
  <2> QED
    BY <2>2, AlignedOff DEF Aligned
<1> QED
  BY <1>1, <1>3, <1>4, <1>5, ChangeAligned DEF Next

-----------------------------------------------------------------------------
(* What readers are given. *)

\* One database was written to.
LEMMA VisibleKept ==
    ASSUME TypeInv, control'.active = control.active, control'.gen = control.gen,
           NEW path \in Paths, NEW b, artifact' = [artifact EXCEPT ![path] = b],
           path = control.active => VisibleLines(b, control.gen) = VisibleLines(artifact[path], control.gen)
    PROVE  Visible' = Visible
<1>1. artifact \in [Paths -> Artifact]
  BY DEF TypeInv, Typed
<1>2. CASE control.active = None
  BY <1>2 DEF Visible
<1>3. CASE control.active # None
  <2>1. control.active \in Paths
    BY <1>3, ControlTyped
  <2>2. Visible' = VisibleLines(artifact'[control.active], control.gen)
    BY <1>3 DEF Visible
  <2>3. Visible = VisibleLines(artifact[control.active], control.gen)
    BY <1>3 DEF Visible
  <2>4. artifact'[control.active] = IF path = control.active THEN b ELSE artifact[control.active]
    BY <1>1, <2>1
  <2> QED
    BY <2>2, <2>3, <2>4
<1> QED
  BY <1>2, <1>3

\* Facts of a generation that is not published are not seen.
LEMMA AddedUnseen ==
    ASSUME NEW a \in Artifact, NEW b, NEW p, NEW n \in Nat, b.facts = Added(a, p, n + 1)
    PROVE  VisibleLines(b, n) = VisibleLines(a, n)
<1> DEFINE new == {[line |-> l, gen |-> n + 1] : l \in p.lines \ LinesOf(a)}
<1>1. b.facts = a.facts \cup new
  BY DEF Added
<1>2. \A f \in new : ~(f.gen <= n)
  OBVIOUS
<1> HIDE DEF new
<1>3. {f \in b.facts : f.gen <= n} = {f \in a.facts : f.gen <= n}
  BY <1>1, <1>2
<1> QED
  BY <1>3 DEF VisibleLines

\* No transaction of a build changes the lines of the published generation.
LEMMA BuildUnseen ==
    ASSUME Kernel, Ordered, Aligned, NEW w \in Workers,
           Open(w) \/ Facts(w) \/ Seal(w) \/ Batch(w) \/ Finalize(w) \/ Rollup(w)
    PROVE  Visible' = Visible
<1>0. /\ TypeInv /\ wk[w].pc \in Built /\ UNCHANGED control /\ control.gen \in Nat
      /\ Written(w) \in Artifact /\ Written(w) = artifact[wk[w].path] /\ wk[w].path \in Paths
      /\ wk[w].gen \in Generations /\ wk[w].plans \in SUBSET Plan /\ wk[w].todo \in SUBSET Plan
      /\ wk[w].gen = control.gen + 1
  <2>1. wk[w].pc \in Built /\ UNCHANGED control
    BY ClassesAre DEF Open, Facts, Seal, Batch, Finalize, Rollup, At, sidecarVars
  <2>2. TypeInv /\ wk[w].gen = control.gen + 1
    BY <2>1, ClassesAre DEF Kernel, Ordered, Numbered
  <2> QED
    BY <2>1, <2>2, WrittenIs, ControlTyped
<1>1. ASSUME UNCHANGED artifact PROVE Visible' = Visible
  BY <1>0, <1>1 DEF Visible
<1>2. ASSUME NEW b, artifact' = [artifact EXCEPT ![wk[w].path] = b],
             wk[w].path = control.active => VisibleLines(b, control.gen) = VisibleLines(Written(w), control.gen)
      PROVE  Visible' = Visible
  <2> DEFINE path == wk[w].path
  <2>1. /\ path \in Paths /\ artifact' = [artifact EXCEPT ![path] = b]
        /\ path = control.active => VisibleLines(b, control.gen) = VisibleLines(artifact[path], control.gen)
        /\ control'.active = control.active /\ control'.gen = control.gen
    BY <1>0, <1>2
  <2> HIDE DEF path
  <2> QED
    BY <1>0, <2>1, VisibleKept
<1>3. CASE Open(w)
  <2> DEFINE plans == wk[w].plans
             b == OpenRefresh(Written(w), plans, wk[w].gen)
  <2>1. artifact' = [artifact EXCEPT ![wk[w].path] = b]
    BY <1>3 DEF Open, Commit
  <2>2. IsOpened(Written(w), b, plans, wk[w].gen)
    BY <1>0, OpenGives
  <2>3. wk[w].path = control.active => ReplacedIds(plans) = {}
    <3>1. wk[w].pc = "open" /\ control.active \in Paths \cup {None} /\ None \notin Paths
      BY <1>0, <1>3, ControlTyped DEF Open, At
    <3> QED
      BY <1>0, <3>1 DEF Aligned, AlignedAt, Serving
  <2> HIDE DEF b, plans
  <2>4. wk[w].path = control.active => b.facts = Written(w).facts
    BY <2>2, <2>3 DEF IsOpened, Cleared
  <2> QED
    BY <1>2, <2>1, <2>4 DEF VisibleLines
<1>4. CASE Facts(w)
  <2>1. PICK plan \in wk[w].todo :
           \/ artifact' = [artifact EXCEPT ![wk[w].path] = InsertFacts(Written(w), plan, wk[w].gen)]
           \/ UNCHANGED artifact
    BY <1>4 DEF Facts, Commit
  <2> DEFINE b == InsertFacts(Written(w), plan, wk[w].gen)
  <2>2. IsInserted(Written(w), b, plan, wk[w].gen)
    BY <1>0, InsertGives
  <2>3. artifact' = [artifact EXCEPT ![wk[w].path] = b] \/ UNCHANGED artifact
    BY <2>1
  <2> HIDE DEF b
  <2>4. VisibleLines(b, control.gen) = VisibleLines(Written(w), control.gen)
    BY <1>0, <2>2, AddedUnseen DEF IsInserted
  <2> QED
    BY <1>1, <1>2, <2>3, <2>4
<1>5. CASE Batch(w)
  <2>1. PICK plan \in wk[w].todo :
           \/ artifact' = [artifact EXCEPT ![wk[w].path] =
                  CommitBatch(Written(w), Parsed(plan, file[plan.obs.id[1]]), wk[w].gen,
                              wk[w].todo = wk[w].plans)]
           \/ UNCHANGED artifact
    BY <1>5 DEF Batch, Commit
  <2> DEFINE read == Parsed(plan, file[plan.obs.id[1]])
             first == wk[w].todo = wk[w].plans
             b == CommitBatch(Written(w), read, wk[w].gen, first)
  <2>2. read \in Plan /\ first \in BOOLEAN
    <3>1. plan \in Plan /\ file[plan.obs.id[1]] # None /\ plan.obs.id[1] \in Sources
      BY <1>0, <2>1, ScopeIs
    <3>2. file[plan.obs.id[1]] \in Observation
      BY <1>0, <3>1 DEF TypeInv, Typed
    <3> QED
      BY <3>1, <3>2, ParsedTyped
  <2>3. artifact' = [artifact EXCEPT ![wk[w].path] = b] \/ UNCHANGED artifact
    BY <2>1
  <2> HIDE DEF read, first
  <2>4. IsBatched(Written(w), b, read, wk[w].gen, first)
    BY <1>0, <2>2, BatchGives
  <2> HIDE DEF b
  <2>5. VisibleLines(b, control.gen) = VisibleLines(Written(w), control.gen)
    BY <1>0, <2>4, AddedUnseen DEF IsBatched
  <2> QED
    BY <1>1, <1>2, <2>3, <2>5
<1>6. CASE Seal(w) \/ Finalize(w)
  <2>1. PICK plans \in SUBSET Plan :
           artifact' = [artifact EXCEPT ![wk[w].path] = SealRefresh(Written(w), plans, wk[w].gen)]
    BY <1>0, <1>6 DEF Seal, Finalize, Commit
  <2> DEFINE b == SealRefresh(Written(w), plans, wk[w].gen)
  <2>2. IsSealed(Written(w), b, plans, wk[w].gen)
    BY <1>0, SealGives
  <2>3. artifact' = [artifact EXCEPT ![wk[w].path] = b]
    BY <2>1
  <2> HIDE DEF b
  <2>4. b.facts = Written(w).facts
    BY <2>2 DEF IsSealed
  <2> QED
    BY <1>2, <2>3, <2>4 DEF VisibleLines
<1>7. CASE Rollup(w)
  <2> DEFINE b == RolledUp(w)
  <2>1. artifact' = [artifact EXCEPT ![wk[w].path] = b] \/ UNCHANGED artifact
    BY <1>0, <1>7, RollupGives
  <2>2. b.facts = Written(w).facts
    <3>1. \/ b = AdvanceRollups(Written(w), wk[w].gen, wk[w].prior)
          \/ b = RebuildRollups(Written(w), wk[w].gen)
      BY DEF RolledUp
    <3> HIDE DEF b
    <3> QED
      BY <1>0, <3>1, RollsKeep
  <2> HIDE DEF b
  <2> QED
    BY <1>1, <1>2, <2>1, <2>2 DEF VisibleLines
<1> QED
  BY <1>3, <1>4, <1>5, <1>6, <1>7

\* Nor does any other step.
LEMMA NothingUnseen ==
    ASSUME Kernel, Ordered, Aligned, [Next]_vars,
           control'.active = control.active, control'.gen = control.gen
    PROVE  Visible' = Visible
<1>0. TypeInv /\ artifact \in [Paths -> Artifact]
  BY DEF Kernel, TypeInv, Typed
<1>1. CASE UNCHANGED artifact
  BY <1>1 DEF Visible
<1>2. ASSUME NEW w \in Workers, Wipe(w) PROVE Visible' = Visible
  <2>1. control.active = None
    BY <1>2 DEF Ordered, Numbered, Wipe, At
  <2> QED
    BY <2>1 DEF Visible
<1>3. ASSUME NEW w \in Workers, RecoverRollups(w) PROVE Visible' = Visible
  <2> DEFINE path == wk[w].read.staging
             a == artifact[path]
             b == IF RollupsReady(a, wk[w].read.gen)
                  THEN AdvanceRollups(a, wk[w].gen, wk[w].read.gen) ELSE RebuildRollups(a, wk[w].gen)
  <2>1. artifact' = [artifact EXCEPT ![path] = b]
    BY <1>3 DEF RecoverRollups
  <2>2. path \in Paths
    BY <1>0, <1>3, ControlTyped DEF RecoverRollups, At, Ordered, Numbered, Recovering
  <2>3. a \in Artifact
    BY <1>0, <2>2
  <2> HIDE DEF path
  <2>4. b.facts = a.facts
    <3> HIDE DEF a
    <3> QED
      BY <2>3, RollsKeep
  <2> HIDE DEF b
  <2>5. VisibleLines(b, control.gen) = VisibleLines(artifact[path], control.gen)
    BY <2>4 DEF VisibleLines, a
  <2> QED
    BY <1>0, <2>1, <2>2, <2>5, VisibleKept
<1>4. ASSUME NEW w \in Workers, Clone(w) PROVE Visible' = Visible
  <2>1. \/ artifact' = [artifact EXCEPT ![w] = artifact[wk[w].path]]
        \/ UNCHANGED artifact
    BY <1>4 DEF Clone
  <2>2. w \in Paths /\ w # control.active
    <3>1. wk[w].pc \in Early
      BY <1>4, ClassesAre DEF Clone, At
    <3> QED
      BY <1>0, <3>1, ControlTyped DEF Ordered, RecordsFit
  <2> QED
    BY <1>0, <1>1, <2>1, <2>2, VisibleKept
<1>5. ASSUME NEW w \in Workers,
             \/ Launch(w) \/ Initialize(w) \/ Observe(w) \/ Acquire(w)
             \/ Recover(w) \/ RecoverBegin(w) \/ RecoverPromote(w)
             \/ Interrupt(w) \/ Discard(w) \/ Admit(w)
             \/ MakePlans(w) \/ Stage(w) \/ Catalog(w) \/ Capture(w)
             \/ Fence(w) \/ Prepare(w) \/ Begin(w)
      PROVE  UNCHANGED artifact
  BY <1>5 DEF Launch, Initialize, Observe, Acquire, Recover, RecoverBegin, RecoverPromote, Interrupt,
              Discard, Admit, MakePlans, Stage, Catalog, Capture, Fence, Prepare, Begin
<1>6. ASSUME NEW w \in Workers,
             \/ CatchUp(w) \/ Replan(w) \/ Promote(w) \/ Register(w) \/ Complete(w)
             \/ FailRun(w) \/ Blame(w) \/ Condemn(w) \/ Fault(w) \/ Crash(w)
             \/ LeaseExpires(w) \/ Heartbeat(w)
      PROVE  UNCHANGED artifact
  BY <1>6 DEF CatchUp, Replan, Promote, Register, Complete, FailRun, Blame, Condemn, Fault, Crash,
              LeaseExpires, Heartbeat
<1>7. CASE (\E s \in Sources : ChangeFile(s)) \/ Rollback \/ UNCHANGED vars
  BY <1>1, <1>7 DEF ChangeFile, Rollback, vars
<1>8. ASSUME NEW w \in Workers,
             Open(w) \/ Facts(w) \/ Seal(w) \/ Batch(w) \/ Finalize(w) \/ Rollup(w)
      PROVE  Visible' = Visible
  BY <1>8, BuildUnseen
<1> QED
  BY <1>1, <1>2, <1>3, <1>4, <1>5, <1>6, <1>7, <1>8 DEF Next, Step

LEMMA AlignedHolds == Spec /\ Attended => [](Kernel /\ Ordered /\ Aligned)
<1>1. CASE Attended
  <2>1. Init => Kernel /\ Ordered /\ Aligned
    BY TypeInit, ExclusiveInit, OrderedInit, AlignedInit DEF Kernel
  <2>2. Kernel /\ Ordered /\ Aligned /\ [Next]_vars => (Kernel /\ Ordered /\ Aligned)'
    BY <1>1, TypeSteps, ExclusiveSteps, OrderedSteps, AlignedSteps DEF Kernel
  <2> QED
    BY <2>1, <2>2, PTL DEF Spec
<1>2. CASE ~Attended
  BY <1>2, PTL
<1> QED
  BY <1>1, <1>2

\* On an attended host readers keep the calls and activities they have until a
\* generation is published, although builds are written to the database that they
\* read: no build in place deletes a source, whatever catch-up finds, and the rows it
\* inserts are of a generation that is not published.  The allowance's rows, which it
\* rewrites, are not among them: AllowanceUndisturbed is false of the same builds.
THEOREM ReadersStayUndisturbed == Spec /\ Attended => ReadersUndisturbed
<1>1. Kernel /\ Ordered /\ Aligned /\ [Next]_vars
        => [control'.active = control.active /\ control'.gen = control.gen => Visible' = Visible]_vars
  BY NothingUnseen
<1> QED
  BY <1>1, AlignedHolds, PTL DEF Spec, ReadersUndisturbed

-----------------------------------------------------------------------------
(* Rollups and rows. *)

\* Files only come and grow, whatever dies or fails.
Growing == Attended /\ \A x \in Worlds : x.changes \subseteq {"append", "appear", "rollback"}

\* A database that serves generation "n", with perhaps one build on top: the rollups of
\* "n" count what its readers see, and those of the build, once they are there, count
\* every line.
Rolled(a, n) ==
    /\ \A f \in a.facts : f.gen <= n + 1
    /\ n > 0 => a.roll[n] = VisibleLines(a, n)
    /\ \A h \in Generations : h > n + 1 => a.roll[h] = None
    /\ n + 1 \in Generations /\ a.roll[n + 1] # None => /\ a.gens[n + 1] = "valid"
                                                        /\ a.roll[n + 1] = LinesOf(a)

\* ... and nothing on top of it that could be promoted.
Unbuilt(a, n) == n + 1 \in Generations => a.gens[n + 1] # "valid"

\* A sealed build on top of the published generation is the one that is staged.
RollsFit ==
    /\ Rolled(artifact[ActivePath], control.gen)
    /\ control.staging # None => Rolled(artifact[control.staging], control.gen)
    /\ control.rollback # None /\ rollbacks = 0 =>
          /\ Rolled(artifact[control.rollback], control.rollbackGen)
          /\ Unbuilt(artifact[control.rollback], control.rollbackGen)
    /\ Unbuilt(artifact[ActivePath], control.gen) \/ (staged /\ control.staging = ActivePath)

\* Workers in these have found nothing to recover, and have staged no build yet.
Settled == {"interrupt", "discard", "admit", "plan", "capture", "catalog", "stage", "prepare",
            "clone", "begin"}
Sealed  == {"catchUp", "replan", "rollup", "promote"}

\* A build starts from a database without leftovers and without rollups of its
\* generation, and is the one on record from then on.
RollsAt(w) ==
    /\ wk[w].pc \in Settled => Unbuilt(artifact[ActivePath], control.gen)
    /\ wk[w].pc \in Settled \ {"interrupt"} => control.state # "building"
    /\ wk[w].pc \in {"prepare"} \cup Chosen => staged
    /\ wk[w].pc \in Built =>
          /\ Rolled(artifact[wk[w].path], control.gen) /\ wk[w].prior = control.gen
          /\ wk[w].pc # "begin" => control.staging = wk[w].path
          /\ wk[w].pc \notin {"rollup", "promote"} => artifact[wk[w].path].roll[control.gen + 1] = None
          /\ wk[w].pc \in {"facts", "seal", "finalize"} =>
                artifact[wk[w].path].gens[control.gen + 1] # "absent"
          /\ wk[w].pc \in Sealed => artifact[wk[w].path].gens[control.gen + 1] = "valid"
    /\ wk[w].pc \in Recovering =>
          /\ artifact[control.staging].gens[control.gen + 1] = "valid" /\ wk[w].read.gen = control.gen
          /\ wk[w].pc # "recoverRollups" =>
                artifact[control.staging].roll[control.gen + 1] = LinesOf(artifact[control.staging])

Rolls == RollsFit /\ \A w \in Workers : RollsAt(w)

\* A build in place, or of nothing yet, replaces no source.
Unreplaced == \A w \in Workers : wk[w].pc = "open" => ReplacedIds(wk[w].plans) = {}

Rolling == Recovering \cup Settled \cup Chosen

LEMMA RollingIs ==
    /\ Rolling = {"recoverRollups", "recoverBegin", "recoverPromote", "interrupt", "discard", "admit",
                  "plan", "capture", "catalog", "stage", "prepare", "clone", "begin", "open", "facts",
                  "seal", "batch", "finalize", "catchUp", "replan", "rollup", "promote"}
    /\ Rolling \subseteq Informed /\ Rolling \subseteq AtWork
    /\ Built \subseteq Rolling /\ "prepare" \in Rolling
BY ClassesAre, StepsAre, WorkIs DEF Rolling, Recovering, Settled

LEMMA RollsOff ==
    ASSUME NEW w \in Workers, wk'[w].pc \notin Rolling
    PROVE  RollsAt(w)'
BY RollingIs DEF RollsAt, Rolling

LEMMA OthersRoll ==
    ASSUME Kernel, Rolls, NEW w \in Workers, \A v \in Workers \ {w} : wk'[v] = wk[v],
           \/ wk[w].pc \in AtWork
           \/ /\ UNCHANGED <<artifact, staged>> /\ control'.state \in {control.state, "failed"}
              /\ control'.active = control.active /\ control'.gen = control.gen
              /\ control'.staging = control.staging
    PROVE  \A v \in Workers \ {w} : RollsAt(v)'
<1> SUFFICES ASSUME NEW v \in Workers \ {w} PROVE RollsAt(v)'
  OBVIOUS
<1>1. CASE wk[w].pc \in AtWork
  <2>1. wk[v].pc \notin AtWork
    BY <1>1 DEF Kernel, Exclusive, Alone
  <2>2. wk'[v].pc \notin Rolling
    BY <2>1, RollingIs
  <2> QED
    BY <2>2, RollsOff
<1>2. CASE /\ UNCHANGED <<artifact, staged>> /\ control'.state \in {control.state, "failed"}
           /\ control'.active = control.active /\ control'.gen = control.gen
           /\ control'.staging = control.staging
  <2>1. RollsAt(v) /\ wk'[v] = wk[v] /\ ActivePath' = ActivePath
    BY <1>2 DEF Rolls, ActivePath
  <2>2. control'.state = "building" => control.state = "building"
    BY <1>2
  <2>3. artifact' = artifact /\ staged' = staged
    BY <1>2
  <2> QED
    BY <1>2, <2>1, <2>2, <2>3 DEF RollsAt, Rolled, Unbuilt, LinesOf, VisibleLines
<1> QED
  BY <1>1, <1>2

\* Steps that change neither the record's names nor a database.
LEMMA QuietRolls ==
    ASSUME Kernel, Rolls, NEW w \in Workers, \A v \in Workers \ {w} : wk'[v] = wk[v],
           control'.active = control.active, control'.gen = control.gen,
           control'.staging = control.staging, control'.rollback = control.rollback,
           control'.rollbackGen = control.rollbackGen, UNCHANGED <<artifact, rollbacks>>,
           staged => staged' \/ Unbuilt(artifact[ActivePath], control.gen),
           wk[w].pc \in AtWork \/ (UNCHANGED staged /\ control'.state \in {control.state, "failed"}),
           RollsAt(w)'
    PROVE  Rolls'
<1>1. ActivePath' = ActivePath /\ artifact' = artifact /\ rollbacks' = rollbacks /\ RollsFit
  BY DEF ActivePath, Rolls
<1>2. RollsFit'
  BY <1>1 DEF RollsFit, Rolled, Unbuilt, LinesOf, VisibleLines
<1>3. \A v \in Workers \ {w} : RollsAt(v)'
  BY OthersRoll
<1> QED
  BY <1>2, <1>3 DEF Rolls

LEMMA GotoRolls ==
    ASSUME Kernel, Rolls, NEW w \in Workers, NEW pc, Goto(w, pc), pc \notin Rolling,
           control'.active = control.active, control'.gen = control.gen,
           control'.staging = control.staging, control'.rollback = control.rollback,
           control'.rollbackGen = control.rollbackGen, UNCHANGED <<artifact, rollbacks>>,
           staged => staged' \/ Unbuilt(artifact[ActivePath], control.gen),
           wk[w].pc \in AtWork \/ (UNCHANGED staged /\ control'.state \in {control.state, "failed"})
    PROVE  Rolls'
<1>1. wk'[w].pc = pc /\ \A v \in Workers \ {w} : wk'[v] = wk[v]
  BY GotoGives DEF Kernel
<1>2. RollsAt(w)'
  BY <1>1, RollsOff
<1> QED
  BY <1>1, <1>2, QuietRolls

LEMMA EndRolls ==
    ASSUME Kernel, Rolls, NEW w \in Workers, NEW pc \in Ended, End(w, pc),
           control'.active = control.active, control'.gen = control.gen,
           control'.staging = control.staging, control'.rollback = control.rollback,
           control'.rollbackGen = control.rollbackGen, UNCHANGED <<artifact, rollbacks, staged>>,
           wk[w].pc \in AtWork \/ control'.state \in {control.state, "failed"}
    PROVE  Rolls'
<1>1. wk'[w].pc = pc /\ \A v \in Workers \ {w} : wk'[v] = wk[v]
  BY EndGives DEF Kernel
<1>2. pc \notin Rolling
  BY RollingIs DEF Ended
<1>3. RollsAt(w)'
  BY <1>1, <1>2, RollsOff
<1> QED
  BY <1>1, <1>3, QuietRolls

LEMMA PlainRolls ==
    ASSUME Kernel, Rolls, NEW w \in Workers,
           \/ Launch(w) \/ Initialize(w) \/ Observe(w) \/ Acquire(w) \/ Catalog(w) \/ Capture(w)
           \/ Register(w) \/ Complete(w) \/ FailRun(w) \/ Blame(w) \/ Condemn(w)
           \/ Fault(w) \/ Crash(w)
    PROVE  Rolls'
<1>0. control \in Control /\ TypeInv
  BY DEF Kernel, TypeInv, Typed, RefreshControlTypeOK
<1>1. /\ control'.active = control.active /\ control'.gen = control.gen
      /\ control'.staging = control.staging /\ control'.rollback = control.rollback
      /\ control'.rollbackGen = control.rollbackGen /\ UNCHANGED <<artifact, rollbacks>>
      /\ control'.state \in {control.state, "failed"}
  <2>1. CASE Condemn(w)
    BY <1>0, <2>1 DEF Condemn, FailCutover, Control
  <2>2. CASE UNCHANGED <<control, artifact, rollbacks>>
    BY <2>2
  <2> QED
    BY <2>1, <2>2 DEF Launch, Initialize, Observe, Acquire, Catalog, Capture, Register, Complete,
                      FailRun, Blame, Fault, Crash, sidecarVars
<1>2. CASE Launch(w) \/ Observe(w)
  <2>1. /\ wk'[w].pc \in {"initialize", "acquire"} /\ \A v \in Workers \ {w} : wk'[v] = wk[v]
    BY <1>0, <1>2, LaunchGives
  <2>2. RollsAt(w)'
    BY <2>1, RollsOff, RollingIs
  <2>3. UNCHANGED staged
    BY <1>2 DEF Launch, Observe, sidecarVars
  <2> QED
    BY <1>1, <2>1, <2>2, <2>3, QuietRolls
<1>3. CASE Catalog(w)
  <2>1. Goto(w, "complete") /\ wk[w].pc = "catalog"
    BY <1>3 DEF Catalog, At
  <2>2. Unbuilt(artifact[ActivePath], control.gen) /\ wk[w].pc \in AtWork /\ "complete" \notin Rolling
    BY <2>1, RollingIs DEF Rolls, RollsAt, Settled
  <2> QED
    BY <1>1, <2>1, <2>2, GotoRolls
<1>4. ASSUME UNCHANGED staged, NEW pc, Goto(w, pc), pc \notin Rolling PROVE Rolls'
  BY <1>1, <1>4, GotoRolls
<1>5. ASSUME UNCHANGED staged, NEW pc \in Ended, End(w, pc) PROVE Rolls'
  BY <1>1, <1>5, EndRolls
<1>6. CASE Initialize(w) \/ Capture(w) \/ Register(w) \/ FailRun(w) \/ Fault(w)
  <2>1. UNCHANGED staged
    BY <1>6 DEF Initialize, Capture, Register, FailRun, Fault, sidecarVars
  <2>2. \E pc : Goto(w, pc) /\ pc \notin Rolling
    BY <1>6, RollingIs DEF Initialize, Capture, Register, FailRun, Fault, Raise
  <2> QED
    BY <1>4, <2>1, <2>2
<1>7. CASE Acquire(w) \/ Complete(w) \/ Blame(w) \/ Condemn(w) \/ Crash(w)
  <2>1. UNCHANGED staged
    BY <1>7 DEF Acquire, Complete, Blame, Condemn, Crash, sidecarVars
  <2>2. (\E pc : Goto(w, pc) /\ pc \notin Rolling) \/ (\E pc \in Ended : End(w, pc))
    BY <1>7, RollingIs DEF Acquire, Complete, Blame, Condemn, Crash, Ended
  <2> QED
    BY <1>4, <1>5, <2>1, <2>2
<1> QED
  BY <1>2, <1>3, <1>6, <1>7

\* Steps of a worker that has found nothing to recover.
LEMMA SettledRolls ==
    ASSUME Kernel, Rolls, NEW w \in Workers,
           Interrupt(w) \/ Discard(w) \/ Admit(w) \/ MakePlans(w) \/ Stage(w) \/ Prepare(w)
    PROVE  Rolls'
<1>0. /\ control \in Control /\ TypeInv /\ wk[w].pc \in Settled /\ wk[w].pc \in AtWork
      /\ UNCHANGED <<artifact, rollbacks>>
  <2>1. wk[w].pc \in Settled /\ UNCHANGED <<artifact, rollbacks>>
    BY DEF Interrupt, Discard, Admit, MakePlans, Stage, Prepare, At, Settled, sidecarVars
  <2> QED
    BY <2>1, RollingIs DEF Kernel, TypeInv, Typed, RefreshControlTypeOK, Rolling
<1>1. /\ control'.active = control.active /\ control'.gen = control.gen
      /\ control'.staging = control.staging /\ control'.rollback = control.rollback
      /\ control'.rollbackGen = control.rollbackGen
      /\ Interrupt(w) \/ control'.state = control.state
  <2>1. CASE Interrupt(w)
    BY <1>0, <2>1 DEF Interrupt, FailCutover, Control
  <2>2. CASE UNCHANGED control
    BY <2>2
  <2> QED
    BY <2>1, <2>2 DEF Discard, Admit, MakePlans, Stage, Prepare, sidecarVars
<1>2. /\ Unbuilt(artifact[ActivePath], control.gen) /\ ActivePath' = ActivePath
      /\ wk[w].pc # "interrupt" => control.state # "building"
  BY <1>0, <1>1 DEF Rolls, RollsAt, ActivePath
<1>3. \/ wk'[w].pc \notin Rolling
      \/ /\ wk'[w].pc \in {"discard", "admit", "plan", "capture", "stage", "catalog", "prepare", "clone"}
         /\ control'.state # "building"
         /\ wk'[w].pc \in {"prepare", "clone"} => staged'
  <2>1. CASE Interrupt(w)
    <3>1. CASE Goto(w, "failRun")
      <4>1. wk'[w].pc = "failRun"
        BY <1>0, <3>1, GotoGives
      <4> QED
        BY <4>1, RollingIs
    <3>2. CASE Goto(w, "discard") /\ FailCutover
      <4>1. wk'[w].pc = "discard"
        BY <1>0, <3>2, GotoGives
      <4>2. control'.state = "failed"
        BY <1>0, <3>2 DEF FailCutover, Control
      <4> QED
        BY <4>1, <4>2
    <3> QED
      BY <2>1, <3>1, <3>2 DEF Interrupt, Raise
  <2>2. CASE Discard(w) \/ Admit(w)
    <3>1. wk'[w].pc \in {"admit", "plan"} /\ wk[w].pc # "interrupt"
      BY <1>0, <2>2, GotoGives DEF Discard, Admit, At
    <3>2. control' = control
      BY <2>2 DEF Discard, Admit
    <3> QED
      BY <1>2, <3>1, <3>2
  <2>3. CASE MakePlans(w)
    <3>1. wk'[w].pc \in {"capture", "stage"} /\ wk[w].pc # "interrupt"
      BY <1>0, <2>3, MakePlansGives DEF MakePlans, At
    <3>2. control' = control
      BY <2>3 DEF MakePlans, sidecarVars
    <3> QED
      BY <1>2, <3>1, <3>2
  <2>4. CASE Stage(w)
    <3>1. wk'[w].pc \in {"catalog", "prepare"} /\ wk[w].pc # "interrupt"
      BY <1>0, <2>4, GotoGives DEF Stage, At
    <3>2. control' = control /\ staged'
      BY <2>4 DEF Stage, StageCatalog
    <3> QED
      BY <1>2, <3>1, <3>2
  <2>5. CASE Prepare(w)
    <3>1. wk'[w].pc = "clone" /\ wk[w].pc = "prepare"
      BY <1>0, <2>5, PrepareGives DEF Prepare, At
    <3>2. control' = control /\ staged' = staged
      BY <2>5 DEF Prepare, sidecarVars
    <3>3. staged
      BY <3>1 DEF Rolls, RollsAt
    <3> QED
      BY <1>2, <3>1, <3>2, <3>3
  <2> QED
    BY <2>1, <2>2, <2>3, <2>4, <2>5
<1>4. \A v \in Workers \ {w} : wk'[v] = wk[v]
  BY <1>0, GotoGives, MakePlansGives, PrepareGives DEF Interrupt, Discard, Admit, Stage, Raise
<1>5. Unbuilt(artifact[ActivePath], control.gen)'
  BY <1>0, <1>1, <1>2 DEF Unbuilt
<1>6. RollsAt(w)'
  <2>1. CASE wk'[w].pc \notin Rolling
    BY <2>1, RollsOff
  <2>2. CASE /\ wk'[w].pc \in {"discard", "admit", "plan", "capture", "stage", "catalog", "prepare", "clone"}
             /\ control'.state # "building"
             /\ wk'[w].pc \in {"prepare", "clone"} => staged'
    <3>1. wk'[w].pc \notin Built /\ wk'[w].pc \notin Recovering
      BY <2>2, ClassesAre DEF Recovering
    <3>2. wk'[w].pc \in {"prepare"} \cup Chosen => staged'
      BY <2>2, StepsAre
    <3> QED
      BY <1>5, <2>2, <3>1, <3>2 DEF RollsAt
  <2> QED
    BY <1>3, <2>1, <2>2
<1> QED
  BY <1>0, <1>1, <1>2, <1>4, <1>6, QuietRolls

\* The recovery finds the build on top, or none.
LEMMA RecoverRolls ==
    ASSUME Kernel, Ordered, Rolls, NEW w \in Workers, Recover(w)
    PROVE  Rolls'
<1> DEFINE latest == IF control.staging = None THEN 0 ELSE LatestValid(artifact[control.staging])
           found == latest > control.gen /\ staged
           a == artifact[control.staging]
<1>0. /\ TypeInv /\ UNCHANGED <<control, artifact, rollbacks, staged>> /\ ActivePath' = ActivePath
      /\ wk[w].pc \in AtWork /\ control.gen \in Nat
  BY WorkIs, StepsAre, ControlTyped DEF Kernel, Recover, At, sidecarVars, ActivePath
<1>1. /\ found /\ ~RollupsReady(a, latest) => wk'[w].pc = "recoverRollups"
      /\ found /\ RollupsReady(a, latest) => wk'[w].pc \in {"recoverBegin", "recoverPromote"}
      /\ ~found => wk'[w].pc = IF control.state = "building" THEN "interrupt"
                               ELSE IF control.staging # None THEN "discard" ELSE "admit"
      /\ wk'[w].gen = IF found THEN latest ELSE control.gen
      /\ wk'[w].read = control
      /\ \A v \in Workers \ {w} : wk'[v] = wk[v]
  BY <1>0, RecoverGives
<1>2. CASE found
  <2>0. latest > control.gen /\ control.staging # None
    BY <1>0, <1>2
  <2>1. latest = control.gen + 1
    <3>1. wk'[w].pc \in Recovering
      BY <1>1, <1>2 DEF Recovering
    <3>2. Ordered'
      BY LearnOrdered
    <3>3. wk'[w].gen = control'.gen + 1
      BY <3>1, <3>2 DEF Ordered, Numbered
    <3> QED
      BY <1>0, <1>1, <1>2, <3>3
  <2>2. latest \in Generations /\ a.gens[latest] = "valid"
    BY <1>0, <2>0, LatestIs
  <2>3. wk'[w].pc # "recoverRollups" => a.roll[latest] = LinesOf(a)
    <3>1. Rolled(a, control.gen)
      BY <2>0 DEF Rolls, RollsFit
    <3>2. wk'[w].pc # "recoverRollups" => a.roll[latest] # None
      BY <1>1, <1>2 DEF RollupsReady
    <3> QED
      BY <2>1, <2>2, <3>1, <3>2 DEF Rolled
  <2>4. wk'[w].pc \in Recovering
    BY <1>1, <1>2 DEF Recovering
  <2>5. wk'[w].pc \notin Settled /\ wk'[w].pc \notin {"prepare"} \cup Chosen /\ wk'[w].pc \notin Built
    BY <2>4, ClassesAre, StepsAre DEF Recovering, Settled
  <2>6. RollsAt(w)'
    BY <1>0, <1>1, <2>1, <2>2, <2>3, <2>5 DEF RollsAt, LinesOf
  <2> QED
    BY <1>0, <1>1, <2>6, QuietRolls
<1>3. CASE ~found
  <2>1. /\ wk'[w].pc \in {"interrupt", "discard", "admit"}
        /\ wk'[w].pc # "interrupt" => control.state # "building"
    BY <1>1, <1>3
  <2>2. Unbuilt(artifact[ActivePath], control.gen)
    <3>1. CASE staged /\ control.staging = ActivePath
      <4>1. control.staging # None
        BY <1>0, <3>1, ActivePathTyped, ControlTyped
      <4>2. latest <= control.gen /\ latest \in Nat
        BY <1>0, <1>3, <3>1, <4>1, LatestIs, ArtifactBounds
      <4>3. control.gen + 1 \in Generations => a.gens[control.gen + 1] # "valid"
        <5> SUFFICES ASSUME control.gen + 1 \in Generations, a.gens[control.gen + 1] = "valid" PROVE FALSE
          OBVIOUS
        <5>1. latest = LatestValid(a)
          BY <4>1
        <5>2. control.gen + 1 <= LatestValid(a)
          BY LatestIs
        <5> QED
          BY <1>0, <4>2, <5>1, <5>2
      <4> QED
        BY <3>1, <4>3 DEF Unbuilt
    <3> QED
      BY <3>1 DEF Rolls, RollsFit
  <2>3. wk'[w].pc \notin Recovering /\ wk'[w].pc \notin {"prepare"} \cup Chosen /\ wk'[w].pc \notin Built
    BY <2>1, ClassesAre, StepsAre DEF Recovering
  <2>4. RollsAt(w)'
    BY <1>0, <2>1, <2>2, <2>3 DEF RollsAt, Unbuilt
  <2> QED
    BY <1>0, <1>1, <2>4, QuietRolls
<1> QED
  BY <1>2, <1>3

\* Steps of a build that write nothing.
LEMMA FenceRolls ==
    ASSUME Kernel, Rolls, NEW w \in Workers, Fence(w) \/ CatchUp(w) \/ Replan(w)
    PROVE  Rolls'
<1>0. /\ TypeInv /\ UNCHANGED <<control, artifact, rollbacks, staged>> /\ ActivePath' = ActivePath
      /\ wk[w].pc \in {"prepare"} \cup Chosen /\ wk[w].pc \in AtWork /\ RollsAt(w)
  BY RollingIs, StepsAre DEF Kernel, Fence, CatchUp, Replan, At, Fenced, sidecarVars, ActivePath, Rolls
<1>1. CASE Goto(w, "failRun")
  BY <1>0, <1>1, GotoRolls, RollingIs
<1>2. CASE /\ \/ wk'[w].pc = wk[w].pc
              \/ wk[w].pc = "catchUp" /\ wk'[w].pc = "replan"
              \/ wk[w].pc = "replan" /\ wk'[w].pc \in {"open", "rollup"}
           /\ wk'[w].path = wk[w].path /\ wk'[w].prior = wk[w].prior
           /\ \A v \in Workers \ {w} : wk'[v] = wk[v]
  <2>1. wk'[w].pc \notin Recovering /\ wk'[w].pc \in {"prepare"} \cup Chosen
    BY <1>0, <1>2, StepsAre DEF Recovering
  <2>2. /\ wk'[w].pc \in Settled => wk'[w].pc = wk[w].pc
        /\ wk'[w].pc \in Built => wk[w].pc \in Built
        /\ wk'[w].pc = "begin" <=> wk[w].pc = "begin"
        /\ wk'[w].pc \notin {"rollup", "promote"} => wk[w].pc \notin {"rollup", "promote"}
        /\ wk'[w].pc \in {"facts", "seal", "finalize"} => wk'[w].pc = wk[w].pc
        /\ wk'[w].pc \in Sealed => wk[w].pc \in Sealed
    BY <1>2, ClassesAre DEF Settled, Sealed
  <2>3. RollsAt(w)'
    BY <1>0, <1>2, <2>1, <2>2 DEF RollsAt, Unbuilt, Rolled, VisibleLines, LinesOf
  <2> QED
    BY <1>0, <1>2, <2>3, QuietRolls
<1> QED
  BY <1>0, <1>1, <1>2, FenceGives, CatchUpGives, ReplanGives DEF CatchUp, Replan, At

\* A write of one database.
LEMMA WriteRolls ==
    ASSUME Kernel, Rolls, NEW w \in Workers, wk[w].pc \in AtWork,
           NEW path \in Paths, NEW b, artifact' = [artifact EXCEPT ![path] = b],
           UNCHANGED <<control, staged, rollbacks>>,
           \A v \in Workers \ {w} : wk'[v] = wk[v],
           control.rollback # None => path # control.rollback,
           path \in {ActivePath, control.staging} => Rolled(b, control.gen),
           path = ActivePath => Unbuilt(b, control.gen) \/ (staged /\ control.staging = ActivePath),
           RollsAt(w)'
    PROVE  Rolls'
<1>0. /\ TypeInv /\ RollsFit /\ ActivePath' = ActivePath /\ ActivePath \in Paths
      /\ control.staging \in Paths \cup {None} /\ control.rollback \in Paths \cup {None}
  BY ActivePathTyped, ControlTyped DEF Kernel, Rolls, ActivePath
<1>1. /\ artifact'[path] = b /\ \A p \in Paths \ {path} : artifact'[p] = artifact[p]
      /\ control' = control /\ staged' = staged /\ rollbacks' = rollbacks
  BY DEF Kernel, TypeInv, Typed
<1>2. Rolled(artifact'[ActivePath], control.gen)
  BY <1>0, <1>1 DEF RollsFit
<1>3. control.staging # None => Rolled(artifact'[control.staging], control.gen)
  BY <1>0, <1>1 DEF RollsFit
<1>4. control.rollback # None /\ rollbacks = 0 =>
          /\ Rolled(artifact'[control.rollback], control.rollbackGen)
          /\ Unbuilt(artifact'[control.rollback], control.rollbackGen)
  BY <1>0, <1>1 DEF RollsFit
<1>5. Unbuilt(artifact'[ActivePath], control.gen) \/ (staged /\ control.staging = ActivePath)
  BY <1>0, <1>1 DEF RollsFit
<1> DEFINE c == artifact'
<1>6. /\ Rolled(c[ActivePath], control.gen)
      /\ control.staging # None => Rolled(c[control.staging], control.gen)
      /\ control.rollback # None /\ rollbacks = 0 =>
          /\ Rolled(c[control.rollback], control.rollbackGen)
          /\ Unbuilt(c[control.rollback], control.rollbackGen)
      /\ Unbuilt(c[ActivePath], control.gen) \/ (staged /\ control.staging = ActivePath)
  BY <1>2, <1>3, <1>4, <1>5
<1>7. RollsFit'
  BY <1>0, <1>1, <1>6 DEF RollsFit, Rolled, Unbuilt, VisibleLines, LinesOf
<1>8. \A v \in Workers \ {w} : RollsAt(v)'
  BY OthersRoll
<1> QED
  BY <1>7, <1>8 DEF Rolls

\* What the transactions make of rollups that are right.
LEMMA RolledKept ==
    ASSUME NEW a, NEW b, NEW n \in Nat, Rolled(a, n), b.facts = a.facts, b.roll = a.roll,
           a.roll[n + 1] = None
    PROVE  Rolled(b, n) /\ b.roll[n + 1] = None
BY DEF Rolled, VisibleLines, LinesOf

LEMMA RolledOpened ==
    ASSUME NEW a \in Artifact, NEW b, NEW plans, NEW n \in Nat, Rolled(a, n), n + 1 \in Generations,
           IsOpened(a, b, plans, n + 1), ReplacedIds(plans) = {}, a.roll[n + 1] = None
    PROVE  Rolled(b, n) /\ b.roll[n + 1] = None /\ b.gens[n + 1] # "absent"
<1>1. b.facts = a.facts
  BY DEF IsOpened, Cleared
<1> QED
  BY <1>1, RolledKept DEF IsOpened

LEMMA RolledAdded ==
    ASSUME NEW a \in Artifact, NEW b, NEW p, NEW n \in Nat, Rolled(a, n),
           b.facts = Added(a, p, n + 1), b.roll = a.roll, a.roll[n + 1] = None
    PROVE  Rolled(b, n) /\ b.roll[n + 1] = None
<1>1. VisibleLines(b, n) = VisibleLines(a, n)
  BY AddedUnseen
<1>2. \A f \in b.facts : f.gen <= n + 1
  <2> SUFFICES ASSUME NEW f \in b.facts PROVE f.gen <= n + 1
    OBVIOUS
  <2>1. f \in a.facts \/ f.gen = n + 1
    BY DEF Added
  <2> QED
    BY <2>1 DEF Rolled
<1> QED
  BY <1>1, <1>2 DEF Rolled

LEMMA AllCounted ==
    ASSUME NEW a \in Artifact, NEW n \in Nat, Rolled(a, n)
    PROVE  /\ VisibleLines(a, n + 1) = LinesOf(a)
           /\ n > 0 => a.roll[n] \cup Counted(a, n + 1) = LinesOf(a)
<1>1. \A f \in a.facts : f.gen \in Nat /\ f.gen <= n + 1
  BY DEF Rolled, Artifact, Fact, Generations
<1>2. VisibleLines(a, n + 1) = LinesOf(a)
  BY <1>1 DEF VisibleLines, LinesOf
<1>3. VisibleLines(a, n) \cup Counted(a, n + 1) = LinesOf(a)
  <2>1. \A f \in a.facts : f.gen <= n \/ f.gen = n + 1
    BY <1>1
  <2> QED
    BY <2>1 DEF VisibleLines, LinesOf, Counted
<1> QED
  BY <1>2, <1>3 DEF Rolled

LEMMA TopRolled ==
    ASSUME NEW a \in Artifact, NEW b, NEW n \in Nat, Rolled(a, n), n + 1 \in Generations,
           a.gens[n + 1] = "valid", IsRolled(a, b, n + 1, LinesOf(a))
    PROVE  Rolled(b, n) /\ b.gens[n + 1] = "valid" /\ b.roll[n + 1] = LinesOf(b)
<1>1. /\ VisibleLines(b, n) = VisibleLines(a, n) /\ LinesOf(b) = LinesOf(a)
      /\ b.gens = a.gens /\ b.facts = a.facts
      /\ \A h \in Generations \ {n + 1} : b.roll[h] = a.roll[h]
      /\ b.roll[n + 1] = LinesOf(a)
  BY DEF IsRolled, VisibleLines, LinesOf
<1>2. n > 0 => n \in Generations \ {n + 1}
  BY ArtifactBounds DEF Generations
<1>3. \A f \in b.facts : f.gen <= n + 1
  BY <1>1 DEF Rolled
<1>4. n > 0 => b.roll[n] = VisibleLines(b, n)
  BY <1>1, <1>2 DEF Rolled
<1>5. \A h \in Generations : h > n + 1 => b.roll[h] = None
  <2> SUFFICES ASSUME NEW h \in Generations, h > n + 1 PROVE b.roll[h] = None
    OBVIOUS
  <2>1. h # n + 1
    BY DEF Generations
  <2> QED
    BY <1>1, <2>1 DEF Rolled
<1>6. b.gens[n + 1] = "valid" /\ b.roll[n + 1] = LinesOf(b)
  BY <1>1
<1> QED
  BY <1>3, <1>4, <1>5, <1>6 DEF Rolled

LEMMA WipeRolls ==
    ASSUME Kernel, Ordered, Rolls, NEW w \in Workers, Wipe(w)
    PROVE  Rolls'
<1> DEFINE b == EmptyArtifact
<1>1. /\ wk'[w].pc = "observe" /\ \A v \in Workers \ {w} : wk'[v] = wk[v]
      /\ wk[w].pc = "wipe" /\ UNCHANGED <<control, staged, rollbacks>>
      /\ artifact' = [artifact EXCEPT ![Base] = b]
  BY GotoGives DEF Wipe, At, Kernel, sidecarVars
<1>2. wk[w].pc \in AtWork /\ RollsAt(w)'
  BY <1>1, WorkIs, RollsOff, RollingIs
<1>3. control.active = None /\ RecordsFit
  BY <1>1 DEF Ordered, Numbered
<1>4. control.gen = 0 /\ control.rollback = None
  BY <1>3, ControlTyped DEF Kernel, RecordsFit
<1>5. Rolled(b, control.gen) /\ Unbuilt(b, control.gen)
  BY <1>4 DEF EmptyArtifact, Rolled, Unbuilt
<1>6. Base \in Paths
  BY DEF Paths
<1> HIDE DEF b
<1> QED
  BY <1>1, <1>2, <1>4, <1>5, <1>6, WriteRolls

LEMMA RecoverRollupsRolls ==
    ASSUME Kernel, Ordered, Rolls, NEW w \in Workers, RecoverRollups(w)
    PROVE  Rolls'
<1> DEFINE path == control.staging
           a == artifact[path]
           n == control.gen
           b == IF RollupsReady(a, n) THEN AdvanceRollups(a, n + 1, n) ELSE RebuildRollups(a, n + 1)
<1>1. /\ wk[w].pc = "recoverRollups" /\ UNCHANGED <<control, staged, rollbacks>>
      /\ wk[w].pc \in AtWork /\ wk[w].pc \in Recovering
  BY WorkIs, StepsAre DEF RecoverRollups, At, sidecarVars, Recovering
<1>2. /\ wk[w].read.staging = control.staging /\ control.staging # None /\ wk[w].gen = n + 1
      /\ wk[w].read.gen = n /\ a.gens[n + 1] = "valid"
      /\ path \in Paths \ {control.rollback} /\ a \in Artifact /\ n \in Nat
      /\ Rolled(a, n)
  <2>1. Numbered(w) /\ RollsAt(w) /\ RecordsFit /\ RollsFit
    BY DEF Ordered, Rolls
  <2>2. control.staging # None
    BY <1>1, <2>1 DEF Numbered
  <2> QED
    BY <1>1, <2>1, <2>2, ControlTyped DEF Numbered, RollsAt, RecordsFit, RollsFit, Kernel
<1>3. /\ artifact' = [artifact EXCEPT ![path] = b]
      /\ \E pc \in {"recoverBegin", "recoverPromote"} : Goto(w, pc)
  BY <1>2 DEF RecoverRollups
<1>4. /\ wk'[w].pc \in {"recoverBegin", "recoverPromote"} /\ \A v \in Workers \ {w} : wk'[v] = wk[v]
      /\ wk'[w].read = wk[w].read
  BY <1>3, GotoGives DEF Kernel
<1>5. n + 1 \in Generations
  <2>1. wk[w].gen \in 0 .. MaxGeneration
    BY WorkerTyped DEF WorkerState, Kernel
  <2> QED
    BY <1>2, <2>1, ArtifactBounds DEF Generations
<1> HIDE DEF a, n
<1>6. IsRolled(a, b, n + 1, LinesOf(a))
  <2>1. CASE RollupsReady(a, n)
    <3>1. b = AdvanceRollups(a, n + 1, n)
      BY <2>1
    <3>2. n > 0
      BY <2>1, <1>2 DEF RollupsReady, Generations
    <3>3. a.roll[n] \cup Counted(a, n + 1) = LinesOf(a)
      BY <1>2, <3>2, AllCounted
    <3> HIDE DEF b
    <3> QED
      BY <1>2, <3>1, <3>3, AdvanceGives
  <2>2. CASE ~RollupsReady(a, n)
    <3>1. b = RebuildRollups(a, n + 1)
      BY <2>2
    <3>2. VisibleLines(a, n + 1) = LinesOf(a)
      BY <1>2, AllCounted
    <3> HIDE DEF b
    <3> QED
      BY <1>2, <3>1, <3>2, RebuildGives
  <2> QED
    BY <2>1, <2>2
<1> HIDE DEF b
<1>7. Rolled(b, n) /\ b.gens[n + 1] = "valid" /\ b.roll[n + 1] = LinesOf(b)
  <2>1. a \in Artifact /\ n \in Nat /\ Rolled(a, n) /\ a.gens[n + 1] = "valid"
    BY <1>2
  <2> QED
    BY <1>5, <1>6, <2>1, TopRolled
<1>8. b.gens = a.gens
  BY <1>6 DEF IsRolled
<1>9. artifact'[path] = b
  BY <1>2, <1>3 DEF Kernel, TypeInv, Typed
<1>10. RollsAt(w)'
  <2>1. wk'[w].pc \notin Settled /\ wk'[w].pc \notin {"prepare"} \cup Chosen /\ wk'[w].pc \notin Built
    BY <1>4, ClassesAre, StepsAre DEF Settled
  <2>2. /\ artifact'[control.staging].gens[control.gen + 1] = "valid" /\ wk'[w].read.gen = control.gen
        /\ artifact'[control.staging].roll[control.gen + 1] = LinesOf(artifact'[control.staging])
    BY <1>2, <1>4, <1>7, <1>9 DEF n
  <2> HIDE DEF path
  <2> QED
    BY <1>1, <2>1, <2>2 DEF RollsAt, LinesOf
<1>11. path = ActivePath => Unbuilt(b, n) \/ (staged /\ control.staging = ActivePath)
  <2> SUFFICES ASSUME path = ActivePath PROVE Unbuilt(b, n) \/ (staged /\ control.staging = ActivePath)
    OBVIOUS
  <2>1. Unbuilt(artifact[ActivePath], control.gen) \/ (staged /\ control.staging = ActivePath)
    BY DEF Rolls, RollsFit
  <2> QED
    BY <1>8, <2>1 DEF Unbuilt, a, n
<1>12. path \in Paths /\ path # control.rollback
  BY <1>2
<1>13. artifact' = [artifact EXCEPT ![path] = b] /\ Rolled(b, control.gen)
  BY <1>3, <1>7 DEF n
<1>14. path = ActivePath => Unbuilt(b, control.gen) \/ (staged /\ control.staging = ActivePath)
  BY <1>11 DEF n
<1> HIDE DEF path
<1> QED
  BY <1>1, <1>4, <1>10, <1>12, <1>13, <1>14, WriteRolls

LEMMA CloneRolls ==
    ASSUME Kernel, Ordered, Rolls, NEW w \in Workers, Clone(w)
    PROVE  Rolls'
<1>0. /\ wk[w].pc = "clone" /\ TypeInv /\ RecordsFit /\ Numbered(w) /\ RollsAt(w)
      /\ UNCHANGED <<control, staged, rollbacks>>
      /\ wk[w].pc \in AtWork /\ wk[w].pc \in Early /\ wk[w].pc \in Chosen
      /\ ActivePath \in Paths /\ artifact \in [Paths -> Artifact] /\ w \in Paths
      /\ control.gen + 1 \in Generations
  <2>1. wk[w].gen = control.gen + 1 /\ wk[w].gen \in Generations
    BY ScopeIs, StepsAre DEF Clone, At, Kernel, Ordered, Numbered
  <2> QED
    BY <2>1, ClassesAre, WorkIs, StepsAre, ActivePathTyped, ControlTyped
       DEF Clone, At, Kernel, Ordered, Rolls, sidecarVars
<1>1. /\ wk[w].path = ActivePath /\ staged /\ control.state # "building"
      /\ w \notin {control.active, control.rollback, control.staging}
      /\ Unbuilt(artifact[ActivePath], control.gen) /\ Rolled(artifact[ActivePath], control.gen)
  BY <1>0 DEF Numbered, RecordsFit, Located, RollsAt, Settled, Rolls, RollsFit
<1>2. ActivePath # w
  BY <1>1, BaseAssumption DEF ActivePath
<1>3. PICK isolated \in BOOLEAN :
         /\ artifact' = IF isolated THEN [artifact EXCEPT ![w] = artifact[wk[w].path]] ELSE artifact
         /\ wk'[w].pc = "begin" /\ wk'[w].prior = control.gen
         /\ wk'[w].path = IF isolated THEN w ELSE wk[w].path
         /\ \A v \in Workers \ {w} : wk'[v] = wk[v]
  BY <1>0, CloneGives
<1>4. /\ wk'[w].pc \notin Recovering /\ wk'[w].pc \notin Sealed
      /\ wk'[w].pc \notin {"facts", "seal", "finalize"}
  BY <1>3 DEF Recovering, Sealed
<1>5. ActivePath' = ActivePath
  BY <1>0 DEF ActivePath
<1>6. artifact'[ActivePath] = artifact[ActivePath] /\ artifact'[wk'[w].path] = artifact[ActivePath]
  BY <1>0, <1>1, <1>2, <1>3
<1>7. artifact[ActivePath].roll[control.gen + 1] = None
  BY <1>0, <1>1 DEF Rolled, Unbuilt
<1>8. RollsAt(w)'
  BY <1>0, <1>1, <1>3, <1>4, <1>5, <1>6, <1>7 DEF RollsAt, Rolled, Unbuilt, VisibleLines, LinesOf
<1>9. CASE isolated
  <2> DEFINE b == artifact[wk[w].path]
  <2>1. artifact' = [artifact EXCEPT ![w] = b]
    BY <1>3, <1>9
  <2>2. w # ActivePath /\ w \notin {ActivePath, control.staging} /\ w # control.rollback
    BY <1>1, <1>2
  <2> HIDE DEF b
  <2> QED
    BY <1>0, <1>3, <1>8, <2>1, <2>2, WriteRolls
<1>10. CASE ~isolated
  BY <1>0, <1>3, <1>8, <1>10, QuietRolls
<1> QED
  BY <1>9, <1>10

LEMMA BeginRolls ==
    ASSUME Kernel, Ordered, Rolls, NEW w \in Workers, Begin(w)
    PROVE  Rolls'
<1>0. /\ wk[w].pc = "begin" /\ TypeInv /\ RollsAt(w) /\ RollsFit
      /\ UNCHANGED <<artifact, staged, rollbacks>>
      /\ wk[w].pc \in AtWork /\ wk[w].pc \in Built /\ wk[w].pc \in Chosen /\ control \in Control
  BY ClassesAre, WorkIs, StepsAre
     DEF Begin, At, Kernel, Rolls, TypeInv, Typed, RefreshControlTypeOK
<1>1. /\ staged /\ control.state # "building"
      /\ Unbuilt(artifact[ActivePath], control.gen)
      /\ Rolled(artifact[wk[w].path], control.gen) /\ wk[w].prior = control.gen
      /\ artifact[wk[w].path].roll[control.gen + 1] = None
  BY <1>0 DEF RollsAt, Settled
<1>2. /\ wk'[w].pc \in {"batch", "open"} /\ wk'[w].path = wk[w].path /\ wk'[w].prior = wk[w].prior
      /\ \A v \in Workers \ {w} : wk'[v] = wk[v]
  BY <1>0, BeginGives
<1>3. /\ wk'[w].pc \notin Recovering /\ wk'[w].pc \notin Sealed /\ wk'[w].pc \notin Settled
      /\ wk'[w].pc \notin {"facts", "seal", "finalize"}
  BY <1>2 DEF Recovering, Sealed, Settled
<1>4. /\ control'.active = control.active /\ control'.gen = control.gen
      /\ control'.rollback = control.rollback /\ control'.rollbackGen = control.rollbackGen
      /\ control'.staging = wk[w].path
  BY <1>0, <1>1 DEF Begin, BeginCutover, Control
<1>5. ActivePath' = ActivePath
  BY <1>4 DEF ActivePath
<1>6. RollsFit'
  BY <1>0, <1>1, <1>4, <1>5 DEF RollsFit, Rolled, Unbuilt, VisibleLines, LinesOf
<1>7. RollsAt(w)'
  BY <1>0, <1>1, <1>2, <1>3, <1>4, <1>5 DEF RollsAt, Rolled, VisibleLines, LinesOf
<1> QED
  BY <1>0, <1>2, <1>6, <1>7, OthersRoll DEF Rolls

\* A commit of a build.
LEMMA BuildWriteRolls ==
    ASSUME Kernel, Ordered, Rolls, NEW w \in Workers, wk[w].pc \in Built \ {"begin"},
           NEW b, artifact' = [artifact EXCEPT ![wk[w].path] = b],
           UNCHANGED <<control, staged, rollbacks>>,
           wk'[w].pc \in Built \ {"begin"}, wk'[w].path = wk[w].path, wk'[w].prior = wk[w].prior,
           \A v \in Workers \ {w} : wk'[v] = wk[v],
           Rolled(b, control.gen),
           wk'[w].pc \notin {"rollup", "promote"} => b.roll[control.gen + 1] = None,
           wk'[w].pc \in {"facts", "seal", "finalize"} => b.gens[control.gen + 1] # "absent",
           wk'[w].pc \in Sealed => b.gens[control.gen + 1] = "valid"
    PROVE  Rolls'
<1>0. /\ TypeInv /\ RecordsFit /\ RollsAt(w) /\ wk[w].pc \in AtWork /\ wk[w].pc \in Chosen
      /\ wk'[w].pc \in Chosen /\ wk'[w].pc \notin Settled /\ wk'[w].pc \notin Recovering
  BY ClassesAre, StepsAre DEF Kernel, Ordered, Rolls, Settled, Recovering
<1>1. /\ staged /\ control.staging = wk[w].path /\ wk[w].prior = control.gen
      /\ wk[w].path \in Paths /\ wk[w].path # None
  BY <1>0, WrittenIs, ControlTyped DEF RollsAt
<1>2. control.staging # control.rollback
  BY <1>0, <1>1 DEF RecordsFit
<1> DEFINE path == wk[w].path
<1>3. /\ artifact' = [artifact EXCEPT ![path] = b] /\ path \in Paths /\ path # control.rollback
      /\ path = ActivePath => Unbuilt(b, control.gen) \/ (staged /\ control.staging = ActivePath)
  BY <1>1, <1>2
<1>4. artifact'[path] = b /\ wk'[w].path = path
  BY <1>3 DEF Kernel, TypeInv, Typed
<1>5. wk[w].path = path
  OBVIOUS
<1> HIDE DEF path
<1>6. RollsAt(w)'
  BY <1>0, <1>1, <1>4, <1>5 DEF RollsAt, Rolled, VisibleLines, LinesOf
<1> QED
  BY <1>0, <1>3, <1>6, WriteRolls

LEMMA CommitRolls ==
    ASSUME Kernel, Ordered, Rolls, NEW w \in Workers, wk[w].pc \in Built \ {"begin"},
           NEW b, NEW pc \in Built \ {"begin"}, NEW todo,
           Commit(w, b, [wk[w] EXCEPT !.pc = pc, !.todo = todo]), UNCHANGED <<control, staged, rollbacks>>,
           Rolled(b, control.gen),
           pc \notin {"rollup", "promote"} => b.roll[control.gen + 1] = None,
           pc \in {"facts", "seal", "finalize"} => b.gens[control.gen + 1] # "absent",
           pc \in Sealed => b.gens[control.gen + 1] = "valid"
    PROVE  Rolls'
<1>0. TypeInv
  BY DEF Kernel
<1>1. /\ artifact' = [artifact EXCEPT ![wk[w].path] = b]
      /\ wk'[w].pc = pc /\ wk'[w].todo = todo
      /\ wk'[w].obs = wk[w].obs /\ wk'[w].scope = wk[w].scope /\ wk'[w].plans = wk[w].plans
      /\ wk'[w].gen = wk[w].gen /\ wk'[w].prior = wk[w].prior /\ wk'[w].path = wk[w].path
      /\ wk'[w].stream = wk[w].stream /\ wk'[w].incremental = wk[w].incremental
      /\ wk'[w].planned = wk[w].planned
      /\ \A v \in Workers \ {w} : wk'[v] = wk[v]
  BY <1>0, CommitGives, Zenon
<1> QED
  BY <1>1, BuildWriteRolls

\* What holds of a build before one of its commits.
LEMMA BuildIs ==
    ASSUME Kernel, Ordered, Rolls, NEW w \in Workers, wk[w].pc \in Built \ {"begin"}
    PROVE  /\ TypeInv /\ Written(w) \in Artifact /\ wk[w].plans \in SUBSET Plan /\ wk[w].todo \in SUBSET Plan
           /\ wk[w].gen = control.gen + 1 /\ control.gen \in Nat /\ control.gen + 1 \in Generations
           /\ Rolled(Written(w), control.gen) /\ wk[w].prior = control.gen
           /\ wk[w].pc \notin {"rollup", "promote"} => Written(w).roll[control.gen + 1] = None
           /\ wk[w].pc \in {"facts", "seal", "finalize"} => Written(w).gens[control.gen + 1] # "absent"
           /\ wk[w].pc \in Sealed => Written(w).gens[control.gen + 1] = "valid"
<1>1. TypeInv /\ RollsAt(w) /\ Numbered(w) /\ wk[w].pc \in Chosen /\ control.gen \in Nat
  BY ClassesAre, ControlTyped DEF Kernel, Ordered, Rolls
<1> QED
  BY <1>1, WrittenIs DEF RollsAt, Numbered, Written

LEMMA OpenRolls ==
    ASSUME Kernel, Ordered, Rolls, Unreplaced, NEW w \in Workers, Open(w)
    PROVE  Rolls'
<1> DEFINE n == control.gen
           a == Written(w)
           plans == wk[w].plans
           b == OpenRefresh(a, plans, wk[w].gen)
           pc == IF plans = {} THEN "seal" ELSE "facts"
<1>1. /\ wk[w].pc = "open" /\ wk[w].pc \in Built \ {"begin"} /\ pc \in {"seal", "facts"}
      /\ pc \in Built \ {"begin"} /\ pc \notin Sealed /\ UNCHANGED <<control, staged, rollbacks>>
  BY ClassesAre DEF Open, At, sidecarVars, Sealed
<1>2. Commit(w, b, [wk[w] EXCEPT !.pc = pc, !.todo = plans])
  BY DEF Open
<1>3. /\ a \in Artifact /\ wk[w].gen = n + 1 /\ n \in Nat /\ n + 1 \in Generations
      /\ Rolled(a, n) /\ a.roll[n + 1] = None
  BY <1>1, BuildIs
<1>4. ReplacedIds(plans) = {}
  BY <1>1 DEF Unreplaced
<1> HIDE DEF a, plans, n, pc
<1>5. IsOpened(a, b, plans, n + 1)
  BY <1>3, OpenGives
<1> HIDE DEF b
<1>6. Rolled(b, n) /\ b.roll[n + 1] = None /\ b.gens[n + 1] # "absent"
  <2>1. a \in Artifact /\ n \in Nat /\ n + 1 \in Generations /\ Rolled(a, n) /\ a.roll[n + 1] = None
    BY <1>3
  <2> QED
    BY <1>4, <1>5, <2>1, RolledOpened
<1>7. /\ Rolled(b, control.gen) /\ b.roll[control.gen + 1] = None
      /\ b.gens[control.gen + 1] # "absent"
  BY <1>6 DEF n
<1> QED
  BY <1>1, <1>2, <1>7, CommitRolls

LEMMA FactsRolls ==
    ASSUME Kernel, Ordered, Rolls, NEW w \in Workers, Facts(w)
    PROVE  Rolls'
<1>1. /\ wk[w].pc = "facts" /\ wk[w].pc \in Built \ {"begin"} /\ UNCHANGED <<control, staged, rollbacks>>
      /\ {"facts", "seal"} \subseteq Built \ {"begin"} /\ wk[w].pc \in AtWork
  BY ClassesAre DEF Facts, At, sidecarVars
<1>2. PICK plan \in wk[w].todo :
         \/ Commit(w, InsertFacts(Written(w), plan, wk[w].gen),
                   [wk[w] EXCEPT !.pc = IF wk[w].todo \ {plan} = {} THEN "seal" ELSE wk[w].pc,
                                 !.todo = wk[w].todo \ {plan}])
         \/ Raise(w) /\ UNCHANGED artifact
  BY DEF Facts
<1>3. CASE Raise(w) /\ UNCHANGED artifact
  BY <1>1, <1>3, GotoRolls, RollingIs DEF Raise
<1>4. CASE Commit(w, InsertFacts(Written(w), plan, wk[w].gen),
                   [wk[w] EXCEPT !.pc = IF wk[w].todo \ {plan} = {} THEN "seal" ELSE wk[w].pc,
                                 !.todo = wk[w].todo \ {plan}])
  <2> DEFINE n == control.gen
             a == Written(w)
             todo == wk[w].todo \ {plan}
             b == InsertFacts(a, plan, wk[w].gen)
             pc == IF todo = {} THEN "seal" ELSE wk[w].pc
  <2>1. Commit(w, b, [wk[w] EXCEPT !.pc = pc, !.todo = todo])
    BY <1>4
  <2>2. /\ a \in Artifact /\ wk[w].gen = n + 1 /\ n \in Nat /\ n + 1 \in Generations
        /\ Rolled(a, n) /\ a.roll[n + 1] = None /\ a.gens[n + 1] # "absent"
    BY <1>1, BuildIs
  <2>3. pc \in {"facts", "seal"} /\ pc \in Built \ {"begin"} /\ pc \notin Sealed
    BY <1>1 DEF Sealed
  <2> HIDE DEF a, n, todo, pc
  <2>4. IsInserted(a, b, plan, n + 1)
    BY <2>2, InsertGives
  <2> HIDE DEF b
  <2>5. Rolled(b, n) /\ b.roll[n + 1] = None /\ b.gens[n + 1] # "absent"
    BY <2>2, <2>4, RolledAdded DEF IsInserted
  <2>6. /\ Rolled(b, control.gen) /\ b.roll[control.gen + 1] = None
        /\ b.gens[control.gen + 1] # "absent"
    BY <2>5 DEF n
  <2> QED
    BY <1>1, <2>1, <2>3, <2>6, CommitRolls
<1> QED
  BY <1>2, <1>3, <1>4

LEMMA SealRolls ==
    ASSUME Kernel, Ordered, Rolls, NEW w \in Workers, Seal(w) \/ Finalize(w)
    PROVE  Rolls'
<1> DEFINE todo == wk[w].todo
           pc == "catchUp"
           n == control.gen
           a == Written(w)
<1>1. /\ wk[w].pc \in {"seal", "finalize"} /\ wk[w].pc \in Built \ {"begin"}
      /\ pc \in Built \ {"begin"} /\ pc \notin {"rollup", "promote"}
      /\ pc \notin {"facts", "seal", "finalize"} /\ UNCHANGED <<control, staged, rollbacks>>
  BY ClassesAre DEF Seal, Finalize, At, sidecarVars
<1>2. /\ a \in Artifact /\ wk[w].gen = n + 1 /\ n \in Nat /\ n + 1 \in Generations
      /\ Rolled(a, n) /\ a.roll[n + 1] = None /\ a.gens[n + 1] # "absent" /\ TypeInv
      /\ wk[w].plans \in SUBSET Plan
  BY <1>1, BuildIs
<1>3. [wk[w] EXCEPT !.pc = pc] = [wk[w] EXCEPT !.pc = pc, !.todo = todo]
  BY <1>2, WorkerTyped DEF WorkerState
<1>4. PICK plans \in SUBSET Plan :
        Commit(w, SealRefresh(Written(w), plans, wk[w].gen), [wk[w] EXCEPT !.pc = pc])
  BY <1>2 DEF Seal, Finalize
<1> DEFINE b == SealRefresh(a, plans, wk[w].gen)
<1>5. Commit(w, b, [wk[w] EXCEPT !.pc = pc, !.todo = todo])
  BY <1>3, <1>4
<1> HIDE DEF a, n, todo, pc
<1>6. IsSealed(a, b, plans, n + 1)
  BY <1>2, <1>4, SealGives
<1> HIDE DEF b
<1>7. Rolled(b, n) /\ b.roll[n + 1] = None /\ b.gens[n + 1] = "valid"
  BY <1>2, <1>6, RolledKept DEF IsSealed
<1>8. /\ Rolled(b, control.gen) /\ b.roll[control.gen + 1] = None
      /\ b.gens[control.gen + 1] = "valid"
  BY <1>7 DEF n
<1> QED
  BY <1>1, <1>5, <1>8, CommitRolls

LEMMA BatchRolls ==
    ASSUME Kernel, Ordered, Rolls, NEW w \in Workers, Batch(w)
    PROVE  Rolls'
<1>1. /\ wk[w].pc = "batch" /\ wk[w].pc \in Built \ {"begin"} /\ UNCHANGED <<control, staged, rollbacks>>
      /\ {"batch", "finalize"} \subseteq Built \ {"begin"} /\ wk[w].pc \in AtWork
  BY ClassesAre DEF Batch, At, sidecarVars
<1>2. PICK plan \in wk[w].todo :
         \/ /\ wk[w].todo = wk[w].plans \/ Written(w).gens[wk[w].gen] # "absent"
            /\ Commit(w, CommitBatch(Written(w), Parsed(plan, file[plan.obs.id[1]]), wk[w].gen,
                                     wk[w].todo = wk[w].plans),
                   [wk[w] EXCEPT !.pc = IF wk[w].todo \ {plan} = {} THEN "finalize" ELSE wk[w].pc,
                                 !.todo = wk[w].todo \ {plan}])
         \/ Raise(w) /\ UNCHANGED artifact
  BY DEF Batch
<1>3. CASE Raise(w) /\ UNCHANGED artifact
  BY <1>1, <1>3, GotoRolls, RollingIs DEF Raise
<1>4. CASE /\ wk[w].todo = wk[w].plans \/ Written(w).gens[wk[w].gen] # "absent"
           /\ Commit(w, CommitBatch(Written(w), Parsed(plan, file[plan.obs.id[1]]), wk[w].gen,
                                    wk[w].todo = wk[w].plans),
                   [wk[w] EXCEPT !.pc = IF wk[w].todo \ {plan} = {} THEN "finalize" ELSE wk[w].pc,
                                 !.todo = wk[w].todo \ {plan}])
  <2> DEFINE n == control.gen
             a == Written(w)
             todo == wk[w].todo \ {plan}
             read == Parsed(plan, file[plan.obs.id[1]])
             first == wk[w].todo = wk[w].plans
             b == CommitBatch(a, read, wk[w].gen, first)
             pc == IF todo = {} THEN "finalize" ELSE wk[w].pc
  <2>1. Commit(w, b, [wk[w] EXCEPT !.pc = pc, !.todo = todo])
    BY <1>4
  <2>2. /\ a \in Artifact /\ wk[w].gen = n + 1 /\ n \in Nat /\ n + 1 \in Generations
        /\ Rolled(a, n) /\ a.roll[n + 1] = None /\ TypeInv
    BY <1>1, BuildIs
  <2>3. pc \in {"batch", "finalize"} /\ pc \in Built \ {"begin"} /\ pc \notin Sealed
    BY <1>1 DEF Sealed
  <2>4. read \in Plan
    <3>1. plan \in Plan /\ file[plan.obs.id[1]] # None /\ plan.obs.id[1] \in Sources
      BY <1>2, <2>2, ScopeIs
    <3>2. file[plan.obs.id[1]] \in Observation
      BY <2>2, <3>1 DEF TypeInv, Typed
    <3> QED
      BY <3>1, <3>2, ParsedTyped
  <2>5. first \in BOOLEAN /\ (first \/ a.gens[n + 1] # "absent")
    BY <1>4, <2>2
  <2> HIDE DEF a, n, todo, pc, read, first
  <2>6. IsBatched(a, b, read, n + 1, first)
    BY <2>2, <2>4, <2>5, BatchGives
  <2> HIDE DEF b
  <2>7. Rolled(b, n) /\ b.roll[n + 1] = None
    BY <2>2, <2>6, RolledAdded DEF IsBatched
  <2>8. b.gens[n + 1] # "absent"
    BY <2>2, <2>5, <2>6 DEF IsBatched
  <2>9. /\ Rolled(b, control.gen) /\ b.roll[control.gen + 1] = None
        /\ b.gens[control.gen + 1] # "absent"
    BY <2>7, <2>8 DEF n
  <2> QED
    BY <1>1, <2>1, <2>3, <2>9, CommitRolls
<1> QED
  BY <1>2, <1>3, <1>4

LEMMA RollupRolls ==
    ASSUME Kernel, Ordered, Rolls, NEW w \in Workers, Rollup(w)
    PROVE  Rolls'
<1>1. /\ wk[w].pc = "rollup" /\ wk[w].pc \in Built \ {"begin"} /\ UNCHANGED <<control, staged, rollbacks>>
      /\ "promote" \in Built \ {"begin"} /\ wk[w].pc \in AtWork /\ wk[w].pc \in Sealed
  BY ClassesAre DEF Rollup, At, sidecarVars, Sealed
<1>2. CASE Goto(w, "failRun") /\ UNCHANGED artifact
  BY <1>1, <1>2, GotoRolls, RollingIs
<1>3. CASE /\ artifact' = [artifact EXCEPT ![wk[w].path] = RolledUp(w)]
           /\ wk'[w].pc = "promote" /\ wk'[w].prior = wk[w].prior /\ wk'[w].path = wk[w].path
           /\ \A v \in Workers \ {w} : wk'[v] = wk[v]
  <2> DEFINE n == control.gen
             a == Written(w)
             b == RolledUp(w)
  <2>1. /\ a \in Artifact /\ wk[w].gen = n + 1 /\ n \in Nat /\ n + 1 \in Generations
        /\ Rolled(a, n) /\ a.gens[n + 1] = "valid" /\ wk[w].prior = n
    BY <1>1, BuildIs
  <2>2. b = IF n > 0 /\ wk[w].incremental THEN AdvanceRollups(a, n + 1, n) ELSE RebuildRollups(a, n + 1)
    BY <2>1 DEF RolledUp
  <2> HIDE DEF a, n, b
  <2>3. IsRolled(a, b, n + 1, LinesOf(a))
    <3>1. CASE n > 0 /\ wk[w].incremental
      <4>1. b = AdvanceRollups(a, n + 1, n) /\ a.roll[n] \cup Counted(a, n + 1) = LinesOf(a)
        BY <2>1, <2>2, <3>1, AllCounted
      <4> QED
        BY <2>1, <4>1, AdvanceGives
    <3>2. CASE ~(n > 0 /\ wk[w].incremental)
      <4>1. b = RebuildRollups(a, n + 1) /\ VisibleLines(a, n + 1) = LinesOf(a)
        BY <2>1, <2>2, <3>2, AllCounted
      <4> QED
        BY <2>1, <4>1, RebuildGives
    <3> QED
      BY <3>1, <3>2
  <2>4. Rolled(b, n) /\ b.gens[n + 1] = "valid"
    BY <2>1, <2>3, TopRolled
  <2>5. Rolled(b, control.gen) /\ b.gens[control.gen + 1] = "valid"
    BY <2>4 DEF n
  <2>6. artifact' = [artifact EXCEPT ![wk[w].path] = b] /\ wk'[w].pc \in Built \ {"begin"}
    BY <1>1, <1>3 DEF b
  <2>7. wk'[w].pc = "promote" /\ wk'[w].path = wk[w].path /\ wk'[w].prior = wk[w].prior
    BY <1>3
  <2> QED
    BY <1>1, <1>3, <2>5, <2>6, <2>7, BuildWriteRolls
<1>4. TypeInv
  BY DEF Kernel
<1> QED
  BY <1>2, <1>3, <1>4, RollupGives

LEMMA RecoverBeginRolls ==
    ASSUME Kernel, Ordered, Rolls, NEW w \in Workers, RecoverBegin(w)
    PROVE  Rolls'
<1>0. /\ control \in Control /\ TypeInv /\ RollsAt(w)
      /\ wk[w].pc = "recoverBegin" /\ UNCHANGED <<artifact, staged, rollbacks>>
      /\ wk[w].pc \in AtWork /\ wk[w].pc \in Recovering
  BY WorkIs, StepsAre
     DEF RecoverBegin, At, Kernel, TypeInv, Typed, RefreshControlTypeOK, Rolls, Recovering
<1>1. wk[w].read.staging = control.staging
  BY <1>0 DEF Ordered, Numbered
<1>2. /\ control'.active = control.active /\ control'.gen = control.gen
      /\ control'.staging = control.staging /\ control'.rollback = control.rollback
      /\ control'.rollbackGen = control.rollbackGen
  BY <1>0, <1>1 DEF RecoverBegin, BeginCutover, Control
<1>3. /\ wk'[w].pc = "recoverPromote" /\ wk'[w].read = wk[w].read
      /\ \A v \in Workers \ {w} : wk'[v] = wk[v]
  BY <1>0, GotoGives DEF RecoverBegin
<1>4. /\ wk'[w].pc \notin Settled /\ wk'[w].pc \notin {"prepare"} \cup Chosen /\ wk'[w].pc \notin Built
  BY <1>3, ClassesAre, StepsAre DEF Settled
<1>5. RollsAt(w)'
  BY <1>0, <1>2, <1>3, <1>4 DEF RollsAt, LinesOf
<1> QED
  BY <1>0, <1>2, <1>3, <1>5, QuietRolls

\* A publication of the build that is staged.
LEMMA PromotedRolls ==
    ASSUME Kernel, Ordered, Rolls, NEW w \in Workers, wk[w].pc \in AtWork, NEW path \in Paths,
           path = control.staging, control.gen + 1 \in Generations,
           artifact[path].roll[control.gen + 1] = LinesOf(artifact[path]),
           control' = Promoted(path, control.gen + 1), UNCHANGED <<artifact, rollbacks>>,
           \A v \in Workers \ {w} : wk'[v] = wk[v],
           wk'[w].pc \notin Built, wk'[w].pc \notin {"prepare"} \cup Chosen, wk'[w].pc \notin Recovering
    PROVE  Rolls'
<1> DEFINE n == control.gen
           a == artifact[path]
           moved == control.active # None /\ control.active # path
<1>0. /\ TypeInv /\ RecordsFit /\ RollsFit /\ n \in Nat /\ None \notin Paths /\ path # None
      /\ a \in Artifact /\ artifact' = artifact /\ rollbacks' = rollbacks
  BY ControlTyped DEF Kernel, Ordered, Rolls
<1>1. /\ control'.active = path /\ control'.gen = n + 1 /\ control'.staging = None
      /\ control'.rollback = (IF moved THEN control.active ELSE control.rollback)
      /\ control'.rollbackGen = (IF moved THEN n ELSE control.rollbackGen)
      /\ control'.state = "active"
  BY DEF Promoted
<1>2. ActivePath' = path
  BY <1>0, <1>1 DEF ActivePath
<1>3. Rolled(a, n) /\ UpTo(a, n + 1)
  BY <1>0 DEF RollsFit, RecordsFit
<1> HIDE DEF a, n
<1>4. Rolled(a, n + 1)
  <2>1. \A f \in a.facts : f.gen <= (n + 1) + 1
    <3>1. \A f \in a.facts : f.gen \in Nat
      BY <1>0 DEF Artifact, Fact, Generations
    <3> QED
      BY <1>0, <1>3, <3>1 DEF Rolled
  <2>2. a.roll[n + 1] = VisibleLines(a, n + 1)
    BY <1>0, <1>3, AllCounted DEF a, n
  <2>3. \A h \in Generations : h > n + 1 => a.roll[h] = None
    BY <1>3 DEF Rolled
  <2>4. \A h \in Generations : h > (n + 1) + 1 => a.roll[h] = None
    BY <1>0, <2>3 DEF Generations
  <2>5. (n + 1) + 1 \in Generations => a.roll[(n + 1) + 1] = None
    BY <1>0, <2>3
  <2> QED
    BY <2>1, <2>2, <2>4, <2>5 DEF Rolled
<1>5. Unbuilt(a, n + 1)
  <2>1. (n + 1) + 1 \in Generations => ~((n + 1) + 1 <= n + 1)
    BY <1>0
  <2> QED
    BY <1>3, <2>1 DEF UpTo, Unbuilt
<1>6. control'.rollback # None /\ rollbacks = 0 =>
          /\ Rolled(artifact[control'.rollback], control'.rollbackGen)
          /\ Unbuilt(artifact[control'.rollback], control'.rollbackGen)
  <2>1. CASE moved
    <3>1. ActivePath = control.active /\ control.staging # ActivePath
      BY <2>1 DEF ActivePath
    <3>2. Rolled(artifact[control.active], n) /\ Unbuilt(artifact[control.active], n)
      BY <1>0, <3>1 DEF RollsFit, n
    <3> QED
      BY <1>1, <2>1, <3>2
  <2>2. CASE ~moved
    BY <1>0, <1>1, <2>2 DEF RollsFit
  <2> QED
    BY <2>1, <2>2
<1> DEFINE c == control'
<1>7. /\ Rolled(artifact[path], c.gen) /\ c.staging = None
      /\ c.rollback # None /\ rollbacks = 0 =>
            /\ Rolled(artifact[c.rollback], c.rollbackGen)
            /\ Unbuilt(artifact[c.rollback], c.rollbackGen)
      /\ Unbuilt(artifact[path], c.gen)
  BY <1>1, <1>4, <1>5, <1>6 DEF a
<1>8. RollsFit'
  <2>1. Rolled(artifact[ActivePath], control.gen)'
    BY <1>0, <1>2, <1>7 DEF Rolled, VisibleLines, LinesOf
  <2>2. Unbuilt(artifact[ActivePath], control.gen)'
    BY <1>0, <1>2, <1>7 DEF Unbuilt
  <2>3. (control.rollback # None /\ rollbacks = 0 =>
            Rolled(artifact[control.rollback], control.rollbackGen))'
    BY <1>0, <1>7 DEF Rolled, VisibleLines, LinesOf
  <2>4. (control.rollback # None /\ rollbacks = 0 =>
            Unbuilt(artifact[control.rollback], control.rollbackGen))'
    BY <1>0, <1>7 DEF Unbuilt
  <2>5. control'.staging = None
    BY <1>7
  <2> QED
    BY <2>1, <2>2, <2>3, <2>4, <2>5 DEF RollsFit
<1>9. RollsAt(w)'
  BY <1>0, <1>1, <1>2, <1>5 DEF RollsAt, Unbuilt, a
<1> QED
  BY <1>8, <1>9, OthersRoll DEF Rolls

LEMMA RecoverPromoteRolls ==
    ASSUME Kernel, Ordered, Rolls, NEW w \in Workers, RecoverPromote(w)
    PROVE  Rolls'
<1>0. /\ wk[w].pc = "recoverPromote" /\ UNCHANGED <<artifact, rollbacks>> /\ TypeInv
      /\ wk[w].pc \in AtWork /\ wk[w].pc \in Recovering /\ RollsAt(w) /\ Numbered(w)
  BY WorkIs, StepsAre DEF RecoverPromote, At, Kernel, Ordered, Rolls, Recovering
<1>1. /\ wk[w].read.staging = control.staging /\ control.staging # None
      /\ wk[w].gen = control.gen + 1
      /\ artifact[control.staging].roll[control.gen + 1] = LinesOf(artifact[control.staging])
      /\ control.staging \in Paths /\ control.gen \in Nat
  BY <1>0, ControlTyped DEF Numbered, RollsAt
<1>2. CASE Goto(w, "failRun") /\ UNCHANGED <<control, staged>>
  BY <1>0, <1>2, GotoRolls, RollingIs
<1>3. CASE control' = Promoted(control.staging, control.gen + 1) /\ Goto(w, "admit")
  <2>1. wk'[w].pc = "admit" /\ \A v \in Workers \ {w} : wk'[v] = wk[v]
    BY <1>0, <1>3, GotoGives
  <2>2. wk[w].gen \in 0 .. MaxGeneration
    BY <1>0, WorkerTyped DEF WorkerState
  <2>3. control.gen + 1 \in Generations
    BY <1>1, <2>2, ArtifactBounds DEF Generations
  <2>4. wk'[w].pc \notin Built /\ wk'[w].pc \notin {"prepare"} \cup Chosen /\ wk'[w].pc \notin Recovering
    BY <2>1, ClassesAre, StepsAre DEF Recovering
  <2> DEFINE path == control.staging
  <2>5. /\ path \in Paths /\ path = control.staging /\ control' = Promoted(path, control.gen + 1)
        /\ artifact[path].roll[control.gen + 1] = LinesOf(artifact[path])
    BY <1>1, <1>3
  <2> HIDE DEF path
  <2> QED
    BY <1>0, <2>1, <2>3, <2>4, <2>5, PromotedRolls
<1> QED
  BY <1>1, <1>2, <1>3 DEF RecoverPromote, Raise

LEMMA PromoteRolls ==
    ASSUME Kernel, Ordered, Rolls, NEW w \in Workers, Promote(w)
    PROVE  Rolls'
<1>0. /\ wk[w].pc = "promote" /\ UNCHANGED <<artifact, rollbacks>> /\ TypeInv
      /\ wk[w].pc \in AtWork /\ wk[w].pc \in Built \ {"begin"}
  BY ClassesAre, WorkIs, StepsAre DEF Promote, At, Kernel
<1>1. /\ wk[w].gen = control.gen + 1 /\ control.gen + 1 \in Generations
      /\ Rolled(artifact[wk[w].path], control.gen) /\ wk[w].path \in Paths
  BY <1>0, BuildIs, WrittenIs DEF Written
<1>2. CASE Goto(w, "failRun") /\ UNCHANGED <<control, staged>>
  BY <1>0, <1>2, GotoRolls, RollingIs
<1>3. CASE /\ control' = Promoted(wk[w].path, control.gen + 1) /\ Goto(w, "register")
           /\ MayPromote(wk[w].path) /\ RollupsReady(artifact[wk[w].path], control.gen + 1)
  <2>1. wk'[w].pc = "register" /\ \A v \in Workers \ {w} : wk'[v] = wk[v]
    BY <1>0, <1>3, GotoGives
  <2>4. wk'[w].pc \notin Built /\ wk'[w].pc \notin {"prepare"} \cup Chosen /\ wk'[w].pc \notin Recovering
    BY <2>1, ClassesAre, StepsAre DEF Recovering
  <2> DEFINE path == wk[w].path
  <2>5. /\ path \in Paths /\ path = control.staging /\ control' = Promoted(path, control.gen + 1)
        /\ artifact[path].roll[control.gen + 1] = LinesOf(artifact[path])
    BY <1>1, <1>3 DEF MayPromote, RollupsReady, Rolled
  <2> HIDE DEF path
  <2> QED
    BY <1>0, <1>1, <2>1, <2>4, <2>5, PromotedRolls
<1> QED
  BY <1>1, <1>2, <1>3 DEF Promote, Raise

\* The first rollback.
LEMMA RollbackRolls ==
    ASSUME Attended, Kernel, Ordered, Rolls, Rollback, rollbacks = 0
    PROVE  Rolls'
<1>0. /\ TypeInv /\ RollsFit /\ RecordsFit /\ control.rollback # None /\ wk' = wk /\ artifact' = artifact
      /\ rollbacks' # 0
  BY DEF Kernel, Ordered, Rolls, Rollback
<1>1. /\ control'.active = control.rollback /\ control'.gen = control.rollbackGen
      /\ control'.staging = None
  BY DEF Rollback, RolledBack
<1>2. ActivePath' = control.rollback
  BY <1>0, <1>1 DEF ActivePath
<1>3. Rolled(artifact[control.rollback], control.rollbackGen) /\ Unbuilt(artifact[control.rollback], control.rollbackGen)
  BY <1>0 DEF RollsFit
<1>4. RollsFit'
  BY <1>0, <1>1, <1>2, <1>3 DEF RollsFit, Rolled, Unbuilt, VisibleLines, LinesOf
<1>5. \A v \in Workers : RollsAt(v)'
  <2>1. \A v \in Workers : wk'[v].pc \notin Rolling
    BY <1>0, RollbackQuiet, RollingIs
  <2> QED
    BY <2>1, RollsOff
<1> QED
  BY <1>4, <1>5 DEF Rolls

LEMMA RestRolls ==
    ASSUME Rolls, UNCHANGED <<control, staged, artifact, wk, rollbacks>>
    PROVE  Rolls'
<1>1. ActivePath' = ActivePath
  BY DEF ActivePath
<1> QED
  BY <1>1 DEF Rolls, RollsFit, RollsAt, Rolled, Unbuilt, VisibleLines, LinesOf

LEMMA RollsInit ==
    ASSUME Init
    PROVE  Rolls
<1>0. TypeInv /\ \A w \in Workers : wk[w].pc = "idle"
  BY TypeInit DEF Init, IdleWorker
<1>1. \A w \in Workers : RollsAt(w)
  BY <1>0, ClassesAre, StepsAre DEF RollsAt, Recovering, Settled
<1>2. CASE EmptyInit
  <2>1. /\ control.active = None /\ control.gen = 0 /\ control.rollback = None /\ control.staging = None
        /\ ActivePath = Base /\ artifact[Base] = EmptyArtifact
    BY <1>2 DEF EmptyInit, NoControl, ActivePath, Paths
  <2>2. Rolled(EmptyArtifact, 0) /\ Unbuilt(EmptyArtifact, 0)
    BY DEF EmptyArtifact, Rolled, Unbuilt
  <2> QED
    BY <1>1, <2>1, <2>2 DEF Rolls, RollsFit
<1>3. CASE "published" \in Starts /\ PublishedInit
  <2>0. 1 \in Generations /\ file \in [Sources -> Observation \cup {None}]
    BY <1>0, <1>3, RefreshRegime DEF TypeInv, Typed
  <2>1. /\ control.active = Base /\ control.gen = 1 /\ control.rollback = None /\ control.staging = None
    BY <1>3, PublishedIs DEF NoControl
  <2>2. ActivePath = Base /\ artifact[Base] = PublishedBuild
    BY <1>3, <2>1, PublishedIs, BaseAssumption DEF ActivePath, Paths
  <2> DEFINE b == PublishedBuild
  <2>3. /\ b.facts = PublishedFacts /\ b.roll[1] = VisibleLines(b, 1)
        /\ \A h \in Generations \ {1} : b.gens[h] = "absent" /\ b.roll[h] = None
    BY <2>0, PublishedGives
  <2>4. \A f \in PublishedFacts : f.gen <= 2
    BY DEF PublishedFacts
  <2> HIDE DEF b
  <2>5. \A h \in Generations : h > 2 => b.roll[h] = None
    BY <2>3 DEF Generations
  <2>6. Rolled(b, 1) /\ Unbuilt(b, 1)
    BY <2>3, <2>4, <2>5 DEF Rolled, Unbuilt
  <2> QED
    BY <1>1, <2>1, <2>2, <2>6 DEF Rolls, RollsFit, b
<1> QED
  BY <1>2, <1>3 DEF Init

\* Every step up to the first rollback, and that one, keeps rollups and rows together.
LEMMA RollsSteps ==
    ASSUME Attended, Kernel, Ordered, Rolls, Unreplaced, rollbacks \in Nat, rollbacks' <= 1, [Next]_vars
    PROVE  Rolls'
<1>1. ASSUME NEW w \in Workers, Step(w) \/ Fault(w) \/ Crash(w) PROVE Rolls'
  <2>1. CASE \/ Launch(w) \/ Initialize(w) \/ Observe(w) \/ Acquire(w) \/ Catalog(w) \/ Capture(w)
             \/ Register(w) \/ Complete(w) \/ FailRun(w) \/ Blame(w) \/ Condemn(w)
             \/ Fault(w) \/ Crash(w)
    BY <2>1, PlainRolls
  <2>2. CASE Interrupt(w) \/ Discard(w) \/ Admit(w) \/ MakePlans(w) \/ Stage(w) \/ Prepare(w)
    BY <2>2, SettledRolls
  <2>3. CASE Recover(w) \/ RecoverRollups(w) \/ RecoverBegin(w) \/ RecoverPromote(w)
    BY <2>3, RecoverRolls, RecoverRollupsRolls, RecoverBeginRolls, RecoverPromoteRolls
  <2>4. CASE Fence(w) \/ CatchUp(w) \/ Replan(w)
    BY <2>4, FenceRolls
  <2>5. CASE Wipe(w) \/ Clone(w) \/ Begin(w)
    BY <2>5, WipeRolls, CloneRolls, BeginRolls
  <2>6. CASE Open(w) \/ Facts(w) \/ Seal(w) \/ Finalize(w)
    BY <2>6, OpenRolls, FactsRolls, SealRolls
  <2>7. CASE Batch(w) \/ Rollup(w) \/ Promote(w)
    BY <2>7, BatchRolls, RollupRolls, PromoteRolls
  <2> QED
    BY <1>1, <2>1, <2>2, <2>3, <2>4, <2>5, <2>6, <2>7 DEF Step
<1>2. ASSUME NEW w \in Workers, LeaseExpires(w) \/ Heartbeat(w) PROVE Rolls'
  BY <1>2, RestRolls DEF LeaseExpires, Heartbeat
<1>3. ASSUME NEW s \in Sources, ChangeFile(s) PROVE Rolls'
  BY <1>3, RestRolls DEF ChangeFile, sidecarVars
<1>4. CASE Rollback
  <2>1. rollbacks = 0
    BY <1>4 DEF Rollback
  <2> QED
    BY <1>4, <2>1, RollbackRolls
<1>5. CASE UNCHANGED vars
  BY <1>5, RestRolls DEF vars, sidecarVars
<1> QED
  BY <1>1, <1>2, <1>3, <1>4, <1>5 DEF Next

LEMMA RollsMatch ==
    ASSUME Kernel, Ordered, Rolls
    PROVE  RollupsMatchFacts
<1> SUFFICES ASSUME control.active # None
             PROVE  artifact[control.active].roll[control.gen] = Visible
  BY DEF RollupsMatchFacts
<1>1. ActivePath = control.active /\ control.gen > 0
  BY DEF ActivePath, Ordered, RecordsFit
<1>2. Visible = VisibleLines(artifact[control.active], control.gen)
  BY DEF Visible
<1> QED
  BY <1>1, <1>2 DEF Rolls, RollsFit, Rolled

-----------------------------------------------------------------------------
(* Files that only grow are never replaced. *)

FirstId(s) == <<s, 1>>

\* The cursor of a source is at or before the end of what "o" saw of its file.
Below(a, s, o) ==
    a.rows[FirstId(s)] # None => /\ o # None /\ a.rows[FirstId(s)].ver = 1
                                 /\ a.rows[FirstId(s)].off <= o.len

RowsGrow == \A p \in Paths, s \in Sources : Below(artifact[p], s, file[s])

FilesGrow ==
    /\ \A s \in Sources : file[s] # None => file[s].id = FirstId(s) /\ file[s].ver = 1
    /\ \A s \in Sources : registry[s] \in {None, FirstId(s)}
    /\ RowsGrow

\* Workers in these have observed the files and have not planned; have plans and have
\* not begun to write.
Scouting == {"acquire", "plan"} \cup Recovery
Unopened == {"stage", "prepare", "clone", "begin", "open"}

PlannedGrown(w) == \A o \in wk[w].planned : o.id = FirstId(o.id[1])

GrownAt(w) ==
    /\ wk[w].pc \in Scouting =>
          \A p \in Paths : \A s \in wk[w].scope : Below(artifact[p], s, wk[w].obs[s])
    /\ wk[w].pc = "replan" => \A s \in wk[w].scope : Below(artifact[wk[w].path], s, wk[w].obs[s])
    /\ wk[w].pc \in Unopened => ReplacedIds(wk[w].plans) = {}
    /\ wk[w].pc = "batch" => \A p \in wk[w].todo : p.obs = wk[w].obs[p.obs.id[1]]

Grown == FilesGrow /\ \A w \in Workers : GrownAt(w) /\ PlannedGrown(w)

LEMMA GrowingIs ==
    /\ Scouting = {"acquire", "plan", "recover", "recoverRollups", "recoverBegin", "recoverPromote",
                   "interrupt", "discard", "admit"}
    /\ Scouting \cup Unopened \cup {"replan", "batch"} \subseteq Informed
    /\ Scouting \cup Unopened \cup {"replan", "batch"} \subseteq AtWork
BY StepsAre, WorkIs DEF Scouting, Unopened, Recovery

\* What a worker observed has the first id of its path.
LEMMA ObservedFirst ==
    ASSUME Kernel, Aligned, Grown, NEW w \in Workers, wk[w].pc \in Informed
    PROVE  /\ \A s \in wk[w].scope : /\ wk[w].obs[s].id = FirstId(s) /\ wk[w].obs[s].ver = 1
                                     /\ s \in Sources /\ file[s].id = FirstId(s) /\ file[s].ver = 1
                                     /\ wk[w].obs[s].len <= file[s].len
           /\ \A s \in Sources : wk[w].obs[s] # None => wk[w].obs[s].id = FirstId(s)
           /\ \A o \in ObservedIn(wk[w].obs) : o.id = FirstId(o.id[1])
<1>0. TypeInv /\ Looked(wk[w]) /\ wk[w] \in WorkerState
  BY WorkerTyped DEF Kernel
<1>1. ASSUME NEW s \in wk[w].scope
      PROVE  /\ wk[w].obs[s].id = FirstId(s) /\ wk[w].obs[s].ver = 1
             /\ s \in Sources /\ file[s].id = FirstId(s) /\ file[s].ver = 1
             /\ wk[w].obs[s].len <= file[s].len
  <2>1. s \in Sources /\ file[s] # None
    BY <1>0, ScopeIs
  <2>2. Same(wk[w].obs[s], file[s])
    BY DEF Aligned, AlignedAt
  <2> QED
    BY <2>1, <2>2 DEF Same, Grown, FilesGrow
<1>2. \A s \in Sources : wk[w].obs[s] # None => wk[w].obs[s].id = FirstId(s)
  BY <1>0, <1>1 DEF Looked
<1>3. ASSUME NEW o \in ObservedIn(wk[w].obs) PROVE o.id = FirstId(o.id[1])
  <2>1. PICK s \in Sources : wk[w].obs[s] # None /\ o = wk[w].obs[s]
    BY DEF ObservedIn
  <2>2. o.id = FirstId(s)
    BY <1>2, <2>1
  <2> QED
    BY <2>2 DEF FirstId
<1> QED
  BY <1>1, <1>2, <1>3

LEMMA RegisterGrows ==
    ASSUME \A s \in Sources : registry[s] \in {None, FirstId(s)}, NEW observed,
           \A o \in observed : o.id = FirstId(o.id[1]), RegisterSources(observed)
    PROVE  \A s \in Sources : registry'[s] \in {None, FirstId(s)}
<1> SUFFICES ASSUME NEW s \in Sources PROVE registry'[s] \in {None, FirstId(s)}
  OBVIOUS
<1>1. CASE \E o \in observed : o.id[1] = s
  <2> DEFINE x == CHOOSE o \in observed : o.id[1] = s
  <2>1. x \in observed /\ x.id[1] = s
    BY <1>1
  <2>2. registry'[s] = x.id
    BY <1>1 DEF RegisterSources
  <2> HIDE DEF x
  <2> QED
    BY <2>1, <2>2
<1>2. CASE ~\E o \in observed : o.id[1] = s
  BY <1>2 DEF RegisterSources
<1> QED
  BY <1>1, <1>2

\* No path is registered under another id than its first.
LEMMA RegistryGrows ==
    ASSUME Kernel, Aligned, Grown, [Next]_vars
    PROVE  \A s \in Sources : registry'[s] \in {None, FirstId(s)}
<1>0. TypeInv /\ \A s \in Sources : registry[s] \in {None, FirstId(s)}
  BY DEF Kernel, Grown, FilesGrow
<1>1. ASSUME NEW w \in Workers, Admit(w) \/ Stage(w) \/ Catalog(w) \/ Promote(w) \/ Register(w)
      PROVE  \A s \in Sources : registry'[s] \in {None, FirstId(s)}
  <2>1. wk[w].pc \in Informed
    BY <1>1, StepsAre DEF Admit, Stage, Catalog, Promote, Register, At
  <2>2. CASE RegisterSources(ObservedIn(wk[w].obs))
    BY <1>0, <2>1, <2>2, ObservedFirst, RegisterGrows
  <2>3. CASE RegisterSources(wk[w].planned)
    BY <1>0, <2>3, RegisterGrows DEF Grown, PlannedGrown
  <2>4. CASE StageCatalog(wk[w].obs)
    BY <1>0, <2>1, <2>4, ObservedFirst DEF StageCatalog
  <2>5. CASE UNCHANGED registry
    BY <1>0, <2>5
  <2> QED
    BY <1>1, <2>2, <2>3, <2>4, <2>5 DEF Admit, Stage, Catalog, Promote, Register, RecordCatalog
<1>2. ASSUME NEW w \in Workers,
             \/ Launch(w) \/ Initialize(w) \/ Wipe(w) \/ Observe(w) \/ Acquire(w)
             \/ Recover(w) \/ RecoverRollups(w) \/ RecoverBegin(w) \/ RecoverPromote(w)
             \/ Interrupt(w) \/ Discard(w) \/ MakePlans(w) \/ Capture(w)
             \/ Fence(w) \/ Prepare(w) \/ Clone(w) \/ Begin(w)
      PROVE  UNCHANGED registry
  BY <1>2 DEF Launch, Initialize, Wipe, Observe, Acquire, Recover, RecoverRollups, RecoverBegin,
              RecoverPromote, Interrupt, Discard, MakePlans, Capture, Fence, Prepare, Clone, Begin,
              sidecarVars
<1>3. ASSUME NEW w \in Workers,
             \/ Open(w) \/ Facts(w) \/ Seal(w) \/ Batch(w) \/ Finalize(w)
             \/ CatchUp(w) \/ Replan(w) \/ Rollup(w) \/ Complete(w)
             \/ FailRun(w) \/ Blame(w) \/ Condemn(w) \/ Fault(w) \/ Crash(w)
             \/ LeaseExpires(w) \/ Heartbeat(w)
      PROVE  UNCHANGED registry
  BY <1>3 DEF Open, Facts, Seal, Batch, Finalize, CatchUp, Replan, Rollup, Complete,
              FailRun, Blame, Condemn, Fault, Crash, LeaseExpires, Heartbeat, sidecarVars
<1>4. CASE (\E s \in Sources : ChangeFile(s)) \/ Rollback \/ UNCHANGED vars
  BY <1>0, <1>4 DEF ChangeFile, Rollback, vars, sidecarVars
<1> QED
  BY <1>0, <1>1, <1>2, <1>3, <1>4 DEF Next, Step

LEMMA GrownOff ==
    ASSUME NEW w \in Workers, wk'[w].pc \notin Scouting \cup Unopened \cup {"replan", "batch"}
    PROVE  GrownAt(w)'
BY DEF GrownAt

LEMMA GrownKept ==
    ASSUME Grown, NEW w \in Workers, UNCHANGED artifact,
           wk'[w].obs = wk[w].obs, wk'[w].scope = wk[w].scope, wk'[w].plans = wk[w].plans,
           wk'[w].pc \in Scouting => wk[w].pc \in Scouting,
           wk'[w].pc \in Unopened => wk[w].pc \in Unopened,
           wk'[w].pc \notin {"replan", "batch"}
    PROVE  GrownAt(w)'
<1>1. GrownAt(w) /\ artifact' = artifact
  BY DEF Grown
<1> QED
  BY <1>1, GrowingIs DEF GrownAt, Unopened, Below

LEMMA OthersGrow ==
    ASSUME Kernel, Grown, NEW w \in Workers, \A v \in Workers \ {w} : wk'[v] = wk[v],
           wk[w].pc \in AtWork \/ UNCHANGED artifact
    PROVE  \A v \in Workers \ {w} : GrownAt(v)' /\ PlannedGrown(v)'
<1> SUFFICES ASSUME NEW v \in Workers \ {w} PROVE GrownAt(v)' /\ PlannedGrown(v)'
  OBVIOUS
<1>1. PlannedGrown(v)' /\ wk'[v] = wk[v] /\ GrownAt(v)
  BY DEF Grown, PlannedGrown
<1>2. CASE wk[w].pc \in AtWork
  <2>1. wk[v].pc \notin AtWork
    BY <1>2 DEF Kernel, Exclusive, Alone
  <2>2. wk'[v].pc \notin Scouting \cup Unopened \cup {"replan", "batch"}
    BY <1>1, <2>1, GrowingIs
  <2> QED
    BY <1>1, <2>2, GrownOff
<1>3. CASE UNCHANGED artifact
  BY <1>1, <1>3 DEF GrownAt, Below
<1> QED
  BY <1>2, <1>3

\* What a worker planned first stays on record until it ends.
LEMMA PlannedStays ==
    ASSUME TypeInv, NEW w \in Workers, Step(w) \/ Fault(w) \/ Crash(w), ~MakePlans(w)
    PROVE  wk'[w].planned \in {wk[w].planned, {}}
<1>0. wk[w] \in WorkerState
  BY WorkerTyped
<1>1. ASSUME NEW pc, Goto(w, pc) PROVE wk'[w].planned \in {wk[w].planned, {}}
  BY <1>1, GotoGives
<1>2. ASSUME NEW pc, End(w, pc) PROVE wk'[w].planned \in {wk[w].planned, {}}
  <2>1. wk'[w] = [IdleWorker EXCEPT !.pc = pc]
    BY <1>2, EndGives
  <2> QED
    BY <2>1 DEF IdleWorker
<1>3. ASSUME NEW rec, Becomes(w, rec), rec.planned = wk[w].planned
      PROVE  wk'[w].planned \in {wk[w].planned, {}}
  BY <1>3, BecomesGives
<1>4. CASE Launch(w) \/ Observe(w)
  <2> DEFINE found == {s \in Sources : file[s] # None}
             obs == Observed(wk[w].scope)
  <2>1. \/ Becomes(w, [wk[w] EXCEPT !.pc = "initialize", !.scope = found])
        \/ Becomes(w, [wk[w] EXCEPT !.pc = "acquire", !.obs = obs])
    BY <1>4 DEF Launch, Observe
  <2> HIDE DEF found, obs
  <2>2. /\ [wk[w] EXCEPT !.pc = "initialize", !.scope = found].planned = wk[w].planned
        /\ [wk[w] EXCEPT !.pc = "acquire", !.obs = obs].planned = wk[w].planned
    BY <1>0 DEF WorkerState
  <2> QED
    BY <1>3, <2>1, <2>2
<1>5. CASE Recover(w)
  <2> DEFINE latest == IF control.staging = None THEN 0 ELSE LatestValid(artifact[control.staging])
             found == latest > control.gen /\ staged
             next == IF found
                     THEN IF ~RollupsReady(artifact[control.staging], latest) THEN "recoverRollups"
                          ELSE IF control.state = "failed" THEN "recoverBegin" ELSE "recoverPromote"
                     ELSE IF control.state = "building" THEN "interrupt"
                          ELSE IF control.staging # None THEN "discard" ELSE "admit"
             failed == control.state = "failed"
             gen == IF found THEN latest ELSE control.gen
  <2>1. Becomes(w, [wk[w] EXCEPT !.pc = next, !.read = control, !.wasFailed = failed, !.gen = gen])
    BY <1>5 DEF Recover
  <2> HIDE DEF next, failed, gen
  <2>2. [wk[w] EXCEPT !.pc = next, !.read = control, !.wasFailed = failed, !.gen = gen].planned
          = wk[w].planned
    BY <1>0 DEF WorkerState
  <2> QED
    BY <1>3, <2>1, <2>2
<1>6. CASE Fence(w) \/ CatchUp(w)
  <2> DEFINE obs == Observed(wk[w].scope)
             n == wk[w].attempt + 1
  <2>1. \/ Goto(w, "failRun") \/ Becomes(w, [wk[w] EXCEPT !.fenced = TRUE])
        \/ Becomes(w, [wk[w] EXCEPT !.pc = "replan", !.attempt = n, !.obs = obs])
    BY <1>6 DEF Fence, CatchUp, Raise
  <2> HIDE DEF obs, n
  <2>2. /\ [wk[w] EXCEPT !.fenced = TRUE].planned = wk[w].planned
        /\ [wk[w] EXCEPT !.pc = "replan", !.attempt = n, !.obs = obs].planned = wk[w].planned
    BY <1>0 DEF WorkerState
  <2> QED
    BY <1>1, <1>3, <2>1, <2>2
<1>7. CASE Replan(w) \/ Rollup(w)
  <2> DEFINE plans == ParsedNow(Again(w))
             pc == IF Again(w) = {} THEN "rollup" ELSE "open"
             fenced == wk[w].planned = {}
  <2>1. \/ Goto(w, "failRun") \/ Becomes(w, [wk[w] EXCEPT !.pc = pc, !.plans = plans])
        \/ Becomes(w, [wk[w] EXCEPT !.pc = "promote", !.fenced = fenced])
    BY <1>7 DEF Replan, Again, Rollup, Raise
  <2> HIDE DEF plans, pc, fenced
  <2>2. /\ [wk[w] EXCEPT !.pc = pc, !.plans = plans].planned = wk[w].planned
        /\ [wk[w] EXCEPT !.pc = "promote", !.fenced = fenced].planned = wk[w].planned
    BY <1>0 DEF WorkerState
  <2> QED
    BY <1>1, <1>3, <2>1, <2>2
<1>8. CASE Prepare(w) \/ Clone(w) \/ Begin(w)
  BY <1>8, PrepareGives, CloneGives, BeginGives
<1>9. CASE Open(w) \/ Facts(w) \/ Seal(w) \/ Batch(w) \/ Finalize(w)
  <2>1. CASE Raise(w)
    BY <1>1, <2>1 DEF Raise
  <2>2. CASE ~Raise(w)
    <3>1. \E b, pc, todo : Commit(w, b, [wk[w] EXCEPT !.pc = pc, !.todo = todo])
      <4>1. CASE Open(w) \/ Facts(w) \/ Batch(w)
        BY <2>2, <4>1 DEF Open, Facts, Batch
      <4>2. CASE Seal(w) \/ Finalize(w)
        <5>1. [wk[w] EXCEPT !.pc = "catchUp"] = [wk[w] EXCEPT !.pc = "catchUp", !.todo = wk[w].todo]
          BY <1>0 DEF WorkerState
        <5> QED
          BY <4>2, <5>1 DEF Seal, Finalize
      <4> QED
        BY <1>9, <4>1, <4>2
    <3>2. PICK b, pc, todo : Commit(w, b, [wk[w] EXCEPT !.pc = pc, !.todo = todo])
      BY <3>1
    <3> QED
      BY <3>2, CommitGives
  <2> QED
    BY <2>1, <2>2
<1>10. CASE \/ Initialize(w) \/ Wipe(w) \/ Acquire(w) \/ RecoverRollups(w) \/ RecoverBegin(w)
           \/ RecoverPromote(w) \/ Interrupt(w) \/ Discard(w) \/ Admit(w) \/ Stage(w) \/ Catalog(w)
           \/ Capture(w) \/ Promote(w) \/ Register(w) \/ Complete(w) \/ FailRun(w) \/ Blame(w)
           \/ Condemn(w) \/ Fault(w) \/ Crash(w)
  <2>1. \E pc : Goto(w, pc) \/ End(w, pc)
    BY <1>10 DEF Initialize, Wipe, Acquire, RecoverRollups, RecoverBegin, RecoverPromote, Interrupt,
                Discard, Admit, Stage, Catalog, Capture, Promote, Register, Complete, FailRun, Blame,
                Condemn, Fault, Crash, Raise
  <2> QED
    BY <1>1, <1>2, <2>1
<1> QED
  BY <1>4, <1>5, <1>6, <1>7, <1>8, <1>9, <1>10 DEF Step

\* A database was written to, and every cursor in it is still within its file.
LEMMA WriteGrows ==
    ASSUME TypeInv, Grown, UNCHANGED file, NEW path \in Paths, NEW b,
           artifact' = [artifact EXCEPT ![path] = b],
           \A s \in Sources : Below(b, s, file[s])
    PROVE  RowsGrow'
<1>1. artifact \in [Paths -> Artifact] /\ RowsGrow
  BY DEF TypeInv, Typed, Grown, FilesGrow
<1>2. ASSUME NEW p \in Paths, NEW s \in Sources PROVE Below(artifact'[p], s, file'[s])
  <2>1. artifact'[p] = IF p = path THEN b ELSE artifact[p]
    BY <1>1
  <2> QED
    BY <1>1, <2>1 DEF RowsGrow
<1> QED
  BY <1>2 DEF RowsGrow, Below

LEMMA SameRowsGrow ==
    ASSUME TypeInv, Grown, NEW path \in Paths, NEW b, b.rows = artifact[path].rows
    PROVE  \A s \in Sources : Below(b, s, file[s])
BY DEF Grown, FilesGrow, RowsGrow, Below

LEMMA FirstIds == \A s \in Sources : FirstId(s) \in SourceIds
BY ArtifactBounds DEF FirstId, SourceIds, Versions

\* What is recorded of plans is what their worker observed.
LEMMA RecordedBelow ==
    ASSUME Kernel, Aligned, Grown, NEW w \in Workers, wk[w].pc \in Informed,
           NEW plans \in SUBSET (wk[w].plans \cup wk[w].todo),
           \A p \in plans : p.obs = wk[w].obs[p.obs.id[1]],
           NEW s \in Sources, FirstId(s) \in IdsOf(plans)
    PROVE  /\ file[s] # None /\ Recorded(plans, FirstId(s)).ver = 1
           /\ Recorded(plans, FirstId(s)).off <= file[s].len
<1> DEFINE q == CHOOSE p \in plans : p.obs.id = FirstId(s)
<1>1. q \in plans /\ q.obs.id = FirstId(s)
  BY DEF IdsOf
<1>2. Recorded(plans, FirstId(s)) = EndOf(q.obs)
  BY DEF Recorded
<1> HIDE DEF q
<1>3. q.obs.id[1] = s /\ s \in wk[w].scope /\ TypeInv
  <2>1. TypeInv /\ q.obs.id[1] = s
    BY <1>1 DEF FirstId, Kernel
  <2>2. q \in wk[w].plans \cup wk[w].todo
    BY <1>1
  <2> QED
    BY <2>1, <2>2, ScopeIs
<1>4. q.obs = wk[w].obs[s]
  BY <1>1, <1>3
<1>5. file[s] # None
  BY <1>3, ScopeIs
<1> QED
  BY <1>2, <1>3, <1>4, <1>5, ObservedFirst DEF EndOf

\* The transactions of a build that record plans.
LEMMA BuildGrows ==
    ASSUME Kernel, Aligned, Grown, NEW w \in Workers,
           Open(w) \/ Facts(w) \/ Seal(w) \/ Batch(w) \/ Finalize(w) \/ Rollup(w)
    PROVE  RowsGrow'
<1>0. /\ TypeInv /\ wk[w].pc \in Built /\ UNCHANGED file /\ wk[w].pc \in Informed
      /\ Written(w) \in Artifact /\ Written(w) = artifact[wk[w].path] /\ wk[w].path \in Paths
      /\ wk[w].gen \in Generations /\ wk[w].plans \in SUBSET Plan /\ wk[w].todo \in SUBSET Plan
  <2>1. wk[w].pc \in Built /\ UNCHANGED file /\ TypeInv
    BY ClassesAre DEF Open, Facts, Seal, Batch, Finalize, Rollup, At, sidecarVars, Kernel
  <2> QED
    BY <2>1, WrittenIs, PhasesAre
<1>1. CASE UNCHANGED artifact
  BY <1>0, <1>1 DEF Grown, FilesGrow, RowsGrow, Below
<1>2. ASSUME NEW b, artifact' = [artifact EXCEPT ![wk[w].path] = b],
             \A s \in Sources : Below(b, s, file[s])
      PROVE  RowsGrow'
  <2> DEFINE path == wk[w].path
  <2>1. path \in Paths /\ artifact' = [artifact EXCEPT ![path] = b]
    BY <1>0, <1>2
  <2> HIDE DEF path
  <2> QED
    BY <1>0, <1>2, <2>1, WriteGrows
<1>3. \A b : b.rows = Written(w).rows => \A s \in Sources : Below(b, s, file[s])
  BY <1>0 DEF Grown, FilesGrow, RowsGrow, Below
<1>4. \A s \in Sources : Below(Written(w), s, file[s])
  BY <1>3
<1>5. CASE Open(w)
  <2> DEFINE plans == wk[w].plans
             b == OpenRefresh(Written(w), plans, wk[w].gen)
             fresh == Fresh(plans)
  <2>1. artifact' = [artifact EXCEPT ![wk[w].path] = b]
    BY <1>5 DEF Open, Commit
  <2>2. IsOpened(Written(w), b, plans, wk[w].gen)
    BY <1>0, OpenGives
  <2>3. fresh \in SUBSET (wk[w].plans \cup wk[w].todo)
    BY DEF Fresh
  <2>4. \A p \in fresh : p.obs = wk[w].obs[p.obs.id[1]]
    <3>1. wk[w].pc \in Planned
      BY <1>5, PhasesAre DEF Open, At
    <3> QED
      BY <3>1 DEF Aligned, AlignedAt, Fresh
  <2>5. \A i \in SourceIds : b.rows[i] = IF i \in IdsOf(fresh) THEN Recorded(fresh, i)
                                         ELSE IF i \in ReplacedIds(plans) THEN None ELSE Written(w).rows[i]
    BY <2>2 DEF IsOpened
  <2> HIDE DEF b, plans, fresh
  <2>6. ASSUME NEW s \in Sources PROVE Below(b, s, file[s])
    <3>1. FirstId(s) \in SourceIds
      BY FirstIds
    <3>2. CASE FirstId(s) \in IdsOf(fresh)
      <4>1. /\ file[s] # None /\ Recorded(fresh, FirstId(s)).ver = 1
            /\ Recorded(fresh, FirstId(s)).off <= file[s].len
        BY <1>0, <2>3, <2>4, <3>2, RecordedBelow
      <4> QED
        BY <2>5, <3>1, <3>2, <4>1 DEF Below
    <3>3. CASE FirstId(s) \notin IdsOf(fresh)
      BY <1>4, <2>5, <3>1, <3>3 DEF Below
    <3> QED
      BY <3>2, <3>3
  <2> QED
    BY <1>2, <2>1, <2>6
<1>6. CASE Facts(w)
  <2>1. PICK plan \in wk[w].todo :
           \/ artifact' = [artifact EXCEPT ![wk[w].path] = InsertFacts(Written(w), plan, wk[w].gen)]
           \/ UNCHANGED artifact
    BY <1>6 DEF Facts, Commit
  <2> DEFINE b == InsertFacts(Written(w), plan, wk[w].gen)
  <2>2. b.rows = Written(w).rows
    BY <1>0, InsertGives DEF IsInserted
  <2>3. artifact' = [artifact EXCEPT ![wk[w].path] = b] \/ UNCHANGED artifact
    BY <2>1
  <2> HIDE DEF b
  <2> QED
    BY <1>1, <1>2, <1>3, <2>2, <2>3
<1>7. CASE Seal(w)
  <2> DEFINE plans == wk[w].plans
             b == SealRefresh(Written(w), plans, wk[w].gen)
  <2>1. artifact' = [artifact EXCEPT ![wk[w].path] = b]
    BY <1>7 DEF Seal, Commit
  <2>2. \A i \in SourceIds : b.rows[i] = IF i \in IdsOf(plans) THEN Recorded(plans, i) ELSE Written(w).rows[i]
    BY <1>0, SealGives DEF IsSealed
  <2>3. plans \in SUBSET (wk[w].plans \cup wk[w].todo)
    OBVIOUS
  <2>4. \A p \in plans : p.obs = wk[w].obs[p.obs.id[1]]
    <3>1. wk[w].pc \in Planned
      BY <1>7, PhasesAre DEF Seal, At
    <3> QED
      BY <3>1 DEF Aligned, AlignedAt
  <2> HIDE DEF b, plans
  <2>5. ASSUME NEW s \in Sources PROVE Below(b, s, file[s])
    <3>1. FirstId(s) \in SourceIds
      BY FirstIds
    <3>2. CASE FirstId(s) \in IdsOf(plans)
      <4>1. /\ file[s] # None /\ Recorded(plans, FirstId(s)).ver = 1
            /\ Recorded(plans, FirstId(s)).off <= file[s].len
        BY <1>0, <2>3, <2>4, <3>2, RecordedBelow
      <4> QED
        BY <2>2, <3>1, <3>2, <4>1 DEF Below
    <3>3. CASE FirstId(s) \notin IdsOf(plans)
      BY <1>4, <2>2, <3>1, <3>3 DEF Below
    <3> QED
      BY <3>2, <3>3
  <2> QED
    BY <1>2, <2>1, <2>5
<1>8. CASE Finalize(w)
  <2> DEFINE b == SealRefresh(Written(w), {}, wk[w].gen)
  <2>1. artifact' = [artifact EXCEPT ![wk[w].path] = b]
    BY <1>8 DEF Finalize, Commit
  <2>2. \A i \in SourceIds : b.rows[i] = Written(w).rows[i]
    <3>1. {} \in SUBSET Plan /\ IdsOf({}) = {}
      BY DEF IdsOf
    <3> QED
      BY <1>0, <3>1, SealGives DEF IsSealed
  <2> HIDE DEF b
  <2>3. \A s \in Sources : Below(b, s, file[s])
    BY <1>4, <2>2, FirstIds DEF Below
  <2> QED
    BY <1>2, <2>1, <2>3
<1>9. CASE Batch(w)
  <2>1. PICK plan \in wk[w].todo :
           \/ artifact' = [artifact EXCEPT ![wk[w].path] =
                  CommitBatch(Written(w), Parsed(plan, file[plan.obs.id[1]]), wk[w].gen,
                              wk[w].todo = wk[w].plans)]
           \/ UNCHANGED artifact
    BY <1>9 DEF Batch, Commit
  <2> DEFINE read == Parsed(plan, file[plan.obs.id[1]])
             first == wk[w].todo = wk[w].plans
             b == CommitBatch(Written(w), read, wk[w].gen, first)
  <2>2. read \in Plan /\ first \in BOOLEAN /\ read.obs = plan.obs
    <3>1. plan \in Plan /\ file[plan.obs.id[1]] # None /\ plan.obs.id[1] \in Sources
      BY <1>0, <2>1, ScopeIs
    <3>2. file[plan.obs.id[1]] \in Observation
      BY <1>0, <3>1 DEF TypeInv, Typed
    <3> QED
      BY <3>1, <3>2, ParsedTyped
  <2>3. artifact' = [artifact EXCEPT ![wk[w].path] = b] \/ UNCHANGED artifact
    BY <2>1
  <2>4. /\ plan.obs = wk[w].obs[plan.obs.id[1]] /\ plan.obs.id[1] \in wk[w].scope
    <3>1. wk[w].pc = "batch"
      BY <1>9 DEF Batch, At
    <3> QED
      BY <1>0, <2>1, <3>1, ScopeIs DEF Grown, GrownAt
  <2> HIDE DEF read, first
  <2>5. \A i \in SourceIds : b.rows[i] = IF i = read.obs.id THEN EndOf(read.obs) ELSE Written(w).rows[i]
    BY <1>0, <2>2, BatchGives DEF IsBatched
  <2> HIDE DEF b
  <2>6. ASSUME NEW s \in Sources PROVE Below(b, s, file[s])
    <3>1. FirstId(s) \in SourceIds
      BY FirstIds
    <3>2. CASE FirstId(s) = read.obs.id
      <4>1. plan.obs = wk[w].obs[s] /\ s \in wk[w].scope
        BY <2>2, <2>4, <3>2 DEF FirstId
      <4>2. file[s] # None
        BY <1>0, <4>1, ScopeIs
      <4>3. wk[w].obs[s].ver = 1 /\ wk[w].obs[s].len <= file[s].len
        BY <1>0, <4>1, ObservedFirst
      <4> QED
        BY <2>2, <2>5, <3>1, <3>2, <4>1, <4>2, <4>3 DEF Below, EndOf
    <3>3. CASE FirstId(s) # read.obs.id
      BY <1>4, <2>5, <3>1, <3>3 DEF Below
    <3> QED
      BY <3>2, <3>3
  <2> QED
    BY <1>1, <1>2, <2>3, <2>6
<1>10. CASE Rollup(w)
  <2> DEFINE b == RolledUp(w)
  <2>1. artifact' = [artifact EXCEPT ![wk[w].path] = b] \/ UNCHANGED artifact
    BY <1>0, <1>10, RollupGives
  <2>2. b.rows = Written(w).rows
    <3>1. \/ b = AdvanceRollups(Written(w), wk[w].gen, wk[w].prior)
          \/ b = RebuildRollups(Written(w), wk[w].gen)
      BY DEF RolledUp
    <3> HIDE DEF b
    <3> QED
      BY <1>0, <3>1, RollsKeep
  <2> HIDE DEF b
  <2> QED
    BY <1>1, <1>2, <1>3, <2>1, <2>2
<1> QED
  BY <1>5, <1>6, <1>7, <1>8, <1>9, <1>10

\* The other steps that write to a database, or copy one.
LEMMA CopyGrows ==
    ASSUME Kernel, Ordered, Grown, NEW w \in Workers, Wipe(w) \/ RecoverRollups(w) \/ Clone(w)
    PROVE  RowsGrow'
<1>0. TypeInv /\ artifact \in [Paths -> Artifact] /\ UNCHANGED file
  BY DEF Kernel, TypeInv, Typed, Wipe, RecoverRollups, Clone
<1>1. CASE Wipe(w)
  <2>1. artifact' = [artifact EXCEPT ![Base] = EmptyArtifact] /\ Base \in Paths
    BY <1>0, <1>1, ControlTyped DEF Wipe
  <2>2. \A s \in Sources : Below(EmptyArtifact, s, file[s])
    BY FirstIds DEF Below, EmptyArtifact
  <2> QED
    BY <1>0, <2>1, <2>2, WriteGrows
<1>2. CASE RecoverRollups(w)
  <2> DEFINE path == wk[w].read.staging
             a == artifact[path]
             b == IF RollupsReady(a, wk[w].read.gen)
                  THEN AdvanceRollups(a, wk[w].gen, wk[w].read.gen) ELSE RebuildRollups(a, wk[w].gen)
  <2>1. artifact' = [artifact EXCEPT ![path] = b]
    BY <1>2 DEF RecoverRollups
  <2>2. path \in Paths
    BY <1>0, <1>2, ControlTyped DEF RecoverRollups, At, Ordered, Numbered, Recovering
  <2>3. a \in Artifact
    BY <1>0, <2>2
  <2> HIDE DEF path
  <2>4. b.rows = a.rows
    <3> HIDE DEF a
    <3> QED
      BY <2>3, RollsKeep
  <2> HIDE DEF b
  <2>5. \A s \in Sources : Below(b, s, file[s])
    <3>1. b.rows = artifact[path].rows
      BY <2>4 DEF a
    <3> QED
      BY <1>0, <2>2, <3>1, SameRowsGrow
  <2> QED
    BY <1>0, <2>1, <2>2, <2>5, WriteGrows
<1>3. CASE Clone(w)
  <2>1. \/ artifact' = [artifact EXCEPT ![w] = artifact[wk[w].path]]
        \/ UNCHANGED artifact
    BY <1>3 DEF Clone
  <2>2. w \in Paths /\ wk[w].path \in Paths
    <3>1. wk[w].pc \in Pathed
      BY <1>3, StepsAre DEF Clone, At
    <3> QED
      BY <1>0, <3>1, ControlTyped, ScopeIs
  <2> DEFINE path == wk[w].path
             b == artifact[path]
  <2>3. path \in Paths /\ b.rows = artifact[path].rows
    BY <2>2
  <2>4. artifact' = [artifact EXCEPT ![w] = b] \/ UNCHANGED artifact
    BY <2>1
  <2> HIDE DEF b, path
  <2>5. \A s \in Sources : Below(b, s, file[s])
    BY <1>0, <2>3, SameRowsGrow
  <2>6. CASE UNCHANGED artifact
    BY <1>0, <2>6 DEF Grown, FilesGrow, RowsGrow, Below
  <2>7. CASE artifact' = [artifact EXCEPT ![w] = b]
    BY <1>0, <2>2, <2>5, <2>7, WriteGrows
  <2> QED
    BY <2>4, <2>6, <2>7
<1> QED
  BY <1>1, <1>2, <1>3

\* Files that only come and grow keep their first id and content.
LEMMA ChangeGrows ==
    ASSUME Growing, Kernel, Grown, NEW x \in Sources, ChangeFile(x)
    PROVE  /\ \A s \in Sources : file'[s] # None => file'[s].id = FirstId(s) /\ file'[s].ver = 1
           /\ RowsGrow'
<1>0. /\ TypeInv /\ file \in [Sources -> Observation \cup {None}] /\ artifact \in [Paths -> Artifact]
      /\ artifact' = artifact /\ world \in Worlds
      /\ \A s \in Sources : file[s] # None => file[s].id = FirstId(s) /\ file[s].ver = 1
  BY DEF Kernel, TypeInv, Typed, ChangeFile, Grown, FilesGrow
<1>1. PICK o \in Observation :
         /\ file' = [file EXCEPT ![x] = o]
         /\ \/ file[x] = None /\ o.id = <<x, 1>> /\ o.ver = 1
            \/ file[x] # None /\ o.id = file[x].id /\ o.ver = file[x].ver /\ o.len = file[x].len + 1
  <2>1. \A kind : MayChange(kind) => kind \in {"append", "appear", "rollback"}
    BY <1>0 DEF Growing, MayChange
  <2> QED
    BY <1>0, <2>1, FileChanges
<1>2. o # None /\ o.id = FirstId(x) /\ o.ver = 1
  BY <1>0, <1>1, AbsentArtifact DEF FirstId
<1>3. ASSUME NEW s \in Sources
      PROVE  file'[s] # None => file'[s].id = FirstId(s) /\ file'[s].ver = 1
  <2>1. file'[s] = IF s = x THEN o ELSE file[s]
    BY <1>0, <1>1
  <2> QED
    BY <1>0, <1>2, <2>1
<1>4. ASSUME NEW p \in Paths, NEW s \in Sources PROVE Below(artifact'[p], s, file'[s])
  <2>1. Below(artifact[p], s, file[s])
    BY DEF Grown, FilesGrow, RowsGrow
  <2>2. CASE s # x
    BY <1>0, <1>1, <2>1, <2>2
  <2>3. CASE s = x
    <3>1. file'[s] = o
      BY <1>0, <1>1, <2>3
    <3>2. CASE artifact[p].rows[FirstId(s)] = None
      BY <1>0, <3>2 DEF Below
    <3>3. CASE artifact[p].rows[FirstId(s)] # None
      <4> DEFINE c == artifact[p].rows[FirstId(s)]
      <4>1. file[s] # None /\ c.ver = 1 /\ c.off <= file[s].len
        BY <2>1, <3>3 DEF Below
      <4>2. o.len = file[s].len + 1
        BY <1>1, <2>3, <4>1
      <4>3. c.off \in Nat /\ file[s].len \in Nat
        <5>1. c \in Cursor
          BY <1>0, <3>3, FirstIds DEF Artifact
        <5>2. file[s] \in Observation
          BY <1>0, <4>1
        <5> QED
          BY <5>1, <5>2, ArtifactBounds DEF Cursor, Observation
      <4>4. artifact'[p].rows[FirstId(s)] = c
        BY <1>0
      <4> HIDE DEF c
      <4>5. c.off <= o.len
        BY <4>1, <4>2, <4>3
      <4> QED
        BY <1>2, <3>1, <4>1, <4>4, <4>5 DEF Below
    <3> QED
      BY <3>2, <3>3
  <2> QED
    BY <2>2, <2>3
<1> QED
  BY <1>3, <1>4 DEF RowsGrow, Below

LEMMA FilesGrowSteps ==
    ASSUME Growing, Kernel, Ordered, Aligned, Grown, [Next]_vars
    PROVE  FilesGrow'
<1>1. \A s \in Sources : registry'[s] \in {None, FirstId(s)}
  BY RegistryGrows
<1>2. UNCHANGED file => \A s \in Sources : file'[s] # None => file'[s].id = FirstId(s) /\ file'[s].ver = 1
  BY DEF Grown, FilesGrow
<1>3. UNCHANGED <<file, artifact>> => RowsGrow'
  BY DEF Grown, FilesGrow, RowsGrow, Below
<1>4. ASSUME NEW w \in Workers, Wipe(w) \/ RecoverRollups(w) \/ Clone(w)
      PROVE  UNCHANGED file /\ RowsGrow'
  BY <1>4, CopyGrows DEF Wipe, RecoverRollups, Clone
<1>5. ASSUME NEW w \in Workers,
             Open(w) \/ Facts(w) \/ Seal(w) \/ Batch(w) \/ Finalize(w) \/ Rollup(w)
      PROVE  UNCHANGED file /\ RowsGrow'
  BY <1>5, BuildGrows DEF Open, Facts, Seal, Batch, Finalize, Rollup
<1>6. ASSUME NEW w \in Workers,
             \/ Launch(w) \/ Initialize(w) \/ Observe(w) \/ Acquire(w)
             \/ Recover(w) \/ RecoverBegin(w) \/ RecoverPromote(w)
             \/ Interrupt(w) \/ Discard(w) \/ Admit(w)
             \/ MakePlans(w) \/ Stage(w) \/ Catalog(w) \/ Capture(w)
             \/ Fence(w) \/ Prepare(w) \/ Begin(w)
      PROVE  UNCHANGED <<file, artifact>>
  BY <1>6 DEF Launch, Initialize, Observe, Acquire, Recover, RecoverBegin, RecoverPromote, Interrupt,
              Discard, Admit, MakePlans, Stage, Catalog, Capture, Fence, Prepare, Begin
<1>7. ASSUME NEW w \in Workers,
             \/ CatchUp(w) \/ Replan(w) \/ Promote(w) \/ Register(w) \/ Complete(w)
             \/ FailRun(w) \/ Blame(w) \/ Condemn(w) \/ Fault(w) \/ Crash(w)
             \/ LeaseExpires(w) \/ Heartbeat(w)
      PROVE  UNCHANGED <<file, artifact>>
  BY <1>7 DEF CatchUp, Replan, Promote, Register, Complete, FailRun, Blame, Condemn, Fault, Crash,
              LeaseExpires, Heartbeat
<1>8. CASE Rollback \/ UNCHANGED vars
  BY <1>1, <1>2, <1>3, <1>8 DEF Rollback, vars, FilesGrow
<1>9. ASSUME NEW x \in Sources, ChangeFile(x) PROVE FilesGrow'
  BY <1>1, <1>9, ChangeGrows DEF FilesGrow
<1>10. ASSUME NEW w \in Workers, Step(w) \/ Fault(w) \/ Crash(w) \/ LeaseExpires(w) \/ Heartbeat(w)
       PROVE  FilesGrow'
  <2>1. UNCHANGED file /\ RowsGrow'
    BY <1>3, <1>4, <1>5, <1>6, <1>7, <1>10 DEF Step
  <2> QED
    BY <1>1, <1>2, <2>1 DEF FilesGrow
<1> QED
  BY <1>8, <1>9, <1>10 DEF Next

\* A step of a worker that leaves GrownAt and PlannedGrown to check for itself.
LEMMA WorkerGrows ==
    ASSUME Growing, Kernel, Ordered, Aligned, Grown, [Next]_vars,
           NEW w \in Workers, \A v \in Workers \ {w} : wk'[v] = wk[v],
           wk[w].pc \in AtWork \/ UNCHANGED artifact, GrownAt(w)', PlannedGrown(w)'
    PROVE  Grown'
<1>1. FilesGrow'
  BY FilesGrowSteps
<1>2. \A v \in Workers \ {w} : GrownAt(v)' /\ PlannedGrown(v)'
  BY OthersGrow
<1> QED
  BY <1>1, <1>2 DEF Grown

LEMMA GotoGrown ==
    ASSUME Kernel, Grown, NEW w \in Workers, NEW pc, Goto(w, pc), UNCHANGED artifact,
           pc \in Scouting => wk[w].pc \in Scouting,
           pc \in Unopened => wk[w].pc \in Unopened,
           pc \notin {"replan", "batch"}
    PROVE  GrownAt(w)'
<1>1. /\ wk'[w].pc = pc /\ wk'[w].obs = wk[w].obs /\ wk'[w].scope = wk[w].scope
      /\ wk'[w].plans = wk[w].plans
  BY GotoGives DEF Kernel
<1> QED
  BY <1>1, GrownKept

LEMMA GotoOff ==
    ASSUME Kernel, NEW w \in Workers, NEW pc, Goto(w, pc) \/ End(w, pc),
           pc \notin Scouting \cup Unopened \cup {"replan", "batch"}
    PROVE  GrownAt(w)'
<1>1. wk'[w].pc = pc
  BY GotoGives, EndGives DEF Kernel
<1> QED
  BY <1>1, GrownOff

\* Steps after which a worker neither knows of files nor has plans that count.
LEMMA PlainGrown ==
    ASSUME Kernel, NEW w \in Workers,
           \/ Launch(w) \/ Initialize(w) \/ Wipe(w) \/ Catalog(w) \/ Capture(w)
           \/ Open(w) \/ Facts(w) \/ Seal(w) \/ Finalize(w) \/ Rollup(w)
           \/ Promote(w) \/ Register(w) \/ Complete(w) \/ FailRun(w) \/ Blame(w) \/ Condemn(w)
           \/ Fault(w) \/ Crash(w)
    PROVE  GrownAt(w)'
<1>0. TypeInv /\ wk[w] \in WorkerState
  BY WorkerTyped DEF Kernel
<1>1. ASSUME NEW pc \in {"wipe", "observe", "complete", "register", "failRun", "blame", "condemn",
                         "done", "dead"}, Goto(w, pc) \/ End(w, pc)
      PROVE  GrownAt(w)'
  BY <1>1, GotoOff, GrowingIs DEF Unopened
<1>2. CASE Launch(w)
  <2>1. wk'[w].pc = "initialize"
    BY <1>0, <1>2, LaunchGives
  <2> QED
    BY <2>1, GrownOff, GrowingIs DEF Unopened
<1>3. CASE \/ Initialize(w) \/ Wipe(w) \/ Catalog(w) \/ Capture(w) \/ Promote(w) \/ Register(w)
           \/ Complete(w) \/ FailRun(w) \/ Blame(w) \/ Condemn(w) \/ Fault(w) \/ Crash(w)
  <2>1. \E pc \in {"wipe", "observe", "complete", "register", "failRun", "blame", "condemn",
                   "done", "dead"} : Goto(w, pc) \/ End(w, pc)
    BY <1>3 DEF Initialize, Wipe, Catalog, Capture, Promote, Register, Complete, FailRun, Blame, Condemn,
                Fault, Crash, Raise
  <2> QED
    BY <1>1, <2>1
<1>4. ASSUME NEW b, NEW pc, NEW todo, Commit(w, b, [wk[w] EXCEPT !.pc = pc, !.todo = todo]),
             pc \in {"seal", "facts", "catchUp"}
      PROVE  GrownAt(w)'
  <2>1. Commit(w, b, [wk[w] EXCEPT !.pc = pc, !.todo = todo])
    BY <1>4
  <2>2. wk'[w].pc = pc
    <3>1. /\ artifact' = [artifact EXCEPT ![wk[w].path] = b]
          /\ wk'[w].pc = pc /\ wk'[w].todo = todo
          /\ wk'[w].obs = wk[w].obs /\ wk'[w].scope = wk[w].scope /\ wk'[w].plans = wk[w].plans
          /\ wk'[w].gen = wk[w].gen /\ wk'[w].prior = wk[w].prior /\ wk'[w].path = wk[w].path
          /\ wk'[w].stream = wk[w].stream /\ wk'[w].incremental = wk[w].incremental
          /\ wk'[w].planned = wk[w].planned
          /\ \A v \in Workers \ {w} : wk'[v] = wk[v]
      BY <1>0, <2>1, CommitGives, Zenon
    <3> QED
      BY <3>1
  <2> QED
    BY <1>4, <2>2, GrownOff, GrowingIs DEF Unopened
<1>5. CASE Open(w)
  <2> DEFINE b == OpenRefresh(Written(w), wk[w].plans, wk[w].gen)
             pc == IF wk[w].plans = {} THEN "seal" ELSE "facts"
             todo == wk[w].plans
  <2>1. Commit(w, b, [wk[w] EXCEPT !.pc = pc, !.todo = todo]) /\ pc \in {"seal", "facts", "catchUp"}
    BY <1>5 DEF Open
  <2> HIDE DEF b, pc, todo
  <2> QED
    BY <1>4, <2>1
<1>6. CASE Facts(w)
  <2>1. PICK plan \in wk[w].todo :
           \/ Commit(w, InsertFacts(Written(w), plan, wk[w].gen),
                     [wk[w] EXCEPT !.pc = IF wk[w].todo \ {plan} = {} THEN "seal" ELSE wk[w].pc,
                                   !.todo = wk[w].todo \ {plan}])
           \/ Raise(w)
    BY <1>6 DEF Facts
  <2> DEFINE b == InsertFacts(Written(w), plan, wk[w].gen)
             todo == wk[w].todo \ {plan}
             pc == IF todo = {} THEN "seal" ELSE wk[w].pc
  <2>2. Commit(w, b, [wk[w] EXCEPT !.pc = pc, !.todo = todo]) \/ Goto(w, "failRun")
    BY <2>1 DEF Raise
  <2>3. pc \in {"seal", "facts", "catchUp"}
    BY <1>6 DEF Facts, At
  <2> HIDE DEF b, pc, todo
  <2> QED
    BY <1>1, <1>4, <2>2, <2>3
<1>7. CASE Seal(w) \/ Finalize(w)
  <2>1. PICK plans : Commit(w, SealRefresh(Written(w), plans, wk[w].gen), [wk[w] EXCEPT !.pc = "catchUp"])
    BY <1>7 DEF Seal, Finalize
  <2> DEFINE b == SealRefresh(Written(w), plans, wk[w].gen)
             pc == "catchUp"
             todo == wk[w].todo
  <2>2. [wk[w] EXCEPT !.pc = pc] = [wk[w] EXCEPT !.pc = pc, !.todo = todo]
    BY <1>0 DEF WorkerState
  <2>3. Commit(w, b, [wk[w] EXCEPT !.pc = pc, !.todo = todo]) /\ pc \in {"seal", "facts", "catchUp"}
    BY <2>1, <2>2
  <2> HIDE DEF b, pc, todo
  <2> QED
    BY <1>4, <2>3
<1>8. CASE Rollup(w)
  <2>1. CASE Goto(w, "failRun")
    BY <1>1, <2>1
  <2>2. CASE ~Goto(w, "failRun")
    <3>1. wk'[w].pc = "promote"
      BY <1>0, <1>8, <2>2, RollupGives
    <3> QED
      BY <3>1, GrownOff, GrowingIs DEF Unopened
  <2> QED
    BY <2>1, <2>2
<1> QED
  BY <1>2, <1>3, <1>5, <1>6, <1>7, <1>8

\* Up to its plans a worker's observations are at or beyond every cursor.
LEMMA ScoutGrown ==
    ASSUME Kernel, Ordered, Grown, NEW w \in Workers,
           \/ Observe(w) \/ Acquire(w) \/ Recover(w) \/ RecoverRollups(w) \/ RecoverBegin(w)
           \/ RecoverPromote(w) \/ Interrupt(w) \/ Discard(w) \/ Admit(w)
    PROVE  GrownAt(w)'
<1>0. TypeInv /\ wk[w] \in WorkerState /\ artifact \in [Paths -> Artifact]
  BY WorkerTyped DEF Kernel, TypeInv, Typed
<1>1. CASE Observe(w)
  <2>1. /\ wk'[w].pc = "acquire" /\ wk'[w].obs = Observed(wk[w].scope) /\ wk'[w].scope = wk[w].scope
        /\ UNCHANGED artifact
    BY <1>0, <1>1, LaunchGives DEF Observe
  <2>2. \A s \in wk[w].scope : s \in Sources /\ Observed(wk[w].scope)[s] = file[s]
    BY <1>0, ScopeIs DEF Observed
  <2>3. \A p \in Paths : \A s \in wk'[w].scope : Below(artifact'[p], s, wk'[w].obs[s])
    BY <2>1, <2>2 DEF Grown, FilesGrow, RowsGrow
  <2> QED
    BY <2>1, <2>3, GrowingIs DEF GrownAt, Unopened
<1>2. CASE Acquire(w)
  <2>1. CASE End(w, "done")
    BY <2>1, GotoOff, GrowingIs DEF Unopened
  <2>2. CASE Goto(w, "recover")
    BY <1>2, <2>2, GotoGrown, GrowingIs DEF Acquire, At, Unopened
  <2> QED
    BY <1>2, <2>1, <2>2 DEF Acquire
<1>3. CASE Recover(w)
  <2>1. /\ wk'[w].pc \in {"recoverRollups", "recoverBegin", "recoverPromote", "interrupt", "discard",
                          "admit"}
        /\ wk'[w].obs = wk[w].obs /\ wk'[w].scope = wk[w].scope /\ wk'[w].plans = wk[w].plans
    BY <1>0, <1>3, RecoverGives DEF SameBasics
  <2>2. UNCHANGED artifact /\ wk[w].pc \in Scouting
    BY <1>3, GrowingIs DEF Recover, At
  <2>3. wk'[w].pc \notin Unopened /\ wk'[w].pc \notin {"replan", "batch"}
    BY <2>1 DEF Unopened
  <2> QED
    BY <2>1, <2>2, <2>3, GrownKept
<1>4. CASE RecoverRollups(w)
  <2> DEFINE path == wk[w].read.staging
             a == artifact[path]
             b == IF RollupsReady(a, wk[w].read.gen)
                  THEN AdvanceRollups(a, wk[w].gen, wk[w].read.gen) ELSE RebuildRollups(a, wk[w].gen)
  <2>1. artifact' = [artifact EXCEPT ![path] = b]
    BY <1>4 DEF RecoverRollups
  <2>2. path \in Paths
    BY <1>0, <1>4, ControlTyped DEF RecoverRollups, At, Ordered, Numbered, Recovering
  <2>3. a \in Artifact
    BY <1>0, <2>2
  <2> HIDE DEF path
  <2>4. b.rows = a.rows
    <3> HIDE DEF a
    <3> QED
      BY <2>3, RollsKeep
  <2> HIDE DEF b
  <2>5. \A p \in Paths : artifact'[p].rows = artifact[p].rows
    BY <1>0, <2>1, <2>4 DEF a
  <2>6. PICK pc \in {"recoverBegin", "recoverPromote"} : Goto(w, pc)
    BY <1>4 DEF RecoverRollups
  <2>7. wk'[w].pc = pc /\ wk'[w].obs = wk[w].obs /\ wk'[w].scope = wk[w].scope
    BY <1>0, <2>6, GotoGives
  <2>8. wk[w].pc \in Scouting
    BY <1>4, GrowingIs DEF RecoverRollups, At
  <2>9. \A p \in Paths : \A s \in wk[w].scope : Below(artifact[p], s, wk[w].obs[s])
    BY <2>8 DEF Grown, GrownAt
  <2>10. \A p \in Paths : \A s \in wk'[w].scope : Below(artifact'[p], s, wk'[w].obs[s])
    BY <2>5, <2>7, <2>9 DEF Below
  <2>11. wk'[w].pc \notin Unopened /\ wk'[w].pc \notin {"replan", "batch"}
    BY <2>6, <2>7 DEF Unopened
  <2> QED
    BY <2>10, <2>11 DEF GrownAt
<1>5. CASE RecoverBegin(w) \/ RecoverPromote(w) \/ Interrupt(w) \/ Discard(w) \/ Admit(w)
  <2>1. PICK pc \in {"recoverPromote", "admit", "discard", "plan", "failRun"} : Goto(w, pc)
    BY <1>5 DEF RecoverBegin, RecoverPromote, Interrupt, Discard, Admit, Raise
  <2>2. UNCHANGED artifact /\ wk[w].pc \in Scouting
    BY <1>5, GrowingIs DEF RecoverBegin, RecoverPromote, Interrupt, Discard, Admit, At
  <2>3. pc \notin Unopened /\ pc \notin {"replan", "batch"}
    BY DEF Unopened
  <2> QED
    BY <2>1, <2>2, <2>3, GotoGrown
<1> QED
  BY <1>1, <1>2, <1>3, <1>4, <1>5

\* No plan for a file that only grew is one to replace the source.
LEMMA GrowthPlan ==
    ASSUME Kernel, Aligned, Grown, NEW w \in Workers, wk[w].pc \in Informed, NEW s \in wk[w].scope,
           NEW c \in Cursor \cup {None}, c # None => c.ver = 1 /\ c.off <= wk[w].obs[s].len,
           NEW p, IsPlan(p, c, wk[w].obs[s], FirstId(s), file[s]), p.replace
    PROVE  p.prior = None
<1>1. CASE c = None
  BY <1>1 DEF IsPlan
<1>2. CASE c # None
  <2>1. /\ wk[w].obs[s].id = FirstId(s) /\ file[s].ver = 1
    BY ObservedFirst
  <2>2. wk[w].obs[s].len \in Nat /\ c.off \in Nat
    BY <1>2, ObsTyped, ArtifactBounds DEF Kernel, Observation, Cursor
  <2>3. ~Replaced(wk[w].obs[s], FirstId(s), c, file[s])
    BY <1>2, <2>1, <2>2 DEF Replaced
  <2> QED
    BY <1>2, <2>3 DEF IsPlan
<1> QED
  BY <1>1, <1>2

LEMMA MakePlansGrown ==
    ASSUME Kernel, Aligned, Grown, NEW w \in Workers, MakePlans(w)
    PROVE  GrownAt(w)' /\ PlannedGrown(w)'
<1> DEFINE plans == PlansFor(w, ActivePath)
<1>0. /\ TypeInv /\ wk[w].pc \in Informed /\ wk[w].pc \in Scouting /\ wk[w].pc = "plan"
      /\ ActivePath \in Paths /\ artifact[ActivePath] \in Artifact
  BY StepsAre, GrowingIs, ActivePathTyped DEF MakePlans, At, Kernel
<1>1. /\ wk'[w].pc \in {"capture", "stage"} /\ wk'[w].plans = plans
      /\ wk'[w].planned = {p.obs : p \in plans}
  BY <1>0, MakePlansGives
<1>2. \A p \in plans : \E s \in wk[w].scope :
         IsPlan(p, artifact[ActivePath].rows[KnownId(w, s)], wk[w].obs[s], KnownId(w, s), file[s])
  BY <1>0, PlansForIs
<1>3. ASSUME NEW s \in wk[w].scope
      PROVE  KnownId(w, s) = FirstId(s) /\ wk[w].obs[s].id = FirstId(s) /\ s \in Sources
  <2>1. wk[w].obs[s].id = FirstId(s) /\ s \in Sources
    BY <1>0, ObservedFirst
  <2>2. registry[s] \in {None, FirstId(s)}
    BY <2>1 DEF Grown, FilesGrow
  <2> QED
    BY <2>1, <2>2 DEF KnownId
<1> HIDE DEF plans
<1>4. ReplacedIds(plans) = {}
  <2> SUFFICES ASSUME NEW p \in plans, p.replace, p.prior # None PROVE FALSE
    BY DEF ReplacedIds
  <2>1. PICK s \in wk[w].scope :
           IsPlan(p, artifact[ActivePath].rows[FirstId(s)], wk[w].obs[s], FirstId(s), file[s])
    BY <1>2, <1>3
  <2> DEFINE c == artifact[ActivePath].rows[FirstId(s)]
  <2>2. Below(artifact[ActivePath], s, wk[w].obs[s])
    BY <1>0 DEF Grown, GrownAt
  <2>3. c \in Cursor \cup {None} /\ (c # None => c.ver = 1 /\ c.off <= wk[w].obs[s].len)
    BY <1>0, <1>3, <2>2, FirstIds DEF Below, Artifact
  <2>4. IsPlan(p, c, wk[w].obs[s], FirstId(s), file[s])
    BY <2>1
  <2> HIDE DEF c
  <2> QED
    BY <1>0, <2>3, <2>4, GrowthPlan
<1>5. \A o \in wk'[w].planned : o.id = FirstId(o.id[1])
  <2> SUFFICES ASSUME NEW p \in plans PROVE p.obs.id = FirstId(p.obs.id[1])
    BY <1>1
  <2>1. PICK s \in wk[w].scope : p.obs = wk[w].obs[s]
    BY <1>2 DEF IsPlan
  <2>2. p.obs.id = FirstId(s)
    BY <1>3, <2>1
  <2> QED
    BY <2>2 DEF FirstId
<1>6. GrownAt(w)'
  BY <1>1, <1>4, GrowingIs DEF GrownAt
<1> QED
  BY <1>5, <1>6 DEF PlannedGrown

\* What a parse makes of plans replaces no more than they did.
LEMMA ParsedReplaces ==
    ASSUME NEW plans \in SUBSET Plan, ReplacedIds(plans) = {}
    PROVE  ReplacedIds(ParsedNow(plans)) = {}
<1> SUFFICES ASSUME NEW q \in ParsedNow(plans), q.replace, q.prior # None PROVE FALSE
  BY DEF ReplacedIds
<1>1. PICK p \in plans : q.prior = p.prior /\ q.replace = p.replace
  BY ParsedNowIs
<1>2. p.prior \in ReplacedIds(plans)
  BY <1>1 DEF ReplacedIds
<1> QED
  BY <1>2

\* From its plans to its first write a worker replaces nothing.
LEMMA PlannedGrowth ==
    ASSUME Kernel, Aligned, Grown, NEW w \in Workers,
           Stage(w) \/ Fence(w) \/ Prepare(w) \/ Clone(w) \/ Begin(w)
    PROVE  GrownAt(w)'
<1>0. TypeInv /\ GrownAt(w) /\ wk[w].plans \in SUBSET Plan
  BY WorkerTyped DEF Kernel, Grown, WorkerState
<1>1. CASE Stage(w)
  <2>1. PICK pc \in {"catalog", "prepare"} : Goto(w, pc)
    BY <1>1 DEF Stage
  <2>2. UNCHANGED artifact /\ wk[w].pc \in Unopened
    BY <1>1 DEF Stage, At, Unopened
  <2>3. pc \notin Scouting /\ pc \notin {"replan", "batch"}
    BY GrowingIs
  <2> QED
    BY <2>1, <2>2, <2>3, GotoGrown
<1>2. CASE Fence(w)
  <2>1. CASE Goto(w, "failRun")
    BY <2>1, GotoOff, GrowingIs DEF Unopened
  <2>2. CASE ~Goto(w, "failRun")
    <3>1. /\ wk'[w].pc = wk[w].pc /\ wk'[w].obs = wk[w].obs /\ wk'[w].scope = wk[w].scope
          /\ wk'[w].todo = wk[w].todo /\ wk'[w].plans = wk[w].plans /\ wk'[w].path = wk[w].path
      BY <1>0, <1>2, <2>2, FenceGives DEF SameBasics
    <3>2. artifact' = artifact
      BY <1>2 DEF Fence
    <3> QED
      BY <1>0, <3>1, <3>2 DEF GrownAt, Below
  <2> QED
    BY <2>1, <2>2
<1>3. CASE Prepare(w)
  <2>1. wk'[w].pc = "clone" /\ wk'[w].plans \in {wk[w].plans, ParsedNow(wk[w].plans)}
    BY <1>0, <1>3, PrepareGives
  <2>2. ReplacedIds(wk[w].plans) = {}
    BY <1>0, <1>3 DEF GrownAt, Prepare, At, Unopened
  <2>3. ReplacedIds(wk'[w].plans) = {}
    BY <1>0, <2>1, <2>2, ParsedReplaces
  <2> QED
    BY <2>1, <2>3, GrowingIs DEF GrownAt
<1>4. CASE Clone(w)
  <2>1. wk'[w].pc = "begin" /\ wk'[w].plans = wk[w].plans
    BY <1>0, <1>4, CloneGives
  <2>2. ReplacedIds(wk[w].plans) = {}
    BY <1>0, <1>4 DEF GrownAt, Clone, At, Unopened
  <2> QED
    BY <2>1, <2>2, GrowingIs DEF GrownAt
<1>5. CASE Begin(w)
  <2>0. wk[w].pc = "begin" /\ wk[w].pc \in Planned
    BY <1>5, PhasesAre DEF Begin, At
  <2>1. /\ wk'[w].pc = (IF wk[w].stream THEN "batch" ELSE "open") /\ wk'[w].plans = wk[w].plans
        /\ wk'[w].todo = (IF wk[w].stream THEN wk[w].plans ELSE wk[w].todo) /\ wk'[w].obs = wk[w].obs
    BY <1>0, <1>5, BeginGives
  <2>2. ReplacedIds(wk[w].plans) = {}
    BY <1>0, <2>0 DEF GrownAt, Unopened
  <2>3. \A p \in wk[w].plans : p.obs = wk[w].obs[p.obs.id[1]]
    BY <2>0 DEF Aligned, AlignedAt
  <2>4. CASE wk[w].stream
    BY <2>1, <2>3, <2>4, GrowingIs DEF GrownAt, Unopened
  <2>5. CASE ~wk[w].stream
    BY <2>1, <2>2, <2>5, GrowingIs DEF GrownAt
  <2> QED
    BY <2>4, <2>5
<1> QED
  BY <1>1, <1>2, <1>3, <1>4, <1>5

\* Nor does it when it catches up with the files.
LEMMA CatchUpGrown ==
    ASSUME Kernel, Aligned, Grown, NEW w \in Workers, Batch(w) \/ CatchUp(w) \/ Replan(w)
    PROVE  GrownAt(w)'
<1>0. TypeInv /\ GrownAt(w) /\ wk[w] \in WorkerState
  BY WorkerTyped DEF Kernel, Grown
<1>1. ASSUME Goto(w, "failRun") PROVE GrownAt(w)'
  BY <1>1, GotoOff, GrowingIs DEF Unopened
<1>2. CASE Batch(w)
  <2>1. PICK plan \in wk[w].todo :
           \/ Commit(w, CommitBatch(Written(w), Parsed(plan, file[plan.obs.id[1]]), wk[w].gen,
                                    wk[w].todo = wk[w].plans),
                     [wk[w] EXCEPT !.pc = IF wk[w].todo \ {plan} = {} THEN "finalize" ELSE wk[w].pc,
                                   !.todo = wk[w].todo \ {plan}])
           \/ Goto(w, "failRun")
    BY <1>2 DEF Batch, Raise
  <2> DEFINE b == CommitBatch(Written(w), Parsed(plan, file[plan.obs.id[1]]), wk[w].gen,
                              wk[w].todo = wk[w].plans)
             todo == wk[w].todo \ {plan}
             pc == IF todo = {} THEN "finalize" ELSE wk[w].pc
  <2>2. wk[w].pc = "batch" /\ pc \in {"finalize", "batch"} /\ todo \subseteq wk[w].todo
    BY <1>2 DEF Batch, At
  <2>3. Commit(w, b, [wk[w] EXCEPT !.pc = pc, !.todo = todo]) \/ Goto(w, "failRun")
    BY <2>1
  <2> HIDE DEF b, pc, todo
  <2>4. CASE Commit(w, b, [wk[w] EXCEPT !.pc = pc, !.todo = todo])
    <3>1. /\ artifact' = [artifact EXCEPT ![wk[w].path] = b]
          /\ wk'[w].pc = pc /\ wk'[w].todo = todo
          /\ wk'[w].obs = wk[w].obs /\ wk'[w].scope = wk[w].scope /\ wk'[w].plans = wk[w].plans
          /\ wk'[w].gen = wk[w].gen /\ wk'[w].prior = wk[w].prior /\ wk'[w].path = wk[w].path
          /\ wk'[w].stream = wk[w].stream /\ wk'[w].incremental = wk[w].incremental
          /\ wk'[w].planned = wk[w].planned
          /\ \A v \in Workers \ {w} : wk'[v] = wk[v]
      BY <1>0, <2>4, CommitGives, Zenon
    <3>2. \A p \in wk'[w].todo : p.obs = wk'[w].obs[p.obs.id[1]]
      BY <1>0, <2>2, <3>1 DEF GrownAt
    <3>3. wk'[w].pc \in {"finalize", "batch"}
      BY <2>2, <3>1
    <3> QED
      BY <3>2, <3>3, GrowingIs DEF GrownAt, Unopened
  <2> QED
    BY <1>1, <2>3, <2>4
<1>3. CASE CatchUp(w)
  <2>1. CASE ~Goto(w, "failRun")
    <3>1. /\ wk'[w].pc = "replan" /\ wk'[w].obs = Observed(wk[w].scope) /\ wk'[w].scope = wk[w].scope
          /\ wk'[w].path = wk[w].path /\ artifact' = artifact
      BY <1>0, <1>3, <2>1, CatchUpGives DEF CatchUp
    <3>2. \A s \in wk[w].scope : s \in Sources /\ Observed(wk[w].scope)[s] = file[s]
      BY <1>0, ScopeIs DEF Observed
    <3>3. wk[w].path \in Paths
      BY <1>0, <1>3, ScopeIs, StepsAre DEF CatchUp, At
    <3>4. \A s \in wk'[w].scope : Below(artifact'[wk'[w].path], s, wk'[w].obs[s])
      BY <3>1, <3>2, <3>3 DEF Grown, FilesGrow, RowsGrow
    <3> QED
      BY <3>1, <3>4, GrowingIs DEF GrownAt, Unopened
  <2> QED
    BY <1>1, <2>1
<1>4. CASE Replan(w)
  <2> DEFINE plans == Again(w)
  <2>0. /\ wk[w].pc = "replan" /\ wk[w].pc \in Informed /\ wk[w].pc \in Built
    BY <1>4, StepsAre, ClassesAre DEF Replan, At
  <2>1. wk'[w].pc \in {"rollup", "open"} /\ wk'[w].plans = ParsedNow(plans)
    BY <1>0, <1>4, ReplanGives
  <2>2. /\ plans \in SUBSET Plan
        /\ \A p \in plans : \E s \in wk[w].scope :
             IsPlan(p, Written(w).rows[wk[w].obs[s].id], wk[w].obs[s], wk[w].obs[s].id, file[s])
    BY <1>0, <2>0, AgainIs
  <2> HIDE DEF plans
  <2>3. ReplacedIds(plans) = {}
    <3> SUFFICES ASSUME NEW p \in plans, p.replace, p.prior # None PROVE FALSE
      BY DEF ReplacedIds
    <3>1. PICK s \in wk[w].scope :
             IsPlan(p, Written(w).rows[wk[w].obs[s].id], wk[w].obs[s], wk[w].obs[s].id, file[s])
      BY <2>2
    <3>2. wk[w].obs[s].id = FirstId(s) /\ s \in Sources
      BY <2>0, ObservedFirst
    <3> DEFINE c == Written(w).rows[FirstId(s)]
    <3>3. Below(Written(w), s, wk[w].obs[s])
      BY <1>0, <2>0 DEF GrownAt, Written
    <3>4. c \in Cursor \cup {None} /\ (c # None => c.ver = 1 /\ c.off <= wk[w].obs[s].len)
      BY <1>0, <2>0, <3>2, <3>3, FirstIds, WrittenIs DEF Below, Artifact
    <3>5. IsPlan(p, c, wk[w].obs[s], FirstId(s), file[s])
      BY <3>1, <3>2
    <3> HIDE DEF c
    <3> QED
      BY <2>0, <3>4, <3>5, GrowthPlan
  <2>4. ReplacedIds(wk'[w].plans) = {}
    BY <2>1, <2>2, <2>3, ParsedReplaces
  <2> QED
    BY <2>1, <2>4, GrowingIs DEF GrownAt
<1> QED
  BY <1>2, <1>3, <1>4

LEMMA GrownInit ==
    ASSUME Init
    PROVE  Grown
<1>0. /\ TypeInv /\ file \in [Sources -> Observation \cup {None}]
      /\ \A s \in Sources : file[s] # None => file[s].id = FirstId(s) /\ file[s].ver = 1
  <2>1. TypeInv /\ file \in [Sources -> Observation \cup {None}]
    BY TypeInit DEF TypeInv, Typed
  <2> QED
    BY <2>1 DEF Init, FirstFiles, FirstId
<1>1. ASSUME NEW w \in Workers PROVE GrownAt(w) /\ PlannedGrown(w)
  <2>1. wk[w].pc = "idle" /\ wk[w].planned = {}
    BY DEF Init, IdleWorker
  <2> QED
    BY <2>1, GrowingIs DEF GrownAt, PlannedGrown, Unopened
<1>2. \A s \in Sources : Below(EmptyArtifact, s, file[s])
  BY FirstIds DEF Below, EmptyArtifact
<1>3. CASE EmptyInit
  <2>1. RowsGrow /\ \A s \in Sources : registry[s] \in {None, FirstId(s)}
    BY <1>2, <1>3 DEF EmptyInit, RowsGrow
  <2> QED
    BY <1>0, <1>1, <2>1 DEF Grown, FilesGrow
<1>4. CASE "published" \in Starts /\ PublishedInit
  <2>1. 1 \in Generations
    BY <1>4, RefreshRegime
  <2>2. \A s \in Sources : registry[s] \in {None, FirstId(s)}
    BY <1>0, <1>4, PublishedIs
  <2> DEFINE b == PublishedBuild
             plans == PublishedPlans
  <2>3. /\ b \in Artifact
        /\ \A i \in SourceIds : b.rows[i] = IF i \in IdsOf(plans) THEN Recorded(plans, i) ELSE None
    BY <1>0, <2>1, PublishedGives
  <2>4. \A p \in plans : \E s \in Sources : file[s] # None /\ p.obs = file[s]
    BY DEF PublishedPlans, ObservedIn
  <2>5. \A p \in Paths : artifact[p] \in {b, EmptyArtifact}
    BY <1>4, PublishedIs
  <2> HIDE DEF b, plans
  <2>6. ASSUME NEW s \in Sources PROVE Below(b, s, file[s])
    <3>1. FirstId(s) \in SourceIds
      BY FirstIds
    <3>2. CASE FirstId(s) \in IdsOf(plans)
      <4> DEFINE q == CHOOSE p \in plans : p.obs.id = FirstId(s)
      <4>1. q \in plans /\ q.obs.id = FirstId(s)
        BY <3>2 DEF IdsOf
      <4>2. Recorded(plans, FirstId(s)) = EndOf(q.obs)
        BY DEF Recorded
      <4> HIDE DEF q
      <4>3. PICK x \in Sources : file[x] # None /\ q.obs = file[x]
        BY <2>4, <4>1
      <4>4. x = s
        BY <1>0, <4>1, <4>3 DEF FirstId
      <4>5. file[s] \in Observation /\ file[s].ver = 1
        BY <1>0, <4>3, <4>4
      <4>6. file[s].len <= file[s].len
        BY <4>5, ArtifactBounds DEF Observation
      <4> QED
        BY <2>3, <3>1, <3>2, <4>2, <4>3, <4>4, <4>5, <4>6 DEF Below, EndOf
    <3>3. CASE FirstId(s) \notin IdsOf(plans)
      BY <2>3, <3>1, <3>3 DEF Below
    <3> QED
      BY <3>2, <3>3
  <2>7. RowsGrow
    BY <1>2, <2>5, <2>6 DEF RowsGrow
  <2> QED
    BY <1>0, <1>1, <2>2, <2>7 DEF Grown, FilesGrow
<1> QED
  BY <1>3, <1>4 DEF Init

LEMMA GrownSteps ==
    ASSUME Growing, Kernel, Ordered, Aligned, Grown, [Next]_vars
    PROVE  Grown'
<1>0. TypeInv /\ FilesGrow'
  BY FilesGrowSteps DEF Kernel
<1>1. ASSUME NEW w \in Workers, Step(w) \/ Fault(w) \/ Crash(w) PROVE Grown'
  <2>1. \A v \in Workers \ {w} : wk'[v] = wk[v]
    BY <1>0, <1>1, PlainMoves, OtherMoves
  <2>2. PlannedGrown(w)'
    <3>1. CASE MakePlans(w)
      BY <3>1, MakePlansGrown
    <3>2. CASE ~MakePlans(w)
      <4>1. wk'[w].planned \in {wk[w].planned, {}}
        BY <1>0, <1>1, <3>2, PlannedStays
      <4> QED
        BY <4>1 DEF Grown, PlannedGrown
    <3> QED
      BY <3>1, <3>2
  <2>3. GrownAt(w)'
    <3>1. CASE \/ Launch(w) \/ Initialize(w) \/ Wipe(w) \/ Catalog(w) \/ Capture(w)
               \/ Open(w) \/ Facts(w) \/ Seal(w) \/ Finalize(w) \/ Rollup(w)
               \/ Promote(w) \/ Register(w) \/ Complete(w) \/ FailRun(w) \/ Blame(w) \/ Condemn(w)
               \/ Fault(w) \/ Crash(w)
      BY <3>1, PlainGrown
    <3>2. CASE \/ Observe(w) \/ Acquire(w) \/ Recover(w) \/ RecoverRollups(w) \/ RecoverBegin(w)
               \/ RecoverPromote(w) \/ Interrupt(w) \/ Discard(w) \/ Admit(w)
      BY <3>2, ScoutGrown
    <3>3. CASE MakePlans(w) \/ Stage(w) \/ Fence(w) \/ Prepare(w) \/ Clone(w) \/ Begin(w)
      BY <3>3, MakePlansGrown, PlannedGrowth
    <3>4. CASE Batch(w) \/ CatchUp(w) \/ Replan(w)
      BY <3>4, CatchUpGrown
    <3> QED
      BY <1>1, <3>1, <3>2, <3>3, <3>4 DEF Step
  <2>4. wk[w].pc \in AtWork \/ UNCHANGED artifact
    <3>1. CASE Wipe(w) \/ RecoverRollups(w) \/ Clone(w)
      BY <3>1, WorkIs, StepsAre DEF Wipe, RecoverRollups, Clone, At
    <3>2. CASE Open(w) \/ Facts(w) \/ Seal(w) \/ Batch(w) \/ Finalize(w) \/ Rollup(w)
      BY <3>2, WorkIs, StepsAre DEF Open, Facts, Seal, Batch, Finalize, Rollup, At
    <3>3. CASE \/ Launch(w) \/ Initialize(w) \/ Observe(w) \/ Acquire(w)
               \/ Recover(w) \/ RecoverBegin(w) \/ RecoverPromote(w)
               \/ Interrupt(w) \/ Discard(w) \/ Admit(w)
               \/ MakePlans(w) \/ Stage(w) \/ Catalog(w) \/ Capture(w)
               \/ Fence(w) \/ Prepare(w) \/ Begin(w)
      BY <3>3 DEF Launch, Initialize, Observe, Acquire, Recover, RecoverBegin, RecoverPromote,
                  Interrupt, Discard, Admit, MakePlans, Stage, Catalog, Capture, Fence, Prepare, Begin
    <3>4. CASE \/ CatchUp(w) \/ Replan(w) \/ Promote(w) \/ Register(w) \/ Complete(w)
               \/ FailRun(w) \/ Blame(w) \/ Condemn(w) \/ Fault(w) \/ Crash(w)
      BY <3>4 DEF CatchUp, Replan, Promote, Register, Complete, FailRun, Blame, Condemn, Fault, Crash
    <3> QED
      BY <1>1, <3>1, <3>2, <3>3, <3>4 DEF Step
  <2> QED
    BY <2>1, <2>2, <2>3, <2>4, WorkerGrows
<1>2. CASE UNCHANGED <<wk, artifact>>
  BY <1>0, <1>2 DEF Grown, GrownAt, PlannedGrown, Below
<1> QED
  BY <1>1, <1>2 DEF Next, LeaseExpires, Heartbeat, ChangeFile, Rollback, vars

LEMMA GrownUnreplaced ==
    ASSUME Grown
    PROVE  Unreplaced
BY DEF Grown, GrownAt, Unreplaced, Unopened

\* While files only come and grow, on an attended host, the rollups of the published
\* generation count the lines its readers are given, through any deaths and failures, up
\* to and after a first rollback.  Both conditions are needed: recovery advances rollups
\* over a source that was replaced, and a second rollback can return to the rollups of an
\* abandoned build whose number is given again.
THEOREM RollupsStayRight == Spec /\ Growing => [](rollbacks <= 1 => RollupsMatchFacts)
<1>1. CASE Growing
  <2> DEFINE Inv == /\ Kernel /\ Ordered /\ Aligned /\ Grown /\ rollbacks \in Nat
                    /\ rollbacks <= 1 => Rolls
  <2>1. Init => Inv
    <3>1. Init => rollbacks \in Nat
      BY DEF Init
    <3> QED
      BY <3>1, TypeInit, ExclusiveInit, OrderedInit, AlignedInit, GrownInit, RollsInit DEF Kernel
  <2>2. Inv /\ [Next]_vars => Inv'
    <3> SUFFICES ASSUME Inv, [Next]_vars PROVE Inv'
      OBVIOUS
    <3>1. Attended
      BY <1>1 DEF Growing
    <3>2. Kernel' /\ Ordered' /\ Aligned'
      BY <3>1, TypeSteps, ExclusiveSteps, OrderedSteps, AlignedSteps DEF Kernel
    <3>3. Grown'
      BY <1>1, GrownSteps
    <3>4. rollbacks' \in {rollbacks, rollbacks + 1}
      BY RollbackCounts
    <3>5. rollbacks' <= 1 => Rolls'
      <4> SUFFICES ASSUME rollbacks' <= 1 PROVE Rolls'
        OBVIOUS
      <4>1. Rolls /\ Unreplaced
        BY <3>4, GrownUnreplaced
      <4> QED
        BY <3>1, <4>1, RollsSteps
    <3> QED
      BY <3>2, <3>3, <3>4, <3>5
  <2>3. Inv => (rollbacks <= 1 => RollupsMatchFacts)
    BY RollsMatch
  <2> QED
    BY <2>1, <2>2, <2>3, PTL DEF Spec
<1>2. CASE ~Growing
  BY <1>2, PTL
<1> QED
  BY <1>1, <1>2

=============================================================================

--------------------------- MODULE KernelRefresh ---------------------------
(***************************************************************************)
(* KernelIngestor.refresh: workers that bring the analytical database up   *)
(* to date with source files, over the sidecar of RefreshControl and the   *)
(* databases of AnalyticalArtifact, while the files go on changing.        *)
(*                                                                         *)
(* A worker is a process with one run.  One action is one transaction, one *)
(* parse, one clone, or the reads before one of them.  A worker may raise  *)
(* or die at any step.  Every analytical commit of a build is fenced: the  *)
(* lease is checked (Fence), then the commit happens.                      *)
(***************************************************************************)
EXTENDS RefreshControl

CONSTANTS
    Worlds,      \* what happens around the workers, what of it may happen while one is
                 \* at work, and whether a worker dies or a step raises
    Lapses,      \* whose lease expires: see MayExpire
    Guarded,     \* workers are started under the launch guard
    Starts,      \* "empty": nothing was built; "published": generation 1 was
    MaxRollbacks \* bound: runs of repair --rollback

ChangeKinds == {"appear", "append", "overwrite", "rename", "rollback"}

ASSUME RefreshRegime == /\ Worlds \subseteq [changes : SUBSET ChangeKinds, mid : SUBSET ChangeKinds,
                                             failures : SUBSET {"crash", "fault"}]
                        /\ Lapses \in {"dead", "unmaintained", "any"}
                        /\ Starts \subseteq {"empty", "published"}
                        /\ Guarded \in BOOLEAN /\ MaxRollbacks \in Nat
                        /\ "published" \in Starts => 1 \in Generations

VARIABLES
    file,      \* by path: the file's id and content as an observation, or None
    artifact,  \* by path: the database in it
    wk,        \* by worker: the process
    rollbacks, \* count of rollbacks
    world      \* a member of Worlds, for good

sidecarVars == <<runs, control, staged, registry, coverage>>
vars == <<sidecarVars, file, artifact, wk, rollbacks, world>>

-----------------------------------------------------------------------------
(* Processes. *)

Unleased  == {"initialize", "wipe", "observe", "acquire"}
Recovery  == {"recover", "recoverRollups", "recoverBegin", "recoverPromote",
              "interrupt", "discard", "admit"}
Planning  == {"plan", "stage"}
Fenced    == {"prepare", "clone", "open", "facts", "seal", "batch", "finalize", "promote"}
Building  == Fenced \cup {"begin", "catchUp", "replan", "rollup"}
Finishing == {"register", "catalog", "capture", "complete"}
Handling  == {"failRun", "blame", "condemn"}
Guarding  == Recovery \cup Planning \cup Building \cup Finishing   \* inside the try block
Live      == Unleased \cup Guarding \cup Handling
Ended     == {"done", "dead"}

\* A worker's locals.  obs: its observations; planned: those of its first plans;
\* read: the cutover record recovery read; gen: the generation it builds or
\* reports; prior: the one the build starts from; path: the database it writes.
IdleWorker == [pc |-> "idle", obs |-> [s \in Sources |-> None], scope |-> {}, read |-> NoControl,
               wasFailed |-> FALSE, plans |-> {}, planned |-> {}, todo |-> {}, gen |-> 0,
               prior |-> 0, path |-> None, incremental |-> FALSE, stream |-> FALSE,
               attempt |-> 0, fenced |-> FALSE]

At(w, pc)   == wk[w].pc = pc
Becomes(w, rec) == wk' = [wk EXCEPT ![w] = rec]
Goto(w, pc) == Becomes(w, [wk[w] EXCEPT !.pc = pc, !.fenced = FALSE])
End(w, pc)  == Becomes(w, [IdleWorker EXCEPT !.pc = pc])
Raise(w)    == Goto(w, "failRun")

\* Writes its database and goes on.
Commit(w, a, rec) == /\ wk[w].fenced
                     /\ artifact' = [artifact EXCEPT ![wk[w].path] = a]
                     /\ Becomes(w, [rec EXCEPT !.fenced = FALSE])

ActivePath == IF control.active = None THEN Base ELSE control.active

\* The cutover record's view for readers.
Visible == IF control.active = None THEN {}
           ELSE VisibleLines(artifact[control.active], control.gen)
VisibleAllowance == IF control.active = None THEN {}
                    ELSE VisibleStates(artifact[control.active], control.gen)

-----------------------------------------------------------------------------
(* Starting. *)

\* The launch guard: no worker is started while one is at work or about to be.
MayLaunch == Guarded => /\ ~ActiveJob
                        /\ \A v \in Workers : wk[v].pc \notin Unleased

Launch(w) ==
    /\ At(w, "idle") /\ MayLaunch
    /\ LET found == {s \in Sources : file[s] # None}
       IN  /\ found # {}
           /\ Becomes(w, [wk[w] EXCEPT !.pc = "initialize", !.scope = found])
    /\ UNCHANGED <<sidecarVars, file, artifact, rollbacks, world>>

\* _initialize_for_explicit_refresh: an unpublished first build starts over.
Initialize(w) ==
    /\ At(w, "initialize")
    /\ Goto(w, IF control.active = None /\ control.state \in {"building", "failed"}
               THEN "wipe" ELSE "observe")
    /\ UNCHANGED <<sidecarVars, file, artifact, rollbacks, world>>

Wipe(w) ==
    /\ At(w, "wipe")
    /\ artifact' = [artifact EXCEPT ![Base] = EmptyArtifact]
    /\ Goto(w, "observe")
    /\ UNCHANGED <<sidecarVars, file, rollbacks, world>>

Observed(scope) == [s \in Sources |-> IF s \in scope THEN file[s] ELSE None]

Observe(w) ==
    /\ At(w, "observe")
    /\ Becomes(w, [wk[w] EXCEPT !.pc = "acquire", !.obs = Observed(wk[w].scope)])
    /\ UNCHANGED <<sidecarVars, file, artifact, rollbacks, world>>

\* A fresh run of another worker is joined or reported busy: the worker ends.
Acquire(w) ==
    /\ At(w, "acquire")
    /\ IF ActiveJob THEN End(w, "done") /\ UNCHANGED runs
                    ELSE CreateRun(w) /\ Goto(w, "recover")
    /\ UNCHANGED <<control, staged, registry, coverage, file, artifact, rollbacks, world>>

-----------------------------------------------------------------------------
(* _recover_or_active_generation *)

Recover(w) ==
    /\ At(w, "recover")
    /\ LET candidate == control.staging
           latest    == IF candidate = None THEN 0 ELSE LatestValid(artifact[candidate])
           found     == latest > control.gen /\ staged
           next == IF found
                   THEN IF ~RollupsReady(artifact[candidate], latest) THEN "recoverRollups"
                        ELSE IF control.state = "failed" THEN "recoverBegin" ELSE "recoverPromote"
                   ELSE IF control.state = "building" THEN "interrupt"
                        ELSE IF candidate # None THEN "discard" ELSE "admit"
       IN  Becomes(w, [wk[w] EXCEPT !.pc = next,
                                    !.read = control,
                                    !.wasFailed = control.state = "failed",
                                    !.gen = IF found THEN latest ELSE control.gen])
    /\ UNCHANGED <<sidecarVars, file, artifact, rollbacks, world>>

RecoverRollups(w) ==
    /\ At(w, "recoverRollups")
    /\ LET path == wk[w].read.staging
           a    == artifact[path]
           from == wk[w].read.gen
       IN  artifact' = [artifact EXCEPT ![path] =
               IF RollupsReady(a, from) THEN AdvanceRollups(a, wk[w].gen, from)
                                        ELSE RebuildRollups(a, wk[w].gen)]
    /\ Goto(w, IF wk[w].read.state = "failed" THEN "recoverBegin" ELSE "recoverPromote")
    /\ UNCHANGED <<sidecarVars, file, rollbacks, world>>

RecoverBegin(w) ==
    /\ At(w, "recoverBegin")
    /\ BeginCutover(wk[w].read.run, wk[w].read.staging)
    /\ Goto(w, "recoverPromote")
    /\ UNCHANGED <<runs, staged, registry, coverage, file, artifact, rollbacks, world>>

\* The registry's rows turn "hydrated"; the coverage row stays the old one.
RecoverPromote(w) ==
    /\ At(w, "recoverPromote")
    /\ LET path == wk[w].read.staging
       IN  IF staged /\ MayPromote(path) /\ artifact[path].gens[wk[w].gen] = "valid"
           THEN /\ control' = Promoted(path, wk[w].gen)
                /\ staged' = FALSE
                /\ Goto(w, "admit")
           ELSE Raise(w) /\ UNCHANGED <<control, staged>>
    /\ UNCHANGED <<runs, registry, coverage, file, artifact, rollbacks, world>>

Interrupt(w) ==
    /\ At(w, "interrupt")
    /\ IF MayFailCutover THEN FailCutover /\ Goto(w, "discard")
                         ELSE Raise(w) /\ UNCHANGED control
    /\ UNCHANGED <<runs, staged, registry, coverage, file, artifact, rollbacks, world>>

Discard(w) ==
    /\ At(w, "discard")
    /\ staged' = FALSE
    /\ Goto(w, "admit")
    /\ UNCHANGED <<runs, control, registry, coverage, file, artifact, rollbacks, world>>

\* After a failed build was promoted, the observed ids are registered at once.
Admit(w) ==
    /\ At(w, "admit")
    /\ IF wk[w].wasFailed /\ control.state = "active"
       THEN RegisterSources(ObservedIn(wk[w].obs)) ELSE UNCHANGED registry
    /\ Goto(w, "plan")
    /\ UNCHANGED <<runs, control, staged, coverage, file, artifact, rollbacks, world>>

-----------------------------------------------------------------------------
(* Planning. *)

\* _plans: the cursor is the one of the source id registered for the path.
PlansFor(w, path) ==
    UNION {LET o == wk[w].obs[s]
               known == IF registry[s] = None THEN o.id ELSE registry[s]
           IN  plan_source(artifact[path], o, known, file[s]) : s \in wk[w].scope}

MakePlans(w) ==
    /\ At(w, "plan")
    /\ LET plans == PlansFor(w, ActivePath)
       IN  Becomes(w, [wk[w] EXCEPT
               !.pc = IF plans = {} /\ coverage = wk[w].obs THEN "capture" ELSE "stage",
               !.plans = plans, !.planned = {p.obs : p \in plans}, !.path = ActivePath])
    /\ UNCHANGED <<sidecarVars, file, artifact, rollbacks, world>>

\* Without plans there is a build only when nothing was published yet.
Stage(w) ==
    /\ At(w, "stage")
    /\ StageCatalog(wk[w].obs)
    /\ Goto(w, IF wk[w].plans = {} /\ wk[w].gen > 0 THEN "catalog" ELSE "prepare")
    /\ UNCHANGED <<runs, control, coverage, file, artifact, rollbacks, world>>

Catalog(w) ==
    /\ At(w, "catalog")
    /\ RecordCatalog(wk[w].obs)
    /\ Goto(w, "complete")
    /\ UNCHANGED <<runs, control, file, artifact, rollbacks, world>>

\* update_hydration_capture raises when the coverage is another one meanwhile.
Capture(w) ==
    /\ At(w, "capture")
    /\ IF coverage = wk[w].obs THEN Goto(w, "complete") ELSE Raise(w)
    /\ UNCHANGED <<sidecarVars, file, artifact, rollbacks, world>>

-----------------------------------------------------------------------------
(* Building a generation. *)

\* Mutant: the lease is checked when the build starts and not again.
MutFence(w) ==
    /\ wk[w].pc \in Fenced /\ ~wk[w].fenced
    /\ Becomes(w, [wk[w] EXCEPT !.fenced = TRUE])
    /\ UNCHANGED <<sidecarVars, file, artifact, rollbacks, world>>

\* LeaseGuard.check, before each fenced step.
Fence(w) ==
    /\ wk[w].pc \in Fenced /\ ~wk[w].fenced
    /\ IF Owned(w) THEN Becomes(w, [wk[w] EXCEPT !.fenced = TRUE]) ELSE Raise(w)
    /\ UNCHANGED <<sidecarVars, file, artifact, rollbacks, world>>

ParsedNow(plans) == {Parsed(p, file[p.obs.id[1]]) : p \in plans}

\* _should_stream_bulk: always for a first build, by choice (the size of the new
\* sources) for an expansion that replaces nothing.
MayStream(plans) ==
    LET new == {p \in plans : p.prior = None}
    IN  IF control.gen = 0 THEN {plans # {} /\ new = plans}
        ELSE {FALSE} \cup {new # {} /\ \A p \in plans \ new : ~p.replace}

Prepare(w) ==
    /\ At(w, "prepare") /\ wk[w].fenced
    /\ control.gen < MaxGeneration
    /\ \E stream \in MayStream(wk[w].plans) :
          Becomes(w, [wk[w] EXCEPT !.pc = "clone", !.fenced = FALSE,
                                   !.gen = control.gen + 1, !.stream = stream,
                                   !.plans = IF stream THEN @ ELSE ParsedNow(@)])
    /\ UNCHANGED <<sidecarVars, file, artifact, rollbacks, world>>

\* Mutants: a replacement is written in place, or its rollups are advanced.
MutInPlace(w) == {[isolated |-> FALSE, incremental |-> TRUE]}

MutAdvanced(w) == {[isolated |-> TRUE, incremental |-> control.gen > 0]}

\* _write_path: the ways the build may be isolated.  Whether the new facts
\* collide with old ones is a choice; rollups may build on the prior ones unless
\* old facts go or change.
Isolations(w) ==
    LET replacement == \E p \in wk[w].plans : p.replace /\ p.prior # None
        forced      == wk[w].stream /\ control.gen > 0
        inPlace     == [isolated |-> FALSE, incremental |-> TRUE]
        isolated    == [isolated |-> TRUE, incremental |-> FALSE]
    IN  IF replacement \/ forced THEN {isolated}
        ELSE IF control.gen = 0 THEN {inPlace}
        ELSE {inPlace, isolated, [isolated |-> TRUE, incremental |-> TRUE]}

Clone(w) ==
    /\ At(w, "clone") /\ wk[w].fenced
    /\ \E way \in Isolations(w) :
          /\ artifact' = IF way.isolated
                         THEN [artifact EXCEPT ![w] = artifact[wk[w].path]] ELSE artifact
          /\ Becomes(w, [wk[w] EXCEPT !.pc = "begin", !.fenced = FALSE, !.prior = control.gen,
                                      !.path = IF way.isolated THEN w ELSE @,
                                      !.incremental = way.incremental])
    /\ UNCHANGED <<sidecarVars, file, rollbacks, world>>

Begin(w) ==
    /\ At(w, "begin")
    /\ BeginCutover(w, wk[w].path)
    /\ IF wk[w].stream
       THEN Becomes(w, [wk[w] EXCEPT !.pc = "batch", !.todo = wk[w].plans])
       ELSE Goto(w, "open")
    /\ UNCHANGED <<runs, staged, registry, coverage, file, artifact, rollbacks, world>>

Written(w) == artifact[wk[w].path]

Open(w) ==
    /\ At(w, "open")
    /\ Commit(w, OpenRefresh(Written(w), wk[w].plans, wk[w].gen),
              [wk[w] EXCEPT !.pc = IF wk[w].plans = {} THEN "seal" ELSE "facts",
                            !.todo = wk[w].plans])
    /\ UNCHANGED <<sidecarVars, file, rollbacks, world>>

\* One transaction of fact rows, whose keys must be there.
Facts(w) ==
    /\ At(w, "facts") /\ wk[w].fenced
    /\ \E plan \in wk[w].todo :
          LET left == wk[w].todo \ {plan}
          IN  IF MayInsert(Written(w), plan, wk[w].gen)
              THEN Commit(w, InsertFacts(Written(w), plan, wk[w].gen),
                          [wk[w] EXCEPT !.pc = IF left = {} THEN "seal" ELSE @, !.todo = left])
              ELSE Raise(w) /\ UNCHANGED artifact
    /\ UNCHANGED <<sidecarVars, file, rollbacks, world>>

Seal(w) ==
    /\ At(w, "seal")
    /\ Commit(w, SealRefresh(Written(w), wk[w].plans, wk[w].gen), [wk[w] EXCEPT !.pc = "catchUp"])
    /\ UNCHANGED <<sidecarVars, file, rollbacks, world>>

Batch(w) ==
    /\ At(w, "batch") /\ wk[w].fenced
    /\ \E plan \in wk[w].todo :
          LET left  == wk[w].todo \ {plan}
              first == wk[w].todo = wk[w].plans
              read  == Parsed(plan, file[plan.obs.id[1]])
          IN  IF first \/ Written(w).gens[wk[w].gen] # "absent"
              THEN Commit(w, CommitBatch(Written(w), read, wk[w].gen, first),
                          [wk[w] EXCEPT !.pc = IF left = {} THEN "finalize" ELSE @, !.todo = left])
              ELSE Raise(w) /\ UNCHANGED artifact
    /\ UNCHANGED <<sidecarVars, file, rollbacks, world>>

Finalize(w) ==
    /\ At(w, "finalize")
    /\ Commit(w, SealRefresh(Written(w), {}, wk[w].gen), [wk[w] EXCEPT !.pc = "catchUp"])
    /\ UNCHANGED <<sidecarVars, file, rollbacks, world>>

-----------------------------------------------------------------------------
(* Catching up with the files, and publishing. *)

CatchUp(w) ==
    /\ At(w, "catchUp")
    /\ IF wk[w].attempt = 3 THEN Raise(w)
       ELSE Becomes(w, [wk[w] EXCEPT !.pc = "replan", !.attempt = @ + 1,
                                     !.obs = Observed(wk[w].scope)])
    /\ UNCHANGED <<sidecarVars, file, artifact, rollbacks, world>>

\* _plans_from_artifact: the cursor is the one of the observed source id.
Replan(w) ==
    /\ At(w, "replan")
    /\ LET again == UNION {LET o == wk[w].obs[s] IN plan_source(Written(w), o, o.id, file[s])
                             : s \in wk[w].scope}
       IN  Becomes(w, [wk[w] EXCEPT !.pc = IF again = {} THEN "rollup" ELSE "open",
                                    !.plans = ParsedNow(again)])
    /\ UNCHANGED <<sidecarVars, file, artifact, rollbacks, world>>

\* The rollup transaction is not fenced.  A build without plans goes on to its
\* promotion without the check that precedes every other promotion.
Rollup(w) ==
    /\ At(w, "rollup")
    /\ LET a == Written(w)
           advance == wk[w].prior > 0 /\ wk[w].incremental
       IN  IF advance /\ a.roll[wk[w].prior] = None
           THEN Raise(w) /\ UNCHANGED artifact
           ELSE /\ artifact' = [artifact EXCEPT ![wk[w].path] =
                     IF advance THEN AdvanceRollups(a, wk[w].gen, wk[w].prior)
                                ELSE RebuildRollups(a, wk[w].gen)]
                /\ Becomes(w, [wk[w] EXCEPT !.pc = "promote", !.fenced = wk[w].planned = {}])
    /\ UNCHANGED <<sidecarVars, file, rollbacks, world>>

Promote(w) ==
    /\ At(w, "promote") /\ wk[w].fenced
    /\ LET path == wk[w].path
           gen  == wk[w].gen
       IN  IF /\ RollupsReady(artifact[path], gen)
              /\ artifact[path].gens[gen] = "valid"
              /\ MayPromote(path)
           THEN /\ control' = Promoted(path, gen)
                /\ RecordCatalog(wk[w].obs)
                /\ Goto(w, "register")
           ELSE Raise(w) /\ UNCHANGED <<control, registry, coverage, staged>>
    /\ UNCHANGED <<runs, file, artifact, rollbacks, world>>

\* The observations registered are those of the first plans.
Register(w) ==
    /\ At(w, "register")
    /\ RegisterSources(wk[w].planned)
    /\ Goto(w, "complete")
    /\ UNCHANGED <<runs, control, staged, coverage, file, artifact, rollbacks, world>>

Complete(w) ==
    /\ At(w, "complete")
    /\ CloseRun(w, "completed")
    /\ End(w, "done")
    /\ UNCHANGED <<control, staged, registry, coverage, file, artifact, rollbacks, world>>

-----------------------------------------------------------------------------
(* Failing. *)

FailRun(w) ==
    /\ At(w, "failRun")
    /\ CloseRun(w, "failed")
    /\ Goto(w, "blame")
    /\ UNCHANGED <<control, staged, registry, coverage, file, artifact, rollbacks, world>>

\* _mark_cutover_failed reads the record, whoever's build it names.
Blame(w) ==
    /\ At(w, "blame")
    /\ IF control.state = "building" THEN Goto(w, "condemn") ELSE End(w, "done")
    /\ UNCHANGED <<sidecarVars, file, artifact, rollbacks, world>>

Condemn(w) ==
    /\ At(w, "condemn")
    /\ IF MayFailCutover THEN FailCutover ELSE UNCHANGED control
    /\ End(w, "done")
    /\ UNCHANGED <<runs, staged, registry, coverage, file, artifact, rollbacks, world>>

Fault(w) ==
    /\ "fault" \in world.failures /\ wk[w].pc \in Guarding
    /\ Raise(w)
    /\ UNCHANGED <<sidecarVars, file, artifact, rollbacks, world>>

Crash(w) ==
    /\ "crash" \in world.failures /\ wk[w].pc \in Live
    /\ End(w, "dead")
    /\ UNCHANGED <<sidecarVars, file, artifact, rollbacks, world>>

-----------------------------------------------------------------------------
(* Time, files and the operator. *)

\* The heartbeat thread's first beat comes some time after the first check.
Maintained == Building \ {"prepare"}

\* A dead worker's lease expires.  A live one's may where nothing renews it
\* (recovery, planning, up to the first beat, finishing), or anywhere if the
\* process can be stalled.
MayExpire(w) == \/ At(w, "dead")
                \/ Lapses = "unmaintained" /\ wk[w].pc \notin Maintained
                \/ Lapses = "any"

LeaseExpires(w) ==
    /\ MayExpire(w) /\ Expire(w)
    /\ UNCHANGED <<control, staged, registry, coverage, file, artifact, wk, rollbacks, world>>

Heartbeat(w) ==
    /\ wk[w].pc \in Maintained /\ Renew(w)
    /\ UNCHANGED <<control, staged, registry, coverage, file, artifact, wk, rollbacks, world>>

MayChange(kind) ==
    kind \in world.changes /\ (kind \in world.mid \/ \A w \in Workers : wk[w].pc \notin Live)

Rewritten(s, inode, len) ==
    [id |-> <<s, inode>>, ver |-> file[s].ver + 1, len |-> len]

ChangeFile(s) ==
    /\ \/ /\ file[s] = None /\ MayChange("appear")
          /\ \E n \in 1 .. MaxLines :
                file' = [file EXCEPT ![s] = [id |-> <<s, 1>>, ver |-> 1, len |-> n]]
       \/ /\ file[s] # None /\ MayChange("append")
          /\ file[s].len < MaxLines
          /\ file' = [file EXCEPT ![s].len = @ + 1]
       \/ /\ file[s] # None /\ MayChange("overwrite")
          /\ file[s].ver < MaxVersion
          /\ \E n \in 1 .. MaxLines : file' = [file EXCEPT ![s] = Rewritten(s, file[s].id[2], n)]
       \/ /\ file[s] # None /\ MayChange("rename")
          /\ file[s].ver < MaxVersion
          /\ \E n \in 1 .. MaxLines : file' = [file EXCEPT ![s] = Rewritten(s, file[s].ver + 1, n)]
    /\ UNCHANGED <<sidecarVars, artifact, wk, rollbacks, world>>

\* repair --rollback, which asks nothing of the cutover state.
Rollback ==
    /\ MayChange("rollback") /\ rollbacks < MaxRollbacks
    /\ control.rollback # None
    /\ artifact[control.rollback].gens[control.rollbackGen] = "valid"
    /\ control' = RolledBack
    /\ rollbacks' = rollbacks + 1
    /\ UNCHANGED <<runs, staged, registry, coverage, file, artifact, wk, world>>

-----------------------------------------------------------------------------
Step(w) ==
    \/ Launch(w) \/ Initialize(w) \/ Wipe(w) \/ Observe(w) \/ Acquire(w)
    \/ Recover(w) \/ RecoverRollups(w) \/ RecoverBegin(w) \/ RecoverPromote(w)
    \/ Interrupt(w) \/ Discard(w) \/ Admit(w)
    \/ MakePlans(w) \/ Stage(w) \/ Catalog(w) \/ Capture(w)
    \/ Fence(w) \/ Prepare(w) \/ Clone(w) \/ Begin(w)
    \/ Open(w) \/ Facts(w) \/ Seal(w) \/ Batch(w) \/ Finalize(w)
    \/ CatchUp(w) \/ Replan(w) \/ Rollup(w) \/ Promote(w) \/ Register(w) \/ Complete(w)
    \/ FailRun(w) \/ Blame(w) \/ Condemn(w)

FirstFiles == {f \in [Sources -> Observation \cup {None}] :
                 \A s \in Sources : f[s] \in {None, [id |-> <<s, 1>>, ver |-> 1, len |-> 1]}}

\* Nothing was ever built.
EmptyInit ==
    /\ control = NoControl
    /\ registry = [s \in Sources |-> None]
    /\ coverage = [s \in Sources |-> None]
    /\ artifact = [p \in Paths |-> EmptyArtifact]

\* One refresh of the files was published as generation 1.
PublishedInit ==
    LET plans == {[obs |-> o, prior |-> None, start |-> 0, replace |-> TRUE,
                   lines |-> Content(o)] : o \in ObservedIn(file)}
        opened == OpenRefresh(EmptyArtifact, plans, 1)
        facts  == [opened EXCEPT !.facts  = {[line |-> l, gen |-> 1] :
                                               l \in UNION {p.lines : p \in plans}},
                                 !.states = UNION {InsertStates({}, p.lines, 1) : p \in plans}]
        built  == RebuildRollups(SealRefresh(facts, plans, 1), 1)
    IN  /\ plans # {}
        /\ artifact = [p \in Paths |-> IF p = Base THEN built ELSE EmptyArtifact]
        /\ control = [NoControl EXCEPT !.state = "active", !.active = Base, !.gen = 1]
        /\ registry = [s \in Sources |-> IF file[s] = None THEN None ELSE file[s].id]
        /\ coverage = file

Init ==
    /\ file \in FirstFiles
    /\ \/ "empty" \in Starts /\ EmptyInit
       \/ "published" \in Starts /\ PublishedInit
    /\ runs = [w \in Workers |-> NoRun]
    /\ staged = FALSE
    /\ wk = [w \in Workers |-> IdleWorker]
    /\ rollbacks = 0
    /\ world \in Worlds

Next ==
    \/ \E w \in Workers : Step(w) \/ Fault(w) \/ Crash(w) \/ LeaseExpires(w) \/ Heartbeat(w)
    \/ \E s \in Sources : ChangeFile(s)
    \/ Rollback

Spec == Init /\ [][Next]_vars

TypeOK ==
    /\ RefreshControlTypeOK
    /\ file \in [Sources -> Observation \cup {None}]
    /\ \A p \in Paths : LET a == artifact[p]
                        IN  /\ a.gens \in [Generations -> {"absent", "pending", "valid"}]
                            /\ a.rows \in [SourceIds -> Cursor \cup {None}]
                            /\ a.facts \subseteq Fact /\ a.states \subseteq State
                            /\ \A g \in Generations : a.roll[g] # None => a.roll[g] \subseteq Line
    /\ \A w \in Workers :
          /\ wk[w].pc \in Live \cup Ended \cup {"idle"}
          /\ wk[w].obs \in [Sources -> Observation \cup {None}]
          /\ \A p \in wk[w].plans : p.lines \subseteq Line
          /\ wk[w].path \in Paths \cup {None}

=============================================================================

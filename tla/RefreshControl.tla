--------------------------- MODULE RefreshControl ---------------------------
(***************************************************************************)
(* The operational sidecar of the released kernel: the refresh runs with   *)
(* their leases, the one cutover record, and the source registry with the  *)
(* coverage shown to readers.  One operator per transaction.               *)
(*                                                                         *)
(* A lease is fresh until its expiry has passed.  The integrity digest of  *)
(* a generation is bound to its generation row, so "digest matches" is     *)
(* "the generation is valid in the artifact", which the caller checks.     *)
(* READY is only passed through inside promote_cutover.                    *)
(***************************************************************************)
EXTENDS AnalyticalArtifact

CONSTANTS
    Workers,   \* refresh workers: each is one process and one run
    Base       \* path of the first analytical database

ASSUME BaseAssumption == Base \notin Workers /\ None \notin Workers \cup {Base}

VARIABLES
    runs,      \* refresh_runs
    control,   \* cutover_control
    staged,    \* whether staged_coverage_control has its row
    registry,  \* source_registry: the source id registered for a path
    coverage   \* coverage_control: what the published selection observed

\* An isolated build is written to a path named for its run.
Paths == Workers \cup {Base}

RunState == {"absent", "running", "completed", "failed", "interrupted"}
Run      == [state : RunState, fresh : BOOLEAN]
NoRun    == [state |-> "absent", fresh |-> FALSE]

Control  == [state      : {"absent", "building", "active", "failed"},
             active     : Paths \cup {None},
             gen        : 0 .. MaxGeneration,
             staging    : Paths \cup {None},
             run        : Workers \cup {None},
             rollback   : Paths \cup {None},
             rollbackGen : 0 .. MaxGeneration]

NoControl == [state |-> "absent", active |-> None, gen |-> 0, staging |-> None,
              run |-> None, rollback |-> None, rollbackGen |-> 0]

RefreshControlTypeOK ==
    /\ runs \in [Workers -> Run]
    /\ control \in Control
    /\ staged \in BOOLEAN
    /\ registry \in [Sources -> SourceIds \cup {None}]
    /\ coverage \in [Sources -> Observation \cup {None}]

-----------------------------------------------------------------------------
(* Leases. *)

Running(w)   == runs[w].state = "running"
Owned(w)     == Running(w) /\ runs[w].fresh            \* assert_owned
ActiveJob    == \E w \in Workers : Owned(w)            \* JobReader.active

\* RefreshLeaseRepository.acquire when no fresh run is in the way.
CreateRun(w) ==
    /\ ~ActiveJob
    /\ runs' = [v \in Workers |->
                  IF v = w THEN [state |-> "running", fresh |-> TRUE]
                  ELSE IF Running(v) THEN [runs[v] EXCEPT !.state = "interrupted"]
                  ELSE runs[v]]

\* complete and fail name the run and nothing else.
CloseRun(w, state) == runs' = [runs EXCEPT ![w].state = state]

Renew(w) == /\ Running(w) /\ ~runs[w].fresh
            /\ runs' = [runs EXCEPT ![w].fresh = TRUE]

Expire(w) == /\ Owned(w)
             /\ runs' = [runs EXCEPT ![w].fresh = FALSE]

-----------------------------------------------------------------------------
(* The cutover record. *)

\* transition_cutover to BUILDING, as _begin_cutover calls it: a build that is
\* under way is left as it is.
BeginCutover(run, staging) ==
    control' = IF control.state = "building" THEN control
               ELSE [control EXCEPT !.state = "building", !.staging = staging, !.run = run]

\* transition_cutover to FAILED; from other states it raises.
MayFailCutover == control.state \in {"building", "active"}
FailCutover    == control' = [control EXCEPT !.state = "failed"]

\* promote_cutover.
MayPromote(path) == control.state = "building" /\ control.staging = path
Promoted(path, gen) ==
    LET moved == control.active # None /\ control.active # path
    IN  [state   |-> "active",
         active  |-> path,
         gen     |-> gen,
         staging |-> None,
         run     |-> None,
         rollback    |-> IF moved THEN control.active ELSE control.rollback,
         rollbackGen |-> IF moved THEN control.gen ELSE control.rollbackGen]

\* Mutant: a build that was staged stays on record.
MutRolledBack == [control EXCEPT !.active = control.rollback, !.gen = control.rollbackGen,
                                 !.rollback = control.active, !.rollbackGen = control.gen]

\* rollback_cutover, once its artifact was validated.
RolledBack == [state   |-> "active",
               active  |-> control.rollback,
               gen     |-> control.rollbackGen,
               staging |-> None,
               run     |-> None,
               rollback    |-> control.active,
               rollbackGen |-> control.gen]

-----------------------------------------------------------------------------
(* Source registry and coverage.  "obs" has an observation or None by path. *)

\* register_sources: one row per path, so another id of the path is replaced.
RegisterSources(observed) ==
    registry' = [s \in Sources |->
                   IF \E o \in observed : o.id[1] = s
                   THEN (CHOOSE o \in observed : o.id[1] = s).id
                   ELSE registry[s]]

ObservedIn(obs) == {obs[s] : s \in {x \in Sources : obs[x] # None}}

\* stage_hydration_catalog: a path that is registered keeps its source id.
StageCatalog(obs) ==
    /\ staged' = TRUE
    /\ registry' = [s \in Sources |->
                      IF registry[s] = None /\ obs[s] # None THEN obs[s].id
                      ELSE registry[s]]

\* _record_hydration_catalog_in_connection, and the staged row is dropped.
RecordCatalog(obs) ==
    /\ RegisterSources(ObservedIn(obs))
    /\ coverage' = obs
    /\ staged' = FALSE

=============================================================================

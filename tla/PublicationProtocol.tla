------------------------- MODULE PublicationProtocol -------------------------
(***************************************************************************)
(* How the agent kernel makes a publication visible and recovers when the  *)
(* process doing so dies: the in-place publisher (publish_small_with_      *)
(* pointer), the isolated promoter (promote_isolated_artifact), read-first *)
(* selection (select_readable_artifact) and recover_startup, over the      *)
(* artifact files, the artifact pointer and the operational sidecar.       *)
(*                                                                         *)
(* One action per atomic step: a sidecar transaction, an analytical        *)
(* commit, a pointer replacement, or the reads between two of them.        *)
(* Processes interleave between any two steps and may die there.           *)
(*                                                                         *)
(* Operation o publishes publication o.  An isolated operation's candidate *)
(* is artifact o; Base is the first artifact and its first publication.    *)
(* An artifact's content is identified by the publication at its head, so  *)
(* a file digest is the head it was computed at.                           *)
(***************************************************************************)
EXTENDS Naturals, FiniteSets, Sequences

CONSTANTS
    Small,         \* operations published in place
    Isolated,      \* operations published as isolated artifacts
    Base,          \* the publication and the artifact that may exist at first
    Recoverers,    \* processes that run startup recovery
    KeyOf,         \* compatibility key of each operation
    TTL,           \* lease time to live
    StaleAfter,    \* age at which recovery calls a heartbeat stale
    None,
    MaxAttempts,   \* bound: worker processes per operation
    MaxCrashes,    \* bound: crashes of each recovery process
    MaxClock,      \* bound: clock readings
    MaxDamage,     \* bound: artifact files that get unreadable
    Recovery,      \* when the host recovers: see MayPublish and MayRecover
    Overrun        \* a live worker may be slower than its lease

Ops        == Small \cup Isolated
Pubs       == Ops \cup {Base}
Artifacts  == Isolated \cup {Base}
Workers    == Ops \X (1 .. MaxAttempts)
LeaseNames == {"analytical_writer", "artifact_promotion"}

ASSUME DisjointAssumption == Small \cap Isolated = {} /\ Base \notin Ops
ASSUME RegimeAssumption   == Recovery \in {"first", "alone", "anytime"}
                             /\ Overrun \in BOOLEAN
ASSUME BoundAssumption    == MaxAttempts \in Nat \ {0} /\ MaxClock \in Nat
                             /\ MaxCrashes \in Nat
                             /\ MaxDamage \in Nat /\ StaleAfter \in Nat \ {0}

VARIABLES
    jobs, leases, fence, intents, pointerRows,   \* the sidecar
    ptr,      \* the artifact pointer file, None while it is absent
    head,     \* by artifact: publication at its head, None while not built
    parent,   \* by publication: its parent publication
    damaged,  \* artifacts whose file can no longer be validated
    clock,
    pub,      \* by operation: the publishing process
    rec,      \* by recoverer: the recovering process
    dirty     \* a process stopped and no recovery has completed since: kept
              \* only for a host that recovers first

INSTANCE OperationalStore WITH Recoveries <- Isolated

sidecarVars == <<jobs, leases, fence, intents, pointerRows>>
fileVars == <<ptr, head, parent, damaged>>
vars == <<sidecarVars, fileVars, clock, pub, rec, dirty>>

-----------------------------------------------------------------------------
(* Pointers and selection. *)

PointerDocument == [gen      : Nat \ {0},
                    active   : PointerArtifact,
                    rollback : PointerArtifact \cup {None}]

\* The head validates against the artifact a pointer names: it is the named
\* publication, or a direct child of it.
ValidHead(artifact) ==
    /\ artifact.name \notin damaged
    /\ head[artifact.name] # None
    /\ \/ head[artifact.name] = artifact.pub
       \/ parent[head[artifact.name]] = artifact.pub

DigestMatches(artifact) ==
    artifact.file = None \/ head[artifact.name] = artifact.file

NeedsRepair(artifact) == head[artifact.name] # artifact.pub

ActiveReadable(p)   == ValidHead(p.active)
                       /\ (DigestMatches(p.active) \/ NeedsRepair(p.active))
RollbackReadable(p) == p.rollback # None /\ ValidHead(p.rollback)
                       /\ DigestMatches(p.rollback)
Readable(p)         == ActiveReadable(p) \/ RollbackReadable(p)

\* select_readable_artifact, for a pointer document read as p.
Selection(p) ==
    LET active == ActiveReadable(p)
        chosen == IF active THEN p.active ELSE p.rollback
    IN  [name   |-> chosen.name,
         head   |-> head[chosen.name],
         role   |-> IF active THEN "active" ELSE "rollback",
         repair |-> active /\ NeedsRepair(p.active)]

\* The pair of records kept for a pointer document.
RowOf(p, owner) == [gen |-> p.gen, active |-> p.active,
                    rollback |-> p.rollback, owner |-> owner]

-----------------------------------------------------------------------------
(* Processes. *)

Expectation == [gen : Nat, pub : Pubs \cup {None}, name : Artifacts \cup {None}]
Hold        == [op : Ops, worker : Workers, token : Nat]
HoldOf(l)   == [op |-> l.op, worker |-> l.worker, token |-> l.token]

\* What is absent is neither a name nor a row nor a document.
ASSUME LeaseAssumption  == TTL \in Nat \ {0}
ASSUME AbsentAssumption ==
    None \notin Ops \cup Pubs \cup Artifacts \cup Workers \cup Nat \cup Hold \cup Job
                \cup Lease \cup Intent \cup PointerArtifact \cup PointerDocument

\* A publisher before it plans, and what it forgets when it stops.  "expect" is
\* the state of the pointer its plan was made against.
NoExpectation == [gen |-> 0, pub |-> None, name |-> None]
IdlePublisher == [pc |-> "idle", attempt |-> 1, now |-> 0, expect |-> NoExpectation,
                  cur |-> None, back |-> None, writer |-> None, promotion |-> None]

Outside == {"idle", "stopped"}
Idle    == Outside \cup {"planned"}

WorkerOf(o) == <<o, pub[o].attempt>>
Alive == {WorkerOf(o) : o \in {p \in Ops : pub[p].pc \notin Outside}}

At(o, pc)   == pub[o].pc = pc
Goto(o, pc) == pub' = [pub EXCEPT ![o].pc = pc]

IdleRecoverer == [pc |-> "idle", now |-> 0, ptr |-> None, sel |-> None,
                  live |-> {}, todo |-> {}, item |-> None, crashes |-> 0]

\* A recoverer that forgot its run; how often it crashed is only a bound.
Rest(r, pc) == [IdleRecoverer EXCEPT !.pc = pc, !.crashes = rec[r].crashes]

RecAt(r, pc)   == rec[r].pc = pc
RecGoto(r, pc) == rec' = [rec EXCEPT ![r].pc = pc]

\* A host that recovers "alone" does not publish meanwhile.  One that recovers
\* "first" moreover does not publish while a recovery is due; without a pointer
\* there is nothing to select and so no recovery.  Or it recovers at "anytime".
MayPublish ==
    /\ Recovery # "anytime" => \A r \in Recoverers : RecAt(r, "idle")
    /\ Recovery = "first" /\ dirty => ptr = None

MayRecover == Recovery # "anytime" => \A o \in Ops : pub[o].pc \in Idle

-----------------------------------------------------------------------------
(* The host's side of an operation: it creates the job, plans and builds     *)
(* outside every lock, starts a new worker when one died, and stops.         *)

Plan(o) ==
    /\ At(o, "idle")
    /\ MayPublish
    /\ StartJob(o, clock)
    /\ Goto(o, "planned")
    /\ UNCHANGED <<fileVars, clock, rec, dirty>>

\* The job moves along its table to the state in which it publishes.  A plan is
\* made against the pointer of the moment; an isolated candidate is built on
\* that publication once, and keeps its plan when it is promoted again.
Prepare(o) ==
    /\ At(o, "planned")
    /\ MayPublish
    /\ IsActive(o)
    /\ o \in Small => ptr # None
    /\ LET seen  == IF ptr = None THEN NoExpectation
                    ELSE [gen |-> ptr.gen, pub |-> ptr.active.pub, name |-> ptr.active.name]
           build == o \in Isolated /\ head[o] = None
       IN  /\ pub' = [pub EXCEPT ![o].pc = "ready",
                                 ![o].expect = IF o \in Small \/ build THEN seen ELSE @]
           /\ head' = IF build THEN [head EXCEPT ![o] = o] ELSE head
           /\ parent' = IF build THEN [parent EXCEPT ![o] = seen.pub] ELSE parent
    /\ jobs' = [jobs EXCEPT ![o] =
                  [@ EXCEPT !.state     = IF o \in Small THEN "writing" ELSE "promoting",
                            !.worker    = WorkerOf(o),
                            !.heartbeat = clock,
                            !.updated   = clock,
                            !.candidate = IF o \in Small THEN None ELSE o]]
    /\ UNCHANGED <<leases, fence, intents, pointerRows, ptr, damaged, clock, rec, dirty>>

\* The process is gone; what it held in memory is lost, its leases are not.
Stopped(o) == [pub EXCEPT ![o] = [IdlePublisher EXCEPT
                  !.pc      = "stopped",
                  !.attempt = pub[o].attempt,
                  !.expect  = IF o \in Isolated THEN pub[o].expect ELSE NoExpectation]]

Crash(o) ==
    /\ pub[o].pc \notin Outside
    /\ pub' = Stopped(o)
    /\ dirty' = (Recovery = "first")
    /\ UNCHANGED <<sidecarVars, fileVars, clock, rec>>

Retry(o) ==
    /\ At(o, "stopped")
    /\ MayPublish
    /\ pub[o].attempt < MaxAttempts
    /\ IsActive(o)
    /\ pub' = [pub EXCEPT ![o].pc = "planned", ![o].attempt = @ + 1]
    /\ UNCHANGED <<sidecarVars, fileVars, clock, rec, dirty>>

\* The host keeps the job alive while its worker waits; the publishers do not.
Beat(o) ==
    /\ At(o, "ready")
    /\ IsActive(o) /\ jobs[o].heartbeat # clock
    /\ HeartbeatJob(o, WorkerOf(o), clock)
    /\ UNCHANGED <<fileVars, clock, pub, rec, dirty>>

-----------------------------------------------------------------------------
(* Both publishers: fence, finish, unwind.                                   *)

\* The call is stamped with the clock once, and uses that reading throughout.
Begin(o) ==
    /\ At(o, "ready")
    /\ MayPublish
    /\ AcquireLease("analytical_writer", o, WorkerOf(o), clock, Alive)
    /\ pub' = [pub EXCEPT ![o].pc     = IF o \in Small THEN "locked" ELSE "writer",
                          ![o].now    = clock,
                          ![o].writer = HoldOf(leases'["analytical_writer"])]
    /\ UNCHANGED <<fileVars, clock, rec, dirty>>

\* An exception: nothing more happens than the finally blocks.
Raise(o) == Goto(o, "unwind") /\ UNCHANGED sidecarVars

Complete(o) ==
    /\ At(o, IF o \in Small THEN "recorded" ELSE "reconciled")
    /\ \/ ForceTerminal(o, "completed", o, pub[o].now) /\ Goto(o, "unwind")
       \/ ~MayForceTerminal(o, pub[o].now) /\ Raise(o)
    /\ UNCHANGED <<fileVars, clock, rec, dirty>>

\* The promotion lease goes first; LeaseFenceError is suppressed.
Unwind(o) ==
    /\ At(o, "unwind")
    /\ LET promotion == pub[o].promotion
           n    == IF promotion = None THEN "analytical_writer" ELSE "artifact_promotion"
           held == IF promotion = None THEN pub[o].writer ELSE promotion
       IN  /\ \/ ReleaseLease(n, held)
              \/ ~MayRelease(n, held) /\ UNCHANGED sidecarVars
           /\ pub' = IF promotion = None THEN Stopped(o)
                     ELSE [pub EXCEPT ![o].promotion = None]
           /\ dirty' = (dirty \/ (Recovery = "first" /\ promotion = None /\ IsActive(o)))
    /\ UNCHANGED <<fileVars, clock, rec>>

-----------------------------------------------------------------------------
(* publish_small_with_pointer *)

ReadPointerSmall(o) ==
    /\ o \in Small /\ At(o, "locked")
    /\ IF /\ ptr # None
          /\ pub[o].expect = [gen |-> ptr.gen, pub |-> ptr.active.pub,
                              name |-> ptr.active.name]
       THEN pub' = [pub EXCEPT ![o].pc = "checked", ![o].cur = ptr]
       ELSE Goto(o, "unwind")
    /\ UNCHANGED <<sidecarVars, fileVars, clock, rec, dirty>>

\* The artifact is validated, and commit_analytical checks the parent again
\* inside its transaction: the new head is a direct child of the expected one.
\* An operation the artifact already holds is a replay, and refused.
CommitAnalytical(o) ==
    /\ o \in Small /\ At(o, "checked")
    /\ LET active == pub[o].cur.active
           fits   == /\ ValidHead(active) /\ DigestMatches(active)
                     /\ head[active.name] = pub[o].expect.pub
                     /\ parent[o] = None
       IN  /\ head' = IF fits THEN [head EXCEPT ![active.name] = o] ELSE head
           /\ parent' = IF fits THEN [parent EXCEPT ![o] = pub[o].expect.pub] ELSE parent
           /\ Goto(o, IF fits THEN "committed" ELSE "unwind")
    /\ UNCHANGED <<sidecarVars, ptr, damaged, clock, rec, dirty>>

FenceSmall(o) ==
    /\ o \in Small /\ At(o, "committed")
    /\ Goto(o, IF ValidLease("analytical_writer", pub[o].writer, pub[o].now)
               THEN "fenced" ELSE "unwind")
    /\ UNCHANGED <<sidecarVars, fileVars, clock, rec, dirty>>

\* Mutant: the active pair becomes the rollback, though it is the same file.
MutAdvancedPointer(o) ==
    [gen      |-> pub[o].cur.gen + 1,
     active   |-> [name |-> pub[o].cur.active.name, pub |-> o, file |-> None],
     rollback |-> pub[o].cur.active]

\* The same artifact at its new head, which no file digest describes any more.
AdvancedPointer(o) ==
    [gen      |-> pub[o].cur.gen + 1,
     active   |-> [name |-> pub[o].cur.active.name, pub |-> o, file |-> None],
     rollback |-> pub[o].cur.rollback]

WritePointerSmall(o) ==
    /\ o \in Small /\ At(o, "fenced")
    /\ ptr' = AdvancedPointer(o)
    /\ Goto(o, "written")
    /\ UNCHANGED <<sidecarVars, head, parent, damaged, clock, rec, dirty>>

RecordSmall(o) ==
    /\ o \in Small /\ At(o, "written")
    /\ LET row == RowOf(AdvancedPointer(o), o)
       IN  \/ RecordPointerPair(row) /\ Goto(o, "recorded")
           \/ ~MayRecord(row) /\ Raise(o)
    /\ UNCHANGED <<fileVars, clock, rec, dirty>>

PublishSmall(o) ==
    \/ ReadPointerSmall(o) \/ CommitAnalytical(o) \/ FenceSmall(o)
    \/ WritePointerSmall(o) \/ RecordSmall(o)

-----------------------------------------------------------------------------
(* promote_isolated_artifact *)

LockPromotion(o) ==
    /\ o \in Isolated /\ At(o, "writer")
    /\ LET now == pub[o].now
           n   == "artifact_promotion"
       IN  \/ /\ AcquireLease(n, o, WorkerOf(o), now, Alive)
              /\ pub' = [pub EXCEPT ![o].pc        = "locked",
                                    ![o].promotion = HoldOf(leases'[n])]
           \/ ~MayAcquire(n, o, WorkerOf(o), now, Alive) /\ Raise(o)
    /\ UNCHANGED <<fileVars, clock, rec, dirty>>

\* Mutant: only the presence of the pointer is checked.
MutPointerExpected(o) == ptr = None => pub[o].expect.gen = 0

\* The pointer is the one the plan was made against, absent only for an initial
\* promotion.
PointerExpected(o) ==
    IF ptr = None THEN pub[o].expect.gen = 0 /\ pub[o].expect.pub = None
    ELSE ptr.gen = pub[o].expect.gen /\ ptr.active.pub = pub[o].expect.pub

\* The candidate's digest, then the pointer.
Preflight(o) ==
    /\ o \in Isolated /\ At(o, "locked")
    /\ LET fits == o \notin damaged /\ head[o] = o /\ PointerExpected(o)
       IN  pub' = [pub EXCEPT ![o].pc  = IF fits THEN "checked" ELSE "unwind",
                              ![o].cur = IF fits THEN ptr ELSE @]
    /\ UNCHANGED <<sidecarVars, fileVars, clock, rec, dirty>>

IntentOf(o) == [op          |-> o,
                expectedGen |-> pub[o].expect.gen,
                expectedPub |-> pub[o].expect.pub,
                pub         |-> o,
                name        |-> o,
                state       |-> "prepared",
                updated     |-> pub[o].now]

MatchingIntent(o) == intents[o] = [IntentOf(o) EXCEPT !.updated = intents[o].updated]

\* A retry takes over the prepared intent its predecessor left.
PrepareIntent(o) ==
    /\ o \in Isolated /\ At(o, "checked")
    /\ \/ CreateIntent(o, IntentOf(o)) /\ Goto(o, "intended")
       \/ intents[o] # None /\ MatchingIntent(o) /\ Goto(o, "intended") /\ UNCHANGED sidecarVars
       \/ intents[o] # None /\ ~MatchingIntent(o) /\ Raise(o)
    /\ UNCHANGED <<fileVars, clock, rec, dirty>>

\* The prior artifact must still be at the pointer's publication; it becomes
\* the rollback, hashed now if it was last published in place.
SealRollback(o) ==
    /\ o \in Isolated /\ At(o, "intended")
    /\ LET cur  == pub[o].cur
           fits == cur # None => /\ ValidHead(cur.active) /\ DigestMatches(cur.active)
                                 /\ ~NeedsRepair(cur.active)
       IN  pub' = [pub EXCEPT
                     ![o].pc   = IF fits THEN "sealed" ELSE "unwind",
                     ![o].back = IF fits /\ cur # None
                                 THEN [cur.active EXCEPT !.file = head[cur.active.name]]
                                 ELSE None]
    /\ UNCHANGED <<sidecarVars, fileVars, clock, rec, dirty>>

FenceIsolated(o) ==
    /\ o \in Isolated /\ At(o, "sealed")
    /\ Goto(o, IF /\ ValidLease("analytical_writer", pub[o].writer, pub[o].now)
                  /\ ValidLease("artifact_promotion", pub[o].promotion, pub[o].now)
               THEN "fenced" ELSE "unwind")
    /\ UNCHANGED <<sidecarVars, fileVars, clock, rec, dirty>>

PromotedPointer(o) ==
    [gen      |-> pub[o].expect.gen + 1,
     active   |-> [name |-> o, pub |-> o, file |-> o],
     rollback |-> pub[o].back]

WritePointerIsolated(o) ==
    /\ o \in Isolated /\ At(o, "fenced")
    /\ ptr' = PromotedPointer(o)
    /\ Goto(o, "written")
    /\ UNCHANGED <<sidecarVars, head, parent, damaged, clock, rec, dirty>>

\* The intent follows the pointer; the promoted artifact is reopened in between.
MoveIntent(o, at, s, then) ==
    /\ o \in Isolated /\ At(o, at)
    /\ \/ TransitionIntent(o, s[1], s[2], pub[o].now) /\ Goto(o, then)
       \/ ~MayMoveIntent(o, s[1], pub[o].now) /\ Raise(o)
    /\ UNCHANGED <<fileVars, clock, rec, dirty>>

MarkWritten(o) == MoveIntent(o, "written", <<"prepared", "pointer_written">>, "marked")

Verify(o) ==
    /\ o \in Isolated /\ At(o, "marked")
    /\ IF ValidHead(PromotedPointer(o).active)
       THEN MoveIntent(o, "marked", <<"pointer_written", "verified">>, "verified")
       ELSE Raise(o) /\ UNCHANGED <<fileVars, clock, rec, dirty>>

RecordIsolated(o) ==
    /\ o \in Isolated /\ At(o, "verified")
    /\ LET row == RowOf(PromotedPointer(o), o)
       IN  \/ RecordPointerPair(row) /\ Goto(o, "recorded")
           \/ ~MayRecord(row) /\ Raise(o)
    /\ UNCHANGED <<fileVars, clock, rec, dirty>>

MarkReconciled(o) == MoveIntent(o, "recorded", <<"verified", "reconciled">>, "reconciled")

Promote(o) ==
    \/ LockPromotion(o) \/ Preflight(o) \/ PrepareIntent(o) \/ SealRollback(o)
    \/ FenceIsolated(o) \/ WritePointerIsolated(o) \/ MarkWritten(o) \/ Verify(o)
    \/ RecordIsolated(o) \/ MarkReconciled(o)

-----------------------------------------------------------------------------
(* Startup recovery.  It holds no lease, and works from the selection, the   *)
(* set of live lease holders and the pages it read before.                   *)

ReadPointer(r) ==
    /\ RecAt(r, "idle")
    /\ MayRecover
    /\ ptr # None
    /\ rec' = [rec EXCEPT ![r].pc = "read", ![r].ptr = ptr]
    /\ UNCHANGED <<sidecarVars, fileVars, clock, pub, dirty>>

\* Analytical reads open on the artifact chosen here; RecoveryError otherwise.
OpenSelected(r) ==
    /\ RecAt(r, "read")
    /\ rec' = [rec EXCEPT ![r] =
                 IF Readable(rec[r].ptr)
                 THEN [@ EXCEPT !.pc  = "selected",
                                !.sel = Selection(rec[r].ptr),
                                !.now = clock]
                 ELSE Rest(r, "unreadable")]
    /\ UNCHANGED <<sidecarVars, fileVars, clock, pub, dirty>>

\* Mutants: the generation is not advanced, and the file digest is kept.
MutRepairedPointer(p, name, at) ==
    [p EXCEPT !.active = [name |-> name, pub |-> at, file |-> None]]

MutRepairedDigest(p, name, at) ==
    [gen      |-> p.gen + 1,
     active   |-> [name |-> name, pub |-> at, file |-> p.active.file],
     rollback |-> p.rollback]

\* The pointer lags the head of its artifact: it is advanced to it.
RepairedPointer(p, name, at) ==
    [gen      |-> p.gen + 1,
     active   |-> [name |-> name, pub |-> at, file |-> None],
     rollback |-> p.rollback]

RepairPointer(r) ==
    /\ RecAt(r, "selected")
    /\ LET sel == rec[r].sel
           doc == IF sel.repair THEN RepairedPointer(rec[r].ptr, sel.name, sel.head)
                  ELSE rec[r].ptr
       IN  /\ ptr' = IF sel.repair THEN doc ELSE ptr
           /\ rec' = [rec EXCEPT ![r].pc = "repaired", ![r].ptr = doc]
    /\ UNCHANGED <<sidecarVars, head, parent, damaged, clock, pub, dirty>>

SnapshotStatus(r) ==
    /\ RecAt(r, "repaired")
    /\ LET live == {n \in LeaseNames : leases[n] # None /\ ~Stale(leases[n], rec[r].now, Alive)}
       IN  rec' = [rec EXCEPT ![r].pc = "status", ![r].live = {leases[n].op : n \in live}]
    /\ UNCHANGED <<sidecarVars, fileVars, clock, pub, dirty>>

RecRaise(r) ==
    rec' = [rec EXCEPT ![r] = Rest(r, "raised")] /\ UNCHANGED sidecarVars

\* Terminalise job o as part of recovery, then go on with rec[r] = next.
Terminalise(r, o, s, p, next) ==
    \/ /\ IsActive(o)
       /\ ForceTerminal(o, s, p, rec[r].now)
       /\ rec' = [rec EXCEPT ![r] = next]
    \/ IsActive(o) /\ ~MayForceTerminal(o, rec[r].now) /\ RecRaise(r)
    \/ ~IsActive(o) /\ rec' = [rec EXCEPT ![r] = next] /\ UNCHANGED sidecarVars

\* Mutant: the selected operation's job is left to the later steps.
MutCompleteSelected(r) ==
    /\ RecAt(r, "status")
    /\ RecGoto(r, "list_intents")
    /\ UNCHANGED <<sidecarVars, fileVars, clock, pub, dirty>>

\* The operation at the selected head did publish, whatever its row says.
CompleteSelected(r) ==
    /\ RecAt(r, "status")
    /\ LET o == rec[r].sel.head
       IN  IF o \in Ops /\ IsActive(o)
           THEN Terminalise(r, o, "completed", o, [rec[r] EXCEPT !.pc = "completed"])
           ELSE RecGoto(r, "list_intents") /\ UNCHANGED sidecarVars
    /\ UNCHANGED <<fileVars, clock, pub, dirty>>

\* Mutant: the rollback is not recorded.
MutSelectedRow(r, owner) ==
    RowOf([rec[r].ptr EXCEPT !.active.pub = rec[r].sel.head, !.rollback = None], owner)

\* The pair recorded for the selected pointer, at the selected head.
SelectedRow(r, owner) == RowOf([rec[r].ptr EXCEPT !.active.pub = rec[r].sel.head], owner)

RecordSelected(r, owner, next) ==
    \/ RecordPointerPair(SelectedRow(r, owner)) /\ rec' = [rec EXCEPT ![r] = next]
    \/ ~MayRecord(SelectedRow(r, owner)) /\ RecRaise(r)

RecordCompleted(r) ==
    /\ RecAt(r, "completed")
    /\ RecordSelected(r, rec[r].sel.head, [rec[r] EXCEPT !.pc = "list_intents"])
    /\ UNCHANGED <<fileVars, clock, pub, dirty>>

\* Mutant: only intents in their first state are listed.
MutPendingIntents == {<<i, "prepared">> : i \in {j \in Isolated : IsPending(j) /\ intents[j].state = "prepared"}}

PendingIntents == {<<i, intents[i].state>> : i \in {j \in Isolated : IsPending(j)}}

ListIntents(r) ==
    /\ RecAt(r, "list_intents")
    /\ rec' = [rec EXCEPT ![r].pc = "intents", ![r].todo = PendingIntents]
    /\ UNCHANGED <<sidecarVars, fileVars, clock, pub, dirty>>

CandidateSelected(r, i) ==
    /\ rec[r].sel.role = "active"
    /\ intents[i].name = rec[r].sel.name
    /\ intents[i].pub = rec[r].sel.head
    /\ intents[i].expectedGen + 1 = rec[r].ptr.gen

\* One pending intent of the page, judged by the state it was read in: its
\* candidate is selected, or a live lease holder owns it, or it is rolled back.
RecoverIntent(r) ==
    /\ RecAt(r, "intents")
    /\ \E item \in rec[r].todo :
          LET i    == item[1]
              s    == IF item[2] = "verified" THEN "failed" ELSE "rolled_back"
              rest == [rec[r] EXCEPT !.todo = @ \ {item}]
          IN  CASE CandidateSelected(r, i) ->
                     RecordSelected(r, intents[i].op,
                                    [rest EXCEPT !.pc = "reconcile", !.item = item])
                [] ~CandidateSelected(r, i) /\ intents[i].op \in rec[r].live ->
                     rec' = [rec EXCEPT ![r] = rest] /\ UNCHANGED sidecarVars
                [] OTHER ->
                     \/ /\ TransitionIntent(i, item[2], s, rec[r].now)
                        /\ rec' = [rec EXCEPT ![r] = [rest EXCEPT !.pc = "undo", !.item = item]]
                     \/ ~MayMoveIntent(i, item[2], rec[r].now) /\ RecRaise(r)
    /\ UNCHANGED <<fileVars, clock, pub, dirty>>

\* The selected candidate's intent is taken to reconciled, a transaction a state.
ReconcileIntent(r) ==
    /\ RecAt(r, "reconcile")
    /\ LET i == rec[r].item[1]
           s == rec[r].item[2]
           t == CASE s = "prepared"        -> "pointer_written"
                  [] s = "pointer_written" -> "verified"
                  [] s = "verified"        -> "reconciled"
       IN  \/ /\ TransitionIntent(i, s, t, rec[r].now)
              /\ rec' = [rec EXCEPT ![r] =
                    IF t = "reconciled" THEN [@ EXCEPT !.pc = "intents", !.item = None]
                    ELSE [@ EXCEPT !.item = <<i, t>>]]
           \/ ~MayMoveIntent(i, s, rec[r].now) /\ RecRaise(r)
    /\ UNCHANGED <<fileVars, clock, pub, dirty>>

UndoOperation(r) ==
    /\ RecAt(r, "undo")
    /\ Terminalise(r, intents[rec[r].item[1]].op, "rolled_back", None,
                   [rec[r] EXCEPT !.pc = "intents", !.item = None])
    /\ UNCHANGED <<fileVars, clock, pub, dirty>>

ListLeases(r) ==
    /\ RecAt(r, "intents") /\ rec[r].todo = {}
    /\ LET held  == {n \in LeaseNames : leases[n] # None}
           stale == {n \in held : Stale(leases[n], rec[r].now, Alive)}
       IN  rec' = [rec EXCEPT ![r].pc   = "leases",
                              ![r].todo = {<<n, HoldOf(leases[n])>> : n \in stale}]
    /\ UNCHANGED <<sidecarVars, fileVars, clock, pub, dirty>>

RemoveLease(r) ==
    /\ RecAt(r, "leases")
    /\ \E item \in rec[r].todo :
          LET rest == [rec[r] EXCEPT !.todo = @ \ {item}]
              next == IF item[2].op = rec[r].sel.head THEN rest
                      ELSE [rest EXCEPT !.pc = "fail", !.item = item]
          IN  \/ ReleaseLease(item[1], item[2]) /\ rec' = [rec EXCEPT ![r] = next]
              \/ ~MayRelease(item[1], item[2]) /\ RecRaise(r)
    /\ UNCHANGED <<fileVars, clock, pub, dirty>>

FailHolder(r) ==
    /\ RecAt(r, "fail")
    /\ Terminalise(r, rec[r].item[2].op, "failed", None,
                   [rec[r] EXCEPT !.pc = "leases", !.item = None])
    /\ UNCHANGED <<fileVars, clock, pub, dirty>>

ListJobs(r) ==
    /\ RecAt(r, "leases") /\ rec[r].todo = {}
    /\ rec' = [rec EXCEPT ![r].pc   = "jobs",
                          ![r].todo = {<<o, jobs[o].worker, jobs[o].heartbeat>> :
                                          o \in {p \in Ops : IsActive(p)}}]
    /\ UNCHANGED <<sidecarVars, fileVars, clock, pub, dirty>>

\* A job whose worker is dead, or silent for too long, and that no live lease
\* covers; a job without a worker is left as it is.
DeadJob(r, o, worker, heartbeat) ==
    /\ o # rec[r].sel.head
    /\ o \notin rec[r].live
    /\ worker # None
    /\ \/ worker \notin Alive
       \/ heartbeat > rec[r].now
       \/ rec[r].now - heartbeat >= StaleAfter

RecoverJob(r) ==
    /\ RecAt(r, "jobs")
    /\ \E item \in rec[r].todo :
          LET rest == [rec[r] EXCEPT !.todo = @ \ {item}]
          IN  IF DeadJob(r, item[1], item[2], item[3])
              THEN Terminalise(r, item[1], "failed", None, rest)
              ELSE rec' = [rec EXCEPT ![r] = rest] /\ UNCHANGED sidecarVars
    /\ UNCHANGED <<fileVars, clock, pub, dirty>>

EndRecovery(r) ==
    /\ RecAt(r, "jobs") /\ rec[r].todo = {}
    /\ rec' = [rec EXCEPT ![r] = Rest(r, "idle")]
    /\ dirty' = FALSE
    /\ UNCHANGED <<sidecarVars, fileVars, clock, pub>>

\* The host sees the exception, and may start over.
StartOver(r) ==
    /\ rec[r].pc \in {"raised", "unreadable"}
    /\ rec' = [rec EXCEPT ![r] = Rest(r, "idle")]
    /\ UNCHANGED <<sidecarVars, fileVars, clock, pub, dirty>>

CrashRecovery(r) ==
    /\ rec[r].pc \notin {"idle", "raised", "unreadable"}
    /\ rec[r].crashes < MaxCrashes
    /\ rec' = [rec EXCEPT ![r] = [IdleRecoverer EXCEPT !.crashes = rec[r].crashes + 1]]
    /\ dirty' = (Recovery = "first")
    /\ UNCHANGED <<sidecarVars, fileVars, clock, pub>>

Recover(r) ==
    \/ ReadPointer(r) \/ OpenSelected(r) \/ RepairPointer(r) \/ SnapshotStatus(r)
    \/ CompleteSelected(r) \/ RecordCompleted(r)
    \/ ListIntents(r) \/ RecoverIntent(r) \/ ReconcileIntent(r) \/ UndoOperation(r)
    \/ ListLeases(r) \/ RemoveLease(r) \/ FailHolder(r)
    \/ ListJobs(r) \/ RecoverJob(r) \/ EndRecovery(r) \/ StartOver(r)

-----------------------------------------------------------------------------
(* The environment and the specification.                                    *)

\* A live worker is done before its lease expires, and its job is kept alive,
\* unless the instance lets it be overrun.
InTime ==
    /\ \A n \in LeaseNames :
          leases[n] # None /\ leases[n].worker \in Alive => leases[n].expires > clock + 1
    /\ \A o \in Ops :
          IsActive(o) /\ jobs[o].worker \in Alive => clock + 1 - jobs[o].heartbeat < StaleAfter

Tick ==
    /\ clock < MaxClock
    /\ Overrun \/ InTime
    /\ clock' = clock + 1
    /\ UNCHANGED <<sidecarVars, fileVars, pub, rec, dirty>>

\* An artifact's file is damaged: nothing that validates it succeeds any more.
Damage(a) ==
    /\ Cardinality(damaged) < MaxDamage
    /\ head[a] # None /\ a \notin damaged
    /\ damaged' = damaged \cup {a}
    /\ UNCHANGED <<sidecarVars, ptr, head, parent, clock, pub, rec, dirty>>

\* The kernel starts without a pointer, or with one finalised artifact.
Init ==
    /\ StoreInit
    /\ \/ /\ ptr = None
          /\ head = [a \in Artifacts |-> None]
       \/ /\ ptr = [gen |-> 1, active |-> [name |-> Base, pub |-> Base, file |-> Base],
                    rollback |-> None]
          /\ head = [a \in Artifacts |-> IF a = Base THEN Base ELSE None]
    /\ parent = [p \in Pubs |-> None]
    /\ damaged = {}
    /\ clock = 0
    /\ pub = [o \in Ops |-> IdlePublisher]
    /\ rec = [r \in Recoverers |-> IdleRecoverer]
    /\ dirty = FALSE

Publisher(o) == Begin(o) \/ PublishSmall(o) \/ Promote(o) \/ Complete(o) \/ Unwind(o)

Next ==
    \/ \E o \in Ops : Plan(o) \/ Prepare(o) \/ Beat(o) \/ Publisher(o) \/ Crash(o) \/ Retry(o)
    \/ \E r \in Recoverers : Recover(r) \/ CrashRecovery(r)
    \/ Tick
    \/ \E a \in Artifacts : Damage(a)

Spec == Init /\ [][Next]_vars

=============================================================================

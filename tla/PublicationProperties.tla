------------------------ MODULE PublicationProperties ------------------------
(***************************************************************************)
(* What the publication protocol is meant to guarantee: its type           *)
(* invariant, its safety and liveness properties, and the register of      *)
(* publications it implements.                                             *)
(***************************************************************************)
EXTENDS PublicationProtocol

-----------------------------------------------------------------------------
(* What a client sees. *)

\* A publication with its ancestors, oldest first.
ancestry[p \in Pubs] ==
    IF parent[p] = None THEN <<p>> ELSE Append(ancestry[parent[p]], p)

\* The publications in what a reader that opens the pointer now is served.
VisibleChain ==
    IF ptr # None /\ Readable(ptr) THEN ancestry[Selection(ptr).head] ELSE <<>>

IsPublished(o) == \E k \in DOMAIN VisibleChain : VisibleChain[k] = o

JobIn(o, states) == jobs[o] # None /\ jobs[o].state \in states

Outcome(o) ==
    CASE JobIn(o, {"completed"})             -> "published"
      [] JobIn(o, {"failed", "rolled_back"}) -> "abandoned"
      [] OTHER                                  -> "unknown"

-----------------------------------------------------------------------------
(* Safety. *)

PublisherSteps ==
    {"idle", "stopped", "planned", "ready", "writer", "locked", "checked", "committed",
     "intended", "sealed", "fenced", "written", "marked", "verified", "recorded",
     "reconciled", "unwind"}

RecoverySteps ==
    {"idle", "read", "selected", "repaired", "status", "completed", "list_intents",
     "intents", "reconcile", "undo", "leases", "fail", "jobs", "raised", "unreadable"}

TypeOK ==
    /\ StoreTypeOK
    /\ ptr \in PointerDocument \cup {None}
    /\ head \in [Artifacts -> Pubs \cup {None}]
    /\ parent \in [Pubs -> Pubs \cup {None}]
    /\ damaged \subseteq Artifacts
    /\ clock \in 0 .. MaxClock
    /\ dirty \in BOOLEAN
    /\ \A o \in Ops : /\ pub[o].pc \in PublisherSteps
                      /\ pub[o].attempt \in 1 .. MaxAttempts
                      /\ pub[o].now \in 0 .. clock
                      /\ pub[o].expect \in Expectation
                      /\ pub[o].cur \in PointerDocument \cup {None}
                      /\ pub[o].back \in PointerArtifact \cup {None}
                      /\ {pub[o].writer, pub[o].promotion} \subseteq Hold \cup {None}
    /\ \A r \in Recoverers : /\ rec[r].pc \in RecoverySteps
                             /\ rec[r].now \in 0 .. clock
                             /\ rec[r].ptr \in PointerDocument \cup {None}
                             /\ rec[r].live \subseteq Ops
                             /\ rec[r].crashes \in 0 .. MaxCrashes

\* Crash at any step of a publisher or of recovery itself, recover, publish
\* again: the pointer always names an active artifact that validates, so that
\* readers never fall back and recovery always finds its selection.
ActiveServed == ptr # None => ActiveReadable(ptr)

\* With one artifact file damaged, readers fall back on the rollback: whatever
\* was published in place since, the pair a pointer names never depends on a
\* single file once it has a rollback.
FallbackServed == ptr # None /\ ptr.rollback # None => Readable(ptr)

\* An artifact that became the rollback is not written while a pointer refers
\* to it: its digest still matches, however publishers and recovery interleave.
RollbackSealed ==
    ptr # None /\ ptr.rollback # None => head[ptr.rollback.name] = ptr.rollback.file

\* The pair recorded in the sidecar for the pointer's generation is the pointer,
\* whichever of publisher and recovery recorded it, and from whatever it read.
RecordedPairIsPointer ==
    ptr # None => \A row \in pointerRows :
                     row.gen = ptr.gen => row = RowOf(ptr, row.owner)

\* Startup recovery never trips over what an earlier process, or an earlier
\* recovery that crashed, left: no conflicting pointer pair, no lease released
\* twice, no job or intent newer than it, no pointer without a readable artifact.
RecoveryNeverRefused == \A r \in Recoverers : rec[r].pc \notin {"raised", "unreadable"}

\* A publication reported completed is in what readers see.
CompletedIsPublished == \A o \in Ops : JobIn(o, {"completed"}) => IsPublished(o)

\* An operation reported rolled back has left no publication in what readers see.
RolledBackIsUnpublished == \A o \in Ops : JobIn(o, {"rolled_back"}) => ~IsPublished(o)

\* Every change of the pointer, a publisher's or a repair, advances it by one
\* generation from the one it replaces: no step overwrites a pointer unseen.
EachGenerationOnce ==
    [][ptr' # ptr => ptr'.gen = (IF ptr = None THEN 0 ELSE ptr.gen) + 1]_vars

\* Recovery leaves the job of a live worker with a recent heartbeat alone.
LiveJobsAreLeft ==
    [][\A r \in Recoverers, o \in Ops :
          /\ RecAt(r, "jobs")
          /\ rec'[r].todo # rec[r].todo
          /\ IsActive(o) /\ jobs[o].worker \in Alive
          /\ clock - jobs[o].heartbeat < StaleAfter
          => jobs'[o] = jobs[o]]_vars

\* Readers and clients see a register of publications: the visible chain grows
\* only at its end, by one child at a time, an operation is reported published
\* only when it is in the chain, and abandoned only if it never will be.
Register == INSTANCE PublicationRegister
    WITH Operations <- Ops, First <- Base,
         chain <- VisibleChain, outcome <- [o \in Ops |-> Outcome(o)]

ImplementsRegister == Register!Spec

-----------------------------------------------------------------------------
(* Liveness: a running process takes its next step, a host that recovers     *)
(* first stops the workers that wait and then recovers.                      *)

Fairness ==
    /\ \A o \in Ops : /\ WF_vars(Publisher(o))
                      /\ WF_vars(dirty /\ At(o, "ready") /\ Crash(o))
    /\ \A r \in Recoverers : WF_vars(Recover(r))

FairSpec == Spec /\ Fairness

\* A publication that became visible is reported completed, whoever crashed.
PublicationIsReported ==
    \A o \in Ops : IsPublished(o) ~> JobIn(o, {"completed"})

\* Once there is a pointer no intent stays pending.
IntentSettles == \A i \in Isolated : (ptr # None /\ IsPending(i)) ~> ~IsPending(i)

\* A job that lost its lease in mid-work does not stay in recovery_required.
RecoveryRequiredEnds ==
    \A o \in Ops : JobIn(o, {"recovery_required"}) ~> ~JobIn(o, {"recovery_required"})

=============================================================================

--------------------------- MODULE OperationalStore ---------------------------
(***************************************************************************)
(* The operational sidecar of the agent kernel: the rows one               *)
(* OperationalStore keeps and its mutations, each of them a single         *)
(* BEGIN IMMEDIATE transaction and so a single atomic step.                *)
(*                                                                         *)
(* The module gives the operators only.  Sidecar drives them with          *)
(* arbitrary clients; PublicationProtocol drives them with the publishers  *)
(* and the startup recovery of the publication package.  An operator whose *)
(* precondition is false is a call that raises: its transaction is rolled  *)
(* back and no row changes.  Every call is given the caller's clock        *)
(* reading "now", as the code's now_us is, which may be an old one.        *)
(***************************************************************************)
EXTENDS Naturals

CONSTANTS
    Ops,          \* operation identifiers
    Workers,      \* worker identities: a PID with its start token (and nonce)
    Recoveries,   \* recovery-intent identifiers
    Pubs,         \* publication identifiers
    Artifacts,    \* artifact basenames
    LeaseNames,   \* the named leases
    KeyOf,        \* the compatibility key of each operation
    TTL,          \* lease time to live, in clock ticks
    None          \* SQL NULL, an absent row

ASSUME TTLAssumption  == TTL \in Nat \ {0}
ASSUME NoneAssumption == None \notin Ops \cup Workers \cup Pubs \cup Artifacts \cup Nat

VARIABLES
    jobs,         \* operation_jobs, by operation
    leases,       \* writer_leases, by lease name
    fence,        \* operational_metadata: last fencing token of each lease
    intents,      \* recovery_intents, by recovery identifier
    pointerRows   \* artifact_pointers: the recorded pointer pairs

storeVars == <<jobs, leases, fence, intents, pointerRows>>

-----------------------------------------------------------------------------
(* Operation jobs. *)

TerminalStates == {"completed", "failed", "rolled_back"}

ActiveStates == {"planned", "parsing", "ready_to_write", "writing", "building",
                 "catching_up", "validating", "promoting", "reconciling",
                 "recovery_required"}

JobStates == ActiveStates \cup TerminalStates

\* The state machine that OperationalStore.transition enforces.
Transitions ==
    [s \in JobStates |->
        CASE s = "planned"        -> {"parsing", "building", "completed", "failed"}
          [] s = "parsing"        -> {"ready_to_write", "building", "failed"}
          [] s = "ready_to_write" -> {"writing", "building", "failed"}
          [] s = "writing"        -> {"reconciling", "recovery_required", "failed"}
          [] s = "building"       -> {"catching_up", "validating", "failed"}
          [] s = "catching_up"    -> {"validating", "failed"}
          [] s = "validating"     -> {"promoting", "failed"}
          [] s = "promoting"      -> {"reconciling", "recovery_required", "rolled_back"}
          [] s = "reconciling"    -> {"completed", "recovery_required", "failed"}
          [] s = "recovery_required" ->
                {"parsing", "building", "promoting", "reconciling"} \cup TerminalStates
          [] OTHER -> {}]

Job == [state     : JobStates,
        worker    : Workers \cup {None},
        heartbeat : Nat \cup {None},
        created   : Nat,
        updated   : Nat,
        candidate : Artifacts \cup {None},
        terminal  : Pubs \cup {None}]

IsActive(o)   == jobs[o] # None /\ jobs[o].state \in ActiveStates
IsTerminal(o) == jobs[o] # None /\ jobs[o].state \in TerminalStates

\* Mutant: the key of the active jobs is not compared.
MutStartJob(o, now) ==
    /\ jobs[o] = None
    /\ jobs' = [jobs EXCEPT ![o] = [state     |-> "planned",
                                    worker    |-> None,
                                    heartbeat |-> None,
                                    created   |-> now,
                                    updated   |-> now,
                                    candidate |-> None,
                                    terminal  |-> None]]
    /\ UNCHANGED <<leases, fence, intents, pointerRows>>

\* start_or_join when it inserts a row: a joined request and a conflicting one
\* leave the sidecar as it is.
StartJob(o, now) ==
    /\ jobs[o] = None
    /\ \A p \in Ops : IsActive(p) => KeyOf[p] # KeyOf[o]
    /\ jobs' = [jobs EXCEPT ![o] = [state     |-> "planned",
                                    worker    |-> None,
                                    heartbeat |-> None,
                                    created   |-> now,
                                    updated   |-> now,
                                    candidate |-> None,
                                    terminal  |-> None]]
    /\ UNCHANGED <<leases, fence, intents, pointerRows>>

\* transition: the table, the clock and the terminal publication are checked;
\* worker and heartbeat are overwritten (with NULL when no worker is given), a
\* candidate is kept when none is given.
Transition(o, expected, s, worker, candidate, pub, now) ==
    /\ jobs[o] # None
    /\ jobs[o].state \in expected
    /\ s \in Transitions[jobs[o].state]
    /\ now >= jobs[o].updated
    /\ s = "completed" => pub # None
    /\ jobs' = [jobs EXCEPT ![o] =
                  [state     |-> s,
                   worker    |-> worker,
                   heartbeat |-> IF worker = None THEN None ELSE now,
                   created   |-> @.created,
                   updated   |-> now,
                   candidate |-> IF candidate = None THEN @.candidate ELSE candidate,
                   terminal  |-> pub]]
    /\ UNCHANGED <<leases, fence, intents, pointerRows>>

\* force_terminal raises on an unknown job and, unless the job is terminal
\* already, on a clock reading older than the row.
MayForceTerminal(o, now) ==
    jobs[o] # None /\ (IsTerminal(o) \/ now >= jobs[o].updated)

ForceTerminal(o, s, pub, now) ==
    /\ MayForceTerminal(o, now)
    /\ s \in TerminalStates
    /\ s = "completed" => pub # None
    /\ jobs' = IF IsTerminal(o) THEN jobs
               ELSE [jobs EXCEPT ![o] = [@ EXCEPT !.state     = s,
                                                  !.worker    = None,
                                                  !.heartbeat = None,
                                                  !.updated   = now,
                                                  !.terminal  = pub]]
    /\ UNCHANGED <<leases, fence, intents, pointerRows>>

HeartbeatJob(o, worker, now) ==
    /\ IsActive(o)
    /\ jobs[o].worker = worker
    /\ jobs[o].heartbeat # None => now >= jobs[o].heartbeat
    /\ jobs' = [jobs EXCEPT ![o].heartbeat = now]
    /\ UNCHANGED <<leases, fence, intents, pointerRows>>

-----------------------------------------------------------------------------
(* Leases. *)

Lease == [op : Ops, worker : Workers, token : Nat, acquired : Nat, expires : Nat]

\* Mutant: the fencing token is not compared.
MutSameHold(l, m) == l.op = m.op /\ l.worker = m.worker

\* The columns release and validation compare: renewal moves the expiry only.
SameHold(l, m) == l.op = m.op /\ l.worker = m.worker /\ l.token = m.token

\* Mutant: age is counted from the last renewal.
MutStale(l, now, alive) == l.expires <= now + TTL \/ l.worker \notin alive

Stale(l, now, alive) == l.expires <= now \/ l.worker \notin alive

\* acquire_lease extends the lease of its owner.  No row may be renewed with a
\* clock reading older than its acquisition: the table's CHECK rolls that back.
MayRenew(n, o, worker, now, alive) ==
    /\ leases[n] # None
    /\ ~Stale(leases[n], now, alive)
    /\ leases[n].op = o /\ leases[n].worker = worker
    /\ leases[n].acquired <= now

\* It hands out a free lease, or a stale one once the job of the holder can be
\* stamped: no job may be updated before it was created.
MayTake(n, now, alive) ==
    leases[n] # None =>
        /\ Stale(leases[n], now, alive)
        /\ IsActive(leases[n].op) => jobs[leases[n].op].created <= now

MayAcquire(n, o, worker, now, alive) ==
    MayRenew(n, o, worker, now, alive) \/ MayTake(n, now, alive)

\* Mutant: the lease period is subtracted.
MutExpiry(now) == now - TTL

Expiry(now) == now + TTL

\* The owner of a lease that is not stale only renews it.
RenewLease(n, o, worker, now, alive) ==
    /\ MayRenew(n, o, worker, now, alive)
    /\ leases' = [leases EXCEPT ![n].expires = Expiry(now)]
    /\ UNCHANGED <<jobs, fence, intents, pointerRows>>

\* Mutants: the previous holder's job is demoted even when it is terminal, and
\* it is not demoted at all.
MutDemoted(n, now) ==
    IF leases[n] = None THEN jobs
    ELSE [jobs EXCEPT ![leases[n].op].state = "recovery_required"]

MutNotDemoted(n, now) == jobs

\* The job of the holder that loses lease n needs recovery, unless it ended.
Demoted(n, now) ==
    IF leases[n] = None THEN jobs
    ELSE IF IsTerminal(leases[n].op) THEN jobs
    ELSE [jobs EXCEPT ![leases[n].op] = [@ EXCEPT !.state     = "recovery_required",
                                                  !.worker    = None,
                                                  !.heartbeat = None,
                                                  !.updated   = now]]

\* A free or stale lease is taken over under the next fencing token.
TakeLease(n, o, worker, now, alive) ==
    /\ jobs[o] # None
    /\ MayTake(n, now, alive)
    /\ jobs' = Demoted(n, now)
    /\ fence' = [fence EXCEPT ![n] = @ + 1]
    /\ leases' = [leases EXCEPT ![n] = [op       |-> o,
                                        worker   |-> worker,
                                        token    |-> fence[n] + 1,
                                        acquired |-> now,
                                        expires  |-> Expiry(now)]]
    /\ UNCHANGED <<intents, pointerRows>>

AcquireLease(n, o, worker, now, alive) ==
    \/ RenewLease(n, o, worker, now, alive)
    \/ TakeLease(n, o, worker, now, alive)

MayRelease(n, l) == leases[n] # None /\ SameHold(leases[n], l)

ReleaseLease(n, l) ==
    /\ MayRelease(n, l)
    /\ leases' = [leases EXCEPT ![n] = None]
    /\ UNCHANGED <<jobs, fence, intents, pointerRows>>

\* validate_lease, with the clock reading of the caller's choice.
ValidLease(n, l, now) ==
    leases[n] # None /\ SameHold(leases[n], l) /\ leases[n].expires > now

-----------------------------------------------------------------------------
(* Recovery intents. *)

PendingIntentStates == {"prepared", "pointer_written", "verified"}
IntentStates == PendingIntentStates \cup {"reconciled", "rolled_back", "failed"}

IntentTransitions ==
    [s \in IntentStates |->
        CASE s = "prepared"        -> {"pointer_written", "rolled_back", "failed"}
          [] s = "pointer_written" -> {"verified", "rolled_back", "failed"}
          [] s = "verified"        -> {"reconciled", "failed"}
          [] OTHER -> {}]

\* The target generation is always expectedGen + 1.
Intent == [op          : Ops,
           expectedGen : Nat,
           expectedPub : Pubs \cup {None},
           pub         : Pubs,
           name        : Artifacts,
           state       : IntentStates,
           updated     : Nat]

IsPending(i) == intents[i] # None /\ intents[i].state \in PendingIntentStates

CreateIntent(i, intent) ==
    /\ intents[i] = None
    /\ intent.state = "prepared"
    /\ intents' = [intents EXCEPT ![i] = intent]
    /\ UNCHANGED <<jobs, leases, fence, pointerRows>>

MayMoveIntent(i, expected, now) ==
    intents[i] # None /\ intents[i].state = expected /\ now >= intents[i].updated

TransitionIntent(i, expected, s, now) ==
    /\ MayMoveIntent(i, expected, now)
    /\ s \in IntentTransitions[expected]
    /\ intents' = [intents EXCEPT ![i].state = s, ![i].updated = now]
    /\ UNCHANGED <<jobs, leases, fence, pointerRows>>

-----------------------------------------------------------------------------
(* Recorded pointer pairs. *)

\* An artifact as a pointer names it.  "file" identifies the file's content at
\* the publication it was hashed at; None once it is published in place.
PointerArtifact == [name : Artifacts, pub : Pubs, file : Pubs \cup {None}]

PointerRow == [gen      : Nat,
               active   : PointerArtifact,
               rollback : PointerArtifact \cup {None},
               owner    : Ops]

\* record_pointer_pair accepts the pair it already holds and refuses another.
MayRecord(row) ==
    \A other \in pointerRows : other.gen = row.gen => other = row

RecordPointerPair(row) ==
    /\ MayRecord(row)
    /\ pointerRows' = pointerRows \cup {row}
    /\ UNCHANGED <<jobs, leases, fence, intents>>

-----------------------------------------------------------------------------

StoreInit ==
    /\ jobs        = [o \in Ops |-> None]
    /\ leases      = [n \in LeaseNames |-> None]
    /\ fence       = [n \in LeaseNames |-> 0]
    /\ intents     = [i \in Recoveries |-> None]
    /\ pointerRows = {}

\* An absent row is no row.
ASSUME RowAssumption == None \notin Job /\ None \notin Lease /\ None \notin Intent

StoreTypeOK ==
    /\ jobs \in [Ops -> Job \cup {None}]
    /\ leases \in [LeaseNames -> Lease \cup {None}]
    /\ fence \in [LeaseNames -> Nat]
    /\ intents \in [Recoveries -> Intent \cup {None}]
    /\ pointerRows \subseteq PointerRow

=============================================================================

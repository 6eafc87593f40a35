------------------------------- MODULE Sidecar -------------------------------
(***************************************************************************)
(* The job and lease half of the operational sidecar under arbitrary       *)
(* clients: any live worker may make any OperationalStore call, with any   *)
(* clock reading it took so far, in any order, and may die between two     *)
(* calls.  A client keeps the LeaseSnapshot that acquire_lease returned    *)
(* and may use it long after the lease was taken over.                     *)
(***************************************************************************)
EXTENDS OperationalStore

CONSTANTS
    Targets,      \* the job states clients transition jobs to
    MaxClock,     \* bound on the clock
    MaxToken      \* bound on the fencing tokens handed out

ASSUME BoundsAssumption ==
    Targets \subseteq JobStates /\ MaxClock \in Nat /\ MaxToken \in Nat

VARIABLES
    clock,    \* wall clock, in ticks
    alive,    \* workers whose process runs (the worker_is_alive probe)
    holds     \* by lease name: the snapshots handed to clients, not yet given up

vars == <<storeVars, clock, alive, holds>>

Hold == [op : Ops, worker : Workers, token : Nat]

HoldOf(l) == [op |-> l.op, worker |-> l.worker, token |-> l.token]

\* Readings of the clock a client may still be using.
Readings == 0 .. clock

-----------------------------------------------------------------------------

Init ==
    /\ StoreInit
    /\ clock = 0
    /\ alive = Workers
    /\ holds = [n \in LeaseNames |-> {}]

Start(o, now) ==
    /\ StartJob(o, now)
    /\ UNCHANGED <<clock, alive, holds>>

Advance(o, s, worker, pub, now) ==
    /\ worker \in alive \cup {None}
    /\ Transition(o, {jobs[o].state}, s, worker, None, pub, now)
    /\ UNCHANGED <<clock, alive, holds>>

Finish(o, s, pub, now) ==
    /\ ForceTerminal(o, s, pub, now)
    /\ UNCHANGED <<clock, alive, holds>>

Beat(o, worker, now) ==
    /\ worker \in alive
    /\ HeartbeatJob(o, worker, now)
    /\ UNCHANGED <<clock, alive, holds>>

Acquire(n, o, worker, now) ==
    /\ worker \in alive
    /\ fence[n] < MaxToken
    /\ AcquireLease(n, o, worker, now, alive)
    /\ holds' = [holds EXCEPT ![n] = @ \cup {HoldOf(leases'[n])}]
    /\ UNCHANGED <<clock, alive>>

\* The finally blocks release what they hold and suppress LeaseFenceError.
Release(n, h) ==
    /\ h \in holds[n] /\ h.worker \in alive
    /\ \/ ReleaseLease(n, h)
       \/ ~MayRelease(n, h) /\ UNCHANGED storeVars
    /\ holds' = [holds EXCEPT ![n] = @ \ {h}]
    /\ UNCHANGED <<clock, alive>>

\* stale_leases found the row stale; remove_stale_lease deletes it.
RemoveStale(n, now) ==
    /\ leases[n] # None
    /\ Stale(leases[n], now, alive)
    /\ ReleaseLease(n, leases[n])
    /\ UNCHANGED <<clock, alive, holds>>

Tick ==
    /\ clock < MaxClock
    /\ clock' = clock + 1
    /\ UNCHANGED <<storeVars, alive, holds>>

Crash(worker) ==
    /\ worker \in alive
    /\ alive' = alive \ {worker}
    /\ UNCHANGED <<storeVars, clock, holds>>

Next ==
    \/ \E o \in Ops, now \in Readings :
          \/ Start(o, now)
          \/ \E s \in Targets, w \in Workers \cup {None}, p \in Pubs \cup {None} :
                jobs[o] # None /\ Advance(o, s, w, p, now)
          \/ \E s \in TerminalStates, p \in Pubs \cup {None} : Finish(o, s, p, now)
          \/ \E w \in Workers : Beat(o, w, now)
          \/ \E n \in LeaseNames, w \in Workers : Acquire(n, o, w, now)
    \/ \E n \in LeaseNames :
          \/ \E h \in holds[n] : Release(n, h)
          \/ \E now \in Readings : RemoveStale(n, now)
    \/ Tick
    \/ \E w \in Workers : Crash(w)

Spec == Init /\ [][Next]_vars

-----------------------------------------------------------------------------
(* Properties. *)

TypeOK ==
    /\ StoreTypeOK
    /\ clock \in Nat
    /\ alive \subseteq Workers
    /\ holds \in [LeaseNames -> SUBSET Hold]

\* At most one operation of a compatibility key is active, whatever mixture of
\* takeovers and terminalisations its jobs went through: what start_or_join
\* promises the requests that join.
OneActivePerKey ==
    \A o, p \in Ops : IsActive(o) /\ IsActive(p) /\ KeyOf[o] = KeyOf[p] => o = p

\* A terminal job is immutable: no late transition, heartbeat, forced result or
\* takeover of a lease it left behind changes its row.
TerminalImmutable ==
    [][\A o \in Ops : IsTerminal(o) => jobs'[o] = jobs[o]]_vars

\* Fencing: once a snapshot has lost its lease (taken over, removed as stale or
\* released) no later step makes it valid again, however the lease is handed
\* around afterwards.
NoRevival ==
    [][\A n \in LeaseNames : \A h \in holds[n] :
          ~MayRelease(n, h) => ~MayRelease(n, h)']_vars

\* A lease is handed from one holder to the next only when it had expired or
\* its worker was dead, and never leaves the previous holder's job running.
TakeoverOnlyWhenStale ==
    [][\A n \in LeaseNames :
          leases[n] # None /\ leases'[n] # None /\ ~SameHold(leases[n], leases'[n])
          => /\ Stale(leases[n], clock, alive)
             /\ jobs'[leases[n].op].state \in TerminalStates \cup {"recovery_required"}]_vars

=============================================================================

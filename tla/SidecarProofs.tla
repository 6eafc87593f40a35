---------------------------- MODULE SidecarProofs ----------------------------
(***************************************************************************)
(* Proofs about the operational sidecar: what its single-transaction       *)
(* operations keep true for any number of clients, operations, workers and *)
(* leases, and for any clock.                                              *)
(***************************************************************************)
EXTENDS Sidecar, TLAPS

-----------------------------------------------------------------------------
(* Types.  A lease row refers to a job (its foreign key), which is what lets *)
(* acquire_lease demote the job of the holder it takes the lease from.       *)

LeasedJobsExist ==
    \A n \in LeaseNames : leases[n] # None => jobs[leases[n].op] # None

Typed == TypeOK /\ LeasedJobsExist

\* A job that is there and not terminal is an active one, and not both.
LEMMA JobKinds ==
    ASSUME TypeOK, NEW o \in Ops, jobs[o] # None
    PROVE  /\ jobs[o] \in Job
           /\ IsActive(o) \/ IsTerminal(o)
           /\ ~(IsActive(o) /\ IsTerminal(o))
BY DEF TypeOK, StoreTypeOK, Job, JobStates, ActiveStates, TerminalStates,
       IsActive, IsTerminal

\* A row that is there is a row, and a lease row is not absent.
LEMMA LeaseRow ==
    ASSUME TypeOK, NEW n \in LeaseNames, leases[n] # None
    PROVE  /\ leases[n] \in Lease
           /\ leases[n].op \in Ops /\ leases[n].worker \in Workers
           /\ leases[n].token \in Nat /\ leases[n].expires \in Nat
           /\ leases[n].acquired \in Nat
BY DEF TypeOK, StoreTypeOK, Lease

\* What taking a lease does to the jobs: at most the previous holder's changes,
\* and it goes to recovery_required from an active state.
LEMMA TakeLeaseJobs ==
    ASSUME Typed, NEW n \in LeaseNames, NEW o \in Ops, NEW w \in Workers, NEW now \in Nat,
           TakeLease(n, o, w, now, alive)
    PROVE  /\ jobs' \in [Ops -> Job \cup {None}]
           /\ \A q \in Ops : \/ jobs'[q] = jobs[q]
                             \/ /\ leases[n] # None /\ q = leases[n].op
                                /\ IsActive(q)
                                /\ jobs'[q] \in Job
                                /\ jobs'[q].state = "recovery_required"
<1>1. CASE leases[n] = None
  BY <1>1, NoneAssumption DEF TakeLease, Demoted, Typed, TypeOK, StoreTypeOK
<1>2. CASE leases[n] # None
  <2> DEFINE prior == leases[n].op
  <2>1. prior \in Ops /\ prior # None /\ jobs[prior] # None
    BY <1>2, LeaseRow, NoneAssumption DEF Typed, LeasedJobsExist
  <2>2. CASE IsTerminal(prior)
    BY <1>2, <2>1, <2>2 DEF TakeLease, Demoted, Typed, TypeOK, StoreTypeOK
  <2>3. CASE ~IsTerminal(prior)
    <3>1. jobs[prior] \in Job /\ IsActive(prior)
      BY <2>1, <2>3, JobKinds DEF Typed
    <3> DEFINE row == [jobs[prior] EXCEPT !.state     = "recovery_required",
                                          !.worker    = None,
                                          !.heartbeat = None,
                                          !.updated   = now]
    <3>2. row \in Job /\ row.state = "recovery_required"
      BY <3>1 DEF Job, JobStates, ActiveStates
    <3>3. jobs' = [jobs EXCEPT ![prior] = row]
      BY <1>2, <2>1, <2>3 DEF TakeLease, Demoted
    <3> HIDE DEF row
    <3> QED
      BY <1>2, <2>1, <3>1, <3>2, <3>3 DEF Typed, TypeOK, StoreTypeOK
  <2> QED
    BY <2>2, <2>3
<1> QED
  BY <1>1, <1>2

\* What acquiring a lease does to the lease rows.
LEMMA AcquireRows ==
    ASSUME Typed, NEW n \in LeaseNames, NEW o \in Ops, NEW w \in Workers, NEW now \in Nat,
           AcquireLease(n, o, w, now, alive)
    PROVE  /\ fence' \in [LeaseNames -> Nat]
           /\ leases' \in [LeaseNames -> Lease \cup {None}]
           /\ leases'[n] \in Lease
           /\ HoldOf(leases'[n]) \in Hold
           /\ \A m \in LeaseNames \ {n} : leases'[m] = leases[m] /\ fence'[m] = fence[m]
           /\ \/ /\ leases[n] # None /\ SameHold(leases[n], leases'[n])
                 /\ leases[n].op = o
                 /\ fence' = fence /\ jobs' = jobs
              \/ /\ leases'[n].op = o /\ leases'[n].token = fence[n] + 1
                 /\ fence'[n] = fence[n] + 1
<1> USE TTLAssumption DEF Lease, Hold, HoldOf, Expiry
<1>1. CASE RenewLease(n, o, w, now, alive)
  BY <1>1, LeaseRow DEF RenewLease, MayRenew, Typed, TypeOK, StoreTypeOK, SameHold
<1>2. CASE TakeLease(n, o, w, now, alive)
  BY <1>2 DEF TakeLease, Demoted, Typed, TypeOK, StoreTypeOK
<1> QED
  BY <1>1, <1>2 DEF AcquireLease

-----------------------------------------------------------------------------
(* The inductive invariant: types, the foreign key of a lease, and the job   *)
(* key; the fencing tokens handed out are at most the last one recorded.     *)

TokensBounded ==
    \A n \in LeaseNames :
        /\ leases[n] # None => leases[n].token <= fence[n]
        /\ \A h \in holds[n] : h.token <= fence[n]

LEMMA TypedInit == Init => Typed
BY DEF Init, StoreInit, Typed, TypeOK, StoreTypeOK, LeasedJobsExist

LEMMA TypedStep == Typed /\ [Next]_vars => Typed'
<1> SUFFICES ASSUME Typed, [Next]_vars PROVE Typed'
  OBVIOUS
<1> USE DEF Typed, TypeOK, StoreTypeOK, Readings, LeasedJobsExist
<1>1. ASSUME NEW o \in Ops, NEW now \in Readings, Start(o, now) PROVE Typed'
  <2> DEFINE row == [state |-> "planned", worker |-> None, heartbeat |-> None,
                     created |-> now, updated |-> now, candidate |-> None, terminal |-> None]
  <2>1. row \in Job /\ row # None
    BY RowAssumption DEF Job, JobStates, ActiveStates
  <2>2. jobs' = [jobs EXCEPT ![o] = row]
    BY <1>1 DEF Start, StartJob
  <2> HIDE DEF row
  <2> QED
    BY <1>1, <2>1, <2>2, LeaseRow DEF Start, StartJob
<1>2. ASSUME NEW o \in Ops, NEW now \in Readings, NEW s \in Targets,
             NEW w \in Workers \cup {None}, NEW p \in Pubs \cup {None},
             Advance(o, s, w, p, now)
      PROVE  Typed'
  <2> DEFINE row == [state     |-> s,
                     worker    |-> w,
                     heartbeat |-> IF w = None THEN None ELSE now,
                     created   |-> jobs[o].created,
                     updated   |-> now,
                     candidate |-> jobs[o].candidate,
                     terminal  |-> p]
  <2>1. row \in Job /\ row # None
    BY <1>2, BoundsAssumption, RowAssumption DEF Advance, Transition, Job
  <2>2. jobs' = [jobs EXCEPT ![o] = row]
    BY <1>2 DEF Advance, Transition
  <2> HIDE DEF row
  <2> QED
    BY <1>2, <2>1, <2>2, LeaseRow DEF Advance, Transition
<1>3. ASSUME NEW o \in Ops, NEW now \in Readings, NEW s \in TerminalStates,
             NEW p \in Pubs \cup {None}, Finish(o, s, p, now)
      PROVE  Typed'
  <2> DEFINE row == [jobs[o] EXCEPT !.state     = s,
                                    !.worker    = None,
                                    !.heartbeat = None,
                                    !.updated   = now,
                                    !.terminal  = p]
  <2>0. jobs[o] \in Job
    BY <1>3 DEF Finish, ForceTerminal, MayForceTerminal
  <2>1. row \in Job
    <3>1. now \in Nat /\ s \in JobStates
      BY DEF JobStates
    <3> QED
      BY <2>0, <3>1 DEF Job
  <2>2. jobs' = jobs \/ jobs' = [jobs EXCEPT ![o] = row]
    BY <1>3 DEF Finish, ForceTerminal
  <2> HIDE DEF row
  <2> QED
    BY <1>3, <2>1, <2>2, LeaseRow, RowAssumption DEF Finish, ForceTerminal
<1>4. ASSUME NEW o \in Ops, NEW now \in Readings, NEW w \in Workers, Beat(o, w, now)
      PROVE  Typed'
  <2> DEFINE row == [jobs[o] EXCEPT !.heartbeat = now]
  <2>1. row \in Job /\ row # None
    BY <1>4, JobKinds, RowAssumption DEF Beat, HeartbeatJob, IsActive, Job
  <2>2. jobs' = [jobs EXCEPT ![o] = row]
    BY <1>4 DEF Beat, HeartbeatJob
  <2> HIDE DEF row
  <2> QED
    BY <1>4, <2>1, <2>2, LeaseRow DEF Beat, HeartbeatJob
<1>5. ASSUME NEW o \in Ops, NEW now \in Readings, NEW n \in LeaseNames, NEW w \in Workers,
             Acquire(n, o, w, now)
      PROVE  Typed'
  <2>1. AcquireLease(n, o, w, now, alive) /\ now \in Nat
    BY <1>5 DEF Acquire
  <2>2. /\ jobs' \in [Ops -> Job \cup {None}]
        /\ \A q \in Ops : jobs[q] # None => jobs'[q] # None
        /\ leases'[n].op = o => jobs'[o] # None
    <3>1. CASE RenewLease(n, o, w, now, alive)
      BY <3>1 DEF RenewLease, MayRenew
    <3>2. CASE TakeLease(n, o, w, now, alive)
      <4>1. jobs[o] # None
        BY <3>2 DEF TakeLease, Demoted
      <4> QED
        BY <2>1, <3>2, <4>1, TakeLeaseJobs, RowAssumption
    <3> QED
      BY <2>1, <3>1, <3>2 DEF AcquireLease
  <2>3. UNCHANGED <<intents, pointerRows>>
    BY <2>1 DEF AcquireLease, RenewLease, TakeLease
  <2>4. TypeOK'
    <3>1. /\ fence' \in [LeaseNames -> Nat]
          /\ leases' \in [LeaseNames -> Lease \cup {None}]
          /\ HoldOf(leases'[n]) \in Hold
      BY <2>1, AcquireRows
    <3>2. holds' \in [LeaseNames -> SUBSET Hold]
      BY <1>5, <3>1 DEF Acquire
    <3> QED
      BY <1>5, <2>2, <2>3, <3>1, <3>2 DEF Acquire
  <2>5. LeasedJobsExist'
    <3>1. leases'[n] # None => jobs'[leases'[n].op] # None
      <4>1. CASE leases'[n].op = o
        BY <2>2, <4>1
      <4>2. CASE leases'[n].op # o
        BY <2>1, <2>2, <4>2, AcquireRows, LeaseRow DEF SameHold
      <4> QED
        BY <4>1, <4>2
    <3>2. ASSUME NEW m \in LeaseNames \ {n}, leases'[m] # None
          PROVE  jobs'[leases'[m].op] # None
      <4>1. leases'[m] = leases[m]
        BY <2>1, AcquireRows
      <4> QED
        BY <2>2, <3>2, <4>1, LeaseRow
    <3> QED
      BY <3>1, <3>2
  <2> QED
    BY <2>4, <2>5
<1>6. ASSUME NEW n \in LeaseNames, NEW h \in holds[n], Release(n, h) PROVE Typed'
  BY <1>6 DEF Release, ReleaseLease, storeVars
<1>7. ASSUME NEW n \in LeaseNames, NEW now \in Readings, RemoveStale(n, now) PROVE Typed'
  BY <1>7 DEF RemoveStale, ReleaseLease
<1>8. CASE Tick
  BY <1>8 DEF Tick, storeVars
<1>9. ASSUME NEW w \in Workers, Crash(w) PROVE Typed'
  BY <1>9 DEF Crash, storeVars
<1>10. CASE UNCHANGED vars
  BY <1>10 DEF vars, storeVars
<1> QED
  BY <1>1, <1>2, <1>3, <1>4, <1>5, <1>6, <1>7, <1>8, <1>9, <1>10 DEF Next

\* Rows, leases, tokens and snapshots keep their types, and a lease always
\* refers to a job, for any instance of the sidecar.
THEOREM TypeCorrect == Spec => []TypeOK
<1>1. Typed => TypeOK
  BY DEF Typed
<1> QED
  BY <1>1, TypedInit, TypedStep, PTL DEF Spec

-----------------------------------------------------------------------------
(* Jobs.                                                                     *)

OnlyActiveChange == \A q \in Ops : jobs'[q] = jobs[q] \/ IsActive(q)

OneInserted ==
    \E o \in Ops :
        /\ jobs[o] = None
        /\ \A q \in Ops : IsActive(q) => KeyOf[q] # KeyOf[o]
        /\ \A q \in Ops \ {o} : jobs'[q] = jobs[q]

\* Every step either changes the rows of active jobs only, or inserts one row,
\* whose key no active job has.
LEMMA JobSteps ==
    ASSUME Typed, [Next]_vars
    PROVE  OnlyActiveChange \/ OneInserted
<1> USE DEF OnlyActiveChange
<1>0. jobs \in [Ops -> Job \cup {None}] /\ clock \in Nat
  BY DEF Typed, TypeOK, StoreTypeOK
<1>1. ASSUME NEW o \in Ops, NEW now \in Readings, Start(o, now) PROVE OneInserted
  BY <1>0, <1>1 DEF Start, StartJob, OneInserted
<1>2. ASSUME NEW o \in Ops, NEW now \in Readings, NEW s \in Targets,
             NEW w \in Workers \cup {None}, NEW p \in Pubs \cup {None},
             Advance(o, s, w, p, now)
      PROVE  OnlyActiveChange
  <2>1. ~IsTerminal(o)
    BY <1>2 DEF Advance, Transition, Transitions, IsTerminal, TerminalStates, JobStates,
                ActiveStates
  <2>2. jobs[o] # None
    BY <1>2 DEF Advance, Transition
  <2>3. IsActive(o)
    BY <2>1, <2>2, JobKinds DEF Typed
  <2> QED
    BY <1>0, <1>2, <2>3 DEF Advance, Transition
<1>3. ASSUME NEW o \in Ops, NEW now \in Readings, NEW s \in TerminalStates,
             NEW p \in Pubs \cup {None}, Finish(o, s, p, now)
      PROVE  OnlyActiveChange
  <2>1. IsActive(o) \/ jobs' = jobs
    BY <1>3, JobKinds DEF Finish, ForceTerminal, MayForceTerminal, Typed
  <2>2. \A q \in Ops \ {o} : jobs'[q] = jobs[q]
    BY <1>0, <1>3 DEF Finish, ForceTerminal
  <2> QED
    BY <2>1, <2>2
<1>4. ASSUME NEW o \in Ops, NEW now \in Readings, NEW w \in Workers, Beat(o, w, now)
      PROVE  OnlyActiveChange
  BY <1>0, <1>4 DEF Beat, HeartbeatJob
<1>5. ASSUME NEW o \in Ops, NEW now \in Readings, NEW n \in LeaseNames, NEW w \in Workers,
             Acquire(n, o, w, now)
      PROVE  OnlyActiveChange
  <2>1. AcquireLease(n, o, w, now, alive) /\ now \in Nat
    BY <1>0, <1>5 DEF Acquire, Readings
  <2>2. CASE RenewLease(n, o, w, now, alive)
    BY <2>2 DEF RenewLease
  <2>3. CASE TakeLease(n, o, w, now, alive)
    BY <2>1, <2>3, TakeLeaseJobs
  <2> QED
    BY <2>1, <2>2, <2>3 DEF AcquireLease
<1>6. ASSUME NEW n \in LeaseNames, NEW h \in holds[n], Release(n, h) PROVE OnlyActiveChange
  BY <1>6 DEF Release, ReleaseLease, storeVars
<1>7. ASSUME NEW n \in LeaseNames, NEW now \in Readings, RemoveStale(n, now) PROVE OnlyActiveChange
  BY <1>7 DEF RemoveStale, ReleaseLease
<1>8. Tick \/ (\E w \in Workers : Crash(w)) \/ UNCHANGED vars => OnlyActiveChange
  BY DEF Tick, Crash, vars, storeVars
<1> HIDE DEF OnlyActiveChange
<1> QED
  BY <1>1, <1>2, <1>3, <1>4, <1>5, <1>6, <1>7, <1>8 DEF Next

\* No step, of any client and with any clock reading, makes a second operation
\* of a compatibility key active.
THEOREM OneActive == Spec => []OneActivePerKey
<1>1. Init => OneActivePerKey
  BY DEF Init, StoreInit, OneActivePerKey, IsActive
<1>2. Typed /\ OneActivePerKey /\ [Next]_vars => OneActivePerKey'
  <2> SUFFICES ASSUME Typed, OneActivePerKey, [Next]_vars,
                      NEW o \in Ops, NEW p \in Ops,
                      IsActive(o)', IsActive(p)', KeyOf[o] = KeyOf[p]
               PROVE  o = p
    BY DEF OneActivePerKey
  <2>1. CASE \A q \in Ops : jobs'[q] = jobs[q] \/ IsActive(q)
    <3>1. IsActive(o) /\ IsActive(p)
      BY <2>1 DEF IsActive
    <3> QED
      BY <3>1 DEF OneActivePerKey
  <2>2. ASSUME NEW fresh \in Ops,
               \A q \in Ops : IsActive(q) => KeyOf[q] # KeyOf[fresh],
               \A q \in Ops \ {fresh} : jobs'[q] = jobs[q]
        PROVE  o = p
    <3>1. \A q \in {o, p} \ {fresh} : IsActive(q)
      BY <2>2 DEF IsActive
    <3> QED
      BY <2>2, <3>1 DEF OneActivePerKey
  <2> QED
    BY <2>1, <2>2, JobSteps DEF OnlyActiveChange, OneInserted
<1> QED
  BY <1>1, <1>2, TypedInit, TypedStep, PTL DEF Spec

\* A terminal job's row never changes again.
THEOREM TerminalStays == Spec => TerminalImmutable
<1>1. Typed /\ [Next]_vars => [\A o \in Ops : IsTerminal(o) => jobs'[o] = jobs[o]]_vars
  <2> SUFFICES ASSUME Typed, [Next]_vars, NEW o \in Ops, IsTerminal(o)
               PROVE  jobs'[o] = jobs[o]
    OBVIOUS
  <2>1. jobs[o] # None /\ ~IsActive(o)
    BY JobKinds DEF Typed, IsTerminal
  <2> QED
    BY <2>1, JobSteps DEF OnlyActiveChange, OneInserted
<1> QED
  BY <1>1, TypedInit, TypedStep, PTL DEF Spec, TerminalImmutable

-----------------------------------------------------------------------------
(* Fencing.                                                                  *)

\* The tokens handed out never exceed the recorded one: a new token is new.
LEMMA TokensInit == Init => TokensBounded
BY DEF Init, StoreInit, TokensBounded

LEMMA TokensStep == Typed /\ TokensBounded /\ [Next]_vars => TokensBounded'
<1> SUFFICES ASSUME Typed, TokensBounded, [Next]_vars PROVE TokensBounded'
  OBVIOUS
<1>0. /\ holds \in [LeaseNames -> SUBSET Hold] /\ fence \in [LeaseNames -> Nat]
      /\ leases \in [LeaseNames -> Lease \cup {None}] /\ clock \in Nat
  BY DEF Typed, TypeOK, StoreTypeOK
<1>1. ASSUME NEW o \in Ops, NEW now \in Readings, NEW n \in LeaseNames, NEW w \in Workers,
             Acquire(n, o, w, now)
      PROVE  TokensBounded'
  <2>1. AcquireLease(n, o, w, now, alive) /\ now \in Nat
    BY <1>0, <1>1 DEF Acquire, Readings
  <2>2. leases'[n].token <= fence'[n] /\ fence[n] <= fence'[n]
    <3>1. CASE leases[n] # None /\ SameHold(leases[n], leases'[n]) /\ fence' = fence
      BY <1>0, <3>1 DEF SameHold, TokensBounded
    <3>2. CASE leases'[n].token = fence[n] + 1 /\ fence'[n] = fence[n] + 1
      BY <1>0, <3>2
    <3> QED
      BY <2>1, <3>1, <3>2, AcquireRows
  <2>3. \A h \in holds'[n] : h.token <= fence'[n]
    <3>1. holds'[n] = holds[n] \cup {HoldOf(leases'[n])}
      BY <1>0, <1>1 DEF Acquire
    <3>2. \A h \in holds[n] : h.token \in Nat /\ h.token <= fence[n]
      BY <1>0 DEF TokensBounded, Hold
    <3>3. fence[n] \in Nat /\ fence'[n] \in Nat
      BY <1>0, <2>1, AcquireRows
    <3> QED
      BY <2>2, <3>1, <3>2, <3>3 DEF HoldOf
  <2>4. ASSUME NEW m \in LeaseNames \ {n}
        PROVE  leases'[m] = leases[m] /\ fence'[m] = fence[m] /\ holds'[m] = holds[m]
    BY <1>0, <1>1, <2>1, AcquireRows DEF Acquire
  <2> QED
    BY <2>2, <2>3, <2>4 DEF TokensBounded
<1>2. ASSUME UNCHANGED fence,
             \A n \in LeaseNames : /\ leases'[n] = leases[n] \/ leases'[n] = None
                                   /\ holds'[n] \subseteq holds[n]
      PROVE  TokensBounded'
  BY <1>2 DEF TokensBounded
<1>3. ASSUME NEW o \in Ops, NEW now \in Readings,
             \/ Start(o, now)
             \/ \E s \in Targets, w \in Workers \cup {None}, p \in Pubs \cup {None} :
                    Advance(o, s, w, p, now)
             \/ \E s \in TerminalStates, p \in Pubs \cup {None} : Finish(o, s, p, now)
             \/ \E w \in Workers : Beat(o, w, now)
      PROVE  UNCHANGED <<fence, leases, holds>>
  BY <1>3 DEF Start, StartJob, Advance, Transition, Finish, ForceTerminal, Beat, HeartbeatJob
<1>4. ASSUME NEW n \in LeaseNames, NEW h \in holds[n], Release(n, h) PROVE TokensBounded'
  BY <1>0, <1>2, <1>4 DEF Release, ReleaseLease, storeVars
<1>5. ASSUME NEW n \in LeaseNames, NEW now \in Readings, RemoveStale(n, now)
      PROVE  TokensBounded'
  BY <1>0, <1>2, <1>5 DEF RemoveStale, ReleaseLease
<1>6. Tick \/ (\E w \in Workers : Crash(w)) \/ UNCHANGED vars => UNCHANGED <<fence, leases, holds>>
  BY DEF Tick, Crash, vars, storeVars
<1> QED
  BY <1>1, <1>2, <1>3, <1>4, <1>5, <1>6 DEF Next

\* How a step can touch the row of one lease: it is kept but for its expiry, it
\* is deleted, or it is taken over, free or stale, under the next token.
LEMMA LeaseSteps ==
    ASSUME Typed, [Next]_vars, NEW n \in LeaseNames
    PROVE  \/ leases'[n] = leases[n]
           \/ leases'[n] = None
           \/ leases[n] # None /\ SameHold(leases[n], leases'[n])
           \/ /\ leases'[n].token = fence[n] + 1
              /\ leases[n] # None =>
                    /\ \E now \in 0 .. clock : Stale(leases[n], now, alive)
                    /\ \/ jobs'[leases[n].op] = jobs[leases[n].op] /\ IsTerminal(leases[n].op)
                       \/ jobs'[leases[n].op].state = "recovery_required"
<1> DEFINE Kept  == leases'[n] = leases[n] \/ leases'[n] = None
           Moved == \/ leases[n] # None /\ SameHold(leases[n], leases'[n])
                    \/ /\ leases'[n].token = fence[n] + 1
                       /\ leases[n] # None =>
                             /\ \E now \in 0 .. clock : Stale(leases[n], now, alive)
                             /\ \/ /\ jobs'[leases[n].op] = jobs[leases[n].op]
                                   /\ IsTerminal(leases[n].op)
                                \/ jobs'[leases[n].op].state = "recovery_required"
<1>0. leases \in [LeaseNames -> Lease \cup {None}] /\ jobs \in [Ops -> Job \cup {None}]
      /\ fence \in [LeaseNames -> Nat] /\ clock \in Nat
  BY DEF Typed, TypeOK, StoreTypeOK
<1>1. ASSUME NEW o \in Ops, NEW now \in Readings, NEW m \in LeaseNames, NEW w \in Workers,
             Acquire(m, o, w, now)
      PROVE  Kept \/ Moved
  <2>1. AcquireLease(m, o, w, now, alive) /\ now \in Nat /\ now \in 0 .. clock
    BY <1>0, <1>1 DEF Acquire, Readings
  <2>2. CASE m # n
    BY <2>1, <2>2, AcquireRows
  <2>3. CASE m = n /\ RenewLease(n, o, w, now, alive)
    BY <1>0, <2>3, LeaseRow DEF RenewLease, MayRenew, SameHold, Typed, Lease, Expiry
  <2>4. CASE m = n /\ TakeLease(n, o, w, now, alive)
    <3>1. leases'[n].token = fence[n] + 1
      BY <1>0, <2>4 DEF TakeLease, Demoted
    <3>2. CASE leases[n] = None
      BY <3>1, <3>2
    <3>3. CASE leases[n] # None
      <4>1. Stale(leases[n], now, alive)
        BY <2>4, <3>3 DEF TakeLease, MayTake, Demoted
      <4>2. leases[n].op \in Ops /\ leases[n].op # None
        BY <3>3, LeaseRow, NoneAssumption DEF Typed
      <4>3. CASE IsTerminal(leases[n].op)
        <5>1. jobs' = jobs
          BY <2>4, <3>3, <4>3 DEF TakeLease, Demoted
        <5> QED
          BY <2>1, <3>1, <4>1, <4>3, <5>1
      <4>4. CASE ~IsTerminal(leases[n].op)
        <5>1. jobs[leases[n].op] \in Job
          BY <3>3, <4>2, JobKinds DEF Typed, LeasedJobsExist
        <5>2. jobs'[leases[n].op].state = "recovery_required"
          BY <1>0, <2>4, <3>3, <4>2, <4>4, <5>1 DEF TakeLease, Demoted, Job
        <5> QED
          BY <2>1, <3>1, <4>1, <5>2
      <4> QED
        BY <4>3, <4>4
    <3> QED
      BY <3>2, <3>3
  <2> QED
    BY <2>1, <2>2, <2>3, <2>4 DEF AcquireLease
<1>2. ASSUME NEW o \in Ops, NEW now \in Readings,
             \/ Start(o, now)
             \/ \E s \in Targets, w \in Workers \cup {None}, p \in Pubs \cup {None} :
                    Advance(o, s, w, p, now)
             \/ \E s \in TerminalStates, p \in Pubs \cup {None} : Finish(o, s, p, now)
             \/ \E w \in Workers : Beat(o, w, now)
      PROVE  Kept
  BY <1>2 DEF Start, StartJob, Advance, Transition, Finish, ForceTerminal, Beat, HeartbeatJob
<1>3. ASSUME NEW m \in LeaseNames, NEW h \in holds[m], Release(m, h) PROVE Kept
  BY <1>0, <1>3 DEF Release, ReleaseLease, storeVars
<1>4. ASSUME NEW m \in LeaseNames, NEW now \in Readings, RemoveStale(m, now) PROVE Kept
  BY <1>0, <1>4 DEF RemoveStale, ReleaseLease
<1>5. Tick \/ (\E w \in Workers : Crash(w)) \/ UNCHANGED vars => Kept
  BY DEF Tick, Crash, vars, storeVars
<1>6. Kept \/ Moved
  <2> HIDE DEF Kept, Moved
  <2> QED
    BY <1>1, <1>2, <1>3, <1>4, <1>5 DEF Next
<1> QED
  BY <1>6

\* A snapshot that lost its lease is never valid again, whoever takes, renews,
\* releases or removes the lease in whatever order: fencing tokens are not reused.
THEOREM FencingHolds == Spec => NoRevival
<1>1. Typed /\ TokensBounded /\ [Next]_vars
      => [\A n \in LeaseNames : \A h \in holds[n] :
             ~MayRelease(n, h) => ~MayRelease(n, h)']_vars
  <2> SUFFICES ASSUME Typed, TokensBounded, [Next]_vars,
                      NEW n \in LeaseNames, NEW h \in holds[n],
                      MayRelease(n, h)'
               PROVE  MayRelease(n, h)
    OBVIOUS
  <2>1. leases'[n] # None /\ SameHold(leases'[n], h)
    BY DEF MayRelease
  <2>2. h.token \in Nat /\ fence[n] \in Nat /\ h.token <= fence[n]
    BY DEF Typed, TypeOK, StoreTypeOK, Hold, TokensBounded
  <2>3. leases'[n].token # fence[n] + 1
    BY <2>1, <2>2 DEF SameHold
  <2> QED
    BY <2>1, <2>3, LeaseSteps DEF MayRelease, SameHold
<1> QED
  BY <1>1, TypedInit, TypedStep, TokensInit, TokensStep, PTL DEF Spec, NoRevival

\* A lease changes hands only when it has expired or its worker is dead, and
\* leaves the previous holder's job terminal or in need of recovery.
THEOREM TakeoverIsStale == Spec => TakeoverOnlyWhenStale
<1>1. Typed /\ [Next]_vars
      => [\A n \in LeaseNames :
             leases[n] # None /\ leases'[n] # None /\ ~SameHold(leases[n], leases'[n])
             => /\ Stale(leases[n], clock, alive)
                /\ jobs'[leases[n].op].state \in TerminalStates \cup {"recovery_required"}]_vars
  <2> SUFFICES ASSUME Typed, [Next]_vars, NEW n \in LeaseNames,
                      leases[n] # None, leases'[n] # None, ~SameHold(leases[n], leases'[n])
               PROVE  /\ Stale(leases[n], clock, alive)
                      /\ jobs'[leases[n].op].state \in TerminalStates \cup {"recovery_required"}
    OBVIOUS
  <2>1. leases'[n] # leases[n]
    BY DEF SameHold
  <2>2. PICK now \in 0 .. clock : Stale(leases[n], now, alive)
    BY <2>1, LeaseSteps
  <2>3. Stale(leases[n], clock, alive)
    BY <2>2, LeaseRow DEF Stale, Typed, TypeOK
  <2>4. jobs'[leases[n].op].state \in TerminalStates \cup {"recovery_required"}
    BY <2>1, LeaseSteps DEF IsTerminal
  <2> QED
    BY <2>3, <2>4
<1> QED
  BY <1>1, TypedInit, TypedStep, PTL DEF Spec, TakeoverOnlyWhenStale
=============================================================================

---------------------------- MODULE ParsePipeline ----------------------------
(***************************************************************************)
(* parse_sources of the Codex adapter: a feeder, a few workers and the     *)
(* coordinator, which hands the batches of the workers to its caller in    *)
(* the order of the sources.  Between them are a bounded work queue, a     *)
(* bounded output queue, and two kinds of slots that a worker takes before *)
(* it hands over a batch: one per source, and one of a common pool.        *)
(***************************************************************************)
EXTENDS Integers, Sequences, FiniteSets

CONSTANTS
    Workers,        \* worker threads
    N,              \* selected sources, numbered by rank
    Unchanged,      \* sources for which the parser has a single batch
    WorkCapacity,   \* work queue
    Capacity,       \* output queue, and slots for batches that wait for their turn
    MaxBatches      \* batches of one source

Sources == 1 .. N

ASSUME PipelineAssumption ==
    /\ N \in Nat
    /\ IsFiniteSet(Workers)
    /\ Unchanged \subseteq Sources
    /\ WorkCapacity \in Nat \ {0}
    /\ Capacity \in Nat \ {0}
    /\ MaxBatches \in Nat \ {0, 1}

VARIABLES
    fed,        \* items put on the work queue: the sources in order, then one end per worker
    taken,      \* items taken from it
    threads,    \* the workers
    slots,      \* free slots of the pool
    held,       \* sources whose own slot is taken
    output,     \* output queue
    buffered,   \* batches that wait for their turn
    yielded,    \* batches that the caller was given
    ended       \* the iteration is over

work   == <<fed, taken>>
vars   == <<work, threads, slots, held, output, buffered, yielded, ended>>

Batch == [source : Sources, index : 0 .. MaxBatches - 1, done : BOOLEAN]

Items == N + Cardinality(Workers)
IsSource(k) == k <= N

-----------------------------------------------------------------------------
(* The feeder. *)

Feed ==
    /\ fed < Items
    /\ fed - taken < WorkCapacity
    /\ fed' = fed + 1
    /\ UNCHANGED <<taken, threads, slots, held, output, buffered, yielded, ended>>

-----------------------------------------------------------------------------
(* A worker.  "next" is the index of the batch it makes or has made, and   *)
(* "done" whether that one is the last.                                    *)

Fresh(s) == [at |-> "parse", source |-> s, next |-> 0, done |-> FALSE]

Take(t) ==
    /\ threads[t].at = "get"
    /\ taken < fed
    /\ taken' = taken + 1
    /\ threads' = [threads EXCEPT ![t] = IF IsSource(taken + 1) THEN Fresh(taken + 1)
                                         ELSE [@ EXCEPT !.at = "ended"]]
    /\ UNCHANGED <<fed, slots, held, output, buffered, yielded, ended>>

\* iter_source_batches goes on to its next yield.  The last batch of a source
\* that changed is never its first one.
Parse(t) ==
    /\ threads[t].at = "parse"
    /\ \E last \in BOOLEAN :
         /\ IF threads[t].source \in Unchanged THEN last
            ELSE (last => threads[t].next > 0)
         /\ threads[t].next = MaxBatches - 1 => last
         /\ threads' = [threads EXCEPT ![t].at = "source", ![t].done = last]
    /\ UNCHANGED <<work, slots, held, output, buffered, yielded, ended>>

\* Mutant: the batch that says so has the index of the one before.
MutFail(t) ==
    /\ threads[t].at = "parse"
    /\ threads' = [threads EXCEPT ![t].at = "source", ![t].done = TRUE,
                                  ![t].next = IF @ = 0 THEN 0 ELSE @ - 1]
    /\ UNCHANGED <<work, slots, held, output, buffered, yielded, ended>>

\* It raises: the next batch is the last one, and says so.
Fail(t) ==
    /\ threads[t].at = "parse"
    /\ threads' = [threads EXCEPT ![t].at = "source", ![t].done = TRUE]
    /\ UNCHANGED <<work, slots, held, output, buffered, yielded, ended>>

\* Mutant: the source's own slot is not asked for.
MutAcquireSource(t) ==
    /\ threads[t].at = "source"
    /\ held' = held \cup {threads[t].source}
    /\ threads' = [threads EXCEPT ![t].at = "slot"]
    /\ UNCHANGED <<work, slots, output, buffered, yielded, ended>>

AcquireSource(t) ==
    /\ threads[t].at = "source"
    /\ threads[t].source \notin held
    /\ held' = held \cup {threads[t].source}
    /\ threads' = [threads EXCEPT ![t].at = "slot"]
    /\ UNCHANGED <<work, slots, output, buffered, yielded, ended>>

AcquireSlot(t) ==
    /\ threads[t].at = "slot"
    /\ slots > 0
    /\ slots' = slots - 1
    /\ threads' = [threads EXCEPT ![t].at = "put"]
    /\ UNCHANGED <<work, held, output, buffered, yielded, ended>>

BatchOf(t) == [source |-> threads[t].source, index |-> threads[t].next, done |-> threads[t].done]

Put(t) ==
    /\ threads[t].at = "put"
    /\ Len(output) < Capacity
    /\ output' = Append(output, BatchOf(t))
    /\ threads' = [threads EXCEPT ![t].at   = IF threads[t].done THEN "get" ELSE "parse",
                                  ![t].next = IF threads[t].done THEN @ ELSE @ + 1]
    /\ UNCHANGED <<work, slots, held, buffered, yielded, ended>>

-----------------------------------------------------------------------------
(* The coordinator. *)

Order == INSTANCE SequentialParse

Expected == Order!NextSource(yielded)
Ready == {b \in buffered : b.source = Expected /\ b.index = Order!NextIndex(yielded)}

\* Mutant: what leaves the queue frees its slot, and does so again later.
MutGet ==
    /\ Expected <= N /\ Ready = {} /\ output # <<>>
    /\ buffered' = buffered \cup {Head(output)}
    /\ output' = Tail(output)
    /\ slots' = slots + 1
    /\ UNCHANGED <<work, threads, held, yielded, ended>>

Get ==
    /\ Expected <= N /\ Ready = {} /\ output # <<>>
    /\ buffered' = buffered \cup {Head(output)}
    /\ output' = Tail(output)
    /\ UNCHANGED <<work, threads, slots, held, yielded, ended>>

\* Mutant: batches are handed over as they come.
MutYieldAny ==
    \E b \in buffered :
      /\ buffered' = buffered \ {b}
      /\ slots' = slots + 1
      /\ held' = held \ {b.source}
      /\ yielded' = Append(yielded, b)
      /\ UNCHANGED <<work, threads, output, ended>>

Yield ==
    \E b \in Ready :
      /\ buffered' = buffered \ {b}
      /\ slots' = slots + 1
      /\ held' = held \ {b.source}
      /\ yielded' = Append(yielded, b)
      /\ UNCHANGED <<work, threads, output, ended>>

\* The feeder and the workers are joined.
End ==
    /\ Expected > N /\ ~ended
    /\ fed = Items /\ \A t \in Workers : threads[t].at = "ended"
    /\ ended' = TRUE
    /\ UNCHANGED <<work, threads, slots, held, output, buffered, yielded>>

-----------------------------------------------------------------------------
Init ==
    /\ fed = 0 /\ taken = 0
    /\ threads = [t \in Workers |-> [at |-> "get", source |-> 0, next |-> 0, done |-> FALSE]]
    /\ slots = Capacity /\ held = {}
    /\ output = <<>> /\ buffered = {} /\ yielded = <<>> /\ ended = FALSE

Work(t) == Take(t) \/ Parse(t) \/ Fail(t) \/ AcquireSource(t) \/ AcquireSlot(t) \/ Put(t)

Next == Feed \/ (\E t \in Workers : Work(t)) \/ Get \/ Yield \/ End

Spec == Init /\ [][Next]_vars

\* Every thread goes on when it can, and the caller asks for the next batch.
Fairness ==
    /\ WF_vars(Feed) /\ WF_vars(Get) /\ WF_vars(Yield) /\ WF_vars(End)
    /\ \A t \in Workers : WF_vars(Work(t))

FairSpec == Spec /\ Fairness

=============================================================================

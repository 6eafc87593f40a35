----------------------- MODULE ParsePipelineProperties -----------------------
(***************************************************************************)
(* What the workers, the queues and the slots of the parser amount to.     *)
(***************************************************************************)
EXTENDS ParsePipeline

(* Counters are within their bounds and every batch is one of the parser's. *)
State == [at : {"get", "parse", "source", "slot", "put", "ended"}, source : 0 .. N,
          next : 0 .. MaxBatches - 1, done : BOOLEAN]
PipelineTypeOK ==
    /\ fed \in 0 .. Items /\ taken \in 0 .. fed
    /\ threads \in [Workers -> State]
    /\ slots \in 0 .. Capacity
    /\ held \subseteq Sources
    /\ output \in Seq(Batch) /\ buffered \subseteq Batch
    /\ yielded \in Seq(Batch)
    /\ ended \in BOOLEAN

(* Where the batches of a source are, once they have a slot of the pool. *)
Putting(s) == {t \in Workers : threads[t].at = "put" /\ threads[t].source = s}
Queued(s)  == {k \in DOMAIN output : output[k].source = s}
Waiting(s) == {b \in buffered : b.source = s}
Flying == {s \in Sources : Putting(s) # {} \/ Queued(s) # {} \/ Waiting(s) # {}}

(* A source never has two batches in flight, whatever the workers' speed,  *)
(* so that the pool is what it was minus one slot per source with a batch  *)
(* in flight: no release ever exceeds it (BoundedSemaphore) and the output *)
(* queue never makes a worker wait (parser.py, parse_sources).             *)
OneInFlight(s) ==
    Cardinality(Putting(s)) + Cardinality(Queued(s)) + Cardinality(Waiting(s)) <= 1
SlotsAccounted ==
    /\ \A s \in Sources : OneInFlight(s)
    /\ slots = Capacity - Cardinality(Flying)
    /\ \A t \in Workers : threads[t].at = "put" => Len(output) < Capacity

(* With a slot for each source, no worker waits for one: the source whose  *)
(* turn it is always gets its batch to the coordinator (parser.py,         *)
(* reorder_slots).  With fewer slots it may not: see ParseEnds.            *)
PoolSuffices ==
    N <= Capacity => \A t \in Workers : threads[t].at = "slot" => slots > 0

(* The caller sees what one worker would have given it: the order of the   *)
(* sources, all batches of each and nothing twice (parser.py: "worker      *)
(* scheduling cannot affect downstream canonicalization").                 *)
Sequential == INSTANCE SequentialParse
ImplementsSequential == Sequential!Spec

(* The iteration ends, whatever fails: parser.py, parse_sources, and       *)
(* test_worker_failure_emits_the_next_terminal_batch_without_deadlock.     *)
ParseEnds == <>ended

=============================================================================

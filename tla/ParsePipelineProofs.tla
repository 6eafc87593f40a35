------------------------- MODULE ParsePipelineProofs -------------------------
(***************************************************************************)
(* Proofs about the parser's threads, for any number of workers, sources,  *)
(* slots and batches: at most one batch of a source is in flight, the pool *)
(* is accounted for and suffices when it is as large as the number of      *)
(* sources, and the caller sees the sequential order.                      *)
(***************************************************************************)
EXTENDS ParsePipelineProperties, FiniteSetTheorems, TLAPS

-----------------------------------------------------------------------------
(* The invariant.  A worker that has a source is the only one with it, and *)
(* a batch that has a slot is at one place.                                *)

Busy(t)  == threads[t].at \in {"parse", "source", "slot", "put"}
Holds(t) == threads[t].at \in {"slot", "put"}

OneWorker ==
    /\ \A t \in Workers : Busy(t) => threads[t].source \in Sources /\ threads[t].source <= taken
    /\ \A t, u \in Workers :
         Busy(t) /\ Busy(u) /\ threads[t].source = threads[u].source => t = u

LastIsDone ==
    \A t \in Workers :
      threads[t].at \in {"source", "slot", "put"} /\ threads[t].next = MaxBatches - 1
      => threads[t].done

HeldByWorker ==
    \A t \in Workers : Holds(t) =>
      /\ threads[t].source \in held
      /\ \A k \in DOMAIN output : output[k].source # threads[t].source
      /\ \A b \in buffered : b.source # threads[t].source

HeldInQueue ==
    /\ \A k \in DOMAIN output : output[k].source \in held
    /\ \A j, k \in DOMAIN output : output[j].source = output[k].source => j = k
    /\ \A k \in DOMAIN output : \A b \in buffered : b.source # output[k].source

HeldInBuffer ==
    /\ \A b \in buffered : b.source \in held
    /\ \A b, c \in buffered : b.source = c.source => b = c

Placed == OneWorker /\ LastIsDone /\ HeldByWorker /\ HeldInQueue /\ HeldInBuffer

Pool == slots = Capacity - Cardinality(Flying)

IInv == PipelineTypeOK /\ Placed /\ Pool

-----------------------------------------------------------------------------
(* Facts about the sets. *)

LEMMA ItemsNat == Items \in Nat
BY PipelineAssumption, FS_CardinalityType DEF Items

LEMMA FlyingFinite ==
    /\ IsFiniteSet(Sources) /\ Cardinality(Sources) = N
    /\ IsFiniteSet(Flying) /\ Cardinality(Flying) \in Nat
    /\ Cardinality(Flying) <= N
<1>1. IsFiniteSet(Sources) /\ Cardinality(Sources) = N
  BY PipelineAssumption, FS_Interval DEF Sources
<1>2. Flying \in SUBSET Sources
  BY DEF Flying
<1> QED
  BY <1>1, <1>2, FS_Subset, FS_CardinalityType

\* Sources that are in flight, in terms of single places.
LEMMA FlyingMember ==
    ASSUME NEW s
    PROVE  s \in Flying <=> /\ s \in Sources
                            /\ \/ \E t \in Workers : threads[t].at = "put" /\ threads[t].source = s
                               \/ \E k \in DOMAIN output : output[k].source = s
                               \/ \E b \in buffered : b.source = s
BY DEF Flying, Putting, Queued, Waiting

LEMMA FlyingMemberNext ==
    ASSUME NEW s
    PROVE  s \in Flying' <=> /\ s \in Sources
                             /\ \/ \E t \in Workers : threads'[t].at = "put" /\ threads'[t].source = s
                                \/ \E k \in DOMAIN output' : output'[k].source = s
                                \/ \E b \in buffered' : b.source = s
BY DEF Flying, Putting, Queued, Waiting

\* The slots follow the sources in flight.
LEMMA PoolSteps ==
    ASSUME Pool, PipelineAssumption, NEW s
    PROVE  /\ Flying' = Flying /\ slots' = slots => Pool'
           /\ Flying' = Flying \cup {s} /\ s \notin Flying /\ slots' = slots - 1 => Pool'
           /\ Flying' = Flying \ {s} /\ s \in Flying /\ slots' = slots + 1 => Pool'
BY FlyingFinite, FS_AddElement, FS_RemoveElement DEF Pool, PipelineAssumption

\* A batch at the head of a queue, and the rest.
LEMMA TailOf ==
    ASSUME NEW S, NEW q \in Seq(S), q # <<>>
    PROVE  /\ Head(q) \in S /\ Head(q) = q[1] /\ 1 \in DOMAIN q
           /\ Tail(q) \in Seq(S) /\ DOMAIN Tail(q) = 1 .. Len(q) - 1
           /\ DOMAIN q = 1 .. Len(q) /\ Len(q) \in Nat /\ Len(q) > 0
           /\ \A k \in DOMAIN Tail(q) : Tail(q)[k] = q[k + 1] /\ k + 1 \in DOMAIN q /\ k + 1 # 1
           /\ \A k \in DOMAIN q : k = 1 \/ (k - 1 \in DOMAIN Tail(q) /\ Tail(q)[k - 1] = q[k])
OBVIOUS

LEMMA AppendOf ==
    ASSUME NEW S, NEW q \in Seq(S), NEW x \in S
    PROVE  /\ Append(q, x) \in Seq(S)
           /\ Len(q) \in Nat
           /\ DOMAIN q = 1 .. Len(q) /\ DOMAIN Append(q, x) = 1 .. Len(q) + 1
           /\ \A k \in DOMAIN q : Append(q, x)[k] = q[k]
           /\ Append(q, x)[Len(q) + 1] = x
OBVIOUS

-----------------------------------------------------------------------------
(* Initially, and when nothing happens. *)

LEMMA InvInit == Init => IInv
<1> SUFFICES ASSUME Init PROVE IInv
  OBVIOUS
<1> USE PipelineAssumption, ItemsNat
<1>1. PipelineTypeOK
  <2>1. threads \in [Workers -> State]
    BY DEF Init, State
  <2>2. output \in Seq(Batch) /\ yielded \in Seq(Batch) /\ buffered \subseteq Batch
    BY DEF Init
  <2>3. /\ fed \in 0 .. Items /\ taken \in 0 .. fed /\ slots \in 0 .. Capacity
        /\ held \subseteq Sources
    BY DEF Init
  <2>4. ended \in BOOLEAN
    BY Zenon DEF Init
  <2> QED
    BY <2>1, <2>2, <2>3, <2>4 DEF PipelineTypeOK
<1>2. Placed
  BY DEF Init, Placed, OneWorker, LastIsDone, HeldByWorker, HeldInQueue, HeldInBuffer, Busy, Holds
<1>3. Flying = {}
  BY DEF Init, Flying, Putting, Queued, Waiting
<1>4. Pool
  BY <1>3, FS_EmptySet DEF Init, Pool
<1> QED
  BY <1>1, <1>2, <1>4 DEF IInv

LEMMA InvStutter == IInv /\ UNCHANGED vars => IInv'
BY DEF IInv, vars, work, PipelineTypeOK, Placed, Pool, OneWorker, LastIsDone, HeldByWorker,
       HeldInQueue, HeldInBuffer, Busy, Holds, Flying, Putting, Queued, Waiting

-----------------------------------------------------------------------------
(* Steps that leave the batches where they are. *)

LEMMA FeedInv == IInv /\ Feed => IInv'
<1> SUFFICES ASSUME IInv, Feed PROVE IInv'
  OBVIOUS
<1>1. PipelineTypeOK'
  BY ItemsNat DEF IInv, PipelineTypeOK, Feed
<1>2. Placed'
  BY DEF IInv, Feed, Placed, OneWorker, LastIsDone, HeldByWorker, HeldInQueue, HeldInBuffer,
         Busy, Holds
<1>3. Pool'
  BY DEF IInv, Feed, Pool, Flying, Putting, Queued, Waiting
<1> QED
  BY <1>1, <1>2, <1>3 DEF IInv

LEMMA TakeInv == ASSUME IInv, NEW t \in Workers, Take(t) PROVE IInv'
<1> USE PipelineAssumption, ItemsNat
<1>1. /\ taken \in Nat /\ taken' = taken + 1 /\ threads[t] \in State
      /\ threads' \in [Workers -> State]
      /\ \A u \in Workers \ {t} : threads'[u] = threads[u]
      /\ \/ IsSource(taken + 1) /\ threads'[t] = Fresh(taken + 1)
         \/ threads'[t].at = "ended"
  <2>1. /\ taken \in Nat /\ taken' = taken + 1
        /\ threads \in [Workers -> State] /\ threads[t] \in State
    BY DEF IInv, PipelineTypeOK, Take
  <2>2. [threads[t] EXCEPT !.at = "ended"] \in State
    BY <2>1 DEF State
  <2>3. IsSource(taken + 1) => Fresh(taken + 1) \in State
    BY <2>1 DEF State, Fresh, IsSource
  <2> QED
    BY <2>1, <2>2, <2>3 DEF Take, State
<1>2. PipelineTypeOK'
  BY <1>1 DEF IInv, PipelineTypeOK, Take
<1>3. OneWorker'
  BY <1>1 DEF IInv, Placed, OneWorker, Busy, Fresh, IsSource, Sources
<1>4. LastIsDone' /\ HeldByWorker'
  BY <1>1 DEF IInv, Placed, LastIsDone, HeldByWorker, Holds, Fresh, Take
<1>5. HeldInQueue' /\ HeldInBuffer'
  BY DEF IInv, Placed, HeldInQueue, HeldInBuffer, Take
<1>6. \A s \in Sources : Putting(s)' = Putting(s) /\ Queued(s)' = Queued(s) /\ Waiting(s)' = Waiting(s)
  BY <1>1 DEF Take, Putting, Queued, Waiting, Fresh
<1>7. Pool'
  BY <1>6 DEF IInv, Pool, Flying, Take
<1> QED
  BY <1>2, <1>3, <1>4, <1>5, <1>7 DEF IInv, Placed

\* Parse and Fail: the worker has its next batch.
LEMMA ParseInv ==
    ASSUME IInv, NEW t \in Workers, Parse(t) \/ Fail(t)
    PROVE  IInv'
<1> USE PipelineAssumption
<1>1. PICK last \in BOOLEAN :
        /\ threads[t].at = "parse"
        /\ threads[t].next = MaxBatches - 1 => last
        /\ threads' = [threads EXCEPT ![t].at = "source", ![t].done = last]
  BY DEF Parse, Fail
<1>2. UNCHANGED <<work, slots, held, output, buffered, yielded, ended>>
  BY DEF Parse, Fail
<1>3. /\ threads[t] \in State /\ threads' \in [Workers -> State]
      /\ threads'[t].at = "source" /\ threads'[t].done = last
      /\ threads'[t].source = threads[t].source /\ threads'[t].next = threads[t].next
      /\ \A u \in Workers \ {t} : threads'[u] = threads[u]
  BY <1>1 DEF IInv, PipelineTypeOK, State
<1>4. PipelineTypeOK'
  BY <1>2, <1>3 DEF IInv, PipelineTypeOK, work
<1>5. OneWorker' /\ LastIsDone' /\ HeldByWorker'
  BY <1>1, <1>2, <1>3 DEF IInv, Placed, OneWorker, LastIsDone, HeldByWorker, Busy, Holds, work
<1>6. HeldInQueue' /\ HeldInBuffer'
  BY <1>2 DEF IInv, Placed, HeldInQueue, HeldInBuffer
<1>7. \A s \in Sources : Putting(s)' = Putting(s) /\ Queued(s)' = Queued(s) /\ Waiting(s)' = Waiting(s)
  BY <1>1, <1>2, <1>3 DEF Putting, Queued, Waiting
<1>8. Pool'
  BY <1>2, <1>7 DEF IInv, Pool, Flying
<1> QED
  BY <1>4, <1>5, <1>6, <1>8 DEF IInv, Placed

-----------------------------------------------------------------------------
(* Steps that move a batch. *)

LEMMA AcquireSourceInv == ASSUME IInv, NEW t \in Workers, AcquireSource(t) PROVE IInv'
<1> USE PipelineAssumption
<1> DEFINE s == threads[t].source
<1>1. /\ threads[t] \in State /\ threads' \in [Workers -> State]
      /\ threads[t].at = "source" /\ threads'[t].at = "slot"
      /\ threads'[t].source = s /\ threads'[t].next = threads[t].next
      /\ threads'[t].done = threads[t].done
      /\ \A u \in Workers \ {t} : threads'[u] = threads[u]
  BY DEF IInv, PipelineTypeOK, AcquireSource, State
<1>2. /\ s \notin held /\ held' = held \cup {s}
      /\ UNCHANGED <<fed, taken, slots, output, buffered, yielded, ended>>
  BY DEF AcquireSource, work
<1>3. s \in Sources /\ Busy(t)
  BY <1>1 DEF IInv, Placed, OneWorker, Busy
<1>4. PipelineTypeOK'
  BY <1>1, <1>2, <1>3 DEF IInv, PipelineTypeOK
<1>5. OneWorker' /\ LastIsDone'
  BY <1>1, <1>2 DEF IInv, Placed, OneWorker, LastIsDone, Busy
<1>6. HeldByWorker'
  BY <1>1, <1>2 DEF IInv, Placed, HeldByWorker, HeldInQueue, HeldInBuffer, Holds
<1>7. HeldInQueue' /\ HeldInBuffer'
  BY <1>2 DEF IInv, Placed, HeldInQueue, HeldInBuffer
<1>8. \A r \in Sources : Putting(r)' = Putting(r) /\ Queued(r)' = Queued(r) /\ Waiting(r)' = Waiting(r)
  BY <1>1, <1>2 DEF Putting, Queued, Waiting
<1>9. Pool'
  BY <1>2, <1>8 DEF IInv, Pool, Flying
<1> QED
  BY <1>4, <1>5, <1>6, <1>7, <1>9 DEF IInv, Placed

\* Until it has its slot, the batch of a worker is not in flight.
LEMMA SlotNotFlying ==
    ASSUME IInv, NEW t \in Workers, threads[t].at = "slot"
    PROVE  threads[t].source \in Sources /\ threads[t].source \notin Flying
<1>1. /\ threads[t].source \in Sources
      /\ \A u \in Workers : Busy(u) /\ threads[u].source = threads[t].source => u = t
  BY DEF IInv, Placed, OneWorker, Busy
<1>2. /\ \A k \in DOMAIN output : output[k].source # threads[t].source
      /\ \A b \in buffered : b.source # threads[t].source
  BY DEF IInv, Placed, HeldByWorker, Holds
<1> QED
  BY <1>1, <1>2, FlyingMember DEF Busy

LEMMA AcquireSlotInv == ASSUME IInv, NEW t \in Workers, AcquireSlot(t) PROVE IInv'
<1> USE PipelineAssumption
<1> DEFINE s == threads[t].source
<1>1. /\ threads[t] \in State /\ threads' \in [Workers -> State]
      /\ threads[t].at = "slot" /\ threads'[t].at = "put"
      /\ threads'[t].source = s /\ threads'[t].next = threads[t].next
      /\ threads'[t].done = threads[t].done
      /\ \A u \in Workers \ {t} : threads'[u] = threads[u]
  BY DEF IInv, PipelineTypeOK, AcquireSlot, State
<1>2. /\ slots > 0 /\ slots' = slots - 1
      /\ UNCHANGED <<fed, taken, held, output, buffered, yielded, ended>>
  BY DEF AcquireSlot, work
<1>3. PipelineTypeOK'
  BY <1>1, <1>2 DEF IInv, PipelineTypeOK
<1>4. OneWorker' /\ LastIsDone'
  BY <1>1, <1>2 DEF IInv, Placed, OneWorker, LastIsDone, Busy
<1>5. HeldByWorker' /\ HeldInQueue' /\ HeldInBuffer'
  BY <1>1, <1>2 DEF IInv, Placed, HeldByWorker, HeldInQueue, HeldInBuffer, Holds
<1>6. s \in Sources /\ s \notin Flying
  BY <1>1, SlotNotFlying
<1>7. Flying' = Flying \cup {s}
  BY <1>1, <1>2, <1>6, FlyingMember, FlyingMemberNext
<1>8. Pool'
  BY <1>2, <1>6, <1>7, PoolSteps DEF IInv
<1> QED
  BY <1>3, <1>4, <1>5, <1>8 DEF IInv, Placed

LEMMA PutInv == ASSUME IInv, NEW t \in Workers, Put(t) PROVE IInv'
<1> USE PipelineAssumption
<1> DEFINE s == threads[t].source
           b == BatchOf(t)
           n == Len(output) + 1
<1>1. /\ threads[t] \in State /\ threads[t].at = "put" /\ Busy(t) /\ Holds(t)
      /\ output \in Seq(Batch) /\ s \in Sources
  BY DEF IInv, PipelineTypeOK, Put, Placed, OneWorker, Busy, Holds
<1>2. b \in Batch /\ b.source = s
  BY <1>1 DEF BatchOf, Batch, State
<1>3. /\ output' = Append(output, b)
      /\ UNCHANGED <<fed, taken, slots, held, buffered, yielded, ended>>
  BY DEF Put, work
<1> HIDE DEF b
<1>4. /\ output' \in Seq(Batch) /\ n \in Nat
      /\ DOMAIN output = 1 .. Len(output) /\ DOMAIN output' = 1 .. n
      /\ \A k \in DOMAIN output : output'[k] = output[k]
      /\ output'[n] = b
  BY <1>1, <1>2, <1>3, AppendOf
<1>5. /\ threads' \in [Workers -> State] /\ ~Holds(t)' /\ threads'[t].at \in {"get", "parse"}
      /\ threads'[t].source = s
      /\ \A u \in Workers \ {t} : threads'[u] = threads[u]
  <2>1. threads \in [Workers -> State] /\ t \in Workers
    BY DEF IInv, PipelineTypeOK
  <2>2. ~threads[t].done => threads[t].next + 1 \in 0 .. MaxBatches - 1
    BY <1>1 DEF IInv, Placed, LastIsDone, State
  <2>3. CASE threads[t].done
    BY <1>1, <2>1, <2>3 DEF State, Put, Holds
  <2>4. CASE ~threads[t].done
    BY <1>1, <2>1, <2>2, <2>4 DEF State, Put, Holds
  <2> QED
    BY <2>3, <2>4
<1>6. PipelineTypeOK'
  BY <1>3, <1>4, <1>5 DEF IInv, PipelineTypeOK
<1>7. OneWorker' /\ LastIsDone'
  BY <1>1, <1>3, <1>5 DEF IInv, Placed, OneWorker, LastIsDone, Busy
<1>8. HeldByWorker'
  <2> SUFFICES ASSUME NEW u \in Workers, Holds(u)'
               PROVE  /\ threads'[u].source \in held'
                      /\ \A k \in DOMAIN output' : output'[k].source # threads'[u].source
                      /\ \A c \in buffered' : c.source # threads'[u].source
    BY DEF HeldByWorker
  <2>1. u # t /\ threads'[u] = threads[u] /\ Holds(u) /\ Busy(u)
    BY <1>5 DEF Holds, Busy
  <2>2. threads[u].source # s
    BY <1>1, <2>1 DEF IInv, Placed, OneWorker
  <2> QED
    BY <1>2, <1>3, <1>4, <2>1, <2>2 DEF IInv, Placed, HeldByWorker
<1>9. HeldInQueue'
  BY <1>1, <1>2, <1>3, <1>4 DEF IInv, Placed, HeldByWorker, HeldInQueue
<1>10. HeldInBuffer'
  BY <1>3 DEF IInv, Placed, HeldInBuffer
<1>11. Flying' = Flying
  <2>1. \A r : (\E k \in DOMAIN output' : output'[k].source = r)
               <=> r = s \/ (\E k \in DOMAIN output : output[k].source = r)
    BY <1>2, <1>4
  <2>2. \A r : (\E u \in Workers : threads[u].at = "put" /\ threads[u].source = r)
               <=> r = s \/ (\E u \in Workers : threads'[u].at = "put" /\ threads'[u].source = r)
    BY <1>1, <1>5
  <2> QED
    BY <1>1, <1>3, <2>1, <2>2, FlyingMember, FlyingMemberNext
<1>12. Pool'
  BY <1>3, <1>11, PoolSteps DEF IInv
<1> QED
  BY <1>6, <1>7, <1>8, <1>9, <1>10, <1>12 DEF IInv, Placed

LEMMA GetInv == ASSUME IInv, Get PROVE IInv'
<1> USE PipelineAssumption
<1> DEFINE h == Head(output)
<1>1. /\ output \in Seq(Batch) /\ output # <<>>
      /\ output' = Tail(output) /\ buffered' = buffered \cup {h}
      /\ UNCHANGED <<fed, taken, threads, slots, held, yielded, ended>>
  BY DEF IInv, PipelineTypeOK, Get, work
<1>2. /\ h \in Batch /\ h = output[1] /\ 1 \in DOMAIN output
      /\ output' \in Seq(Batch)
      /\ \A k \in DOMAIN output' : output'[k] = output[k + 1] /\ k + 1 \in DOMAIN output /\ k + 1 # 1
      /\ \A k \in DOMAIN output : k = 1 \/ (k - 1 \in DOMAIN output' /\ output'[k - 1] = output[k])
      /\ \A k \in DOMAIN output' : k \in Nat
  BY <1>1, TailOf
<1> HIDE DEF h
<1>3. PipelineTypeOK'
  BY <1>1, <1>2 DEF IInv, PipelineTypeOK
<1>4. OneWorker' /\ LastIsDone'
  BY <1>1 DEF IInv, Placed, OneWorker, LastIsDone, Busy
<1>5. HeldByWorker'
  BY <1>1, <1>2 DEF IInv, Placed, HeldByWorker, Holds
<1>6. HeldInQueue'
  <2>1. \A k \in DOMAIN output' : output'[k].source \in held'
    BY <1>1, <1>2 DEF IInv, Placed, HeldInQueue
  <2>2. \A j, k \in DOMAIN output' : output'[j].source = output'[k].source => j = k
    <3> SUFFICES ASSUME NEW j \in DOMAIN output', NEW k \in DOMAIN output',
                        output'[j].source = output'[k].source
                 PROVE  j = k
      OBVIOUS
    <3>1. j + 1 = k + 1
      BY <1>2 DEF IInv, Placed, HeldInQueue
    <3> QED
      BY <1>2, <3>1
  <2>3. \A k \in DOMAIN output' : \A b \in buffered' : b.source # output'[k].source
    BY <1>1, <1>2 DEF IInv, Placed, HeldInQueue
  <2> QED
    BY <2>1, <2>2, <2>3 DEF HeldInQueue
<1>7. HeldInBuffer'
  BY <1>1, <1>2 DEF IInv, Placed, HeldInBuffer, HeldInQueue
<1>8. Flying' = Flying
  <2>1. \A r : (\E k \in DOMAIN output : output[k].source = r) \/ (\E b \in buffered : b.source = r)
               <=> (\E k \in DOMAIN output' : output'[k].source = r) \/ (\E b \in buffered' : b.source = r)
    <3> SUFFICES ASSUME NEW r
                 PROVE  (\E k \in DOMAIN output : output[k].source = r) \/ (\E b \in buffered : b.source = r)
                        <=> (\E k \in DOMAIN output' : output'[k].source = r)
                            \/ (\E b \in buffered' : b.source = r)
      OBVIOUS
    <3>1. (\E k \in DOMAIN output : output[k].source = r)
          <=> h.source = r \/ (\E k \in DOMAIN output' : output'[k].source = r)
      BY <1>2
    <3>2. (\E b \in buffered' : b.source = r) <=> h.source = r \/ (\E b \in buffered : b.source = r)
      BY <1>1
    <3> QED
      BY <3>1, <3>2
  <2>2. \A r : r \in Flying' <=> r \in Flying
    BY <1>1, <2>1, FlyingMember, FlyingMemberNext
  <2> QED
    BY <2>2 DEF Flying
<1>9. Pool'
  BY <1>1, <1>8, PoolSteps DEF IInv
<1> QED
  BY <1>3, <1>4, <1>5, <1>6, <1>7, <1>9 DEF IInv, Placed

LEMMA YieldInv == ASSUME IInv, Yield PROVE IInv'
<1> USE PipelineAssumption
<1>1. PICK b \in buffered :
        /\ buffered' = buffered \ {b}
        /\ slots' = slots + 1
        /\ held' = held \ {b.source}
        /\ yielded' = Append(yielded, b)
  BY DEF Yield, Ready
<1>2. UNCHANGED <<fed, taken, threads, output, ended>>
  BY DEF Yield, work
<1> DEFINE s == b.source
<1>3. b \in Batch /\ s \in Sources /\ yielded \in Seq(Batch)
  BY DEF IInv, PipelineTypeOK, Batch
<1>4. s \in Flying
  BY <1>3, FlyingMember
<1>5. /\ \A c \in buffered' : c.source # s
      /\ \A k \in DOMAIN output : output[k].source # s
      /\ \A t \in Workers : Holds(t) => threads[t].source # s
  BY <1>1 DEF IInv, Placed, HeldInBuffer, HeldInQueue, HeldByWorker
<1>6. Flying' = Flying \ {s}
  <2>1. \A t \in Workers : threads[t].at = "put" => threads[t].source # s
    BY <1>5 DEF Holds
  <2>2. \A c : c \in buffered' <=> c \in buffered /\ c # b
    BY <1>1
  <2>3. \A c \in buffered : c.source # s => c \in buffered'
    BY <2>2
  <2> QED
    BY <1>2, <1>3, <1>5, <2>1, <2>2, <2>3, FlyingMember, FlyingMemberNext
<1>7. Pool'
  BY <1>1, <1>4, <1>6, PoolSteps DEF IInv
<1>8. PipelineTypeOK'
  <2>1. slots + 1 \in 0 .. Capacity
    <3>1. Cardinality(Flying) # 0
      BY <1>4, FlyingFinite, FS_EmptySet
    <3> QED
      BY <3>1, FlyingFinite DEF IInv, Pool, PipelineTypeOK
  <2>2. Append(yielded, b) \in Seq(Batch)
    BY <1>3, AppendOf
  <2> QED
    BY <1>1, <1>2, <2>1, <2>2 DEF IInv, PipelineTypeOK
<1>9. OneWorker' /\ LastIsDone'
  BY <1>2 DEF IInv, Placed, OneWorker, LastIsDone, Busy
<1>10. HeldByWorker'
  BY <1>1, <1>2, <1>5 DEF IInv, Placed, HeldByWorker, Holds
<1>11. HeldInQueue' /\ HeldInBuffer'
  BY <1>1, <1>2, <1>5 DEF IInv, Placed, HeldInQueue, HeldInBuffer
<1> QED
  BY <1>7, <1>8, <1>9, <1>10, <1>11 DEF IInv, Placed

LEMMA EndInv == IInv /\ End => IInv'
<1> SUFFICES ASSUME IInv, End PROVE IInv'
  OBVIOUS
<1>1. ended' \in BOOLEAN
  BY Zenon DEF End
<1>2. PipelineTypeOK'
  BY <1>1 DEF IInv, PipelineTypeOK, End, work
<1>3. Placed' /\ Pool'
  BY DEF IInv, End, work, Placed, OneWorker, LastIsDone, HeldByWorker, HeldInQueue, HeldInBuffer,
         Busy, Holds, Pool, Flying, Putting, Queued, Waiting
<1> QED
  BY <1>2, <1>3 DEF IInv

LEMMA InvStep == IInv /\ [Next]_vars => IInv'
<1> SUFFICES ASSUME IInv, [Next]_vars PROVE IInv'
  OBVIOUS
<1>1. CASE Feed
  BY <1>1, FeedInv
<1>2. ASSUME NEW t \in Workers, Work(t) PROVE IInv'
  BY <1>2, TakeInv, ParseInv, AcquireSourceInv, AcquireSlotInv, PutInv DEF Work
<1>3. CASE Get
  BY <1>3, GetInv
<1>4. CASE Yield
  BY <1>4, YieldInv
<1>5. CASE End
  BY <1>5, EndInv
<1>6. CASE UNCHANGED vars
  BY <1>6, InvStutter
<1> QED
  BY <1>1, <1>2, <1>3, <1>4, <1>5, <1>6 DEF Next

LEMMA Invariance == Spec => []IInv
BY InvInit, InvStep, PTL DEF Spec

-----------------------------------------------------------------------------
(* What follows from the invariant. *)

\* The queue is shorter than the pool as long as a worker still holds a slot.
LEMMA QueueShort ==
    ASSUME IInv, NEW t \in Workers, threads[t].at = "put"
    PROVE  Len(output) < Capacity
<1> USE PipelineAssumption
<1> DEFINE s == threads[t].source
           D == 1 .. Len(output)
           T == Flying \ {s}
           f == [k \in D |-> output[k].source]
<1>1. /\ s \in Sources /\ output \in Seq(Batch) /\ Len(output) \in Nat
      /\ DOMAIN output = D /\ slots \in Nat
  BY DEF IInv, Placed, OneWorker, Busy, PipelineTypeOK
<1>2. s \in Flying
  BY <1>1, FlyingMember
<1>3. IsFiniteSet(T) /\ Cardinality(T) = Cardinality(Flying) - 1
  BY <1>2, FlyingFinite, FS_RemoveElement
<1>4. \A k \in D : output[k].source \in T
  <2>1. \A k \in D : output[k].source \in Sources
    <3>1. \A k \in D : output[k] \in Batch
      BY <1>1
    <3>2. \A b \in Batch : b.source \in Sources
      BY DEF Batch
    <3> QED
      BY <3>1, <3>2
  <2>2. \A k \in D : output[k].source # s
    BY <1>1 DEF IInv, Placed, HeldByWorker, Holds
  <2> QED
    BY <1>1, <2>1, <2>2, FlyingMember
<1>5. f \in Injection(D, T)
  BY <1>1, <1>4 DEF IInv, Placed, HeldInQueue, Injection, IsInjective
<1>6. Cardinality(D) <= Cardinality(T)
  BY <1>3, <1>5, FS_Injection
<1>7. Cardinality(D) = Len(output)
  BY <1>1, FS_Interval
<1> QED
  BY <1>1, <1>3, <1>6, <1>7, FlyingFinite DEF IInv, Pool

\* A set whose elements are all the same has at most one.
LEMMA AtMostOne ==
    ASSUME NEW S, \A x, y \in S : x = y
    PROVE  Cardinality(S) \in {0, 1} /\ (S = {} => Cardinality(S) = 0)
<1>1. CASE S = {}
  BY <1>1, FS_EmptySet
<1>2. CASE S # {}
  <2>1. PICK x \in S : S = {x}
    BY <1>2
  <2> QED
    BY <1>2, <2>1, FS_Singleton
<1> QED
  BY <1>1, <1>2

LEMMA OneFlies == ASSUME IInv, NEW s \in Sources PROVE OneInFlight(s)
<1>1. /\ \A t, u \in Putting(s) : t = u
      /\ \A j, k \in Queued(s) : j = k
      /\ \A b, c \in Waiting(s) : b = c
  BY DEF IInv, Placed, OneWorker, Busy, HeldInQueue, HeldInBuffer, Putting, Queued, Waiting
<1>2. /\ Putting(s) # {} => Queued(s) = {} /\ Waiting(s) = {}
      /\ Queued(s) # {} => Waiting(s) = {}
  BY DEF IInv, Placed, HeldByWorker, Holds, HeldInQueue, Putting, Queued, Waiting
<1>3. /\ Cardinality(Putting(s)) \in {0, 1} /\ (Putting(s) = {} => Cardinality(Putting(s)) = 0)
      /\ Cardinality(Queued(s)) \in {0, 1} /\ (Queued(s) = {} => Cardinality(Queued(s)) = 0)
      /\ Cardinality(Waiting(s)) \in {0, 1} /\ (Waiting(s) = {} => Cardinality(Waiting(s)) = 0)
  BY <1>1, AtMostOne
<1> QED
  BY <1>2, <1>3 DEF OneInFlight

(* Every reachable state of the parser's threads has values of its types.  *)
THEOREM PipelineTyped == Spec => []PipelineTypeOK
<1>1. IInv => PipelineTypeOK
  BY DEF IInv
<1> QED
  BY <1>1, Invariance, PTL

(* No source ever has two batches in flight, no release exceeds the pool,  *)
(* and no worker with a slot waits for the output queue (parser.py,        *)
(* source_slots, reorder_slots).                                           *)
THEOREM SlotsAreAccounted == Spec => []SlotsAccounted
<1>1. IInv => SlotsAccounted
  BY OneFlies, QueueShort DEF SlotsAccounted, IInv, Pool
<1> QED
  BY <1>1, Invariance, PTL

(* With at least as many slots as sources, no worker ever waits for a slot *)
(* of the pool, however the workers are scheduled: the queue that orders   *)
(* the batches cannot stop the source whose turn it is (parser.py,         *)
(* reorder_slots).                                                         *)
THEOREM PoolIsEnough == Spec => []PoolSuffices
<1>1. ASSUME IInv, N <= Capacity, NEW t \in Workers, threads[t].at = "slot"
      PROVE  slots > 0
  <2> DEFINE s == threads[t].source
  <2>1. s \in Sources /\ s \notin Flying
    BY <1>1, SlotNotFlying
  <2>2. Flying \in SUBSET (Sources \ {s})
    BY <2>1 DEF Flying
  <2>3. IsFiniteSet(Sources \ {s}) /\ Cardinality(Sources \ {s}) = N - 1
    BY <2>1, FlyingFinite, FS_RemoveElement
  <2>4. Cardinality(Flying) <= N - 1
    BY <2>2, <2>3, FS_Subset
  <2> QED
    BY <1>1, <2>4, FlyingFinite, PipelineAssumption DEF IInv, Pool
<1>2. IInv => PoolSuffices
  BY <1>1 DEF PoolSuffices
<1> QED
  BY <1>2, Invariance, PTL

-----------------------------------------------------------------------------
(* The caller sees the sequential order. *)

LEMMA SameOrder ==
    /\ Order!NextSource(yielded) = Sequential!NextSource(yielded)
    /\ Order!NextIndex(yielded) = Sequential!NextIndex(yielded)
BY DEF Order!NextSource, Order!NextIndex, Sequential!NextSource, Sequential!NextIndex

LEMMA StepMaps ==
    ASSUME IInv, [Next]_vars
    PROVE  [Sequential!Next]_<<yielded, ended>>
<1>1. CASE Yield
  <2>1. PICK b \in buffered :
          /\ b.source = Order!NextSource(yielded) /\ b.index = Order!NextIndex(yielded)
          /\ yielded' = Append(yielded, b) /\ ended' = ended
    BY <1>1 DEF Yield, Ready, Expected
  <2>2. /\ b = [source |-> b.source, index |-> b.index, done |-> b.done]
        /\ b.source \in 1 .. N /\ b.done \in BOOLEAN
    BY DEF IInv, PipelineTypeOK, Batch, Sources
  <2>3. Sequential!NextSource(yielded) <= N
    BY <2>1, <2>2, SameOrder, PipelineAssumption
  <2>4. yielded' = Append(yielded, [source |-> Sequential!NextSource(yielded),
                                    index |-> Sequential!NextIndex(yielded), done |-> b.done])
    BY <2>1, <2>2, SameOrder
  <2> QED
    BY <2>1, <2>2, <2>3, <2>4 DEF Sequential!Next, Sequential!Yield
<1>2. CASE End
  <2>1. Order!NextSource(yielded) \in 1 .. N + 1
    <3> DEFINE b == yielded[Len(yielded)]
    <3>1. yielded # <<>> => b \in Batch
      BY DEF IInv, PipelineTypeOK
    <3>2. yielded # <<>> => b.source \in 1 .. N
      BY <3>1 DEF Batch, Sources
    <3> HIDE DEF b
    <3>3. Order!NextSource(yielded) = IF yielded = <<>> THEN 1
                                      ELSE IF b.done THEN b.source + 1 ELSE b.source
      BY DEF Order!NextSource, b
    <3> QED
      BY <3>2, <3>3, PipelineAssumption
  <2>2. Sequential!NextSource(yielded) = N + 1
    BY <1>2, <2>1, SameOrder, PipelineAssumption DEF End, Expected
  <2> QED
    BY <1>2, <2>2 DEF End, Sequential!Next, Sequential!End
<1>3. CASE ~Yield /\ ~End
  BY <1>3 DEF Next, Feed, Work, Take, Parse, Fail, AcquireSource, AcquireSlot, Put, Get, vars
<1> QED
  BY <1>1, <1>2, <1>3

(* Whatever the workers do, the caller is given the batches of the sources *)
(* in their sequential order, and the iteration ends only after all of     *)
(* them (parser.py, parse_sources).                                        *)
THEOREM CallerSeesSequence == Spec => ImplementsSequential
<1>1. Init => Sequential!Init
  BY DEF Init, Sequential!Init
<1> QED
  BY <1>1, StepMaps, Invariance, PTL DEF Spec, ImplementsSequential, Sequential!Spec

=============================================================================

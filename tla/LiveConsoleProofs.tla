-------------------------- MODULE LiveConsoleProofs --------------------------
(***************************************************************************)
(* Proofs about the journal of the stream, for any number of workers,      *)
(* consoles and publications and any retention: it holds the last          *)
(* announcements under consecutive ids, and none of them twice.            *)
(***************************************************************************)
EXTENDS LiveConsoleProperties, TLAPS

-----------------------------------------------------------------------------
(* The invariant: what is read of the cutover record is a publication, and *)
(* the journal is a suffix of what was announced.                          *)

Publication == Nat \cup {None}

JournalTyped ==
    /\ promoted \in Nat
    /\ control \in [gen : Nat, pub : Publication, rollback : [gen : Nat, pub : Publication]]
    /\ workers \in [Workers -> [at : {"idle", "promoted", "read"}, gen : Nat, pub : Publication]]
    /\ announced \in Seq(Publication)

IInv == JournalTyped /\ JournalIsSuffix /\ AnnouncedOnce

-----------------------------------------------------------------------------
(* The journal's operators. *)

\* The latest id counts the announcements, also when all of them are gone:
\* an empty journal is one nothing was ever announced in.
LEMMA LatestIsCount ==
    ASSUME JournalTyped, JournalIsSuffix
    PROVE  LatestId(events) = Len(announced)
<1> DEFINE n == Len(announced)
<1>1. n \in Nat /\ DOMAIN announced = 1 .. n
  BY DEF JournalTyped
<1>2. CASE n = 0
  <2>1. Ids(events) = {}
    BY <1>1, <1>2 DEF JournalIsSuffix
  <2>2. events = {}
    BY <2>1 DEF Ids
  <2> QED
    BY <2>2, <1>2 DEF LatestId
<1>3. CASE n # 0
  <2>1. n \in Ids(events) /\ \A k \in Ids(events) : k \in Nat /\ k <= n
    BY <1>1, <1>3, JournalAssumption DEF JournalIsSuffix
  <2>2. events # {}
    BY <2>1 DEF Ids
  <2>3. Max(Ids(events)) = n
    BY <2>1, <1>1 DEF Max
  <2> QED
    BY <2>2, <2>3 DEF LatestId
<1> QED
  BY <1>2, <1>3

\* An announcement that is made takes the next id, and one whose key is there
\* changes nothing.
LEMMA AppendedKeeps ==
    ASSUME IInv, NEW pub \in Publication, NEW gen,
           events' = Appended(events, pub, gen),
           announced' = IF events' = events THEN announced ELSE Append(announced, pub)
    PROVE  announced' \in Seq(Publication) /\ JournalIsSuffix' /\ AnnouncedOnce'
<1> DEFINE n  == Len(announced)
           id == n + 1
           e  == [id |-> id, pub |-> pub, gen |-> gen]
<1>1. /\ n \in Nat /\ DOMAIN announced = 1 .. n
      /\ LatestId(events) = n /\ JournalIsSuffix /\ AnnouncedOnce
      /\ announced \in Seq(Publication)
  BY LatestIsCount DEF IInv, JournalTyped
<1>2. Retention \in Nat /\ Retention > 0
  BY JournalAssumption
<1>3. CASE Announced(events, pub)
  <2>1. events' = events /\ announced' = announced
    BY <1>3 DEF Appended
  <2> QED
    BY <2>1, <1>1 DEF JournalIsSuffix, AnnouncedOnce, Ids
<1>4. CASE ~Announced(events, pub)
  <2>1. events' = {d \in events \cup {e} : d.id > id - Retention}
    BY <1>1, <1>4 DEF Appended
  <2>2. \A d \in events : d.id \in 1 .. n /\ d.pub = announced[d.id]
    BY <1>1 DEF JournalIsSuffix, Ids
  <2>3. e \in events' /\ e \notin events
    BY <2>1, <2>2, <1>1, <1>2
  <2>4. announced' = Append(announced, pub)
    BY <2>3
  <2>5. /\ announced' \in Seq(Publication)
        /\ Len(announced') = id /\ DOMAIN announced' = 1 .. id
        /\ announced'[id] = pub
        /\ \A k \in 1 .. n : announced'[k] = announced[k]
    BY <2>4, <1>1
  <2>6. JournalIsSuffix'
    <3>1. ASSUME NEW k \in Ids(events')
          PROVE  k \in 1 .. id /\ k > id - Retention
      BY <3>1, <2>1, <2>2, <1>1 DEF Ids
    <3>2. ASSUME NEW k \in 1 .. id, k > id - Retention
          PROVE  k \in Ids(events')
      <4>1. CASE k = id
        BY <4>1, <2>3 DEF Ids
      <4>2. CASE k # id
        <5>1. k \in DOMAIN announced /\ k > n - Retention
          BY <4>2, <3>2, <1>1, <1>2
        <5>2. PICK d \in events : d.id = k
          BY <5>1, <1>1 DEF JournalIsSuffix, Ids
        <5>3. d \in events'
          BY <5>2, <3>2, <2>1
        <5> QED
          BY <5>2, <5>3 DEF Ids
      <4> QED
        BY <4>1, <4>2
    <3>3. ASSUME NEW d \in events'
          PROVE  d.pub = announced'[d.id]
      BY <3>3, <2>1, <2>2, <2>5
    <3> QED
      BY <3>1, <3>2, <3>3, <2>5 DEF JournalIsSuffix
  <2>7. AnnouncedOnce'
    <3> SUFFICES ASSUME NEW j \in 1 .. id, NEW k \in 1 .. id, j < k,
                        announced'[j] = announced'[k]
                 PROVE  k - j > Retention
      BY <2>5 DEF AnnouncedOnce
    <3>1. CASE k = id
      <4>1. j \in 1 .. n /\ announced[j] = pub
        BY <3>1, <2>5, <1>1
      <4>2. ~(j > n - Retention)
        <5> SUFFICES ASSUME j > n - Retention PROVE FALSE
          OBVIOUS
        <5>1. PICK d \in events : d.id = j
          BY <4>1, <1>1 DEF JournalIsSuffix, Ids
        <5>2. d.pub = pub
          BY <5>1, <2>2, <4>1
        <5> QED
          BY <5>2, <1>4 DEF Announced
      <4> QED
        BY <4>1, <4>2, <3>1, <1>1, <1>2
    <3>2. CASE k # id
      <4>1. j \in DOMAIN announced /\ k \in DOMAIN announced /\ announced[j] = announced[k]
        BY <3>2, <2>5, <1>1
      <4> QED
        BY <4>1, <1>1 DEF AnnouncedOnce
    <3> QED
      BY <3>1, <3>2
  <2> QED
    BY <2>5, <2>6, <2>7
<1> QED
  BY <1>3, <1>4

-----------------------------------------------------------------------------
(* Initially, and one step. *)

LEMMA InvInit == Init => IInv
<1> SUFFICES ASSUME Init PROVE IInv
  OBVIOUS
<1>1. PICK n \in {0, 1} : /\ promoted = n
                          /\ control = Published(n)
                          /\ events = IF n = 0 THEN {} ELSE {[id |-> 1, pub |-> 1, gen |-> 1]}
                          /\ announced = IF n = 0 THEN <<>> ELSE <<1>>
  BY DEF Init
<1>2. JournalTyped
  <2>1. workers \in [Workers -> [at : {"idle", "promoted", "read"}, gen : Nat, pub : Publication]]
    <3>1. workers = [w \in Workers |-> Idle]
      BY Zenon DEF Init
    <3>2. Idle \in [at : {"idle", "promoted", "read"}, gen : Nat, pub : Publication]
      BY DEF Idle, Publication
    <3> QED
      BY <3>1, <3>2
  <2>2. None \in Publication /\ n \in Publication
    BY DEF Publication
  <2>3. promoted \in Nat /\ control \in [gen : Nat, pub : Publication,
                                          rollback : [gen : Nat, pub : Publication]]
    BY <1>1, <2>2 DEF Published, Nothing
  <2>4. announced \in Seq(Publication)
    <3>1. CASE n = 0
      <4>1. announced = <<>>
        BY <1>1, <3>1
      <4>2. <<>> \in Seq(Publication)
        OBVIOUS
      <4> QED
        BY <4>1, <4>2
    <3>2. CASE n = 1
      <4>1. announced = <<1>>
        BY <1>1, <3>2
      <4>2. 1 \in Publication
        BY DEF Publication
      <4>3. \A x \in Publication : <<x>> \in Seq(Publication)
        OBVIOUS
      <4> QED
        BY <4>1, <4>2, <4>3
    <3> QED
      BY <3>1, <3>2
  <2> QED
    BY <2>1, <2>3, <2>4 DEF JournalTyped
<1>3. JournalIsSuffix
  <2>1. CASE n = 0
    <3>1. events = {} /\ announced = <<>>
      BY <1>1, <2>1
    <3> QED
      BY <3>1 DEF JournalIsSuffix, Ids
  <2>2. CASE n = 1
    <3>1. events = {[id |-> 1, pub |-> 1, gen |-> 1]} /\ announced = <<1>>
      BY <1>1, <2>2
    <3>2. Ids(events) = {1}
      BY <3>1 DEF Ids
    <3>3. {k \in DOMAIN announced : k > Len(announced) - Retention} = {1}
      BY <3>1, JournalAssumption
    <3> QED
      BY <3>1, <3>2, <3>3 DEF JournalIsSuffix
  <2> QED
    BY <2>1, <2>2
<1>4. AnnouncedOnce
  BY <1>1 DEF AnnouncedOnce
<1> QED
  BY <1>2, <1>3, <1>4 DEF IInv

\* The journal and what was announced change together.
LEMMA SameJournal ==
    ASSUME JournalIsSuffix, AnnouncedOnce, UNCHANGED <<events, announced>>
    PROVE  JournalIsSuffix' /\ AnnouncedOnce'
BY DEF JournalIsSuffix, AnnouncedOnce, Ids

LEMMA PromoteKeeps == ASSUME IInv, NEW w \in Workers, Promote(w) PROVE IInv'
<1>1. JournalTyped'
  BY DEF IInv, JournalTyped, Promote, Publication
<1> QED
  BY <1>1, SameJournal DEF IInv, Promote

LEMMA ReadPublicationKeeps == ASSUME IInv, NEW w \in Workers, ReadPublication(w) PROVE IInv'
<1>1. JournalTyped'
  BY DEF IInv, JournalTyped, ReadPublication, server
<1> QED
  BY <1>1, SameJournal DEF IInv, ReadPublication, server

LEMMA AnnounceKeeps == ASSUME IInv, NEW w \in Workers, Announce(w) PROVE IInv'
<1>1. workers[w].pub \in Publication
  BY DEF IInv, JournalTyped
<1>2. announced' \in Seq(Publication) /\ JournalIsSuffix' /\ AnnouncedOnce'
  BY <1>1, AppendedKeeps DEF Announce
<1>3. JournalTyped'
  BY <1>2 DEF IInv, JournalTyped, Announce, Idle, Publication
<1> QED
  BY <1>2, <1>3 DEF IInv

LEMMA GiveUpKeeps == ASSUME IInv, NEW w \in Workers, GiveUp(w) PROVE IInv'
<1>1. JournalTyped'
  BY DEF IInv, JournalTyped, GiveUp, server, Idle, Publication
<1> QED
  BY <1>1, SameJournal DEF IInv, GiveUp, server

LEMMA RollbackKeeps == ASSUME IInv, Rollback PROVE IInv'
<1>1. JournalTyped'
  BY DEF IInv, JournalTyped, Rollback
<1> QED
  BY <1>1, SameJournal DEF IInv, Rollback

\* A console only reads.
LEMMA ConsoleReads ==
    ASSUME NEW c \in Consoles,
           Follow(c) \/ AskStatus(c) \/ LosePoll(c) \/ RefusePoll(c) \/ FailStatus(c)
    PROVE  UNCHANGED <<server, workers>>
BY DEF Follow, AnswerStatus, HandleStatus, Connect, Poll, ReadBounds, ReadLatest, ReadPage,
       HandleSnapshot, HandleEvents, AskStatus, LosePoll, RefusePoll, FailStatus, Step

LEMMA NothingAnnounced == ASSUME IInv, UNCHANGED <<server, workers>> PROVE IInv'
BY SameJournal DEF IInv, JournalTyped, server

LEMMA InvNext == IInv /\ [Next]_vars => IInv'
<1> SUFFICES ASSUME IInv, [Next]_vars PROVE IInv'
  OBVIOUS
<1>1. CASE \E w \in Workers : Promote(w) \/ Work(w) \/ GiveUp(w)
  BY <1>1, PromoteKeeps, ReadPublicationKeeps, AnnounceKeeps, GiveUpKeeps DEF Work
<1>2. CASE Rollback
  BY <1>2, RollbackKeeps
<1>3. CASE \E c \in Consoles :
             Follow(c) \/ AskStatus(c) \/ LosePoll(c) \/ RefusePoll(c) \/ FailStatus(c)
  BY <1>3, ConsoleReads, NothingAnnounced
<1>4. CASE UNCHANGED vars
  BY <1>4, NothingAnnounced DEF vars
<1> QED
  BY <1>1, <1>2, <1>3, <1>4 DEF Next

LEMMA InvAlways == Spec => []IInv
BY InvInit, InvNext, PTL DEF Spec

-----------------------------------------------------------------------------
(* The journal holds the last Retention announcements under the ids they   *)
(* were given in order, whoever appends (live/journal.py, append).         *)
THEOREM JournalHoldsSuffix == Spec => []JournalIsSuffix
BY InvAlways, PTL DEF IInv

(* Among the announcements that the journal has held at one time, no       *)
(* publication is there twice (live/journal.py, event_key).                *)
THEOREM AnnouncementsAreNew == Spec => []AnnouncedOnce
BY InvAlways, PTL DEF IInv

=============================================================================

----------------------------- MODULE LiveConsole -----------------------------
(***************************************************************************)
(* Publications of the released kernel as the console in a browser sees    *)
(* them: workers promote a publication and announce it afterwards, a user  *)
(* rolls back, and each console follows the stream of events and reads the *)
(* status again when something is announced.                               *)
(*                                                                         *)
(* A request of a console takes several steps: it is sent, answered by the *)
(* server, and its answer is handled.  The server has a thread for each    *)
(* request, so two requests of a console are answered, and their answers   *)
(* arrive, in any order.  Only the stream reads the database more than     *)
(* once for one answer.                                                    *)
(***************************************************************************)
EXTENDS GenerationJournal, Integers, Sequences

CONSTANTS
    Workers,           \* refresh workers
    Consoles,          \* open browser tabs
    MaxPublication,    \* publications that are promoted
    Rollbacks,         \* when a user rolls back: "none", "any", or only from the "last"
                       \* publication, after it was announced and no worker is left
    MaxAsked,          \* refreshes a user asks a console for
    MaxLost,           \* answers of the stream that are lost
    MaxFailures,       \* requests that are answered with an error
    MaxDisturbances,   \* the three of them together
    Empty              \* whether a console may open before anything is published

ASSUME LiveAssumption == Rollbacks \in {"none", "last", "any"}

VARIABLES
    control,      \* cutover_control: the active publication and its rollback
    events,       \* live_events
    workers,      \* what a worker promoted and has not announced yet
    consoles,     \* state of each tab
    promoted,     \* publications so far; each is named by its number
    activations,  \* number of changes of the active publication
    announced,    \* publications in the order they were announced
    faults        \* what was asked by a user and what failed so far; "blurred" from when
                  \* a rollback comes while a publication is yet to be announced, or
                  \* a publication comes after a rollback

server == <<control, events, promoted, activations, announced>>
vars   == <<server, workers, consoles, faults>>

Nothing == [gen |-> 0, pub |-> None]

-----------------------------------------------------------------------------
(* Workers and the user. *)

Idle == [at |-> "idle", gen |-> 0, pub |-> None]

\* promote_cutover of a generation that follows the active one; in place the
\* rollback stays what it was.
Promote(w) ==
    /\ workers[w].at = "idle"
    /\ promoted < MaxPublication
    /\ \E inPlace \in BOOLEAN :
         /\ inPlace => control.pub # None
         /\ control' = [gen |-> control.gen + 1, pub |-> promoted + 1,
                        rollback |-> IF inPlace \/ control.pub = None THEN control.rollback
                                     ELSE [gen |-> control.gen, pub |-> control.pub]]
    /\ promoted' = promoted + 1
    /\ activations' = activations + 1
    /\ faults' = [faults EXCEPT !.blurred = @ \/ faults.rolledBack]
    /\ workers' = [workers EXCEPT ![w] = [at |-> "promoted", gen |-> control.gen + 1, pub |-> None]]
    /\ UNCHANGED <<events, announced, consoles>>

\* _publish_generation: the publication is the one that is active by then.
ReadPublication(w) ==
    /\ workers[w].at = "promoted"
    /\ workers' = [workers EXCEPT ![w].at = "read", ![w].pub = control.pub]
    /\ UNCHANGED <<server, consoles, faults>>

Announce(w) ==
    /\ workers[w].at = "read"
    /\ events' = Appended(events, workers[w].pub, workers[w].gen)
    /\ announced' = IF events' = events THEN announced ELSE Append(announced, workers[w].pub)
    /\ workers' = [workers EXCEPT ![w] = Idle]
    /\ UNCHANGED <<control, promoted, activations, consoles, faults>>

\* The process dies, or the journal cannot be written: nothing is announced.
GiveUp(w) ==
    /\ workers[w].at # "idle"
    /\ workers' = [workers EXCEPT ![w] = Idle]
    /\ UNCHANGED <<server, consoles, faults>>

\* What is active was announced, and nothing else is about to be.
Settled == LatestPublication(events) = control.pub /\ \A w \in Workers : workers[w].at = "idle"

\* rollback_cutover: no worker and no journal is involved.
Rollback ==
    /\ Rollbacks # "none"
    /\ Rollbacks = "last" => promoted = MaxPublication /\ Settled
    /\ control.rollback.pub # None
    /\ ~faults.rolledBack
    /\ control' = [control EXCEPT !.gen = control.rollback.gen, !.pub = control.rollback.pub,
                                  !.rollback = [gen |-> control.gen, pub |-> control.pub]]
    /\ activations' = activations + 1
    /\ faults' = [faults EXCEPT !.rolledBack = TRUE,
                                !.blurred = ~Settled]
    /\ UNCHANGED <<events, promoted, announced, workers, consoles>>

-----------------------------------------------------------------------------
(* A console.  "asked" are its status requests, oldest first; "answer" is  *)
(* None until the server has read the status.  "status" is what it shows,  *)
(* "told" the newest status that it was ever shown.                        *)

NoPoll  == [at |-> "none", gen |-> 0, pub |-> None, time |-> 0, latestPub |-> None,
            bounds |-> [earliest |-> None, latest |-> 0, gen |-> 0], page |-> {}]
Ask(then) == [then |-> then, answer |-> None]

\* boot: the status first.
Opened == [status |-> Nothing, told |-> [pub |-> None, time |-> 0], seen |-> {}, source |-> "none", last |-> None,
           poll |-> NoPoll, asked |-> <<Ask("connect")>>, connecting |-> FALSE]

Disturbed == faults.asked + faults.lost + faults.failed = MaxDisturbances

Step(c, state) == /\ consoles' = [consoles EXCEPT ![c] = state]
                  /\ UNCHANGED <<server, workers>>

\* load_publication_snapshot: one transaction.
AnswerStatus(c) ==
    \E k \in DOMAIN consoles[c].asked :
      /\ consoles[c].asked[k].answer = None
      /\ Step(c, [consoles[c] EXCEPT !.asked[k].answer =
                   [gen |-> control.gen, pub |-> control.pub, time |-> activations]])
      /\ UNCHANGED faults

Without(seq, k) == SubSeq(seq, 1, k - 1) \o SubSeq(seq, k + 1, Len(seq))

\* refreshStatus and renderCurrentRoute, whatever they were called for: what arrives
\* last is shown, though it may be older than what is shown already.
HandleStatus(c) ==
    LET con == consoles[c]
    IN  \E k \in DOMAIN con.asked :
          LET answer == con.asked[k].answer
          IN  /\ answer # None
              /\ Step(c, [con EXCEPT !.status = [gen |-> answer.gen, pub |-> answer.pub],
                                     !.told = IF answer.time < @.time THEN @
                                              ELSE [pub |-> answer.pub, time |-> answer.time],
                                     !.asked = Without(con.asked, k),
                                     !.connecting = @ \/ con.asked[k].then = "connect"])
              /\ UNCHANGED faults

\* connectLive, after the route was rendered.  Without a generation there is
\* nothing to follow.
Connect(c) ==
    LET con == consoles[c]
    IN  /\ con.connecting
        /\ Step(c, IF con.source # "none" \/ con.status.gen = 0
                   THEN [con EXCEPT !.connecting = FALSE]
                   ELSE [con EXCEPT !.connecting = FALSE, !.source = "open", !.last = None,
                                    !.seen = @ \cup {con.status.pub}])
        /\ UNCHANGED faults

\* startRefresh reads the status when its job has ended.
AskStatus(c) ==
    /\ faults.asked < MaxAsked /\ ~Disturbed
    /\ Step(c, [consoles[c] EXCEPT !.asked = Append(@, Ask("nothing"))])
    /\ faults' = [faults EXCEPT !.asked = @ + 1]

\* The browser opens the stream, with the last id it was sent, and the server
\* reads the active publication, ...
Poll(c) ==
    /\ consoles[c].source = "open" /\ consoles[c].poll.at = "none"
    /\ Step(c, [consoles[c] EXCEPT !.poll = [NoPoll EXCEPT !.at = "bounds", !.gen = control.gen,
                                               !.pub = control.pub, !.time = activations]])
    /\ UNCHANGED faults

\* ... then the three parts of the replay.
ReadBounds(c) ==
    /\ consoles[c].poll.at = "bounds"
    /\ Step(c, [consoles[c] EXCEPT !.poll.bounds = Bounds(events), !.poll.at = "latest"])
    /\ UNCHANGED faults

ReadLatest(c) ==
    /\ consoles[c].poll.at = "latest"
    /\ Step(c, [consoles[c] EXCEPT !.poll.latestPub = LatestPublication(events), !.poll.at = "page"])
    /\ UNCHANGED faults

ReadPage(c) ==
    /\ consoles[c].poll.at = "page"
    /\ Step(c, [consoles[c] EXCEPT !.poll.page = PageOf(events, consoles[c].last),
                                   !.poll.at = "sent"])
    /\ UNCHANGED faults

Gap(con) == SnapshotRequired(con.last, con.poll.bounds, con.poll.latestPub,
                             con.poll.gen, con.poll.pub)

\* The handler of snapshot_required: the stream is opened again afterwards.
HandleSnapshot(c) ==
    LET con == consoles[c]
    IN  /\ con.poll.at = "sent" /\ Gap(con)
        /\ Step(c, [con EXCEPT !.poll = NoPoll, !.source = "none", !.last = None,
                               !.asked = Append(@, Ask("connect"))])
        /\ UNCHANGED faults

\* Events that a console has not shown yet.
Fresh(con) == {e \in con.poll.page : e.gen > con.status.gen /\ e.pub \notin con.seen}

\* Mutant: a request that is under way already is taken to be enough.
MutHandleEvents(c) ==
    LET con == consoles[c]
    IN  /\ con.poll.at = "sent" /\ ~Gap(con)
        /\ Step(c, [con EXCEPT
                      !.poll = NoPoll,
                      !.last = IF con.poll.page = {} THEN @ ELSE LatestId(con.poll.page),
                      !.seen = @ \cup {e.pub : e \in Fresh(con)},
                      !.asked = IF Fresh(con) # {} /\ @ = <<>> THEN <<Ask("nothing")>> ELSE @])
        /\ UNCHANGED faults

\* The handlers of generation_committed: each event that is news asks for the
\* status.  A page without events is a heartbeat.
HandleEvents(c) ==
    LET con == consoles[c]
    IN  /\ con.poll.at = "sent" /\ ~Gap(con)
        /\ Step(c, [con EXCEPT
                      !.poll = NoPoll,
                      !.last = IF con.poll.page = {} THEN @ ELSE LatestId(con.poll.page),
                      !.seen = @ \cup {e.pub : e \in Fresh(con)},
                      !.asked = @ \o [k \in 1 .. Cardinality(Fresh(con)) |-> Ask("nothing")]])
        /\ UNCHANGED faults

\* The answer is lost, and the browser tries again.
LosePoll(c) ==
    /\ faults.lost < MaxLost /\ ~Disturbed /\ consoles[c].poll.at # "none"
    /\ Step(c, [consoles[c] EXCEPT !.poll = NoPoll])
    /\ faults' = [faults EXCEPT !.lost = @ + 1]

\* An answer that is no stream ends the EventSource for good.
RefusePoll(c) ==
    /\ faults.failed < MaxFailures /\ ~Disturbed /\ consoles[c].poll.at # "none"
    /\ Step(c, [consoles[c] EXCEPT !.poll = NoPoll, !.source = "dead"])
    /\ faults' = [faults EXCEPT !.failed = @ + 1]

\* fetch raises, and what should have followed is not done.
FailStatus(c) ==
    /\ faults.failed < MaxFailures /\ ~Disturbed
    /\ \E k \in DOMAIN consoles[c].asked :
         Step(c, [consoles[c] EXCEPT !.asked = Without(@, k)])
    /\ faults' = [faults EXCEPT !.failed = @ + 1]

-----------------------------------------------------------------------------
Published(n) == [gen |-> n, pub |-> IF n = 0 THEN None ELSE n, rollback |-> Nothing]

Init ==
    /\ \E n \in {0, 1} :
         /\ n = 0 => Empty
         /\ promoted = n
         /\ control = Published(n)
         /\ events = IF n = 0 THEN {} ELSE {[id |-> 1, pub |-> 1, gen |-> 1]}
         /\ announced = IF n = 0 THEN <<>> ELSE <<1>>
    /\ workers = [w \in Workers |-> Idle]
    /\ consoles = [c \in Consoles |-> Opened]
    /\ activations = 0
    /\ faults = [asked |-> 0, lost |-> 0, failed |-> 0, rolledBack |-> FALSE, blurred |-> FALSE]

Work(w) == ReadPublication(w) \/ Announce(w)

Follow(c) ==
    \/ AnswerStatus(c) \/ HandleStatus(c) \/ Connect(c)
    \/ Poll(c) \/ ReadBounds(c) \/ ReadLatest(c) \/ ReadPage(c)
    \/ HandleSnapshot(c) \/ HandleEvents(c)

Next ==
    \/ \E w \in Workers : Promote(w) \/ Work(w) \/ GiveUp(w)
    \/ Rollback
    \/ \E c \in Consoles : Follow(c) \/ AskStatus(c) \/ LosePoll(c) \/ RefusePoll(c) \/ FailStatus(c)

Spec == Init /\ [][Next]_vars

\* A tab goes on by itself: the server answers, in threads that wait for no other
\* request, the browser handles what it was answered and opens the stream again.
Fairness ==
    \A c \in Consoles :
      /\ WF_vars(AnswerStatus(c)) /\ WF_vars(HandleStatus(c)) /\ WF_vars(Connect(c))
      /\ WF_vars(Poll(c) \/ ReadBounds(c) \/ ReadLatest(c) \/ ReadPage(c)
                 \/ HandleSnapshot(c) \/ HandleEvents(c))

FairSpec == Spec /\ Fairness

=============================================================================

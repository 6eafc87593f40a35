------------------------ MODULE LiveConsoleProperties ------------------------
(***************************************************************************)
(* What the stream promises to a console.                                  *)
(***************************************************************************)
EXTENDS LiveConsole

(* Publications and generations are numbers that were given out, and a     *)
(* console is in a state that its handlers know.                           *)
Event   == [id : 1 .. MaxPublication, pub : 1 .. MaxPublication, gen : 1 .. MaxPublication]
Version == [gen : 0 .. MaxPublication, pub : 1 .. MaxPublication \cup {None}]
ConsoleTypeOK ==
    /\ events \subseteq Event
    /\ announced \in Seq(1 .. MaxPublication)
    /\ control.rollback \in Version /\ control.gen \in 0 .. MaxPublication
    /\ \A c \in Consoles :
         /\ consoles[c].status \in Version
         /\ consoles[c].source \in {"none", "open", "dead"}
         /\ consoles[c].poll.at \in {"none", "bounds", "latest", "page", "sent"}
         /\ consoles[c].poll.page \subseteq Event
         /\ consoles[c].last \in 1 .. MaxPublication \cup {None}
         /\ consoles[c].source # "open" => consoles[c].poll = NoPoll

(* A publication is not announced again while the journal holds its         *)
(* announcement, whichever worker announces it and whatever is active by   *)
(* then: append is idempotent (live/journal.py, event_key).                *)
AnnouncedOnce ==
    \A j, k \in DOMAIN announced :
      j < k /\ announced[j] = announced[k] => k - j > Retention

(* The journal holds the last Retention announcements, under the ids that  *)
(* they were given in order, whoever appends at the same time              *)
(* (live/journal.py, append).                                              *)
JournalIsSuffix ==
    /\ Ids(events) = {k \in DOMAIN announced : k > Len(announced) - Retention}
    /\ \A e \in events : e.pub = announced[e.id]

(* A console that is sent a heartbeat, and asks for nothing itself, was     *)
(* shown what was active when the stream was read or something newer:      *)
(* silence never hides a publication (live/stream.py, LiveStream.read with *)
(* the handlers of app.js).  It is about what was shown: an older status   *)
(* that arrives late replaces a newer one on the page (refreshStatus).     *)
(* Exempt are behaviours in which a request of a console failed, a         *)
(* rollback came before the active publication was announced or while a    *)
(* worker had one to announce, or a publication came after a rollback: it  *)
(* takes a generation that was used before, and is not news to a console   *)
(* that was shown that generation.                                         *)
Exempt == faults.failed > 0 \/ faults.blurred
Quiet(c) == consoles[c].asked = <<>> /\ ~consoles[c].connecting
SilenceIsCurrent ==
    [][\A c \in Consoles :
         /\ consoles[c].poll.at = "sent" /\ consoles'[c].poll.at = "none"
         /\ consoles'[c].source = "open" /\ consoles'[c].last = consoles[c].last
         /\ Quiet(c) /\ faults' = faults /\ ~Exempt
         => \/ consoles[c].told.pub = consoles[c].poll.pub
            \/ consoles[c].told.time > consoles[c].poll.time]_vars

(* What is sent without a gap continues where the console was              *)
(* (live/stream.py; docs/archive/spike/OVERLAY_ADAPTER_CONTRACT_0_28.md).  *)
NothingIsSkipped ==
    [][\A c \in Consoles :
         consoles[c].last # None /\ consoles'[c].last \notin {None, consoles[c].last}
         => \A id \in consoles[c].last + 1 .. consoles'[c].last :
              \E e \in consoles[c].poll.page : e.id = id]_vars

(* Once nothing is published any more, every console has been shown what   *)
(* is active, in whatever order its requests were answered (app.js,        *)
(* connectLive), with the same exceptions.                                 *)
Told(c) == consoles[c].told.pub = control.pub
ConsoleCatchesUp == \A c \in Consoles : <>[](Told(c) \/ Exempt)

(* The same of what it shows in the end: a status that arrives late and is *)
(* older is on the page until something is published again (app.js).       *)
ConsoleShows == \A c \in Consoles : <>[](consoles[c].status.pub = control.pub \/ Exempt)

(* What ConsoleCatchesUp says, without exceptions (app.js, connectLive).   *)
ConsoleRecovers == \A c \in Consoles : <>[]Told(c)

(* Once nothing is published any more, the server stops to ask a console   *)
(* for a new snapshot (live/stream.py, publication_gap).                   *)
SnapshotsEnd == \A c \in Consoles : <>[](consoles[c].source = "open")

=============================================================================

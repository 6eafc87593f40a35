---------------------- MODULE KernelRefreshProperties ----------------------
(***************************************************************************)
(* What the refresh of the released kernel promises its readers and the    *)
(* workers that take part in it.                                           *)
(***************************************************************************)
EXTENDS KernelRefresh

Ends(w, state) == Running(w) /\ runs'[w].state = state

\* A worker that reports success tells the truth: of every file it observed,
\* readers now see exactly the observed lines, none lost and none of an older
\* content ("A failure must never report success").
SuccessIsTrue ==
    [][\A w \in Workers : Ends(w, "completed") =>
          \A s \in wk[w].scope :
              {l \in Visible' : l.id[1] = s} = Content(wk[w].obs[s])]_vars

\* What a worker publishes is complete: of every file it observed last, readers
\* now see the observed lines, whoever wrote to the database before it.
PublishedIsComplete ==
    [][\A w \in Workers : At(w, "promote") /\ wk'[w].pc = "register" =>
          \A s \in wk[w].scope :
              {l \in Visible' : l.id[1] = s} = Content(wk[w].obs[s])]_vars

\* The coverage shown to readers never claims a line they cannot see.  A rollback
\* leaves the coverage of the later database, so it is left out.
CoverageIsTruth ==
    rollbacks = 0 =>
        \A s \in Sources : coverage[s] # None => Content(coverage[s]) \subseteq Visible

\* Aggregates and rows agree: the rollups of the published generation count the
\* lines a reader of that generation is given.
RollupsMatchFacts ==
    control.active # None => artifact[control.active].roll[control.gen] = Visible

\* Readers keep the calls and activities they have while nothing is published: no
\* step of a build, of a failure or of recovery adds or removes one of these rows, which
\* are inserted once.  Rows that are rewritten later are AllowanceUndisturbed's.
ReadersUndisturbed ==
    [][control'.active = control.active /\ control'.gen = control.gen => Visible' = Visible]_vars

\* The same of the allowance: "Readers retain the prior published generation while a
\* writer is active or fails" (docs/archive/spike/KERNEL_STABLE_CONTRACT_0_28.md).  A build
\* in place does not keep it: an equal reading moves the newest published row to the
\* generation that is being built (writer.py, _insert_allowance_state).
AllowanceUndisturbed ==
    [][control'.active = control.active /\ control'.gen = control.gen
          => VisibleAllowance' = VisibleAllowance]_vars

\* ... but all it does to them is hide: before a generation is published readers are
\* given no allowance row that they did not have, so nothing that only an unpublished
\* generation observed shows through an older row (allowance/service.py).
AllowanceOnlyHidden ==
    [][control'.active = control.active /\ control'.gen = control.gen
          => VisibleAllowance' \subseteq VisibleAllowance]_vars

\* Some row that readers are given covers the line and reads what it reads.
Shown(l) == ReadingOf(l) = None
            \/ \E x \in VisibleAllowance : /\ x.line.id = l.id /\ x.line.ix <= l.ix /\ l.ix <= x.last
                                          /\ ReadingOf(x.line) = ReadingOf(l)

\* What a build in place hid comes back: once a generation is published, by its worker
\* or by recovery, every observation among the lines readers see is in a row they are
\* given, whichever builds, dead or alive, extended that row in between (writer.py,
\* _insert_allowance_state).
PublishedAllowance ==
    [][control'.gen # control.gen /\ rollbacks' = rollbacks => \A l \in Visible' : Shown(l)']_vars

\* The same also of a rollback, of which it is not true: the row may wait in the older
\* database for a generation that was published in another one.
ServedAllowance == [][control'.gen # control.gen => \A l \in Visible' : Shown(l)']_vars

\* Generations are published one after another: each publication is one above
\* the generation its worker found published.
NextGeneration ==
    [][control'.gen # control.gen /\ rollbacks' = rollbacks => control'.gen = control.gen + 1]_vars

\* Only the worker that owns the lease publishes what it built.
PromotionIsOwned ==
    [][\A w \in Workers : At(w, "promote") /\ wk'[w].pc = "register" => Owned(w)]_vars

\* ... and what it recovered.
RecoveryIsOwned ==
    [][\A w \in Workers : At(w, "recoverPromote") /\ wk'[w].pc = "admit" => Owned(w)]_vars

\* A failed worker fails its own build, not that of the worker that replaced it.
FailsOwnBuild ==
    [][control.state = "building" /\ control'.state = "failed" =>
          \A w \in Workers : At(w, "condemn") /\ wk'[w].pc = "done" => control.run = w]_vars

=============================================================================

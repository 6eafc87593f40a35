-------------------------- MODULE MCKernelRefresh --------------------------
(***************************************************************************)
(* The released refresh on small instances: up to two source files and     *)
(* three workers, which are alike.                                         *)
(***************************************************************************)
EXTENDS KernelRefreshProperties, TLC

CONSTANTS fileA, fileB, w1, w2, w3, base

Alike == Permutations(Workers)

\* The first two lines of a file read the same of the allowance, the third does not.
MCReading == [s \in Sources |-> [n \in 1 .. MaxLines |-> IF n < 3 THEN 1 ELSE 2]]

World(changes, mid, failures) == [changes |-> changes, mid |-> mid, failures |-> failures]

\* Workers that die over files that only grow, or files that change between refreshes.
MCWorlds == {World({"append", "rollback"}, {"append"}, {"crash"}),
             World({"appear", "overwrite", "rename"}, {}, {})}

MCUnrenewed        == {World({"append"}, {"append"}, {"crash", "fault"})}
MCLostSource       == {World({"appear"}, {}, {"crash"})}
MCRecoveredRollups == {World({"overwrite"}, {}, {"crash"})}
MCRenamed          == {World({"rename"}, {"rename"}, {})}
MCCatchUpInPlace   == {World({"append", "overwrite"}, {"append", "overwrite"}, {})}
MCRolledBack       == {World({"rename", "rollback"}, {}, {})}
MCFaults           == {World({"append", "rollback"}, {"append"}, {"crash", "fault"})}
MCExtended         == {World({"append", "rollback"}, {"append"}, {"crash"}),
                       World({"append", "overwrite"}, {"append"}, {"crash"})}
MCRaises           == {World({"append"}, {"append"}, {"fault"})}
MCGrows            == {World({"append"}, {"append"}, {})}
MCDies             == {World({"append"}, {}, {"crash"})}
MCQuiet            == {World({}, {}, {})}

=============================================================================

------------------------------ MODULE MCSidecar ------------------------------
(***************************************************************************)
(* Sidecar on a small instance: two operations that share a compatibility  *)
(* key, two workers, one lease, two clock readings.                        *)
(***************************************************************************)
EXTENDS Sidecar, TLC

CONSTANTS o1, o2, w1, w2, p1

\* Enough of the job table for a job to run, lose its lease, be resumed and end.
MCTargets == {"building", "completed", "failed"}

MCKeyOf == [o \in {o1, o2} |-> "key"]

Symmetric == Permutations({o1, o2}) \cup Permutations({w1, w2})

=============================================================================

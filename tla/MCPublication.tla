---------------------------- MODULE MCPublication ----------------------------
(***************************************************************************)
(* The publication protocol on small instances: up to two operations in    *)
(* place, two isolated ones and two recovering processes, each of them a   *)
(* model value that a configuration may use or not.                        *)
(***************************************************************************)
EXTENDS PublicationProperties, TLC

CONSTANTS s1, s2, i1, i2, r1, r2

\* Every operation has a compatibility key of its own.
MCKeyOf == [o \in Ops |-> o]

=============================================================================

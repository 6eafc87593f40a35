--------------------------- MODULE MCParsePipeline ---------------------------
(***************************************************************************)
(* The parser's threads on small instances.                                *)
(***************************************************************************)
EXTENDS ParsePipelineProperties, TLC

CONSTANTS t1, t2, t3

=============================================================================

-------------------------- MODULE MCPublishedRows --------------------------
(* Small instances of PublishedRowsProperties. *)
EXTENDS PublishedRowsProperties

World(n, kinds) == [kinds |-> kinds, records |-> n]

\* Tidy worlds, and worlds in which publications are refused.
MCWorlds ==
    {World(5, {"session", "late_parent"}),
     World(3, {"session", "late_parent", "late_parent_elsewhere"}),
     World(4, {"session", "child", "session_end"}),
     World(4, {"tool", "tool_end", "call"}),
     World(3, {"tool", "tool_end", "call", "copy"}),
     World(3, {"session", "tool", "tool_end", "skew"}),
     World(3, {"tool_end", "component"}),
     World(4, {"session", "child", "late_parent", "session_end"}),
     World(4, {"allowance"}),
     World(3, {"allowance", "allowance_elsewhere", "allowance_end", "copy"})}

MCBareEnd   == {World(2, {"tool", "bare_end"})}
MCOrphanEnd == {World(1, {"tool_end"})}
MCSkewed    == {World(2, {"tool", "tool_end", "skew"})}
MCCopied    == {World(2, {"tool", "tool_end", "copy"})}
MCComponent == {World(1, {"component"})}
MCElsewhere == {World(3, {"allowance", "allowance_elsewhere"})}
MCCompleted == {World(2, {"allowance", "allowance_end"})}
MCTwice     == {World(1, {"allowance", "copy"})}
MCLostEdge  == {World(3, {"session", "late_parent", "late_parent_elsewhere"})}
MCReset     == {World(4, {"session", "child", "late_parent", "session_end"})}
=============================================================================

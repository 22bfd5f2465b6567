----------------------------- MODULE MCDiscovery -----------------------------
(* Instances of DiscoveryCommands for TLC.                                 *)
EXTENDS DiscoveryCommands

CONSTANTS ta, tb, ya, yb, g1, g2, g3

\* A writer and a reader that disagree about the type of one topic, and another writer.
ThreeEndpoints ==
    {[guid |-> g1, topic |-> ta, type |-> ya, is_writer |-> TRUE],
     [guid |-> g2, topic |-> ta, type |-> yb, is_writer |-> FALSE],
     [guid |-> g3, topic |-> tb, type |-> ya, is_writer |-> TRUE]}

\* The writer of that topic comes later.
LateEndpoints == {e \in ThreeEndpoints : e.guid = g1}

AllCommands == {"list", "info", "echo", "hz"}
NoTopics    == {}
OneThenBoth == <<tb, ta>>
=============================================================================

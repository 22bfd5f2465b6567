--------------------------- MODULE MCRegistration ---------------------------
(* Instances of SplitRegistration for TLC.                                 *)
EXTENDS SplitRegistration, TLC

CONSTANTS ta, tb, ya, yb

TwoTopics == {ta, tb}
TwoTypes  == {ya, yb}

\* Two writers that disagree about the type of one topic, and one of another topic.
ThreeEndpoints ==
    {[topic |-> ta, type |-> ya], [topic |-> ta, type |-> yb], [topic |-> tb, type |-> yb]}

\* Two topics of different types.
TwoEndpoints == {[topic |-> ta, type |-> ya], [topic |-> tb, type |-> yb]}

\* Nothing but two writers that disagree.
Conflicting == {[topic |-> ta, type |-> ya], [topic |-> ta, type |-> yb]}
=============================================================================

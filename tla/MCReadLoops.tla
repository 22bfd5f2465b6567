----------------------------- MODULE MCReadLoops -----------------------------
(* Instances of CommandLoops for TLC.                                      *)
EXTENDS CommandLoops

CONSTANTS ra, rb, pa, pb, ta, tb, tc

TwoReaders == {ra, rb}
FewStamps  == {0, 2, 3}
FewCounts  == {-1, 1, 2}
FewWindows == {1}

\* ps itself, which has no endpoints, and a participant with two writers, one of them of a
\* builtin topic, and a reader.
FewEntities ==
    {[kind |-> "participant",  owner |-> pa, topic |-> ta],
     [kind |-> "participant",  owner |-> pb, topic |-> ta],
     [kind |-> "publication",  owner |-> pb, topic |-> ta],
     [kind |-> "publication",  owner |-> pb, topic |-> tc],
     [kind |-> "subscription", owner |-> pb, topic |-> tb]}

\* The participant and its writer of ta come while ps runs, in any order.
ComeLater  == {e \in FewEntities : e.owner = pb /\ e.topic = ta}
Builtin    == {tc}
FewFilters == {{ta}, {tb}}
=============================================================================

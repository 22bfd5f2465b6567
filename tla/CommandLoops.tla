---------------------------- MODULE CommandLoops ----------------------------
(***************************************************************************)
(* cddsctl run as echo, hz or ps: main() (src/cli/main.cpp) creates one    *)
(* command by its name and runs it, and the state of the others does not   *)
(* exist.  Here it stays as it is.                                         *)
(***************************************************************************)
EXTENDS ReadLoops, PsCommand

LoopsInit ==
    /\ Init
    /\ PsInit
    /\ command # "ps" => topicFilter = NoFilter /\ ~showSelf

Ps == command = "ps" /\ UNCHANGED vars

LoopsNext ==
    \/ command # "ps" /\ Next /\ UNCHANGED psVars
    \/ Ps /\ PsNext
    \/ Ps /\ PsIsOver /\ UNCHANGED psVars

\* The loops are run, and for hz seconds pass.  Neither samples nor an interrupt need come,
\* and no timeout of ps is too long.
LoopsSpec ==
    /\ LoopsInit /\ [][LoopsNext]_<<vars, psVars>>
    /\ WF_vars(Loop /\ UNCHANGED psVars) /\ WF_vars(SecondPasses /\ UNCHANGED psVars)
    /\ WF_psVars(Ps /\ PsLoop)

-----------------------------------------------------------------------------
(* Properties.                                                             *)

\* What is received gets to the user, by each of the commands: a message that waits, a topic
\* that has data, an entity that is alive.
DataIsShown ==
    /\ EchoKeepsUp /\ EveryTopicIsShown
    /\ command = "ps" => PsKeepsUp
=============================================================================

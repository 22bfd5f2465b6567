------------------------------ MODULE Recording ------------------------------
(***************************************************************************)
(* What the interface of cddsctl::recorder::Recorder promises to those who *)
(* use it (src/include/cddsctl/record/Recorder.hpp), without its threads:  *)
(* one recording after the other is begun and published as stopped, its    *)
(* file is open in between, and whoever waits for it to complete is told   *)
(* so only when that file is closed for good.                              *)
(*                                                                         *)
(* This is the recorder that nobody pauses; RecorderLifecycle implements   *)
(* it.                                                                     *)
(***************************************************************************)
EXTENDS Naturals

CONSTANTS
    Waiters,        \* those who call wait_for_completion(), once each
    TimedWaiters    \* those of them that pass a timeout

VARIABLES
    state,    \* what state() returns
    open,     \* the recording whose file is open, 0 for none
    begun,    \* the last recording that began, 0 for none
    asked,    \* of each waiter: the recording it asks about, 0 before it does
    told      \* of each waiter: "none", "complete" or "timeout"

contract == <<state, open, begun, asked, told>>

Init ==
    /\ state = "Stopped"
    /\ open = 0
    /\ begun = 0
    /\ asked = [w \in Waiters |-> 0]
    /\ told = [w \in Waiters |-> "none"]

\* start() opens the file of a new recording, and then the recording begins.
OpenFile ==
    /\ state = "Stopped" /\ open = 0
    /\ open' \in Nat /\ open' > begun
    /\ UNCHANGED <<state, begun, asked, told>>

Begin ==
    /\ state = "Stopped" /\ open # 0
    /\ state' = "Running"
    /\ begun' = open
    /\ UNCHANGED <<open, asked, told>>

\* The end of a recording, or of one of the files it is split into, closes the file.
CloseFile ==
    /\ state = "Running" /\ open # 0
    /\ open' = 0
    /\ UNCHANGED <<state, begun, asked, told>>

NextFile ==
    /\ state = "Running" /\ open = 0
    /\ open' = begun
    /\ UNCHANGED <<state, begun, asked, told>>

\* The end is published when the file is closed.
Publish ==
    /\ state = "Running" /\ open = 0
    /\ state' = "Stopped"
    /\ UNCHANGED <<open, begun, asked, told>>

\* wait_for_completion() and its two answers.
Ask(w) ==
    /\ asked[w] = 0 /\ begun # 0
    /\ asked' = [asked EXCEPT ![w] = begun]
    /\ UNCHANGED <<state, open, begun, told>>

AnswerComplete(w) ==
    /\ asked[w] # 0 /\ told[w] = "none"
    /\ state = "Stopped"
    /\ open = 0 \/ open > asked[w]
    /\ told' = [told EXCEPT ![w] = "complete"]
    /\ UNCHANGED <<state, open, begun, asked>>

AnswerTimeout(w) ==
    /\ w \in TimedWaiters
    /\ asked[w] # 0 /\ told[w] = "none"
    /\ told' = [told EXCEPT ![w] = "timeout"]
    /\ UNCHANGED <<state, open, begun, asked>>

Next ==
    \/ OpenFile \/ Begin \/ CloseFile \/ NextFile \/ Publish
    \/ \E w \in Waiters : Ask(w) \/ AnswerComplete(w) \/ AnswerTimeout(w)

Spec == Init /\ [][Next]_contract

-----------------------------------------------------------------------------
\* Complete is complete for ever: after a waiter was told so, the recording it asked
\* about never has an open file again, whatever is started and split later.
CompleteStaysSealed ==
    \A w \in Waiters : told[w] = "complete" => open = 0 \/ open > asked[w]

\* The inductive invariant behind it.
ContractInv ==
    /\ state \in {"Stopped", "Running"}
    /\ open \in Nat /\ begun \in Nat
    /\ asked \in [Waiters -> Nat]
    /\ told \in [Waiters -> {"none", "complete", "timeout"}]
    /\ state = "Running" => begun # 0 /\ open \in {0, begun}
    /\ state = "Stopped" => open = 0 \/ open > begun
    /\ \A w \in Waiters : /\ asked[w] <= begun
                          /\ told[w] # "none" => asked[w] # 0
                          /\ told[w] = "complete" /\ state = "Running" => asked[w] < begun
    /\ CompleteStaysSealed
=============================================================================

------------------------------ MODULE Selection ------------------------------
(***************************************************************************)
(* The elements of a sequence that are in a set, in their order: what is   *)
(* left of a std::vector after remove_if() and erase().                    *)
(*                                                                         *)
(* It is a recursive function where SelectSeq would do, because facts      *)
(* about a function can be proved (SelectionTheorems).                     *)
(***************************************************************************)
EXTENDS Naturals, Sequences

SelectedUpTo(seq, wanted) ==
    LET upTo[n \in 0..Len(seq)] ==
            IF n = 0 THEN <<>>
            ELSE IF seq[n] \in wanted THEN Append(upTo[n - 1], seq[n])
            ELSE upTo[n - 1]
    IN  upTo

Selected(seq, wanted) == SelectedUpTo(seq, wanted)[Len(seq)]
=============================================================================

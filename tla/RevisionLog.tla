------------------------------ MODULE RevisionLog ------------------------------
(***************************************************************************)
(* What a graph revision promises to a run, however its calls interleave,  *)
(* fail or die: the accepted graph grows by one revision at a time, each   *)
(* for a trigger of its own and none beyond the budget, and no revision is *)
(* accepted before the run executes the one before.  The run loses its     *)
(* graph with its process, and finds it again at most one revision back.   *)
(***************************************************************************)
EXTENDS Naturals, Sequences, SequencesExt

CONSTANTS
    Proposals,      \* what a revision is made for
    MaxRevisions,   \* the budget of a run
    NoGraph         \* the run has no graph

VARIABLES
    accepted,   \* the revisions accepted so far, in order
    executed    \* the revisions of the graph the run executes

logVars == <<accepted, executed>>

Init == accepted = <<>> /\ executed = <<>>

\* the next revision is accepted
Accept ==
    /\ executed = accepted
    /\ Len(accepted) < MaxRevisions
    /\ \E p \in Proposals \ ToSet(accepted) : accepted' = Append(accepted, p)
    /\ UNCHANGED executed

\* the run goes on with the revision that was accepted
Follow ==
    /\ executed # NoGraph
    /\ accepted # <<>> /\ executed = Front(accepted)
    /\ executed' = accepted
    /\ UNCHANGED accepted

\* the process of the run ends
Lose ==
    /\ executed' = NoGraph
    /\ UNCHANGED accepted

\* a new process goes on where the old one was, one revision back at most, or
\* declares its graph anew
Resume ==
    /\ executed = NoGraph
    /\ executed' \in {<<>>, accepted} \cup (IF accepted = <<>> THEN {} ELSE {Front(accepted)})
    /\ UNCHANGED accepted

Next == Accept \/ Follow \/ Lose \/ Resume

Spec == Init /\ [][Next]_logVars
===============================================================================

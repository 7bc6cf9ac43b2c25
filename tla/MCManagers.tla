------------------------------ MODULE MCManagers ------------------------------
(***************************************************************************)
(* Two operator processes.                                                 *)
(***************************************************************************)
EXTENDS Managers

\* Elected leaders with a handover or a failed call; unelected rivals, with
\* three changes, or with two and a process that goes.
HandoverAndRivals ==
    {[elect |-> TRUE, edits |-> 3, faults |-> 1],
     [elect |-> FALSE, edits |-> 3, faults |-> 0],
     [elect |-> FALSE, edits |-> 2, faults |-> 1]}
=============================================================================

------------------------- MODULE PublicationLifecycle -------------------------
(***************************************************************************)
(* What the domain package promises about the publication of a dataset     *)
(* revision: one state at a time, which follows the review lifecycle.  A   *)
(* revision that has not been reviewed may be given any state first.       *)
(***************************************************************************)
CONSTANTS Datasets   \* imported dataset revisions

VARIABLE state       \* [Datasets -> State \cup {"none"}]

State == {"draft", "available", "superseded", "withdrawn"}

ValidTransition(previous, next) ==
    \/ previous = "draft" /\ next \in {"available", "withdrawn"}
    \/ previous = "available" /\ next \in {"superseded", "withdrawn"}

Init == state = [d \in Datasets |-> "none"]

Review(d, next) == /\ state[d] = "none" \/ ValidTransition(state[d], next)
                   /\ state' = [state EXCEPT ![d] = next]

\* No review leaves the state as it is.
Next == \E d \in Datasets : /\ state'[d] # state[d]
                            /\ \E next \in State : Review(d, next)

Spec == Init /\ [][Next]_state
=============================================================================

---------------------------- MODULE ReleaseProtocol ----------------------------
(***************************************************************************)
(* What the factory promises of one task, without its loops, files or      *)
(* nodes: a chain of Stages products, each made only when all the products *)
(* before it are current, and a release only when the whole chain is.      *)
(* Making a product again outdates the ones after it.  Work may stop at    *)
(* any moment and be taken up again, but not once the task is released.    *)
(***************************************************************************)
EXTENDS Naturals

CONSTANT Stages \* the length of the chain

VARIABLES
    current, \* the first `current` products are up to date
    working, \* somebody is at work on the task
    outcome  \* "none", "open", "abandoned" or "released"

vars == <<current, working, outcome>>

Init == current = 0 /\ working = FALSE /\ outcome = "none"

Begin ==
    /\ ~ working /\ outcome = "none"
    /\ current' = 0 /\ working' = TRUE /\ outcome' = "open"

TakeUp ==
    /\ ~ working /\ outcome \in {"open", "abandoned"}
    /\ working' = TRUE /\ outcome' = "open"
    /\ UNCHANGED current

Make(k) ==
    /\ working
    /\ k <= current + 1
    /\ current' = k
    /\ UNCHANGED <<working, outcome>>

Stop ==
    /\ working
    /\ working' = FALSE
    /\ UNCHANGED <<current, outcome>>

Release ==
    /\ working /\ current = Stages
    /\ working' = FALSE /\ outcome' = "released"
    /\ UNCHANGED current

Abandon ==
    /\ working
    /\ working' = FALSE /\ outcome' = "abandoned"
    /\ UNCHANGED current

Next ==
    \/ Begin \/ TakeUp \/ Stop \/ Release \/ Abandon
    \/ \E k \in 1..Stages : Make(k)

Spec == Init /\ [][Next]_vars
=============================================================================

------------------------------ MODULE WorkPool ------------------------------
(***************************************************************************)
(* What the dispatch of artifacts promises, without queues, channels,      *)
(* flags or a rate limiter: a pool of workers that takes each assignment   *)
(* up at most once, never runs two assignments under one claim, and        *)
(* in the end has run or discarded everything that was submitted.          *)
(***************************************************************************)
CONSTANTS
    Worker,      \* the scanner instances
    Assignment,  \* what may be submitted: an artifact for a template
    Claim,       \* rate-limit keys
    NoClaim      \* the key of what runs without a limit

VARIABLES
    waiting,     \* submitted, not yet started
    running,     \* running[w]: the set of w's assignments, at most one
    held,        \* held[w]: the claim under which w runs
    finished     \* run to the end, or discarded

poolVars == <<waiting, running, held, finished>>

Taken == UNION {running[w] : w \in Worker}

Init ==
    /\ waiting = {} /\ finished = {}
    /\ running = [w \in Worker |-> {}]
    /\ held = [w \in Worker |-> NoClaim]

(* One submission may address several templates.                           *)
Submit ==
    /\ waiting \subseteq waiting' /\ waiting' \subseteq Assignment
    /\ (waiting' \ waiting) \cap (Taken \cup finished) = {}
    /\ UNCHANGED <<running, held, finished>>

Discard ==
    /\ \E x \in waiting : waiting' = waiting \ {x} /\ finished' = finished \cup {x}
    /\ UNCHANGED <<running, held>>

Start(w) ==
    /\ running[w] = {}
    /\ \E x \in waiting, c \in Claim :
         /\ c # NoClaim => \A v \in Worker : held[v] # c
         /\ waiting' = waiting \ {x}
         /\ running' = [running EXCEPT ![w] = {x}]
         /\ held' = [held EXCEPT ![w] = c]
    /\ UNCHANGED finished

Finish(w) ==
    /\ running[w] # {}
    /\ finished' = finished \cup running[w]
    /\ running' = [running EXCEPT ![w] = {}]
    /\ held' = [held EXCEPT ![w] = NoClaim]
    /\ UNCHANGED waiting

Next == Submit \/ Discard \/ \E w \in Worker : Start(w) \/ Finish(w)

Spec == Init /\ [][Next]_poolVars

EventuallyFinished == \A x \in Assignment : (x \in waiting) ~> (x \in finished)
=============================================================================

------------------------------- MODULE Polling -------------------------------
(***************************************************************************)
(* What a query promises, whatever happens to its transfers: one thread at *)
(* a time polls the resources, serves each at most once before the query   *)
(* is over, and never shows an older version of a resource after a newer   *)
(* one. HttpQuery implements it until an exception has ended the timer     *)
(* thread or the process has run into undefined behaviour ("broken"): from *)
(* then on nothing is promised.                                            *)
(***************************************************************************)
EXTENDS Naturals

CONSTANTS Resources, Threads

VARIABLES
    holder,     \* the thread whose query it is, or "none"
    todo,       \* resources not served yet
    sent,       \* how often each was served in this query
    shown,      \* the version of each resource that was published last
    broken

vars == <<holder, todo, sent, shown, broken>>

Init ==
    /\ holder = "none"
    /\ todo = {}
    /\ sent = [r \in Resources |-> 0]
    /\ shown = [r \in Resources |-> 0]
    /\ broken = FALSE

Begin ==
    /\ holder = "none"
    /\ holder' \in Threads
    /\ todo' = Resources
    /\ UNCHANGED <<sent, shown, broken>>

(* A resource is done with, whether its refresh went out or not.           *)
Serve(r) ==
    /\ holder # "none"
    /\ r \in todo
    /\ todo' = todo \ {r}
    /\ sent[r] = 0
    /\ sent' = [sent EXCEPT ![r] = 1]
    /\ shown'[r] >= shown[r]
    /\ shown' = [shown EXCEPT ![r] = shown'[r]]
    /\ UNCHANGED <<holder, broken>>

(* What is left to do stays undone.                                        *)
Finish ==
    /\ holder # "none"
    /\ holder' = "none"
    /\ todo' = {}
    /\ sent' = [r \in Resources |-> 0]
    /\ UNCHANGED <<shown, broken>>

Break == broken' = TRUE

Next == Begin \/ (\E r \in Resources : Serve(r)) \/ Finish \/ Break

Spec == Init /\ [][Next]_vars
=============================================================================

------------------------------- MODULE Catalog -------------------------------
(***************************************************************************)
(* What the registry promises to the readers of the public catalogue: the  *)
(* public list, search and graph show an object only while it is visible,  *)
(* and always a version whose indexing was announced.                      *)
(***************************************************************************)
EXTENDS Sequences

CONSTANTS Objects, Versions, None

VARIABLES
    shown,      \* the version an object shows, None before its first publication
    visible,    \* whether the object is in the public catalogue
    announced   \* the versions the search index was told to index, in order

vars == <<shown, visible, announced>>

Init ==
    /\ shown = [o \in Objects |-> None]
    /\ visible = [o \in Objects |-> FALSE]
    /\ announced = <<>>

\* A publication announces the version and in the same step may show it and
\* make the object visible.  Either change is skipped when another request
\* got in between; an object is never visible with nothing to show.
Publish(o, v) ==
    /\ announced' = Append(announced, v)
    /\ shown' \in {shown, [shown EXCEPT ![o] = v]}
    /\ visible' \in {visible, [visible EXCEPT ![o] = TRUE]}
    /\ visible'[o] => shown'[o] # None
    /\ \A p \in Objects \ {o} : shown[p] # v

\* A review, a verification or a deprecation takes the object out.
Withdraw(o) ==
    /\ visible[o]
    /\ visible' = [visible EXCEPT ![o] = FALSE]
    /\ UNCHANGED <<shown, announced>>

Next == \E o \in Objects : Withdraw(o) \/ \E v \in Versions : Publish(o, v)

Spec == Init /\ [][Next]_vars
=============================================================================

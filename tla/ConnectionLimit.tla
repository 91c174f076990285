-------------------------- MODULE ConnectionLimit --------------------------
(***************************************************************************)
(* What the router promises about its connection limit, without buffers,   *)
(* goroutines or peers: a connection is admitted exactly when fewer than   *)
(* Limit others are being served, and refused exactly when Limit are; one  *)
(* that was served leaves once and is never admitted again.                *)
(***************************************************************************)
EXTENDS Naturals, FiniteSets

CONSTANTS Conns, Limit

VARIABLES active, refused, finished

limitVars == <<active, refused, finished>>

Init == active = {} /\ refused = {} /\ finished = {}

Known == active \cup refused \cup finished

Admit(c) ==
    /\ c \notin Known
    /\ Cardinality(active) < Limit
    /\ active' = active \cup {c}
    /\ UNCHANGED <<refused, finished>>

Refuse(c) ==
    /\ c \notin Known
    /\ Cardinality(active) = Limit
    /\ refused' = refused \cup {c}
    /\ UNCHANGED <<active, finished>>

Leave(c) ==
    /\ c \in active
    /\ active' = active \ {c}
    /\ finished' = finished \cup {c}
    /\ UNCHANGED refused

Next == \E c \in Conns : Admit(c) \/ Refuse(c) \/ Leave(c)

Spec == Init /\ [][Next]_limitVars

=============================================================================

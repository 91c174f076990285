-------------------------- MODULE RouterRefinement --------------------------
(***************************************************************************)
(* The router process implements two abstract specifications: the limit on *)
(* connections, and, for every peer, a channel from its subscription to    *)
(* the client.                                                             *)
(***************************************************************************)
EXTENDS Router, FiniteSets

\* authSem is a channel of MaxConnections buffers, filled by Serve.
ASSUME BufsFinite == IsFiniteSet(Bufs)

Limit == INSTANCE ConnectionLimit WITH
    Limit    <- Cardinality(Bufs),
    active   <- {c \in Conns : pc[c] \in Holding},
    refused  <- {c \in Conns : pc[c] = "rejected"},
    finished <- {c \in Conns : pc[c] = "done"}

\* Serve's semaphore of buffers is an exact connection limit: whatever ends a
\* handler, however handlers and the accept loop interleave, MaxConnections
\* connections are served at once and not one more, and none is refused while
\* a slot is free (router.go, the select on authSem).
ImplementsLimit == Limit!Spec

Hop(c) == INSTANCE Channel WITH
    sent <- accepted[c],
    got  <- written[c],
    up   <- ~Closed(c) /\ broker # "closed"

\* From its subscription to the client's connection (handleNATSMessage,
\* writeCh, writeLoop) a peer is a channel: up until the peer or the broker
\* connection is closed, and in order without duplicates even after that.
\* (Hop(c)!Spec for every c, with the quantifier inside the box.)
ImplementsChannel ==
    /\ \A c \in Conns : Hop(c)!Init
    /\ [][\A c \in Conns : Hop(c)!Next \/ UNCHANGED Hop(c)!channelVars]_vars

=============================================================================

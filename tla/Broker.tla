------------------------------- MODULE Broker -------------------------------
(***************************************************************************)
(* The NATS side of a router process (pkg/broker): one nats.Conn shared by *)
(* all peers, and one asynchronous subscription per connection, whose      *)
(* callbacks run one at a time on the subscription's own goroutine.        *)
(*                                                                         *)
(* Publish, Subscribe and Unsubscribe are the code of pkg/broker; what     *)
(* nats.go does with them (dispatch, drain, loss of the connection) is     *)
(* external and is modelled from how pkg/broker uses it.  A subscription   *)
(* is named by the connection (an element of Conns) whose peer created it. *)
(***************************************************************************)
EXTENDS Naturals, Sequences

CONSTANTS
    Conns,      \* TCP connections, each served by one handleConn goroutine
    Clients,    \* client identities: PeerID, the public key
    None,       \* "no such connection, client or buffer"
    MaxMsgs,    \* bound: messages published in one behaviour
    NatsLossy   \* whether NATS may lose a message before it reaches a
                \* subscription (reconnects; NATS core is at-most-once)

ASSUME ConnsAssumption   == None \notin Conns
ASSUME ClientsAssumption == None \notin Clients
ASSUME MaxMsgsAssumption == MaxMsgs \in Nat
ASSUME LossyAssumption   == NatsLossy \in BOOLEAN

VARIABLES
    broker,     \* the nats.Conn: "open", "draining" (Drain called), "closed"
    sub,        \* sub[c]: "none", "active", "draining" or "gone"
    subject,    \* subject[c]: the client whose subject the subscription has
    pending,    \* pending[c]: messages nats.go holds for c's callback
    published,  \* history: every message published, in order
    accepted    \* history: accepted[c], the messages subscription c got

brokerVars == <<broker, sub, subject, pending, published, accepted>>

\* A message.Message as the properties see it: its place in the order of
\* publication stands for the id, payload and timestamp.
Msgs == [n : Nat \ {0}, from : Clients, to : Clients]

BrokerTypeOK ==
    /\ broker \in {"open", "draining", "closed"}
    /\ sub \in [Conns -> {"none", "active", "draining", "gone"}]
    /\ subject \in [Conns -> Clients \cup {None}]
    /\ pending \in [Conns -> Seq(Msgs)]
    /\ published \in Seq(Msgs)
    /\ accepted \in [Conns -> Seq(Msgs)]

BrokerInit ==
    /\ broker = "open"
    /\ sub = [c \in Conns |-> "none"]
    /\ subject = [c \in Conns |-> None]
    /\ pending = [c \in Conns |-> <<>>]
    /\ published = <<>>
    /\ accepted = [c \in Conns |-> <<>>]

-----------------------------------------------------------------------------

\* NewSubscriber: conn.Subscribe on the subject of client k.  nats.go refuses
\* it on a connection that is draining or closed.
Subscribe(c, k) ==
    /\ broker = "open"
    /\ sub' = [sub EXCEPT ![c] = "active"]
    /\ subject' = [subject EXCEPT ![c] = k]
    /\ UNCHANGED <<broker, pending, published, accepted>>

\* Subscriber.Unsubscribe.  On a draining or closed connection nats.go returns
\* an error, which Peer.Close logs and ignores; otherwise the subscription is
\* removed and what it still held is discarded.
Unsubscribe(c) ==
    /\ IF broker = "open" /\ sub[c] = "active"
       THEN /\ sub' = [sub EXCEPT ![c] = "gone"]
            /\ pending' = [pending EXCEPT ![c] = <<>>]
       ELSE UNCHANGED <<sub, pending>>
    /\ UNCHANGED <<broker, subject, published, accepted>>

\* The subscriptions on the subject of client k.
Listeners(k) == {c \in Conns : sub[c] = "active" /\ subject[c] = k}

\* Publisher.Publish: the message goes to every subscription on the subject
\* of its recipient, or, when NATS may lose messages, to some of them.
Publish(from, to) ==
    LET m == [n |-> Len(published) + 1, from |-> from, to |-> to]
    IN  /\ broker # "closed"
        /\ Len(published) < MaxMsgs
        /\ published' = Append(published, m)
        /\ \E R \in SUBSET Listeners(to) :
              /\ NatsLossy \/ R = Listeners(to)
              /\ pending' = [c \in Conns |->
                                IF c \in R THEN Append(pending[c], m)
                                           ELSE pending[c]]
              /\ accepted' = [c \in Conns |->
                                IF c \in R THEN Append(accepted[c], m)
                                           ELSE accepted[c]]
        /\ UNCHANGED <<broker, sub, subject>>

-----------------------------------------------------------------------------

\* Broker.Close: conn.Drain().  Every subscription stops receiving and still
\* hands what it holds to its callback.
Drain ==
    /\ broker = "open"
    /\ broker' = "draining"
    /\ sub' = [c \in Conns |-> IF sub[c] = "active" THEN "draining" ELSE sub[c]]
    /\ UNCHANGED <<subject, pending, published, accepted>>

\* nats.go finishes draining one subscription.
DrainSub(c) ==
    /\ sub[c] = "draining"
    /\ pending[c] = <<>>
    /\ sub' = [sub EXCEPT ![c] = "gone"]
    /\ UNCHANGED <<broker, subject, pending, published, accepted>>

\* nats.go closes the connection: the drain has finished or timed out, or
\* MaxReconnects attempts have failed.  Subscriptions and what they hold go.
\* The publishers' part of a drain, when Publish already fails, counts as
\* closed.  pkg/broker only logs it (ClosedHandler); no peer is told.
BrokerClosed ==
    /\ broker # "closed"
    /\ broker' = "closed"
    /\ sub' = [c \in Conns |-> IF sub[c] = "none" THEN "none" ELSE "gone"]
    /\ pending' = [c \in Conns |-> <<>>]
    /\ UNCHANGED <<subject, published, accepted>>

\* nats.go takes the next message of a subscription for its callback.
NextPending(c) ==
    /\ sub[c] \in {"active", "draining"}
    /\ pending[c] # <<>>
    /\ pending' = [pending EXCEPT ![c] = Tail(@)]
    /\ UNCHANGED <<broker, sub, subject, published, accepted>>

=============================================================================

------------------------------- MODULE Router -------------------------------
(***************************************************************************)
(* The router process (pkg/router/router.go): Serve's accept loop with the *)
(* semaphore of authentication buffers, one handleConn goroutine per       *)
(* connection, and the registry of peers, composed with the peers' own     *)
(* goroutines (Peer) and the broker (Broker).                              *)
(*                                                                         *)
(* pc[c] is the statement handleConn is at:                                *)
(*   "new" not accepted yet      "auth" authenticate                       *)
(*   "subscribe" NewSubscriber   "assign" peer.subscriber = subscriber     *)
(*   "swap" peers.LoadAndDelete  "closeOld" oldPeer.Close()                *)
(*   "store" peers.Store         "loop" top of the read loop               *)
(*   "read" handleMessage        "unregister" deferred peers.Delete        *)
(*   "closePeer" deferred peer.Close                                       *)
(*   "closeConn" deferred conn.Close   "release" deferred authSem <- buf   *)
(*   "done" returned             "rejected" closed by the accept loop      *)
(* Whether a connection authenticates, whether the rate limiter allows a   *)
(* message and what a client sends are inputs, chosen nondeterministically.*)
(***************************************************************************)
EXTENDS Peer

CONSTANT Bufs   \* the authentication buffers; MaxConnections is their number

ASSUME BufsAssumption == None \notin Bufs

VARIABLES
    listener,   \* "open" or "closed"
    authSem,    \* the buffers in the channel authSem
    pc,         \* pc[c]: the statement handleConn is at
    buf,        \* buf[c]: the buffer lent to the handler, or None
    id,         \* id[c]: the PeerID the connection authenticated as, or None
    old,        \* old[c]: the peer loaded from the registry, or None
    peers       \* peers[k]: the registry, a sync.Map from PeerID to Peer

routerVars == <<listener, authSem, pc, buf, id, old, peers>>
vars == <<broker, sub, subject, pending, published, accepted,
          once, subscriber, sawNil, conn, writeCh, wl, writing, written, cb,
          callback, listener, authSem, pc, buf, id, old, peers>>

States == {"new", "auth", "subscribe", "assign", "swap", "closeOld", "store",
           "loop", "read", "unregister", "closePeer", "closeConn", "release",
           "done", "rejected"}

\* The values of all variables have the types of the Go declarations.
TypeOK ==
    /\ BrokerTypeOK
    /\ PeerTypeOK
    /\ listener \in {"open", "closed"}
    /\ authSem \in SUBSET Bufs
    /\ pc \in [Conns -> States]
    /\ buf \in [Conns -> Bufs \cup {None}]
    /\ id \in [Conns -> Clients \cup {None}]
    /\ old \in [Conns -> Conns \cup {None}]
    /\ peers \in [Clients -> Conns \cup {None}]

Init ==
    /\ BrokerInit
    /\ PeerInit
    /\ listener = "open"
    /\ authSem = Bufs
    /\ pc = [c \in Conns |-> "new"]
    /\ buf = [c \in Conns |-> None]
    /\ id = [c \in Conns |-> None]
    /\ old = [c \in Conns |-> None]
    /\ peers = [k \in Clients |-> None]

Goto(c, s) == pc' = [pc EXCEPT ![c] = s]

\* What a handler step that leaves the broker, or the peers, alone keeps.
KeepBroker == UNCHANGED brokerVars
KeepPeer == UNCHANGED peerVars

-----------------------------------------------------------------------------
(* Serve                                                                   *)

\* Accept, and a buffer is free: the handler starts with it.
Accept(c) ==
    /\ pc[c] = "new"
    /\ listener = "open"
    /\ \E b \in authSem :
          /\ authSem' = authSem \ {b}
          /\ buf' = [buf EXCEPT ![c] = b]
    /\ conn' = [conn EXCEPT ![c] = "open"]
    /\ Goto(c, "auth")
    /\ UNCHANGED <<listener, id, old, peers, once, subscriber, sawNil, writeCh,
                   wl, writing, written, cb, callback>>
    /\ KeepBroker

\* Mutant: a rejected connection gives a buffer back too.
RejectReleases(c) ==
    /\ pc[c] = "new"
    /\ listener = "open"
    /\ authSem = {}
    /\ authSem' = {buf[c]}
    /\ conn' = [conn EXCEPT ![c] = "closed"]
    /\ Goto(c, "rejected")
    /\ UNCHANGED <<listener, buf, id, old, peers, once, subscriber, sawNil,
                   writeCh, wl, writing, written, cb, callback>>
    /\ KeepBroker

\* Accept, and no buffer is free: the connection is closed at once.
Reject(c) ==
    /\ pc[c] = "new"
    /\ listener = "open"
    /\ authSem = {}
    /\ conn' = [conn EXCEPT ![c] = "closed"]
    /\ Goto(c, "rejected")
    /\ UNCHANGED <<listener, authSem, buf, id, old, peers, once, subscriber,
                   sawNil, writeCh, wl, writing, written, cb, callback>>
    /\ KeepBroker

\* The context is cancelled: the listener closes and the accept loop ends.
StopAccepting ==
    /\ listener = "open"
    /\ listener' = "closed"
    /\ UNCHANGED <<authSem, pc, buf, id, old, peers>>
    /\ KeepPeer
    /\ KeepBroker

\* Serve returns: the deferred brk.Close().  The handlers are not waited for.
ServeReturns ==
    /\ listener = "closed"
    /\ Drain
    /\ KeepPeer
    /\ UNCHANGED routerVars

-----------------------------------------------------------------------------
(* handleConn, up to the read loop                                         *)

\* Mutant: the buffer goes back as soon as authentication is over, although
\* the goroutine of Serve returns it when the handler ends.
AuthOKReleases(c, k) ==
    /\ pc[c] = "auth"
    /\ id' = [id EXCEPT ![c] = k]
    /\ authSem' = authSem \cup {buf[c]}
    /\ Goto(c, "subscribe")
    /\ UNCHANGED <<listener, buf, old, peers>>
    /\ KeepPeer
    /\ KeepBroker

\* authenticate succeeds: the client has been sent AuthResult, its key is in
\* the buffer.
AuthOK(c, k) ==
    /\ pc[c] = "auth"
    /\ id' = [id EXCEPT ![c] = k]
    /\ Goto(c, "subscribe")
    /\ UNCHANGED <<listener, authSem, buf, old, peers>>
    /\ KeepPeer
    /\ KeepBroker

\* authenticate fails: timeout, wrong message, bad signature, expired.
AuthFails(c) ==
    /\ pc[c] = "auth"
    /\ Goto(c, "closeConn")
    /\ UNCHANGED <<listener, authSem, buf, id, old, peers>>
    /\ KeepPeer
    /\ KeepBroker

\* newPeer: NewSubscriber.  Callbacks may run from here on.
NewPeer(c) ==
    /\ pc[c] = "subscribe"
    /\ Subscribe(c, id[c])
    /\ Goto(c, "assign")
    /\ UNCHANGED <<listener, authSem, buf, id, old, peers>>
    /\ KeepPeer

\* Mutant: a client whose subscription failed is served all the same.
NewPeerFailsServes(c) ==
    /\ pc[c] = "subscribe"
    /\ broker # "open"
    /\ Goto(c, "swap")
    /\ UNCHANGED <<listener, authSem, buf, id, old, peers>>
    /\ KeepPeer
    /\ KeepBroker

\* newPeer fails: NATS refuses the subscription.
NewPeerFails(c) ==
    /\ pc[c] = "subscribe"
    /\ broker # "open"
    /\ Goto(c, "closeConn")
    /\ UNCHANGED <<listener, authSem, buf, id, old, peers>>
    /\ KeepPeer
    /\ KeepBroker

\* newPeer: peer.subscriber = subscriber.
AssignSubscriber(c) ==
    /\ pc[c] = "assign"
    /\ subscriber' = [subscriber EXCEPT ![c] = TRUE]
    /\ Goto(c, "swap")
    /\ UNCHANGED <<listener, authSem, buf, id, old, peers, once, sawNil, conn,
                   writeCh, wl, writing, written, cb, callback>>
    /\ KeepBroker

\* peers.LoadAndDelete(id)
LoadAndDelete(c) ==
    /\ pc[c] = "swap"
    /\ old' = [old EXCEPT ![c] = peers[id[c]]]
    /\ peers' = [peers EXCEPT ![id[c]] = None]
    /\ Goto(c, IF peers[id[c]] = None THEN "store" ELSE "closeOld")
    /\ UNCHANGED <<listener, authSem, buf, id>>
    /\ KeepPeer
    /\ KeepBroker

\* Mutant: the handler returns after it has closed the old peer.
CloseOldRefuses(c) ==
    /\ pc[c] = "closeOld"
    /\ \/ BeginClose(old[c]) /\ UNCHANGED pc
       \/ CloseReturns(old[c]) /\ Goto(c, "closeConn")
    /\ UNCHANGED <<listener, authSem, buf, id, old, peers, subscriber, sawNil,
                   conn, writeCh, wl, writing, written, cb, callback>>
    /\ KeepBroker

\* oldPeer.Close()
CloseOld(c) ==
    /\ pc[c] = "closeOld"
    /\ \/ BeginClose(old[c]) /\ UNCHANGED pc
       \/ CloseReturns(old[c]) /\ Goto(c, "store")
    /\ UNCHANGED <<listener, authSem, buf, id, old, peers, subscriber, sawNil,
                   conn, writeCh, wl, writing, written, cb, callback>>
    /\ KeepBroker

\* peers.Store(id, peer); go peer.writeLoop()
Store(c) ==
    /\ pc[c] = "store"
    /\ peers' = [peers EXCEPT ![id[c]] = c]
    /\ wl' = [wl EXCEPT ![c] = "select"]
    /\ Goto(c, "loop")
    /\ UNCHANGED <<listener, authSem, buf, id, old, once, subscriber, sawNil,
                   conn, writeCh, writing, written, cb, callback>>
    /\ KeepBroker

-----------------------------------------------------------------------------
(* handleConn: the read loop and the deferred calls                        *)

\* The top of the loop: closeCh is closed.
SeesClosed(c) ==
    /\ pc[c] = "loop"
    /\ Closed(c)
    /\ Goto(c, "unregister")
    /\ UNCHANGED <<listener, authSem, buf, id, old, peers>>
    /\ KeepPeer
    /\ KeepBroker

\* closeCh is open: the rate limiter lets the handler read, or ends it.
CheckLimit(c) ==
    /\ pc[c] = "loop"
    /\ ~Closed(c)
    /\ Goto(c, "read") \/ Goto(c, "unregister")
    /\ UNCHANGED <<listener, authSem, buf, id, old, peers>>
    /\ KeepPeer
    /\ KeepBroker

\* handleMessage reads a message to client k and publishes it.
HandleMessage(c, k) ==
    /\ pc[c] = "read"
    /\ conn[c] = "open"
    /\ Publish(id[c], k)
    /\ Goto(c, "loop")
    /\ UNCHANGED <<listener, authSem, buf, id, old, peers>>
    /\ KeepPeer

\* handleMessage fails: end of file, a malformed message, a failed publish,
\* or the connection was closed on this side.
HandleMessageFails(c) ==
    /\ pc[c] = "read"
    /\ Goto(c, "unregister")
    /\ UNCHANGED <<listener, authSem, buf, id, old, peers>>
    /\ KeepPeer
    /\ KeepBroker

\* Deferred: peers.Delete(id), whichever peer the entry names.
Unregister(c) ==
    /\ pc[c] = "unregister"
    /\ peers' = [peers EXCEPT ![id[c]] = None]
    /\ Goto(c, "closePeer")
    /\ UNCHANGED <<listener, authSem, buf, id, old>>
    /\ KeepPeer
    /\ KeepBroker

\* Mutant: a flag instead of sync.Once: a second caller of Close returns
\* without waiting for the first.
ClosePeerFlag(c) ==
    /\ pc[c] = "closePeer"
    /\ \/ BeginClose(c) /\ UNCHANGED pc
       \/ Closed(c) /\ UNCHANGED once /\ Goto(c, "closeConn")
    /\ UNCHANGED <<listener, authSem, buf, id, old, peers, subscriber, sawNil,
                   conn, writeCh, wl, writing, written, cb, callback>>
    /\ KeepBroker

\* Deferred: peer.Close()
ClosePeer(c) ==
    /\ pc[c] = "closePeer"
    /\ \/ BeginClose(c) /\ UNCHANGED pc
       \/ CloseReturns(c) /\ Goto(c, "closeConn")
    /\ UNCHANGED <<listener, authSem, buf, id, old, peers, subscriber, sawNil,
                   conn, writeCh, wl, writing, written, cb, callback>>
    /\ KeepBroker

\* Deferred: conn.Close()
CloseConn(c) ==
    /\ pc[c] = "closeConn"
    /\ conn' = [conn EXCEPT ![c] = "closed"]
    /\ Goto(c, "release")
    /\ UNCHANGED <<listener, authSem, buf, id, old, peers, once, subscriber,
                   sawNil, writeCh, wl, writing, written, cb, callback>>
    /\ KeepBroker

\* Deferred by Serve's goroutine: authSem <- buf
Release(c) ==
    /\ pc[c] = "release"
    /\ authSem' = authSem \cup {buf[c]}
    /\ buf' = [buf EXCEPT ![c] = None]
    /\ Goto(c, "done")
    /\ UNCHANGED <<listener, id, old, peers>>
    /\ KeepPeer
    /\ KeepBroker

-----------------------------------------------------------------------------

Authenticate(c) == AuthFails(c) \/ \E k \in Clients : AuthOK(c, k)

\* The steps handleConn takes by itself, without waiting for the client.
HandlerRuns(c) ==
    \/ Authenticate(c)
    \/ NewPeer(c)
    \/ NewPeerFails(c)
    \/ AssignSubscriber(c)
    \/ LoadAndDelete(c)
    \/ CloseOld(c)
    \/ Store(c)
    \/ SeesClosed(c)
    \/ CheckLimit(c)
    \/ Unregister(c)
    \/ ClosePeer(c)
    \/ CloseConn(c)
    \/ Release(c)

HandlerStep(c) ==
    \/ HandlerRuns(c)
    \/ HandleMessageFails(c)
    \/ \E k \in Clients : HandleMessage(c, k)

\* Steps of NATS: it closes the connection, finishes draining a subscription,
\* or carries a message another router process publishes to client k.
BrokerStep ==
    /\ \/ BrokerClosed
       \/ \E c \in Conns : DrainSub(c)
       \/ \E from, to \in Clients : Publish(from, to)
    /\ KeepPeer
    /\ UNCHANGED routerVars

\* Nothing is left to do: every connection was served or refused, the peers'
\* goroutines have ended and the broker connection is closed.
Terminated ==
    /\ listener = "closed"
    /\ broker = "closed"
    /\ \A c \in Conns : /\ pc[c] \in {"new", "done", "rejected"}
                        /\ wl[c] \in {"off", "done"}
                        /\ cb[c] = "idle"

Next ==
    \/ \E c \in Conns : Accept(c) \/ Reject(c)
    \/ \E c \in Conns : HandlerStep(c)
    \/ \E c \in Conns : PeerStep(c) /\ UNCHANGED routerVars
    \/ StopAccepting
    \/ ServeReturns
    \/ BrokerStep
    \/ Terminated /\ UNCHANGED vars

Spec == Init /\ [][Next]_vars

\* The Go scheduler runs every goroutine that can run; authenticate and
\* writeMessage end because the connection has a deadline, a read of a
\* connection closed on this side returns, and nats.go calls the callback.
\* Nothing is assumed of clients, of the network or of shutdown.
Fairness ==
    \A c \in Conns :
       /\ WF_vars(HandlerRuns(c))
       /\ WF_vars(conn[c] = "closed" /\ HandleMessageFails(c))
       /\ WF_vars(CloseBody(c) /\ UNCHANGED routerVars)
       /\ WF_vars(Callback(c) /\ UNCHANGED routerVars)
       /\ WF_vars(WriteLoop(c) /\ UNCHANGED routerVars)

FairSpec == Spec /\ Fairness

-----------------------------------------------------------------------------
(* Safety                                                                  *)

\* The states in which a handler has its buffer.
Holding == States \ {"new", "done", "rejected"}

\* An authentication buffer is either in authSem or lent to exactly one
\* handler, so no two handlers share one, no slot is lost and sending a
\* buffer back to authSem never blocks.
BufferExclusive ==
    /\ \A c \in Conns : pc[c] \in Holding <=> buf[c] # None
    /\ \A c \in Conns : buf[c] \notin authSem
    /\ \A c, d \in Conns : c # d /\ buf[c] # None => buf[c] # buf[d]
    /\ \A b \in Bufs : b \in authSem \/ \E c \in Conns : buf[c] = b

\* When a handler gives its slot back nothing of the connection is left: the
\* TCP connection is closed, the peer, if one was created, is closed and out
\* of the registry, and its subscription is gone, unless a drain is removing
\* it or Close ran inside newPeer, before peer.subscriber was set.
NothingLeftBehind ==
    \A c \in Conns : pc[c] = "done" =>
        /\ conn[c] = "closed"
        /\ sub[c] # "none" => once[c] = "done"
        /\ \A k \in Clients : peers[k] # c
        /\ sub[c] = "active" => sawNil[c]

\* Only an overflow of writeCh while newPeer has not returned yet can make
\* Close miss the subscription: the buffer is full of messages nobody drains.
OrphanOnlyByOverflow ==
    \A c \in Conns : sawNil[c] => Len(accepted[c]) > WriteBufferSize

\* While closeCh is open and the broker connection lives, no message handed
\* to the subscription of a connection is lost, duplicated or reordered: what
\* was written to the client, what the write loop holds, the buffer, what the
\* callback holds and what nats.go holds are together, in this order, exactly
\* what the subscription got.
NoSilentLoss ==
    \A c \in Conns : ~Closed(c) /\ broker # "closed" =>
        written[c] \o writing[c] \o writeCh[c] \o callback[c] \o pending[c]
            = accepted[c]

\* At any time, during and after a close too, what a client was written is in
\* the order of publication without repetition, and addressed to it.
WrittenInOrder ==
    \A c \in Conns :
        /\ \A i \in DOMAIN written[c] : written[c][i].to = id[c]
        /\ \A i, j \in DOMAIN written[c] : i < j => written[c][i].n < written[c][j].n

-----------------------------------------------------------------------------
(* Liveness, under Fairness                                                *)

\* A peer that anyone closed is given up by its handler, which returns and
\* frees its slot: no closed peer keeps a connection slot.
ClosedFreesSlot == \A c \in Conns : Closed(c) ~> pc[c] = "done"

\* A reconnecting client gets in: the handler that closes the client's old
\* peer is not held up by it, whoever else is closing that peer.
ReconnectProceeds == \A c \in Conns : pc[c] = "closeOld" ~> pc[c] = "loop"

\* The write loop of a connection ends once its handler has returned: no
\* goroutine outlives its connection.
WriterEnds == \A c \in Conns : pc[c] = "done" ~> wl[c] \in {"off", "done"}

\* A client that authenticates when the broker connection is gone for good is
\* turned away, not kept on a connection that could never bring it a message:
\* handleConn returns when newPeer fails, and the slot is free again.
NoBrokerNoService ==
    \A c \in Conns :
        broker = "closed" /\ pc[c] \in {"auth", "subscribe"} ~> pc[c] = "done"

\* A message handed to a subscription is written to the client, unless the
\* peer is closed or the broker connection is.
EventuallyWritten ==
    \A c \in Conns :
        written[c] # accepted[c]
            ~> (written[c] = accepted[c] \/ Closed(c) \/ broker = "closed")

-----------------------------------------------------------------------------
(* What comments and tests say                                             *)

\* "Closing the old connection if there is one (reconnect case)": when a
\* handler looks for the old connection of its client, it finds any that is
\* still being served: one in its read loop, neither closed nor about to be
\* closed by another handler.
ReconnectClosesOld ==
    [][\A c, d \in Conns :
          /\ c # d /\ id[c] = id[d]
          /\ pc[c] = "swap" /\ pc'[c] # "swap"
          /\ pc[d] \in {"loop", "read"} /\ ~Closed(d)
          /\ \A e \in Conns : pc[e] = "closeOld" => old[e] # d
          => old'[c] = d]_vars

\* "The client is connected and ready to be used": a message published to a
\* client whose Connect has returned, on a connection nobody closed, reaches
\* the subscription of that connection.
Ready(c) ==
    /\ pc[c] \in {"subscribe", "assign", "swap", "closeOld", "store", "loop", "read"}
    /\ ~Closed(c)
ReadyMissesNothing ==
    [][published' # published /\ broker = "open" =>
          \A c \in Conns :
              Ready(c) /\ id[c] = published'[Len(published')].to
                  => accepted'[c] # accepted[c]]_vars

=============================================================================

-------------------------------- MODULE Peer --------------------------------
(***************************************************************************)
(* The Peer of pkg/router/peer.go: the object of one authenticated         *)
(* connection.  Three goroutines work on it beside the handler of the      *)
(* connection: its write loop, the NATS callback handleNATSMessage, and    *)
(* the handler of a newer connection of the same client, which closes it.  *)
(*                                                                         *)
(* Peer.Close may be called by all of them.  sync.Once lets one caller run *)
(* the body and blocks the others until it has finished: once[c] is how    *)
(* far the body is, a caller is a goroutine whose program counter waits    *)
(* for once[c] = "done".  The body's first statement closes closeCh, so    *)
(* closeCh is closed exactly when once[c] # "idle".                        *)
(***************************************************************************)
EXTENDS Broker

CONSTANT WriteBufferSize    \* capacity of writeCh (1000 in the code)

ASSUME WriteBufferAssumption == WriteBufferSize \in Nat \ {0}

VARIABLES
    once,        \* once[c]: closeOnce, "idle", "unsub", "conn" or "done"
    subscriber,  \* subscriber[c]: newPeer has assigned peer.subscriber
    sawNil,      \* sawNil[c]: the body of Close found peer.subscriber nil
    conn,        \* conn[c]: the server's end, "none", "open" or "closed"
    writeCh,     \* writeCh[c]: the queue of outgoing messages
    wl,          \* wl[c]: write loop, "off", "select", "write", "close", "done"
    writing,     \* writing[c]: the message the write loop holds, if any
    written,     \* history: written[c], the messages written to the client
    cb,          \* cb[c]: callback, "idle", "select", "full" or "close"
    callback     \* callback[c]: the message the callback holds, if any

peerVars == <<once, subscriber, sawNil, conn, writeCh, wl, writing, written,
              cb, callback>>

PeerTypeOK ==
    /\ once \in [Conns -> {"idle", "unsub", "conn", "done"}]
    /\ subscriber \in [Conns -> BOOLEAN]
    /\ sawNil \in [Conns -> BOOLEAN]
    /\ conn \in [Conns -> {"none", "open", "closed"}]
    /\ writeCh \in [Conns -> Seq(Msgs)]
    /\ wl \in [Conns -> {"off", "select", "write", "close", "done"}]
    /\ writing \in [Conns -> Seq(Msgs)]
    /\ written \in [Conns -> Seq(Msgs)]
    /\ cb \in [Conns -> {"idle", "select", "full", "close"}]
    /\ callback \in [Conns -> Seq(Msgs)]

PeerInit ==
    /\ once = [c \in Conns |-> "idle"]
    /\ subscriber = [c \in Conns |-> FALSE]
    /\ sawNil = [c \in Conns |-> FALSE]
    /\ conn = [c \in Conns |-> "none"]
    /\ writeCh = [c \in Conns |-> <<>>]
    /\ wl = [c \in Conns |-> "off"]
    /\ writing = [c \in Conns |-> <<>>]
    /\ written = [c \in Conns |-> <<>>]
    /\ cb = [c \in Conns |-> "idle"]
    /\ callback = [c \in Conns |-> <<>>]

-----------------------------------------------------------------------------
(* Peer.Close                                                              *)

\* closeCh is closed.
Closed(c) == once[c] # "idle"

\* A call of Close that finds the Once unused: close(closeCh).
BeginClose(c) ==
    /\ once[c] = "idle"
    /\ once' = [once EXCEPT ![c] = "unsub"]

\* A call of Close returns: the body has been run, by this caller or another.
CloseReturns(c) ==
    /\ once[c] = "done"
    /\ UNCHANGED once

\* Mutant: the body closes the connection without unsubscribing.
CloseUnsubscribeMissing(c) ==
    /\ once[c] = "unsub"
    /\ once' = [once EXCEPT ![c] = "conn"]
    /\ UNCHANGED <<subscriber, sawNil, conn, writeCh, wl, writing, written, cb,
                   callback>>
    /\ UNCHANGED brokerVars

\* Mutant: Unsubscribe waits for the callback that is running, which may be
\* the caller of Close.
CloseUnsubscribeWaits(c) ==
    /\ once[c] = "unsub"
    /\ cb[c] = "idle"
    /\ once' = [once EXCEPT ![c] = "conn"]
    /\ IF subscriber[c]
       THEN Unsubscribe(c) /\ UNCHANGED sawNil
       ELSE sawNil' = [sawNil EXCEPT ![c] = TRUE] /\ UNCHANGED brokerVars
    /\ UNCHANGED <<subscriber, conn, writeCh, wl, writing, written, cb, callback>>

\* The body: unsubscribe if peer.subscriber is set.  peer.subscriber is read
\* without synchronisation with its assignment in newPeer; a read that comes
\* late is the same as an assignment that comes late.
CloseUnsubscribe(c) ==
    /\ once[c] = "unsub"
    /\ once' = [once EXCEPT ![c] = "conn"]
    /\ IF subscriber[c]
       THEN Unsubscribe(c) /\ UNCHANGED sawNil
       ELSE sawNil' = [sawNil EXCEPT ![c] = TRUE] /\ UNCHANGED brokerVars
    /\ UNCHANGED <<subscriber, conn, writeCh, wl, writing, written, cb, callback>>

\* Mutant: the body leaves the connection to the handler's deferred Close.
CloseConnectionMissing(c) ==
    /\ once[c] = "conn"
    /\ once' = [once EXCEPT ![c] = "done"]
    /\ UNCHANGED <<subscriber, sawNil, conn, writeCh, wl, writing, written, cb,
                   callback>>
    /\ UNCHANGED brokerVars

\* The body: close the TCP connection, whatever Unsubscribe returned.
CloseConnection(c) ==
    /\ once[c] = "conn"
    /\ once' = [once EXCEPT ![c] = "done"]
    /\ conn' = [conn EXCEPT ![c] = "closed"]
    /\ UNCHANGED <<subscriber, sawNil, writeCh, wl, writing, written, cb, callback>>
    /\ UNCHANGED brokerVars

CloseBody(c) == CloseUnsubscribe(c) \/ CloseConnection(c)

-----------------------------------------------------------------------------
(* handleNATSMessage.  A select with several ready cases takes any of them *)
(* and takes its default only when none is ready.                          *)

\* nats.go calls the callback with the next message.
Dispatch(c) ==
    /\ cb[c] = "idle"
    /\ NextPending(c)
    /\ callback' = [callback EXCEPT ![c] = <<Head(pending[c])>>]
    /\ cb' = [cb EXCEPT ![c] = "select"]
    /\ UNCHANGED <<once, subscriber, sawNil, conn, writeCh, wl, writing, written>>

\* The callback returns.
CallbackReturns(c) ==
    /\ cb' = [cb EXCEPT ![c] = "idle"]
    /\ callback' = [callback EXCEPT ![c] = <<>>]

\* case p.writeCh <- msg.Data
Enqueue(c) ==
    /\ cb[c] = "select"
    /\ Len(writeCh[c]) < WriteBufferSize
    /\ writeCh' = [writeCh EXCEPT ![c] = @ \o callback[c]]
    /\ CallbackReturns(c)
    /\ UNCHANGED <<once, subscriber, sawNil, conn, wl, writing, written>>
    /\ UNCHANGED brokerVars

\* case <-p.closeCh, in the first select and again in the second: the message
\* is dropped.
DropClosed(c) ==
    /\ cb[c] \in {"select", "full"}
    /\ Closed(c)
    /\ CallbackReturns(c)
    /\ UNCHANGED <<once, subscriber, sawNil, conn, writeCh, wl, writing, written>>
    /\ UNCHANGED brokerVars

\* Mutant: a message that does not fit is dropped and the client kept.
BufferFullDrops(c) ==
    /\ cb[c] = "select"
    /\ ~Closed(c)
    /\ Len(writeCh[c]) >= WriteBufferSize
    /\ CallbackReturns(c)
    /\ UNCHANGED <<once, subscriber, sawNil, conn, writeCh, wl, writing, written>>
    /\ UNCHANGED brokerVars

\* Mutant: the buffer counts as full one message early.
BufferFullEarly(c) ==
    /\ cb[c] = "select"
    /\ ~Closed(c)
    /\ Len(writeCh[c]) + 1 >= WriteBufferSize
    /\ cb' = [cb EXCEPT ![c] = "full"]
    /\ UNCHANGED <<once, subscriber, sawNil, conn, writeCh, wl, writing, written,
                   callback>>
    /\ UNCHANGED brokerVars

\* default of the first select: the buffer is full and closeCh is open.
BufferFull(c) ==
    /\ cb[c] = "select"
    /\ ~Closed(c)
    /\ Len(writeCh[c]) >= WriteBufferSize
    /\ cb' = [cb EXCEPT ![c] = "full"]
    /\ UNCHANGED <<once, subscriber, sawNil, conn, writeCh, wl, writing, written,
                   callback>>
    /\ UNCHANGED brokerVars

\* default of the second select: disconnect the slow consumer.
SlowConsumer(c) ==
    /\ cb[c] = "full"
    /\ ~Closed(c)
    /\ cb' = [cb EXCEPT ![c] = "close"]
    /\ UNCHANGED <<once, subscriber, sawNil, conn, writeCh, wl, writing, written,
                   callback>>
    /\ UNCHANGED brokerVars

\* p.Close() of the slow consumer; the message is lost when it returns.
SlowConsumerClose(c) ==
    /\ cb[c] = "close"
    /\ \/ BeginClose(c) /\ UNCHANGED <<cb, callback>>
       \/ CloseReturns(c) /\ CallbackReturns(c)
    /\ UNCHANGED <<subscriber, sawNil, conn, writeCh, wl, writing, written>>
    /\ UNCHANGED brokerVars

Callback(c) ==
    \/ Dispatch(c)
    \/ Enqueue(c)
    \/ DropClosed(c)
    \/ BufferFull(c)
    \/ SlowConsumer(c)
    \/ SlowConsumerClose(c)

-----------------------------------------------------------------------------
(* writeLoop                                                               *)

\* case <-p.closeCh
WriterStops(c) ==
    /\ wl[c] = "select"
    /\ Closed(c)
    /\ wl' = [wl EXCEPT ![c] = "done"]
    /\ UNCHANGED <<once, subscriber, sawNil, conn, writeCh, writing, written, cb,
                   callback>>
    /\ UNCHANGED brokerVars

\* case data := <-p.writeCh
WriterTakes(c) ==
    /\ wl[c] = "select"
    /\ writeCh[c] # <<>>
    /\ writeCh' = [writeCh EXCEPT ![c] = Tail(@)]
    /\ writing' = [writing EXCEPT ![c] = <<Head(writeCh[c])>>]
    /\ wl' = [wl EXCEPT ![c] = "write"]
    /\ UNCHANGED <<once, subscriber, sawNil, conn, written, cb, callback>>
    /\ UNCHANGED brokerVars

\* writeMessage succeeds, which it can only on an open connection.
WriteSucceeds(c) ==
    /\ wl[c] = "write"
    /\ conn[c] = "open"
    /\ written' = [written EXCEPT ![c] = @ \o writing[c]]
    /\ writing' = [writing EXCEPT ![c] = <<>>]
    /\ wl' = [wl EXCEPT ![c] = "select"]
    /\ UNCHANGED <<once, subscriber, sawNil, conn, writeCh, cb, callback>>
    /\ UNCHANGED brokerVars

\* Mutant: a failed write is tried again instead of closing the peer.
WriteFailsRetries(c) ==
    /\ wl[c] = "write"
    /\ UNCHANGED <<brokerVars, peerVars>>

\* Mutant: a message whose write failed goes back to the end of the queue.
WriteFailsRequeues(c) ==
    /\ wl[c] = "write"
    /\ writeCh' = [writeCh EXCEPT ![c] = @ \o writing[c]]
    /\ writing' = [writing EXCEPT ![c] = <<>>]
    /\ wl' = [wl EXCEPT ![c] = "select"]
    /\ UNCHANGED <<once, subscriber, sawNil, conn, written, cb, callback>>
    /\ UNCHANGED brokerVars

\* writeMessage fails: deadline, broken or closed connection, message too
\* large for a ServerMessage.
WriteFails(c) ==
    /\ wl[c] = "write"
    /\ wl' = [wl EXCEPT ![c] = "close"]
    /\ UNCHANGED <<once, subscriber, sawNil, conn, writeCh, writing, written, cb,
                   callback>>
    /\ UNCHANGED brokerVars

\* p.Close() and return.
WriterCloses(c) ==
    /\ wl[c] = "close"
    /\ \/ BeginClose(c) /\ UNCHANGED <<wl, writing>>
       \/ /\ CloseReturns(c)
          /\ wl' = [wl EXCEPT ![c] = "done"]
          /\ writing' = [writing EXCEPT ![c] = <<>>]
    /\ UNCHANGED <<subscriber, sawNil, conn, writeCh, written, cb, callback>>
    /\ UNCHANGED brokerVars

WriteLoop(c) ==
    \/ WriterStops(c)
    \/ WriterTakes(c)
    \/ WriteSucceeds(c)
    \/ WriteFails(c)
    \/ WriterCloses(c)

PeerStep(c) == CloseBody(c) \/ Callback(c) \/ WriteLoop(c)

=============================================================================

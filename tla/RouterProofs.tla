---------------------------- MODULE RouterProofs ----------------------------
(***************************************************************************)
(* Proofs about Router, for every set of connections, clients and buffers, *)
(* every buffer size and any number of messages.                           *)
(***************************************************************************)
EXTENDS Router, TLAPS

\* The states of a handler past authentication, with a subscription, with
\* peer.subscriber set, and with its deferred calls of the peer behind it.
Named      == {"subscribe", "assign", "swap", "closeOld", "store", "loop", "read",
               "unregister", "closePeer"}
Subscribed == Named \ {"subscribe"}
Assigned   == Subscribed \ {"assign"}
Leaving    == {"closeConn", "release", "done"}

\* A handler past authentication knows the key of its client, and one that
\* closes an old peer has one.
Identified ==
    \A c \in Conns : /\ pc[c] \in Named => id[c] \in Clients
                     /\ pc[c] = "closeOld" => old[c] \in Conns

\* The life of a peer follows the program counter of its handler: untouched
\* before newPeer, subscribed and assigned after it, and closed for good when
\* the handler leaves.
PeerLife ==
    \A c \in Conns :
        /\ pc[c] \in {"new", "auth", "subscribe", "rejected"} =>
               /\ sub[c] = "none" /\ once[c] = "idle" /\ ~subscriber[c]
               /\ Len(accepted[c]) = 0
        /\ pc[c] \in Subscribed => sub[c] # "none"
        /\ pc[c] \in Assigned => subscriber[c]
        /\ pc[c] = "assign" => ~subscriber[c]
        /\ pc[c] \in Leaving /\ sub[c] # "none" => once[c] = "done"
        /\ pc[c] \in {"release", "done"} => conn[c] = "closed"

\* The body of Close leaves no live subscription behind unless it found
\* peer.subscriber nil; a broker that is not open has none at all.
Unsubscribed ==
    \A c \in Conns :
        /\ broker # "open" => sub[c] # "active"
        /\ once[c] \in {"conn", "done"} /\ sub[c] = "active" => sawNil[c]

\* A message is in one place at a time, so the subscription got at least as
\* many as the queue, the callback and nats.go hold.
Counted ==
    \A c \in Conns :
        /\ Len(writeCh[c]) + Len(callback[c]) + Len(pending[c]) <= Len(accepted[c])
        /\ cb[c] # "idle" => Len(callback[c]) = 1

\* The subscription of c got more messages than writeCh can hold.
Overflowed(c) == Len(accepted[c]) > WriteBufferSize

\* Who may close a peer before peer.subscriber is set: the callback, after an
\* overflow.  The write loop and other handlers come to a peer later.
EarlyClose ==
    \A c \in Conns :
        /\ cb[c] \in {"full", "close"} => Overflowed(c)
        /\ wl[c] # "off" => subscriber[c]
        /\ pc[c] = "closeOld" => subscriber[old[c]]
        /\ once[c] # "idle" /\ ~subscriber[c] => Overflowed(c)

\* The registry names only peers whose handler still has its deferred
\* peers.Delete to run, under the key they authenticated with: an entry never
\* outlives its connection.
NoStaleEntry ==
    \A k \in Clients : \A c \in Conns :
        peers[k] = c => /\ id[c] = k
                        /\ pc[c] \in {"loop", "read", "unregister"}
                        /\ sub[c] # "none"

TypeInv == TypeOK /\ Identified
IInv == /\ TypeInv
        /\ BufferExclusive
        /\ PeerLife
        /\ NoStaleEntry
        /\ Unsubscribed
        /\ Counted
        /\ EarlyClose
        /\ OrphanOnlyByOverflow

-----------------------------------------------------------------------------
(* Types                                                                   *)

\* The empty queue.
LEMMA NoMsgs == <<>> \in Seq(Msgs)
  OBVIOUS

\* Every operation of the broker keeps the types of its variables.
LEMMA BrokerOpTypes ==
  ASSUME BrokerTypeOK
  PROVE  /\ \A c \in Conns, k \in Clients : Subscribe(c, k) => BrokerTypeOK'
         /\ \A c \in Conns : Unsubscribe(c) => BrokerTypeOK'
         /\ \A k, l \in Clients : Publish(k, l) => BrokerTypeOK'
         /\ Drain => BrokerTypeOK'
         /\ \A c \in Conns : DrainSub(c) => BrokerTypeOK'
         /\ BrokerClosed => BrokerTypeOK'
         /\ \A c \in Conns : NextPending(c) => BrokerTypeOK'
<1>1. ASSUME NEW c \in Conns, NEW k \in Clients, Subscribe(c, k)
      PROVE  BrokerTypeOK'
  BY <1>1 DEF Subscribe, BrokerTypeOK
<1>2. ASSUME NEW c \in Conns, Unsubscribe(c)
      PROVE  BrokerTypeOK'
  <2>1. CASE broker = "open" /\ sub[c] = "active"
    BY <1>2, <2>1, NoMsgs DEF Unsubscribe, BrokerTypeOK
  <2>2. CASE ~(broker = "open" /\ sub[c] = "active")
    BY <1>2, <2>2 DEF Unsubscribe, BrokerTypeOK
  <2> QED
    BY <2>1, <2>2
<1>3. ASSUME NEW k \in Clients, NEW l \in Clients, Publish(k, l)
      PROVE  BrokerTypeOK'
  <2> DEFINE m == [n |-> Len(published) + 1, from |-> k, to |-> l]
  <2>1. m \in Msgs
    BY DEF Msgs, BrokerTypeOK
  <2>2. published' = Append(published, m)
    BY <1>3 DEF Publish
  <2>3. PICK R \in SUBSET Listeners(l) :
          /\ pending' = [c \in Conns |-> IF c \in R THEN Append(pending[c], m)
                                                    ELSE pending[c]]
          /\ accepted' = [c \in Conns |-> IF c \in R THEN Append(accepted[c], m)
                                                     ELSE accepted[c]]
    BY <1>3 DEF Publish
  <2> HIDE DEF m
  <2>4. published' \in Seq(Msgs)
    BY <2>1, <2>2 DEF BrokerTypeOK
  <2>5. pending' \in [Conns -> Seq(Msgs)] /\ accepted' \in [Conns -> Seq(Msgs)]
    BY <2>1, <2>3 DEF BrokerTypeOK
  <2>6. UNCHANGED <<broker, sub, subject>>
    BY <1>3 DEF Publish
  <2> QED
    BY <2>4, <2>5, <2>6 DEF BrokerTypeOK
<1>4. Drain => BrokerTypeOK'
  BY DEF Drain, BrokerTypeOK
<1>5. ASSUME NEW c \in Conns, DrainSub(c)
      PROVE  BrokerTypeOK'
  BY <1>5 DEF DrainSub, BrokerTypeOK
<1>6. BrokerClosed => BrokerTypeOK'
  BY DEF BrokerClosed, BrokerTypeOK
<1>7. ASSUME NEW c \in Conns, NextPending(c)
      PROVE  BrokerTypeOK'
  BY <1>7 DEF NextPending, BrokerTypeOK
<1> QED
  BY <1>1, <1>2, <1>3, <1>4, <1>5, <1>6, <1>7

\* Every step of a peer's goroutines keeps the types of peer and broker.
LEMMA PeerStepTypes ==
  ASSUME BrokerTypeOK, PeerTypeOK, NEW c \in Conns, PeerStep(c)
  PROVE  BrokerTypeOK' /\ PeerTypeOK'
<1> USE DEF BeginClose, CloseReturns, CallbackReturns
<1>1. CASE CloseUnsubscribe(c)
  <2>1. BrokerTypeOK'
    BY <1>1, BrokerOpTypes DEF CloseUnsubscribe, brokerVars, BrokerTypeOK
  <2>2. PeerTypeOK'
    BY <1>1 DEF CloseUnsubscribe, PeerTypeOK
  <2> QED
    BY <2>1, <2>2
<1>2. CASE CloseConnection(c)
  BY <1>2 DEF CloseConnection, brokerVars, BrokerTypeOK, PeerTypeOK
<1>3. CASE Dispatch(c)
  <2>1. BrokerTypeOK'
    BY <1>3, BrokerOpTypes DEF Dispatch
  <2>2. Head(pending[c]) \in Msgs
    BY <1>3 DEF Dispatch, NextPending, BrokerTypeOK
  <2>3. PeerTypeOK'
    BY <1>3, <2>2 DEF Dispatch, PeerTypeOK
  <2> QED
    BY <2>1, <2>3
<1>4. CASE Enqueue(c)
  BY <1>4 DEF Enqueue, brokerVars, BrokerTypeOK, PeerTypeOK
<1>5. CASE DropClosed(c)
  BY <1>5 DEF DropClosed, brokerVars, BrokerTypeOK, PeerTypeOK
<1>6. CASE BufferFull(c)
  BY <1>6 DEF BufferFull, brokerVars, BrokerTypeOK, PeerTypeOK
<1>7. CASE SlowConsumer(c)
  BY <1>7 DEF SlowConsumer, brokerVars, BrokerTypeOK, PeerTypeOK
<1>8. CASE SlowConsumerClose(c)
  <2>1. CASE BeginClose(c) /\ UNCHANGED <<cb, callback>>
    BY <1>8, <2>1 DEF SlowConsumerClose, brokerVars, BrokerTypeOK, PeerTypeOK
  <2>2. CASE CloseReturns(c) /\ CallbackReturns(c)
    BY <1>8, <2>2, NoMsgs
       DEF SlowConsumerClose, brokerVars, BrokerTypeOK, PeerTypeOK
  <2> QED
    BY <1>8, <2>1, <2>2 DEF SlowConsumerClose
<1>9. CASE WriterStops(c)
  BY <1>9 DEF WriterStops, brokerVars, BrokerTypeOK, PeerTypeOK
<1>10. CASE WriterTakes(c)
  BY <1>10 DEF WriterTakes, brokerVars, BrokerTypeOK, PeerTypeOK
<1>11. CASE WriteSucceeds(c)
  BY <1>11 DEF WriteSucceeds, brokerVars, BrokerTypeOK, PeerTypeOK
<1>12. CASE WriteFails(c)
  BY <1>12 DEF WriteFails, brokerVars, BrokerTypeOK, PeerTypeOK
<1>13. CASE WriterCloses(c)
  <2>1. CASE BeginClose(c) /\ UNCHANGED <<wl, writing>>
    BY <1>13, <2>1 DEF WriterCloses, brokerVars, BrokerTypeOK, PeerTypeOK
  <2>2. CASE /\ CloseReturns(c)
             /\ wl' = [wl EXCEPT ![c] = "done"]
             /\ writing' = [writing EXCEPT ![c] = <<>>]
    BY <1>13, <2>2, NoMsgs DEF WriterCloses, brokerVars, BrokerTypeOK, PeerTypeOK
  <2> QED
    BY <1>13, <2>1, <2>2 DEF WriterCloses
<1> QED
  BY <1>1, <1>2, <1>3, <1>4, <1>5, <1>6, <1>7, <1>8, <1>9, <1>10, <1>11,
     <1>12, <1>13 DEF PeerStep, CloseBody, Callback, WriteLoop

\* Every step keeps TypeInv.
LEMMA TypeStep ==
  ASSUME TypeInv, BufferExclusive, [Next]_vars
  PROVE  TypeInv'
<1>1. ASSUME NEW c \in Conns, Accept(c)
      PROVE  TypeInv'
  <2>1. BrokerTypeOK'
    BY <1>1 DEF Accept, KeepBroker, brokerVars, TypeInv, TypeOK, BrokerTypeOK
  <2> QED
    BY <1>1, <2>1 DEF Accept, Goto, TypeInv, TypeOK, PeerTypeOK,
       Identified, Named, States
<1>2. ASSUME NEW c \in Conns, Reject(c)
      PROVE  TypeInv'
  BY <1>2 DEF Reject, Goto, KeepBroker, brokerVars, TypeInv, TypeOK,
     BrokerTypeOK, PeerTypeOK, Identified, Named, States
<1>3. ASSUME StopAccepting
      PROVE  TypeInv'
  BY <1>3 DEF StopAccepting, KeepPeer, peerVars, KeepBroker, brokerVars,
     TypeInv, TypeOK, BrokerTypeOK, PeerTypeOK, Identified, Named, States
<1>4. ASSUME ServeReturns
      PROVE  TypeInv'
  <2>1. BrokerTypeOK'
    BY <1>4, BrokerOpTypes DEF ServeReturns, TypeInv, TypeOK
  <2> QED
    BY <1>4, <2>1 DEF ServeReturns, KeepPeer, peerVars, routerVars, TypeInv, TypeOK,
       PeerTypeOK, Identified
<1>5. ASSUME NEW c \in Conns, NEW k \in Clients, AuthOK(c, k)
      PROVE  TypeInv'
  BY <1>5 DEF AuthOK, Goto, KeepPeer, peerVars, KeepBroker, brokerVars, TypeInv,
     TypeOK, BrokerTypeOK, PeerTypeOK, Identified, Named, States
<1>6. ASSUME NEW c \in Conns, AuthFails(c)
      PROVE  TypeInv'
  BY <1>6 DEF AuthFails, Goto, KeepPeer, peerVars, KeepBroker, brokerVars,
     TypeInv, TypeOK, BrokerTypeOK, PeerTypeOK, Identified, Named, States
<1>7. ASSUME NEW c \in Conns, NewPeer(c)
      PROVE  TypeInv'
  <2>1. BrokerTypeOK'
    BY <1>7, BrokerOpTypes DEF NewPeer, TypeInv, TypeOK, Identified, Named
  <2> QED
    BY <1>7, <2>1 DEF NewPeer, Goto, KeepPeer, peerVars, TypeInv, TypeOK, PeerTypeOK,
       Identified, Named, States
<1>8. ASSUME NEW c \in Conns, NewPeerFails(c)
      PROVE  TypeInv'
  BY <1>8 DEF NewPeerFails, Goto, KeepPeer, peerVars, KeepBroker, brokerVars,
     TypeInv, TypeOK, BrokerTypeOK, PeerTypeOK, Identified, Named, States
<1>9. ASSUME NEW c \in Conns, AssignSubscriber(c)
      PROVE  TypeInv'
  BY <1>9 DEF AssignSubscriber, Goto, KeepBroker, brokerVars, TypeInv, TypeOK,
     BrokerTypeOK, PeerTypeOK, Identified, Named, States
<1>10. ASSUME NEW c \in Conns, LoadAndDelete(c)
      PROVE  TypeInv'
  <2>1. BrokerTypeOK'
    BY <1>10 DEF LoadAndDelete, KeepBroker, brokerVars, TypeInv, TypeOK, BrokerTypeOK
  <2> QED
    BY <1>10, <2>1 DEF LoadAndDelete, Goto, KeepPeer, peerVars, TypeInv, TypeOK, PeerTypeOK,
       Identified, Named, States
<1>11. ASSUME NEW c \in Conns, CloseOld(c)
      PROVE  TypeInv'
  <2>1. CASE BeginClose(old[c]) /\ UNCHANGED pc
    BY <1>11, <2>1
       DEF CloseOld, Goto, KeepBroker, brokerVars, BeginClose, TypeInv, TypeOK,
           BrokerTypeOK, PeerTypeOK, Identified, Named, States
  <2>2. CASE CloseReturns(old[c]) /\ Goto(c, "store")
    BY <1>11, <2>2
       DEF CloseOld, Goto, KeepBroker, brokerVars, CloseReturns, TypeInv,
           TypeOK, BrokerTypeOK, PeerTypeOK, Identified, Named, States
  <2> QED
    BY <1>11, <2>1, <2>2 DEF CloseOld
<1>12. ASSUME NEW c \in Conns, Store(c)
      PROVE  TypeInv'
  BY <1>12 DEF Store, Goto, KeepBroker, brokerVars, TypeInv, TypeOK,
     BrokerTypeOK, PeerTypeOK, Identified, Named, States
<1>13. ASSUME NEW c \in Conns, SeesClosed(c)
      PROVE  TypeInv'
  BY <1>13 DEF SeesClosed, Goto, KeepPeer, peerVars, KeepBroker, brokerVars,
     TypeInv, TypeOK, BrokerTypeOK, PeerTypeOK, Identified, Named, States
<1>14. ASSUME NEW c \in Conns, CheckLimit(c)
      PROVE  TypeInv'
  <2>1. CASE Goto(c, "read")
    BY <1>14, <2>1
       DEF CheckLimit, Goto, KeepPeer, peerVars, KeepBroker, brokerVars,
           TypeInv, TypeOK, BrokerTypeOK, PeerTypeOK, Identified, Named, States
  <2>2. CASE Goto(c, "unregister")
    BY <1>14, <2>2
       DEF CheckLimit, Goto, KeepPeer, peerVars, KeepBroker, brokerVars,
           TypeInv, TypeOK, BrokerTypeOK, PeerTypeOK, Identified, Named, States
  <2> QED
    BY <1>14, <2>1, <2>2 DEF CheckLimit
<1>15. ASSUME NEW c \in Conns, NEW k \in Clients, HandleMessage(c, k)
      PROVE  TypeInv'
  <2>1. BrokerTypeOK'
    BY <1>15, BrokerOpTypes DEF HandleMessage, TypeInv, TypeOK, Identified, Named
  <2> QED
    BY <1>15, <2>1 DEF HandleMessage, Goto, KeepPeer, peerVars, TypeInv, TypeOK,
       PeerTypeOK, Identified, Named, States
<1>16. ASSUME NEW c \in Conns, HandleMessageFails(c)
      PROVE  TypeInv'
  <2>1. BrokerTypeOK'
    BY <1>16 DEF HandleMessageFails, KeepBroker, brokerVars, TypeInv, TypeOK, BrokerTypeOK
  <2> QED
    BY <1>16, <2>1 DEF HandleMessageFails, Goto, KeepPeer, peerVars, TypeInv, TypeOK, PeerTypeOK,
       Identified, Named, States
<1>17. ASSUME NEW c \in Conns, Unregister(c)
      PROVE  TypeInv'
  <2>1. BrokerTypeOK'
    BY <1>17 DEF Unregister, KeepBroker, brokerVars, TypeInv, TypeOK, BrokerTypeOK
  <2> QED
    BY <1>17, <2>1 DEF Unregister, Goto, KeepPeer, peerVars, TypeInv, TypeOK, PeerTypeOK,
       Identified, Named, States
<1>18. ASSUME NEW c \in Conns, ClosePeer(c)
      PROVE  TypeInv'
  <2>1. CASE BeginClose(c) /\ UNCHANGED pc
    BY <1>18, <2>1
       DEF ClosePeer, Goto, KeepBroker, brokerVars, BeginClose, TypeInv, TypeOK,
           BrokerTypeOK, PeerTypeOK, Identified, Named, States
  <2>2. CASE CloseReturns(c) /\ Goto(c, "closeConn")
    BY <1>18, <2>2
       DEF ClosePeer, Goto, KeepBroker, brokerVars, CloseReturns, TypeInv,
           TypeOK, BrokerTypeOK, PeerTypeOK, Identified, Named, States
  <2> QED
    BY <1>18, <2>1, <2>2 DEF ClosePeer
<1>19. ASSUME NEW c \in Conns, CloseConn(c)
      PROVE  TypeInv'
  <2>1. BrokerTypeOK'
    BY <1>19 DEF CloseConn, KeepBroker, brokerVars, TypeInv, TypeOK, BrokerTypeOK
  <2> QED
    BY <1>19, <2>1 DEF CloseConn, Goto, TypeInv, TypeOK, PeerTypeOK,
       Identified, Named, States
<1>20. ASSUME NEW c \in Conns, Release(c)
      PROVE  TypeInv'
  <2>1. buf[c] # None
    BY <1>20 DEF Release, BufferExclusive, Holding, States
  <2> QED
    BY <1>20, <2>1 DEF Release, Goto, KeepPeer, peerVars, KeepBroker, brokerVars,
       TypeInv, TypeOK, BrokerTypeOK, PeerTypeOK, Identified, Named, States
<1>21. ASSUME NEW c \in Conns, PeerStep(c), UNCHANGED routerVars
      PROVE  TypeInv'
  <2>1. BrokerTypeOK' /\ PeerTypeOK'
    BY <1>21, PeerStepTypes DEF TypeInv, TypeOK
  <2> QED
    BY <1>21, <2>1 DEF routerVars, TypeInv, TypeOK, Identified
<1>22. ASSUME BrokerStep
      PROVE  TypeInv'
  <2>1. BrokerTypeOK'
    BY <1>22, BrokerOpTypes DEF BrokerStep, TypeInv, TypeOK
  <2> QED
    BY <1>22, <2>1 DEF BrokerStep, KeepPeer, peerVars, routerVars, TypeInv, TypeOK,
       PeerTypeOK, Identified
<1>23. CASE UNCHANGED vars
  BY <1>23 DEF vars, TypeInv, TypeOK, BrokerTypeOK, PeerTypeOK, Identified,
     Named, States
<1> QED
  BY <1>1, <1>2, <1>3, <1>4, <1>5, <1>6, <1>7, <1>8, <1>9, <1>10, <1>11, <1>12,
     <1>13, <1>14, <1>15, <1>16, <1>17, <1>18, <1>19, <1>20, <1>21, <1>22, <1>23
     DEF Next, HandlerStep, HandlerRuns, Authenticate

-----------------------------------------------------------------------------
(* What the operations of broker and peers change                          *)

\* Publish hands a message to live subscriptions only, and to each it hands
\* it to, exactly one.
LEMMA PublishFrame ==
  ASSUME BrokerTypeOK, NEW k \in Clients, NEW l \in Clients, Publish(k, l)
  PROVE  /\ UNCHANGED <<broker, sub, subject>>
         /\ \A d \in Conns :
              \/ pending'[d] = pending[d] /\ accepted'[d] = accepted[d]
              \/ /\ sub[d] = "active"
                 /\ Len(pending'[d]) = Len(pending[d]) + 1
                 /\ Len(accepted'[d]) = Len(accepted[d]) + 1
<1> DEFINE m == [n |-> Len(published) + 1, from |-> k, to |-> l]
<1>1. PICK R \in SUBSET Listeners(l) :
        /\ pending' = [c \in Conns |-> IF c \in R THEN Append(pending[c], m)
                                                  ELSE pending[c]]
        /\ accepted' = [c \in Conns |-> IF c \in R THEN Append(accepted[c], m)
                                                   ELSE accepted[c]]
  BY DEF Publish
<1>2. m \in Msgs
  BY DEF Msgs, BrokerTypeOK
<1> HIDE DEF m
<1>3. UNCHANGED <<broker, sub, subject>>
  BY DEF Publish
<1>4. ASSUME NEW d \in Conns
      PROVE  \/ pending'[d] = pending[d] /\ accepted'[d] = accepted[d]
             \/ /\ sub[d] = "active"
                /\ Len(pending'[d]) = Len(pending[d]) + 1
                /\ Len(accepted'[d]) = Len(accepted[d]) + 1
  <2>1. CASE d \in R
    <3>1. sub[d] = "active"
      BY <2>1, <1>1 DEF Listeners
    <3>2. pending[d] \in Seq(Msgs) /\ accepted[d] \in Seq(Msgs)
      BY DEF BrokerTypeOK
    <3>3. pending'[d] = Append(pending[d], m) /\ accepted'[d] = Append(accepted[d], m)
      BY <1>1, <2>1
    <3> QED
      BY <1>2, <3>1, <3>2, <3>3
  <2>2. CASE d \notin R
    BY <1>1, <2>2
  <2> QED
    BY <2>1, <2>2
<1> QED
  BY <1>3, <1>4

\* A step of NATS by itself only ends subscriptions, adds a message to what a
\* subscription holds and got together, and never takes back what it got.
LEMMA BrokerStepFrame ==
  ASSUME BrokerTypeOK, BrokerStep
  PROVE  /\ UNCHANGED peerVars /\ UNCHANGED routerVars
         /\ broker' # broker => \A d \in Conns : sub'[d] # "active"
         /\ \A d \in Conns :
              /\ sub'[d] = sub[d] \/ (sub[d] # "none" /\ sub'[d] = "gone")
              /\ sub[d] = "none" => Len(accepted'[d]) = Len(accepted[d])
              /\ Len(accepted[d]) <= Len(accepted'[d])
              /\ Len(pending'[d]) + Len(accepted[d])
                    <= Len(pending[d]) + Len(accepted'[d])
<1>1. UNCHANGED peerVars /\ UNCHANGED routerVars
  BY DEF BrokerStep, KeepPeer
<1>2. \A d \in Conns : Len(pending[d]) \in Nat /\ Len(accepted[d]) \in Nat
  BY DEF BrokerTypeOK
<1>3. CASE BrokerClosed
  BY <1>1, <1>2, <1>3 DEF BrokerClosed, BrokerTypeOK
<1>4. CASE \E c \in Conns : DrainSub(c)
  BY <1>1, <1>2, <1>4 DEF DrainSub, BrokerTypeOK
<1>5. CASE \E k, l \in Clients : Publish(k, l)
  <2>1. PICK k \in Clients, l \in Clients : Publish(k, l)
    BY <1>5
  <2>2. /\ UNCHANGED <<broker, sub>>
        /\ \A d \in Conns :
             \/ pending'[d] = pending[d] /\ accepted'[d] = accepted[d]
             \/ /\ sub[d] = "active"
                /\ Len(pending'[d]) = Len(pending[d]) + 1
                /\ Len(accepted'[d]) = Len(accepted[d]) + 1
    BY <2>1, PublishFrame
  <2>3. ASSUME NEW d \in Conns
        PROVE  /\ sub[d] = "none" => Len(accepted'[d]) = Len(accepted[d])
               /\ Len(accepted[d]) <= Len(accepted'[d])
               /\ Len(pending'[d]) + Len(accepted[d])
                     <= Len(pending[d]) + Len(accepted'[d])
    <3>1. Len(pending[d]) \in Nat /\ Len(accepted[d]) \in Nat
      BY <1>2
    <3>2. CASE pending'[d] = pending[d] /\ accepted'[d] = accepted[d]
      BY <3>1, <3>2
    <3>3. CASE /\ sub[d] = "active"
               /\ Len(pending'[d]) = Len(pending[d]) + 1
               /\ Len(accepted'[d]) = Len(accepted[d]) + 1
      <4> DEFINE p == Len(pending'[d])  q == Len(accepted'[d])
                 a == Len(pending[d])   b == Len(accepted[d])
      <4>1. a \in Nat /\ b \in Nat /\ p = a + 1 /\ q = b + 1
        BY <3>1, <3>3
      <4> HIDE DEF p, q, a, b
      <4>2. b <= q /\ p + b <= a + q
        BY <4>1
      <4> QED
        BY <3>3, <4>2 DEF p, q, a, b
    <3> QED
      BY <2>2, <3>2, <3>3
  <2> QED
    BY <1>1, <2>2, <2>3
<1> QED
  BY <1>3, <1>4, <1>5 DEF BrokerStep

\* A step of a peer's goroutines publishes nothing and assigns no subscriber;
\* it may end the peer's subscription, close its connection, and move the
\* body of Close on, which only the callback or the write loop may begin.
LEMMA PeerStepFrame ==
  ASSUME BrokerTypeOK, PeerTypeOK, NEW c \in Conns, PeerStep(c)
  PROVE  /\ UNCHANGED <<broker, subject, published, accepted, subscriber>>
         /\ \A d \in Conns :
              /\ sub'[d] = sub[d] \/ (sub[d] = "active" /\ sub'[d] = "gone")
              /\ conn[d] = "closed" => conn'[d] = "closed"
              /\ wl[d] = "off" => wl'[d] = "off"
              /\ \/ once'[d] = once[d]
                 \/ /\ once[d] = "idle" /\ once'[d] = "unsub"
                    /\ cb[d] = "close" \/ wl[d] = "close"
                 \/ once[d] = "unsub" /\ once'[d] = "conn"
                 \/ once[d] = "conn" /\ once'[d] = "done"
<1> USE DEF BeginClose, CloseReturns, CallbackReturns, brokerVars
<1>1. CASE CloseUnsubscribe(c)
  <2>1. CASE subscriber[c]
    BY <1>1, <2>1 DEF CloseUnsubscribe, Unsubscribe, BrokerTypeOK, PeerTypeOK
  <2>2. CASE ~subscriber[c]
    BY <1>1, <2>2 DEF CloseUnsubscribe, BrokerTypeOK, PeerTypeOK
  <2> QED
    BY <2>1, <2>2
<1>2. CASE CloseConnection(c)
  BY <1>2 DEF CloseConnection, BrokerTypeOK, PeerTypeOK
<1>3. CASE Dispatch(c)
  BY <1>3 DEF Dispatch, NextPending, BrokerTypeOK, PeerTypeOK
<1>4. CASE Enqueue(c)
  BY <1>4 DEF Enqueue, BrokerTypeOK, PeerTypeOK
<1>5. CASE DropClosed(c)
  BY <1>5 DEF DropClosed, BrokerTypeOK, PeerTypeOK
<1>6. CASE BufferFull(c)
  BY <1>6 DEF BufferFull, BrokerTypeOK, PeerTypeOK
<1>7. CASE SlowConsumer(c)
  BY <1>7 DEF SlowConsumer, BrokerTypeOK, PeerTypeOK
<1>8. CASE SlowConsumerClose(c)
  BY <1>8 DEF SlowConsumerClose, BrokerTypeOK, PeerTypeOK
<1>9. CASE WriterStops(c)
  BY <1>9 DEF WriterStops, BrokerTypeOK, PeerTypeOK
<1>10. CASE WriterTakes(c)
  BY <1>10 DEF WriterTakes, BrokerTypeOK, PeerTypeOK
<1>11. CASE WriteSucceeds(c)
  BY <1>11 DEF WriteSucceeds, BrokerTypeOK, PeerTypeOK
<1>12. CASE WriteFails(c)
  BY <1>12 DEF WriteFails, BrokerTypeOK, PeerTypeOK
<1>13. CASE WriterCloses(c)
  BY <1>13 DEF WriterCloses, BrokerTypeOK, PeerTypeOK
<1> QED
  BY <1>1, <1>2, <1>3, <1>4, <1>5, <1>6, <1>7, <1>8, <1>9, <1>10, <1>11,
     <1>12, <1>13 DEF PeerStep, CloseBody, Callback, WriteLoop

-----------------------------------------------------------------------------
(* The steps preserve the parts of the inductive invariant                 *)

\* Every step keeps BufferExclusive.
LEMMA BufferStep ==
  ASSUME TypeInv, BufferExclusive, [Next]_vars
  PROVE  BufferExclusive'
<1>1. ASSUME NEW c \in Conns, Accept(c)
      PROVE  BufferExclusive'
  <2>1. PICK b \in authSem : authSem' = authSem \ {b} /\ buf' = [buf EXCEPT ![c] = b]
    BY <1>1 DEF Accept
  <2>2. b \in Bufs /\ b # None /\ pc' = [pc EXCEPT ![c] = "auth"] /\ pc[c] = "new"
    BY <1>1, <2>1, BufsAssumption DEF Accept, Goto, TypeInv, TypeOK
  <2> QED
    BY <2>1, <2>2, BufsAssumption DEF BufferExclusive, Holding, States, TypeInv, TypeOK
<1>2. ASSUME NEW c \in Conns, Reject(c)
      PROVE  BufferExclusive'
  BY <1>2 DEF Reject, Goto, BufferExclusive, Holding, States, TypeInv, TypeOK
<1>3. ASSUME StopAccepting
      PROVE  BufferExclusive'
  BY <1>3 DEF StopAccepting, BufferExclusive, Holding, States, TypeInv, TypeOK
<1>4. ASSUME ServeReturns
      PROVE  BufferExclusive'
  BY <1>4 DEF ServeReturns, routerVars, BufferExclusive
<1>5. ASSUME NEW c \in Conns, NEW k \in Clients, AuthOK(c, k)
      PROVE  BufferExclusive'
  BY <1>5 DEF AuthOK, Goto, BufferExclusive, Holding, States, TypeInv, TypeOK
<1>6. ASSUME NEW c \in Conns, AuthFails(c)
      PROVE  BufferExclusive'
  BY <1>6 DEF AuthFails, Goto, BufferExclusive, Holding, States, TypeInv, TypeOK
<1>7. ASSUME NEW c \in Conns, NewPeer(c)
      PROVE  BufferExclusive'
  BY <1>7 DEF NewPeer, Goto, BufferExclusive, Holding, States, TypeInv, TypeOK
<1>8. ASSUME NEW c \in Conns, NewPeerFails(c)
      PROVE  BufferExclusive'
  BY <1>8 DEF NewPeerFails, Goto, BufferExclusive, Holding, States, TypeInv,
     TypeOK
<1>9. ASSUME NEW c \in Conns, AssignSubscriber(c)
      PROVE  BufferExclusive'
  BY <1>9 DEF AssignSubscriber, Goto, BufferExclusive, Holding, States, TypeInv,
     TypeOK
<1>10. ASSUME NEW c \in Conns, LoadAndDelete(c)
      PROVE  BufferExclusive'
  BY <1>10 DEF LoadAndDelete, Goto, BufferExclusive, Holding, States, TypeInv,
     TypeOK
<1>11. ASSUME NEW c \in Conns, CloseOld(c)
      PROVE  BufferExclusive'
  BY <1>11 DEF CloseOld, Goto, BufferExclusive, Holding, States, TypeInv, TypeOK
<1>12. ASSUME NEW c \in Conns, Store(c)
      PROVE  BufferExclusive'
  BY <1>12 DEF Store, Goto, BufferExclusive, Holding, States, TypeInv, TypeOK
<1>13. ASSUME NEW c \in Conns, SeesClosed(c)
      PROVE  BufferExclusive'
  BY <1>13 DEF SeesClosed, Goto, BufferExclusive, Holding, States, TypeInv,
     TypeOK
<1>14. ASSUME NEW c \in Conns, CheckLimit(c)
      PROVE  BufferExclusive'
  BY <1>14 DEF CheckLimit, Goto, BufferExclusive, Holding, States, TypeInv,
     TypeOK
<1>15. ASSUME NEW c \in Conns, NEW k \in Clients, HandleMessage(c, k)
      PROVE  BufferExclusive'
  BY <1>15 DEF HandleMessage, Goto, BufferExclusive, Holding, States, TypeInv,
     TypeOK
<1>16. ASSUME NEW c \in Conns, HandleMessageFails(c)
      PROVE  BufferExclusive'
  BY <1>16 DEF HandleMessageFails, Goto, BufferExclusive, Holding, States,
     TypeInv, TypeOK
<1>17. ASSUME NEW c \in Conns, Unregister(c)
      PROVE  BufferExclusive'
  BY <1>17 DEF Unregister, Goto, BufferExclusive, Holding, States, TypeInv,
     TypeOK
<1>18. ASSUME NEW c \in Conns, ClosePeer(c)
      PROVE  BufferExclusive'
  BY <1>18 DEF ClosePeer, Goto, BufferExclusive, Holding, States, TypeInv,
     TypeOK
<1>19. ASSUME NEW c \in Conns, CloseConn(c)
      PROVE  BufferExclusive'
  BY <1>19 DEF CloseConn, Goto, BufferExclusive, Holding, States, TypeInv,
     TypeOK
<1>20. ASSUME NEW c \in Conns, Release(c)
      PROVE  BufferExclusive'
  <2>1. /\ authSem' = authSem \cup {buf[c]} /\ buf' = [buf EXCEPT ![c] = None]
        /\ pc' = [pc EXCEPT ![c] = "done"] /\ pc[c] = "release"
    BY <1>20 DEF Release, Goto
  <2>2. buf[c] \in Bufs /\ buf[c] # None
    BY <2>1 DEF BufferExclusive, Holding, States, TypeInv, TypeOK
  <2> QED
    BY <2>1, <2>2, BufsAssumption DEF BufferExclusive, Holding, States, TypeInv, TypeOK
<1>21. ASSUME NEW c \in Conns, PeerStep(c), UNCHANGED routerVars
      PROVE  BufferExclusive'
  BY <1>21 DEF routerVars, BufferExclusive
<1>22. ASSUME BrokerStep
      PROVE  BufferExclusive'
  BY <1>22 DEF BrokerStep, routerVars, BufferExclusive
<1>23. CASE UNCHANGED vars
  BY <1>23 DEF vars, BufferExclusive, Holding, States, TypeInv, TypeOK
<1> QED
  BY <1>1, <1>2, <1>3, <1>4, <1>5, <1>6, <1>7, <1>8, <1>9, <1>10, <1>11, <1>12,
     <1>13, <1>14, <1>15, <1>16, <1>17, <1>18, <1>19, <1>20, <1>21, <1>22, <1>23
     DEF Next, HandlerStep, HandlerRuns, Authenticate

\* Every step keeps PeerLife.
LEMMA PeerLifeStep ==
  ASSUME TypeInv, PeerLife, EarlyClose, [Next]_vars
  PROVE  PeerLife'
<1>1. ASSUME NEW c \in Conns, Accept(c)
      PROVE  PeerLife'
  BY <1>1 DEF Accept, Goto, KeepBroker, brokerVars, PeerLife, Named, Subscribed,
     Assigned, Leaving, TypeInv, TypeOK, BrokerTypeOK, PeerTypeOK
<1>2. ASSUME NEW c \in Conns, Reject(c)
      PROVE  PeerLife'
  BY <1>2 DEF Reject, Goto, KeepBroker, brokerVars, PeerLife, Named, Subscribed,
     Assigned, Leaving, TypeInv, TypeOK, BrokerTypeOK, PeerTypeOK
<1>3. ASSUME StopAccepting
      PROVE  PeerLife'
  BY <1>3 DEF StopAccepting, KeepPeer, peerVars, KeepBroker, brokerVars,
     PeerLife, Named, Subscribed, Assigned, Leaving, TypeInv, TypeOK,
     BrokerTypeOK, PeerTypeOK
<1>4. ASSUME ServeReturns
      PROVE  PeerLife'
  BY <1>4 DEF ServeReturns, KeepPeer, peerVars, routerVars, Drain, PeerLife,
     Named, Subscribed, Assigned, Leaving, TypeInv, TypeOK, BrokerTypeOK,
     PeerTypeOK
<1>5. ASSUME NEW c \in Conns, NEW k \in Clients, AuthOK(c, k)
      PROVE  PeerLife'
  BY <1>5 DEF AuthOK, Goto, KeepPeer, peerVars, KeepBroker, brokerVars,
     PeerLife, Named, Subscribed, Assigned, Leaving, TypeInv, TypeOK,
     BrokerTypeOK, PeerTypeOK
<1>6. ASSUME NEW c \in Conns, AuthFails(c)
      PROVE  PeerLife'
  BY <1>6 DEF AuthFails, Goto, KeepPeer, peerVars, KeepBroker, brokerVars,
     PeerLife, Named, Subscribed, Assigned, Leaving, TypeInv, TypeOK,
     BrokerTypeOK, PeerTypeOK
<1>7. ASSUME NEW c \in Conns, NewPeer(c)
      PROVE  PeerLife'
  BY <1>7 DEF NewPeer, Goto, KeepPeer, peerVars, Subscribe, PeerLife, Named,
     Subscribed, Assigned, Leaving, TypeInv, TypeOK, BrokerTypeOK, PeerTypeOK
<1>8. ASSUME NEW c \in Conns, NewPeerFails(c)
      PROVE  PeerLife'
  BY <1>8 DEF NewPeerFails, Goto, KeepPeer, peerVars, KeepBroker, brokerVars,
     PeerLife, Named, Subscribed, Assigned, Leaving, TypeInv, TypeOK,
     BrokerTypeOK, PeerTypeOK
<1>9. ASSUME NEW c \in Conns, AssignSubscriber(c)
      PROVE  PeerLife'
  BY <1>9 DEF AssignSubscriber, Goto, KeepBroker, brokerVars, PeerLife, Named,
     Subscribed, Assigned, Leaving, TypeInv, TypeOK, BrokerTypeOK, PeerTypeOK
<1>10. ASSUME NEW c \in Conns, LoadAndDelete(c)
      PROVE  PeerLife'
  BY <1>10 DEF LoadAndDelete, Goto, KeepPeer, peerVars, KeepBroker, brokerVars,
     PeerLife, Named, Subscribed, Assigned, Leaving, TypeInv, TypeOK,
     BrokerTypeOK, PeerTypeOK
<1>11. ASSUME NEW c \in Conns, CloseOld(c)
      PROVE  PeerLife'
  <2> DEFINE d == old[c]
  <2>1. CASE BeginClose(d) /\ UNCHANGED pc
    <3>1. d \in Conns /\ subscriber[d] /\ once[d] = "idle"
      BY <1>11, <2>1 DEF CloseOld, BeginClose, EarlyClose, Identified, TypeInv
    <3>2. /\ once' = [once EXCEPT ![d] = "unsub"]
          /\ UNCHANGED <<pc, sub, accepted, subscriber, conn>>
      BY <1>11, <2>1 DEF CloseOld, BeginClose, KeepBroker, brokerVars
    <3> HIDE DEF d
    <3> QED
      BY <3>1, <3>2 DEF PeerLife, Leaving, TypeInv, TypeOK, PeerTypeOK
  <2>2. CASE CloseReturns(d) /\ Goto(c, "store")
    BY <1>11, <2>2 DEF CloseOld, Goto, CloseReturns, KeepBroker, brokerVars, PeerLife,
       Named, Subscribed, Assigned, Leaving, TypeInv, TypeOK
  <2> QED
    BY <1>11, <2>1, <2>2 DEF CloseOld
<1>12. ASSUME NEW c \in Conns, Store(c)
      PROVE  PeerLife'
  BY <1>12 DEF Store, Goto, KeepBroker, brokerVars, PeerLife, Named, Subscribed,
     Assigned, Leaving, TypeInv, TypeOK, BrokerTypeOK, PeerTypeOK
<1>13. ASSUME NEW c \in Conns, SeesClosed(c)
      PROVE  PeerLife'
  BY <1>13 DEF SeesClosed, Goto, KeepPeer, peerVars, KeepBroker, brokerVars,
     PeerLife, Named, Subscribed, Assigned, Leaving, TypeInv, TypeOK,
     BrokerTypeOK, PeerTypeOK
<1>14. ASSUME NEW c \in Conns, CheckLimit(c)
      PROVE  PeerLife'
  <2>1. CASE Goto(c, "read")
    BY <1>14, <2>1
       DEF CheckLimit, Goto, KeepPeer, peerVars, KeepBroker, brokerVars,
           PeerLife, Named, Subscribed, Assigned, Leaving, TypeInv, TypeOK,
           BrokerTypeOK, PeerTypeOK
  <2>2. CASE Goto(c, "unregister")
    BY <1>14, <2>2
       DEF CheckLimit, Goto, KeepPeer, peerVars, KeepBroker, brokerVars,
           PeerLife, Named, Subscribed, Assigned, Leaving, TypeInv, TypeOK,
           BrokerTypeOK, PeerTypeOK
  <2> QED
    BY <1>14, <2>1, <2>2 DEF CheckLimit
<1>15. ASSUME NEW c \in Conns, NEW k \in Clients, HandleMessage(c, k)
      PROVE  PeerLife'
  <2>1. /\ id[c] \in Clients
        /\ pc[c] = "read" /\ pc' = [pc EXCEPT ![c] = "loop"]
        /\ UNCHANGED <<once, subscriber, conn>>
    BY <1>15 DEF HandleMessage, Goto, KeepPeer, peerVars, Identified, Named, TypeInv
  <2>2. /\ sub' = sub
        /\ \A d \in Conns : sub[d] = "none" => accepted'[d] = accepted[d]
    BY <1>15, <2>1, PublishFrame DEF HandleMessage, TypeInv, TypeOK
  <2> QED
    BY <2>1, <2>2 DEF PeerLife, Named, Subscribed, Assigned, Leaving, TypeInv, TypeOK
<1>16. ASSUME NEW c \in Conns, HandleMessageFails(c)
      PROVE  PeerLife'
  BY <1>16 DEF HandleMessageFails, Goto, KeepPeer, peerVars, KeepBroker,
     brokerVars, PeerLife, Named, Subscribed, Assigned, Leaving, TypeInv,
     TypeOK, BrokerTypeOK, PeerTypeOK
<1>17. ASSUME NEW c \in Conns, Unregister(c)
      PROVE  PeerLife'
  BY <1>17 DEF Unregister, Goto, KeepPeer, peerVars, KeepBroker, brokerVars,
     PeerLife, Named, Subscribed, Assigned, Leaving, TypeInv, TypeOK,
     BrokerTypeOK, PeerTypeOK
<1>18. ASSUME NEW c \in Conns, ClosePeer(c)
      PROVE  PeerLife'
  <2>1. CASE BeginClose(c) /\ UNCHANGED pc
    BY <1>18, <2>1
       DEF ClosePeer, Goto, KeepBroker, brokerVars, BeginClose, PeerLife, Named,
           Subscribed, Assigned, Leaving, TypeInv, TypeOK, BrokerTypeOK,
           PeerTypeOK
  <2>2. CASE CloseReturns(c) /\ Goto(c, "closeConn")
    BY <1>18, <2>2
       DEF ClosePeer, Goto, KeepBroker, brokerVars, CloseReturns, PeerLife,
           Named, Subscribed, Assigned, Leaving, TypeInv, TypeOK, BrokerTypeOK,
           PeerTypeOK
  <2> QED
    BY <1>18, <2>1, <2>2 DEF ClosePeer
<1>19. ASSUME NEW c \in Conns, CloseConn(c)
      PROVE  PeerLife'
  BY <1>19 DEF CloseConn, Goto, KeepBroker, brokerVars, PeerLife, Named,
     Subscribed, Assigned, Leaving, TypeInv, TypeOK, BrokerTypeOK, PeerTypeOK
<1>20. ASSUME NEW c \in Conns, Release(c)
      PROVE  PeerLife'
  BY <1>20 DEF Release, Goto, KeepPeer, peerVars, KeepBroker, brokerVars,
     PeerLife, Named, Subscribed, Assigned, Leaving, TypeInv, TypeOK,
     BrokerTypeOK, PeerTypeOK
<1>21. ASSUME NEW c \in Conns, PeerStep(c), UNCHANGED routerVars
      PROVE  PeerLife'
  <2>1. /\ UNCHANGED <<accepted, subscriber, pc>>
        /\ \A d \in Conns :
             /\ sub'[d] = sub[d] \/ (sub[d] = "active" /\ sub'[d] = "gone")
             /\ conn[d] = "closed" => conn'[d] = "closed"
             /\ \/ once'[d] = once[d]
                \/ /\ once[d] = "idle" /\ once'[d] = "unsub"
                   /\ cb[d] = "close" \/ wl[d] = "close"
                \/ once[d] = "unsub" /\ once'[d] = "conn"
                \/ once[d] = "conn" /\ once'[d] = "done"
    BY <1>21, PeerStepFrame DEF routerVars, TypeInv, TypeOK
  <2>2. \A d \in Conns :
          cb[d] = "close" \/ wl[d] = "close" => Len(accepted[d]) > 0 \/ subscriber[d]
    BY WriteBufferAssumption DEF EarlyClose, Overflowed, TypeInv, TypeOK, BrokerTypeOK
  <2> QED
    BY <2>1, <2>2 DEF PeerLife, Leaving
<1>22. ASSUME BrokerStep
      PROVE  PeerLife'
  <2>1. /\ UNCHANGED <<once, subscriber, conn, pc>>
        /\ \A d \in Conns :
             /\ sub'[d] = sub[d] \/ (sub[d] # "none" /\ sub'[d] = "gone")
             /\ sub[d] = "none" => Len(accepted'[d]) = Len(accepted[d])
    BY <1>22, BrokerStepFrame DEF peerVars, routerVars, TypeInv, TypeOK
  <2> QED
    BY <2>1 DEF PeerLife
<1>23. CASE UNCHANGED vars
  BY <1>23 DEF vars, PeerLife, Named, Subscribed, Assigned, Leaving, TypeInv,
     TypeOK, BrokerTypeOK, PeerTypeOK
<1> QED
  BY <1>1, <1>2, <1>3, <1>4, <1>5, <1>6, <1>7, <1>8, <1>9, <1>10, <1>11, <1>12,
     <1>13, <1>14, <1>15, <1>16, <1>17, <1>18, <1>19, <1>20, <1>21, <1>22, <1>23
     DEF Next, HandlerStep, HandlerRuns, Authenticate

\* Every step keeps NoStaleEntry.
LEMMA StaleStep ==
  ASSUME TypeInv, PeerLife, NoStaleEntry, [Next]_vars
  PROVE  NoStaleEntry'
<1>1. ASSUME NEW c \in Conns, Accept(c)
      PROVE  NoStaleEntry'
  BY <1>1 DEF Accept, Goto, KeepBroker, brokerVars, NoStaleEntry, Identified,
     Named, TypeInv, TypeOK, BrokerTypeOK
<1>2. ASSUME NEW c \in Conns, Reject(c)
      PROVE  NoStaleEntry'
  BY <1>2 DEF Reject, Goto, KeepBroker, brokerVars, NoStaleEntry, Identified,
     Named, TypeInv, TypeOK, BrokerTypeOK
<1>3. ASSUME StopAccepting
      PROVE  NoStaleEntry'
  BY <1>3 DEF StopAccepting, KeepBroker, brokerVars, NoStaleEntry, Identified,
     Named, TypeInv, TypeOK, BrokerTypeOK
<1>4. ASSUME ServeReturns
      PROVE  NoStaleEntry'
  BY <1>4 DEF ServeReturns, routerVars, Drain, NoStaleEntry, Identified, Named,
     TypeInv, TypeOK, BrokerTypeOK
<1>5. ASSUME NEW c \in Conns, NEW k \in Clients, AuthOK(c, k)
      PROVE  NoStaleEntry'
  BY <1>5 DEF AuthOK, Goto, KeepBroker, brokerVars, NoStaleEntry, Identified,
     Named, TypeInv, TypeOK, BrokerTypeOK
<1>6. ASSUME NEW c \in Conns, AuthFails(c)
      PROVE  NoStaleEntry'
  BY <1>6 DEF AuthFails, Goto, KeepBroker, brokerVars, NoStaleEntry, Identified,
     Named, TypeInv, TypeOK, BrokerTypeOK
<1>7. ASSUME NEW c \in Conns, NewPeer(c)
      PROVE  NoStaleEntry'
  BY <1>7 DEF NewPeer, Goto, Subscribe, NoStaleEntry, Identified, Named,
     TypeInv, TypeOK, BrokerTypeOK
<1>8. ASSUME NEW c \in Conns, NewPeerFails(c)
      PROVE  NoStaleEntry'
  BY <1>8 DEF NewPeerFails, Goto, KeepBroker, brokerVars, NoStaleEntry,
     Identified, Named, TypeInv, TypeOK, BrokerTypeOK
<1>9. ASSUME NEW c \in Conns, AssignSubscriber(c)
      PROVE  NoStaleEntry'
  BY <1>9 DEF AssignSubscriber, Goto, KeepBroker, brokerVars, NoStaleEntry,
     Identified, Named, TypeInv, TypeOK, BrokerTypeOK
<1>10. ASSUME NEW c \in Conns, LoadAndDelete(c)
      PROVE  NoStaleEntry'
  BY <1>10, ConnsAssumption DEF LoadAndDelete, Goto, KeepBroker, brokerVars,
     NoStaleEntry, TypeInv, TypeOK
<1>11. ASSUME NEW c \in Conns, CloseOld(c)
      PROVE  NoStaleEntry'
  BY <1>11 DEF CloseOld, Goto, KeepBroker, brokerVars, NoStaleEntry, Identified,
     Named, TypeInv, TypeOK, BrokerTypeOK
<1>12. ASSUME NEW c \in Conns, Store(c)
      PROVE  NoStaleEntry'
  <2>1. sub[c] # "none" /\ id[c] \in Clients
    BY <1>12 DEF Store, PeerLife, Subscribed, Named, Identified, TypeInv
  <2> QED
    BY <1>12, <2>1, ConnsAssumption DEF Store, Goto, KeepBroker, brokerVars, NoStaleEntry,
       TypeInv, TypeOK
<1>13. ASSUME NEW c \in Conns, SeesClosed(c)
      PROVE  NoStaleEntry'
  BY <1>13 DEF SeesClosed, Goto, KeepBroker, brokerVars, NoStaleEntry,
     Identified, Named, TypeInv, TypeOK, BrokerTypeOK
<1>14. ASSUME NEW c \in Conns, CheckLimit(c)
      PROVE  NoStaleEntry'
  <2>1. CASE Goto(c, "read")
    BY <1>14, <2>1
       DEF CheckLimit, Goto, KeepPeer, peerVars, KeepBroker, brokerVars,
           NoStaleEntry, Identified, Named, TypeInv, TypeOK, BrokerTypeOK
  <2>2. CASE Goto(c, "unregister")
    BY <1>14, <2>2
       DEF CheckLimit, Goto, KeepPeer, peerVars, KeepBroker, brokerVars,
           NoStaleEntry, Identified, Named, TypeInv, TypeOK, BrokerTypeOK
  <2> QED
    BY <1>14, <2>1, <2>2 DEF CheckLimit
<1>15. ASSUME NEW c \in Conns, NEW k \in Clients, HandleMessage(c, k)
      PROVE  NoStaleEntry'
  BY <1>15 DEF HandleMessage, Goto, Publish, NoStaleEntry, TypeInv, TypeOK
<1>16. ASSUME NEW c \in Conns, HandleMessageFails(c)
      PROVE  NoStaleEntry'
  BY <1>16 DEF HandleMessageFails, Goto, KeepBroker, brokerVars, NoStaleEntry,
     Identified, Named, TypeInv, TypeOK, BrokerTypeOK
<1>17. ASSUME NEW c \in Conns, Unregister(c)
      PROVE  NoStaleEntry'
  BY <1>17, ConnsAssumption DEF Unregister, Goto, KeepBroker, brokerVars,
     NoStaleEntry, Identified, Named, TypeInv, TypeOK
<1>18. ASSUME NEW c \in Conns, ClosePeer(c)
      PROVE  NoStaleEntry'
  BY <1>18 DEF ClosePeer, Goto, KeepBroker, brokerVars, NoStaleEntry,
     Identified, Named, TypeInv, TypeOK, BrokerTypeOK
<1>19. ASSUME NEW c \in Conns, CloseConn(c)
      PROVE  NoStaleEntry'
  BY <1>19 DEF CloseConn, Goto, KeepBroker, brokerVars, NoStaleEntry,
     Identified, Named, TypeInv, TypeOK, BrokerTypeOK
<1>20. ASSUME NEW c \in Conns, Release(c)
      PROVE  NoStaleEntry'
  BY <1>20 DEF Release, Goto, KeepBroker, brokerVars, NoStaleEntry, Identified,
     Named, TypeInv, TypeOK, BrokerTypeOK
<1>21. ASSUME NEW c \in Conns, PeerStep(c), UNCHANGED routerVars
      PROVE  NoStaleEntry'
  <2>1. /\ UNCHANGED <<id, pc, peers>>
        /\ \A d \in Conns : sub'[d] = sub[d] \/ sub'[d] = "gone"
    BY <1>21, PeerStepFrame DEF routerVars, TypeInv, TypeOK
  <2> QED
    BY <2>1 DEF NoStaleEntry
<1>22. ASSUME BrokerStep
      PROVE  NoStaleEntry'
  <2>1. /\ UNCHANGED <<id, pc, peers>>
        /\ \A d \in Conns : sub'[d] = sub[d] \/ sub'[d] = "gone"
    BY <1>22, BrokerStepFrame DEF routerVars, TypeInv, TypeOK
  <2> QED
    BY <2>1 DEF NoStaleEntry
<1>23. CASE UNCHANGED vars
  BY <1>23 DEF vars, NoStaleEntry, Identified, Named, TypeInv, TypeOK,
     BrokerTypeOK
<1> QED
  BY <1>1, <1>2, <1>3, <1>4, <1>5, <1>6, <1>7, <1>8, <1>9, <1>10, <1>11, <1>12,
     <1>13, <1>14, <1>15, <1>16, <1>17, <1>18, <1>19, <1>20, <1>21, <1>22, <1>23
     DEF Next, HandlerStep, HandlerRuns, Authenticate

\* Every step keeps Unsubscribed.
LEMMA UnsubscribedStep ==
  ASSUME TypeInv, PeerLife, Unsubscribed, [Next]_vars
  PROVE  Unsubscribed'
<1>1. ASSUME NEW c \in Conns, Accept(c)
      PROVE  Unsubscribed'
  BY <1>1 DEF Accept, Goto, KeepBroker, brokerVars, Unsubscribed, TypeInv,
     TypeOK, BrokerTypeOK, PeerTypeOK
<1>2. ASSUME NEW c \in Conns, Reject(c)
      PROVE  Unsubscribed'
  BY <1>2 DEF Reject, Goto, KeepBroker, brokerVars, Unsubscribed, TypeInv,
     TypeOK, BrokerTypeOK, PeerTypeOK
<1>3. ASSUME StopAccepting
      PROVE  Unsubscribed'
  BY <1>3 DEF StopAccepting, KeepPeer, peerVars, KeepBroker, brokerVars,
     Unsubscribed, TypeInv, TypeOK, BrokerTypeOK, PeerTypeOK
<1>4. ASSUME ServeReturns
      PROVE  Unsubscribed'
  BY <1>4 DEF ServeReturns, KeepPeer, peerVars, routerVars, Drain, Unsubscribed,
     TypeInv, TypeOK, BrokerTypeOK, PeerTypeOK
<1>5. ASSUME NEW c \in Conns, NEW k \in Clients, AuthOK(c, k)
      PROVE  Unsubscribed'
  BY <1>5 DEF AuthOK, Goto, KeepPeer, peerVars, KeepBroker, brokerVars,
     Unsubscribed, TypeInv, TypeOK, BrokerTypeOK, PeerTypeOK
<1>6. ASSUME NEW c \in Conns, AuthFails(c)
      PROVE  Unsubscribed'
  BY <1>6 DEF AuthFails, Goto, KeepPeer, peerVars, KeepBroker, brokerVars,
     Unsubscribed, TypeInv, TypeOK, BrokerTypeOK, PeerTypeOK
<1>7. ASSUME NEW c \in Conns, NewPeer(c)
      PROVE  Unsubscribed'
  <2>1. once[c] = "idle" /\ broker = "open"
    BY <1>7 DEF NewPeer, Subscribe, PeerLife
  <2> QED
    BY <1>7, <2>1 DEF NewPeer, Subscribe, KeepPeer, peerVars, Unsubscribed, TypeInv,
       TypeOK, BrokerTypeOK
<1>8. ASSUME NEW c \in Conns, NewPeerFails(c)
      PROVE  Unsubscribed'
  BY <1>8 DEF NewPeerFails, Goto, KeepPeer, peerVars, KeepBroker, brokerVars,
     Unsubscribed, TypeInv, TypeOK, BrokerTypeOK, PeerTypeOK
<1>9. ASSUME NEW c \in Conns, AssignSubscriber(c)
      PROVE  Unsubscribed'
  BY <1>9 DEF AssignSubscriber, Goto, KeepBroker, brokerVars, Unsubscribed,
     TypeInv, TypeOK, BrokerTypeOK, PeerTypeOK
<1>10. ASSUME NEW c \in Conns, LoadAndDelete(c)
      PROVE  Unsubscribed'
  BY <1>10 DEF LoadAndDelete, Goto, KeepPeer, peerVars, KeepBroker, brokerVars,
     Unsubscribed, TypeInv, TypeOK, BrokerTypeOK, PeerTypeOK
<1>11. ASSUME NEW c \in Conns, CloseOld(c)
      PROVE  Unsubscribed'
  BY <1>11 DEF CloseOld, Goto, KeepBroker, brokerVars, BeginClose, CloseReturns,
     Unsubscribed, TypeInv, TypeOK, BrokerTypeOK, PeerTypeOK
<1>12. ASSUME NEW c \in Conns, Store(c)
      PROVE  Unsubscribed'
  BY <1>12 DEF Store, Goto, KeepBroker, brokerVars, Unsubscribed, TypeInv,
     TypeOK, BrokerTypeOK, PeerTypeOK
<1>13. ASSUME NEW c \in Conns, SeesClosed(c)
      PROVE  Unsubscribed'
  BY <1>13 DEF SeesClosed, Goto, KeepPeer, peerVars, KeepBroker, brokerVars,
     Unsubscribed, TypeInv, TypeOK, BrokerTypeOK, PeerTypeOK
<1>14. ASSUME NEW c \in Conns, CheckLimit(c)
      PROVE  Unsubscribed'
  BY <1>14 DEF CheckLimit, Goto, KeepPeer, peerVars, KeepBroker, brokerVars,
     Unsubscribed, TypeInv, TypeOK, BrokerTypeOK, PeerTypeOK
<1>15. ASSUME NEW c \in Conns, NEW k \in Clients, HandleMessage(c, k)
      PROVE  Unsubscribed'
  BY <1>15 DEF HandleMessage, Publish, KeepPeer, peerVars, Unsubscribed
<1>16. ASSUME NEW c \in Conns, HandleMessageFails(c)
      PROVE  Unsubscribed'
  BY <1>16 DEF HandleMessageFails, Goto, KeepPeer, peerVars, KeepBroker,
     brokerVars, Unsubscribed, TypeInv, TypeOK, BrokerTypeOK, PeerTypeOK
<1>17. ASSUME NEW c \in Conns, Unregister(c)
      PROVE  Unsubscribed'
  BY <1>17 DEF Unregister, Goto, KeepPeer, peerVars, KeepBroker, brokerVars,
     Unsubscribed, TypeInv, TypeOK, BrokerTypeOK, PeerTypeOK
<1>18. ASSUME NEW c \in Conns, ClosePeer(c)
      PROVE  Unsubscribed'
  BY <1>18 DEF ClosePeer, Goto, KeepBroker, brokerVars, BeginClose,
     CloseReturns, Unsubscribed, TypeInv, TypeOK, BrokerTypeOK, PeerTypeOK
<1>19. ASSUME NEW c \in Conns, CloseConn(c)
      PROVE  Unsubscribed'
  BY <1>19 DEF CloseConn, Goto, KeepBroker, brokerVars, Unsubscribed, TypeInv,
     TypeOK, BrokerTypeOK, PeerTypeOK
<1>20. ASSUME NEW c \in Conns, Release(c)
      PROVE  Unsubscribed'
  BY <1>20 DEF Release, Goto, KeepPeer, peerVars, KeepBroker, brokerVars,
     Unsubscribed, TypeInv, TypeOK, BrokerTypeOK, PeerTypeOK
<1>21. ASSUME NEW c \in Conns, PeerStep(c), UNCHANGED routerVars
      PROVE  Unsubscribed'
  <2>1. CASE CloseUnsubscribe(c)
    <3>1. CASE subscriber[c]
      BY <2>1, <3>1 DEF CloseUnsubscribe, Unsubscribe, Unsubscribed, TypeInv, TypeOK,
         BrokerTypeOK, PeerTypeOK
    <3>2. CASE ~subscriber[c]
      BY <2>1, <3>2 DEF CloseUnsubscribe, brokerVars, Unsubscribed, TypeInv, TypeOK,
         PeerTypeOK
    <3> QED
      BY <3>1, <3>2
  <2>2. CASE CloseConnection(c)
    BY <2>2 DEF CloseConnection, brokerVars, Unsubscribed, TypeInv, TypeOK, PeerTypeOK
  <2>3. CASE Callback(c) \/ WriteLoop(c)
    <3>1. UNCHANGED <<broker, sub, sawNil>>
      BY <2>3 DEF Callback, Dispatch, NextPending, Enqueue, DropClosed, BufferFull,
         SlowConsumer, SlowConsumerClose, WriteLoop, WriterStops, WriterTakes,
         WriteSucceeds, WriteFails, WriterCloses, brokerVars
    <3>2. \A d \in Conns : once'[d] = once[d] \/ once'[d] = "unsub"
      BY <2>3 DEF Callback, Dispatch, Enqueue, DropClosed, BufferFull, SlowConsumer,
         SlowConsumerClose, WriteLoop, WriterStops, WriterTakes, WriteSucceeds,
         WriteFails, WriterCloses, BeginClose, CloseReturns, TypeInv, TypeOK, PeerTypeOK
    <3> QED
      BY <3>1, <3>2 DEF Unsubscribed
  <2> QED
    BY <1>21, <2>1, <2>2, <2>3 DEF PeerStep, CloseBody
<1>22. ASSUME BrokerStep
      PROVE  Unsubscribed'
  <2>1. /\ UNCHANGED <<once, sawNil>>
        /\ broker' # broker => \A d \in Conns : sub'[d] # "active"
        /\ \A d \in Conns : sub'[d] = sub[d] \/ sub'[d] = "gone"
    BY <1>22, BrokerStepFrame DEF peerVars, TypeInv, TypeOK
  <2> QED
    BY <2>1 DEF Unsubscribed
<1>23. CASE UNCHANGED vars
  BY <1>23 DEF vars, Unsubscribed, TypeInv, TypeOK, BrokerTypeOK, PeerTypeOK
<1> QED
  BY <1>1, <1>2, <1>3, <1>4, <1>5, <1>6, <1>7, <1>8, <1>9, <1>10, <1>11, <1>12,
     <1>13, <1>14, <1>15, <1>16, <1>17, <1>18, <1>19, <1>20, <1>21, <1>22, <1>23
     DEF Next, HandlerStep, HandlerRuns, Authenticate

\* The lengths of what connection d's queue, callback and subscription hold and
\* of what the subscription got, before and after a step, are numbers.
Numbers(d) ==
    /\ Len(writeCh[d]) \in Nat /\ Len(callback[d]) \in Nat
    /\ Len(pending[d]) \in Nat /\ Len(accepted[d]) \in Nat
    /\ Len(writeCh'[d]) \in Nat /\ Len(callback'[d]) \in Nat
    /\ Len(pending'[d]) \in Nat /\ Len(accepted'[d]) \in Nat

\* What a step does to these lengths: nothing grows but what was got, the
\* callback's message moves to the queue, a message moves to the callback, or
\* one is published.
Shrinks(d)    == /\ Len(writeCh'[d]) <= Len(writeCh[d])
                 /\ Len(callback'[d]) <= Len(callback[d])
                 /\ Len(pending'[d]) <= Len(pending[d])
                 /\ Len(accepted'[d]) = Len(accepted[d])
Enqueued(d)   == /\ Len(writeCh'[d]) = Len(writeCh[d]) + Len(callback[d])
                 /\ Len(callback'[d]) = 0
                 /\ Len(pending'[d]) = Len(pending[d])
                 /\ Len(accepted'[d]) = Len(accepted[d])
Dispatched(d) == /\ Len(writeCh'[d]) = Len(writeCh[d])
                 /\ Len(callback'[d]) = 1
                 /\ Len(pending'[d]) = Len(pending[d]) - 1
                 /\ Len(accepted'[d]) = Len(accepted[d])
Published(d)  == /\ Len(writeCh'[d]) = Len(writeCh[d])
                 /\ Len(callback'[d]) = Len(callback[d])
                 /\ Len(pending'[d]) + Len(accepted[d])
                       <= Len(pending[d]) + Len(accepted'[d])

\* The arithmetic of Counted.
LEMMA CountedAt ==
  ASSUME NEW d \in Conns, Numbers(d),
         Len(writeCh[d]) + Len(callback[d]) + Len(pending[d]) <= Len(accepted[d]),
         Shrinks(d) \/ Enqueued(d) \/ Dispatched(d) \/ Published(d)
  PROVE  Len(writeCh'[d]) + Len(callback'[d]) + Len(pending'[d]) <= Len(accepted'[d])
<1> DEFINE w == Len(writeCh[d])   w1 == Len(writeCh'[d])
           k == Len(callback[d])  k1 == Len(callback'[d])
           p == Len(pending[d])   p1 == Len(pending'[d])
           a == Len(accepted[d])  a1 == Len(accepted'[d])
<1>1. /\ w \in Nat /\ k \in Nat /\ p \in Nat /\ a \in Nat
      /\ w1 \in Nat /\ k1 \in Nat /\ p1 \in Nat /\ a1 \in Nat
  BY DEF Numbers
<1>2. \/ w1 <= w /\ k1 <= k /\ p1 <= p /\ a1 = a
      \/ w1 = w + k /\ k1 = 0 /\ p1 = p /\ a1 = a
      \/ w1 = w /\ k1 = 1 /\ p1 = p - 1 /\ a1 = a
      \/ w1 = w /\ k1 = k /\ p1 + a <= p + a1
  BY DEF Shrinks, Enqueued, Dispatched, Published
<1>3. w + k + p <= a
  OBVIOUS
<1> HIDE DEF w, w1, k, k1, p, p1, a, a1
<1>4. w1 + k1 + p1 <= a1
  BY ONLY <1>1, <1>2, <1>3
<1> QED
  BY <1>4 DEF w1, k1, p1, a1

\* The queues are sequences.
LEMMA QueueNumbers ==
  ASSUME TypeInv, TypeInv'
  PROVE  \A d \in Conns : Numbers(d)
<1> DEFINE QueueTypes == pending \in [Conns -> Seq(Msgs)] /\ accepted \in [Conns -> Seq(Msgs)]
                         /\ writeCh \in [Conns -> Seq(Msgs)] /\ callback \in [Conns -> Seq(Msgs)]
<1>1. QueueTypes /\ QueueTypes'
  BY DEF TypeInv, TypeOK, BrokerTypeOK, PeerTypeOK
<1> QED
  BY ONLY <1>1 DEF Numbers

\* So a step whose effect on every connection is one of the four, and whose
\* callbacks hold one message while they run, keeps Counted.
LEMMA CountedKept ==
  ASSUME TypeInv, TypeInv', Counted,
         \A d \in Conns : Shrinks(d) \/ Enqueued(d) \/ Dispatched(d) \/ Published(d),
         \A d \in Conns : cb'[d] # "idle" => Len(callback'[d]) = 1
  PROVE  Counted'
<1>1. ASSUME NEW d \in Conns
      PROVE  Len(writeCh'[d]) + Len(callback'[d]) + Len(pending'[d]) <= Len(accepted'[d])
  <2>1. Len(writeCh[d]) + Len(callback[d]) + Len(pending[d]) <= Len(accepted[d])
    BY DEF Counted
  <2>2. Numbers(d)
    BY QueueNumbers
  <2> QED
    BY <2>1, <2>2, CountedAt
<1> QED
  BY <1>1 DEF Counted

\* One message more on both sides keeps the balance.
LEMMA OnePublished ==
  ASSUME NEW d \in Conns, Numbers(d), UNCHANGED <<writeCh, callback>>,
         \/ pending'[d] = pending[d] /\ accepted'[d] = accepted[d]
         \/ /\ Len(pending'[d]) = Len(pending[d]) + 1
            /\ Len(accepted'[d]) = Len(accepted[d]) + 1
  PROVE  Published(d)
<1> DEFINE p == Len(pending[d])   p1 == Len(pending'[d])
           a == Len(accepted[d])  a1 == Len(accepted'[d])
<1>1. p \in Nat /\ a \in Nat /\ p1 \in Nat /\ a1 \in Nat
  BY DEF Numbers
<1>2. (p1 = p /\ a1 = a) \/ (p1 = p + 1 /\ a1 = a + 1)
  OBVIOUS
<1> HIDE DEF p, p1, a, a1
<1>3. p1 + a <= p + a1
  BY ONLY <1>1, <1>2
<1> QED
  BY <1>3 DEF Published, p, p1, a, a1

\* A step of a peer's goroutines keeps Counted.
LEMMA PeerCounted ==
  ASSUME TypeInv, TypeInv', Counted, NEW c \in Conns
  PROVE  PeerStep(c) => Counted'
<1> USE DEF BeginClose, CloseReturns, CallbackReturns
<1>0. /\ \A d \in Conns : Numbers(d)
      /\ \A d \in Conns : cb[d] # "idle" => Len(callback[d]) = 1
      /\ pending \in [Conns -> Seq(Msgs)] /\ writeCh \in [Conns -> Seq(Msgs)]
      /\ callback \in [Conns -> Seq(Msgs)]
      /\ cb \in [Conns -> {"idle", "select", "full", "close"}]
  BY QueueNumbers DEF Counted, TypeInv, TypeOK, BrokerTypeOK, PeerTypeOK
<1>1. ASSUME CloseUnsubscribe(c)
      PROVE  Counted'
  <2>1. /\ UNCHANGED <<writeCh, callback, cb, accepted>>
        /\ \A d \in Conns : pending'[d] = pending[d] \/ pending'[d] = <<>>
    BY <1>0, <1>1 DEF CloseUnsubscribe, Unsubscribe, brokerVars
  <2>2. \A d \in Conns : Shrinks(d)
    BY ONLY <1>0, <2>1 DEF Shrinks, Numbers
  <2> QED
    BY <1>0, <2>1, <2>2, CountedKept
<1>2. ASSUME Dispatch(c)
      PROVE  Counted'
  <2>1. /\ UNCHANGED <<writeCh, accepted>>
        /\ cb' = [cb EXCEPT ![c] = "select"]
        /\ pending[c] # <<>>
        /\ pending' = [pending EXCEPT ![c] = Tail(@)]
        /\ callback' = [callback EXCEPT ![c] = <<Head(pending[c])>>]
    BY <1>2 DEF Dispatch, NextPending
  <2>2. Dispatched(c)
    BY ONLY c \in Conns, <1>0, <2>1 DEF Dispatched
  <2>3. \A d \in Conns : d # c => Shrinks(d) /\ cb'[d] = cb[d] /\ callback'[d] = callback[d]
    BY ONLY c \in Conns, <1>0, <2>1 DEF Shrinks, Numbers
  <2>4. \A d \in Conns : cb'[d] # "idle" => Len(callback'[d]) = 1
    BY <1>0, <2>2, <2>3 DEF Dispatched
  <2> QED
    BY <2>2, <2>3, <2>4, CountedKept
<1>3. ASSUME Enqueue(c)
      PROVE  Counted'
  <2>1. /\ UNCHANGED <<pending, accepted>>
        /\ cb' = [cb EXCEPT ![c] = "idle"]
        /\ callback' = [callback EXCEPT ![c] = <<>>]
        /\ writeCh' = [writeCh EXCEPT ![c] = @ \o callback[c]]
    BY <1>3 DEF Enqueue, brokerVars
  <2>2. Enqueued(c) /\ cb'[c] = "idle"
    BY ONLY c \in Conns, <1>0, <2>1 DEF Enqueued
  <2>3. \A d \in Conns : d # c => Shrinks(d) /\ cb'[d] = cb[d] /\ callback'[d] = callback[d]
    BY ONLY c \in Conns, <1>0, <2>1 DEF Shrinks, Numbers
  <2>4. \A d \in Conns : cb'[d] # "idle" => Len(callback'[d]) = 1
    BY <1>0, <2>2, <2>3
  <2> QED
    BY <2>2, <2>3, <2>4, CountedKept
<1>4. ASSUME DropClosed(c) \/ BufferFull(c) \/ SlowConsumer(c) \/ SlowConsumerClose(c)
      PROVE  Counted'
  <2>1. /\ UNCHANGED <<writeCh, pending, accepted>>
        /\ \A d \in Conns : \/ /\ callback'[d] = callback[d]
                               /\ cb'[d] # "idle" => cb[d] # "idle"
                            \/ callback'[d] = <<>> /\ cb'[d] = "idle"
    BY <1>0, <1>4 DEF DropClosed, BufferFull, SlowConsumer, SlowConsumerClose, brokerVars
  <2>2. \A d \in Conns : Shrinks(d)
    BY ONLY <1>0, <2>1 DEF Shrinks, Numbers
  <2>3. \A d \in Conns : cb'[d] # "idle" => Len(callback'[d]) = 1
    BY <1>0, <2>1
  <2> QED
    BY <2>2, <2>3, CountedKept
<1>5. ASSUME WriterTakes(c)
      PROVE  Counted'
  <2>1. /\ UNCHANGED <<pending, accepted, callback, cb>>
        /\ writeCh[c] # <<>>
        /\ writeCh' = [writeCh EXCEPT ![c] = Tail(@)]
    BY <1>5 DEF WriterTakes, brokerVars
  <2>2. \A d \in Conns : Len(writeCh'[d]) <= Len(writeCh[d])
    BY ONLY c \in Conns, <1>0, <2>1 DEF Numbers
  <2>3. \A d \in Conns : Shrinks(d)
    BY ONLY <1>0, <2>1, <2>2 DEF Shrinks, Numbers
  <2> QED
    BY <1>0, <2>1, <2>3, CountedKept
<1>6. ASSUME \/ CloseConnection(c) \/ WriterStops(c) \/ WriteSucceeds(c)
             \/ WriteFails(c) \/ WriterCloses(c)
      PROVE  Counted'
  <2>1. UNCHANGED <<writeCh, pending, accepted, callback, cb>>
    BY <1>6 DEF CloseConnection, WriterStops, WriteSucceeds, WriteFails, WriterCloses,
       brokerVars
  <2> QED
    BY <2>1 DEF Counted
<1> QED
  BY <1>1, <1>2, <1>3, <1>4, <1>5, <1>6 DEF PeerStep, CloseBody, Callback, WriteLoop

\* Every step keeps Counted.
LEMMA CountedStep ==
  ASSUME TypeInv, BufferExclusive, Counted, [Next]_vars
  PROVE  Counted'
<1>1. ASSUME NEW c \in Conns, Accept(c)
      PROVE  Counted'
  BY <1>1 DEF Accept, KeepBroker, brokerVars, Counted
<1>2. ASSUME NEW c \in Conns, Reject(c)
      PROVE  Counted'
  BY <1>2 DEF Reject, KeepBroker, brokerVars, Counted
<1>3. ASSUME StopAccepting
      PROVE  Counted'
  BY <1>3 DEF StopAccepting, KeepPeer, peerVars, KeepBroker, brokerVars, Counted
<1>4. ASSUME ServeReturns
      PROVE  Counted'
  BY <1>4 DEF ServeReturns, KeepPeer, peerVars, routerVars, Drain, Counted
<1>5. ASSUME NEW c \in Conns, NEW k \in Clients, AuthOK(c, k)
      PROVE  Counted'
  BY <1>5 DEF AuthOK, KeepPeer, peerVars, KeepBroker, brokerVars, Counted
<1>6. ASSUME NEW c \in Conns, AuthFails(c)
      PROVE  Counted'
  BY <1>6 DEF AuthFails, KeepPeer, peerVars, KeepBroker, brokerVars, Counted
<1>7. ASSUME NEW c \in Conns, NewPeer(c)
      PROVE  Counted'
  BY <1>7 DEF NewPeer, KeepPeer, peerVars, Subscribe, Counted
<1>8. ASSUME NEW c \in Conns, NewPeerFails(c)
      PROVE  Counted'
  BY <1>8 DEF NewPeerFails, KeepPeer, peerVars, KeepBroker, brokerVars, Counted
<1>9. ASSUME NEW c \in Conns, AssignSubscriber(c)
      PROVE  Counted'
  BY <1>9 DEF AssignSubscriber, KeepBroker, brokerVars, Counted
<1>10. ASSUME NEW c \in Conns, LoadAndDelete(c)
      PROVE  Counted'
  BY <1>10 DEF LoadAndDelete, KeepPeer, peerVars, KeepBroker, brokerVars,
     Counted
<1>11. ASSUME NEW c \in Conns, CloseOld(c)
      PROVE  Counted'
  BY <1>11 DEF CloseOld, KeepBroker, brokerVars, Counted
<1>12. ASSUME NEW c \in Conns, Store(c)
      PROVE  Counted'
  BY <1>12 DEF Store, KeepBroker, brokerVars, Counted
<1>13. ASSUME NEW c \in Conns, SeesClosed(c)
      PROVE  Counted'
  BY <1>13 DEF SeesClosed, KeepPeer, peerVars, KeepBroker, brokerVars, Counted
<1>14. ASSUME NEW c \in Conns, CheckLimit(c)
      PROVE  Counted'
  BY <1>14 DEF CheckLimit, KeepPeer, peerVars, KeepBroker, brokerVars, Counted
<1>15. ASSUME NEW c \in Conns, NEW k \in Clients, HandleMessage(c, k)
      PROVE  Counted'
  <2>1. TypeInv' /\ UNCHANGED <<writeCh, callback, cb>> /\ id[c] \in Clients
    BY <1>15, TypeStep DEF Next, HandlerStep, HandleMessage, KeepPeer, peerVars,
       Identified, Named, TypeInv
  <2>2. \A d \in Conns :
          \/ pending'[d] = pending[d] /\ accepted'[d] = accepted[d]
          \/ /\ Len(pending'[d]) = Len(pending[d]) + 1
             /\ Len(accepted'[d]) = Len(accepted[d]) + 1
    BY <1>15, <2>1, PublishFrame DEF HandleMessage, TypeInv, TypeOK
  <2>3. \A d \in Conns : Numbers(d)
    BY <2>1, QueueNumbers
  <2>4. \A d \in Conns : Published(d)
    BY ONLY <2>1, <2>2, <2>3, OnePublished
  <2> QED
    BY <2>1, <2>4, CountedKept DEF Counted
<1>16. ASSUME NEW c \in Conns, HandleMessageFails(c)
      PROVE  Counted'
  BY <1>16 DEF HandleMessageFails, KeepPeer, peerVars, KeepBroker, brokerVars,
     Counted
<1>17. ASSUME NEW c \in Conns, Unregister(c)
      PROVE  Counted'
  BY <1>17 DEF Unregister, KeepPeer, peerVars, KeepBroker, brokerVars, Counted
<1>18. ASSUME NEW c \in Conns, ClosePeer(c)
      PROVE  Counted'
  BY <1>18 DEF ClosePeer, KeepBroker, brokerVars, Counted
<1>19. ASSUME NEW c \in Conns, CloseConn(c)
      PROVE  Counted'
  BY <1>19 DEF CloseConn, KeepBroker, brokerVars, Counted
<1>20. ASSUME NEW c \in Conns, Release(c)
      PROVE  Counted'
  BY <1>20 DEF Release, KeepPeer, peerVars, KeepBroker, brokerVars, Counted
<1>21. ASSUME NEW c \in Conns, PeerStep(c), UNCHANGED routerVars
      PROVE  Counted'
  <2>1. TypeInv'
    BY <1>21, TypeStep DEF Next
  <2> QED
    BY <1>21, <2>1, PeerCounted
<1>22. ASSUME BrokerStep
      PROVE  Counted'
  <2>1. TypeInv' /\ UNCHANGED <<writeCh, callback, cb>>
    BY <1>22, TypeStep DEF Next, BrokerStep, KeepPeer, peerVars
  <2>2. \A d \in Conns : Published(d)
    BY <1>22, <2>1, BrokerStepFrame DEF Published, TypeInv, TypeOK
  <2> QED
    BY <2>1, <2>2, CountedKept DEF Counted
<1>23. CASE UNCHANGED vars
  BY <1>23 DEF vars, Counted
<1> QED
  BY <1>1, <1>2, <1>3, <1>4, <1>5, <1>6, <1>7, <1>8, <1>9, <1>10, <1>11, <1>12,
     <1>13, <1>14, <1>15, <1>16, <1>17, <1>18, <1>19, <1>20, <1>21, <1>22, <1>23
     DEF Next, HandlerStep, HandlerRuns, Authenticate

\* What a subscription got is never taken back.
LEMMA OverflowStays ==
  ASSUME TypeInv, BufferExclusive, [Next]_vars
  PROVE  \A d \in Conns : Overflowed(d) => Overflowed(d)'
<1>1. ASSUME NEW c \in Conns, Accept(c)
      PROVE  \A d \in Conns : Overflowed(d) => Overflowed(d)'
  BY <1>1 DEF Accept, KeepBroker, brokerVars, Overflowed
<1>2. ASSUME NEW c \in Conns, Reject(c)
      PROVE  \A d \in Conns : Overflowed(d) => Overflowed(d)'
  BY <1>2 DEF Reject, KeepBroker, brokerVars, Overflowed
<1>3. ASSUME StopAccepting
      PROVE  \A d \in Conns : Overflowed(d) => Overflowed(d)'
  BY <1>3 DEF StopAccepting, KeepBroker, brokerVars, Overflowed
<1>4. ASSUME ServeReturns
      PROVE  \A d \in Conns : Overflowed(d) => Overflowed(d)'
  BY <1>4 DEF ServeReturns, routerVars, Drain, Overflowed
<1>5. ASSUME NEW c \in Conns, NEW k \in Clients, AuthOK(c, k)
      PROVE  \A d \in Conns : Overflowed(d) => Overflowed(d)'
  BY <1>5 DEF AuthOK, KeepBroker, brokerVars, Overflowed
<1>6. ASSUME NEW c \in Conns, AuthFails(c)
      PROVE  \A d \in Conns : Overflowed(d) => Overflowed(d)'
  BY <1>6 DEF AuthFails, KeepBroker, brokerVars, Overflowed
<1>7. ASSUME NEW c \in Conns, NewPeer(c)
      PROVE  \A d \in Conns : Overflowed(d) => Overflowed(d)'
  BY <1>7 DEF NewPeer, Subscribe, Overflowed
<1>8. ASSUME NEW c \in Conns, NewPeerFails(c)
      PROVE  \A d \in Conns : Overflowed(d) => Overflowed(d)'
  BY <1>8 DEF NewPeerFails, KeepBroker, brokerVars, Overflowed
<1>9. ASSUME NEW c \in Conns, AssignSubscriber(c)
      PROVE  \A d \in Conns : Overflowed(d) => Overflowed(d)'
  BY <1>9 DEF AssignSubscriber, KeepBroker, brokerVars, Overflowed
<1>10. ASSUME NEW c \in Conns, LoadAndDelete(c)
      PROVE  \A d \in Conns : Overflowed(d) => Overflowed(d)'
  BY <1>10 DEF LoadAndDelete, KeepBroker, brokerVars, Overflowed
<1>11. ASSUME NEW c \in Conns, CloseOld(c)
      PROVE  \A d \in Conns : Overflowed(d) => Overflowed(d)'
  BY <1>11 DEF CloseOld, KeepBroker, brokerVars, Overflowed
<1>12. ASSUME NEW c \in Conns, Store(c)
      PROVE  \A d \in Conns : Overflowed(d) => Overflowed(d)'
  BY <1>12 DEF Store, KeepBroker, brokerVars, Overflowed
<1>13. ASSUME NEW c \in Conns, SeesClosed(c)
      PROVE  \A d \in Conns : Overflowed(d) => Overflowed(d)'
  BY <1>13 DEF SeesClosed, KeepBroker, brokerVars, Overflowed
<1>14. ASSUME NEW c \in Conns, CheckLimit(c)
      PROVE  \A d \in Conns : Overflowed(d) => Overflowed(d)'
  BY <1>14 DEF CheckLimit, KeepBroker, brokerVars, Overflowed
<1>15. ASSUME NEW c \in Conns, NEW k \in Clients, HandleMessage(c, k)
      PROVE  \A d \in Conns : Overflowed(d) => Overflowed(d)'
  <2>1. id[c] \in Clients
    BY <1>15 DEF HandleMessage, Identified, Named, TypeInv
  <2>2. \A d \in Conns : accepted'[d] = accepted[d] \/ Len(accepted'[d]) = Len(accepted[d]) + 1
    BY <1>15, <2>1, PublishFrame DEF HandleMessage, TypeInv, TypeOK
  <2>3. \A d \in Conns : Len(accepted[d]) \in Nat
    BY DEF TypeInv, TypeOK, BrokerTypeOK
  <2> QED
    BY ONLY <2>2, <2>3, WriteBufferAssumption DEF Overflowed
<1>16. ASSUME NEW c \in Conns, HandleMessageFails(c)
      PROVE  \A d \in Conns : Overflowed(d) => Overflowed(d)'
  BY <1>16 DEF HandleMessageFails, KeepBroker, brokerVars, Overflowed
<1>17. ASSUME NEW c \in Conns, Unregister(c)
      PROVE  \A d \in Conns : Overflowed(d) => Overflowed(d)'
  BY <1>17 DEF Unregister, KeepBroker, brokerVars, Overflowed
<1>18. ASSUME NEW c \in Conns, ClosePeer(c)
      PROVE  \A d \in Conns : Overflowed(d) => Overflowed(d)'
  BY <1>18 DEF ClosePeer, KeepBroker, brokerVars, Overflowed
<1>19. ASSUME NEW c \in Conns, CloseConn(c)
      PROVE  \A d \in Conns : Overflowed(d) => Overflowed(d)'
  BY <1>19 DEF CloseConn, KeepBroker, brokerVars, Overflowed
<1>20. ASSUME NEW c \in Conns, Release(c)
      PROVE  \A d \in Conns : Overflowed(d) => Overflowed(d)'
  BY <1>20 DEF Release, KeepBroker, brokerVars, Overflowed
<1>21. ASSUME NEW c \in Conns, PeerStep(c), UNCHANGED routerVars
      PROVE  \A d \in Conns : Overflowed(d) => Overflowed(d)'
  BY <1>21, PeerStepFrame DEF Overflowed, TypeInv, TypeOK
<1>22. ASSUME BrokerStep
      PROVE  \A d \in Conns : Overflowed(d) => Overflowed(d)'
  <2>1. \A d \in Conns : Len(accepted[d]) <= Len(accepted'[d])
    BY <1>22, BrokerStepFrame DEF TypeInv, TypeOK
  <2>2. TypeInv'
    BY <1>22, TypeStep DEF Next
  <2>3. \A d \in Conns : Len(accepted[d]) \in Nat /\ Len(accepted'[d]) \in Nat
    BY <2>2 DEF TypeInv, TypeOK, BrokerTypeOK
  <2> QED
    BY ONLY <2>1, <2>3, WriteBufferAssumption DEF Overflowed
<1>23. CASE UNCHANGED vars
  BY <1>23 DEF vars, Overflowed
<1> QED
  BY <1>1, <1>2, <1>3, <1>4, <1>5, <1>6, <1>7, <1>8, <1>9, <1>10, <1>11, <1>12,
     <1>13, <1>14, <1>15, <1>16, <1>17, <1>18, <1>19, <1>20, <1>21, <1>22, <1>23
     DEF Next, HandlerStep, HandlerRuns, Authenticate

\* A callback that finds the queue full has seen more messages than it holds.
LEMMA FullOverflows ==
  ASSUME TypeInv, Counted, NEW c \in Conns, cb[c] = "select",
         Len(writeCh[c]) >= WriteBufferSize
  PROVE  Overflowed(c)
<1> DEFINE w == Len(writeCh[c])  k == Len(callback[c])
           p == Len(pending[c])  a == Len(accepted[c])
<1>1. w \in Nat /\ k \in Nat /\ p \in Nat /\ a \in Nat
  BY DEF TypeInv, TypeOK, BrokerTypeOK, PeerTypeOK
<1>2. w + k + p <= a /\ k = 1 /\ w >= WriteBufferSize
  BY DEF Counted
<1> HIDE DEF w, k, p, a
<1>3. a > WriteBufferSize
  BY ONLY <1>1, <1>2, WriteBufferAssumption
<1> QED
  BY <1>3 DEF Overflowed, a

\* A step of a peer's goroutines keeps EarlyClose.
LEMMA PeerEarly ==
  ASSUME TypeInv, BufferExclusive, Counted, EarlyClose, NEW c \in Conns
  PROVE  PeerStep(c) /\ UNCHANGED routerVars => EarlyClose'
<1> SUFFICES ASSUME PeerStep(c), UNCHANGED routerVars
             PROVE  EarlyClose'
  OBVIOUS
<1>1. /\ UNCHANGED <<subscriber, pc, old>>
      /\ \A d \in Conns :
           /\ wl[d] = "off" => wl'[d] = "off"
           /\ \/ once'[d] = once[d]
              \/ once[d] = "idle" /\ (cb[d] = "close" \/ wl[d] = "close")
              \/ once[d] # "idle"
  BY PeerStepFrame DEF routerVars, TypeInv, TypeOK
<1>2. \A d \in Conns : Overflowed(d) => Overflowed(d)'
  BY PeerStepFrame DEF Overflowed, TypeInv, TypeOK
<1>3. \A d \in Conns : cb'[d] \in {"full", "close"} =>
                         cb[d] \in {"full", "close"} \/ Overflowed(d)
  <2> USE DEF CallbackReturns, TypeInv, TypeOK, PeerTypeOK
  <2>1. CASE BufferFull(c)
    BY <2>1, FullOverflows DEF BufferFull
  <2>2. CASE SlowConsumer(c) \/ SlowConsumerClose(c)
    BY <2>2 DEF SlowConsumer, SlowConsumerClose
  <2>3. CASE Dispatch(c) \/ Enqueue(c) \/ DropClosed(c)
    BY <2>3 DEF Dispatch, Enqueue, DropClosed
  <2>4. CASE CloseBody(c) \/ WriteLoop(c)
    BY <2>4 DEF CloseBody, CloseUnsubscribe, CloseConnection, WriteLoop, WriterStops,
       WriterTakes, WriteSucceeds, WriteFails, WriterCloses
  <2> QED
    BY <2>1, <2>2, <2>3, <2>4 DEF PeerStep, Callback
<1> QED
  BY ONLY <1>1, <1>2, <1>3, EarlyClose DEF EarlyClose

\* Every step keeps EarlyClose.
LEMMA EarlyStep ==
  ASSUME TypeInv, BufferExclusive, PeerLife, NoStaleEntry, Counted, EarlyClose, [Next]_vars
  PROVE  EarlyClose'
<1>1. ASSUME NEW c \in Conns, Accept(c)
      PROVE  EarlyClose'
  BY <1>1, OverflowStays DEF Accept, Goto, KeepBroker, brokerVars, EarlyClose,
     TypeInv, TypeOK, PeerTypeOK
<1>2. ASSUME NEW c \in Conns, Reject(c)
      PROVE  EarlyClose'
  BY <1>2, OverflowStays DEF Reject, Goto, KeepBroker, brokerVars, EarlyClose,
     TypeInv, TypeOK, PeerTypeOK
<1>3. ASSUME StopAccepting
      PROVE  EarlyClose'
  BY <1>3, OverflowStays DEF StopAccepting, KeepPeer, peerVars, KeepBroker,
     brokerVars, EarlyClose, TypeInv, TypeOK, PeerTypeOK
<1>4. ASSUME ServeReturns
      PROVE  EarlyClose'
  BY <1>4, OverflowStays DEF ServeReturns, KeepPeer, peerVars, routerVars,
     EarlyClose, TypeInv, TypeOK, PeerTypeOK
<1>5. ASSUME NEW c \in Conns, NEW k \in Clients, AuthOK(c, k)
      PROVE  EarlyClose'
  BY <1>5, OverflowStays DEF AuthOK, Goto, KeepPeer, peerVars, KeepBroker,
     brokerVars, EarlyClose, TypeInv, TypeOK, PeerTypeOK
<1>6. ASSUME NEW c \in Conns, AuthFails(c)
      PROVE  EarlyClose'
  BY <1>6, OverflowStays DEF AuthFails, Goto, KeepPeer, peerVars, KeepBroker,
     brokerVars, EarlyClose, TypeInv, TypeOK, PeerTypeOK
<1>7. ASSUME NEW c \in Conns, NewPeer(c)
      PROVE  EarlyClose'
  BY <1>7, OverflowStays DEF NewPeer, Goto, KeepPeer, peerVars, EarlyClose,
     TypeInv, TypeOK, PeerTypeOK
<1>8. ASSUME NEW c \in Conns, NewPeerFails(c)
      PROVE  EarlyClose'
  BY <1>8, OverflowStays DEF NewPeerFails, Goto, KeepPeer, peerVars, KeepBroker,
     brokerVars, EarlyClose, TypeInv, TypeOK, PeerTypeOK
<1>9. ASSUME NEW c \in Conns, AssignSubscriber(c)
      PROVE  EarlyClose'
  BY <1>9, OverflowStays DEF AssignSubscriber, Goto, KeepBroker, brokerVars,
     EarlyClose, TypeInv, TypeOK, PeerTypeOK
<1>10. ASSUME NEW c \in Conns, LoadAndDelete(c)
      PROVE  EarlyClose'
  <2> DEFINE d == peers[id[c]]
  <2>1. /\ id[c] \in Clients /\ d \in Conns \cup {None}
        /\ pc' = [pc EXCEPT ![c] = IF d = None THEN "store" ELSE "closeOld"]
        /\ old' = [old EXCEPT ![c] = d]
        /\ UNCHANGED <<cb, wl, once, subscriber>>
    BY <1>10 DEF LoadAndDelete, Goto, KeepPeer, peerVars, Identified, Named, TypeInv, TypeOK
  <2>2. d \in Conns => subscriber[d]
    BY <2>1 DEF NoStaleEntry, PeerLife, Assigned, Subscribed, Named
  <2> HIDE DEF d
  <2> QED
    BY <2>1, <2>2, OverflowStays DEF EarlyClose, TypeInv, TypeOK
<1>11. ASSUME NEW c \in Conns, CloseOld(c)
      PROVE  EarlyClose'
  <2>1. /\ old[c] \in Conns /\ subscriber[old[c]]
        /\ UNCHANGED <<cb, wl, subscriber, old>>
    BY <1>11 DEF CloseOld, EarlyClose, Identified, TypeInv
  <2>2. \A d \in Conns : once'[d] # once[d] => d = old[c]
    BY <1>11 DEF CloseOld, BeginClose, CloseReturns, TypeInv, TypeOK, PeerTypeOK
  <2>3. \A d \in Conns : pc'[d] = "closeOld" => pc[d] = "closeOld"
    BY <1>11 DEF CloseOld, Goto, TypeInv, TypeOK
  <2> QED
    BY ONLY <2>1, <2>2, <2>3, EarlyClose, OverflowStays, TypeInv, BufferExclusive,
       [Next]_vars DEF EarlyClose
<1>12. ASSUME NEW c \in Conns, Store(c)
      PROVE  EarlyClose'
  <2>1. subscriber[c]
    BY <1>12 DEF Store, PeerLife, Assigned, Subscribed, Named
  <2> QED
    BY <1>12, <2>1, OverflowStays DEF Store, Goto, EarlyClose, TypeInv, TypeOK, PeerTypeOK
<1>13. ASSUME NEW c \in Conns, SeesClosed(c)
      PROVE  EarlyClose'
  BY <1>13, OverflowStays DEF SeesClosed, Goto, KeepPeer, peerVars, KeepBroker,
     brokerVars, EarlyClose, TypeInv, TypeOK, PeerTypeOK
<1>14. ASSUME NEW c \in Conns, CheckLimit(c)
      PROVE  EarlyClose'
  <2>1. CASE Goto(c, "read")
    BY <1>14, <2>1, OverflowStays
       DEF CheckLimit, Goto, KeepPeer, peerVars, KeepBroker, brokerVars,
           EarlyClose, TypeInv, TypeOK, PeerTypeOK
  <2>2. CASE Goto(c, "unregister")
    BY <1>14, <2>2, OverflowStays
       DEF CheckLimit, Goto, KeepPeer, peerVars, KeepBroker, brokerVars,
           EarlyClose, TypeInv, TypeOK, PeerTypeOK
  <2> QED
    BY <1>14, <2>1, <2>2 DEF CheckLimit
<1>15. ASSUME NEW c \in Conns, NEW k \in Clients, HandleMessage(c, k)
      PROVE  EarlyClose'
  BY <1>15, OverflowStays DEF HandleMessage, Goto, KeepPeer, peerVars,
     EarlyClose, TypeInv, TypeOK, PeerTypeOK
<1>16. ASSUME NEW c \in Conns, HandleMessageFails(c)
      PROVE  EarlyClose'
  BY <1>16, OverflowStays DEF HandleMessageFails, Goto, KeepPeer, peerVars,
     KeepBroker, brokerVars, EarlyClose, TypeInv, TypeOK, PeerTypeOK
<1>17. ASSUME NEW c \in Conns, Unregister(c)
      PROVE  EarlyClose'
  BY <1>17, OverflowStays DEF Unregister, Goto, KeepPeer, peerVars, KeepBroker,
     brokerVars, EarlyClose, TypeInv, TypeOK, PeerTypeOK
<1>18. ASSUME NEW c \in Conns, ClosePeer(c)
      PROVE  EarlyClose'
  <2>1. subscriber[c] /\ UNCHANGED <<cb, wl, subscriber, old>>
    BY <1>18 DEF ClosePeer, PeerLife, Assigned, Subscribed, Named
  <2>2. \A d \in Conns : once'[d] # once[d] => d = c
    BY <1>18 DEF ClosePeer, BeginClose, CloseReturns, TypeInv, TypeOK, PeerTypeOK
  <2>3. \A d \in Conns : pc'[d] = "closeOld" => pc[d] = "closeOld"
    BY <1>18 DEF ClosePeer, Goto, TypeInv, TypeOK
  <2> QED
    BY ONLY <2>1, <2>2, <2>3, EarlyClose, OverflowStays, TypeInv, BufferExclusive,
       [Next]_vars DEF EarlyClose
<1>19. ASSUME NEW c \in Conns, CloseConn(c)
      PROVE  EarlyClose'
  BY <1>19, OverflowStays DEF CloseConn, Goto, KeepBroker, brokerVars,
     EarlyClose, TypeInv, TypeOK, PeerTypeOK
<1>20. ASSUME NEW c \in Conns, Release(c)
      PROVE  EarlyClose'
  BY <1>20, OverflowStays DEF Release, Goto, KeepPeer, peerVars, KeepBroker,
     brokerVars, EarlyClose, TypeInv, TypeOK, PeerTypeOK
<1>21. ASSUME NEW c \in Conns, PeerStep(c), UNCHANGED routerVars
      PROVE  EarlyClose'
  BY <1>21, PeerEarly
<1>22. ASSUME BrokerStep
      PROVE  EarlyClose'
  <2>1. UNCHANGED <<cb, wl, once, subscriber, pc, old>>
    BY <1>22 DEF BrokerStep, KeepPeer, peerVars, routerVars
  <2> QED
    BY <2>1, OverflowStays DEF EarlyClose
<1>23. CASE UNCHANGED vars
  BY <1>23, OverflowStays DEF vars, EarlyClose, TypeInv, TypeOK, PeerTypeOK
<1> QED
  BY <1>1, <1>2, <1>3, <1>4, <1>5, <1>6, <1>7, <1>8, <1>9, <1>10, <1>11, <1>12,
     <1>13, <1>14, <1>15, <1>16, <1>17, <1>18, <1>19, <1>20, <1>21, <1>22, <1>23
     DEF Next, HandlerStep, HandlerRuns, Authenticate

\* Every step keeps OrphanOnlyByOverflow: the body of Close finds
\* peer.subscriber nil only after an early close.
LEMMA OrphanStep ==
  ASSUME TypeInv, BufferExclusive, EarlyClose, OrphanOnlyByOverflow, [Next]_vars
  PROVE  OrphanOnlyByOverflow'
<1>1. ASSUME NEW c \in Conns, Accept(c)
      PROVE  OrphanOnlyByOverflow'
  BY <1>1, OverflowStays DEF Accept, OrphanOnlyByOverflow, Overflowed
<1>2. ASSUME NEW c \in Conns, Reject(c)
      PROVE  OrphanOnlyByOverflow'
  BY <1>2, OverflowStays DEF Reject, OrphanOnlyByOverflow, Overflowed
<1>3. ASSUME StopAccepting
      PROVE  OrphanOnlyByOverflow'
  BY <1>3, OverflowStays DEF StopAccepting, KeepPeer, peerVars,
     OrphanOnlyByOverflow, Overflowed
<1>4. ASSUME ServeReturns
      PROVE  OrphanOnlyByOverflow'
  BY <1>4, OverflowStays DEF ServeReturns, KeepPeer, peerVars, routerVars,
     OrphanOnlyByOverflow, Overflowed
<1>5. ASSUME NEW c \in Conns, NEW k \in Clients, AuthOK(c, k)
      PROVE  OrphanOnlyByOverflow'
  BY <1>5, OverflowStays DEF AuthOK, KeepPeer, peerVars, OrphanOnlyByOverflow,
     Overflowed
<1>6. ASSUME NEW c \in Conns, AuthFails(c)
      PROVE  OrphanOnlyByOverflow'
  BY <1>6, OverflowStays DEF AuthFails, KeepPeer, peerVars,
     OrphanOnlyByOverflow, Overflowed
<1>7. ASSUME NEW c \in Conns, NewPeer(c)
      PROVE  OrphanOnlyByOverflow'
  BY <1>7, OverflowStays DEF NewPeer, KeepPeer, peerVars, OrphanOnlyByOverflow,
     Overflowed
<1>8. ASSUME NEW c \in Conns, NewPeerFails(c)
      PROVE  OrphanOnlyByOverflow'
  BY <1>8, OverflowStays DEF NewPeerFails, KeepPeer, peerVars,
     OrphanOnlyByOverflow, Overflowed
<1>9. ASSUME NEW c \in Conns, AssignSubscriber(c)
      PROVE  OrphanOnlyByOverflow'
  BY <1>9, OverflowStays DEF AssignSubscriber, OrphanOnlyByOverflow, Overflowed
<1>10. ASSUME NEW c \in Conns, LoadAndDelete(c)
      PROVE  OrphanOnlyByOverflow'
  BY <1>10, OverflowStays DEF LoadAndDelete, KeepPeer, peerVars,
     OrphanOnlyByOverflow, Overflowed
<1>11. ASSUME NEW c \in Conns, CloseOld(c)
      PROVE  OrphanOnlyByOverflow'
  BY <1>11, OverflowStays DEF CloseOld, OrphanOnlyByOverflow, Overflowed
<1>12. ASSUME NEW c \in Conns, Store(c)
      PROVE  OrphanOnlyByOverflow'
  BY <1>12, OverflowStays DEF Store, OrphanOnlyByOverflow, Overflowed
<1>13. ASSUME NEW c \in Conns, SeesClosed(c)
      PROVE  OrphanOnlyByOverflow'
  BY <1>13, OverflowStays DEF SeesClosed, KeepPeer, peerVars,
     OrphanOnlyByOverflow, Overflowed
<1>14. ASSUME NEW c \in Conns, CheckLimit(c)
      PROVE  OrphanOnlyByOverflow'
  BY <1>14, OverflowStays DEF CheckLimit, KeepPeer, peerVars,
     OrphanOnlyByOverflow, Overflowed
<1>15. ASSUME NEW c \in Conns, NEW k \in Clients, HandleMessage(c, k)
      PROVE  OrphanOnlyByOverflow'
  BY <1>15, OverflowStays DEF HandleMessage, KeepPeer, peerVars,
     OrphanOnlyByOverflow, Overflowed
<1>16. ASSUME NEW c \in Conns, HandleMessageFails(c)
      PROVE  OrphanOnlyByOverflow'
  BY <1>16, OverflowStays DEF HandleMessageFails, KeepPeer, peerVars,
     OrphanOnlyByOverflow, Overflowed
<1>17. ASSUME NEW c \in Conns, Unregister(c)
      PROVE  OrphanOnlyByOverflow'
  BY <1>17, OverflowStays DEF Unregister, KeepPeer, peerVars,
     OrphanOnlyByOverflow, Overflowed
<1>18. ASSUME NEW c \in Conns, ClosePeer(c)
      PROVE  OrphanOnlyByOverflow'
  BY <1>18, OverflowStays DEF ClosePeer, OrphanOnlyByOverflow, Overflowed
<1>19. ASSUME NEW c \in Conns, CloseConn(c)
      PROVE  OrphanOnlyByOverflow'
  BY <1>19, OverflowStays DEF CloseConn, OrphanOnlyByOverflow, Overflowed
<1>20. ASSUME NEW c \in Conns, Release(c)
      PROVE  OrphanOnlyByOverflow'
  BY <1>20, OverflowStays DEF Release, KeepPeer, peerVars, OrphanOnlyByOverflow,
     Overflowed
<1>21. ASSUME NEW c \in Conns, PeerStep(c), UNCHANGED routerVars
      PROVE  OrphanOnlyByOverflow'
  <2>1. \A d \in Conns : sawNil'[d] => sawNil[d] \/ Overflowed(d)
    <3>1. CASE CloseUnsubscribe(c)
      <4>1. CASE subscriber[c]
        BY <3>1, <4>1 DEF CloseUnsubscribe
      <4>2. CASE ~subscriber[c]
        <5>1. once[c] = "unsub" /\ sawNil' = [sawNil EXCEPT ![c] = TRUE]
          BY <3>1, <4>2 DEF CloseUnsubscribe
        <5>2. Overflowed(c)
          BY <5>1, <4>2 DEF EarlyClose
        <5> QED
          BY <5>1, <5>2 DEF TypeInv, TypeOK, PeerTypeOK
      <4> QED
        BY <4>1, <4>2
    <3>2. CASE CloseConnection(c) \/ Callback(c) \/ WriteLoop(c)
      BY <3>2 DEF CloseConnection, Callback, Dispatch, Enqueue, DropClosed, BufferFull,
         SlowConsumer, SlowConsumerClose, WriteLoop, WriterStops, WriterTakes,
         WriteSucceeds, WriteFails, WriterCloses
    <3> QED
      BY <1>21, <3>1, <3>2 DEF PeerStep, CloseBody
  <2> QED
    BY <2>1, OverflowStays DEF OrphanOnlyByOverflow, Overflowed
<1>22. ASSUME BrokerStep
      PROVE  OrphanOnlyByOverflow'
  BY <1>22, OverflowStays DEF BrokerStep, KeepPeer, peerVars, OrphanOnlyByOverflow,
     Overflowed
<1>23. CASE UNCHANGED vars
  BY <1>23, OverflowStays DEF vars, OrphanOnlyByOverflow, Overflowed
<1> QED
  BY <1>1, <1>2, <1>3, <1>4, <1>5, <1>6, <1>7, <1>8, <1>9, <1>10, <1>11, <1>12,
     <1>13, <1>14, <1>15, <1>16, <1>17, <1>18, <1>19, <1>20, <1>21, <1>22, <1>23
     DEF Next, HandlerStep, HandlerRuns, Authenticate

-----------------------------------------------------------------------------
(* Theorems                                                                *)

\* The inductive invariant holds initially.
LEMMA InitIInv == Init => IInv
<1> SUFFICES ASSUME Init PROVE IInv
  OBVIOUS
<1> USE DEF Init, BrokerInit, PeerInit
<1>1. TypeInv
  BY NoMsgs DEF TypeInv, TypeOK, BrokerTypeOK, PeerTypeOK, Identified, Named, States
<1>2. BufferExclusive
  BY BufsAssumption DEF BufferExclusive, Holding, States
<1>3. PeerLife
  BY DEF PeerLife, Named, Subscribed, Assigned, Leaving
<1>4. NoStaleEntry
  BY ConnsAssumption DEF NoStaleEntry
<1>5. Unsubscribed
  BY DEF Unsubscribed
<1>6. Counted
  <2> SUFFICES ASSUME NEW c \in Conns
               PROVE  /\ Len(writeCh[c]) + Len(callback[c]) + Len(pending[c])
                            <= Len(accepted[c])
                      /\ cb[c] # "idle" => Len(callback[c]) = 1
    BY DEF Counted
  <2> DEFINE w == Len(writeCh[c])  k == Len(callback[c])
             p == Len(pending[c])  a == Len(accepted[c])
  <2>1. w = 0 /\ k = 0 /\ p = 0 /\ a = 0
    OBVIOUS
  <2>2. cb[c] = "idle"
    OBVIOUS
  <2> HIDE DEF w, k, p, a
  <2>3. w + k + p <= a
    BY ONLY <2>1
  <2> QED
    BY ONLY <2>2, <2>3 DEF w, k, p, a
<1>7. EarlyClose
  BY DEF EarlyClose
<1>8. OrphanOnlyByOverflow
  BY DEF OrphanOnlyByOverflow
<1> QED
  BY <1>1, <1>2, <1>3, <1>4, <1>5, <1>6, <1>7, <1>8 DEF IInv

\* Every step of the router, of its peers and of NATS keeps it.
LEMMA StepIInv == IInv /\ [Next]_vars => IInv'
  BY TypeStep, BufferStep, PeerLifeStep, StaleStep, UnsubscribedStep, CountedStep,
     EarlyStep, OrphanStep DEF IInv

\* Every reachable state of the router process (router.go, peer.go, broker.go)
\* satisfies the inductive invariant, from which the theorems below follow.
THEOREM Inductive == Spec => []IInv
  BY InitIInv, StepIInv, PTL DEF Spec

\* Type correctness of the router process.
THEOREM TypeCorrect == Spec => []TypeOK
<1>1. IInv => TypeOK
  BY DEF IInv, TypeInv
<1> QED
  BY <1>1, Inductive, PTL

\* The semaphore of authentication buffers (router.go, Serve): for any number
\* of connections and of buffers, every buffer is in authSem or with exactly
\* one handler.  Two handlers never write to one buffer, the limit of
\* connections is never exceeded, and no slot leaks on any path.
THEOREM BuffersExclusive == Spec => []BufferExclusive
<1>1. IInv => BufferExclusive
  BY DEF IInv
<1> QED
  BY <1>1, Inductive, PTL

\* The registry of peers (router.go, handleConn) never keeps the peer of a
\* handler that has run its deferred peers.Delete, whatever the order in which
\* connections of one client come and go.
THEOREM RegistryNotStale == Spec => []NoStaleEntry
<1>1. IInv => NoStaleEntry
  BY DEF IInv
<1> QED
  BY <1>1, Inductive, PTL

\* A handler that has returned leaves nothing behind, whoever closed its peer
\* and in whatever state the broker is.
THEOREM HandlerCleansUp == Spec => []NothingLeftBehind
<1>1. IInv => NothingLeftBehind
  <2> SUFFICES ASSUME IInv, NEW c \in Conns, pc[c] = "done"
               PROVE  /\ conn[c] = "closed"
                      /\ sub[c] # "none" => once[c] = "done"
                      /\ \A k \in Clients : peers[k] # c
                      /\ sub[c] = "active" => sawNil[c]
    BY DEF NothingLeftBehind
  <2>1. conn[c] = "closed" /\ (sub[c] # "none" => once[c] = "done")
    BY DEF IInv, PeerLife, Leaving
  <2>2. \A k \in Clients : peers[k] # c
    BY DEF IInv, NoStaleEntry
  <2>3. sub[c] = "active" => sawNil[c]
    BY <2>1 DEF IInv, Unsubscribed
  <2> QED
    BY <2>1, <2>2, <2>3
<1> QED
  BY <1>1, Inductive, PTL

\* Peer.Close misses the subscription (peer.go, Close and newPeer) only after
\* writeCh has overflowed inside newPeer.
THEOREM OrphansNeedOverflow == Spec => []OrphanOnlyByOverflow
<1>1. IInv => OrphanOnlyByOverflow
  BY DEF IInv
<1> QED
  BY <1>1, Inductive, PTL

=============================================================================

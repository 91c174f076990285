--------------------------- MODULE DeliveryProofs ---------------------------
(***************************************************************************)
(* Proofs about the path of a message through a peer (handleNATSMessage,   *)
(* writeCh, writeLoop), for every set of connections and clients, every    *)
(* size of writeCh and any number of messages: nothing is lost in silence, *)
(* nothing is reordered, and a peer implements Channel.                    *)
(*                                                                         *)
(* A message on its way to connection c is in one of five queues: pending, *)
(* callback, writeCh, writing, written.  The argument classifies what a    *)
(* step does to the queues of one connection (FlowStep), and shows every   *)
(* invariant for the few kinds of steps there are.                         *)
(***************************************************************************)
EXTENDS RouterProofs, RouterRefinement, SequenceTheorems

-----------------------------------------------------------------------------
(* Queues of messages                                                      *)

\* A queue is in the order of publication; one queue lies before another;
\* everything in a queue is also in another.
Sorted(s) == \A i, j \in DOMAIN s : i < j => s[i].n < s[j].n
Before(s, t) == \A i \in DOMAIN s, j \in DOMAIN t : s[i].n < t[j].n
Within(s, t) == \A i \in DOMAIN s : \E j \in DOMAIN t : s[i] = t[j]

\* Messages have numbers.
LEMMA Numbered ==
  ASSUME NEW s \in Seq(Msgs)
  PROVE  \A i \in DOMAIN s : s[i] \in Msgs /\ s[i].n \in Nat
<1>1. \A i \in DOMAIN s : s[i] \in Msgs
  OBVIOUS
<1>2. \A m \in Msgs : m.n \in Nat
  BY DEF Msgs
<1> QED
  BY <1>1, <1>2

\* Two queues joined.
LEMMA Joined ==
  ASSUME NEW a \in Seq(Msgs), NEW b \in Seq(Msgs)
  PROVE  /\ a \o b \in Seq(Msgs)
         /\ Len(a \o b) = Len(a) + Len(b)
         /\ \A i \in DOMAIN (a \o b) :
              \/ i \in DOMAIN a /\ (a \o b)[i] = a[i]
              \/ i - Len(a) \in DOMAIN b /\ i > Len(a) /\ (a \o b)[i] = b[i - Len(a)]
         /\ \A i \in DOMAIN a : i \in DOMAIN (a \o b) /\ (a \o b)[i] = a[i]
         /\ \A i \in DOMAIN b :
              i + Len(a) \in DOMAIN (a \o b) /\ (a \o b)[i + Len(a)] = b[i]
  OBVIOUS

\* Two sorted queues, one before the other, are sorted when joined.
LEMMA JoinSorted ==
  ASSUME NEW a \in Seq(Msgs), NEW b \in Seq(Msgs),
         Sorted(a), Sorted(b), Before(a, b)
  PROVE  Sorted(a \o b)
<1>1. SUFFICES ASSUME NEW i \in DOMAIN (a \o b), NEW j \in DOMAIN (a \o b), i < j
               PROVE  (a \o b)[i].n < (a \o b)[j].n
  BY DEF Sorted
<1>2. i \in Nat /\ j \in Nat /\ Len(a) \in Nat
  OBVIOUS
<1>3. CASE i \in DOMAIN a /\ j \in DOMAIN a
  BY <1>1, <1>3 DEF Sorted
<1>4. CASE i \in DOMAIN a /\ j - Len(a) \in DOMAIN b /\ j > Len(a)
  <2>1. (a \o b)[i] = a[i] /\ (a \o b)[j] = b[j - Len(a)]
    BY <1>4
  <2> QED
    BY <1>4, <2>1 DEF Before
<1>5. CASE /\ i - Len(a) \in DOMAIN b /\ i > Len(a)
           /\ j - Len(a) \in DOMAIN b /\ j > Len(a)
  <2>1. (a \o b)[i] = b[i - Len(a)] /\ (a \o b)[j] = b[j - Len(a)]
    BY <1>5
  <2>2. i - Len(a) < j - Len(a)
    BY <1>1, <1>2
  <2> QED
    BY <1>5, <2>1, <2>2 DEF Sorted
<1> QED
  BY <1>1, <1>2, <1>3, <1>4, <1>5, Joined

\* What lies before, after or within the parts lies so for the whole.
LEMMA JoinPlaced ==
  ASSUME NEW a \in Seq(Msgs), NEW b \in Seq(Msgs), NEW s \in Seq(Msgs)
  PROVE  /\ Before(a, s) /\ Before(b, s) => Before(a \o b, s)
         /\ Before(s, a) /\ Before(s, b) => Before(s, a \o b)
         /\ Within(a, s) /\ Within(b, s) => Within(a \o b, s)
<1>1. Before(a, s) /\ Before(b, s) => Before(a \o b, s)
  BY Joined DEF Before
<1>2. Before(s, a) /\ Before(s, b) => Before(s, a \o b)
  BY Joined DEF Before
<1>3. Within(a, s) /\ Within(b, s) => Within(a \o b, s)
  BY Joined DEF Within
<1> QED
  BY <1>1, <1>2, <1>3

\* The first message of a queue and the rest.
LEMMA Split ==
  ASSUME NEW s \in Seq(Msgs), s # <<>>
  PROVE  /\ Head(s) \in Msgs /\ Tail(s) \in Seq(Msgs)
         /\ <<Head(s)>> \in Seq(Msgs) /\ Len(<<Head(s)>>) = 1
         /\ 1 \in DOMAIN s /\ Head(s) = s[1]
         /\ \A i \in DOMAIN <<Head(s)>> : <<Head(s)>>[i] = s[1]
         /\ \A i \in DOMAIN Tail(s) :
              i > 0 /\ i + 1 \in DOMAIN s /\ Tail(s)[i] = s[i + 1]
  OBVIOUS

\* A sorted queue taken apart.
LEMMA SplitSorted ==
  ASSUME NEW s \in Seq(Msgs), s # <<>>, Sorted(s)
  PROVE  Sorted(<<Head(s)>>) /\ Sorted(Tail(s)) /\ Before(<<Head(s)>>, Tail(s))
<1>1. Sorted(<<Head(s)>>)
  BY DEF Sorted
<1>2. Sorted(Tail(s))
  <2>1. SUFFICES ASSUME NEW i \in DOMAIN Tail(s), NEW j \in DOMAIN Tail(s), i < j
                 PROVE  Tail(s)[i].n < Tail(s)[j].n
    BY DEF Sorted
  <2>2. /\ Tail(s)[i] = s[i + 1] /\ Tail(s)[j] = s[j + 1]
        /\ i + 1 \in DOMAIN s /\ j + 1 \in DOMAIN s
    BY Split
  <2>3. i \in Nat /\ j \in Nat /\ i + 1 < j + 1
    BY <2>1
  <2> QED
    BY <2>2, <2>3 DEF Sorted
<1>3. Before(<<Head(s)>>, Tail(s))
  <2>1. SUFFICES ASSUME NEW i \in DOMAIN <<Head(s)>>, NEW j \in DOMAIN Tail(s)
                 PROVE  <<Head(s)>>[i].n < Tail(s)[j].n
    BY DEF Before
  <2>2. <<Head(s)>>[i] = s[1] /\ Tail(s)[j] = s[j + 1] /\ 1 \in DOMAIN s
        /\ j + 1 \in DOMAIN s
    BY Split
  <2>3. j \in Nat /\ 1 < j + 1
    BY Split
  <2> QED
    BY <2>2, <2>3 DEF Sorted
<1> QED
  BY <1>1, <1>2, <1>3

\* What lies before, after or within a queue lies so for its parts.
LEMMA SplitPlaced ==
  ASSUME NEW s \in Seq(Msgs), s # <<>>, NEW t \in Seq(Msgs)
  PROVE  /\ Before(s, t) => Before(<<Head(s)>>, t) /\ Before(Tail(s), t)
         /\ Before(t, s) => Before(t, <<Head(s)>>) /\ Before(t, Tail(s))
         /\ Within(s, t) => Within(<<Head(s)>>, t) /\ Within(Tail(s), t)
<1>1. Before(s, t) => Before(<<Head(s)>>, t) /\ Before(Tail(s), t)
  BY Split DEF Before
<1>2. Before(t, s) => Before(t, <<Head(s)>>) /\ Before(t, Tail(s))
  BY Split DEF Before
<1>3. Within(s, t) => Within(<<Head(s)>>, t) /\ Within(Tail(s), t)
  BY Split DEF Within
<1> QED
  BY <1>1, <1>2, <1>3

\* Nothing is out of place in an empty queue.
LEMMA EmptyPlaced ==
  ASSUME NEW t \in Seq(Msgs)
  PROVE  /\ Sorted(<<>>)
         /\ Before(<<>>, t) /\ Before(t, <<>>) /\ Within(<<>>, t)
BY DEF Sorted, Before, Within

\* A message added to a queue.
LEMMA Added ==
  ASSUME NEW s \in Seq(Msgs), NEW m \in Msgs
  PROVE  /\ Append(s, m) \in Seq(Msgs) /\ Len(Append(s, m)) = Len(s) + 1
         /\ \A i \in DOMAIN s : i \in DOMAIN Append(s, m) /\ Append(s, m)[i] = s[i]
         /\ Len(s) + 1 \in DOMAIN Append(s, m) /\ Append(s, m)[Len(s) + 1] = m
         /\ \A i \in DOMAIN Append(s, m) :
              \/ i \in DOMAIN s /\ i <= Len(s) /\ Append(s, m)[i] = s[i]
              \/ i = Len(s) + 1 /\ Append(s, m)[i] = m
  OBVIOUS

\* A message newer than all of a queue keeps it sorted.
LEMMA AddSorted ==
  ASSUME NEW s \in Seq(Msgs), NEW m \in Msgs, Sorted(s),
         \A i \in DOMAIN s : s[i].n < m.n
  PROVE  Sorted(Append(s, m))
<1>1. SUFFICES ASSUME NEW i \in DOMAIN Append(s, m), NEW j \in DOMAIN Append(s, m),
                      i < j
               PROVE  Append(s, m)[i].n < Append(s, m)[j].n
  BY DEF Sorted
<1>2. i \in Nat /\ j \in Nat /\ Len(s) \in Nat
  BY Added
<1>3. i \in DOMAIN s /\ Append(s, m)[i] = s[i]
  BY <1>1, <1>2, Added
<1>4. CASE j \in DOMAIN s /\ Append(s, m)[j] = s[j]
  BY <1>1, <1>3, <1>4 DEF Sorted
<1>5. CASE Append(s, m)[j] = m
  BY <1>3, <1>5
<1> QED
  BY <1>4, <1>5, Added

\* The order of five queues w, g, q, h, p filled from the sequence a.
InOrder(w, g, q, h, p, a) ==
    /\ Within(w, a) /\ Within(g, a) /\ Within(q, a) /\ Within(h, a) /\ Within(p, a)
    /\ Sorted(w) /\ Sorted(g) /\ Sorted(q) /\ Sorted(h) /\ Sorted(p)
    /\ Before(w, g) /\ Before(w, q) /\ Before(w, h) /\ Before(w, p)
    /\ Before(g, q) /\ Before(g, h) /\ Before(g, p)
    /\ Before(q, h) /\ Before(q, p)
    /\ Before(h, p)

\* Emptying a queue, moving a message to the next queue, and adding the newest
\* message to the last one keep the order.
LEMMA InOrderKept ==
  ASSUME NEW w \in Seq(Msgs), NEW g \in Seq(Msgs), NEW q \in Seq(Msgs),
         NEW h \in Seq(Msgs), NEW p \in Seq(Msgs), NEW a \in Seq(Msgs),
         InOrder(w, g, q, h, p, a)
  PROVE  /\ InOrder(w, <<>>, q, h, p, a)
         /\ InOrder(w, g, q, <<>>, p, a)
         /\ InOrder(w, g, q, h, <<>>, a)
         /\ p # <<>> => InOrder(w, g, q, <<Head(p)>>, Tail(p), a)
         /\ InOrder(w, g, q \o h, <<>>, p, a)
         /\ q # <<>> => InOrder(w, <<Head(q)>>, Tail(q), h, p, a)
         /\ InOrder(w \o g, <<>>, q, h, p, a)
<1>1. /\ InOrder(w, <<>>, q, h, p, a)
      /\ InOrder(w, g, q, <<>>, p, a)
      /\ InOrder(w, g, q, h, <<>>, a)
  BY EmptyPlaced DEF InOrder
<1>2. ASSUME p # <<>>
      PROVE  InOrder(w, g, q, <<Head(p)>>, Tail(p), a)
  BY <1>2, SplitSorted, SplitPlaced DEF InOrder
<1>3. InOrder(w, g, q \o h, <<>>, p, a)
  BY EmptyPlaced, JoinSorted, JoinPlaced, Joined DEF InOrder
<1>4. ASSUME q # <<>>
      PROVE  InOrder(w, <<Head(q)>>, Tail(q), h, p, a)
  BY <1>4, SplitSorted, SplitPlaced DEF InOrder
<1>5. InOrder(w \o g, <<>>, q, h, p, a)
  BY EmptyPlaced, JoinSorted, JoinPlaced, Joined DEF InOrder
<1> QED
  BY <1>1, <1>2, <1>3, <1>4, <1>5

-----------------------------------------------------------------------------
(* What a step does to the queues of one connection                        *)

\* The callback and the write loop hold one message while they work on it and
\* none when they do not.
Shape ==
    \A c \in Conns :
        /\ IF cb[c] = "idle" THEN callback[c] = <<>> ELSE Len(callback[c]) = 1
        /\ IF wl[c] \in {"write", "close"} THEN Len(writing[c]) = 1
                                           ELSE writing[c] = <<>>

\* The write loop is started by the last step before the read loop.
Starts ==
    \A c \in Conns : pc[c] \in {"new", "auth", "subscribe", "assign", "swap",
                               "closeOld", "store", "rejected"} => wl[c] = "off"

\* The connection d is past losing messages in silence.
Down(d) == Closed(d) \/ broker = "closed"

Still(d) ==
    /\ written'[d] = written[d] /\ writing'[d] = writing[d]
    /\ writeCh'[d] = writeCh[d] /\ callback'[d] = callback[d]
    /\ pending'[d] = pending[d] /\ accepted'[d] = accepted[d]

\* Publish: the message is the newest, and on the subject of d.
Receives(d, m) ==
    /\ sub[d] = "active" /\ m.to = subject[d] /\ UNCHANGED <<id, once, broker>>
    /\ m.n = Len(published) + 1 /\ Len(published') = Len(published) + 1
    /\ pending'[d] = Append(pending[d], m) /\ accepted'[d] = Append(accepted[d], m)
    /\ written'[d] = written[d] /\ writing'[d] = writing[d]
    /\ writeCh'[d] = writeCh[d] /\ callback'[d] = callback[d]

\* Dispatch, Enqueue, WriterTakes, WriteSucceeds: a message moves on.
CallbackTakes(d) ==
    /\ callback[d] = <<>> /\ pending[d] # <<>>
    /\ callback'[d] = <<Head(pending[d])>> /\ pending'[d] = Tail(pending[d])
    /\ written'[d] = written[d] /\ writing'[d] = writing[d]
    /\ writeCh'[d] = writeCh[d] /\ accepted'[d] = accepted[d]
CallbackHands(d) ==
    /\ writeCh'[d] = writeCh[d] \o callback[d] /\ callback'[d] = <<>>
    /\ written'[d] = written[d] /\ writing'[d] = writing[d]
    /\ pending'[d] = pending[d] /\ accepted'[d] = accepted[d]
LoopTakes(d) ==
    /\ writing[d] = <<>> /\ writeCh[d] # <<>>
    /\ writing'[d] = <<Head(writeCh[d])>> /\ writeCh'[d] = Tail(writeCh[d])
    /\ written'[d] = written[d] /\ callback'[d] = callback[d]
    /\ pending'[d] = pending[d] /\ accepted'[d] = accepted[d]
LoopWrites(d) ==
    /\ Len(writing[d]) = 1 /\ UNCHANGED <<once, broker>>
    /\ written'[d] = written[d] \o writing[d] /\ writing'[d] = <<>>
    /\ writeCh'[d] = writeCh[d] /\ callback'[d] = callback[d]
    /\ pending'[d] = pending[d] /\ accepted'[d] = accepted[d]

\* DropClosed, Unsubscribe, the end of a goroutine that called Close, the loss
\* of the broker connection: messages are discarded, once d is down.
Discards(d) ==
    /\ Down(d)'
    /\ written'[d] = written[d] /\ writeCh'[d] = writeCh[d]
    /\ accepted'[d] = accepted[d]
    /\ writing'[d] \in {writing[d], <<>>}
    /\ callback'[d] \in {callback[d], <<>>}
    /\ pending'[d] \in {pending[d], <<>>}

Moves(d) == CallbackTakes(d) \/ CallbackHands(d) \/ LoopTakes(d) \/ LoopWrites(d)
Flow(d) == Still(d) \/ (\E m \in Msgs : Receives(d, m)) \/ Moves(d) \/ Discards(d)

\* The queues of a connection are queues of messages.
LEMMA QueueTypes ==
  ASSUME TypeInv, NEW d \in Conns
  PROVE  /\ written[d] \in Seq(Msgs) /\ writing[d] \in Seq(Msgs)
         /\ writeCh[d] \in Seq(Msgs) /\ callback[d] \in Seq(Msgs)
         /\ pending[d] \in Seq(Msgs) /\ accepted[d] \in Seq(Msgs)
BY DEF TypeInv, TypeOK, BrokerTypeOK, PeerTypeOK

\* A message published by this router or by another.
LEMMA PublishFlow ==
  ASSUME TypeInv, NEW k \in Clients, NEW l \in Clients, Publish(k, l),
         UNCHANGED peerVars, UNCHANGED id, NEW d \in Conns
  PROVE  Still(d) \/ \E m \in Msgs : Receives(d, m)
<1> DEFINE m == [n |-> Len(published) + 1, from |-> k, to |-> l]
<1>1. PICK R \in SUBSET Listeners(l) :
        /\ pending' = [c \in Conns |-> IF c \in R THEN Append(pending[c], m)
                                                  ELSE pending[c]]
        /\ accepted' = [c \in Conns |-> IF c \in R THEN Append(accepted[c], m)
                                                   ELSE accepted[c]]
  BY DEF Publish
<1>2. m \in Msgs /\ m.n = Len(published) + 1 /\ m.to = l
  BY DEF Msgs, TypeInv, TypeOK, BrokerTypeOK
<1>3. published' = Append(published, m)
  BY DEF Publish
<1> HIDE DEF m
<1>4. Len(published') = Len(published) + 1 /\ UNCHANGED broker
  BY <1>2, <1>3 DEF TypeInv, TypeOK, BrokerTypeOK, Publish
<1>5. CASE d \in R
  <2>1. sub[d] = "active" /\ subject[d] = l
    BY <1>1, <1>5 DEF Listeners
  <2>2. pending'[d] = Append(pending[d], m) /\ accepted'[d] = Append(accepted[d], m)
    BY <1>1, <1>5
  <2> QED
    BY <1>2, <1>4, <2>1, <2>2 DEF Receives, peerVars
<1>6. CASE d \notin R
  BY <1>1, <1>6 DEF Still, peerVars
<1> QED
  BY <1>5, <1>6

\* Closing is for good: a connection that is down stays down.
LEMMA DownStays ==
  ASSUME TypeInv, [Next]_vars, NEW d \in Conns, Down(d)
  PROVE  Down(d)'
<1>0. once \in [Conns -> {"idle", "unsub", "conn", "done"}]
  BY DEF TypeInv, TypeOK, PeerTypeOK
<1>1. ASSUME NEW c \in Conns,
             Accept(c) \/ Reject(c) \/ CloseConn(c) \/ AssignSubscriber(c) \/ Store(c)
      PROVE  UNCHANGED <<once, broker>>
  BY <1>1 DEF Accept, Reject, CloseConn, AssignSubscriber, Store, KeepBroker, brokerVars
<1>2. ASSUME NEW c \in Conns,
             Authenticate(c) \/ NewPeerFails(c) \/ LoadAndDelete(c) \/ SeesClosed(c)
             \/ CheckLimit(c) \/ HandleMessageFails(c) \/ Unregister(c) \/ Release(c)
      PROVE  UNCHANGED <<once, broker>>
  BY <1>2 DEF Authenticate, AuthOK, AuthFails, NewPeerFails, LoadAndDelete, SeesClosed,
     CheckLimit, HandleMessageFails, Unregister, Release, KeepBroker, brokerVars,
     KeepPeer, peerVars
<1>3. ASSUME NEW c \in Conns, CloseOld(c) \/ ClosePeer(c)
      PROVE  Down(d)'
  BY <1>0, <1>3 DEF CloseOld, ClosePeer, BeginClose, CloseReturns, KeepBroker,
     brokerVars, Down, Closed, TypeInv, Identified
<1>4. ASSUME NEW c \in Conns,
             NewPeer(c) \/ \E k \in Clients : HandleMessage(c, k)
      PROVE  UNCHANGED <<once, broker>>
  BY <1>4 DEF NewPeer, HandleMessage, Subscribe, Publish, KeepPeer, peerVars
<1>5. ASSUME StopAccepting \/ ServeReturns \/ BrokerStep
      PROVE  Down(d)'
  BY <1>5 DEF StopAccepting, ServeReturns, BrokerStep, Drain, BrokerClosed, DrainSub,
     Publish, KeepBroker, brokerVars, KeepPeer, peerVars, Down, Closed
<1>6. ASSUME NEW c \in Conns, PeerStep(c)
      PROVE  Down(d)'
  <2>1. CASE CloseBody(c)
    BY <1>0, <2>1 DEF CloseBody, CloseUnsubscribe, CloseConnection, Unsubscribe,
       brokerVars, Down, Closed
  <2>2. CASE Callback(c)
    BY <1>0, <2>2 DEF Callback, Dispatch, NextPending, Enqueue, DropClosed, BufferFull,
       SlowConsumer, SlowConsumerClose, BeginClose, CloseReturns, brokerVars, Down,
       Closed
  <2>3. CASE WriteLoop(c)
    BY <1>0, <2>3 DEF WriteLoop, WriterStops, WriterTakes, WriteSucceeds, WriteFails,
       WriterCloses, BeginClose, CloseReturns, brokerVars, Down, Closed
  <2> QED
    BY <1>6, <2>1, <2>2, <2>3 DEF PeerStep
<1>7. CASE UNCHANGED vars
  BY <1>7 DEF vars, Down, Closed
<1> QED
  BY <1>1, <1>2, <1>3, <1>4, <1>5, <1>6, <1>7
     DEF Next, HandlerStep, HandlerRuns, Down, Closed

\* Every step of the goroutines of a peer.
LEMMA PeerFlow ==
  ASSUME TypeInv, Shape, NEW c \in Conns, PeerStep(c), NEW d \in Conns
  PROVE  Flow(d)
<1>0. /\ pending \in [Conns -> Seq(Msgs)] /\ accepted \in [Conns -> Seq(Msgs)]
      /\ writeCh \in [Conns -> Seq(Msgs)] /\ writing \in [Conns -> Seq(Msgs)]
      /\ written \in [Conns -> Seq(Msgs)] /\ callback \in [Conns -> Seq(Msgs)]
      /\ once \in [Conns -> {"idle", "unsub", "conn", "done"}]
  BY DEF TypeInv, TypeOK, BrokerTypeOK, PeerTypeOK
<1>1. CASE CloseUnsubscribe(c)
  BY <1>0, <1>1 DEF CloseUnsubscribe, Unsubscribe, brokerVars, Flow, Still, Discards,
     Down, Closed
<1>2. CASE CloseConnection(c)
  BY <1>0, <1>2 DEF CloseConnection, brokerVars, Flow, Still
<1>3. CASE Dispatch(c)
  BY <1>0, <1>3 DEF Dispatch, NextPending, Shape, Flow, Moves, Still, CallbackTakes
<1>4. CASE Enqueue(c)
  BY <1>0, <1>4 DEF Enqueue, CallbackReturns, brokerVars, Flow, Moves, Still,
     CallbackHands
<1>5. CASE DropClosed(c)
  BY <1>0, <1>5 DEF DropClosed, CallbackReturns, brokerVars, Flow, Still, Discards,
     Down, Closed
<1>6. CASE BufferFull(c) \/ SlowConsumer(c) \/ WriterStops(c) \/ WriteFails(c)
  BY <1>0, <1>6 DEF BufferFull, SlowConsumer, WriterStops, WriteFails, brokerVars,
     Flow, Still
<1>7. CASE SlowConsumerClose(c)
  BY <1>0, <1>7 DEF SlowConsumerClose, BeginClose, CloseReturns, CallbackReturns,
     brokerVars, Flow, Still, Discards, Down, Closed
<1>8. CASE WriterTakes(c)
  BY <1>0, <1>8 DEF WriterTakes, brokerVars, Shape, Flow, Moves, Still, LoopTakes
<1>9. CASE WriteSucceeds(c)
  BY <1>0, <1>9 DEF WriteSucceeds, brokerVars, Shape, Flow, Moves, Still, LoopWrites
<1>10. CASE WriterCloses(c)
  BY <1>0, <1>10 DEF WriterCloses, BeginClose, CloseReturns, brokerVars, Flow, Still,
     Discards, Down, Closed
<1> QED
  BY <1>1, <1>2, <1>3, <1>4, <1>5, <1>6, <1>7, <1>8, <1>9, <1>10
     DEF PeerStep, CloseBody, Callback, WriteLoop

\* Every step, seen from one connection.
LEMMA FlowStep ==
  ASSUME TypeInv, Shape, [Next]_vars, NEW d \in Conns
  PROVE  Flow(d)
<1>1. ASSUME NEW c \in Conns,
             Accept(c) \/ Reject(c) \/ CloseConn(c) \/ AssignSubscriber(c)
             \/ CloseOld(c) \/ ClosePeer(c) \/ Store(c)
      PROVE  Still(d)
  BY <1>1 DEF Accept, Reject, CloseConn, AssignSubscriber, CloseOld, ClosePeer, Store,
     KeepBroker, brokerVars, Still
<1>2. ASSUME NEW c \in Conns,
             Authenticate(c) \/ NewPeerFails(c) \/ LoadAndDelete(c) \/ SeesClosed(c)
             \/ CheckLimit(c) \/ HandleMessageFails(c) \/ Unregister(c) \/ Release(c)
      PROVE  Still(d)
  BY <1>2 DEF Authenticate, AuthOK, AuthFails, NewPeerFails, LoadAndDelete, SeesClosed,
     CheckLimit, HandleMessageFails, Unregister, Release, KeepBroker, brokerVars,
     KeepPeer, peerVars, Still
<1>3. ASSUME NEW c \in Conns, NewPeer(c)
      PROVE  Still(d)
  BY <1>3 DEF NewPeer, Subscribe, KeepPeer, peerVars, Still
<1>4. ASSUME NEW c \in Conns, NEW k \in Clients, HandleMessage(c, k)
      PROVE  Flow(d)
  <2>1. id[c] \in Clients
    BY <1>4 DEF HandleMessage, TypeInv, Identified, Named
  <2> QED
    BY <1>4, <2>1, PublishFlow DEF HandleMessage, KeepPeer, Flow
<1>5. ASSUME StopAccepting \/ ServeReturns
      PROVE  Still(d)
  BY <1>5 DEF StopAccepting, ServeReturns, Drain, KeepBroker, brokerVars, KeepPeer,
     peerVars, Still
<1>6. ASSUME BrokerStep
      PROVE  Flow(d)
  <2>0. UNCHANGED peerVars /\ UNCHANGED id
    BY <1>6 DEF BrokerStep, KeepPeer, routerVars
  <2>1. CASE BrokerClosed
    BY <2>0, <2>1 DEF BrokerClosed, peerVars, Flow, Discards, Down
  <2>2. CASE \E c \in Conns : DrainSub(c)
    BY <2>0, <2>2 DEF DrainSub, peerVars, Flow, Still
  <2>3. CASE \E k, l \in Clients : Publish(k, l)
    BY <2>0, <2>3, PublishFlow DEF Flow
  <2> QED
    BY <1>6, <2>1, <2>2, <2>3 DEF BrokerStep
<1>7. CASE UNCHANGED vars
  BY <1>7 DEF vars, Flow, Still
<1> QED
  BY <1>1, <1>2, <1>3, <1>4, <1>5, <1>6, <1>7, PeerFlow
     DEF Next, HandlerStep, HandlerRuns, Flow

-----------------------------------------------------------------------------
(* The invariants of the queues                                            *)

\* A live subscription is on the subject of the client its connection
\* authenticated as.
Addressed == \A c \in Conns : sub[c] = "active" => subject[c] = id[c]

\* What a subscription got is for its client, in the order of publication.
Received ==
    \A c \in Conns :
        /\ Sorted(accepted[c])
        /\ \A i \in DOMAIN accepted[c] : /\ accepted[c][i].to = id[c]
                                         /\ accepted[c][i].n <= Len(published)

\* The queues hold only what the subscription got, each in order and each
\* before the next.
Ordered ==
    \A c \in Conns :
        InOrder(written[c], writing[c], writeCh[c], callback[c], pending[c], accepted[c])

DeliveryInv == Starts /\ Shape /\ Addressed /\ Received /\ Ordered /\ NoSilentLoss

\* Only Store starts a write loop, and no handler comes back to it.
LEMMA StartsStep ==
  ASSUME TypeInv, Starts, [Next]_vars
  PROVE  Starts'
<1>0. /\ wl \in [Conns -> {"off", "select", "write", "close", "done"}]
      /\ pc \in [Conns -> States]
  BY DEF TypeInv, TypeOK, PeerTypeOK
<1>1. ASSUME NEW c \in Conns,
             Accept(c) \/ Reject(c) \/ CloseConn(c) \/ AssignSubscriber(c)
             \/ CloseOld(c) \/ ClosePeer(c) \/ Store(c)
      PROVE  Starts'
  BY <1>0, <1>1 DEF Accept, Reject, CloseConn, AssignSubscriber, CloseOld, ClosePeer,
     Store, Goto, Starts
<1>2. ASSUME NEW c \in Conns,
             Authenticate(c) \/ NewPeerFails(c) \/ LoadAndDelete(c) \/ SeesClosed(c)
             \/ CheckLimit(c) \/ HandleMessageFails(c) \/ Unregister(c) \/ Release(c)
             \/ NewPeer(c) \/ \E k \in Clients : HandleMessage(c, k)
      PROVE  Starts'
  BY <1>0, <1>2 DEF Authenticate, AuthOK, AuthFails, NewPeerFails, LoadAndDelete,
     SeesClosed, CheckLimit, HandleMessageFails, Unregister, Release, NewPeer,
     HandleMessage, KeepPeer, peerVars, Goto, Starts
<1>3. ASSUME StopAccepting \/ ServeReturns \/ BrokerStep
      PROVE  UNCHANGED <<pc, wl>>
  BY <1>3 DEF StopAccepting, ServeReturns, BrokerStep, KeepPeer, peerVars, routerVars
<1>4. ASSUME NEW c \in Conns, PeerStep(c), UNCHANGED routerVars
      PROVE  Starts'
  <2>1. UNCHANGED pc
    BY <1>4 DEF routerVars
  <2>2. CASE CloseBody(c) \/ Callback(c)
    BY <2>1, <2>2 DEF CloseBody, CloseUnsubscribe, CloseConnection, Callback, Dispatch,
       Enqueue, DropClosed, BufferFull, SlowConsumer, SlowConsumerClose, Starts
  <2>3. CASE WriteLoop(c)
    BY <1>0, <2>1, <2>3 DEF WriteLoop, WriterStops, WriterTakes, WriteSucceeds,
       WriteFails, WriterCloses, Starts
  <2> QED
    BY <1>4, <2>2, <2>3 DEF PeerStep
<1>5. CASE UNCHANGED vars
  BY <1>5 DEF vars, Starts
<1> QED
  BY <1>1, <1>2, <1>3, <1>4, <1>5 DEF Next, HandlerStep, HandlerRuns, Starts

\* The callback and the write loop take one message and let it go again.
LEMMA ShapeStep ==
  ASSUME TypeInv, Starts, Shape, [Next]_vars
  PROVE  Shape'
<1>0. /\ writing \in [Conns -> Seq(Msgs)] /\ callback \in [Conns -> Seq(Msgs)]
      /\ wl \in [Conns -> {"off", "select", "write", "close", "done"}]
      /\ cb \in [Conns -> {"idle", "select", "full", "close"}]
  BY DEF TypeInv, TypeOK, PeerTypeOK
<1>1. ASSUME NEW c \in Conns,
             Accept(c) \/ Reject(c) \/ CloseConn(c) \/ AssignSubscriber(c)
             \/ CloseOld(c) \/ ClosePeer(c)
      PROVE  UNCHANGED <<cb, callback, wl, writing>>
  BY <1>1 DEF Accept, Reject, CloseConn, AssignSubscriber, CloseOld, ClosePeer
<1>2. ASSUME NEW c \in Conns,
             Authenticate(c) \/ NewPeerFails(c) \/ LoadAndDelete(c) \/ SeesClosed(c)
             \/ CheckLimit(c) \/ HandleMessageFails(c) \/ Unregister(c) \/ Release(c)
             \/ NewPeer(c) \/ \E k \in Clients : HandleMessage(c, k)
      PROVE  UNCHANGED <<cb, callback, wl, writing>>
  BY <1>2 DEF Authenticate, AuthOK, AuthFails, NewPeerFails, LoadAndDelete, SeesClosed,
     CheckLimit, HandleMessageFails, Unregister, Release, NewPeer, HandleMessage,
     KeepPeer, peerVars
<1>3. ASSUME NEW c \in Conns, Store(c)
      PROVE  Shape'
  <2>1. wl[c] = "off"
    BY <1>3 DEF Store, Starts
  <2> QED
    BY <1>0, <1>3, <2>1 DEF Store, Shape
<1>4. ASSUME StopAccepting \/ ServeReturns \/ BrokerStep
      PROVE  UNCHANGED <<cb, callback, wl, writing>>
  BY <1>4 DEF StopAccepting, ServeReturns, BrokerStep, KeepPeer, peerVars
<1>5. ASSUME NEW c \in Conns, PeerStep(c)
      PROVE  Shape'
  <2>1. CASE CloseBody(c)
    BY <2>1 DEF CloseBody, CloseUnsubscribe, CloseConnection, Shape
  <2>2. CASE Callback(c)
    BY <1>0, <2>2 DEF Callback, Dispatch, Enqueue, DropClosed, BufferFull,
       SlowConsumer, SlowConsumerClose, CallbackReturns, Shape
  <2>3. CASE WriteLoop(c)
    BY <1>0, <2>3 DEF WriteLoop, WriterStops, WriterTakes, WriteSucceeds, WriteFails,
       WriterCloses, Shape
  <2> QED
    BY <1>5, <2>1, <2>2, <2>3 DEF PeerStep
<1>6. CASE UNCHANGED vars
  BY <1>6 DEF vars, Shape
<1> QED
  BY <1>1, <1>2, <1>3, <1>4, <1>5, <1>6
     DEF Next, HandlerStep, HandlerRuns, Shape

\* Subscribe is the only way to a live subscription, and it comes after the
\* client is known.
LEMMA AddressedStep ==
  ASSUME TypeInv, PeerLife, Addressed, [Next]_vars
  PROVE  Addressed'
<1>0. /\ sub \in [Conns -> {"none", "active", "draining", "gone"}]
      /\ subject \in [Conns -> Clients \cup {None}]
      /\ id \in [Conns -> Clients \cup {None}]
  BY DEF TypeInv, TypeOK, BrokerTypeOK
<1>1. ASSUME NEW c \in Conns,
             Accept(c) \/ Reject(c) \/ CloseConn(c) \/ AssignSubscriber(c)
             \/ CloseOld(c) \/ ClosePeer(c) \/ Store(c)
      PROVE  UNCHANGED <<sub, subject, id>>
  BY <1>1 DEF Accept, Reject, CloseConn, AssignSubscriber, CloseOld, ClosePeer,
     Store, KeepBroker, brokerVars
<1>2. ASSUME NEW c \in Conns,
             AuthFails(c) \/ NewPeerFails(c) \/ LoadAndDelete(c) \/ SeesClosed(c)
             \/ CheckLimit(c) \/ HandleMessageFails(c) \/ Unregister(c) \/ Release(c)
             \/ \E k \in Clients : HandleMessage(c, k)
      PROVE  UNCHANGED <<sub, subject, id>>
  BY <1>2 DEF AuthFails, NewPeerFails, LoadAndDelete, SeesClosed, CheckLimit,
     HandleMessageFails, Unregister, Release, HandleMessage, Publish, KeepBroker,
     brokerVars
<1>3. ASSUME NEW c \in Conns, NEW k \in Clients, AuthOK(c, k)
      PROVE  Addressed'
  <2>1. sub[c] = "none"
    BY <1>3 DEF AuthOK, PeerLife
  <2> QED
    BY <1>0, <1>3, <2>1 DEF AuthOK, KeepBroker, brokerVars, Addressed
<1>4. ASSUME NEW c \in Conns, NewPeer(c)
      PROVE  Addressed'
  BY <1>0, <1>4 DEF NewPeer, Subscribe, Addressed
<1>5. ASSUME StopAccepting \/ ServeReturns \/ BrokerStep
      PROVE  Addressed'
  BY <1>0, <1>5 DEF StopAccepting, ServeReturns, BrokerStep, Drain, BrokerClosed,
     DrainSub, Publish, KeepBroker, brokerVars, routerVars, Addressed
<1>6. ASSUME NEW c \in Conns, PeerStep(c), UNCHANGED routerVars
      PROVE  Addressed'
  BY <1>0, <1>6, PeerStepFrame DEF routerVars, Addressed, TypeInv, TypeOK
<1>7. CASE UNCHANGED vars
  BY <1>7 DEF vars, Addressed
<1> QED
  BY <1>1, <1>2, <1>3, <1>4, <1>5, <1>6, <1>7
     DEF Next, HandlerStep, HandlerRuns, Authenticate, Addressed

\* Nothing is unpublished, and a connection gets its client once.
LEMMA HistoryStep ==
  ASSUME TypeInv, [Next]_vars
  PROVE  /\ Len(published) \in Nat /\ Len(published') \in Nat
         /\ Len(published) <= Len(published')
         /\ \A d \in Conns : id'[d] = id[d] \/ pc[d] = "auth"
<1>0. published \in Seq(Msgs) /\ id \in [Conns -> Clients \cup {None}]
  BY DEF TypeInv, TypeOK, BrokerTypeOK
<1>1. ASSUME NEW c \in Conns,
             Accept(c) \/ Reject(c) \/ CloseConn(c) \/ AssignSubscriber(c)
             \/ CloseOld(c) \/ ClosePeer(c) \/ Store(c)
      PROVE  UNCHANGED <<published, id>>
  BY <1>1 DEF Accept, Reject, CloseConn, AssignSubscriber, CloseOld, ClosePeer,
     Store, KeepBroker, brokerVars
<1>2. ASSUME NEW c \in Conns,
             AuthFails(c) \/ NewPeerFails(c) \/ LoadAndDelete(c) \/ SeesClosed(c)
             \/ CheckLimit(c) \/ HandleMessageFails(c) \/ Unregister(c) \/ Release(c)
             \/ NewPeer(c)
      PROVE  UNCHANGED <<published, id>>
  BY <1>2 DEF AuthFails, NewPeerFails, LoadAndDelete, SeesClosed, CheckLimit,
     HandleMessageFails, Unregister, Release, NewPeer, Subscribe, KeepBroker,
     brokerVars
<1>3. ASSUME NEW c \in Conns, NEW k \in Clients, AuthOK(c, k)
      PROVE  UNCHANGED published /\ \A d \in Conns : id'[d] = id[d] \/ pc[d] = "auth"
  BY <1>0, <1>3 DEF AuthOK, KeepBroker, brokerVars
<1>4. ASSUME NEW k \in Clients, NEW l \in Clients, Publish(k, l)
      PROVE  Len(published') = Len(published) + 1
  <2> DEFINE m == [n |-> Len(published) + 1, from |-> k, to |-> l]
  <2>1. m \in Msgs
    BY <1>0 DEF Msgs
  <2>2. published' = Append(published, m)
    BY <1>4 DEF Publish
  <2> HIDE DEF m
  <2> QED
    BY <1>0, <2>1, <2>2
<1>5. ASSUME NEW c \in Conns, NEW k \in Clients, HandleMessage(c, k)
      PROVE  UNCHANGED id /\ Len(published') = Len(published) + 1
  BY <1>4, <1>5 DEF HandleMessage, TypeInv, Identified, Named
<1>6. ASSUME StopAccepting \/ ServeReturns
      PROVE  UNCHANGED <<published, id>>
  BY <1>6 DEF StopAccepting, ServeReturns, Drain, KeepBroker, brokerVars, routerVars
<1>7. ASSUME BrokerStep
      PROVE  /\ UNCHANGED id
             /\ UNCHANGED published \/ Len(published') = Len(published) + 1
  BY <1>4, <1>7 DEF BrokerStep, BrokerClosed, DrainSub, routerVars
<1>8. ASSUME NEW c \in Conns, PeerStep(c), UNCHANGED routerVars
      PROVE  UNCHANGED <<published, id>>
  BY <1>8, PeerStepFrame DEF routerVars, TypeInv, TypeOK
<1>9. ASSUME UNCHANGED vars
      PROVE  UNCHANGED <<published, id>>
  BY <1>9 DEF vars
<1>10. /\ UNCHANGED published \/ Len(published') = Len(published) + 1
       /\ \A d \in Conns : id'[d] = id[d] \/ pc[d] = "auth"
  BY <1>1, <1>2, <1>3, <1>5, <1>6, <1>7, <1>8, <1>9
     DEF Next, HandlerStep, HandlerRuns, Authenticate
<1> QED
  BY <1>0, <1>10

\* What a subscription gets is newer than all it got, and for its client.
LEMMA ReceivedStep ==
  ASSUME TypeInv, PeerLife, Shape, Addressed, Received, [Next]_vars
  PROVE  Received'
<1> SUFFICES ASSUME NEW d \in Conns
             PROVE  /\ Sorted(accepted'[d])
                    /\ \A i \in DOMAIN accepted'[d] :
                         /\ accepted'[d][i].to = id'[d]
                         /\ accepted'[d][i].n <= Len(published')
  BY Zenon DEF Received, Sorted
<1>0. accepted[d] \in Seq(Msgs) /\ \A i \in DOMAIN accepted[d] : accepted[d][i].n \in Nat
  BY QueueTypes, Numbered
<1>1. /\ Sorted(accepted[d])
      /\ \A i \in DOMAIN accepted[d] : /\ accepted[d][i].to = id[d]
                                       /\ accepted[d][i].n <= Len(published)
  BY DEF Received
<1>2. CASE accepted'[d] = accepted[d]
  <2>1. \A i \in DOMAIN accepted[d] : accepted[d][i].n <= Len(published')
    BY <1>0, <1>1, HistoryStep
  <2>2. pc[d] = "auth" => DOMAIN accepted[d] = {}
    BY <1>0 DEF PeerLife
  <2> QED
    BY <1>1, <1>2, <2>1, <2>2, HistoryStep
<1>3. ASSUME NEW m \in Msgs, Receives(d, m)
      PROVE  /\ Sorted(accepted'[d])
             /\ \A i \in DOMAIN accepted'[d] :
                  /\ accepted'[d][i].to = id'[d]
                  /\ accepted'[d][i].n <= Len(published')
  <2>1. /\ accepted'[d] = Append(accepted[d], m) /\ id'[d] = id[d] /\ m.to = id[d]
        /\ m.n = Len(published) + 1 /\ Len(published') = Len(published) + 1
    BY <1>3 DEF Receives, Addressed
  <2>2. Len(published) \in Nat
    BY HistoryStep
  <2>3. \A i \in DOMAIN accepted[d] : accepted[d][i].n < m.n
    BY <1>0, <1>1, <2>1, <2>2
  <2>4. Sorted(accepted'[d])
    BY <1>0, <1>1, <2>1, <2>3, AddSorted
  <2>5. ASSUME NEW i \in DOMAIN accepted'[d]
        PROVE  accepted'[d][i].to = id'[d] /\ accepted'[d][i].n <= Len(published')
    <3>1. CASE i \in DOMAIN accepted[d] /\ accepted'[d][i] = accepted[d][i]
      BY <1>0, <1>1, <2>1, <2>2, <3>1
    <3>2. CASE accepted'[d][i] = m
      BY <2>1, <2>2, <3>2
    <3> QED
      BY <1>0, <2>1, <3>1, <3>2, Added
  <2> QED
    BY <2>4, <2>5
<1> QED
  BY <1>2, <1>3, FlowStep
     DEF Flow, Still, Moves, CallbackTakes, CallbackHands, LoopTakes, LoopWrites,
         Discards

\* The newest message joins the last queue and the history.
LEMMA InOrderAdded ==
  ASSUME NEW w \in Seq(Msgs), NEW g \in Seq(Msgs), NEW q \in Seq(Msgs),
         NEW h \in Seq(Msgs), NEW p \in Seq(Msgs), NEW a \in Seq(Msgs),
         InOrder(w, g, q, h, p, a),
         NEW m \in Msgs, \A i \in DOMAIN a : a[i].n < m.n
  PROVE  InOrder(w, g, q, h, Append(p, m), Append(a, m))
<1>1. ASSUME NEW s \in Seq(Msgs), Within(s, a)
      PROVE  Within(s, Append(a, m)) /\ \A i \in DOMAIN s : s[i].n < m.n
  <2>1. \A j \in DOMAIN a : j \in DOMAIN Append(a, m) /\ Append(a, m)[j] = a[j]
    BY Added
  <2>2. \A i \in DOMAIN s : \E j \in DOMAIN a : s[i] = a[j]
    BY <1>1 DEF Within
  <2>3. \A i \in DOMAIN s : \E j \in DOMAIN Append(a, m) : s[i] = Append(a, m)[j]
    BY <2>1, <2>2, Zenon
  <2>4. \A i \in DOMAIN s : s[i].n < m.n
    BY <2>2
  <2> QED
    BY <2>3, <2>4 DEF Within
<1>2. ASSUME NEW s \in Seq(Msgs), Within(s, a), Before(s, p)
      PROVE  Before(s, Append(p, m))
  <2>1. \A i \in DOMAIN s : s[i].n < m.n
    BY <1>1, <1>2
  <2>2. \A j \in DOMAIN Append(p, m) : \/ j \in DOMAIN p /\ Append(p, m)[j] = p[j]
                                      \/ Append(p, m)[j] = m
    BY Added
  <2> QED
    BY <1>2, <2>1, <2>2 DEF Before
<1>3. Within(p, Append(a, m))
  BY <1>1 DEF InOrder
<1>4. Within(Append(p, m), Append(a, m))
  <2>1. SUFFICES ASSUME NEW i \in DOMAIN Append(p, m)
                 PROVE  \E j \in DOMAIN Append(a, m) : Append(p, m)[i] = Append(a, m)[j]
    BY DEF Within
  <2>2. CASE i \in DOMAIN p /\ Append(p, m)[i] = p[i]
    BY <1>3, <2>2 DEF Within
  <2>3. CASE Append(p, m)[i] = m
    <3>1. Len(a) + 1 \in DOMAIN Append(a, m) /\ Append(a, m)[Len(a) + 1] = m
      BY Added
    <3> QED
      BY <2>3, <3>1
  <2> QED
    BY <2>2, <2>3, Added
<1>5. Sorted(Append(p, m))
  BY <1>1, AddSorted DEF InOrder
<1> QED
  BY <1>1, <1>2, <1>4, <1>5 DEF InOrder

\* No step puts a message in front of an older one.
LEMMA OrderedStep ==
  ASSUME TypeInv, Shape, Received, Ordered, [Next]_vars
  PROVE  Ordered'
<1> SUFFICES ASSUME NEW d \in Conns
             PROVE  InOrder(written'[d], writing'[d], writeCh'[d], callback'[d],
                            pending'[d], accepted'[d])
  BY DEF Ordered, InOrder, Sorted, Before, Within
<1>0. /\ written[d] \in Seq(Msgs) /\ writing[d] \in Seq(Msgs)
      /\ writeCh[d] \in Seq(Msgs) /\ callback[d] \in Seq(Msgs)
      /\ pending[d] \in Seq(Msgs) /\ accepted[d] \in Seq(Msgs)
      /\ <<>> \in Seq(Msgs)
  BY QueueTypes, NoMsgs
<1>1. InOrder(written[d], writing[d], writeCh[d], callback[d], pending[d], accepted[d])
  BY DEF Ordered
<1>2. CASE Still(d)
  BY <1>1, <1>2 DEF Still
<1>3. ASSUME NEW m \in Msgs, Receives(d, m)
      PROVE  InOrder(written'[d], writing'[d], writeCh'[d], callback'[d],
                     pending'[d], accepted'[d])
  <2>1. Len(published) \in Nat /\ m.n = Len(published) + 1
    BY <1>3 DEF Receives, TypeInv, TypeOK, BrokerTypeOK
  <2>2. \A i \in DOMAIN accepted[d] : accepted[d][i].n < m.n
    BY <1>0, <2>1, Numbered DEF Received
  <2>3. InOrder(written[d], writing[d], writeCh[d], callback[d],
                Append(pending[d], m), Append(accepted[d], m))
    BY <1>0, <1>1, <2>2, InOrderAdded
  <2> QED
    BY <1>3, <2>3 DEF Receives
<1>4. CASE Moves(d)
  <2>1. /\ pending[d] # <<>> =>
             InOrder(written[d], writing[d], writeCh[d], <<Head(pending[d])>>,
                     Tail(pending[d]), accepted[d])
        /\ InOrder(written[d], writing[d], writeCh[d] \o callback[d], <<>>,
                   pending[d], accepted[d])
        /\ writeCh[d] # <<>> =>
             InOrder(written[d], <<Head(writeCh[d])>>, Tail(writeCh[d]), callback[d],
                     pending[d], accepted[d])
        /\ InOrder(written[d] \o writing[d], <<>>, writeCh[d], callback[d],
                   pending[d], accepted[d])
    BY <1>0, <1>1, InOrderKept
  <2> QED
    BY <1>4, <2>1 DEF Moves, CallbackTakes, CallbackHands, LoopTakes, LoopWrites
<1>5. CASE Discards(d)
  <2>1. PICK g \in {writing[d], <<>>}, h \in {callback[d], <<>>}, p \in {pending[d], <<>>} :
           writing'[d] = g /\ callback'[d] = h /\ pending'[d] = p
    BY <1>5 DEF Discards
  <2>2. InOrder(written[d], <<>>, writeCh[d], callback[d], pending[d], accepted[d])
    BY <1>0, <1>1, InOrderKept
  <2>3. /\ g \in Seq(Msgs) /\ h \in Seq(Msgs)
        /\ InOrder(written[d], g, writeCh[d], callback[d], pending[d], accepted[d])
    BY <1>0, <1>1, <2>2
  <2>4. InOrder(written[d], g, writeCh[d], <<>>, pending[d], accepted[d])
    BY <1>0, <2>3, InOrderKept
  <2>5. InOrder(written[d], g, writeCh[d], h, pending[d], accepted[d])
    BY <2>3, <2>4
  <2>6. InOrder(written[d], g, writeCh[d], h, <<>>, accepted[d])
    BY <1>0, <2>3, <2>5, InOrderKept
  <2>7. InOrder(written[d], g, writeCh[d], h, p, accepted[d])
    BY <2>5, <2>6
  <2> QED
    BY <1>5, <2>1, <2>7 DEF Discards
<1> QED
  BY <1>2, <1>3, <1>4, <1>5, FlowStep DEF Flow

\* Joining queues.
LEMMA JoinLaws ==
  ASSUME NEW a \in Seq(Msgs), NEW b \in Seq(Msgs)
  PROVE  /\ a \o <<>> = a
         /\ \A m \in Msgs : a \o Append(b, m) = Append(a \o b, m)
         /\ b # <<>> => (a \o <<Head(b)>>) \o Tail(b) = a \o b
         /\ \A c \in Seq(Msgs) : a \o (b \o c) = (a \o b) \o c
<1>1. a \o <<>> = a
  OBVIOUS
<1>2. \A m \in Msgs : a \o Append(b, m) = Append(a \o b, m)
  OBVIOUS
<1>3. b # <<>> => (a \o <<Head(b)>>) \o Tail(b) = a \o b
  OBVIOUS
<1>4. \A c \in Seq(Msgs) : a \o (b \o c) = (a \o b) \o c
  OBVIOUS
<1> QED
  BY <1>1, <1>2, <1>3, <1>4

\* The five queues joined.
Together(w, g, q, h, p) == w \o g \o q \o h \o p

\* An arrival adds to them, and no move changes them.
MovesKeep(w, g, q, h, p) ==
    /\ \A m \in Msgs : Together(w, g, q, h, Append(p, m))
                       = Append(Together(w, g, q, h, p), m)
    /\ h = <<>> /\ p # <<>> =>
         Together(w, g, q, <<Head(p)>>, Tail(p)) = Together(w, g, q, h, p)
    /\ Together(w, g, q \o h, <<>>, p) = Together(w, g, q, h, p)
    /\ g = <<>> /\ q # <<>> =>
         Together(w, <<Head(q)>>, Tail(q), h, p) = Together(w, g, q, h, p)
    /\ Together(w \o g, <<>>, q, h, p) = Together(w, g, q, h, p)

\* So it is for all queues.
LEMMA FlowLaws ==
  ASSUME NEW w \in Seq(Msgs), NEW g \in Seq(Msgs), NEW q \in Seq(Msgs),
         NEW h \in Seq(Msgs), NEW p \in Seq(Msgs)
  PROVE  MovesKeep(w, g, q, h, p)
<1> USE DEF Together
<1> DEFINE x == w \o g
           y == w \o g \o q
           z == w \o g \o q \o h
<1>1. x \in Seq(Msgs) /\ y \in Seq(Msgs) /\ z \in Seq(Msgs)
  BY Joined
<1>2. y = x \o q /\ z = y \o h
  OBVIOUS
<1>3. x \o (q \o h) = z
  <2> HIDE DEF x
  <2>1. x \o (q \o h) = (x \o q) \o h
    <3>1. x \in Seq(Msgs)
      BY <1>1
    <3> QED
      BY <3>1
  <2> QED
    BY <2>1 DEF x
<1>4. w \o <<>> = w /\ (q # <<>> => (w \o <<Head(q)>>) \o Tail(q) = w \o q)
  BY JoinLaws
<1>5. g = <<>> => x = w
  BY <1>4
<1> HIDE DEF x, y, z
<1>6. \A m \in Msgs : z \o Append(p, m) = Append(z \o p, m)
  BY <1>1, JoinLaws
<1>7. h = <<>> => z = y
  BY <1>1, <1>2, JoinLaws
<1>8. p # <<>> => (y \o <<Head(p)>>) \o Tail(p) = y \o p
  BY <1>1, JoinLaws
<1>9. x \o <<>> = x /\ z \o <<>> = z
  BY <1>1, JoinLaws
<1>10. h = <<>> /\ p # <<>> =>
         Together(w, g, q, <<Head(p)>>, Tail(p)) = Together(w, g, q, h, p)
  BY <1>7, <1>8 DEF y, z
<1>11. g = <<>> /\ q # <<>> =>
         Together(w, <<Head(q)>>, Tail(q), h, p) = Together(w, g, q, h, p)
  BY <1>4, <1>5 DEF x
<1> QED
  BY <1>3, <1>6, <1>9, <1>10, <1>11 DEF x, z, MovesKeep

\* While d is up no step loses a message.
LEMMA NoLossStep ==
  ASSUME TypeInv, Shape, NoSilentLoss, [Next]_vars
  PROVE  NoSilentLoss'
<1> SUFFICES ASSUME NEW d \in Conns, ~Down(d)'
             PROVE  Together(written'[d], writing'[d], writeCh'[d], callback'[d],
                             pending'[d]) = accepted'[d]
  BY DEF NoSilentLoss, Down, Closed, Together
<1>1. Together(written[d], writing[d], writeCh[d], callback[d], pending[d]) = accepted[d]
  BY DownStays DEF NoSilentLoss, Down, Together
<1>0. MovesKeep(written[d], writing[d], writeCh[d], callback[d], pending[d])
  BY QueueTypes, FlowLaws
<1>2. CASE Still(d)
  BY <1>1, <1>2 DEF Still
<1>3. ASSUME NEW m \in Msgs, Receives(d, m)
      PROVE  Together(written'[d], writing'[d], writeCh'[d], callback'[d],
                      pending'[d]) = accepted'[d]
  BY <1>1, <1>3, <1>0 DEF Receives, MovesKeep
<1>4. CASE CallbackTakes(d)
  BY <1>1, <1>4, <1>0 DEF CallbackTakes, MovesKeep
<1>5. CASE CallbackHands(d)
  BY <1>1, <1>5, <1>0 DEF CallbackHands, MovesKeep
<1>6. CASE LoopTakes(d)
  BY <1>1, <1>6, <1>0 DEF LoopTakes, MovesKeep
<1>7. CASE LoopWrites(d)
  BY <1>1, <1>7, <1>0 DEF LoopWrites, MovesKeep
<1> QED
  BY <1>2, <1>3, <1>4, <1>5, <1>6, <1>7, FlowStep DEF Flow, Moves, Discards

-----------------------------------------------------------------------------
(* The theorems                                                            *)

\* At the start all queues are empty.
LEMMA InitDelivery ==
  ASSUME Init
  PROVE  DeliveryInv
<1>1. /\ \A c \in Conns : /\ written[c] = <<>> /\ writing[c] = <<>>
                           /\ writeCh[c] = <<>> /\ callback[c] = <<>>
                           /\ pending[c] = <<>> /\ accepted[c] = <<>>
                           /\ cb[c] = "idle" /\ wl[c] = "off" /\ sub[c] = "none"
  BY DEF Init, BrokerInit, PeerInit
<1>2. Starts /\ Shape /\ Addressed
  BY <1>1 DEF Starts, Shape, Addressed
<1>3. Received
  <2>1. DOMAIN <<>> = {}
    OBVIOUS
  <2> QED
    BY <1>1, <2>1 DEF Received, Sorted
<1>4. Ordered
  BY <1>1, EmptyPlaced, NoMsgs DEF Ordered, InOrder
<1>5. NoSilentLoss
  <2>1. <<>> \o <<>> \o <<>> \o <<>> \o <<>> = <<>>
    OBVIOUS
  <2> QED
    BY <1>1, <2>1 DEF NoSilentLoss
<1> QED
  BY <1>2, <1>3, <1>4, <1>5 DEF DeliveryInv

\* Every step keeps the invariants of the queues.
LEMMA StepDelivery ==
  ASSUME IInv, DeliveryInv, [Next]_vars
  PROVE  DeliveryInv'
BY StartsStep, ShapeStep, AddressedStep, ReceivedStep, OrderedStep, NoLossStep
   DEF DeliveryInv, IInv

\* The invariants of the queues hold in every reachable state of the router.
THEOREM DeliveryInductive == Spec => []DeliveryInv
<1>1. Init => DeliveryInv
  BY InitDelivery
<1>2. IInv /\ DeliveryInv /\ [Next]_vars => DeliveryInv'
  BY StepDelivery
<1> QED
  BY <1>1, <1>2, Inductive, PTL DEF Spec

\* NoSilentLoss: while a peer and the broker connection are open, what its
\* queues hold is, in order, exactly what its subscription got; the callback,
\* the write loop and every caller of Close may interleave as they like.
THEOREM NothingLost == Spec => []NoSilentLoss
<1>1. DeliveryInv => NoSilentLoss
  BY DEF DeliveryInv
<1> QED
  BY <1>1, DeliveryInductive, PTL

\* WrittenInOrder: whatever is dropped while a peer is being closed, what its
\* write loop wrote is in the order of publication, without repetition, and
\* addressed to the client that authenticated on the connection.
THEOREM DeliveredInOrder == Spec => []WrittenInOrder
<1>1. TypeInv /\ DeliveryInv => WrittenInOrder
  <2>1. SUFFICES ASSUME TypeInv, DeliveryInv, NEW c \in Conns
                 PROVE  /\ \A i \in DOMAIN written[c] : written[c][i].to = id[c]
                        /\ \A i, j \in DOMAIN written[c] :
                             i < j => written[c][i].n < written[c][j].n
    BY DEF WrittenInOrder
  <2>2. Sorted(written[c]) /\ Within(written[c], accepted[c])
    BY <2>1 DEF DeliveryInv, Ordered, InOrder
  <2>3. \A i \in DOMAIN accepted[c] : accepted[c][i].to = id[c]
    BY <2>1 DEF DeliveryInv, Received
  <2> QED
    BY <2>2, <2>3 DEF Sorted, Within
<1> QED
  BY <1>1, Inductive, DeliveryInductive, PTL DEF IInv

-----------------------------------------------------------------------------
(* A peer implements Channel                                               *)

\* In a sorted queue a message has one place.
LEMMA OnePlace ==
  ASSUME NEW a \in Seq(Msgs), Sorted(a), NEW i \in DOMAIN a, NEW j \in DOMAIN a,
         a[i] = a[j]
  PROVE  i = j
<1>1. i \in Nat /\ j \in Nat /\ a[i].n \in Nat /\ a[j].n \in Nat
  BY Numbered
<1>2. ~(i < j) /\ ~(j < i)
  BY <1>1 DEF Sorted
<1> QED
  BY <1>1, <1>2

\* The place of what was written last among what the subscription got: before
\* the message the write loop holds, and right before it while nothing is lost.
LEMMA LastWritten ==
  ASSUME TypeInv, DeliveryInv, NEW d \in Conns, Len(writing[d]) = 1
  PROVE  \E i \in Hop(d)!Last + 1 .. Len(accepted[d]) :
            /\ ~Down(d) => i = Hop(d)!Last + 1
            /\ writing[d] = <<accepted[d][i]>>
<1> DEFINE a == accepted[d]
           w == written[d]
           g == writing[d]
<1>0. a \in Seq(Msgs) /\ w \in Seq(Msgs) /\ g \in Seq(Msgs)
  BY QueueTypes
<1>1. /\ Sorted(a) /\ Within(w, a) /\ Within(g, a) /\ Before(w, g)
  BY DEF DeliveryInv, Received, Ordered, InOrder
<1>2. 1 \in DOMAIN g /\ g = <<g[1]>>
  BY <1>0
<1>3. PICK j \in DOMAIN a : g[1] = a[j]
  BY <1>1, <1>2 DEF Within
<1>4. ~Down(d) => /\ Len(w) + 1 \in DOMAIN a /\ a[Len(w) + 1] = g[1]
                  /\ \A i \in DOMAIN w : i \in DOMAIN a /\ a[i] = w[i]
  <2>1. SUFFICES ASSUME ~Down(d)
                 PROVE  /\ Len(w) + 1 \in DOMAIN a /\ a[Len(w) + 1] = g[1]
                        /\ \A i \in DOMAIN w : i \in DOMAIN a /\ a[i] = w[i]
    OBVIOUS
  <2>2. (w \o g) \o writeCh[d] \o callback[d] \o pending[d] = a
    BY <2>1 DEF DeliveryInv, NoSilentLoss, Down
  <2>3. /\ w \o g \in Seq(Msgs) /\ 1 + Len(w) \in DOMAIN (w \o g)
        /\ (w \o g)[1 + Len(w)] = g[1]
        /\ \A i \in DOMAIN w : i \in DOMAIN (w \o g) /\ (w \o g)[i] = w[i]
    <3> HIDE DEF w, g
    <3> QED
      BY <1>0, <1>2, Joined
  <2>4. \A i \in DOMAIN (w \o g) : i \in DOMAIN a /\ a[i] = (w \o g)[i]
    <3> DEFINE x == w \o g
               y == x \o writeCh[d]
               z == y \o callback[d]
    <3>1. writeCh[d] \in Seq(Msgs) /\ callback[d] \in Seq(Msgs) /\ pending[d] \in Seq(Msgs)
      BY QueueTypes
    <3>2. x \in Seq(Msgs)
      BY <2>3
    <3> HIDE DEF x
    <3>3. y \in Seq(Msgs) /\ \A i \in DOMAIN x : i \in DOMAIN y /\ y[i] = x[i]
      BY <3>1, <3>2, Joined
    <3> HIDE DEF y
    <3>4. z \in Seq(Msgs) /\ \A i \in DOMAIN y : i \in DOMAIN z /\ z[i] = y[i]
      BY <3>1, <3>3, Joined
    <3> HIDE DEF z
    <3>5. \A i \in DOMAIN z : /\ i \in DOMAIN (z \o pending[d])
                              /\ (z \o pending[d])[i] = z[i]
      BY <3>1, <3>4, Joined
    <3>6. z \o pending[d] = a
      BY <2>2 DEF x, y, z
    <3> QED
      BY <3>3, <3>4, <3>5, <3>6 DEF x
  <2>5. 1 + Len(w) = Len(w) + 1
    BY <1>0
  <2> QED
    BY <2>3, <2>4, <2>5
<1> DEFINE last == Hop(d)!Last
<1>5. CASE w = <<>>
  <2>1. last = 0
    BY <1>5 DEF Hop!Last
  <2>2. Len(w) = 0
    BY <1>5
  <2>3. ~Down(d) => j = 1
    BY <1>0, <1>1, <1>3, <1>4, <2>2, OnePlace
  <2> HIDE DEF last
  <2>4. j \in last + 1 .. Len(a) /\ (~Down(d) => j = last + 1)
    BY <1>0, <2>1, <2>3
  <2> QED
    BY <1>2, <1>3, <2>4 DEF last
<1>6. CASE w # <<>>
  <2>1. Len(w) \in DOMAIN w
    BY <1>0, <1>6
  <2>2. PICK k \in DOMAIN a : w[Len(w)] = a[k]
    BY <1>1, <2>1 DEF Within
  <2>3. last = k
    <3>1. last = CHOOSE i \in DOMAIN a : a[i] = w[Len(w)]
      BY <1>6 DEF Hop!Last
    <3>2. last \in DOMAIN a /\ a[last] = w[Len(w)]
      BY <2>2, <3>1
    <3> HIDE DEF last
    <3> QED
      BY <1>0, <1>1, <2>2, <3>2, OnePlace
  <2> HIDE DEF last
  <2>4. a[k].n < a[j].n
    BY <1>1, <1>2, <1>3, <2>1, <2>2 DEF Before
  <2>5. k < j
    <3>1. k \in Nat /\ j \in Nat /\ a[k].n \in Nat /\ a[j].n \in Nat
      BY <1>0, Numbered
    <3>2. ~(j < k) /\ j # k
      BY <1>1, <2>4, <3>1 DEF Sorted
    <3> QED
      BY <3>1, <3>2
  <2>6. ~Down(d) => k = Len(w) /\ j = Len(w) + 1
    BY <1>0, <1>1, <1>3, <1>4, <2>1, <2>2, OnePlace
  <2>7. j \in last + 1 .. Len(a) /\ (~Down(d) => j = last + 1)
    BY <1>0, <2>3, <2>5, <2>6
  <2> QED
    BY <1>2, <1>3, <2>7 DEF last
<1> QED
  BY <1>5, <1>6

\* Every step of the router is a step, or none, of the channel of connection d.
LEMMA ChannelStep ==
  ASSUME TypeInv, DeliveryInv, [Next]_vars, NEW d \in Conns
  PROVE  Hop(d)!Next \/ UNCHANGED Hop(d)!channelVars
<1>0. accepted[d] \in Seq(Msgs) /\ written[d] \in Seq(Msgs) /\ writing[d] \in Seq(Msgs)
  BY QueueTypes
<1>1. ASSUME accepted'[d] = accepted[d], written'[d] = written[d]
      PROVE  Hop(d)!Next \/ UNCHANGED Hop(d)!channelVars
  <2>1. CASE Down(d) <=> Down(d)'
    BY <1>1, <2>1 DEF Hop!channelVars, Down
  <2>2. CASE ~Down(d) /\ Down(d)'
    BY <1>1, <2>2 DEF Hop!Next, Hop!Down, Down
  <2> QED
    BY <2>1, <2>2, DownStays
<1>2. ASSUME NEW m \in Msgs, Receives(d, m)
      PROVE  Hop(d)!Put
  <2>1. /\ accepted'[d] = Append(accepted[d], m) /\ written'[d] = written[d]
        /\ m.n = Len(published) + 1 /\ UNCHANGED <<once, broker>>
    BY <1>2 DEF Receives
  <2>2. /\ Len(accepted'[d]) = Len(accepted[d]) + 1
        /\ accepted'[d][Len(accepted'[d])] = m
    BY <1>0, <2>1, Added
  <2>3. SubSeq(accepted'[d], 1, Len(accepted[d])) = accepted[d]
    BY <1>0, <2>1
  <2>4. \A i \in DOMAIN accepted[d] : accepted[d][i] # m
    <3>1. Len(published) \in Nat
      BY DEF TypeInv, TypeOK, BrokerTypeOK
    <3>2. \A i \in DOMAIN accepted[d] : accepted[d][i].n <= Len(published)
      BY DEF DeliveryInv, Received
    <3> QED
      BY <2>1, <3>1, <3>2
  <2> QED
    BY <2>1, <2>2, <2>3, <2>4 DEF Hop!Put, Closed
<1>3. CASE LoopWrites(d)
  <2>1. PICK i \in Hop(d)!Last + 1 .. Len(accepted[d]) :
            /\ ~Down(d) => i = Hop(d)!Last + 1
            /\ writing[d] = <<accepted[d][i]>>
    BY <1>3, LastWritten DEF LoopWrites
  <2>2. written'[d] = Append(written[d], accepted[d][i])
    BY <1>0, <1>3, <2>1 DEF LoopWrites
  <2>3. accepted'[d] = accepted[d] /\ UNCHANGED <<once, broker>>
    BY <1>3 DEF LoopWrites
  <2> QED
    BY <2>1, <2>2, <2>3 DEF Hop!Next, Hop!Get, Closed, Down
<1> QED
  BY <1>1, <1>2, <1>3, FlowStep
     DEF DeliveryInv, Flow, Still, Moves, CallbackTakes, CallbackHands, LoopTakes,
         Discards, Hop!Next

\* ImplementsChannel: from its subscription to its client's connection every
\* peer is a Channel, lossless until it or the broker connection is closed and
\* in order, without duplicates, for ever.
THEOREM PeersAreChannels == Spec => ImplementsChannel
<1>1. ASSUME Init, NEW c \in Conns
      PROVE  Hop(c)!Init
  BY <1>1 DEF Init, BrokerInit, PeerInit, Hop!Init, Closed
<1>2. Init => \A c \in Conns : Hop(c)!Init
  BY <1>1
<1>3. TypeInv /\ DeliveryInv /\ [Next]_vars
        => [\A c \in Conns : Hop(c)!Next \/ UNCHANGED Hop(c)!channelVars]_vars
  BY ChannelStep
<1> QED
  BY <1>2, <1>3, Inductive, DeliveryInductive, PTL DEF Spec, IInv, ImplementsChannel

=============================================================================

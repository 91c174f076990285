---------------------------- MODULE LimitProofs ----------------------------
(***************************************************************************)
(* The semaphore of buffers implements ConnectionLimit, for every number   *)
(* of connections and buffers: buf maps the handlers that hold a buffer    *)
(* one to one onto the buffers that are not in authSem, so there are as    *)
(* many of one as of the other, and each step is a step of the limit.      *)
(***************************************************************************)
EXTENDS RouterProofs, RouterRefinement, FiniteSetTheorems

\* The connections being served.
Served == {c \in Conns : pc[c] \in Holding}

\* There are as many of them as buffers lent.
LEMMA AsManyAsLent ==
  ASSUME TypeInv, BufferExclusive
  PROVE  Cardinality(Served) = Cardinality(Bufs \ authSem)
<1> DEFINE f == [c \in Served |-> buf[c]]
           T == Bufs \ authSem
<1>1. \A c \in Served : f[c] \in T
  <2>1. SUFFICES ASSUME NEW c \in Served
                 PROVE  buf[c] \in T
    OBVIOUS
  <2>2. c \in Conns /\ pc[c] \in Holding
    BY DEF Served
  <2>3. buf[c] # None /\ buf[c] \notin authSem
    BY <2>2 DEF BufferExclusive
  <2> QED
    BY <2>2, <2>3 DEF TypeInv, TypeOK
<1>2. \A c, d \in Served : f[c] = f[d] => c = d
  BY DEF BufferExclusive, Served
<1>3. \A b \in T : \E c \in Served : f[c] = b
  <2>1. SUFFICES ASSUME NEW b \in T
                 PROVE  \E c \in Served : buf[c] = b
    OBVIOUS
  <2>2. PICK c \in Conns : buf[c] = b
    BY <2>1 DEF BufferExclusive
  <2>3. b # None
    BY <2>1, BufsAssumption
  <2> QED
    BY <2>2, <2>3 DEF BufferExclusive, Served
<1>4. f \in Bijection(Served, T)
  <2>1. f \in [Served -> T]
    BY <1>1
  <2> HIDE DEF f, T
  <2>2. f \in Injection(Served, T)
    BY <1>2, <2>1 DEF Injection, IsInjective
  <2>3. f \in Surjection(Served, T)
    BY <1>3, <2>1 DEF Surjection
  <2> QED
    BY <2>2, <2>3 DEF Bijection
<1>5. IsFiniteSet(T)
  BY BufsFinite, FS_Subset
<1> HIDE DEF T, f
<1>6. f \in Injection(Served, T) /\ f \in Surjection(Served, T)
  BY <1>4 DEF Bijection
<1>7. Cardinality(Served) = Cardinality(T)
  BY <1>5, <1>6, FS_Injection
<1> QED
  BY <1>7 DEF T

\* ConnectionLimit counts with the same operator.
LEMMA SameCardinality ==
  ASSUME NEW S
  PROVE  Limit!Cardinality(S) = Cardinality(S)
BY Zenon DEF Limit!Cardinality, Cardinality

\* A buffer is free, so fewer connections are served than there are buffers.
LEMMA AcceptAdmits ==
  ASSUME TypeInv, BufferExclusive, NEW c \in Conns, Accept(c)
  PROVE  Limit!Admit(c)
<1>1. pc[c] = "new" /\ authSem # {} /\ pc' = [pc EXCEPT ![c] = "auth"]
  BY DEF Accept, Goto
<1>2. pc \in [Conns -> States] /\ authSem \subseteq Bufs
  BY DEF TypeInv, TypeOK
<1>3. c \notin Limit!Known
  BY <1>1 DEF Limit!Known, Holding
<1>4. Cardinality(Served) < Cardinality(Bufs)
  <2>1. Bufs \ authSem # Bufs /\ Bufs \ authSem \in SUBSET Bufs
    BY <1>1, <1>2
  <2>2. IsFiniteSet(Bufs \ authSem)
    BY BufsFinite, FS_Subset
  <2>3. /\ Cardinality(Bufs) \in Nat /\ Cardinality(Bufs \ authSem) \in Nat
        /\ Cardinality(Bufs \ authSem) <= Cardinality(Bufs)
        /\ Cardinality(Bufs \ authSem) # Cardinality(Bufs)
    BY <2>1, <2>2, BufsFinite, FS_Subset, FS_CardinalityType
  <2> QED
    BY <2>3, AsManyAsLent
<1>5. Served' = Served \cup {c}
  BY <1>1, <1>2 DEF Served, Holding, States
<1>6. /\ {d \in Conns : pc'[d] = "rejected"} = {d \in Conns : pc[d] = "rejected"}
      /\ {d \in Conns : pc'[d] = "done"} = {d \in Conns : pc[d] = "done"}
  BY <1>1, <1>2
<1>7. Cardinality({d \in Conns : pc[d] \in Holding}) < Cardinality(Bufs)
  BY <1>4, Zenon DEF Served
<1>8. {d \in Conns : pc'[d] \in Holding} = {d \in Conns : pc[d] \in Holding} \cup {c}
  BY <1>5 DEF Served, Holding, States
<1> QED
  BY <1>3, <1>6, <1>7, <1>8, SameCardinality DEF Limit!Admit

\* No buffer is free, so as many connections are served as there are buffers.
LEMMA RejectRefuses ==
  ASSUME TypeInv, BufferExclusive, NEW c \in Conns, Reject(c)
  PROVE  Limit!Refuse(c)
<1>1. pc[c] = "new" /\ authSem = {} /\ pc' = [pc EXCEPT ![c] = "rejected"]
  BY DEF Reject, Goto
<1>2. pc \in [Conns -> States]
  BY DEF TypeInv, TypeOK
<1>3. c \notin Limit!Known
  BY <1>1 DEF Limit!Known, Holding
<1>4. Cardinality(Served) = Cardinality(Bufs)
  <2>1. Bufs \ authSem = Bufs
    BY <1>1
  <2> QED
    BY <2>1, AsManyAsLent
<1>5. Served' = Served
  BY <1>1, <1>2 DEF Served, Holding, States
<1>6. /\ {d \in Conns : pc'[d] = "rejected"} = {d \in Conns : pc[d] = "rejected"} \cup {c}
      /\ {d \in Conns : pc'[d] = "done"} = {d \in Conns : pc[d] = "done"}
  BY <1>1, <1>2
<1>7. Cardinality({d \in Conns : pc[d] \in Holding}) = Cardinality(Bufs)
  BY <1>4, Zenon DEF Served
<1>8. {d \in Conns : pc'[d] \in Holding} = {d \in Conns : pc[d] \in Holding}
  BY <1>5 DEF Served, Holding, States
<1> QED
  BY <1>3, <1>6, <1>7, <1>8, SameCardinality DEF Limit!Refuse

\* The handler's last deferred call frees its slot.
LEMMA ReleaseLeaves ==
  ASSUME TypeInv, NEW c \in Conns, Release(c)
  PROVE  Limit!Leave(c)
<1>1. pc[c] = "release" /\ pc' = [pc EXCEPT ![c] = "done"]
  BY DEF Release, Goto
<1>2. pc \in [Conns -> States]
  BY DEF TypeInv, TypeOK
<1>3. c \in Served /\ Served' = Served \ {c}
  BY <1>1, <1>2 DEF Served, Holding, States
<1>4. /\ {d \in Conns : pc'[d] = "rejected"} = {d \in Conns : pc[d] = "rejected"}
      /\ {d \in Conns : pc'[d] = "done"} = {d \in Conns : pc[d] = "done"} \cup {c}
  BY <1>1, <1>2
<1> QED
  BY <1>3, <1>4 DEF Limit!Leave, Served

\* Every other step leaves a served connection served, and the others alone.
LEMMA OthersStay ==
  ASSUME TypeInv, [Next]_vars,
         \A c \in Conns : ~Accept(c) /\ ~Reject(c) /\ ~Release(c)
  PROVE  UNCHANGED Limit!limitVars
<1>0. pc \in [Conns -> States]
  BY DEF TypeInv, TypeOK
<1>1. ASSUME NEW c \in Conns, NEW s \in Holding, pc[c] \in Holding, Goto(c, s)
      PROVE  UNCHANGED Limit!limitVars
  <2>1. \A d \in Conns : /\ pc'[d] \in Holding <=> pc[d] \in Holding
                         /\ pc'[d] = "rejected" <=> pc[d] = "rejected"
                         /\ pc'[d] = "done" <=> pc[d] = "done"
    BY <1>0, <1>1 DEF Goto, Holding, States
  <2> QED
    BY <2>1 DEF Limit!limitVars
<1>2. ASSUME UNCHANGED pc
      PROVE  UNCHANGED Limit!limitVars
  BY <1>2 DEF Limit!limitVars
<1>3. ASSUME NEW c \in Conns, HandlerStep(c)
      PROVE  UNCHANGED pc \/ (pc[c] \in Holding /\ \E s \in Holding : Goto(c, s))
  BY <1>3 DEF HandlerStep, HandlerRuns, Authenticate, AuthOK, AuthFails, NewPeer,
     NewPeerFails, AssignSubscriber, LoadAndDelete, CloseOld, Store, SeesClosed,
     CheckLimit, HandleMessage, HandleMessageFails, Unregister, ClosePeer, CloseConn,
     Holding, States
<1>4. ASSUME StopAccepting \/ ServeReturns \/ BrokerStep
             \/ (\E c \in Conns : PeerStep(c) /\ UNCHANGED routerVars) \/ UNCHANGED vars
      PROVE  UNCHANGED pc
  BY <1>4 DEF StopAccepting, ServeReturns, BrokerStep, routerVars, vars
<1> QED
  BY <1>1, <1>2, <1>3, <1>4 DEF Next

\* ImplementsLimit: the semaphore is an exact limit.  However handlers and the
\* accept loop interleave and whatever ends a handler, a connection is refused
\* exactly when MaxConnections others are being served.
THEOREM LimitExact == Spec => ImplementsLimit
<1>1. Init => Limit!Init
  BY DEF Init, Limit!Init, Holding, States
<1>2. IInv /\ [Next]_vars => [Limit!Next]_(Limit!limitVars)
  <2>1. SUFFICES ASSUME IInv, [Next]_vars
                 PROVE  Limit!Next \/ UNCHANGED Limit!limitVars
    OBVIOUS
  <2>2. TypeInv /\ BufferExclusive
    BY <2>1 DEF IInv
  <2>3. CASE \E c \in Conns : Accept(c) \/ Reject(c) \/ Release(c)
    BY <2>2, <2>3, AcceptAdmits, RejectRefuses, ReleaseLeaves DEF Limit!Next
  <2>4. CASE \A c \in Conns : ~Accept(c) /\ ~Reject(c) /\ ~Release(c)
    BY <2>1, <2>2, <2>4, OthersStay
  <2> QED
    BY <2>3, <2>4
<1> QED
  BY <1>1, <1>2, Inductive, PTL DEF Spec, ImplementsLimit, Limit!Spec

=============================================================================

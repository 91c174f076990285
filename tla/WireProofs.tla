----------------------------- MODULE WireProofs -----------------------------
(***************************************************************************)
(* Proofs about frames, for every set of messages and frames, any number   *)
(* of connections, buffers and objects, and every max_message_size: what   *)
(* is published is what one client sent, no frame is read from its middle, *)
(* and the lengths both sides accept.                                      *)
(***************************************************************************)
EXTENDS Wire, SequenceTheorems, TLAPS

-----------------------------------------------------------------------------
(* The inductive invariant                                                 *)

Frames == [total : Nat, to : STRING, id : Nat, utf8 : BOOLEAN]
Parts  == [part : 1..5, n : Nat, f : Frames]
Outs   == [from : Conns, n : Nat, f : Frames, len : Nat, payload : (Conns \cup {None}) \X Nat]
Fields == [from : Conns, n : Nat, f : Frames, payload : Bufs]
Calls  == [at : {"get", "length", "body", "fill", "marshal", "publish", "fail", "ended"},
           buf : Bufs \cup {None}, obj : Objs \cup {None}, n : Nat, len : Nat,
           hdr : Frames \cup {None}, slice : Bufs \cup {None}, out : Outs \cup {None}]

WireTypes ==
    /\ net \in [Conns -> Seq(Parts)]
    /\ count \in [Conns -> Nat]
    /\ broken \in [Conns -> BOOLEAN]
    /\ h \in [Conns -> Calls]
    /\ data \in [Bufs -> (Conns \cup {None}) \X Nat]
    /\ object \in [Objs -> Fields \cup {None}]
    /\ nats \in Seq(Outs)

\* Two handlers never have the same buffer or object.
Exclusive ==
    \A c, d \in Conns : c # d =>
        /\ h[c].buf # None => h[c].buf # h[d].buf
        /\ h[c].obj # None => h[c].obj # h[d].obj

\* Piece r may come right after piece p.
Follows(p, r) ==
    IF p.part = 5 THEN r.part = 1
    ELSE r.part = p.part + 1 /\ r.n = p.n /\ r.f = p.f
Chain(q) == \A i \in DOMAIN q : i + 1 \in DOMAIN q => Follows(q[i], q[i + 1])

\* The pieces on a connection follow each other.  The last one ends a frame,
\* unless a Write has failed, after which the library writes nothing more.
Aligned(c) ==
    /\ Chain(net[c])
    /\ c \notin Library => ~broken[c]
    /\ ~broken[c] => /\ net[c] # <<>> => net[c][Len(net[c])].part = 5
                     /\ h[c].at = "body" => net[c] # <<>>
    /\ net[c] # <<>> =>
          /\ h[c].at \in {"get", "length", "fill", "marshal", "publish"} => net[c][1].part = 1
          /\ h[c].at = "body" =>
                net[c][1].part = 2 /\ net[c][1].n = h[c].n /\ net[c][1].f = h[c].hdr

\* What Encode lets through, and the frames of the library.
Encoded(f) == /\ f.id <= MaxMsgIDLen /\ f.total <= MaxMessageSize
              /\ minMessageSize + f.id <= f.total
Lawful(c) ==
    c \in Library =>
        /\ \A i \in DOMAIN net[c] : Encoded(net[c][i].f)
        /\ h[c].hdr # None => Encoded(h[c].hdr)
        /\ CfgMax >= MaxMessageSize /\ h[c].at \in {"fail", "ended"} /\ h[c].hdr # None =>
              ~isValidHexPubKey(h[c].hdr.to) \/ ~h[c].hdr.utf8

\* What handleMessage has at each of its statements.
Accepted(f) == f \in Frames /\ HeaderOK(f)
Handled(c) ==
    /\ h[c].at \in {"length", "body", "fill", "marshal", "publish", "fail"} <=> h[c].buf # None
    /\ h[c].at \in {"get", "length", "body", "fill", "ended"} => h[c].obj = None
    /\ h[c].at \in {"marshal", "publish"} => h[c].obj # None
    /\ h[c].at \in {"body", "fill", "marshal", "publish"} =>
          h[c].hdr \in Frames /\ h[c].len = h[c].hdr.total
    /\ h[c].at = "fail" => h[c].hdr \in Frames
    /\ h[c].at \in {"fill", "marshal", "publish"} => Accepted(h[c].hdr)
    /\ h[c].at \in {"fill", "marshal"} =>
          h[c].slice = h[c].buf /\ data[h[c].buf] = <<c, h[c].n>>
    /\ h[c].at = "marshal" =>
          object[h[c].obj] = [from |-> c, n |-> h[c].n, f |-> h[c].hdr, payload |-> h[c].buf]
    /\ h[c].at = "publish" =>
          h[c].out = [from |-> c, n |-> h[c].n, f |-> h[c].hdr, len |-> h[c].len,
                      payload |-> <<c, h[c].n>>]

\* What is published and what became of it.
Sound(m) == m.payload = <<m.from, m.n>> /\ m.len = m.f.total /\ Accepted(m.f)
Delivered ==
    /\ \A i \in DOMAIN nats : Sound(nats[i])
    /\ dead \subseteq {"upper"}
    /\ cut # None => cut.total > MaxMessageSize - Overhead

WireInv == /\ WireTypes /\ Exclusive /\ Delivered
           /\ \A c \in Conns : Aligned(c) /\ Lawful(c) /\ Handled(c)

-----------------------------------------------------------------------------
(* Types                                                                   *)

\* The frames a sender makes, and their pieces.
LEMMA FrameTypes ==
  /\ \A m \in Outgoing : FrameOf(m) \in Frames /\ (Encodable(m) => Encoded(FrameOf(m)))
  /\ Raw \subseteq Frames
<1>1. ASSUME NEW m \in Outgoing
      PROVE  FrameOf(m) \in Frames /\ (Encodable(m) => Encoded(FrameOf(m)))
  <2>1. m.to \in STRING /\ m.id \in Nat /\ m.payload \in Nat /\ m.utf8 \in BOOLEAN
    BY LengthsAssumption
  <2> QED
    BY <2>1 DEF FrameOf, Frames, Encodable, Encoded, KeyHexLen, minMessageSize
<1>2. Raw \subseteq Frames
  BY LengthsAssumption DEF Frames
<1> QED
  BY <1>1, <1>2

LEMMA PieceTypes ==
  ASSUME NEW f \in Frames, NEW n \in Nat, NEW k \in 0..5
  PROVE  /\ Pieces(f, n, k) \in Seq(Parts)
         /\ Len(Pieces(f, n, k)) = k
         /\ \A i \in 1..k : Pieces(f, n, k)[i] = [part |-> i, n |-> n, f |-> f]
  BY DEF Pieces, Parts

\* What the handler of one connection does to its call: at most the fields of
\* that call change, and they keep their types.
LEMMA CallTypes ==
  ASSUME NEW c \in Conns, WireTypes, Handled(c), Handler(c)
  PROVE  h' \in [Conns -> Calls] /\ \A d \in Conns : d # c => h'[d] = h[d]
<1>0. /\ h \in [Conns -> Calls] /\ h[c] \in Calls /\ net[c] \in Seq(Parts)
      /\ \A p \in Parts : p.n \in Nat /\ p.f \in Frames /\ p.f.total \in Nat
  BY DEF WireTypes, Parts, Frames
<1>1. ASSUME NEW r \in Calls, h' = [h EXCEPT ![c] = r]
      PROVE  h' \in [Conns -> Calls] /\ \A d \in Conns : d # c => h'[d] = h[d]
  BY <1>0, <1>1
<1>2. CASE GetBuffer(c)
  <2>1. PICK b \in Bufs : h' = [h EXCEPT ![c].buf = b, ![c].at = "length"]
    BY <1>2 DEF GetBuffer
  <2> QED
    BY <1>0, <2>1 DEF Calls
<1>3. CASE ReadLength(c)
  <2>1. Head(net[c]) \in Parts
    BY <1>0, <1>3 DEF ReadLength
  <2>2. PICK n \in Nat, l \in Nat, f \in Frames, a \in {"body", "fail"} :
          h' = [h EXCEPT ![c].n = n, ![c].len = l, ![c].hdr = f, ![c].at = a]
    BY <1>0, <1>3, <2>1 DEF ReadLength
  <2> QED
    BY <1>0, <2>2 DEF Calls
<1>4. CASE ReadBody(c)
  <2>1. net[c][1] \in Parts
    BY <1>0, <1>4 DEF ReadBody
  <2>2. PICK n \in Nat, f \in Frames, a \in {"fill", "fail"} :
          h' = [h EXCEPT ![c].hdr = f, ![c].n = n, ![c].slice = h[c].buf, ![c].at = a]
    BY <1>0, <1>4, <2>1 DEF ReadBody
  <2> QED
    BY <1>0, <2>2 DEF Calls
<1>5. CASE Fill(c)
  <2>1. PICK o \in Objs : h' = [h EXCEPT ![c].obj = o, ![c].at = "marshal"]
    BY <1>5 DEF Fill
  <2> QED
    BY <1>0, <2>1 DEF Calls
<1>6. CASE Marshal(c)
  <2>1. /\ object[h[c].obj] = [from |-> c, n |-> h[c].n, f |-> h[c].hdr,
                               payload |-> h[c].buf]
        /\ data[h[c].buf] = <<c, h[c].n>> /\ h[c].hdr \in Frames
    BY <1>6 DEF Marshal, Handled
  <2> DEFINE o == [from |-> c, n |-> h[c].n, f |-> h[c].hdr, len |-> h[c].len,
                   payload |-> <<c, h[c].n>>]
  <2>2. PICK m : m = object[h[c].obj]
    OBVIOUS
  <2>3. /\ m.from = c /\ m.n = h[c].n /\ m.f = h[c].hdr
        /\ data[m.payload] = <<c, h[c].n>>
    BY <2>1, <2>2
  <2>4. h' = [h EXCEPT ![c].out = o, ![c].at = IF m.f.utf8 THEN "publish" ELSE "fail"]
    BY <1>6, <2>2, <2>3 DEF Marshal
  <2>5. o \in Outs
    BY <1>0, <2>1 DEF Calls, Outs
  <2> HIDE DEF o
  <2>6. PICK a \in {"publish", "fail"} : h' = [h EXCEPT ![c].out = o, ![c].at = a]
    BY <2>4
  <2> QED
    BY <1>0, <2>5, <2>6 DEF Calls
<1>7. CASE Publish(c)
  <2>1. Idle \in Calls
    BY DEF Idle, Calls
  <2> QED
    BY <1>0, <1>1, <1>7, <2>1 DEF Publish
<1>8. CASE Fail(c)
  <2>1. [Idle EXCEPT !.at = "ended", !.n = h[c].n,
                     !.hdr = IF h[c].at = "fail" THEN h[c].hdr ELSE None] \in Calls
    BY <1>0 DEF Idle, Calls
  <2> QED
    BY <1>0, <1>1, <1>8, <2>1 DEF Fail
<1> QED
  BY <1>2, <1>3, <1>4, <1>5, <1>6, <1>7, <1>8 DEF Handler

\* A sender appends the first k pieces of its n-th frame, f.
Adds(c, f, n, k) ==
    /\ net' = [net EXCEPT ![c] = @ \o Pieces(f, n, k)]
    /\ c \in Library => Encoded(f)
    /\ broken[c] => c \notin Library \/ k = 0
    /\ k = 5 \/ broken'[c]
    /\ broken[c] => broken'[c]

\* A sender appends the pieces of one frame of its own to its connection.
LEMMA SenderAppends ==
  ASSUME NEW c \in Conns, WireTypes, Sender(c)
  PROVE  /\ UNCHANGED <<h, data, object, nats, recipient, cut, dead>>
         /\ count' \in [Conns -> Nat]
         /\ broken' \in [Conns -> BOOLEAN]
         /\ \A d \in Conns : d # c => broken'[d] = broken[d]
         /\ c \notin Library => broken'[c] = broken[c]
         /\ \/ net' = net /\ broken' = broken
            \/ \E f \in Frames, n \in Nat, k \in 0..5 : Adds(c, f, n, k)
<1>0. net \in [Conns -> Seq(Parts)] /\ count \in [Conns -> Nat] /\ broken \in [Conns -> BOOLEAN]
  BY DEF WireTypes
<1>1. count' \in [Conns -> Nat] /\ count[c] + 1 \in Nat
  <2>1. Sending(c)
    BY DEF Sender, EncodeRefuses, EncodeWrites, EncodeFails, RawSends
  <2> QED
    BY <1>0, <2>1 DEF Sending
<1>2. UNCHANGED <<h, data, object, nats, recipient, cut, dead>>
  BY DEF Sender, EncodeRefuses, EncodeWrites, EncodeFails, RawSends, sinkVars
<1>3. ASSUME NEW m \in Outgoing, EncodeRefuses(c, m)
      PROVE  UNCHANGED <<net, broken>>
  BY <1>3 DEF EncodeRefuses
<1>4. ASSUME NEW m \in Outgoing, EncodeWrites(c, m)
      PROVE  /\ UNCHANGED broken /\ ~broken[c]
             /\ \E f \in Frames, n \in Nat :
                  /\ net' = [net EXCEPT ![c] = @ \o Pieces(f, n, 5)]
                  /\ Encoded(f)
  BY <1>1, <1>4, FrameTypes DEF EncodeWrites
<1>5. ASSUME NEW m \in Outgoing, EncodeFails(c, m)
      PROVE  /\ broken' = [broken EXCEPT ![c] = TRUE]
             /\ \E f \in Frames, n \in Nat, k \in 0..4 :
                  /\ net' = [net EXCEPT ![c] = @ \o Pieces(f, n, k)]
                  /\ Encoded(f)
                  /\ broken[c] => k = 0
  <2>1. FrameOf(m) \in Frames /\ Encoded(FrameOf(m))
    BY <1>5, FrameTypes DEF EncodeFails
  <2>2. PICK k \in (IF broken[c] THEN {0} ELSE 0..4) :
          net' = [net EXCEPT ![c] = @ \o Pieces(FrameOf(m), count[c] + 1, k)]
    BY <1>5 DEF EncodeFails
  <2>3. k \in 0..4 /\ (broken[c] => k = 0)
    BY <2>2
  <2>4. broken' = [broken EXCEPT ![c] = TRUE]
    BY <1>5 DEF EncodeFails
  <2> QED
    BY <1>1, <2>1, <2>2, <2>3, <2>4
<1>6. ASSUME NEW f \in Raw, RawSends(c, f)
      PROVE  /\ UNCHANGED broken
             /\ \E g \in Frames, n \in Nat :
                  net' = [net EXCEPT ![c] = @ \o Pieces(g, n, 5)]
  BY <1>1, <1>6, FrameTypes DEF RawSends
<1>7. CASE c \in Library /\ \E m \in Outgoing : EncodeRefuses(c, m)
  BY <1>0, <1>1, <1>2, <1>3, <1>7
<1>8. CASE c \in Library /\ \E m \in Outgoing : EncodeWrites(c, m)
  <2>1. UNCHANGED broken /\ ~broken[c]
    BY <1>4, <1>8
  <2>2. PICK f \in Frames, n \in Nat :
           net' = [net EXCEPT ![c] = @ \o Pieces(f, n, 5)] /\ Encoded(f)
    BY <1>4, <1>8
  <2>3. 5 \in 0..5
    OBVIOUS
  <2> QED
    BY <1>0, <1>1, <1>2, <2>1, <2>2, <2>3 DEF Adds
<1>9. CASE c \in Library /\ \E m \in Outgoing : EncodeFails(c, m)
  <2>1. broken' = [broken EXCEPT ![c] = TRUE]
    BY <1>5, <1>9
  <2>2. PICK f \in Frames, n \in Nat, k \in 0..4 :
           /\ net' = [net EXCEPT ![c] = @ \o Pieces(f, n, k)] /\ Encoded(f)
           /\ broken[c] => k = 0
    BY <1>5, <1>9
  <2>3. k \in 0..5
    OBVIOUS
  <2> QED
    BY <1>0, <1>1, <1>2, <1>9, <2>1, <2>2, <2>3 DEF Adds
<1>10. CASE c \notin Library /\ \E f \in Raw : RawSends(c, f)
  <2>1. UNCHANGED broken
    BY <1>6, <1>10
  <2>2. PICK f \in Frames, n \in Nat : net' = [net EXCEPT ![c] = @ \o Pieces(f, n, 5)]
    BY <1>6, <1>10
  <2>3. 5 \in 0..5
    OBVIOUS
  <2> QED
    BY <1>0, <1>1, <1>2, <1>10, <2>1, <2>2, <2>3 DEF Adds
<1> QED
  BY <1>7, <1>8, <1>9, <1>10 DEF Sender

\* Every step keeps the types.
LEMMA WireTypesStep ==
  ASSUME WireInv, [Next]_vars
  PROVE  WireTypes'
<1>0. /\ WireTypes
      /\ net \in [Conns -> Seq(Parts)] /\ h \in [Conns -> Calls]
      /\ data \in [Bufs -> (Conns \cup {None}) \X Nat]
      /\ object \in [Objs -> Fields \cup {None}] /\ nats \in Seq(Outs)
      /\ \A c \in Conns : Handled(c)
  BY DEF WireInv, WireTypes
<1>1. ASSUME NEW c \in Conns, Sender(c)
      PROVE  WireTypes'
  <2>1. net' \in [Conns -> Seq(Parts)]
    <3>1. CASE UNCHANGED net
      BY <1>0, <3>1
    <3>2. ASSUME NEW f \in Frames, NEW n \in Nat, NEW k \in 0..5, Adds(c, f, n, k)
          PROVE  net' \in [Conns -> Seq(Parts)]
      <4>1. Pieces(f, n, k) \in Seq(Parts) /\ net[c] \in Seq(Parts)
        BY <1>0, PieceTypes
      <4> QED
        BY <1>0, <3>2, <4>1 DEF Adds
    <3>3. net' = net \/ \E f \in Frames, n \in Nat, k \in 0..5 : Adds(c, f, n, k)
      BY <1>0, <1>1, SenderAppends
    <3> QED
      BY <3>1, <3>2, <3>3
  <2> QED
    BY <1>0, <1>1, <2>1, SenderAppends DEF WireTypes
<1>2. ASSUME NEW c \in Conns, Handler(c)
      PROVE  WireTypes'
  <2>1. h' \in [Conns -> Calls]
    BY <1>0, <1>2, CallTypes
  <2>2. UNCHANGED <<count, broken>>
    BY <1>2 DEF Handler, GetBuffer, ReadLength, ReadBody, Fill, Marshal, Publish, Fail,
       senderVars
  <2>3. net' \in [Conns -> Seq(Parts)]
    <3>1. CASE ReadLength(c)
      BY <1>0, <3>1 DEF ReadLength
    <3>2. CASE ReadBody(c)
      <4>1. net[c] \in Seq(Parts) /\ Len(net[c]) >= 4
        BY <1>0, <3>2 DEF ReadBody
      <4>2. SubSeq(net[c], 5, Len(net[c])) \in Seq(Parts)
        BY <4>1
      <4> QED
        BY <1>0, <3>2, <4>2 DEF ReadBody
    <3> QED
      BY <1>0, <1>2, <3>1, <3>2 DEF Handler, GetBuffer, Fill, Marshal, Publish, Fail
  <2>4. data' \in [Bufs -> (Conns \cup {None}) \X Nat]
    <3>1. CASE ReadBody(c)
      <4>1. h[c].buf \in Bufs
        BY <1>0, <3>1 DEF ReadBody, Handled, Calls
      <4>2. net[c][4] \in Parts
        BY <1>0, <3>1 DEF ReadBody
      <4>3. net[c][4].n \in Nat
        BY <4>2 DEF Parts
      <4> QED
        BY <1>0, <3>1, <4>1, <4>3 DEF ReadBody
    <3> QED
      BY <1>0, <1>2, <3>1 DEF Handler, GetBuffer, ReadLength, Fill, Marshal, Publish, Fail
  <2>5. object' \in [Objs -> Fields \cup {None}]
    <3>1. CASE Fill(c)
      <4>1. PICK o \in Objs : object' = [object EXCEPT ![o] =
                [from |-> c, n |-> h[c].n, f |-> h[c].hdr, payload |-> h[c].slice]]
        BY <3>1 DEF Fill
      <4>2. h[c] \in Calls /\ h[c].slice = h[c].buf /\ h[c].buf # None /\ h[c].hdr \in Frames
        BY <1>0, <3>1 DEF Fill, Handled
      <4>3. [from |-> c, n |-> h[c].n, f |-> h[c].hdr, payload |-> h[c].slice] \in Fields
        BY <4>2 DEF Calls, Fields
      <4> QED
        BY <1>0, <4>1, <4>3
    <3>2. CASE Publish(c) \/ Fail(c)
      BY <1>0, <3>2 DEF Publish, Fail
    <3> QED
      BY <1>0, <1>2, <3>1, <3>2 DEF Handler, GetBuffer, ReadLength, ReadBody, Marshal
  <2>6. nats' \in Seq(Outs)
    <3>1. CASE Publish(c)
      <4>1. h[c] \in Calls /\ h[c].n \in Nat /\ h[c].len \in Nat /\ h[c].hdr \in Frames
            /\ h[c].out = [from |-> c, n |-> h[c].n, f |-> h[c].hdr, len |-> h[c].len,
                           payload |-> <<c, h[c].n>>]
        BY <1>0, <3>1 DEF Publish, Handled, Calls
      <4>2. h[c].out \in Outs
        BY <4>1 DEF Outs
      <4> QED
        BY <1>0, <3>1, <4>2 DEF Publish
    <3> QED
      BY <1>0, <1>2, <3>1 DEF Handler, GetBuffer, ReadLength, ReadBody, Fill, Marshal, Fail
  <2> QED
    BY <1>0, <2>1, <2>2, <2>3, <2>4, <2>5, <2>6 DEF WireTypes
<1>3. CASE Deliver
  <2>1. nats' \in Seq(Outs)
    BY <1>0, <1>3 DEF Deliver
  <2> QED
    BY <1>0, <1>3, <2>1 DEF Deliver, senderVars, WireTypes
<1>4. CASE UNCHANGED vars
  BY <1>0, <1>4 DEF vars, WireTypes
<1> QED
  BY <1>1, <1>2, <1>3, <1>4 DEF Next

-----------------------------------------------------------------------------
(* Buffers and objects                                                     *)

\* No two handlers get the same buffer or the same object from a pool.
LEMMA ExclusiveStep ==
  ASSUME WireInv, [Next]_vars
  PROVE  Exclusive'
<1>0. /\ WireTypes /\ h \in [Conns -> Calls] /\ None \notin Bufs /\ None \notin Objs
      /\ \A c \in Conns : Handled(c)
      /\ Exclusive
  BY WireAssumption DEF WireInv, WireTypes
<1>1. ASSUME NEW c \in Conns, Handler(c)
      PROVE  Exclusive'
  <2>0. h' \in [Conns -> Calls] /\ \A d \in Conns : d # c => h'[d] = h[d]
    BY <1>0, <1>1, CallTypes
  <2>1. CASE h'[c].buf \in {None, h[c].buf} /\ h'[c].obj \in {None, h[c].obj}
    BY <1>0, <2>0, <2>1 DEF Exclusive
  <2>2. CASE GetBuffer(c)
    <3>1. PICK b \in Bufs : InPool(b) /\ h' = [h EXCEPT ![c].buf = b, ![c].at = "length"]
      BY <2>2 DEF GetBuffer
    <3>2. h'[c].buf = b /\ h'[c].obj = h[c].obj
      BY <1>0, <3>1 DEF Calls
    <3>3. \A d \in Conns : h[d].buf # b
      BY <3>1 DEF InPool
    <3> QED
      BY <1>0, <2>0, <3>2, <3>3 DEF Exclusive
  <2>3. CASE Fill(c)
    <3>1. PICK o \in Objs : Spare(o) /\ h' = [h EXCEPT ![c].obj = o, ![c].at = "marshal"]
      BY <2>3 DEF Fill
    <3>2. h'[c].obj = o /\ h'[c].buf = h[c].buf
      BY <1>0, <3>1 DEF Calls
    <3>3. \A d \in Conns : h[d].obj # o
      BY <3>1 DEF Spare
    <3> QED
      BY <1>0, <2>0, <3>2, <3>3 DEF Exclusive
  <2>4. CASE ReadLength(c) \/ ReadBody(c) \/ Marshal(c)
    <3>1. h'[c].buf = h[c].buf /\ h'[c].obj = h[c].obj
      <4>1. CASE ReadLength(c)
        BY <1>0, <4>1 DEF ReadLength, Calls
      <4>2. CASE ReadBody(c)
        BY <1>0, <4>2 DEF ReadBody, Calls
      <4>3. CASE Marshal(c)
        BY <1>0, <4>3 DEF Marshal, Calls
      <4> QED
        BY <2>4, <4>1, <4>2, <4>3
    <3> QED
      BY <2>1, <3>1
  <2>5. CASE Publish(c)
    <3>1. h'[c] = Idle
      BY <1>0, <2>5 DEF Publish
    <3> QED
      BY <2>1, <3>1 DEF Idle
  <2>6. CASE Fail(c)
    <3> DEFINE f == IF h[c].at = "fail" THEN h[c].hdr ELSE None
    <3>1. h'[c] = [Idle EXCEPT !.at = "ended", !.n = h[c].n, !.hdr = f]
      BY <1>0, <2>6 DEF Fail
    <3> HIDE DEF f
    <3> QED
      BY <2>1, <3>1 DEF Idle
  <2> QED
    BY <1>1, <2>2, <2>3, <2>4, <2>5, <2>6 DEF Handler
<1>2. CASE UNCHANGED h
  BY <1>0, <1>2 DEF Exclusive
<1>3. ASSUME NEW c \in Conns, Sender(c)
      PROVE  UNCHANGED h
  BY <1>0, <1>3, SenderAppends
<1>4. CASE Deliver \/ UNCHANGED vars
  BY <1>2, <1>4 DEF Deliver, vars
<1> QED
  BY <1>1, <1>2, <1>3, <1>4 DEF Next

\* Nothing that the invariant says of connection d changed.
Kept(d) ==
    /\ h'[d] = h[d] /\ net'[d] = net[d] /\ broken'[d] = broken[d]
    /\ h[d].buf # None => data'[h[d].buf] = data[h[d].buf]
    /\ h[d].obj # None => object'[h[d].obj] = object[h[d].obj]

LEMMA KeptHolds ==
  ASSUME NEW d \in Conns, Aligned(d), Lawful(d), Handled(d), Kept(d)
  PROVE  Aligned(d)' /\ Lawful(d)' /\ Handled(d)'
<1>1. Aligned(d)'
  BY DEF Kept, Aligned
<1>2. Lawful(d)'
  BY DEF Kept, Lawful
<1>3. Handled(d)'
  BY DEF Kept, Handled
<1> QED
  BY <1>1, <1>2, <1>3

\* A step of one handler or sender leaves the other connections alone, and the
\* buffers and objects their handlers have.
LEMMA OthersKept ==
  ASSUME WireInv, NEW c \in Conns, NEW d \in Conns, c # d, Sender(c) \/ Handler(c)
  PROVE  Kept(d)
<1>0. /\ WireTypes /\ h \in [Conns -> Calls] /\ DOMAIN net = Conns /\ Handled(c)
      /\ DOMAIN data = Bufs /\ DOMAIN object = Objs
      /\ h[d].buf # None => h[d].buf # h[c].buf /\ h[d].buf \in Bufs
      /\ h[d].obj # None => h[d].obj # h[c].obj /\ h[d].obj \in Objs
  BY DEF WireInv, WireTypes, Exclusive, Calls
<1>1. CASE Sender(c)
  <2>1. net' = net \/ \E f \in Frames, n \in Nat, k \in 0..5 : Adds(c, f, n, k)
    BY <1>0, <1>1, SenderAppends
  <2>2. net'[d] = net[d]
    BY <1>0, <2>1 DEF Adds
  <2> QED
    BY <1>0, <1>1, <2>2, SenderAppends DEF Kept
<1>2. CASE Handler(c)
  <2>1. h'[d] = h[d]
    BY <1>0, <1>2, CallTypes
  <2>2. net'[d] = net[d] /\ UNCHANGED broken
    BY <1>0, <1>2 DEF Handler, GetBuffer, ReadLength, ReadBody, Fill, Marshal, Publish, Fail,
       senderVars
  <2>3. h[d].buf # None => data'[h[d].buf] = data[h[d].buf]
    BY <1>0, <1>2 DEF Handler, GetBuffer, ReadLength, ReadBody, Fill, Marshal, Publish, Fail
  <2>4. h[d].obj # None => object'[h[d].obj] = object[h[d].obj]
    BY <1>0, <1>2 DEF Handler, GetBuffer, ReadLength, ReadBody, Fill, Marshal, Publish, Fail,
       Spare
  <2> QED
    BY <2>1, <2>2, <2>3, <2>4 DEF Kept
<1> QED
  BY <1>1, <1>2

-----------------------------------------------------------------------------
(* Frames on a connection                                                  *)

\* r is q without its first k pieces.
Drops(q, r, k) ==
    /\ r \in Seq(Parts) /\ Len(q) >= k /\ Len(r) = Len(q) - k
    /\ \A i \in DOMAIN r : i + k \in DOMAIN q /\ r[i] = q[i + k]

LEMMA DropTypes ==
  ASSUME NEW q \in Seq(Parts)
  PROVE  /\ q # <<>> => Drops(q, Tail(q), 1)
         /\ Len(q) >= 4 => Drops(q, SubSeq(q, 5, Len(q)), 4)
<1>1. q # <<>> => Drops(q, Tail(q), 1)
  BY DEF Drops
<1>2. ASSUME Len(q) >= 4
      PROVE  Drops(q, SubSeq(q, 5, Len(q)), 4)
  <2>1. PICK l \in Nat : l = Len(q) /\ \A i \in 1..l : q[i] \in Parts
    OBVIOUS
  <2>2. l >= 4 /\ 5 \in Int /\ l \in Int /\ \A i \in 5..l : q[i] \in Parts
    BY <1>2, <2>1
  <2> DEFINE r == SubSeq(q, 5, l)
  <2>3. /\ r \in Seq(Parts) /\ Len(r) = IF 5 <= l THEN l - 5 + 1 ELSE 0
        /\ \A i \in 1 .. l - 5 + 1 : r[i] = q[5 + i - 1]
    BY <2>2, SubSeqProperties
  <2> HIDE DEF r
  <2>4. Len(r) = l - 4
    BY <2>2, <2>3
  <2>5. ASSUME NEW i \in DOMAIN r
        PROVE  i + 4 \in 1..l /\ r[i] = q[i + 4]
    <3>1. DOMAIN r = 1 .. l - 4
      BY <2>3, <2>4
    <3>2. i \in 1 .. l - 5 + 1 /\ 5 + i - 1 = i + 4 /\ i + 4 \in 1..l
      BY <2>2, <3>1
    <3> QED
      BY <2>3, <3>2
  <2> QED
    BY <2>1, <2>2, <2>3, <2>4, <2>5 DEF Drops, r
<1> QED
  BY <1>1, <1>2

\* A chain of pieces without its first pieces is a chain.
Rest(q, r, k) == /\ Chain(r)
                 /\ r # <<>> => r[Len(r)] = q[Len(q)] /\ r[1] = q[1 + k]
LEMMA ChainTail ==
  ASSUME NEW q \in Seq(Parts), NEW k \in Nat, NEW r, Chain(q), Drops(q, r, k)
  PROVE  Rest(q, r, k)
<1> USE DEF Drops
<1>1. ASSUME NEW i \in DOMAIN r, i + 1 \in DOMAIN r
      PROVE  Follows(r[i], r[i + 1])
  <2>1. i \in Nat /\ i + k \in DOMAIN q /\ (i + k) + 1 \in DOMAIN q /\ (i + 1) + k = (i + k) + 1
    BY <1>1
  <2>2. r[i] = q[i + k] /\ r[i + 1] = q[(i + k) + 1]
    BY <1>1, <2>1
  <2> QED
    BY <2>1, <2>2 DEF Chain
<1>2. ASSUME r # <<>>
      PROVE  r[Len(r)] = q[Len(q)] /\ r[1] = q[1 + k]
  <2>1. Len(r) \in DOMAIN r /\ 1 \in DOMAIN r /\ Len(r) + k = Len(q)
    BY <1>2
  <2> QED
    BY <2>1
<1> QED
  BY <1>1, <1>2 DEF Chain, Rest

\* A frame, or the beginning of one, added to a chain that ends with a frame.
Longer(q, r, f, k) ==
    /\ Chain(r) /\ r # <<>> /\ r[Len(r)].part = k
    /\ q # <<>> => r[1] = q[1]
    /\ q = <<>> => r[1].part = 1
    /\ \A i \in DOMAIN r : (i \in DOMAIN q /\ r[i] = q[i]) \/ r[i].f = f
LEMMA ChainAdd ==
  ASSUME NEW q \in Seq(Parts), NEW f \in Frames, NEW n \in Nat, NEW k \in 1..5, Chain(q),
         q # <<>> => q[Len(q)].part = 5
  PROVE  Longer(q, q \o Pieces(f, n, k), f, k)
<1> DEFINE p == Pieces(f, n, k)
           r == q \o p
<1>1. /\ p \in Seq(Parts) /\ Len(p) = k /\ k \in 0..5
      /\ \A i \in 1..k : p[i].part = i /\ p[i].n = n /\ p[i].f = f
  <2>1. k \in 0..5
    OBVIOUS
  <2>2. /\ p \in Seq(Parts) /\ Len(p) = k
        /\ \A i \in 1..k : p[i] = [part |-> i, n |-> n, f |-> f]
    BY <2>1, PieceTypes
  <2> HIDE DEF p
  <2> QED
    BY <2>1, <2>2
<1> HIDE DEF p
<1>2. /\ r \in Seq(Parts) /\ Len(r) = Len(q) + k /\ Len(q) \in Nat
      /\ \A i \in DOMAIN r : \/ i \in DOMAIN q /\ r[i] = q[i]
                             \/ i - Len(q) \in 1..k /\ r[i] = p[i - Len(q)]
      /\ \A i \in DOMAIN q : i \in DOMAIN r /\ r[i] = q[i]
      /\ \A i \in 1..k : i + Len(q) \in DOMAIN r /\ r[i + Len(q)] = p[i]
  <2>1. /\ r \in Seq(Parts) /\ Len(r) = Len(q) + Len(p)
        /\ \A i \in 1 .. Len(q) + Len(p) :
              r[i] = IF i <= Len(q) THEN q[i] ELSE p[i - Len(q)]
    BY <1>1, ConcatProperties
  <2> HIDE DEF r
  <2>2. /\ Len(q) \in Nat /\ DOMAIN q = 1..Len(q)
        /\ Len(r) = Len(q) + k /\ DOMAIN r = 1 .. Len(q) + k
        /\ \A i \in 1 .. Len(q) + k : r[i] = IF i <= Len(q) THEN q[i] ELSE p[i - Len(q)]
    BY <1>1, <2>1
  <2>3. ASSUME NEW i \in DOMAIN r
        PROVE  \/ i \in DOMAIN q /\ r[i] = q[i]
               \/ i - Len(q) \in 1..k /\ r[i] = p[i - Len(q)]
    BY <1>1, <2>2
  <2>4. ASSUME NEW i \in 1..k
        PROVE  i + Len(q) \in DOMAIN r /\ r[i + Len(q)] = p[i]
    <3>1. /\ i + Len(q) \in 1 .. Len(q) + k /\ ~(i + Len(q) <= Len(q))
          /\ (i + Len(q)) - Len(q) = i
      BY <1>1, <2>2
    <3> QED
      BY <2>2, <3>1
  <2>5. ASSUME NEW i \in DOMAIN q
        PROVE  i \in DOMAIN r /\ r[i] = q[i]
    BY <1>1, <2>2
  <2> QED
    BY <2>1, <2>2, <2>3, <2>4, <2>5
<1> HIDE DEF r
<1>3. Chain(r)
  <2> SUFFICES ASSUME NEW i \in DOMAIN r, i + 1 \in DOMAIN r
               PROVE  Follows(r[i], r[i + 1])
    BY DEF Chain
  <2>1. i \in Nat /\ i >= 1 /\ i + 1 <= Len(q) + k
    BY <1>2
  <2>2. CASE i + 1 \in DOMAIN q
    <3>1. i \in DOMAIN q
      BY <2>1, <2>2
    <3> QED
      BY <1>2, <2>2, <3>1 DEF Chain
  <2>3. CASE i = Len(q)
    <3>1. q # <<>> /\ i \in DOMAIN q
      BY <2>1, <2>3
    <3>2. r[i].part = 5
      BY <1>2, <2>3, <3>1
    <3>3. 1 \in 1..k /\ i + 1 = 1 + Len(q)
      BY <1>2, <2>3
    <3>4. r[i + 1].part = 1
      BY <1>1, <1>2, <3>3
    <3> QED
      BY <3>2, <3>4 DEF Follows
  <2>4. CASE i > Len(q)
    <3>1. PICK j \in 1..k : i = j + Len(q) /\ j + 1 \in 1..k /\ i + 1 = (j + 1) + Len(q)
      <4>1. PICK l \in Nat : l = Len(q)
        BY <1>2
      <4>2. i > l /\ i + 1 <= l + k
        BY <2>1, <2>4, <4>1
      <4>3. i \in Nat /\ k \in Nat
        BY <2>1
      <4>4. /\ i - l \in 1..k /\ i = (i - l) + l /\ (i - l) + 1 \in 1..k
            /\ i + 1 = ((i - l) + 1) + l
        BY <4>2, <4>3
      <4> QED
        BY <4>1, <4>4
    <3>2. r[i] = p[j] /\ r[i + 1] = p[j + 1]
      BY <1>2, <3>1
    <3>3. p[j].part = j /\ p[j + 1].part = j + 1 /\ p[j].n = p[j + 1].n /\ p[j].f = p[j + 1].f
          /\ j # 5
      BY <1>1, <3>1
    <3> QED
      BY <3>2, <3>3 DEF Follows
  <2> QED
    BY <1>2, <2>1, <2>2, <2>3, <2>4
<1>4. r # <<>> /\ r[Len(r)].part = k
  <2>1. k \in 1..k /\ Len(r) = k + Len(q)
    BY <1>2
  <2>2. r[Len(r)] = p[k] /\ Len(r) \in DOMAIN r
    BY <1>2, <2>1
  <2> QED
    BY <1>1, <1>2, <2>1, <2>2
<1>5. q # <<>> => r[1] = q[1]
  BY <1>2
<1>6. q = <<>> => r[1].part = 1
  <2>1. 1 \in 1..k
    OBVIOUS
  <2>2. q = <<>> => r[1] = p[1]
    BY <1>2, <2>1
  <2> QED
    BY <1>1, <2>1, <2>2
<1>7. \A i \in DOMAIN r : (i \in DOMAIN q /\ r[i] = q[i]) \/ r[i].f = f
  <2>1. \A j \in 1..k : p[j].f = f
    BY <1>1
  <2>2. ASSUME NEW i \in DOMAIN r
        PROVE  (i \in DOMAIN q /\ r[i] = q[i])
                 \/ \E j \in 1..k : r[i] = p[j]
    BY <1>2, <2>2, Zenon
  <2> QED
    BY <2>1, <2>2
<1> QED
  BY <1>3, <1>4, <1>5, <1>6, <1>7 DEF r, p, Longer

\* What a sender adds is a whole frame of its own, or the last thing on its
\* connection.
LEMMA SenderStep ==
  ASSUME WireTypes, NEW c \in Conns, Aligned(c), Lawful(c), Handled(c), Sender(c)
  PROVE  Aligned(c)' /\ Lawful(c)' /\ Handled(c)'
<1>0. /\ UNCHANGED <<h, data, object>> /\ net \in [Conns -> Seq(Parts)]
      /\ net[c] \in Seq(Parts)
      /\ c \notin Library => broken'[c] = broken[c]
      /\ broken[c] \in BOOLEAN /\ broken'[c] \in BOOLEAN
  BY SenderAppends DEF WireTypes
<1>1. Handled(c)'
  BY <1>0 DEF Handled
<1>2. CASE net' = net /\ broken' = broken
  BY <1>0, <1>1, <1>2 DEF Aligned, Lawful
<1>3. ASSUME NEW f \in Frames, NEW n \in Nat, NEW k \in 0..5, Adds(c, f, n, k)
      PROVE  Aligned(c)' /\ Lawful(c)'
  <2>1. net'[c] = net[c] \o Pieces(f, n, k)
    BY <1>0, <1>3 DEF Adds
  <2>2. CASE k = 0
    <3>1. Pieces(f, n, k) \in Seq(Parts) /\ Len(Pieces(f, n, k)) = 0
      BY <2>2, PieceTypes
    <3>2. net'[c] = net[c]
      BY <1>0, <2>1, <3>1
    <3>3. broken'[c]
      BY <1>3, <2>2 DEF Adds
    <3>4. c \in Library
      BY <1>0, <3>3 DEF Aligned
    <3> QED
      BY <1>0, <3>2, <3>3, <3>4 DEF Aligned, Lawful
  <2>3. CASE k # 0
    <3>1. k \in 1..5 /\ ~broken[c]
      <4>1. k \in 1..5
        BY <2>3
      <4>2. broken[c] => c \in Library
        BY <1>0 DEF Aligned
      <4> QED
        BY <1>3, <2>3, <4>1, <4>2 DEF Adds
    <3>2. Chain(net[c]) /\ (net[c] # <<>> => net[c][Len(net[c])].part = 5)
          /\ (h[c].at = "body" => net[c] # <<>>)
      BY <3>1 DEF Aligned
    <3>3. /\ Chain(net'[c]) /\ net'[c] # <<>>
          /\ net'[c][Len(net'[c])].part = k
          /\ net[c] # <<>> => net'[c][1] = net[c][1]
          /\ net[c] = <<>> => net'[c][1].part = 1
          /\ \A i \in DOMAIN net'[c] : \/ i \in DOMAIN net[c] /\ net'[c][i] = net[c][i]
                                       \/ net'[c][i].f = f
      <4>1. Longer(net[c], net[c] \o Pieces(f, n, k), f, k)
        BY <1>0, <3>1, <3>2, ChainAdd
      <4>2. Longer(net[c], net'[c], f, k)
        BY <2>1, <4>1
      <4> QED
        BY <4>2 DEF Longer
    <3>4. k = 5 \/ broken'[c]
      BY <1>3 DEF Adds
    <3>5. Aligned(c)'
      <4>1. net'[c] # <<>> =>
              /\ h'[c].at \in {"get", "length", "fill", "marshal", "publish"} =>
                    net'[c][1].part = 1
              /\ h'[c].at = "body" => /\ net'[c][1].part = 2 /\ net'[c][1].n = h'[c].n
                                      /\ net'[c][1].f = h'[c].hdr
        BY <1>0, <3>2, <3>3 DEF Aligned
      <4> QED
        BY <1>0, <3>1, <3>3, <3>4, <4>1 DEF Aligned
    <3>6. Lawful(c)'
      <4> SUFFICES ASSUME c \in Library
                   PROVE  \A i \in DOMAIN net'[c] : Encoded(net'[c][i].f)
        BY <1>0 DEF Lawful
      <4>1. Encoded(f)
        BY <1>3 DEF Adds
      <4> QED
        BY <3>3, <4>1 DEF Lawful
    <3> QED
      BY <3>5, <3>6
  <2> QED
    BY <2>2, <2>3
<1>4. \/ net' = net /\ broken' = broken
      \/ \E f \in Frames, n \in Nat, k \in 0..5 : Adds(c, f, n, k)
  BY SenderAppends
<1> QED
  BY <1>1, <1>2, <1>3, <1>4

\* Each statement of handleMessage has what the next one relies on.
LEMMA HandlerStep ==
  ASSUME WireTypes, NEW c \in Conns, Aligned(c), Lawful(c), Handled(c), Handler(c)
  PROVE  Aligned(c)' /\ Lawful(c)' /\ Handled(c)'
<1>0. /\ h \in [Conns -> Calls] /\ h[c] \in Calls /\ net \in [Conns -> Seq(Parts)]
      /\ net[c] \in Seq(Parts) /\ DOMAIN data = Bufs /\ DOMAIN object = Objs
      /\ None \notin Bufs /\ None \notin Objs
  BY WireAssumption DEF WireTypes
<1>1. UNCHANGED broken
  BY DEF Handler, GetBuffer, ReadLength, ReadBody, Fill, Marshal, Publish, Fail, senderVars
<1>2. CASE GetBuffer(c)
  <2>1. PICK b \in Bufs : h' = [h EXCEPT ![c].buf = b, ![c].at = "length"]
    BY <1>2 DEF GetBuffer
  <2>2. /\ h[c].at = "get" /\ UNCHANGED <<net, data, object>>
        /\ h'[c].at = "length" /\ h'[c].buf = b /\ h'[c].obj = h[c].obj
        /\ h'[c].hdr = h[c].hdr
    BY <1>0, <1>2, <2>1 DEF GetBuffer, Calls
  <2>3. Aligned(c)' /\ Lawful(c)'
    BY <1>1, <2>2 DEF Aligned, Lawful
  <2>4. Handled(c)'
    BY <1>0, <2>2 DEF Handled
  <2> QED
    BY <2>3, <2>4
<1>3. CASE ReadLength(c)
  <2>1. PICK x \in Parts : x = Head(net[c])
    BY <1>0, <1>3 DEF ReadLength
  <2>2. /\ x.n \in Nat /\ x.f \in Frames /\ x.f.total \in Nat /\ x.f.id \in Nat
        /\ x = net[c][1] /\ 1 \in DOMAIN net[c]
    BY <1>0, <1>3, <2>1 DEF ReadLength, Parts, Frames
  <2>3. /\ h[c].at = "length" /\ net[c] # <<>> /\ UNCHANGED <<data, object>>
        /\ net'[c] = Tail(net[c])
        /\ h'[c].at = (IF LengthOK(x.f.total) THEN "body" ELSE "fail")
        /\ h'[c].buf = h[c].buf /\ h'[c].obj = h[c].obj /\ h'[c].n = x.n
        /\ h'[c].hdr = x.f /\ h'[c].len = x.f.total
    BY <1>0, <1>3, <2>1 DEF ReadLength, Calls
  <2>4. /\ Chain(net'[c])
        /\ net'[c] # <<>> => net'[c][Len(net'[c])] = net[c][Len(net[c])] /\ net'[c][1] = net[c][2]
    <3>1. Drops(net[c], net'[c], 1)
      BY <1>0, <2>3, DropTypes
    <3>2. Chain(net[c]) /\ 1 \in Nat /\ 1 + 1 = 2
      BY DEF Aligned
    <3>3. Rest(net[c], net'[c], 1)
      BY <1>0, <3>1, <3>2, ChainTail
    <3> QED
      BY <3>2, <3>3 DEF Rest
  <2>5. x.part = 1
    BY <2>2, <2>3 DEF Aligned
  <2>6. net'[c] # <<>> => net'[c][1].part = 2 /\ net'[c][1].n = x.n /\ net'[c][1].f = x.f
    <3>1. net'[c] # <<>> => 1 + 1 \in DOMAIN net[c]
      BY <1>0, <2>3
    <3>2. net'[c] # <<>> => Follows(net[c][1], net[c][1 + 1])
      BY <2>2, <3>1 DEF Aligned, Chain
    <3>3. 1 + 1 = 2
      OBVIOUS
    <3> QED
      BY <2>2, <2>4, <2>5, <3>2, <3>3 DEF Follows
  <2>7. ~broken[c] => net'[c] # <<>>
    <3>1. ~broken[c] => net[c][Len(net[c])].part = 5
      BY <2>3 DEF Aligned
    <3>2. net'[c] = <<>> => Len(net[c]) = 1
      <4>1. Len(net'[c]) = Len(net[c]) - 1 /\ Len(net[c]) \in Nat
        BY <1>0, <2>3
      <4>2. net'[c] = <<>> => Len(net'[c]) = 0
        OBVIOUS
      <4> QED
        BY <4>1, <4>2
    <3> QED
      BY <2>2, <2>5, <3>1, <3>2
  <2>8. Aligned(c)'
    <3>1. ~broken[c] => (net'[c] # <<>> => net'[c][Len(net'[c])].part = 5)
      BY <2>3, <2>4 DEF Aligned
    <3>2. h'[c].at \in {"body", "fail"}
      BY <2>3
    <3> QED
      BY <1>1, <2>3, <2>4, <2>6, <2>7, <3>1, <3>2 DEF Aligned
  <2>9. Lawful(c)'
    <3> SUFFICES ASSUME c \in Library
                 PROVE  /\ \A i \in DOMAIN net'[c] : Encoded(net'[c][i].f)
                        /\ Encoded(h'[c].hdr)
                        /\ CfgMax >= MaxMessageSize => h'[c].at = "body"
      BY DEF Lawful
    <3>1. \A i \in DOMAIN net[c] : Encoded(net[c][i].f)
      BY DEF Lawful
    <3>2. \A i \in DOMAIN net'[c] : i + 1 \in DOMAIN net[c] /\ net'[c][i] = net[c][i + 1]
      BY <1>0, <2>3
    <3>3. Encoded(x.f)
      BY <2>2, <3>1
    <3>4. CfgMax >= MaxMessageSize => LengthOK(x.f.total)
      BY <2>2, <3>3, CfgAssumption DEF Encoded, LengthOK, minMessageSize, MaxMessageSize, KeyHexLen
    <3> QED
      BY <2>3, <3>1, <3>2, <3>3, <3>4
  <2>10. Handled(c)'
    BY <2>2, <2>3 DEF Handled
  <2> QED
    BY <2>8, <2>9, <2>10
<1>4. CASE ReadBody(c)
  <2>1. /\ h[c].at = "body" /\ Len(net[c]) >= 4 /\ UNCHANGED object
        /\ net'[c] = SubSeq(net[c], 5, Len(net[c]))
    BY <1>0, <1>4 DEF ReadBody
  <2>2. /\ 1 \in DOMAIN net[c] /\ 2 \in DOMAIN net[c] /\ 3 \in DOMAIN net[c]
        /\ 4 \in DOMAIN net[c] /\ net[c] # <<>> /\ 1 + 1 = 2 /\ 2 + 1 = 3 /\ 3 + 1 = 4
    BY <1>0, <2>1
  <2>3. PICK x \in Parts : x = net[c][1]
    BY <1>0, <2>2
  <2>4. x.part = 2 /\ x.n = h[c].n /\ x.f = h[c].hdr /\ x.f \in Frames /\ x.n \in Nat
    BY <2>1, <2>2, <2>3 DEF Aligned, Parts
  <2>5. net[c][4].part = 5 /\ net[c][4].n = x.n
    <3>1. Chain(net[c])
      BY DEF Aligned
    <3>2. /\ Follows(net[c][1], net[c][2]) /\ Follows(net[c][2], net[c][3])
          /\ Follows(net[c][3], net[c][4])
      BY <2>2, <3>1 DEF Chain
    <3>3. net[c][2].part = 3 /\ net[c][2].n = x.n
      BY <2>3, <2>4, <3>2 DEF Follows
    <3>4. net[c][3].part = 4 /\ net[c][3].n = x.n
      BY <3>2, <3>3 DEF Follows
    <3> QED
      BY <3>2, <3>4 DEF Follows
  <2>6. /\ h'[c].at = (IF HeaderOK(x.f) THEN "fill" ELSE "fail")
        /\ h'[c].buf = h[c].buf /\ h'[c].obj = h[c].obj /\ h'[c].n = x.n
        /\ h'[c].hdr = x.f /\ h'[c].len = h[c].len /\ h'[c].slice = h[c].buf
    BY <1>0, <1>4, <2>3 DEF ReadBody, Calls
  <2>7. data'[h[c].buf] = <<c, x.n>>
    <3>1. h[c].buf \in Bufs
      BY <1>0, <2>1 DEF Handled, Calls
    <3> QED
      BY <1>0, <1>4, <2>5, <3>1 DEF ReadBody
  <2>8. Drops(net[c], net'[c], 4)
    BY <1>0, <2>1, DropTypes
  <2>9. /\ Chain(net'[c])
        /\ net'[c] # <<>> => net'[c][Len(net'[c])] = net[c][Len(net[c])] /\ net'[c][1] = net[c][5]
    <3>1. Chain(net[c]) /\ 4 \in Nat /\ 1 + 4 = 5
      BY DEF Aligned
    <3>2. Rest(net[c], net'[c], 4)
      BY <1>0, <2>8, <3>1, ChainTail
    <3> QED
      BY <3>1, <3>2 DEF Rest
  <2>10. net'[c] # <<>> => net'[c][1].part = 1
    <3>1. net'[c] # <<>> => 4 + 1 \in DOMAIN net[c] /\ 4 + 1 = 5
      <4>1. net'[c] # <<>> => 1 \in DOMAIN net'[c]
        BY <2>8 DEF Drops
      <4> QED
        BY <2>8, <4>1 DEF Drops
    <3>2. net'[c] # <<>> => Follows(net[c][4], net[c][5])
      BY <2>2, <3>1 DEF Aligned, Chain
    <3> QED
      BY <2>5, <2>9, <3>2 DEF Follows
  <2>11. Aligned(c)'
    <3>1. ~broken[c] => (net'[c] # <<>> => net'[c][Len(net'[c])].part = 5)
      BY <2>2, <2>9 DEF Aligned
    <3>2. h'[c].at \in {"fill", "fail"}
      BY <2>6
    <3> QED
      BY <1>1, <2>9, <2>10, <3>1, <3>2 DEF Aligned
  <2>12. Lawful(c)'
    <3> SUFFICES ASSUME c \in Library
                 PROVE  /\ \A i \in DOMAIN net'[c] : Encoded(net'[c][i].f)
                        /\ Encoded(h'[c].hdr)
                        /\ h'[c].at = "fail" => ~isValidHexPubKey(x.f.to)
      BY <2>6 DEF Lawful
    <3>1. \A i \in DOMAIN net[c] : Encoded(net[c][i].f)
      BY DEF Lawful
    <3>2. \A i \in DOMAIN net'[c] : i + 4 \in DOMAIN net[c] /\ net'[c][i] = net[c][i + 4]
      BY <2>8 DEF Drops
    <3>3. Encoded(x.f)
      BY <2>2, <2>3, <3>1
    <3>4. h'[c].at = "fail" => ~HeaderOK(x.f)
      BY <2>6
    <3> QED
      BY <2>6, <3>1, <3>2, <3>3, <3>4 DEF Encoded, HeaderOK
  <2>13. Handled(c)'
    BY <2>1, <2>4, <2>6, <2>7 DEF Handled, Accepted
  <2> QED
    BY <2>11, <2>12, <2>13
<1>5. CASE Fill(c)
  <2>1. PICK o \in Objs :
          /\ object' = [object EXCEPT ![o] =
                [from |-> c, n |-> h[c].n, f |-> h[c].hdr, payload |-> h[c].slice]]
          /\ h' = [h EXCEPT ![c].obj = o, ![c].at = "marshal"]
    BY <1>5 DEF Fill
  <2>2. /\ h[c].at = "fill" /\ UNCHANGED <<net, data>>
        /\ h'[c].at = "marshal" /\ h'[c].buf = h[c].buf /\ h'[c].obj = o
        /\ h'[c].hdr = h[c].hdr /\ h'[c].n = h[c].n /\ h'[c].len = h[c].len
        /\ h'[c].slice = h[c].slice
    BY <1>0, <1>5, <2>1 DEF Fill, Calls
  <2>3. object'[o] = [from |-> c, n |-> h[c].n, f |-> h[c].hdr, payload |-> h[c].buf]
    BY <1>0, <2>1, <2>2 DEF Handled
  <2>4. Aligned(c)' /\ Lawful(c)'
    BY <1>1, <2>2 DEF Aligned, Lawful
  <2>5. Handled(c)'
    BY <1>0, <2>2, <2>3 DEF Handled
  <2> QED
    BY <2>4, <2>5
<1>6. CASE Marshal(c)
  <2>1. /\ object[h[c].obj] = [from |-> c, n |-> h[c].n, f |-> h[c].hdr,
                               payload |-> h[c].buf]
        /\ data[h[c].buf] = <<c, h[c].n>> /\ h[c].hdr \in Frames
    BY <1>6 DEF Marshal, Handled
  <2> DEFINE o == [from |-> c, n |-> h[c].n, f |-> h[c].hdr, len |-> h[c].len,
                   payload |-> <<c, h[c].n>>]
  <2>2. PICK m : m = object[h[c].obj]
    OBVIOUS
  <2>3. /\ m.from = c /\ m.n = h[c].n /\ m.f = h[c].hdr
        /\ data[m.payload] = <<c, h[c].n>>
    BY <2>1, <2>2
  <2>4. h' = [h EXCEPT ![c].out = o,
                       ![c].at = IF h[c].hdr.utf8 THEN "publish" ELSE "fail"]
    BY <1>6, <2>2, <2>3 DEF Marshal
  <2>5. /\ h[c].at = "marshal" /\ UNCHANGED <<net, data, object>>
        /\ h'[c].at = (IF h[c].hdr.utf8 THEN "publish" ELSE "fail")
        /\ h'[c].out = o /\ h'[c].buf = h[c].buf /\ h'[c].obj = h[c].obj
        /\ h'[c].hdr = h[c].hdr /\ h'[c].n = h[c].n /\ h'[c].len = h[c].len
    <3> HIDE DEF o
    <3> QED
      BY <1>0, <1>6, <2>4 DEF Marshal, Calls
  <2>6. Aligned(c)' /\ Lawful(c)'
    BY <1>1, <2>5 DEF Aligned, Lawful
  <2>7. Handled(c)'
    BY <2>5 DEF Handled
  <2> QED
    BY <2>6, <2>7
<1>7. CASE Publish(c)
  <2>1. /\ h[c].at = "publish" /\ h'[c] = Idle /\ UNCHANGED <<net, data>>
    BY <1>0, <1>7 DEF Publish
  <2>2. /\ h'[c].at = "get" /\ h'[c].buf = None /\ h'[c].obj = None /\ h'[c].hdr = None
    BY <2>1 DEF Idle
  <2>3. Aligned(c)' /\ Lawful(c)'
    BY <1>1, <2>1, <2>2 DEF Aligned, Lawful
  <2>4. Handled(c)'
    BY <2>2 DEF Handled
  <2> QED
    BY <2>3, <2>4
<1>8. CASE Fail(c)
  <2> DEFINE f == IF h[c].at = "fail" THEN h[c].hdr ELSE None
  <2>1. h'[c] = [Idle EXCEPT !.at = "ended", !.n = h[c].n, !.hdr = f] /\ UNCHANGED <<net, data>>
    BY <1>0, <1>8 DEF Fail
  <2>2. f = None \/ (h[c].at = "fail" /\ f = h[c].hdr)
    OBVIOUS
  <2> HIDE DEF f
  <2>3. /\ h'[c].at = "ended" /\ h'[c].buf = None /\ h'[c].obj = None /\ h'[c].hdr = f
    BY <2>1 DEF Idle
  <2>4. Aligned(c)' /\ Lawful(c)'
    BY <1>1, <2>1, <2>2, <2>3 DEF Aligned, Lawful
  <2>5. Handled(c)'
    BY <2>3 DEF Handled
  <2> QED
    BY <2>4, <2>5
<1> QED
  BY <1>2, <1>3, <1>4, <1>5, <1>6, <1>7, <1>8 DEF Handler

-----------------------------------------------------------------------------
(* Sizes                                                                   *)

\* Marshalling a frame that handleMessage accepted, Overhead below the limit,
\* adds at most Overhead bytes: the sender, tags, lengths and the time.
LEMMA MarshalledFits ==
  ASSUME NEW f \in Frames, HeaderOK(f), f.total <= MaxMessageSize - Overhead
  PROVE  Fits(f)
<1>1. /\ f.id \in Nat /\ f.total \in Nat /\ f.id <= 256 /\ 66 + f.id <= f.total
      /\ f.total <= 65536 - 79
  BY DEF Frames, HeaderOK, MaxMsgIDLen, minMessageSize, KeyHexLen, MaxMessageSize, Overhead
<1>2. PICK y \in Nat : y = PayloadLen(f) /\ y = f.total - 66 - f.id /\ y < 65536
  BY <1>1 DEF PayloadLen, minMessageSize, KeyHexLen
<1>3. Field(f.id) <= f.id + 3 /\ Field(f.id) \in Nat
  BY <1>1 DEF Field, VarintLen
<1>4. Field(y) <= y + 4 /\ Field(y) \in Nat
  BY <1>2 DEF Field, VarintLen
<1>5. Field(KeyHexLen) = 66
  BY DEF Field, VarintLen, KeyHexLen
<1>6. MessageLen(f) = 2 * 66 + Field(f.id) + Field(y) + 6
  BY <1>2, <1>5 DEF MessageLen
<1> QED
  BY <1>1, <1>2, <1>3, <1>4, <1>6 DEF Fits, MaxMessageSize

\* What is published is sound, and what became of it is accounted for.
LEMMA DeliveredStep ==
  ASSUME WireInv, [Next]_vars
  PROVE  Delivered'
<1>0. /\ WireTypes /\ nats \in Seq(Outs) /\ Delivered
      /\ \A c \in Conns : Handled(c)
  BY DEF WireInv, WireTypes
<1>1. ASSUME NEW c \in Conns, Publish(c)
      PROVE  Delivered'
  <2>1. /\ h[c].out = [from |-> c, n |-> h[c].n, f |-> h[c].hdr, len |-> h[c].len,
                       payload |-> <<c, h[c].n>>]
        /\ Accepted(h[c].hdr) /\ h[c].len = h[c].hdr.total
    BY <1>0, <1>1 DEF Publish, Handled
  <2>2. Sound(h[c].out)
    BY <2>1 DEF Sound
  <2>3. nats' = Append(nats, h[c].out) /\ UNCHANGED <<cut, dead>>
    BY <1>1 DEF Publish, sinkVars
  <2>4. \A i \in DOMAIN nats' : (i \in DOMAIN nats /\ nats'[i] = nats[i]) \/ nats'[i] = h[c].out
    BY <1>0, <2>3
  <2> QED
    BY <1>0, <2>2, <2>3, <2>4 DEF Delivered
<1>2. CASE Deliver
  <2>1. nats # <<>> /\ 1 \in DOMAIN nats /\ Head(nats) = nats[1]
    BY <1>0, <1>2 DEF Deliver
  <2>2. PICK m \in Outs : m = Head(nats) /\ Sound(m)
    BY <1>0, <2>1 DEF Delivered
  <2>3. m.f \in Frames /\ HeaderOK(m.f)
    BY <2>2 DEF Sound, Accepted
  <2>4. \A i \in DOMAIN nats' : i + 1 \in DOMAIN nats /\ nats'[i] = nats[i + 1]
    BY <1>0, <1>2 DEF Deliver
  <2>5. dead' \subseteq {"upper"}
    <3>1. ~Subscribed(m.f.to) => m.f.to = "upper"
      BY <2>3 DEF HeaderOK, isValidHexPubKey, Subscribed
    <3>2. UNCHANGED dead \/ (~Subscribed(m.f.to) /\ dead' = dead \cup {m.f.to})
      BY <1>2, <2>2 DEF Deliver
    <3> QED
      BY <1>0, <3>1, <3>2 DEF Delivered
  <2>6. cut' # None => cut'.total > MaxMessageSize - Overhead
    <3>1. m.f.total \in Nat /\ MaxMessageSize - Overhead \in Nat
      BY <2>3 DEF Frames, MaxMessageSize, Overhead
    <3>2. ~Fits(m.f) => m.f.total > MaxMessageSize - Overhead
      BY <2>3, <3>1, MarshalledFits
    <3>3. UNCHANGED cut \/ (~Fits(m.f) /\ cut' = m.f)
      BY <1>2, <2>2 DEF Deliver
    <3> QED
      BY <1>0, <3>2, <3>3 DEF Delivered
  <2> QED
    BY <1>0, <2>4, <2>5, <2>6 DEF Delivered
<1>3. CASE UNCHANGED <<nats, cut, dead>>
  BY <1>0, <1>3 DEF Delivered
<1>4. ASSUME NEW c \in Conns, Sender(c)
      PROVE  UNCHANGED <<nats, cut, dead>>
  BY <1>0, <1>4, SenderAppends
<1>5. ASSUME NEW c \in Conns, Handler(c), ~Publish(c)
      PROVE  UNCHANGED <<nats, cut, dead>>
  BY <1>5 DEF Handler, GetBuffer, ReadLength, ReadBody, Fill, Marshal, Fail, sinkVars
<1>6. ASSUME UNCHANGED vars
      PROVE  UNCHANGED <<nats, cut, dead>>
  BY <1>6 DEF vars
<1> QED
  BY <1>1, <1>2, <1>3, <1>4, <1>5, <1>6 DEF Next

-----------------------------------------------------------------------------
(* Theorems                                                                *)

\* The invariant holds when nothing has been sent and the pools are full.
LEMMA InitWire ==
  Init => WireInv
<1> SUFFICES ASSUME Init
             PROVE  WireInv
  OBVIOUS
<1>1. Idle \in Calls /\ Idle.at = "get" /\ Idle.buf = None /\ Idle.obj = None /\ Idle.hdr = None
  BY DEF Idle, Calls
<1>2. WireTypes
  <2>1. <<None, 0>> \in (Conns \cup {None}) \X Nat
    OBVIOUS
  <2> QED
    BY <1>1, <2>1 DEF Init, WireTypes
<1>3. Exclusive /\ Delivered
  BY <1>1 DEF Init, Exclusive, Delivered
<1>4. ASSUME NEW c \in Conns
      PROVE  Aligned(c) /\ Lawful(c) /\ Handled(c)
  <2>1. net[c] = <<>> /\ ~broken[c] /\ h[c] = Idle
    BY DEF Init
  <2>2. Aligned(c) /\ Lawful(c)
    BY <1>1, <2>1 DEF Aligned, Chain, Lawful
  <2>3. Handled(c)
    BY <1>1, <2>1 DEF Handled
  <2> QED
    BY <2>2, <2>3
<1> QED
  BY <1>2, <1>3, <1>4 DEF WireInv

\* Every step keeps the invariant.
LEMMA WireStep ==
  WireInv /\ [Next]_vars => WireInv'
<1> SUFFICES ASSUME WireInv, [Next]_vars
             PROVE  WireInv'
  OBVIOUS
<1>1. WireTypes' /\ Exclusive' /\ Delivered'
  BY WireTypesStep, ExclusiveStep, DeliveredStep
<1>2. ASSUME NEW d \in Conns
      PROVE  Aligned(d)' /\ Lawful(d)' /\ Handled(d)'
  <2>0. WireTypes /\ Aligned(d) /\ Lawful(d) /\ Handled(d)
    BY DEF WireInv
  <2>1. CASE Kept(d)
    BY <2>0, <2>1, KeptHolds
  <2>2. CASE Sender(d)
    BY <2>0, <2>2, SenderStep
  <2>3. CASE Handler(d)
    BY <2>0, <2>3, HandlerStep
  <2>4. ASSUME NEW c \in Conns, c # d, Sender(c) \/ Handler(c)
        PROVE  Kept(d)
    BY <2>4, OthersKept
  <2>5. ASSUME Deliver \/ UNCHANGED vars
        PROVE  Kept(d)
    BY <2>5 DEF Deliver, vars, senderVars, Kept
  <2> QED
    BY <2>1, <2>2, <2>3, <2>4, <2>5 DEF Next
<1> QED
  BY <1>1, <1>2 DEF WireInv

\* The invariant the frames rest on holds of every state: no two handlers share
\* a buffer or an object, the pieces on a connection follow each other, and
\* each statement of handleMessage finds what it relies on.
THEOREM WireInductive == Spec => []WireInv
  BY InitWire, WireStep, PTL DEF Spec

\* A message is published as one client sent it, with the pools shared by all
\* handlers and the payload not copied before Marshal.
THEOREM MessagesIntact == Spec => []PublishedIntact
<1>1. WireInv => PublishedIntact
  <2> SUFFICES ASSUME WireInv, NEW i \in DOMAIN nats
               PROVE  /\ nats[i].payload = <<nats[i].from, nats[i].n>>
                      /\ nats[i].len = nats[i].f.total
                      /\ PayloadLen(nats[i].f) >= 0
    BY DEF PublishedIntact
  <2>1. Sound(nats[i])
    BY DEF WireInv, Delivered
  <2>2. PICK f \in Frames : f = nats[i].f /\ HeaderOK(f)
    BY <2>1 DEF Sound, Accepted
  <2>3. PayloadLen(f) >= 0
    BY <2>2 DEF Frames, HeaderOK, PayloadLen, minMessageSize, KeyHexLen
  <2> QED
    BY <2>1, <2>2, <2>3 DEF Sound
<1> QED
  BY <1>1, WireInductive, PTL

\* A handler never reads the middle of a frame as its beginning, although
\* Encode writes a frame in five pieces and a Write may fail.
THEOREM FramesStayAligned == Spec => []FramesAligned
<1>1. WireInv => FramesAligned
  BY DEF WireInv, Aligned, FramesAligned
<1> QED
  BY <1>1, WireInductive, PTL

\* The router refuses nothing the library accepts, but for a recipient that is
\* not hexadecimal or an id that is not UTF-8.
THEOREM LengthsAgree == Spec => []LibraryNotRefused
<1>1. WireInv => LibraryNotRefused
  BY WireAssumption DEF WireInv, Lawful, LibraryNotRefused
<1> QED
  BY <1>1, WireInductive, PTL

\* What the router accepted reaches a connected recipient, except in upper case
\* or within Overhead bytes of the limit.
THEOREM AcceptedDeliverable == Spec => []AcceptedIsDeliverable
<1>1. WireInv => AcceptedIsDeliverable
  BY DEF WireInv, Delivered, AcceptedIsDeliverable
<1> QED
  BY <1>1, WireInductive, PTL

=============================================================================

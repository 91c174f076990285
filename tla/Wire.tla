-------------------------------- MODULE Wire --------------------------------
(***************************************************************************)
(* The way of a message in bytes and sizes: ClientMessage.Encode in the    *)
(* library, handleMessage in the router with its pools of buffers and of   *)
(* Message objects, the protobuf Message, and ServerMessage.Encode on the  *)
(* connection of the recipient.                                            *)
(*                                                                         *)
(* Lengths are real numbers of bytes; contents are the number of the       *)
(* message they belong to.  A frame is written in five pieces, by five     *)
(* calls of Write: length, recipient, length of the id, id, payload.       *)
(***************************************************************************)
EXTENDS Integers, Sequences

CONSTANTS
    Conns,      \* connections that send
    Library,    \* those with the client library at the other end
    Bufs,       \* buffers of msgPool
    Objs,       \* objects of messagePool
    None,
    CfgMax,     \* limits.max_message_size
    Outgoing,   \* OutgoingMessages given to the library
    Raw,        \* frames another program sends
    MaxSent,    \* bound: messages per connection of the library
    MaxRaw      \* bound: frames per connection of another program

\* Below four bytes the buffers of msgPool could not hold a length.
ASSUME CfgAssumption  == CfgMax \in Nat /\ CfgMax >= 4
ASSUME WireAssumption == /\ Library \subseteq Conns
                         /\ None \notin Bufs \cup Objs
                         /\ MaxSent \in Nat /\ MaxRaw \in Nat

\* Lengths of Go slices, and the unsigned fields of a frame.
ASSUME LengthsAssumption ==
    /\ Outgoing \subseteq [to : STRING, id : Nat, payload : Nat, utf8 : BOOLEAN]
    /\ Raw \subseteq [to : STRING, id : Nat, total : Nat, utf8 : BOOLEAN]

KeyHexLen      == 64        \* PublicKeySize*2
MaxMsgIDLen    == 256
MaxMessageSize == 65536
minMessageSize == KeyHexLen + 2

-----------------------------------------------------------------------------
(* Sizes                                                                   *)

\* The frame of an OutgoingMessage m, in the shape the router sees it.
FrameOf(m) == [total |-> KeyHexLen + 2 + m.id + m.payload,
               to |-> m.to, id |-> m.id, utf8 |-> m.utf8]

\* Encode's checks, made before anything is written.
Encodable(m) ==
    /\ m.to # "short"
    /\ m.id <= MaxMsgIDLen
    /\ KeyHexLen + 2 + m.id + m.payload <= MaxMessageSize

\* isValidHexPubKey: 64 digits, letters of either case.
isValidHexPubKey(to) == to \in {"lower", "upper"}

PayloadLen(f) == f.total - minMessageSize - f.id

\* A length-delimited field of a protobuf message, left out when empty.
VarintLen(n) == IF n < 128 THEN 1 ELSE IF n < 16384 THEN 2
                ELSE IF n < 2097152 THEN 3 ELSE 4
Field(n) == IF n = 0 THEN 0 ELSE 1 + VarintLen(n) + n

\* The marshalled Message: from, to, id, payload and six bytes of time.
MessageLen(f) == 2 * Field(KeyHexLen) + Field(f.id) + Field(PayloadLen(f)) + 6

\* The most that marshalling adds to the length of a frame.
Overhead == 79

-----------------------------------------------------------------------------

VARIABLES
    net,        \* net[c]: pieces on the way to the router
    count,      \* count[c]: messages the sender was given
    broken,     \* broken[c]: a Write of the library has failed
    h,          \* h[c]: the handler's call of handleMessage
    data,       \* data[b]: whose bytes a buffer holds: connection and number
    object,     \* object[o]: the fields of a Message object
    nats,       \* messages published and not yet written or lost
    recipient,  \* the recipient's connection: "open" or "closed"
    cut,        \* the message whose write closed it, or None
    dead        \* messages no subscription was there for

vars == <<net, count, broken, h, data, object, nats, recipient, cut, dead>>
senderVars == <<count, broken>>
sinkVars == <<recipient, cut, dead>>

\* at is the next statement of handleMessage; len is totalLen, hdr what was
\* copied out of the buffer and n its number, slice the buffer the payload is
\* a slice of, out the marshalled message.
Idle == [at |-> "get", buf |-> None, obj |-> None, n |-> 0, len |-> 0,
         hdr |-> None, slice |-> None, out |-> None]

Init ==
    /\ net = [c \in Conns |-> <<>>]
    /\ count = [c \in Conns |-> 0]
    /\ broken = [c \in Conns |-> FALSE]
    /\ h = [c \in Conns |-> Idle]
    /\ data = [b \in Bufs |-> <<None, 0>>]
    /\ object = [o \in Objs |-> None]
    /\ nats = <<>>
    /\ recipient = "open" /\ cut = None /\ dead = {}

-----------------------------------------------------------------------------
(* The sender                                                              *)

\* The first k pieces of the n-th frame f.
Pieces(f, n, k) == [i \in 1..k |-> [part |-> i, n |-> n, f |-> f]]

Bound(c) == IF c \in Library THEN MaxSent ELSE MaxRaw

Sending(c) == /\ count[c] < Bound(c)
              /\ h[c].at # "ended"
              /\ count' = [count EXCEPT ![c] = @ + 1]

\* sendMessage refuses the message; nothing is written.
EncodeRefuses(c, m) ==
    /\ Sending(c) /\ ~Encodable(m)
    /\ UNCHANGED <<net, broken, h, data, object, nats, sinkVars>>

\* All five writes succeed.
EncodeWrites(c, m) ==
    /\ Sending(c) /\ Encodable(m) /\ ~broken[c]
    /\ net' = [net EXCEPT ![c] = @ \o Pieces(FrameOf(m), count[c] + 1, 5)]
    /\ UNCHANGED <<broken, h, data, object, nats, sinkVars>>

\* Mutant: a connection whose Write has failed is written to again.
EncodeFailsOnce(c, m) ==
    /\ Sending(c) /\ Encodable(m)
    /\ \E k \in 0..4 :
          net' = [net EXCEPT ![c] = @ \o Pieces(FrameOf(m), count[c] + 1, k)]
    /\ UNCHANGED <<broken, h, data, object, nats, sinkVars>>

\* A write fails after k pieces.  writeLoop reports it and goes on with the
\* next message, but a tls.Conn repeats the error of a failed Write for ever.
EncodeFails(c, m) ==
    /\ Sending(c) /\ Encodable(m)
    /\ \E k \in (IF broken[c] THEN {0} ELSE 0..4) :
          net' = [net EXCEPT ![c] = @ \o Pieces(FrameOf(m), count[c] + 1, k)]
    /\ broken' = [broken EXCEPT ![c] = TRUE]
    /\ UNCHANGED <<h, data, object, nats, sinkVars>>

\* Another program sends a frame of its own making.
RawSends(c, f) ==
    /\ Sending(c)
    /\ net' = [net EXCEPT ![c] = @ \o Pieces(f, count[c] + 1, 5)]
    /\ UNCHANGED <<broken, h, data, object, nats, sinkVars>>

Sender(c) ==
    \/ c \in Library /\ \E m \in Outgoing :
          EncodeRefuses(c, m) \/ EncodeWrites(c, m) \/ EncodeFails(c, m)
    \/ c \notin Library /\ \E f \in Raw : RawSends(c, f)

-----------------------------------------------------------------------------
(* handleMessage                                                           *)

InPool(b) == \A c \in Conns : h[c].buf # b
Spare(o)  == \A c \in Conns : h[c].obj # o

\* pool.Get()
GetBuffer(c) ==
    /\ h[c].at = "get"
    /\ \E b \in Bufs : InPool(b) /\ h' = [h EXCEPT ![c].buf = b, ![c].at = "length"]
    /\ UNCHANGED <<net, senderVars, data, object, nats, sinkVars>>

\* Mutant: a frame of minimum length is refused.
LengthOKStrict(n) == n <= CfgMax /\ n > minMessageSize

\* The checks of totalLen, the one against the length of the buffer included.
LengthOK(n) == n <= CfgMax /\ n >= minMessageSize

\* Read and check the length.
ReadLength(c) ==
    /\ h[c].at = "length"
    /\ net[c] # <<>>
    /\ LET p == Head(net[c]) IN
          h' = [h EXCEPT ![c].n = p.n, ![c].len = p.f.total, ![c].hdr = p.f,
                         ![c].at = IF LengthOK(p.f.total) THEN "body" ELSE "fail"]
    /\ net' = [net EXCEPT ![c] = Tail(@)]
    /\ UNCHANGED <<senderVars, data, object, nats, sinkVars>>

\* The checks of the recipient and of the length of the id.
HeaderOK(f) ==
    /\ isValidHexPubKey(f.to)
    /\ f.id <= MaxMsgIDLen
    /\ minMessageSize + f.id <= f.total

\* Mutant: the buffer goes back to the pool as soon as it was parsed.
ReadBodyReleases(c) ==
    /\ h[c].at = "body"
    /\ Len(net[c]) >= 4
    /\ LET f == net[c][1].f IN
          h' = [h EXCEPT ![c].hdr = f, ![c].n = net[c][1].n, ![c].buf = None,
                         ![c].slice = h[c].buf,
                         ![c].at = IF HeaderOK(f) THEN "fill" ELSE "fail"]
    /\ data' = [data EXCEPT ![h[c].buf] = <<c, net[c][4].n>>]
    /\ net' = [net EXCEPT ![c] = SubSeq(@, 5, Len(@))]
    /\ UNCHANGED <<senderVars, object, nats, sinkVars>>

\* Read totalLen bytes into the buffer, whatever they are; recipient and id
\* are copied, the payload stays in the buffer.
ReadBody(c) ==
    /\ h[c].at = "body"
    /\ Len(net[c]) >= 4
    /\ LET f == net[c][1].f IN
          h' = [h EXCEPT ![c].hdr = f, ![c].n = net[c][1].n, ![c].slice = h[c].buf,
                         ![c].at = IF HeaderOK(f) THEN "fill" ELSE "fail"]
    /\ data' = [data EXCEPT ![h[c].buf] = <<c, net[c][4].n>>]
    /\ net' = [net EXCEPT ![c] = SubSeq(@, 5, Len(@))]
    /\ UNCHANGED <<senderVars, object, nats, sinkVars>>

\* messagePool.Get() and the five assignments.  Payload is a slice of the
\* buffer, not a copy.
Fill(c) ==
    /\ h[c].at = "fill"
    /\ \E o \in Objs :
          /\ Spare(o)
          /\ object' = [object EXCEPT ![o] =
                [from |-> c, n |-> h[c].n, f |-> h[c].hdr, payload |-> h[c].slice]]
          /\ h' = [h EXCEPT ![c].obj = o, ![c].at = "marshal"]
    /\ UNCHANGED <<net, senderVars, data, nats, sinkVars>>

\* proto.Marshal copies the object and the buffer it refers to.  It fails on
\* a string that is no UTF-8, which the id may be.
Marshal(c) ==
    /\ h[c].at = "marshal"
    /\ LET m == object[h[c].obj] IN
          h' = [h EXCEPT ![c].out = [from |-> m.from, n |-> m.n, f |-> m.f,
                                     len |-> h[c].len, payload |-> data[m.payload]],
                         ![c].at = IF m.f.utf8 THEN "publish" ELSE "fail"]
    /\ UNCHANGED <<net, senderVars, data, object, nats, sinkVars>>

\* publisher.Publish succeeds; Reset and both Puts follow.
Publish(c) ==
    /\ h[c].at = "publish"
    /\ nats' = Append(nats, h[c].out)
    /\ h' = [h EXCEPT ![c] = Idle]
    /\ object' = [object EXCEPT ![h[c].obj] = None]
    /\ UNCHANGED <<net, senderVars, data, sinkVars>>

\* An error, of a read or of Publish too: Reset and the Puts, and the
\* connection ends.  hdr remains when the frame was refused.
Fail(c) ==
    /\ h[c].at \in {"length", "body", "fail", "publish"}
    /\ h' = [h EXCEPT ![c] = [Idle EXCEPT !.at = "ended", !.n = h[c].n,
                              !.hdr = IF h[c].at = "fail" THEN h[c].hdr ELSE None]]
    /\ object' = IF h[c].obj = None THEN object
                 ELSE [object EXCEPT ![h[c].obj] = None]
    /\ UNCHANGED <<net, senderVars, data, nats, sinkVars>>

Handler(c) == \/ GetBuffer(c) \/ ReadLength(c) \/ ReadBody(c) \/ Fill(c)
              \/ Marshal(c) \/ Publish(c) \/ Fail(c)

-----------------------------------------------------------------------------
(* The recipient                                                           *)

\* The recipient's subject is made of hex.EncodeToString, in lower case.
Subscribed(to) == to = "lower"

\* Mutant: the limit is meant to hold with the four bytes of length.
FitsWithLength(f) == 4 + MessageLen(f) <= MaxMessageSize

\* ServerMessage.Encode's check, the same in DecodeServerMessage.
Fits(f) == MessageLen(f) <= MaxMessageSize

\* NATS hands the next message to the subscription, if there is one, and
\* writeMessage writes it or fails, which closes the recipient's peer.
Deliver ==
    /\ nats # <<>>
    /\ nats' = Tail(nats)
    /\ LET m == Head(nats) IN
          IF ~Subscribed(m.f.to)
          THEN dead' = dead \cup {m.f.to} /\ UNCHANGED <<recipient, cut>>
          ELSE /\ UNCHANGED dead
               /\ IF recipient = "open" /\ ~Fits(m.f)
                  THEN recipient' = "closed" /\ cut' = m.f
                  ELSE UNCHANGED <<recipient, cut>>
    /\ UNCHANGED <<net, senderVars, h, data, object>>

-----------------------------------------------------------------------------

Next ==
    \/ \E c \in Conns : Sender(c) \/ Handler(c)
    \/ Deliver
    \/ /\ \A c \in Conns : count[c] = Bound(c) \/ h[c].at = "ended"
       /\ UNCHANGED vars

Spec == Init /\ [][Next]_vars

-----------------------------------------------------------------------------
(* Properties                                                              *)

\* A message is published as one client sent it: recipient, id and payload are
\* of one frame of one connection, with the length announced for it, although
\* buffers and objects are shared by all handlers, the payload is not copied
\* before Marshal, and a sender's Write may have failed half-way.
PublishedIntact ==
    \A i \in DOMAIN nats :
        LET m == nats[i] IN /\ m.payload = <<m.from, m.n>>
                            /\ m.len = m.f.total
                            /\ PayloadLen(m.f) >= 0

\* A handler never reads the middle of a frame as its beginning: a frame that
\* Encode could not finish is the last one on its connection.
FramesAligned ==
    \A c \in Conns :
        /\ h[c].at \in {"get", "length"} /\ net[c] # <<>> => net[c][1].part = 1
        /\ h[c].at = "body" /\ net[c] # <<>> =>
              net[c][1].part = 2 /\ net[c][1].n = h[c].n

\* The router refuses nothing that the library accepts, unless the recipient
\* is not hexadecimal or the id not UTF-8: the two sides agree on every
\* length, provided the router is configured for the protocol's maximum.
LibraryNotRefused ==
    CfgMax >= MaxMessageSize =>
        \A c \in Library :
            h[c].at = "ended" /\ h[c].hdr # None =>
                ~isValidHexPubKey(h[c].hdr.to) \/ ~h[c].hdr.utf8

\* What the router has accepted reaches a connected recipient, except for two
\* gaps between the checks of the two sides: a valid recipient that is not
\* spelled in lower case has no subscription, and a message within Overhead
\* bytes of the limit may no longer fit a ServerMessage when marshalled, and
\* then cuts the recipient off.  Nothing shorter does.
AcceptedIsDeliverable ==
    /\ dead \subseteq {"upper"}
    /\ cut # None => cut.total > MaxMessageSize - Overhead

=============================================================================

-------------------------------- MODULE Auth --------------------------------
(***************************************************************************)
(* The handshake: authenticate of the router (pkg/router/auth.go) and of   *)
(* the client library (pkg/client/client.go), over the messages of         *)
(* pkg/protocol/auth.go, on connections that use the same authentication   *)
(* buffers one after the other.                                            *)
(*                                                                         *)
(* A connection carries TLS records.  The router writes each message with  *)
(* one Write, so as one record, and reads fields straight from the         *)
(* connection.  The client reads through a bufio.Reader, which takes one   *)
(* record at a time; readLoop later reads through another one.             *)
(* The client at the other end is the library's, or any other program,     *)
(* which has one key and sends what it likes.                              *)
(***************************************************************************)
EXTENDS Integers, Sequences

CONSTANTS
    Conns,      \* connections; a connection is also its TLS channel binding
    Keys,       \* public keys
    Bufs,       \* authentication buffers
    None,       \* no key, buffer or signature
    TTL,        \* challengeTTL in seconds
    Tolerance,  \* seconds a timestamp may be ahead (60 in the code)
    Word,       \* 2^64 in the code: seconds are uint64
    MaxClock,   \* bound: the clock's last second
    MaxSent,    \* bound: messages a program that is not the library sends
    MaxFrames   \* bound: messages the router writes after the handshake

ASSUME TimeAssumption == /\ TTL \in Nat /\ Tolerance \in Nat
                         /\ MaxClock \in Nat /\ Word \in Nat
                         /\ MaxClock + Tolerance < Word /\ MaxClock + TTL < Word
ASSUME NoneAssumption == None \notin Keys \cup Bufs
ASSUME BoundsAssumption == MaxSent \in Nat /\ MaxFrames \in Nat

VARIABLES
    clock,      \* the router's time.Now().Unix()
    lib,        \* lib[c]: the other end is the client library
    owner,      \* owner[c]: the key the other end has
    toServer,   \* toServer[c]: messages on their way to the router
    toClient,   \* toClient[c]: records on their way to the client
    mem,        \* mem[b]: the areas of a buffer that are read again
    held,       \* held[c]: the buffer of the handler, or None
    timestamp,  \* timestamp[c]: the local variable of authenticate
    issued,     \* number of challenges generated
    spc,        \* spc[c]: where the router is: "new", "hello", "challenge",
                \* "response", "verify", "time", "result", "ok", "served", "failed"
    id,         \* id[c]: the PeerID handleConn copies from the buffer
    cpc,        \* cpc[c]: where the library is: "hello", "challenge",
                \* "response", "result", "connected", "failed"
    reader,     \* reader[c]: what the handshake's bufio.Reader holds
    challenge,  \* challenge[c]: the challenge the library decoded
    made,       \* every signature that anyone made
    sent,       \* sent[c]: messages another program has sent
    frames,     \* frames[c]: messages the router wrote after the handshake
    got,        \* history: got[c], the messages readLoop decoded
    checked,    \* history: checked[c], the clock when the timestamp was checked
    fault       \* history: fault[c], a deadline or the network hit the handshake

serverVars == <<mem, held, timestamp, issued, spc, id, frames, checked>>
clientVars == <<cpc, reader, challenge, sent, got>>
given      == <<lib, owner>>
vars == <<clock, lib, owner, toServer, toClient, mem, held, timestamp, issued,
          spc, id, cpc, reader, challenge, made, sent, frames, got, checked, fault>>

\* The buffers are made by Serve; ServerID is in them for good and left out.
Init ==
    /\ clock \in 0..MaxClock
    /\ lib \in [Conns -> BOOLEAN]
    /\ owner \in [Conns -> Keys]
    /\ toServer = [c \in Conns |-> <<>>]
    /\ toClient = [c \in Conns |-> <<>>]
    /\ mem = [b \in Bufs |-> [pubKey |-> None, challenge |-> 0, signature |-> None]]
    /\ held = [c \in Conns |-> None]
    /\ timestamp = [c \in Conns |-> 0]
    /\ issued = 0
    /\ spc = [c \in Conns |-> "new"]
    /\ id = [c \in Conns |-> None]
    /\ cpc = [c \in Conns |-> "hello"]
    /\ reader = [c \in Conns |-> <<>>]
    /\ challenge = [c \in Conns |-> [challenge |-> 0, timestamp |-> 0]]
    /\ made = {}
    /\ sent = [c \in Conns |-> 0]
    /\ frames = [c \in Conns |-> 0]
    /\ got = [c \in Conns |-> <<>>]
    /\ checked = [c \in Conns |-> 0]
    /\ fault = [c \in Conns |-> FALSE]

-----------------------------------------------------------------------------
(* Messages and signatures                                                 *)

ClientHello(k)        == [type |-> "hello", pubKey |-> k]
ServerChallenge(n, t) == [type |-> "challenge", challenge |-> n, timestamp |-> t]
ClientResponse(s)     == [type |-> "response", signature |-> s]
AuthResult            == [type |-> "result"]
ServerMessage(n)      == [type |-> "frame", n |-> n]

\* Mutant: only the key is signed.
BuildSignedDataBare(n, t, k, binding) == [pubKey |-> k]

\* The data a signature is over: the version and the server are constant.
BuildSignedData(n, t, k, binding) ==
    [challenge |-> n, timestamp |-> t, pubKey |-> k, binding |-> binding]

\* ed25519: a signature names its key and its data.
Sign(k, data) == [key |-> k, data |-> data]
Verified(k, data, s) == s = Sign(k, data)

-----------------------------------------------------------------------------
(* The router                                                              *)

Go(c, s) == spc' = [spc EXCEPT ![c] = s]

Write(c, record) == toClient' = [toClient EXCEPT ![c] = Append(@, record)]

\* Serve: a buffer is free and the handler starts with it, as it was left.
Start(c) ==
    /\ spc[c] = "new"
    /\ \E b \in Bufs : /\ \A d \in Conns : held[d] # b
                       /\ held' = [held EXCEPT ![c] = b]
    /\ Go(c, "hello")
    /\ UNCHANGED <<clock, given, toServer, toClient, mem, timestamp, issued, id,
                   frames, checked, clientVars, made, fault>>

\* Steps 1 and 2: the type and the public key.
ReadHello(c) ==
    /\ spc[c] = "hello"
    /\ toServer[c] # <<>>
    /\ LET m == Head(toServer[c])
       IN  IF m.type = "hello"
           THEN /\ mem' = [mem EXCEPT ![held[c]].pubKey = m.pubKey]
                /\ Go(c, "challenge")
           ELSE Go(c, "failed") /\ UNCHANGED mem
    /\ toServer' = [toServer EXCEPT ![c] = Tail(@)]
    /\ UNCHANGED <<clock, given, toClient, held, timestamp, issued, id, frames,
                   checked, clientVars, made, fault>>

\* Mutant: the challenge stays in a buffer of the writer.
SendChallengeUnflushed(c) ==
    /\ spc[c] = "challenge"
    /\ issued' = issued + 1
    /\ mem' = [mem EXCEPT ![held[c]].challenge = issued']
    /\ timestamp' = [timestamp EXCEPT ![c] = clock]
    /\ Go(c, "response")
    /\ UNCHANGED <<clock, given, toServer, toClient, held, id, frames, checked,
                   clientVars, made, fault>>

\* Steps 3 to 6: a random challenge, the time, and both to the client.
SendChallenge(c) ==
    /\ spc[c] = "challenge"
    /\ issued' = issued + 1
    /\ mem' = [mem EXCEPT ![held[c]].challenge = issued']
    /\ timestamp' = [timestamp EXCEPT ![c] = clock]
    /\ Write(c, <<ServerChallenge(issued', clock)>>)
    /\ Go(c, "response")
    /\ UNCHANGED <<clock, given, toServer, held, id, frames, checked, clientVars,
                   made, fault>>

\* Steps 7 and 8: the type and the signature.
ReadResponse(c) ==
    /\ spc[c] = "response"
    /\ toServer[c] # <<>>
    /\ LET m == Head(toServer[c])
       IN  IF m.type = "response"
           THEN /\ mem' = [mem EXCEPT ![held[c]].signature = m.signature]
                /\ Go(c, "verify")
           ELSE Go(c, "failed") /\ UNCHANGED mem
    /\ toServer' = [toServer EXCEPT ![c] = Tail(@)]
    /\ UNCHANGED <<clock, given, toClient, held, timestamp, issued, id, frames,
                   checked, clientVars, made, fault>>

\* Mutant: the time is read again for the data to verify.
VerifyNow(c) ==
    /\ spc[c] = "verify"
    /\ LET b == mem[held[c]]
       IN  Go(c, IF Verified(b.pubKey, BuildSignedData(b.challenge, clock,
                                           b.pubKey, c), b.signature)
                 THEN "time" ELSE "failed")
    /\ UNCHANGED <<clock, given, toServer, toClient, mem, held, timestamp, issued,
                   id, frames, checked, clientVars, made, fault>>

\* Steps 9 to 11: the signature over the data as this side knows it.  The
\* channel binding cannot be had of every connection: below TLS 1.3, which
\* only other programs use, the export may fail.
Verify(c) ==
    /\ spc[c] = "verify"
    /\ \/ LET b == mem[held[c]]
          IN  Go(c, IF Verified(b.pubKey, BuildSignedData(b.challenge, timestamp[c],
                                              b.pubKey, c), b.signature)
                    THEN "time" ELSE "failed")
       \/ ~lib[c] /\ Go(c, "failed")
    /\ UNCHANGED <<clock, given, toServer, toClient, mem, held, timestamp, issued,
                   id, frames, checked, clientVars, made, fault>>

\* The two comparisons of step 12 on uint64: neither ahead by more than
\* Tolerance nor older than TTL.
TimestampValid(t) ==
    /\ t <= (clock + Tolerance) % Word
    /\ (clock + Word - t) % Word <= TTL

\* Mutant: the age of the challenge is a signed number.
CheckTimeSigned(c) ==
    /\ spc[c] = "time"
    /\ checked' = [checked EXCEPT ![c] = clock]
    /\ IF timestamp[c] <= clock + Tolerance /\ clock - timestamp[c] <= TTL
       THEN Go(c, "result") /\ UNCHANGED fault
       ELSE Go(c, "failed") /\ fault' = [fault EXCEPT ![c] = TRUE]
    /\ UNCHANGED <<clock, given, toServer, toClient, mem, held, timestamp, issued,
                   id, frames, clientVars, made>>

\* Mutant: the client is sent the result before the time is checked.
CheckTimeAnnounced(c) ==
    /\ spc[c] = "time"
    /\ checked' = [checked EXCEPT ![c] = clock]
    /\ Write(c, <<AuthResult>>)
    /\ Go(c, IF TimestampValid(timestamp[c]) THEN "result" ELSE "failed")
    /\ UNCHANGED <<clock, given, toServer, mem, held, timestamp, issued, id,
                   frames, clientVars, made, fault>>

\* Step 12: the time again, and the age of the challenge.
CheckTime(c) ==
    /\ spc[c] = "time"
    /\ checked' = [checked EXCEPT ![c] = clock]
    /\ IF TimestampValid(timestamp[c])
       THEN Go(c, "result") /\ UNCHANGED fault
       ELSE Go(c, "failed") /\ fault' = [fault EXCEPT ![c] = TRUE]
    /\ UNCHANGED <<clock, given, toServer, toClient, mem, held, timestamp, issued,
                   id, frames, clientVars, made>>

\* Mutant: AuthResult leaves with the first message, in one write.
SendResultWithFrame(c) ==
    /\ spc[c] = "result"
    /\ Write(c, <<AuthResult, ServerMessage(1)>>)
    /\ frames' = [frames EXCEPT ![c] = 1]
    /\ Go(c, "ok")
    /\ UNCHANGED <<clock, given, toServer, mem, held, timestamp, issued, id,
                   checked, clientVars, made, fault>>

\* Step 13: the result, in a write of its own.
SendResult(c) ==
    /\ spc[c] = "result"
    /\ Write(c, <<AuthResult>>)
    /\ Go(c, "ok")
    /\ UNCHANGED <<clock, given, toServer, mem, held, timestamp, issued, id,
                   frames, checked, clientVars, made, fault>>

\* handleConn copies the PeerID from the buffer.
CopyID(c) ==
    /\ spc[c] = "ok"
    /\ id' = [id EXCEPT ![c] = mem[held[c]].pubKey]
    /\ Go(c, "served")
    /\ UNCHANGED <<clock, given, toServer, toClient, mem, held, timestamp, issued,
                   frames, checked, clientVars, made, fault>>

\* The write loop writes a message to the client.
WriteFrame(c) ==
    /\ spc[c] = "served" /\ held[c] # None
    /\ frames[c] < MaxFrames
    /\ frames' = [frames EXCEPT ![c] = @ + 1]
    /\ Write(c, <<ServerMessage(frames'[c])>>)
    /\ UNCHANGED <<clock, given, toServer, mem, held, timestamp, issued, spc, id,
                   checked, clientVars, made, fault>>

\* A read or write of the router fails: the deadline, the network, the client
\* gone.  A read may have filled part of its area.
Fails(c) ==
    /\ spc[c] \in {"hello", "challenge", "response", "result"}
    /\ \/ UNCHANGED mem
       \/ spc[c] = "hello" /\ mem' = [mem EXCEPT ![held[c]].pubKey = None]
       \/ spc[c] = "response" /\ mem' = [mem EXCEPT ![held[c]].signature = None]
    /\ Go(c, "failed")
    /\ fault' = [fault EXCEPT ![c] = TRUE]
    /\ UNCHANGED <<clock, given, toServer, toClient, held, timestamp, issued, id,
                   frames, checked, clientVars, made>>

\* The handler ends, its connection closed, and the buffer is free again.
Release(c) ==
    /\ spc[c] \in {"failed", "served"} /\ held[c] # None
    /\ held' = [held EXCEPT ![c] = None]
    /\ UNCHANGED <<clock, given, toServer, toClient, mem, timestamp, issued, spc,
                   id, frames, checked, clientVars, made, fault>>

-----------------------------------------------------------------------------
(* The client library                                                      *)

\* The router has closed the connection.
Ended(c) == spc[c] \in {"failed", "served"} /\ held[c] = None

\* ClientHello with the key of the library's user.
SendHello(c) ==
    /\ lib[c] /\ cpc[c] = "hello"
    /\ toServer' = [toServer EXCEPT ![c] = Append(@, ClientHello(owner[c]))]
    /\ cpc' = [cpc EXCEPT ![c] = "challenge"]
    /\ UNCHANGED <<clock, given, toClient, serverVars, reader, challenge, made,
                   sent, got, fault>>

\* The bufio.Reader of the handshake is empty and reads one record.
Fill(c) ==
    /\ lib[c] /\ cpc[c] \in {"challenge", "result"}
    /\ reader[c] = <<>> /\ toClient[c] # <<>>
    /\ reader' = [reader EXCEPT ![c] = Head(toClient[c])]
    /\ toClient' = [toClient EXCEPT ![c] = Tail(@)]
    /\ UNCHANGED <<clock, given, toServer, serverVars, cpc, challenge, made, sent,
                   got, fault>>

\* ServerChallenge
DecodeChallenge(c) ==
    /\ cpc[c] = "challenge"
    /\ reader[c] # <<>> /\ Head(reader[c]).type = "challenge"
    /\ challenge' = [challenge EXCEPT
                       ![c] = [challenge |-> Head(reader[c]).challenge,
                               timestamp |-> Head(reader[c]).timestamp]]
    /\ reader' = [reader EXCEPT ![c] = Tail(@)]
    /\ cpc' = [cpc EXCEPT ![c] = "response"]
    /\ UNCHANGED <<clock, given, toServer, toClient, serverVars, made, sent, got,
                   fault>>

\* signChallenge and ClientResponse
SendResponse(c) ==
    /\ cpc[c] = "response"
    /\ LET data == BuildSignedData(challenge[c].challenge, challenge[c].timestamp,
                                   owner[c], c)
           s == Sign(owner[c], data)
       IN  /\ made' = made \cup {s}
           /\ toServer' = [toServer EXCEPT ![c] = Append(@, ClientResponse(s))]
    /\ cpc' = [cpc EXCEPT ![c] = "result"]
    /\ UNCHANGED <<clock, given, toClient, serverVars, reader, challenge, sent, got,
                   fault>>

\* AuthResult.  Connect returns; what the handshake's reader still holds goes
\* with it.
DecodeResult(c) ==
    /\ cpc[c] = "result"
    /\ reader[c] # <<>> /\ Head(reader[c]).type = "result"
    /\ reader' = [reader EXCEPT ![c] = <<>>]
    /\ cpc' = [cpc EXCEPT ![c] = "connected"]
    /\ UNCHANGED <<clock, given, toServer, toClient, serverVars, challenge, made,
                   sent, got, fault>>

\* readLoop decodes the next message through its own reader.
ReadFrame(c) ==
    /\ cpc[c] = "connected"
    /\ toClient[c] # <<>>
    /\ got' = [got EXCEPT ![c] = @ \o Head(toClient[c])]
    /\ toClient' = [toClient EXCEPT ![c] = Tail(@)]
    /\ UNCHANGED <<clock, given, toServer, serverVars, cpc, reader, challenge, made,
                   sent, fault>>

\* The connection ended and nothing is left to read: authenticate fails.
ClientEOF(c) ==
    /\ lib[c] /\ cpc[c] \in {"challenge", "result"}
    /\ Ended(c) /\ toClient[c] = <<>> /\ reader[c] = <<>>
    /\ cpc' = [cpc EXCEPT ![c] = "failed"]
    /\ UNCHANGED <<clock, given, toServer, toClient, serverVars, reader, challenge,
                   made, sent, got, fault>>

\* The deadline of the client passes, or its end of the connection breaks.
ClientTimeout(c) ==
    /\ lib[c] /\ cpc[c] \in {"hello", "challenge", "response", "result"}
    /\ cpc' = [cpc EXCEPT ![c] = "failed"]
    /\ fault' = [fault EXCEPT ![c] = TRUE]
    /\ UNCHANGED <<clock, given, toServer, toClient, serverVars, reader, challenge,
                   made, sent, got>>

-----------------------------------------------------------------------------
(* Other programs and the clock                                            *)

\* The signatures a program has: any that was made before, and its own over
\* the challenge it was sent, for whatever key it claims.
Signatures(c) ==
    made \cup
    UNION {{Sign(owner[c], BuildSignedData(r.challenge, r.timestamp, k, c)) : k \in Keys} :
              r \in {Head(toClient[c][i]) : i \in {j \in DOMAIN toClient[c] :
                                                     Head(toClient[c][j]).type = "challenge"}}}

\* A program that is not the library sends a message.
OtherSends(c) ==
    /\ ~lib[c] /\ sent[c] < MaxSent /\ spc[c] \in {"hello", "response"}
    /\ \/ \E k \in Keys :
            /\ toServer' = [toServer EXCEPT ![c] = Append(@, ClientHello(k))]
            /\ UNCHANGED made
       \/ \E s \in Signatures(c) :
            /\ toServer' = [toServer EXCEPT ![c] = Append(@, ClientResponse(s))]
            /\ made' = made \cup {s}
    /\ sent' = [sent EXCEPT ![c] = @ + 1]
    /\ UNCHANGED <<clock, given, toClient, serverVars, cpc, reader, challenge, got,
                   fault>>

\* Time passes, or the clock is set.
SetClock ==
    /\ \E t \in 0..MaxClock : t # clock /\ clock' = t
    /\ UNCHANGED <<given, toServer, toClient, serverVars, clientVars, made, fault>>

-----------------------------------------------------------------------------

Server(c) == \/ Start(c) \/ ReadHello(c) \/ SendChallenge(c) \/ ReadResponse(c)
             \/ Verify(c) \/ CheckTime(c) \/ SendResult(c) \/ CopyID(c)

Library(c) == \/ SendHello(c) \/ Fill(c) \/ DecodeChallenge(c) \/ SendResponse(c)
              \/ DecodeResult(c) \/ ReadFrame(c) \/ ClientEOF(c)

Next ==
    \/ \E c \in Conns : Server(c) \/ Fails(c) \/ WriteFrame(c) \/ Release(c)
    \/ \E c \in Conns : Library(c) \/ ClientTimeout(c)
    \/ \E c \in Conns : OtherSends(c)
    \/ SetClock

Spec == Init /\ [][Next]_vars

\* Both sides go on as long as they can: the scheduler is fair and the network
\* delivers.  Deadlines, failures and the end of a connection are not assumed.
Fairness == \A c \in Conns : WF_vars(Server(c)) /\ WF_vars(Library(c))

FairSpec == Spec /\ Fairness

-----------------------------------------------------------------------------
(* Properties                                                              *)

\* handleConn takes for the PeerID of a connection the key that its other end
\* has, whatever earlier connections left in the buffer and whatever messages
\* and signatures are sent again.
RightIdentity == \A c \in Conns : id[c] \in {None, owner[c]}

\* When the library's Connect has returned, the router has accepted this very
\* connection.
ConnectedIsAccepted ==
    \A c \in Conns : cpc[c] = "connected" => spc[c] \in {"ok", "served"}

\* The library is refused only for a deadline, a failed read or write, or the
\* clock: both sides build the same data to sign, in any buffer.
LibraryAccepted == \A c \in Conns : lib[c] /\ spc[c] = "failed" => fault[c]

\* A challenge is accepted exactly when it is between zero and TTL seconds old
\* by the router's clock, which may have been set in between.  A timestamp
\* ahead of the clock is refused, within Tolerance too: its age wraps around.
AgeBounded ==
    \A c \in Conns :
        /\ spc[c] \in {"result", "ok", "served"} =>
              checked[c] - timestamp[c] \in 0..TTL
        /\ spc[c] = "time" /\ clock - timestamp[c] \in 0..TTL =>
              TimestampValid(timestamp[c])

\* No message written to the client right after the handshake is lost between
\* the client's two readers.
ReadersLoseNothing ==
    \A c \in Conns : cpc[c] = "connected" =>
        /\ Len(got[c]) + Len(toClient[c]) = frames[c]
        /\ \A i \in DOMAIN got[c] : got[c][i] = ServerMessage(i)

\* The library and the router never wait for each other: the handshake of a
\* connection the router serves ends with Connect returning, unless a deadline,
\* a failure or the clock ends it.
HandshakeCompletes ==
    \A c \in Conns :
        lib[c] /\ spc[c] = "hello" ~> cpc[c] = "connected" \/ fault[c]

=============================================================================

------------------------------- MODULE Client -------------------------------
(***************************************************************************)
(* The client library (pkg/client/client.go) after Connect has returned:   *)
(* runLoop, its read and write goroutines, and closeAll, which either of   *)
(* them may call.  The user of the library owns the channel send and reads *)
(* the channel recv; the server is the other end of the connection.  Both  *)
(* are environment and do as they please.                                  *)
(*                                                                         *)
(* closeOnce is how far the body of closeAll is: "idle", "conn" (closeCh   *)
(* is closed, conn.Close is next) or "done".                               *)
(***************************************************************************)
EXTENDS Naturals, Sequences, SequencesExt

CONSTANTS
    ReadBufSize,    \* capacity of recv (100 by default)
    SendBufSize,    \* capacity of the user's channel send
    MaxIn,          \* bound: frames the server sends
    MaxOut          \* bound: messages the user sends

ASSUME ReadBufAssumption == ReadBufSize \in Nat \ {0}
ASSUME SendBufAssumption == SendBufSize \in Nat \ {0}
ASSUME ClientBounds == MaxIn \in Nat /\ MaxOut \in Nat

VARIABLES
    server,      \* the server's end of the connection: "open" or "closed"
    frames,      \* history: the frames the server sent
    messages,    \* history: the messages among them
    inbound,     \* frames sent and not decoded yet
    conn,        \* the client's end: "open" or "closed"
    closeOnce,   \* closeAll: "idle", "conn", "done"
    rl,          \* readLoop: "check", "decode", "deliver", "close", "done"
    held,        \* the message readLoop is sending to recv, if any
    recv,        \* the messages in recv
    recvClosed,  \* runLoop has closed recv and returned
    received,    \* history: the messages the user received
    wl,          \* writeLoop: "select", "send", "close", "done"
    sending,     \* the message writeLoop took from send, if any
    send,        \* the messages in send
    sendClosed,  \* the user has closed send
    sent,        \* history: the messages the user put into send
    written,     \* history: the messages written to the server
    reported     \* history: the messages reported to onError

netVars  == <<server, frames, messages, inbound>>
readVars == <<rl, held, recv>>
sendVars == <<wl, sending, send, written, reported>>
userVars == <<received, sendClosed, sent>>
vars == <<server, frames, messages, inbound, conn, closeOnce, rl, held, recv,
          recvClosed, received, wl, sending, send, sendClosed, sent, written, reported>>

\* What a frame holds: a Message, data that is no Message, or a length that
\* DecodeServerMessage refuses.
Frames == [n : Nat \ {0}, kind : {"message", "garbage", "oversize"}]

\* The channels, histories and program counters have their declared types,
\* and no channel holds more than its capacity.
ClientTypeOK ==
    /\ server \in {"open", "closed"} /\ conn \in {"open", "closed"}
    /\ frames \in Seq(Frames) /\ messages \in Seq(Frames) /\ inbound \in Seq(Frames)
    /\ closeOnce \in {"idle", "conn", "done"}
    /\ rl \in {"check", "decode", "deliver", "close", "done"}
    /\ wl \in {"select", "send", "close", "done"}
    /\ held \in Seq(Frames) /\ recv \in Seq(Frames) /\ received \in Seq(Frames)
    /\ \A s \in {sending, send, sent, written, reported} : s \in Seq(Nat)
    /\ recvClosed \in BOOLEAN /\ sendClosed \in BOOLEAN
    /\ Len(recv) <= ReadBufSize /\ Len(send) <= SendBufSize

Init ==
    /\ server = "open" /\ conn = "open" /\ closeOnce = "idle"
    /\ frames = <<>> /\ messages = <<>> /\ inbound = <<>>
    /\ rl = "check" /\ held = <<>> /\ recv = <<>> /\ recvClosed = FALSE
    /\ wl = "select" /\ sending = <<>> /\ send = <<>> /\ sendClosed = FALSE
    /\ received = <<>> /\ sent = <<>> /\ written = <<>> /\ reported = <<>>

-----------------------------------------------------------------------------
(* closeAll                                                                *)

Closed == closeOnce # "idle"

\* A call of closeAll that finds the Once unused: close(closeCh).
BeginCloseAll == closeOnce = "idle" /\ closeOnce' = "conn"

\* A call of closeAll returns.
CloseAllReturns == closeOnce = "done" /\ UNCHANGED closeOnce

\* conn.Close()
CloseAllBody ==
    /\ closeOnce = "conn"
    /\ closeOnce' = "done"
    /\ conn' = "closed"
    /\ UNCHANGED <<netVars, readVars, recvClosed, sendVars, userVars>>

-----------------------------------------------------------------------------
(* readLoop                                                                *)

\* select { case <-closeCh: return; default: }
ReaderChecks ==
    /\ rl = "check"
    /\ rl' = IF Closed THEN "close" ELSE "decode"
    /\ UNCHANGED <<netVars, conn, closeOnce, held, recv, recvClosed, sendVars,
                   userVars>>

\* DecodeServerMessage and Unmarshal succeed, or Unmarshal fails and the frame
\* is skipped.  The bufio.Reader may hold whole frames after conn is closed.
ReaderDecodes ==
    /\ rl = "decode"
    /\ inbound # <<>>
    /\ Head(inbound).kind # "oversize"
    /\ inbound' = Tail(inbound)
    /\ IF Head(inbound).kind = "message"
       THEN held' = <<Head(inbound)>> /\ rl' = "deliver"
       ELSE rl' = "check" /\ UNCHANGED held
    /\ UNCHANGED <<server, frames, messages, conn, closeOnce, recv, recvClosed,
                   sendVars, userVars>>

\* DecodeServerMessage fails: a bad length, end of file, a reset, or conn was
\* closed on this side.
ReaderFails ==
    /\ rl = "decode"
    /\ \/ conn = "closed"
       \/ server = "closed"
       \/ inbound # <<>> /\ Head(inbound).kind = "oversize"
    /\ rl' = "close"
    /\ UNCHANGED <<netVars, conn, closeOnce, held, recv, recvClosed, sendVars,
                   userVars>>

\* Mutant: a message that recv has no room for is dropped.
ReaderDeliversOrDrops ==
    /\ rl = "deliver"
    /\ recv' = IF Len(recv) < ReadBufSize THEN recv \o held ELSE recv
    /\ held' = <<>>
    /\ rl' = "check"
    /\ UNCHANGED <<netVars, conn, closeOnce, recvClosed, sendVars, userVars>>

\* Mutant: recv takes every message, however many the user leaves in it.
ReaderDeliversUnbounded ==
    /\ rl = "deliver"
    /\ recv' = recv \o held
    /\ held' = <<>>
    /\ rl' = "check"
    /\ UNCHANGED <<netVars, conn, closeOnce, recvClosed, sendVars, userVars>>

\* case recv <- msg
ReaderDelivers ==
    /\ rl = "deliver"
    /\ Len(recv) < ReadBufSize
    /\ recv' = recv \o held
    /\ held' = <<>>
    /\ rl' = "check"
    /\ UNCHANGED <<netVars, conn, closeOnce, recvClosed, sendVars, userVars>>

\* Mutant: readLoop sends to recv without looking at closeCh.
ReaderGivesUpNever ==
    /\ rl = "deliver"
    /\ UNCHANGED vars

\* Mutant: a message that could not be delivered because the connection is
\* being closed does not end readLoop.
ReaderGivesUpContinues ==
    /\ rl = "deliver"
    /\ Closed
    /\ held' = <<>>
    /\ rl' = "decode"
    /\ UNCHANGED <<netVars, conn, closeOnce, recv, recvClosed, sendVars, userVars>>

\* case <-closeCh, beside the send to recv: the message is dropped.
ReaderGivesUp ==
    /\ rl = "deliver"
    /\ Closed
    /\ held' = <<>>
    /\ rl' = "close"
    /\ UNCHANGED <<netVars, conn, closeOnce, recv, recvClosed, sendVars, userVars>>

\* Mutant: readLoop returns without closing the connection.
ReaderClosesMissing ==
    /\ rl = "close"
    /\ rl' = "done"
    /\ UNCHANGED <<netVars, conn, closeOnce, held, recv, recvClosed, sendVars,
                   userVars>>

\* Deferred: closeAll()
ReaderCloses ==
    /\ rl = "close"
    /\ \/ BeginCloseAll /\ UNCHANGED rl
       \/ CloseAllReturns /\ rl' = "done"
    /\ UNCHANGED <<netVars, conn, held, recv, recvClosed, sendVars, userVars>>

ReadLoop == \/ ReaderChecks \/ ReaderDecodes \/ ReaderFails
            \/ ReaderDelivers \/ ReaderGivesUp \/ ReaderCloses

-----------------------------------------------------------------------------
(* writeLoop                                                               *)

\* case <-closeCh
WriterStops ==
    /\ wl = "select"
    /\ Closed
    /\ wl' = "done"
    /\ UNCHANGED <<netVars, conn, closeOnce, readVars, recvClosed, sending, send,
                   written, reported, userVars>>

\* case msg := <-send
WriterTakes ==
    /\ wl = "select"
    /\ send # <<>>
    /\ sending' = <<Head(send)>>
    /\ send' = Tail(send)
    /\ wl' = "send"
    /\ UNCHANGED <<netVars, conn, closeOnce, readVars, recvClosed, written,
                   reported, userVars>>

\* sendMessage succeeds.
SendSucceeds ==
    /\ wl = "send"
    /\ conn = "open"
    /\ written' = written \o sending
    /\ sending' = <<>>
    /\ wl' = "select"
    /\ UNCHANGED <<netVars, conn, closeOnce, readVars, recvClosed, send, reported,
                   userVars>>

\* Mutant: a failed send is not reported.
SendFailsSilently ==
    /\ wl = "send"
    /\ sending' = <<>>
    /\ wl' = "select"
    /\ UNCHANGED <<netVars, conn, closeOnce, readVars, recvClosed, send, written,
                   reported, userVars>>

\* sendMessage fails (invalid message, deadline, closed or broken connection):
\* onError is called and the loop goes on.
SendFails ==
    /\ wl = "send"
    /\ reported' = reported \o sending
    /\ sending' = <<>>
    /\ wl' = "select"
    /\ UNCHANGED <<netVars, conn, closeOnce, readVars, recvClosed, send, written,
                   userVars>>

\* case _, !ok := <-send: send is closed and everything in it was taken.
SendEnds ==
    /\ wl = "select"
    /\ sendClosed
    /\ send = <<>>
    /\ wl' = "close"
    /\ UNCHANGED <<netVars, conn, closeOnce, readVars, recvClosed, sending, send,
                   written, reported, userVars>>

\* closeAll(); return
WriterCloses ==
    /\ wl = "close"
    /\ \/ BeginCloseAll /\ UNCHANGED wl
       \/ CloseAllReturns /\ wl' = "done"
    /\ UNCHANGED <<netVars, conn, readVars, recvClosed, sending, send, written,
                   reported, userVars>>

WriteLoop == \/ WriterStops \/ WriterTakes \/ SendSucceeds \/ SendFails
             \/ SendEnds \/ WriterCloses

-----------------------------------------------------------------------------

\* Mutant: runLoop waits for one of the two goroutines only.
CloseRecvEarly ==
    /\ wl = "done"
    /\ ~recvClosed
    /\ recvClosed' = TRUE
    /\ UNCHANGED <<netVars, conn, closeOnce, readVars, sendVars, userVars>>

\* runLoop: wg.Wait(); close(recv)
CloseRecv ==
    /\ rl = "done" /\ wl = "done"
    /\ ~recvClosed
    /\ recvClosed' = TRUE
    /\ UNCHANGED <<netVars, conn, closeOnce, readVars, sendVars, userVars>>

-----------------------------------------------------------------------------
(* The user and the server                                                 *)

\* The user puts a message into send, which has room for it.
UserSends ==
    /\ ~sendClosed
    /\ Len(send) < SendBufSize
    /\ Len(sent) < MaxOut
    /\ sent' = Append(sent, Len(sent) + 1)
    /\ send' = Append(send, Len(sent) + 1)
    /\ UNCHANGED <<netVars, conn, closeOnce, readVars, recvClosed, wl, sending,
                   written, reported, received, sendClosed>>

\* The user closes send, once.
UserCloses ==
    /\ ~sendClosed
    /\ sendClosed' = TRUE
    /\ UNCHANGED <<netVars, conn, closeOnce, readVars, recvClosed, sendVars,
                   received, sent>>

\* The user receives from recv.
UserReceives ==
    /\ recv # <<>>
    /\ received' = Append(received, Head(recv))
    /\ recv' = Tail(recv)
    /\ UNCHANGED <<netVars, conn, closeOnce, rl, held, recvClosed, sendVars,
                   sendClosed, sent>>

\* The server writes a frame.
ServerSends ==
    /\ server = "open" /\ conn = "open"
    /\ Len(frames) < MaxIn
    /\ \E k \in {"message", "garbage", "oversize"} :
          LET f == [n |-> Len(frames) + 1, kind |-> k]
          IN  /\ frames' = Append(frames, f) /\ inbound' = Append(inbound, f)
              /\ messages' = IF k = "message" THEN Append(messages, f) ELSE messages
    /\ UNCHANGED <<server, conn, closeOnce, readVars, recvClosed, sendVars, userVars>>

\* The server closes the connection, or the network breaks it.
ServerCloses ==
    /\ server = "open"
    /\ server' = "closed"
    /\ UNCHANGED <<frames, messages, inbound, conn, closeOnce, readVars, recvClosed,
                   sendVars, userVars>>

Environment == \/ UserSends \/ UserCloses \/ UserReceives
               \/ ServerSends \/ ServerCloses

Next ==
    \/ ReadLoop
    \/ WriteLoop
    \/ CloseAllBody
    \/ CloseRecv
    \/ Environment
    \/ recvClosed /\ UNCHANGED vars

Spec == Init /\ [][Next]_vars

\* The Go scheduler runs every goroutine that can run; sendMessage ends because
\* a write has a deadline (writeTimeout > 0, the default).  Nothing is assumed
\* of the user or the server.
Fairness == /\ WF_vars(ReadLoop)
            /\ WF_vars(WriteLoop)
            /\ WF_vars(CloseAllBody)
            /\ WF_vars(CloseRecv)

FairSpec == Spec /\ Fairness

-----------------------------------------------------------------------------
(* Properties                                                              *)

\* What readLoop has decoded of the server's messages, unless it gave up; and
\* the messages among some frames.
Decoded == received \o recv \o held
MessagesIn(s) == {s[i] : i \in {j \in DOMAIN s : s[j].kind = "message"}}

\* While readLoop runs, no message of the server is lost, duplicated or
\* reordered on its way to the user: what the user received, recv and what
\* readLoop holds are the first messages sent, and the others are those that
\* are still to be decoded.
ClientNoLoss ==
    rl \in {"check", "decode", "deliver"} =>
        /\ Decoded = SubSeq(messages, 1, Len(Decoded))
        /\ {messages[i] : i \in Len(Decoded) + 1 .. Len(messages)} = MessagesIn(inbound)

Hop == INSTANCE Channel WITH
    sent <- messages,
    got  <- received,
    up   <- TRUE

\* From the server's frames to the user (readLoop, recv) the library is a
\* channel that never goes down: whatever ends the connection, and whatever
\* the user leaves in recv, the user receives the messages from the first one
\* on, in order, without a gap; only the rest is missing.
ClientImplementsChannel == Hop!Spec

\* recv is closed only when neither goroutine can use it or the connection any
\* more: readLoop never sends on a closed channel and conn is closed.
ClosedLast ==
    recvClosed => rl = "done" /\ wl = "done" /\ conn = "closed" /\ held = <<>>

\* When the user ends the connection by closing send, everything put into
\* send before has been written or reported to onError; messages are dropped
\* silently only when the server or a refused frame ended the connection.
SendAccounted ==
    /\ recvClosed
    /\ server = "open"
    /\ \A i \in DOMAIN frames : frames[i].kind # "oversize"
    => /\ Len(written) + Len(reported) = Len(sent)
       /\ ToSet(written) \cup ToSet(reported) = ToSet(sent)

\* "Closing the channel ends the connection": once send is closed, recv is
\* closed too, whether or not the user still reads from it.
CloseEnds == sendClosed ~> recvClosed

\* "The channel is closed when the connection ends": when the server closes
\* the connection, recv is closed, provided the user keeps receiving.
ServerCloseEnds == []<>(recv = <<>>) => (server = "closed" ~> recvClosed)

=============================================================================

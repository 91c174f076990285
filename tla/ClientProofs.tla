---------------------------- MODULE ClientProofs ----------------------------
(***************************************************************************)
(* Proofs about the run loop of the client library, for channels of any    *)
(* size and any number of frames and messages: the user receives the       *)
(* messages of the server from the first one on without a gap, recv is     *)
(* closed last, and an orderly end accounts for every message sent.        *)
(***************************************************************************)
EXTENDS Client, SequenceTheorems, TLAPS

\* The frames of s are numbered in their order, up to k.
InOrder(s, k) ==
    /\ \A i \in DOMAIN s : s[i].n <= k
    /\ \A i, j \in DOMAIN s : i < j => s[i].n < s[j].n

Prefix(s, t) == Len(s) <= Len(t) /\ \A i \in DOMAIN s : s[i] = t[i]
Rest(s, k)   == {s[i] : i \in k + 1 .. Len(s)}

Running == rl \in {"check", "decode", "deliver"}

-----------------------------------------------------------------------------
(* The inductive invariant                                                 *)

\* Each goroutine holds a message only in the step that passes it on; closeAll
\* is over before readLoop is, and both goroutines before recv is closed.
Phases ==
    /\ Len(held) <= 1 /\ (rl # "deliver" => held = <<>>)
    /\ wl # "send" => sending = <<>>
    /\ closeOnce = "done" <=> conn = "closed"
    /\ rl = "done" => closeOnce = "done"
    /\ recvClosed => rl = "done" /\ wl = "done"

\* The way in: the user has received a prefix of the messages, and while
\* readLoop runs the rest is on its way.
Incoming ==
    /\ InOrder(messages, Len(frames)) /\ InOrder(inbound, Len(frames))
    /\ Prefix(Decoded, messages)
    /\ Running => Rest(messages, Len(Decoded)) = MessagesIn(inbound)

\* The way out: a message the user sent is in send, held, written or reported.
Outgoing ==
    /\ Len(written) + Len(reported) + Len(sending) + Len(send) = Len(sent)
    /\ ToSet(written) \cup ToSet(reported) \cup ToSet(sending) \cup ToSet(send) = ToSet(sent)

\* As long as the server keeps the connection open and sends no frame that is
\* refused, nobody but writeLoop closes it, which has then emptied send.
Calm    == server = "open" /\ \A i \in DOMAIN frames : frames[i].kind # "oversize"
Drained == sendClosed /\ send = <<>> /\ sending = <<>> /\ wl \in {"close", "done"}
Orderly ==
    /\ \A i \in DOMAIN inbound : \E j \in DOMAIN frames : inbound[i] = frames[j]
    /\ wl = "close" => Drained
    /\ Calm /\ (closeOnce # "idle" \/ rl \in {"close", "done"} \/ wl = "done") => Drained

ClientInv == ClientTypeOK /\ Phases /\ Incoming /\ Outgoing /\ Orderly

-----------------------------------------------------------------------------
(* Sequences                                                               *)

\* The three parts of Decoded, when a part is passed on.
LEMMA PassedOn ==
  ASSUME NEW a \in Seq(Frames), NEW b \in Seq(Frames), NEW c \in Seq(Frames)
  PROVE  /\ a \o b \o <<>> = a \o b
         /\ a \o (b \o c) \o <<>> = a \o b \o c
         /\ b # <<>> => Append(a, Head(b)) \o Tail(b) \o c = a \o b \o c
<1>1. a \o b \in Seq(Frames) /\ a \o b \o <<>> = a \o b
  BY ConcatProperties, ConcatEmptySeq
<1>2. a \o (b \o c) \o <<>> = a \o b \o c
  <2>1. b \o c \in Seq(Frames) /\ a \o (b \o c) \in Seq(Frames)
    BY ConcatProperties
  <2> QED
    <3>1. a \o (b \o c) \o <<>> = a \o (b \o c)
      BY <2>1, ConcatEmptySeq, Zenon
    <3>2. a \o (b \o c) = a \o b \o c
      OBVIOUS
    <3> QED
      BY <3>1, <3>2, Zenon
<1>3. ASSUME b # <<>>
      PROVE  Append(a, Head(b)) \o Tail(b) = a \o b
  <2>1. Head(b) \in Frames /\ Tail(b) \in Seq(Frames) /\ <<Head(b)>> \in Seq(Frames)
    BY <1>3, HeadTailProperties
  <2>2. Append(a, Head(b)) = a \o <<Head(b)>>
    BY <2>1, AppendIsConcat
  <2>3. <<Head(b)>> \o Tail(b) = b
    BY <1>3, <2>1
  <2> QED
    BY <2>1, <2>2, <2>3, ConcatAssociative
<1> QED
  BY <1>1, <1>2, <1>3

\* A prefix as SubSeq has it.
LEMMA PrefixIsSubSeq ==
  ASSUME NEW s \in Seq(Frames), NEW t \in Seq(Frames), Prefix(s, t)
  PROVE  s = SubSeq(t, 1, Len(s))
<1>0. Len(s) \in Nat /\ Len(t) \in Nat /\ Len(s) <= Len(t)
  BY DEF Prefix
<1>1. \A i \in 1..Len(s) : t[i] \in Frames /\ t[i] = s[i]
  BY <1>0 DEF Prefix
<1>2. /\ SubSeq(t, 1, Len(s)) \in Seq(Frames)
      /\ Len(SubSeq(t, 1, Len(s))) = IF 1 <= Len(s) THEN Len(s) - 1 + 1 ELSE 0
      /\ \A i \in 1 .. Len(s) - 1 + 1 : SubSeq(t, 1, Len(s))[i] = t[1 + i - 1]
  BY <1>0, <1>1, SubSeqProperties
<1>3. Len(SubSeq(t, 1, Len(s))) = Len(s)
  BY <1>0, <1>2
<1>4. \A i \in 1..Len(s) : SubSeq(t, 1, Len(s))[i] = s[i]
  BY <1>0, <1>1, <1>2
<1> QED
  BY <1>2, <1>3, <1>4, SeqEqual

\* A prefix of a prefix.
LEMMA PrefixOfJoin ==
  ASSUME NEW a \in Seq(Frames), NEW b \in Seq(Frames), NEW t \in Seq(Frames),
         Prefix(a \o b, t)
  PROVE  Prefix(a, t)
<1>1. /\ Len(a \o b) = Len(a) + Len(b) /\ Len(a) \in Nat /\ Len(b) \in Nat
      /\ \A i \in DOMAIN a : i \in DOMAIN (a \o b) /\ (a \o b)[i] = a[i]
  OBVIOUS
<1> QED
  BY <1>1 DEF Prefix

\* What is in a sequence that is split, joined or extended.
LEMMA SetOf ==
  ASSUME NEW s \in Seq(Nat), NEW t \in Seq(Nat), NEW e \in Nat
  PROVE  /\ ToSet(<<>>) = {} /\ ToSet(<<e>>) = {e}
         /\ ToSet(s \o t) = ToSet(s) \cup ToSet(t)
         /\ ToSet(Append(s, e)) = ToSet(s) \cup {e}
         /\ s # <<>> => ToSet(s) = {Head(s)} \cup ToSet(Tail(s))
<1>1. ToSet(<<>>) = {} /\ ToSet(<<e>>) = {e}
  BY DEF ToSet
<1>2. ToSet(s \o t) = ToSet(s) \cup ToSet(t)
  <2>1. /\ \A i \in DOMAIN (s \o t) :
             \/ i \in DOMAIN s /\ (s \o t)[i] = s[i]
             \/ i - Len(s) \in DOMAIN t /\ (s \o t)[i] = t[i - Len(s)]
        /\ \A i \in DOMAIN s : i \in DOMAIN (s \o t) /\ (s \o t)[i] = s[i]
        /\ \A i \in DOMAIN t :
             i + Len(s) \in DOMAIN (s \o t) /\ (s \o t)[i + Len(s)] = t[i]
    OBVIOUS
  <2>2. \A x : x \in ToSet(s \o t) => x \in ToSet(s) \cup ToSet(t)
    BY <2>1 DEF ToSet
  <2>3. \A x : x \in ToSet(s) => x \in ToSet(s \o t)
    BY <2>1 DEF ToSet
  <2>4. ASSUME NEW x, x \in ToSet(t)
        PROVE  x \in ToSet(s \o t)
    <3>1. PICK i \in DOMAIN t : x = t[i]
      BY <2>4 DEF ToSet
    <3>2. PICK j : j \in DOMAIN (s \o t) /\ (s \o t)[j] = x
      BY <2>1, <3>1
    <3> QED
      BY <3>2 DEF ToSet
  <2> QED
    BY <2>2, <2>3, <2>4
<1>3. ToSet(Append(s, e)) = ToSet(s) \cup {e}
  <2>1. /\ DOMAIN Append(s, e) = DOMAIN s \cup {Len(s) + 1}
        /\ \A i \in DOMAIN s : Append(s, e)[i] = s[i]
        /\ Append(s, e)[Len(s) + 1] = e
    OBVIOUS
  <2> QED
    BY <2>1 DEF ToSet
<1>4. ASSUME s # <<>>
      PROVE  ToSet(s) = {Head(s)} \cup ToSet(Tail(s))
  <2>1. /\ Head(s) = s[1] /\ 1 \in DOMAIN s
        /\ \A i \in DOMAIN Tail(s) : i + 1 \in DOMAIN s /\ Tail(s)[i] = s[i + 1]
        /\ \A i \in DOMAIN s : i = 1 \/ (i - 1 \in DOMAIN Tail(s) /\ Tail(s)[i - 1] = s[i])
    BY <1>4
  <2>2. ASSUME NEW x, x \in ToSet(s)
        PROVE  x \in {Head(s)} \cup ToSet(Tail(s))
    <3>1. PICK i \in DOMAIN s : x = s[i]
      BY <2>2 DEF ToSet
    <3>2. x = Head(s) \/ \E j : j \in DOMAIN Tail(s) /\ Tail(s)[j] = x
      BY <2>1, <3>1
    <3> QED
      BY <3>2 DEF ToSet
  <2>3. \A x : x \in {Head(s)} \cup ToSet(Tail(s)) => x \in ToSet(s)
    BY <2>1 DEF ToSet
  <2> QED
    BY <2>2, <2>3
<1> QED
  BY <1>1, <1>2, <1>3, <1>4

LEMMA NoElements ==
  /\ <<>> \in Seq(Nat) /\ <<>> \in Seq(Frames) /\ Len(<<>>) = 0 /\ ToSet(<<>>) = {}
BY DEF ToSet

\* Frames have numbers.
LEMMA FrameNumbers ==
  ASSUME NEW s \in Seq(Frames)
  PROVE  /\ Len(s) \in Nat /\ DOMAIN s = 1..Len(s)
         /\ \A i \in DOMAIN s : s[i] \in Frames /\ s[i].n \in Nat
<1>1. \A f \in Frames : f.n \in Nat
  BY DEF Frames
<1> QED
  BY <1>1

\* A frame with the next number keeps the order, and so does taking the first.
LEMMA OrderKept ==
  ASSUME NEW s \in Seq(Frames), NEW k \in Nat, InOrder(s, k)
  PROVE  /\ InOrder(s, k + 1)
         /\ \A f \in Frames : f.n = k + 1 => InOrder(Append(s, f), k + 1)
         /\ s # <<>> => InOrder(Tail(s), k)
<1>0. /\ Len(s) \in Nat /\ DOMAIN s = 1..Len(s)
      /\ \A i \in DOMAIN s : s[i] \in Frames /\ s[i].n \in Nat
  BY FrameNumbers
<1>1. InOrder(s, k + 1)
  BY <1>0 DEF InOrder
<1>2. ASSUME NEW f \in Frames, f.n = k + 1
      PROVE  InOrder(Append(s, f), k + 1)
  <2>1. /\ DOMAIN Append(s, f) = 1..Len(s) + 1
        /\ \A i \in DOMAIN s : Append(s, f)[i] = s[i]
        /\ Append(s, f)[Len(s) + 1] = f
    OBVIOUS
  <2>2. \A i \in DOMAIN Append(s, f) : i \in DOMAIN s \/ i = Len(s) + 1
    BY <1>0, <2>1
  <2>3. \A i \in DOMAIN Append(s, f) : Append(s, f)[i].n <= k + 1
    BY <1>0, <1>2, <2>1, <2>2 DEF InOrder
  <2>4. ASSUME NEW i \in DOMAIN Append(s, f), NEW j \in DOMAIN Append(s, f), i < j
        PROVE  Append(s, f)[i].n < Append(s, f)[j].n
    <3>1. i \in DOMAIN s
      BY <1>0, <2>1, <2>4
    <3>2. CASE j \in DOMAIN s
      BY <2>1, <2>4, <3>1, <3>2 DEF InOrder
    <3>3. CASE j = Len(s) + 1
      <4>1. s[i].n <= k /\ s[i].n \in Nat
        BY <1>0, <3>1 DEF InOrder
      <4> QED
        BY <1>2, <2>1, <3>1, <3>3, <4>1
    <3> QED
      BY <2>2, <3>2, <3>3
  <2> QED
    BY <2>3, <2>4 DEF InOrder
<1>3. ASSUME s # <<>>
      PROVE  InOrder(Tail(s), k)
  <2>1. \A i \in DOMAIN Tail(s) : i \in Nat /\ i + 1 \in DOMAIN s /\ Tail(s)[i] = s[i + 1]
    BY <1>3
  <2>2. \A i \in DOMAIN Tail(s) : Tail(s)[i].n <= k
    BY <2>1 DEF InOrder
  <2>3. ASSUME NEW i \in DOMAIN Tail(s), NEW j \in DOMAIN Tail(s), i < j
        PROVE  Tail(s)[i].n < Tail(s)[j].n
    <3>1. i + 1 < j + 1
      BY <2>1, <2>3
    <3> QED
      BY <2>1, <3>1 DEF InOrder
  <2> QED
    BY <2>2, <2>3 DEF InOrder
<1> QED
  BY <1>1, <1>2, <1>3

-----------------------------------------------------------------------------
(* Types and phases                                                        *)

LEMMA TypeStep ==
  ASSUME ClientTypeOK, Phases, [Next]_vars
  PROVE  ClientTypeOK'
<1>0. /\ held \in Seq(Frames) /\ recv \in Seq(Frames) /\ received \in Seq(Frames)
      /\ frames \in Seq(Frames) /\ messages \in Seq(Frames) /\ inbound \in Seq(Frames)
      /\ sending \in Seq(Nat) /\ send \in Seq(Nat) /\ sent \in Seq(Nat)
      /\ written \in Seq(Nat) /\ reported \in Seq(Nat)
      /\ Len(recv) <= ReadBufSize /\ Len(send) <= SendBufSize /\ Len(held) <= 1
      /\ ReadBufSize \in Nat /\ SendBufSize \in Nat
      /\ server \in {"open", "closed"} /\ conn \in {"open", "closed"}
      /\ closeOnce \in {"idle", "conn", "done"}
      /\ rl \in {"check", "decode", "deliver", "close", "done"}
      /\ wl \in {"select", "send", "close", "done"}
      /\ recvClosed \in BOOLEAN /\ sendClosed \in BOOLEAN
  BY ReadBufAssumption, SendBufAssumption DEF ClientTypeOK, Phases
<1>1. CASE ReaderDecodes
  <2>1. /\ Head(inbound) \in Frames /\ Tail(inbound) \in Seq(Frames)
        /\ <<Head(inbound)>> \in Seq(Frames)
    BY <1>0, <1>1, HeadTailProperties DEF ReaderDecodes
  <2>2. /\ inbound' = Tail(inbound)
        /\ rl' \in {"check", "deliver"} /\ held' \in {held, <<Head(inbound)>>}
        /\ UNCHANGED <<server, frames, messages, conn, closeOnce, recv, recvClosed, sendVars,
                       userVars>>
    BY <1>1 DEF ReaderDecodes
  <2> QED
    BY <1>0, <2>1, <2>2 DEF ClientTypeOK, sendVars, userVars
<1>2. CASE ReaderDelivers
  <2>1. recv \o held \in Seq(Frames) /\ Len(recv \o held) <= ReadBufSize
    BY <1>0, <1>2, ConcatProperties DEF ReaderDelivers
  <2>2. /\ recv' = recv \o held /\ held' = <<>> /\ rl' = "check"
        /\ UNCHANGED <<netVars, conn, closeOnce, recvClosed, sendVars, userVars>>
    BY <1>2 DEF ReaderDelivers
  <2> QED
    BY <1>0, <2>1, <2>2 DEF ClientTypeOK, netVars, sendVars, userVars
<1>3. CASE ReaderChecks \/ ReaderFails \/ ReaderGivesUp \/ ReaderCloses
  <2>1. /\ rl' \in {"decode", "close", "done", rl} /\ held' \in {held, <<>>}
        /\ closeOnce' \in {"conn", closeOnce}
        /\ UNCHANGED <<netVars, conn, recv, recvClosed, sendVars, userVars>>
    BY <1>3 DEF ReaderChecks, ReaderFails, ReaderGivesUp, ReaderCloses, BeginCloseAll,
       CloseAllReturns
  <2>2. /\ held' \in Seq(Frames) /\ closeOnce' \in {"idle", "conn", "done"}
        /\ rl' \in {"check", "decode", "deliver", "close", "done"}
    BY <1>0, <2>1, NoElements
  <2> QED
    BY <1>0, <2>1, <2>2 DEF ClientTypeOK, netVars, sendVars, userVars
<1>4. CASE WriterTakes
  <2>1. /\ Head(send) \in Nat /\ Tail(send) \in Seq(Nat) /\ <<Head(send)>> \in Seq(Nat)
        /\ Len(Tail(send)) <= SendBufSize
    <3>1. send # <<>>
      BY <1>4 DEF WriterTakes
    <3>2. Head(send) \in Nat /\ Tail(send) \in Seq(Nat) /\ Len(Tail(send)) = Len(send) - 1
      BY <1>0, <3>1, HeadTailProperties
    <3>3. <<Head(send)>> \in Seq(Nat) /\ Len(send) \in Nat
      BY <1>0, <3>2
    <3> QED
      BY <1>0, <3>2, <3>3
  <2>2. /\ sending' = <<Head(send)>> /\ send' = Tail(send) /\ wl' = "send"
        /\ UNCHANGED <<netVars, conn, closeOnce, readVars, recvClosed, written, reported,
                       userVars>>
    BY <1>4 DEF WriterTakes
  <2> QED
    BY <1>0, <2>1, <2>2 DEF ClientTypeOK, netVars, readVars, userVars
<1>5. CASE SendSucceeds \/ SendFails
  <2>1. written \o sending \in Seq(Nat) /\ reported \o sending \in Seq(Nat)
    BY <1>0, ConcatProperties
  <2>2. /\ sending' = <<>> /\ wl' = "select"
        /\ written' \in {written, written \o sending}
        /\ reported' \in {reported, reported \o sending}
        /\ UNCHANGED <<netVars, conn, closeOnce, readVars, recvClosed, send, userVars>>
    BY <1>5 DEF SendSucceeds, SendFails
  <2>3. written' \in Seq(Nat) /\ reported' \in Seq(Nat) /\ sending' \in Seq(Nat)
    BY <1>0, <2>1, <2>2, NoElements
  <2> QED
    BY <1>0, <2>2, <2>3 DEF ClientTypeOK, netVars, readVars, userVars
<1>6. CASE WriterStops \/ SendEnds \/ WriterCloses
  <2>1. /\ wl' \in {"close", "done", wl} /\ closeOnce' \in {"conn", closeOnce}
        /\ UNCHANGED <<netVars, conn, readVars, recvClosed, sending, send, written,
                       reported, userVars>>
    BY <1>6 DEF WriterStops, SendEnds, WriterCloses, BeginCloseAll, CloseAllReturns
  <2> QED
    BY <1>0, <2>1 DEF ClientTypeOK, netVars, readVars, userVars
<1>7. CASE CloseAllBody \/ CloseRecv
  BY <1>0, <1>7 DEF CloseAllBody, CloseRecv, ClientTypeOK, netVars, readVars, sendVars,
     userVars
<1>8. CASE UserSends
  <2>1. /\ Append(sent, Len(sent) + 1) \in Seq(Nat) /\ Append(send, Len(sent) + 1) \in Seq(Nat)
        /\ Len(Append(send, Len(sent) + 1)) <= SendBufSize
    BY <1>0, <1>8 DEF UserSends
  <2> QED
    BY <1>0, <1>8, <2>1 DEF UserSends, ClientTypeOK, netVars, readVars
<1>9. CASE UserCloses \/ ServerCloses \/ UNCHANGED vars
  <2>1. CASE UserCloses
    BY <1>0, <2>1 DEF UserCloses, ClientTypeOK, netVars, readVars, sendVars
  <2>2. CASE ServerCloses
    BY <1>0, <2>2 DEF ServerCloses, ClientTypeOK, readVars, sendVars, userVars
  <2>3. CASE UNCHANGED vars
    BY <1>0, <2>3 DEF vars, ClientTypeOK
  <2> QED
    BY <1>9, <2>1, <2>2, <2>3
<1>10. CASE UserReceives
  <2>1. /\ Append(received, Head(recv)) \in Seq(Frames) /\ Tail(recv) \in Seq(Frames)
        /\ Len(Tail(recv)) <= ReadBufSize
    BY <1>0, <1>10, HeadTailProperties DEF UserReceives
  <2> QED
    BY <1>0, <1>10, <2>1 DEF UserReceives, ClientTypeOK, netVars, sendVars
<1>11. CASE ServerSends
  <2>1. PICK f \in Frames : /\ frames' = Append(frames, f) /\ inbound' = Append(inbound, f)
                            /\ messages' \in {messages, Append(messages, f)}
    <3>1. PICK k \in {"message", "garbage", "oversize"} :
            /\ frames' = Append(frames, [n |-> Len(frames) + 1, kind |-> k])
            /\ inbound' = Append(inbound, [n |-> Len(frames) + 1, kind |-> k])
            /\ messages' \in {messages, Append(messages, [n |-> Len(frames) + 1, kind |-> k])}
      BY <1>11 DEF ServerSends
    <3>2. Len(frames) + 1 \in Nat \ {0}
      BY <1>0
    <3>3. [n |-> Len(frames) + 1, kind |-> k] \in Frames
      BY <3>2 DEF Frames
    <3> QED
      BY <3>1, <3>3
  <2>2. frames' \in Seq(Frames) /\ inbound' \in Seq(Frames) /\ messages' \in Seq(Frames)
    <3>1. /\ Append(frames, f) \in Seq(Frames) /\ Append(inbound, f) \in Seq(Frames)
          /\ Append(messages, f) \in Seq(Frames)
      BY <1>0, AppendProperties
    <3> QED
      BY <1>0, <2>1, <3>1
  <2> QED
    BY <1>0, <1>11, <2>2 DEF ServerSends, ClientTypeOK, readVars, sendVars, userVars
<1> QED
  BY <1>1, <1>2, <1>3, <1>4, <1>5, <1>6, <1>7, <1>8, <1>9, <1>10, <1>11
     DEF Next, ReadLoop, WriteLoop, Environment

LEMMA PhasesStep ==
  ASSUME ClientTypeOK, Phases, [Next]_vars
  PROVE  Phases'
<1>0. held \in Seq(Frames) /\ sending \in Seq(Nat) /\ Len(<<>>) = 0
  BY NoElements DEF ClientTypeOK
<1>1. CASE ReadLoop
  <2>1. UNCHANGED <<sending, wl, conn, recvClosed>>
    BY <1>1 DEF ReadLoop, ReaderChecks, ReaderDecodes, ReaderFails, ReaderDelivers,
       ReaderGivesUp, ReaderCloses, sendVars
  <2>2. rl # "done" /\ ~recvClosed
    BY <1>1 DEF ReadLoop, ReaderChecks, ReaderDecodes, ReaderFails, ReaderDelivers,
       ReaderGivesUp, ReaderCloses, Phases
  <2>3. Len(held') <= 1 /\ (rl' # "deliver" => held' = <<>>)
    <3>1. CASE ReaderDecodes
      <4>1. \/ held' = <<Head(inbound)>> /\ rl' = "deliver"
            \/ held' = held /\ rl = "decode"
        BY <3>1 DEF ReaderDecodes
      <4>2. Len(<<Head(inbound)>>) = 1
        OBVIOUS
      <4>3. held' = held /\ rl = "decode" => held' = <<>>
        BY DEF Phases
      <4>4. CASE held' = <<Head(inbound)>> /\ rl' = "deliver"
        BY <4>2, <4>4
      <4>5. CASE held' = <<>>
        BY <1>0, <4>5
      <4> QED
        BY <4>1, <4>3, <4>4, <4>5
    <3>2. CASE ReaderDelivers \/ ReaderGivesUp
      BY <1>0, <3>2 DEF ReaderDelivers, ReaderGivesUp
    <3>3. CASE ReaderChecks \/ ReaderFails \/ ReaderCloses
      BY <3>3 DEF ReaderChecks, ReaderFails, ReaderCloses, Phases
    <3> QED
      BY <1>1, <3>1, <3>2, <3>3 DEF ReadLoop
  <2>4. /\ closeOnce' = "done" <=> closeOnce = "done"
        /\ rl' = "done" => closeOnce' = "done"
    BY <1>1 DEF ReadLoop, ReaderChecks, ReaderDecodes, ReaderFails, ReaderDelivers,
       ReaderGivesUp, ReaderCloses, BeginCloseAll, CloseAllReturns
  <2> QED
    BY <2>1, <2>2, <2>3, <2>4 DEF Phases
<1>2. CASE WriteLoop
  <2>1. UNCHANGED <<held, rl, conn, recvClosed>>
    BY <1>2 DEF WriteLoop, WriterStops, WriterTakes, SendSucceeds, SendFails, SendEnds,
       WriterCloses, readVars
  <2>2. /\ closeOnce' = "done" <=> closeOnce = "done"
        /\ wl' # "send" => sending' = <<>>
        /\ ~recvClosed
    BY <1>2 DEF WriteLoop, WriterStops, WriterTakes, SendSucceeds, SendFails, SendEnds,
       WriterCloses, BeginCloseAll, CloseAllReturns, Phases
  <2> QED
    BY <2>1, <2>2 DEF Phases
<1>3. CASE CloseAllBody \/ CloseRecv
  BY <1>3 DEF CloseAllBody, CloseRecv, Phases, readVars, sendVars
<1>4. CASE Environment \/ UNCHANGED vars
  <2>1. UNCHANGED <<held, rl, wl, sending, closeOnce, conn, recvClosed>>
    BY <1>4 DEF Environment, UserSends, UserCloses, UserReceives, ServerSends, ServerCloses,
       readVars, sendVars, vars
  <2> QED
    BY <2>1 DEF Phases
<1> QED
  BY <1>1, <1>2, <1>3, <1>4 DEF Next

-----------------------------------------------------------------------------
(* The way out                                                             *)

LEMMA OutgoingStep ==
  ASSUME ClientTypeOK, Phases, Outgoing, [Next]_vars
  PROVE  Outgoing'
<1>0. /\ sending \in Seq(Nat) /\ send \in Seq(Nat) /\ sent \in Seq(Nat)
      /\ written \in Seq(Nat) /\ reported \in Seq(Nat)
      /\ Len(sending) \in Nat /\ Len(send) \in Nat /\ Len(sent) \in Nat
      /\ Len(written) \in Nat /\ Len(reported) \in Nat
  BY DEF ClientTypeOK
<1>1. CASE WriterTakes
  <2>1. /\ send # <<>> /\ sending = <<>>
        /\ sending' = <<Head(send)>> /\ send' = Tail(send)
        /\ UNCHANGED <<written, reported, sent>>
    BY <1>1 DEF WriterTakes, Phases, userVars
  <2>2. Head(send) \in Nat /\ Tail(send) \in Seq(Nat) /\ Len(Tail(send)) = Len(send) - 1
    BY <1>0, <2>1, HeadTailProperties
  <2>3. Len(<<Head(send)>>) = 1
    OBVIOUS
  <2>4. ToSet(<<Head(send)>>) = {Head(send)} /\ ToSet(send) = {Head(send)} \cup ToSet(Tail(send))
    BY <1>0, <2>1, <2>2, SetOf
  <2>5. Len(written) + Len(reported) + 1 + (Len(send) - 1) = Len(sent)
    <3>1. Len(written) + Len(reported) + Len(sending) + Len(send) = Len(sent)
      BY DEF Outgoing
    <3>2. Len(sending) = 0
      BY <2>1, NoElements
    <3>3. /\ Len(written) \in Nat /\ Len(reported) \in Nat /\ Len(send) \in Nat
          /\ Len(sent) \in Nat
      BY <1>0
    <3> QED
      BY <3>1, <3>2, <3>3
  <2>6. ToSet(sending) = {}
    BY <2>1, NoElements
  <2> QED
    BY <2>1, <2>2, <2>3, <2>4, <2>5, <2>6 DEF Outgoing
<1>2. CASE SendSucceeds \/ SendFails
  <2>1. /\ sending' = <<>> /\ UNCHANGED <<send, sent>>
        /\ \/ written' = written \o sending /\ reported' = reported
           \/ reported' = reported \o sending /\ written' = written
    BY <1>2 DEF SendSucceeds, SendFails, userVars
  <2>2. /\ Len(written \o sending) = Len(written) + Len(sending)
        /\ Len(reported \o sending) = Len(reported) + Len(sending)
        /\ ToSet(written \o sending) = ToSet(written) \cup ToSet(sending)
        /\ ToSet(reported \o sending) = ToSet(reported) \cup ToSet(sending)
    <3>1. /\ Len(written \o sending) = Len(written) + Len(sending)
          /\ Len(reported \o sending) = Len(reported) + Len(sending)
      BY <1>0, ConcatProperties
    <3> QED
      BY <1>0, <3>1, SetOf
  <2>3. Len(written') + Len(reported') + Len(sending') + Len(send') = Len(sent')
    <3>1. Len(written) + Len(reported) + Len(sending) + Len(send) = Len(sent)
      BY DEF Outgoing
    <3>2. Len(sending') = 0 /\ Len(send') = Len(send) /\ Len(sent') = Len(sent)
      BY <2>1, NoElements
    <3>3. \/ Len(written') = Len(written) + Len(sending) /\ Len(reported') = Len(reported)
          \/ Len(reported') = Len(reported) + Len(sending) /\ Len(written') = Len(written)
      BY <2>1, <2>2
    <3>4. /\ Len(sending) \in Nat /\ Len(send) \in Nat
          /\ Len(written) \in Nat /\ Len(reported) \in Nat
      BY <1>0
    <3> QED
      BY <3>1, <3>2, <3>3, <3>4
  <2>4. ToSet(written') \cup ToSet(reported') \cup ToSet(sending') \cup ToSet(send')
          = ToSet(sent')
    BY <2>1, <2>2, NoElements DEF Outgoing
  <2> QED
    BY <2>3, <2>4 DEF Outgoing
<1>3. CASE UserSends
  <2>1. /\ sent' = Append(sent, Len(sent) + 1) /\ send' = Append(send, Len(sent) + 1)
        /\ UNCHANGED <<sending, written, reported>>
    BY <1>3 DEF UserSends
  <2>2. PICK e \in Nat : e = Len(sent) + 1
    BY <1>0
  <2>3. /\ Len(Append(sent, e)) = Len(sent) + 1 /\ Len(Append(send, e)) = Len(send) + 1
        /\ ToSet(Append(sent, e)) = ToSet(sent) \cup {e}
        /\ ToSet(Append(send, e)) = ToSet(send) \cup {e}
    BY <1>0, AppendProperties, SetOf
  <2> QED
    BY <1>0, <2>1, <2>2, <2>3 DEF Outgoing
<1>4. CASE UNCHANGED <<sending, send, sent, written, reported>>
  BY <1>4 DEF Outgoing
<1>5. \/ WriterTakes \/ SendSucceeds \/ SendFails \/ UserSends
      \/ UNCHANGED <<sending, send, sent, written, reported>>
  BY DEF Next, ReadLoop, ReaderChecks, ReaderDecodes, ReaderFails, ReaderDelivers,
     ReaderGivesUp, ReaderCloses, WriteLoop, WriterStops, SendEnds, WriterCloses, CloseAllBody,
     CloseRecv, Environment, UserCloses, UserReceives, ServerSends, ServerCloses, vars,
     sendVars, userVars
<1> QED
  BY <1>1, <1>2, <1>3, <1>4, <1>5

-----------------------------------------------------------------------------
(* An orderly end                                                          *)

LEMMA InboundStep ==
  ASSUME ClientTypeOK, Orderly, [Next]_vars
  PROVE  /\ \A i \in DOMAIN inbound' : \E j \in DOMAIN frames' : inbound'[i] = frames'[j]
         /\ Calm' => Calm
<1>0. inbound \in Seq(Frames) /\ frames \in Seq(Frames)
      /\ \A i \in DOMAIN inbound : \E j \in DOMAIN frames : inbound[i] = frames[j]
  BY DEF ClientTypeOK, Orderly
<1>1. CASE ServerSends
  <2>1. PICK f : frames' = Append(frames, f) /\ inbound' = Append(inbound, f)
    BY <1>1 DEF ServerSends
  <2>2. /\ DOMAIN frames' = 1..Len(frames) + 1 /\ DOMAIN inbound' = 1..Len(inbound) + 1
        /\ \A i \in DOMAIN frames : i \in DOMAIN frames' /\ frames'[i] = frames[i]
        /\ \A i \in DOMAIN inbound : inbound'[i] = inbound[i]
        /\ frames'[Len(frames) + 1] = f /\ inbound'[Len(inbound) + 1] = f
        /\ Len(frames) + 1 \in DOMAIN frames'
        /\ \A i \in DOMAIN inbound' : i \in DOMAIN inbound \/ i = Len(inbound) + 1
    BY <1>0, <2>1
  <2>3. ASSUME NEW i \in DOMAIN inbound'
        PROVE  \E j \in DOMAIN frames' : inbound'[i] = frames'[j]
    <3>1. CASE i = Len(inbound) + 1
      BY <2>2, <3>1
    <3>2. CASE i \in DOMAIN inbound
      <4>1. PICK j \in DOMAIN frames : inbound[i] = frames[j]
        BY <1>0, <3>2
      <4> QED
        BY <2>2, <3>2, <4>1
    <3> QED
      BY <2>2, <3>1, <3>2
  <2>4. Calm' => Calm
    BY <1>1, <2>2 DEF Calm, ServerSends
  <2> QED
    BY <2>3, <2>4
<1>2. CASE ReaderDecodes
  <2>1. inbound # <<>> /\ inbound' = Tail(inbound) /\ frames' = frames /\ server' = server
    BY <1>2 DEF ReaderDecodes
  <2>2. \A i \in DOMAIN inbound' : i + 1 \in DOMAIN inbound /\ inbound'[i] = inbound[i + 1]
    BY <1>0, <2>1
  <2> QED
    BY <1>0, <2>1, <2>2 DEF Calm
<1>3. CASE inbound' = inbound /\ frames' = frames /\ (server' = "open" => server = "open")
  BY <1>0, <1>3 DEF Calm
<1>4. \/ ServerSends \/ ReaderDecodes
      \/ inbound' = inbound /\ frames' = frames /\ (server' = "open" => server = "open")
  BY DEF Next, ReadLoop, ReaderChecks, ReaderFails, ReaderDelivers, ReaderGivesUp,
     ReaderCloses, WriteLoop, WriterTakes, SendSucceeds, SendFails, WriterStops, SendEnds,
     WriterCloses, CloseAllBody, CloseRecv, Environment, UserSends, UserCloses, UserReceives,
     ServerCloses, vars, netVars
<1> QED
  BY <1>1, <1>2, <1>3, <1>4

\* What writeLoop has drained stays so.
LEMMA DrainedStays ==
  ASSUME Drained, [Next]_vars
  PROVE  Drained'
<1>1. CASE WriteLoop
  BY <1>1 DEF Drained, WriteLoop, WriterTakes, SendSucceeds, SendFails, WriterStops, SendEnds,
     WriterCloses, userVars
<1>2. CASE ~WriteLoop
  BY <1>2 DEF Drained, Next, ReadLoop, ReaderChecks, ReaderDecodes, ReaderFails,
     ReaderDelivers, ReaderGivesUp, ReaderCloses, CloseAllBody, CloseRecv, Environment,
     UserSends, UserCloses, UserReceives, ServerSends, ServerCloses, vars, sendVars, userVars
<1> QED
  BY <1>1, <1>2

LEMMA OrderlyStep ==
  ASSUME ClientTypeOK, Phases, Orderly, [Next]_vars
  PROVE  Orderly'
<1>1. wl' = "close" => Drained'
  <2>1. CASE SendEnds
    BY <2>1 DEF SendEnds, Phases, Drained, userVars
  <2>2. CASE wl = "close"
    BY <2>2, DrainedStays DEF Orderly
  <2>3. wl' # "close" \/ SendEnds \/ wl = "close"
    BY DEF Next, ReadLoop, ReaderChecks, ReaderDecodes, ReaderFails, ReaderDelivers,
       ReaderGivesUp, ReaderCloses, WriteLoop, WriterTakes, SendSucceeds, SendFails,
       WriterStops, WriterCloses, CloseAllBody, CloseRecv, Environment, UserSends,
       UserCloses, UserReceives, ServerSends, ServerCloses, vars, sendVars
  <2> QED
    BY <2>1, <2>2, <2>3
<1>2. ASSUME Calm', closeOnce' # "idle" \/ rl' \in {"close", "done"} \/ wl' = "done"
      PROVE  Drained'
  <2>1. Calm
    BY <1>2, InboundStep
  <2>2. CASE closeOnce # "idle" \/ rl \in {"close", "done"} \/ wl = "done"
    BY <2>1, <2>2, DrainedStays DEF Orderly
  <2>3. CASE closeOnce = "idle" /\ rl \notin {"close", "done"} /\ wl # "done"
    <3>1. conn # "closed"
      BY <2>3 DEF Phases
    <3>2. \A i \in DOMAIN inbound : inbound[i].kind # "oversize"
      BY <2>1 DEF Calm, Orderly
    <3>3. inbound # <<>> => Head(inbound).kind # "oversize"
      BY <3>2 DEF ClientTypeOK
    <3>4. ~ReaderFails
      BY <2>1, <3>1, <3>3 DEF ReaderFails, Calm
    <3>5. CASE WriterCloses
      BY <3>5, DrainedStays DEF WriterCloses, Orderly
    <3>6. CASE ~WriterCloses
      BY <1>2, <2>3, <3>4, <3>6 DEF Next, ReadLoop, ReaderChecks, ReaderDecodes,
         ReaderDelivers, ReaderGivesUp, ReaderCloses, WriteLoop, WriterTakes, SendSucceeds,
         SendFails, WriterStops, SendEnds, CloseAllBody, CloseRecv, Environment, UserSends,
         UserCloses, UserReceives, ServerSends, ServerCloses, vars, sendVars, readVars, Closed
    <3> QED
      BY <3>5, <3>6
  <2> QED
    BY <2>2, <2>3
<1> QED
  BY <1>1, <1>2, InboundStep DEF Orderly

-----------------------------------------------------------------------------
(* The way in                                                              *)

\* The first message that is left is the first in inbound: it is the next one,
\* and the others are left.
LEMMA NextDecoded ==
  ASSUME NEW m \in Seq(Frames), NEW q \in Seq(Frames), NEW k \in Nat, NEW z \in Nat,
         InOrder(m, z), InOrder(q, z), k <= Len(m), q # <<>>,
         Head(q).kind = "message", Rest(m, k) = MessagesIn(q)
  PROVE  k + 1 <= Len(m) /\ m[k + 1] = Head(q) /\ Rest(m, k + 1) = MessagesIn(Tail(q))
<1>0. /\ Len(m) \in Nat /\ DOMAIN m = 1..Len(m)
      /\ \A i \in DOMAIN m : m[i] \in Frames /\ m[i].n \in Nat
      /\ Len(q) \in Nat /\ DOMAIN q = 1..Len(q)
      /\ \A i \in DOMAIN q : q[i] \in Frames /\ q[i].n \in Nat
  BY FrameNumbers
<1>1. /\ Head(q) = q[1] /\ 1 \in DOMAIN q
      /\ \A i \in DOMAIN Tail(q) : /\ i \in Nat /\ i > 0 /\ i + 1 \in DOMAIN q
                                   /\ Tail(q)[i] = q[i + 1]
      /\ \A i \in DOMAIN q : i = 1 \/ (i - 1 \in DOMAIN Tail(q) /\ Tail(q)[i - 1] = q[i])
  OBVIOUS
<1>2. \A j \in DOMAIN q : q[j] = Head(q) \/ Head(q).n < q[j].n
  <2>1. \A j \in DOMAIN q : j = 1 \/ 1 < j
    BY <1>0
  <2> QED
    BY <1>1, <2>1 DEF InOrder
<1>3. PICK i \in k + 1 .. Len(m) : m[i] = Head(q)
  <2>1. Head(q) \in MessagesIn(q)
    BY <1>1 DEF MessagesIn
  <2> QED
    BY <2>1 DEF Rest
<1>4. k + 1 <= Len(m) /\ k + 1 \in DOMAIN m /\ i \in DOMAIN m /\ k + 1 <= i /\ i \in Nat
  BY <1>0, <1>3
<1>5. i = k + 1
  <2>1. SUFFICES ASSUME k + 1 < i
                 PROVE  FALSE
    BY <1>4
  <2>2. m[k + 1].n < Head(q).n
    BY <1>3, <1>4, <2>1 DEF InOrder
  <2>3. m[k + 1] \in Rest(m, k)
    BY <1>0, <1>4 DEF Rest
  <2>4. PICK j \in DOMAIN q : m[k + 1] = q[j]
    BY <2>3 DEF MessagesIn
  <2>5. Head(q).n \in Nat /\ m[k + 1].n \in Nat
    BY <1>0, <1>1, <1>4
  <2> QED
    BY <1>2, <2>2, <2>4, <2>5
<1>6. ASSUME NEW x, x \in Rest(m, k + 1)
      PROVE  x \in MessagesIn(Tail(q))
  <2>1. PICK a \in k + 1 + 1 .. Len(m) : x = m[a]
    BY <1>6 DEF Rest
  <2>2. a \in DOMAIN m /\ k + 1 < a /\ a \in k + 1 .. Len(m)
    BY <1>0, <2>1
  <2>3. Head(q).n < x.n
    BY <1>3, <1>4, <1>5, <2>1, <2>2 DEF InOrder
  <2>4. x \in MessagesIn(q)
    BY <2>1, <2>2 DEF Rest
  <2>5. PICK j \in DOMAIN q : x = q[j] /\ q[j].kind = "message"
    BY <2>4 DEF MessagesIn
  <2>6. j # 1
    <3>1. q[j].n \in Nat
      BY <1>0
    <3> QED
      BY <1>1, <2>3, <2>5, <3>1
  <2>7. j - 1 \in DOMAIN Tail(q) /\ Tail(q)[j - 1] = x
    BY <1>1, <2>5, <2>6
  <2>8. PICK b : b \in DOMAIN Tail(q) /\ Tail(q)[b] = x
    BY <2>7
  <2> QED
    BY <2>5, <2>8 DEF MessagesIn
<1>7. ASSUME NEW x, x \in MessagesIn(Tail(q))
      PROVE  x \in Rest(m, k + 1)
  <2>1. PICK j \in DOMAIN Tail(q) : x = Tail(q)[j] /\ x.kind = "message"
    BY <1>7 DEF MessagesIn
  <2>2. PICK b \in DOMAIN q : b = j + 1 /\ x = q[b] /\ 1 < b
    BY <1>1, <2>1
  <2>3. Head(q).n < x.n /\ Head(q).n \in Nat
    BY <1>0, <1>1, <2>2 DEF InOrder
  <2>4. x \in Rest(m, k)
    BY <2>1, <2>2 DEF MessagesIn
  <2>5. PICK a \in k + 1 .. Len(m) : x = m[a]
    BY <2>4 DEF Rest
  <2>6. a # k + 1
    BY <1>3, <1>5, <2>3, <2>5
  <2>7. a \in k + 1 + 1 .. Len(m)
    BY <1>0, <2>5, <2>6
  <2> QED
    BY <2>5, <2>7 DEF Rest
<1>8. Rest(m, k + 1) = MessagesIn(Tail(q))
  BY <1>6, <1>7
<1> QED
  BY <1>3, <1>4, <1>5, <1>8

\* Frames that are no messages leave the messages as they are, and a message
\* that the server sends is one more to decode.
LEMMA OthersDecoded ==
  ASSUME NEW q \in Seq(Frames), NEW f \in Frames
  PROVE  /\ q # <<>> /\ Head(q).kind # "message" => MessagesIn(Tail(q)) = MessagesIn(q)
         /\ MessagesIn(Append(q, f)) =
              IF f.kind = "message" THEN MessagesIn(q) \cup {f} ELSE MessagesIn(q)
<1>1. ASSUME q # <<>>, Head(q).kind # "message"
      PROVE  MessagesIn(Tail(q)) = MessagesIn(q)
  <2>1. /\ Head(q) = q[1]
        /\ \A i \in DOMAIN Tail(q) : i + 1 \in DOMAIN q /\ Tail(q)[i] = q[i + 1]
        /\ \A i \in DOMAIN q : i = 1 \/ (i - 1 \in DOMAIN Tail(q) /\ Tail(q)[i - 1] = q[i])
    BY <1>1
  <2>2. ASSUME NEW x, x \in MessagesIn(q)
        PROVE  x \in MessagesIn(Tail(q))
    <3>1. PICK i \in DOMAIN q : x = q[i] /\ x.kind = "message"
      BY <2>2 DEF MessagesIn
    <3>2. PICK j : j \in DOMAIN Tail(q) /\ Tail(q)[j] = x
      BY <1>1, <2>1, <3>1
    <3> QED
      BY <3>1, <3>2 DEF MessagesIn
  <2>3. ASSUME NEW x, x \in MessagesIn(Tail(q))
        PROVE  x \in MessagesIn(q)
    <3>1. PICK i \in DOMAIN Tail(q) : x = Tail(q)[i] /\ x.kind = "message"
      BY <2>3 DEF MessagesIn
    <3>2. PICK j : j \in DOMAIN q /\ q[j] = x
      BY <2>1, <3>1
    <3> QED
      BY <3>1, <3>2 DEF MessagesIn
  <2> QED
    BY <2>2, <2>3
<1>2. MessagesIn(Append(q, f)) =
        IF f.kind = "message" THEN MessagesIn(q) \cup {f} ELSE MessagesIn(q)
  <2>1. /\ \A i \in DOMAIN Append(q, f) : \/ i \in DOMAIN q /\ Append(q, f)[i] = q[i]
                                          \/ Append(q, f)[i] = f
        /\ \A i \in DOMAIN q : i \in DOMAIN Append(q, f) /\ Append(q, f)[i] = q[i]
        /\ \E i \in DOMAIN Append(q, f) : Append(q, f)[i] = f
    <3>1. Len(q) + 1 \in DOMAIN Append(q, f) /\ Append(q, f)[Len(q) + 1] = f
      OBVIOUS
    <3> QED
      BY <3>1
  <2>2. \A x : x \in MessagesIn(Append(q, f)) <=>
                 x \in MessagesIn(q) \/ (x = f /\ f.kind = "message")
    BY <2>1 DEF MessagesIn
  <2> QED
    BY <2>2
<1> QED
  BY <1>1, <1>2

\* A message that is sent is one more that is left.
LEMMA RestOfMore ==
  ASSUME NEW m \in Seq(Frames), NEW f \in Frames, NEW k \in Nat, k <= Len(m)
  PROVE  Rest(Append(m, f), k) = Rest(m, k) \cup {f}
<1>1. /\ Len(Append(m, f)) = Len(m) + 1 /\ Len(m) \in Nat
      /\ \A i \in 1..Len(m) : Append(m, f)[i] = m[i]
      /\ Append(m, f)[Len(m) + 1] = f
  OBVIOUS
<1>2. \A i \in k + 1 .. Len(m) + 1 : i \in k + 1 .. Len(m) \/ i = Len(m) + 1
  BY <1>1
<1>3. \A i \in k + 1 .. Len(m) : i \in k + 1 .. Len(m) + 1 /\ i \in 1..Len(m)
  BY <1>1
<1>4. Len(m) + 1 \in k + 1 .. Len(m) + 1
  BY <1>1
<1> QED
  BY <1>1, <1>2, <1>3, <1>4 DEF Rest

\* A prefix that grows by the next element, and one of a sequence that grows.
LEMMA PrefixGrows ==
  ASSUME NEW s \in Seq(Frames), NEW t \in Seq(Frames), NEW f \in Frames, Prefix(s, t)
  PROVE  /\ Len(s) + 1 <= Len(t) /\ t[Len(s) + 1] = f => Prefix(s \o <<f>>, t)
         /\ Prefix(s, Append(t, f))
<1>0. /\ Len(s) \in Nat /\ Len(t) \in Nat /\ Len(s) <= Len(t)
      /\ DOMAIN s = 1..Len(s) /\ DOMAIN t = 1..Len(t)
      /\ \A i \in DOMAIN s : s[i] = t[i]
  BY DEF Prefix
<1>1. ASSUME Len(s) + 1 <= Len(t), t[Len(s) + 1] = f
      PROVE  Prefix(s \o <<f>>, t)
  <2>1. /\ Len(s \o <<f>>) = Len(s) + 1 /\ DOMAIN (s \o <<f>>) = 1..Len(s) + 1
        /\ \A i \in DOMAIN s : (s \o <<f>>)[i] = s[i]
        /\ (s \o <<f>>)[Len(s) + 1] = f
    OBVIOUS
  <2>2. \A i \in 1..Len(s) + 1 : i \in DOMAIN s \/ i = Len(s) + 1
    BY <1>0
  <2> QED
    BY <1>0, <1>1, <2>1, <2>2 DEF Prefix
<1>2. Prefix(s, Append(t, f))
  <2>1. Len(Append(t, f)) = Len(t) + 1 /\ \A i \in DOMAIN t : Append(t, f)[i] = t[i]
    OBVIOUS
  <2>2. \A i \in DOMAIN s : i \in DOMAIN t
    BY <1>0
  <2> QED
    BY <1>0, <2>1, <2>2 DEF Prefix
<1> QED
  BY <1>1, <1>2

LEMMA IncomingStep ==
  ASSUME ClientTypeOK, ClientTypeOK', Phases, Incoming, [Next]_vars
  PROVE  Incoming'
<1>0. /\ held \in Seq(Frames) /\ recv \in Seq(Frames) /\ received \in Seq(Frames)
      /\ frames \in Seq(Frames) /\ messages \in Seq(Frames) /\ inbound \in Seq(Frames)
      /\ Len(frames) \in Nat
  BY DEF ClientTypeOK
<1>1. /\ received \o recv \in Seq(Frames) /\ Decoded \in Seq(Frames) /\ Len(Decoded) \in Nat
      /\ received \o recv \o <<>> = received \o recv
  BY <1>0, ConcatProperties, PassedOn DEF Decoded
<1>2. CASE ReaderDecodes
  <2>1. /\ rl = "decode" /\ inbound # <<>> /\ inbound' = Tail(inbound)
        /\ UNCHANGED <<frames, messages, recv, received>>
        /\ Running /\ held = <<>>
    BY <1>2 DEF ReaderDecodes, Running, Phases, userVars
  <2>2. Head(inbound) \in Frames /\ Decoded = received \o recv
    BY <1>0, <1>1, <2>1, HeadTailProperties DEF Decoded
  <2>3. InOrder(inbound', Len(frames'))
    BY <1>0, <2>1, OrderKept DEF Incoming
  <2>4. CASE Head(inbound).kind = "message"
    <3>1. Decoded' = Decoded \o <<Head(inbound)>>
      BY <1>2, <2>1, <2>2, <2>4 DEF ReaderDecodes, Decoded
    <3>2. PICK k \in Nat : k = Len(Decoded)
      BY <1>1
    <3>3. /\ k <= Len(messages) /\ Rest(messages, k) = MessagesIn(inbound)
      BY <2>1, <3>2 DEF Incoming, Prefix
    <3>4. /\ k + 1 <= Len(messages) /\ messages[k + 1] = Head(inbound)
          /\ Rest(messages, k + 1) = MessagesIn(Tail(inbound))
      BY <1>0, <2>1, <2>4, <3>3, NextDecoded DEF Incoming
    <3>5. Prefix(Decoded', messages')
      <4>1. Prefix(Decoded \o <<Head(inbound)>>, messages)
        BY <1>0, <1>1, <2>2, <3>2, <3>4, PrefixGrows DEF Incoming
      <4> QED
        BY <2>1, <3>1, <4>1
    <3>6. Len(Decoded') = k + 1
      BY <1>1, <2>2, <3>1, <3>2
    <3> QED
      BY <2>1, <2>3, <3>4, <3>5, <3>6 DEF Incoming
  <2>5. CASE Head(inbound).kind # "message"
    <3>1. Decoded' = Decoded
      BY <1>2, <2>1, <2>5 DEF ReaderDecodes, Decoded
    <3>2. MessagesIn(inbound') = MessagesIn(inbound)
      BY <1>0, <2>1, <2>2, <2>5, OthersDecoded
    <3>3. Rest(messages', Len(Decoded')) = MessagesIn(inbound')
      BY <2>1, <3>1, <3>2 DEF Incoming
    <3> QED
      BY <2>1, <2>3, <3>1, <3>3 DEF Incoming
  <2> QED
    BY <2>4, <2>5
<1>3. CASE ServerSends
  <2>1. PICK f : /\ f.n = Len(frames) + 1 /\ f \in Frames
                 /\ frames' = Append(frames, f) /\ inbound' = Append(inbound, f)
                 /\ messages' = IF f.kind = "message" THEN Append(messages, f) ELSE messages
    <3> DEFINE g(k) == [n |-> Len(frames) + 1, kind |-> k]
    <3>1. PICK k \in {"message", "garbage", "oversize"} :
            /\ frames' = Append(frames, g(k)) /\ inbound' = Append(inbound, g(k))
            /\ messages' = IF k = "message" THEN Append(messages, g(k)) ELSE messages
      BY <1>3 DEF ServerSends
    <3>2. Len(frames) + 1 \in Nat \ {0}
      BY <1>0
    <3>3. g(k) \in Frames /\ g(k).n = Len(frames) + 1 /\ g(k).kind = k
      BY <3>1, <3>2 DEF Frames
    <3> HIDE DEF g
    <3> QED
      BY <3>1, <3>3
  <2>2. UNCHANGED <<rl, held, recv, received>> /\ Decoded' = Decoded
    BY <1>3 DEF ServerSends, readVars, userVars, Decoded
  <2>3. PICK z \in Nat : z = Len(frames) /\ z + 1 = Len(frames')
    BY <1>0, <2>1
  <2>4. InOrder(messages', z + 1) /\ InOrder(inbound', z + 1)
    <3>1. InOrder(messages, z) /\ InOrder(inbound, z)
      BY <2>3 DEF Incoming
    <3>2. InOrder(messages, z + 1) /\ InOrder(Append(messages, f), z + 1)
      BY <1>0, <2>1, <2>3, <3>1, OrderKept
    <3>3. InOrder(Append(inbound, f), z + 1)
      BY <1>0, <2>1, <2>3, <3>1, OrderKept
    <3> QED
      BY <2>1, <3>2, <3>3
  <2>5. Prefix(Decoded', messages')
    BY <1>0, <1>1, <2>1, <2>2, PrefixGrows DEF Incoming
  <2>6. ASSUME Running
        PROVE  Rest(messages', Len(Decoded')) = MessagesIn(inbound')
    <3>1. PICK k \in Nat : k = Len(Decoded) /\ k <= Len(messages)
      BY <1>1 DEF Incoming, Prefix
    <3>2. Rest(messages, k) = MessagesIn(inbound)
      BY <2>6, <3>1 DEF Incoming
    <3>3. MessagesIn(Append(inbound, f)) = IF f.kind = "message" THEN MessagesIn(inbound) \cup {f}
                                           ELSE MessagesIn(inbound)
      BY <1>0, <2>1, OthersDecoded
    <3>4. Rest(Append(messages, f), k) = Rest(messages, k) \cup {f}
      BY <1>0, <2>1, <3>1, RestOfMore
    <3>5. Rest(messages', k) = MessagesIn(inbound')
      BY <2>1, <3>2, <3>3, <3>4
    <3> QED
      BY <2>2, <3>1, <3>5
  <2> QED
    BY <2>2, <2>3, <2>4, <2>5, <2>6 DEF Incoming, Running
<1>4. CASE ReaderGivesUp
  <2>1. /\ UNCHANGED <<frames, messages, inbound, recv, received>>
        /\ rl' = "close" /\ held' = <<>>
    BY <1>4 DEF ReaderGivesUp, netVars, userVars
  <2>2. Decoded' = received \o recv
    BY <1>1, <2>1 DEF Decoded
  <2>3. Prefix(received \o recv, messages)
    BY <1>0, <1>1, PrefixOfJoin DEF Incoming, Decoded
  <2> QED
    BY <2>1, <2>2, <2>3 DEF Incoming, Running
<1>5. CASE /\ UNCHANGED <<frames, messages, inbound>> /\ Decoded' = Decoded
           /\ Running' => Running
  BY <1>5 DEF Incoming
<1>6. CASE ReaderDelivers
  <2>1. Decoded' = Decoded
    <3>1. received' = received /\ recv' = recv \o held /\ held' = <<>>
      BY <1>6 DEF ReaderDelivers, userVars
    <3>2. received \o (recv \o held) \o <<>> = received \o recv \o held
      <4>1. received \in Seq(Frames) /\ recv \in Seq(Frames) /\ held \in Seq(Frames)
        BY <1>0
      <4> QED
        BY <4>1, PassedOn, SMT
    <3> QED
      BY <3>1, <3>2, Zenon DEF Decoded
  <2> QED
    BY <1>5, <1>6, <2>1 DEF ReaderDelivers, Running, netVars
<1>7. CASE UserReceives
  <2>1. Decoded' = Decoded
    <3>1. /\ recv # <<>> /\ received' = Append(received, Head(recv)) /\ recv' = Tail(recv)
          /\ held' = held
      BY <1>7 DEF UserReceives
    <3>2. Append(received, Head(recv)) \o Tail(recv) \o held = received \o recv \o held
      <4>1. received \in Seq(Frames) /\ recv \in Seq(Frames) /\ held \in Seq(Frames)
        BY <1>0
      <4> QED
        BY <3>1, <4>1, PassedOn, Zenon
    <3> QED
      BY <3>1, <3>2, Zenon DEF Decoded
  <2> QED
    BY <1>5, <1>7, <2>1 DEF UserReceives, Running, netVars
<1>8. CASE /\ ~ReaderDecodes /\ ~ServerSends /\ ~ReaderGivesUp /\ ~ReaderDelivers
           /\ ~UserReceives
  <2>1. /\ UNCHANGED <<frames, messages, inbound, held, recv, received>>
        /\ Running' => Running
    BY <1>8 DEF Next, ReadLoop, ReaderChecks, ReaderFails, ReaderCloses, WriteLoop,
       WriterTakes, SendSucceeds, SendFails, WriterStops, SendEnds, WriterCloses,
       CloseAllBody, CloseRecv, Environment, UserSends, UserCloses, ServerCloses, vars,
       netVars, readVars, userVars, Running
  <2> QED
    BY <1>5, <2>1 DEF Decoded
<1> QED
  BY <1>2, <1>3, <1>4, <1>6, <1>7, <1>8

-----------------------------------------------------------------------------
(* The theorems                                                            *)

\* The invariant of the run loop.
THEOREM ClientInductive == Spec => []ClientInv
<1>1. Init => ClientInv
  <2> SUFFICES ASSUME Init
               PROVE  ClientInv
    OBVIOUS
  <2>1. ClientTypeOK
    <3>1. /\ frames \in Seq(Frames) /\ messages \in Seq(Frames) /\ inbound \in Seq(Frames)
          /\ held \in Seq(Frames) /\ recv \in Seq(Frames) /\ received \in Seq(Frames)
      BY NoElements DEF Init
    <3>2. \A s \in {sending, send, sent, written, reported} : s \in Seq(Nat)
      BY NoElements DEF Init
    <3>3. Len(recv) <= ReadBufSize /\ Len(send) <= SendBufSize
      BY NoElements, ReadBufAssumption, SendBufAssumption DEF Init
    <3> QED
      BY <3>1, <3>2, <3>3 DEF Init, ClientTypeOK
  <2>2. Phases
    BY NoElements DEF Init, Phases
  <2>3. Incoming
    <3>1. Decoded = <<>>
      BY NoElements, ConcatEmptySeq DEF Init, Decoded
    <3>2. Rest(<<>>, 0) = {} /\ MessagesIn(<<>>) = {}
      BY NoElements DEF Rest, MessagesIn
    <3> QED
      BY <3>1, <3>2, NoElements DEF Init, Incoming, InOrder, Prefix
  <2>4. Outgoing
    BY NoElements DEF Init, Outgoing
  <2>5. Orderly
    BY DEF Init, Orderly
  <2> QED
    BY <2>1, <2>2, <2>3, <2>4, <2>5 DEF ClientInv
<1>2. ClientInv /\ [Next]_vars => ClientInv'
  BY TypeStep, PhasesStep, IncomingStep, OutgoingStep, OrderlyStep DEF ClientInv
<1> QED
  BY <1>1, <1>2, PTL DEF Spec

\* The channels hold no more than their capacity.
THEOREM ClientTypes == Spec => []ClientTypeOK
<1>1. ClientInv => ClientTypeOK
  BY DEF ClientInv
<1> QED
  BY <1>1, ClientInductive, PTL

\* While readLoop runs, no message of the server is lost, duplicated or
\* reordered.
THEOREM ReadLoopLosesNothing == Spec => []ClientNoLoss
<1>1. ClientInv => ClientNoLoss
  <2> SUFFICES ASSUME ClientInv, Running
               PROVE  /\ Decoded = SubSeq(messages, 1, Len(Decoded))
                      /\ Rest(messages, Len(Decoded)) = MessagesIn(inbound)
    BY DEF ClientNoLoss, Running, Rest
  <2>1. Decoded \in Seq(Frames) /\ messages \in Seq(Frames)
    BY ConcatProperties DEF ClientInv, ClientTypeOK, Decoded
  <2> QED
    BY <2>1, PrefixIsSubSeq DEF ClientInv, Incoming
<1> QED
  BY <1>1, ClientInductive, PTL

\* recv is closed when nobody can use it or the connection any more.
THEOREM RecvClosedLast == Spec => []ClosedLast
<1>1. ClientInv => ClosedLast
  BY DEF ClientInv, Phases, ClosedLast
<1> QED
  BY <1>1, ClientInductive, PTL

\* An orderly end leaves no message unaccounted for.
THEOREM EverySendAccounted == Spec => []SendAccounted
<1>1. ClientInv => SendAccounted
  <2> SUFFICES ASSUME ClientInv, recvClosed, Calm
               PROVE  /\ Len(written) + Len(reported) = Len(sent)
                      /\ ToSet(written) \cup ToSet(reported) = ToSet(sent)
    BY DEF SendAccounted, Calm
  <2>1. send = <<>> /\ sending = <<>>
    BY DEF ClientInv, Phases, Orderly, Drained
  <2>2. Len(send) = 0 /\ Len(sending) = 0 /\ ToSet(send) = {} /\ ToSet(sending) = {}
    BY <2>1, NoElements
  <2>3. Len(written) \in Nat /\ Len(reported) \in Nat
    BY DEF ClientInv, ClientTypeOK
  <2>4. Len(written) + Len(reported) + Len(sending) + Len(send) = Len(sent)
    BY DEF ClientInv, Outgoing
  <2>5. Len(written) + Len(reported) = Len(sent)
    BY <2>2, <2>3, <2>4
  <2>6. ToSet(written) \cup ToSet(reported) = ToSet(sent)
    BY <2>2 DEF ClientInv, Outgoing
  <2> QED
    BY <2>5, <2>6
<1> QED
  BY <1>1, ClientInductive, PTL

-----------------------------------------------------------------------------
(* The library implements Channel                                          *)

\* The message received last is where its number says: Last is the number of
\* messages received, and the first in recv is the next.
LEMMA LastReceived ==
  ASSUME ClientInv, recv # <<>>
  PROVE  /\ Hop!Last = Len(received)
         /\ Len(received) + 1 <= Len(messages) /\ Head(recv) = messages[Len(received) + 1]
<1>0. /\ received \in Seq(Frames) /\ recv \in Seq(Frames) /\ held \in Seq(Frames)
      /\ messages \in Seq(Frames)
      /\ InOrder(messages, Len(frames)) /\ Prefix(Decoded, messages)
  BY DEF ClientInv, ClientTypeOK, Incoming
<1>1. Prefix(received \o recv, messages)
  BY <1>0, ConcatProperties, PrefixOfJoin DEF Decoded
<1>2. Prefix(received, messages)
  BY <1>0, <1>1, PrefixOfJoin
<1>3. /\ Len(received) \in Nat /\ Len(recv) \in Nat /\ Len(recv) > 0 /\ Len(messages) \in Nat
      /\ DOMAIN messages = 1..Len(messages) /\ DOMAIN received = 1..Len(received)
      /\ Len(received \o recv) = Len(received) + Len(recv)
      /\ (received \o recv)[Len(received) + 1] = Head(recv)
      /\ Len(received) + 1 \in DOMAIN (received \o recv)
  BY <1>0
<1>4. Len(received) + 1 <= Len(messages) /\ Head(recv) = messages[Len(received) + 1]
  BY <1>1, <1>3 DEF Prefix
<1>5. Hop!Last = Len(received)
  <2>1. CASE received = <<>>
    BY <2>1, NoElements DEF Hop!Last
  <2>2. CASE received # <<>>
    <3>1. /\ Len(received) \in DOMAIN messages
          /\ messages[Len(received)] = received[Len(received)]
      BY <1>0, <1>2, <1>3, <2>2 DEF Prefix
    <3>2. ASSUME NEW i \in DOMAIN messages, messages[i] = messages[Len(received)]
          PROVE  i = Len(received)
      <4>1. messages[i].n \in Nat /\ i \in Nat
        BY <1>0, <1>3, FrameNumbers
      <4>2. ~(i < Len(received)) /\ ~(Len(received) < i)
        BY <1>0, <3>1, <3>2, <4>1 DEF InOrder
      <4> QED
        BY <1>3, <4>1, <4>2
    <3>3. Hop!Last = CHOOSE i \in DOMAIN messages : messages[i] = received[Len(received)]
      BY <2>2 DEF Hop!Last
    <3> QED
      BY <3>1, <3>2, <3>3
  <2> QED
    BY <2>1, <2>2
<1> QED
  BY <1>4, <1>5

\* From the server to the user the library is a channel that never goes down.
THEOREM ClientIsChannel == Spec => ClientImplementsChannel
<1>1. Init => Hop!Init
  BY DEF Init, Hop!Init
<1>2. ClientInv /\ [Next]_vars => [Hop!Next]_<<messages, received, TRUE>>
  <2> SUFFICES ASSUME ClientInv, [Next]_vars
               PROVE  [Hop!Next]_<<messages, received, TRUE>>
    OBVIOUS
  <2>0. messages \in Seq(Frames) /\ received \in Seq(Frames) /\ frames \in Seq(Frames)
    BY DEF ClientInv, ClientTypeOK
  <2>1. CASE UserReceives
    <3>1. /\ recv # <<>> /\ received' = Append(received, Head(recv)) /\ messages' = messages
      BY <2>1 DEF UserReceives, netVars
    <3>2. PICK l \in Nat : l = Len(received)
      BY <2>0
    <3>3. Hop!Last = l /\ l + 1 <= Len(messages) /\ Head(recv) = messages[l + 1]
      BY <3>1, <3>2, LastReceived
    <3>4. l + 1 \in Hop!Last + 1 .. Len(messages)
      BY <2>0, <3>3
    <3>5. Hop!Get
      BY <3>1, <3>3, <3>4 DEF Hop!Get
    <3> QED
      BY <3>5 DEF Hop!Next
  <2>2. CASE ServerSends
    <3>0. PICK k \in {"message", "garbage", "oversize"} :
            LET f == [n |-> Len(frames) + 1, kind |-> k]
            IN  messages' = IF k = "message" THEN Append(messages, f) ELSE messages
      BY <2>2 DEF ServerSends
    <3>1. PICK f :
            /\ f = [n |-> Len(frames) + 1, kind |-> k]
            /\ messages' = IF k = "message" THEN Append(messages, f) ELSE messages
      BY <3>0
    <3>2. received' = received
      BY <2>2 DEF ServerSends, userVars
    <3>3. CASE k = "message"
      <4>1. f.n = Len(frames) + 1 /\ f \in Frames
        <5>1. Len(frames) + 1 \in Nat \ {0}
          BY <2>0
        <5> QED
          BY <3>1, <5>1 DEF Frames
      <4>2. messages' = Append(messages, f)
        BY <3>1, <3>3
      <4>3. /\ Len(messages') = Len(messages) + 1
            /\ messages'[Len(messages')] = f
        BY <2>0, <4>1, <4>2, AppendProperties
      <4>4. SubSeq(messages', 1, Len(messages)) = messages
        <5>1. Prefix(messages, messages)
          BY <2>0 DEF Prefix
        <5>2. Prefix(messages, Append(messages, f))
          BY <2>0, <4>1, <5>1, PrefixGrows
        <5>3. Append(messages, f) \in Seq(Frames)
          BY <2>0, <4>1, AppendProperties
        <5> QED
          BY <2>0, <4>2, <5>2, <5>3, PrefixIsSubSeq
      <4>5. \A i \in DOMAIN messages : messages[i] # f
        <5>1. \A i \in DOMAIN messages : messages[i].n <= Len(frames)
          BY DEF ClientInv, Incoming, InOrder
        <5>2. Len(frames) \in Nat /\ \A i \in DOMAIN messages : messages[i].n \in Nat
          BY <2>0, FrameNumbers
        <5> QED
          BY <4>1, <5>1, <5>2
      <4>6. Hop!Put
        BY <3>2, <4>3, <4>4, <4>5 DEF Hop!Put
      <4> QED
        BY <4>6 DEF Hop!Next
    <3>4. CASE k # "message"
      BY <3>1, <3>2, <3>4
    <3> QED
      BY <3>3, <3>4
  <2>3. CASE ~UserReceives /\ ~ServerSends
    BY <2>3 DEF Next, ReadLoop, ReaderChecks, ReaderDecodes, ReaderFails, ReaderDelivers,
       ReaderGivesUp, ReaderCloses, WriteLoop, WriterTakes, SendSucceeds, SendFails,
       WriterStops, SendEnds, WriterCloses, CloseAllBody, CloseRecv, Environment, UserSends,
       UserCloses, ServerCloses, vars, netVars, userVars
  <2> QED
    BY <2>1, <2>2, <2>3
<1> QED
  BY <1>1, <1>2, ClientInductive, PTL
     DEF Spec, ClientImplementsChannel, Hop!Spec, Hop!channelVars

=============================================================================

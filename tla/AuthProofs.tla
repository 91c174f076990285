----------------------------- MODULE AuthProofs -----------------------------
(***************************************************************************)
(* Proofs about the handshake, for every set of connections, keys and      *)
(* buffers, every clock, TTL and tolerance below the width of a word, and  *)
(* any number of messages.                                                 *)
(***************************************************************************)
EXTENDS Auth, TLAPS

-----------------------------------------------------------------------------
(* The inductive invariant                                                 *)

Sigs == [key : Keys, data : [challenge : Nat, timestamp : Nat, pubKey : Keys,
                             binding : Conns]]
ClientMsgs == [type : {"hello"}, pubKey : Keys]
                \cup [type : {"response"}, signature : Sigs]
ServerMsgs == [type : {"challenge"}, challenge : Nat, timestamp : Nat]
                \cup [type : {"result"}] \cup [type : {"frame"}, n : Nat]
Records    == {<<m>> : m \in ServerMsgs}

ServerTypes ==
    /\ clock \in 0..MaxClock
    /\ mem \in [Bufs -> [pubKey : Keys \cup {None}, challenge : Nat,
                         signature : Sigs \cup {None}]]
    /\ held \in [Conns -> Bufs \cup {None}]
    /\ timestamp \in [Conns -> 0..MaxClock]
    /\ issued \in Nat
    /\ spc \in [Conns -> {"new", "hello", "challenge", "response", "verify", "time",
                          "result", "ok", "served", "failed"}]
    /\ id \in [Conns -> Keys \cup {None}]
    /\ frames \in [Conns -> Nat]
    /\ checked \in [Conns -> 0..MaxClock]

ClientTypes ==
    /\ lib \in [Conns -> BOOLEAN]
    /\ owner \in [Conns -> Keys]
    /\ toServer \in [Conns -> Seq(ClientMsgs)]
    /\ toClient \in [Conns -> Seq(Records)]
    /\ cpc \in [Conns -> {"hello", "challenge", "response", "result", "connected",
                          "failed"}]
    /\ reader \in [Conns -> Records \cup {<<>>}]
    /\ challenge \in [Conns -> [challenge : Nat, timestamp : Nat]]
    /\ made \subseteq Sigs
    /\ got \in [Conns -> Seq(ServerMsgs)]
    /\ fault \in [Conns -> BOOLEAN]
    /\ sent \in [Conns -> Nat]

\* The handler of a connection has a buffer from Start to Release, and shares
\* it with no other.
Busy == {"hello", "challenge", "response", "verify", "time", "result", "ok"}
Lent ==
    /\ \A c \in Conns : /\ spc[c] \in Busy => held[c] # None
                        /\ spc[c] = "new" => held[c] = None
    /\ \A c, d \in Conns : c # d /\ held[c] # None => held[c] # held[d]

\* A signature is by the key of the end of the connection it is bound to: no
\* end signs for a binding that is not its own.
Genuine(s, o) == s.key = o[s.data.binding]
Signed ==
    /\ \A s \in made : Genuine(s, owner)
    /\ \A c \in Conns : \A i \in DOMAIN toServer[c] :
          toServer[c][i].type = "response" => Genuine(toServer[c][i].signature, owner)
    /\ \A c \in Conns : spc[c] = "verify" =>
          /\ mem[held[c]].signature \in Sigs
          /\ Genuine(mem[held[c]].signature, owner)

\* Once the signature is verified the buffer has the key of the other end.
Known ==
    \A c \in Conns :
        /\ spc[c] \in {"time", "result", "ok"} => mem[held[c]].pubKey = owner[c]
        /\ id[c] \in {None, owner[c]}

\* The library and the router in step: what is on the wire, for each statement
\* the two are at.
HelloPhase(c) ==
    /\ toClient[c] = <<>> /\ reader[c] = <<>>
    /\ \/ toServer[c] = <<>> /\ cpc[c] \in {"hello", "failed"}
       \/ toServer[c] = <<ClientHello(owner[c])>> /\ cpc[c] \in {"challenge", "failed"}

ChallengePhase(c) ==
    /\ toClient[c] = <<>> /\ reader[c] = <<>> /\ toServer[c] = <<>>
    /\ cpc[c] \in {"challenge", "failed"}
    /\ mem[held[c]].pubKey = owner[c]

\* The challenge of the router, and the signature the library owes it.
Asked(c) == ServerChallenge(mem[held[c]].challenge, timestamp[c])
Answer(c) == Sign(owner[c], BuildSignedData(mem[held[c]].challenge, timestamp[c],
                                            owner[c], c))

ResponsePhase(c) ==
    /\ mem[held[c]].pubKey = owner[c]
    /\ \/ toServer[c] = <<>> /\ cpc[c] \in {"challenge", "response", "failed"}
       \/ toServer[c] = <<ClientResponse(Answer(c))>> /\ cpc[c] \in {"result", "failed"}
    /\ cpc[c] = "challenge" => \/ toClient[c] = <<<<Asked(c)>>>> /\ reader[c] = <<>>
                               \/ toClient[c] = <<>> /\ reader[c] = <<Asked(c)>>
    /\ cpc[c] = "response" =>
          /\ toClient[c] = <<>> /\ reader[c] = <<>>
          /\ challenge[c] = [challenge |-> mem[held[c]].challenge,
                             timestamp |-> timestamp[c]]
    /\ cpc[c] = "result" => toClient[c] = <<>> /\ reader[c] = <<>>

VerifyPhase(c) ==
    /\ cpc[c] \in {"result", "failed"}
    /\ cpc[c] = "result" => toClient[c] = <<>> /\ reader[c] = <<>>
    /\ spc[c] = "verify" => /\ mem[held[c]].pubKey = owner[c]
                            /\ mem[held[c]].signature = Answer(c)

\* s holds the frames from the one after a to the last, n.
FramesAfter(s, a, n) ==
    /\ Len(s) + a = n
    /\ \A i \in DOMAIN s : s[i] = <<ServerMessage(i + a)>>

ServedPhase(c) ==
    /\ cpc[c] \in {"result", "connected", "failed"}
    /\ cpc[c] = "result" =>
          \/ /\ reader[c] = <<>> /\ toClient[c] # <<>>
             /\ Head(toClient[c]) = <<AuthResult>>
             /\ FramesAfter(Tail(toClient[c]), 0, frames[c])
          \/ reader[c] = <<AuthResult>> /\ FramesAfter(toClient[c], 0, frames[c])
    /\ cpc[c] = "connected" =>
          /\ FramesAfter(toClient[c], Len(got[c]), frames[c])
          /\ \A i \in DOMAIN got[c] : got[c][i] = ServerMessage(i)

FailedPhase(c) ==
    /\ fault[c] /\ cpc[c] # "connected"
    /\ cpc[c] # "failed" =>
          /\ reader[c] # <<AuthResult>>
          /\ \A i \in DOMAIN toClient[c] : toClient[c][i] # <<AuthResult>>

Talk(c) ==
    /\ spc[c] \in {"new", "hello"} => HelloPhase(c)
    /\ spc[c] = "challenge" => ChallengePhase(c)
    /\ spc[c] = "response" => ResponsePhase(c)
    /\ spc[c] \in {"verify", "time", "result"} => VerifyPhase(c)
    /\ spc[c] \in {"ok", "served"} => ServedPhase(c)
    /\ spc[c] = "failed" => FailedPhase(c)
    /\ spc[c] # "served" => frames[c] = 0
    /\ cpc[c] # "connected" => got[c] = <<>>

InStep == \A c \in Conns : IF lib[c] THEN Talk(c) ELSE cpc[c] = "hello"

\* The first half of AgeBounded.
FreshWhenChecked ==
    \A c \in Conns : spc[c] \in {"result", "ok", "served"} =>
        checked[c] - timestamp[c] \in 0..TTL

AuthInv == /\ ServerTypes /\ ClientTypes /\ Lent /\ Signed /\ Known /\ InStep
           /\ FreshWhenChecked

-----------------------------------------------------------------------------
(* Types                                                                   *)

\* The messages of the two sides.
LEMMA MessageTypes ==
  /\ \A k \in Keys : ClientHello(k) \in ClientMsgs
  /\ \A s \in Sigs : ClientResponse(s) \in ClientMsgs
  /\ \A n, t \in Nat : <<ServerChallenge(n, t)>> \in Records
  /\ <<AuthResult>> \in Records
  /\ \A n \in Nat : <<ServerMessage(n)>> \in Records
BY DEF ClientHello, ClientResponse, ServerChallenge, AuthResult, ServerMessage,
   ClientMsgs, ServerMsgs, Records

\* What a client sends can be told by its type.
LEMMA ClientMsgKinds ==
  ASSUME NEW m \in ClientMsgs
  PROVE  /\ m.type = "hello" => m.pubKey \in Keys
         /\ m.type = "response" => m.signature \in Sigs
BY DEF ClientMsgs

\* A signature by key k over the data of a challenge.
LEMMA SignTypes ==
  ASSUME NEW k \in Keys, NEW l \in Keys, NEW n \in Nat, NEW t \in Nat, NEW c \in Conns
  PROVE  /\ Sign(k, BuildSignedData(n, t, l, c)) \in Sigs
         /\ Sign(k, BuildSignedData(n, t, l, c)).key = k
         /\ Sign(k, BuildSignedData(n, t, l, c)).data.binding = c
         /\ Sign(k, BuildSignedData(n, t, l, c)).data.pubKey = l
BY DEF Sign, BuildSignedData, Sigs

\* Time is a natural number.
LEMMA TimeTypes ==
  \A t \in 0..MaxClock : t \in Nat
BY TimeAssumption

\* Every step keeps the types of the router's variables.
LEMMA ServerTypesStep ==
  ASSUME ServerTypes, ClientTypes, Lent, [Next]_vars
  PROVE  ServerTypes'
<1>1. ASSUME NEW c \in Conns, Start(c)
      PROVE  ServerTypes'
  BY <1>1 DEF Start, Go, ServerTypes
<1>2. ASSUME NEW c \in Conns, ReadHello(c)
      PROVE  ServerTypes'
  <2>1. held[c] \in Bufs
    BY <1>2 DEF ReadHello, Lent, Busy, ServerTypes
  <2>2. Head(toServer[c]) \in ClientMsgs
    BY <1>2 DEF ReadHello, ClientTypes
  <2>3. mem' \in [Bufs -> [pubKey : Keys \cup {None}, challenge : Nat,
                           signature : Sigs \cup {None}]]
    <3>1. CASE Head(toServer[c]).type = "hello"
      <4>1. PICK x \in Keys : Head(toServer[c]).pubKey = x
        BY <2>2, <3>1, ClientMsgKinds
      <4>2. mem' = [mem EXCEPT ![held[c]].pubKey = x]
        BY <1>2, <3>1, <4>1 DEF ReadHello
      <4> QED
        BY <2>1, <4>2 DEF ServerTypes
    <3>2. CASE Head(toServer[c]).type # "hello"
      BY <1>2, <3>2 DEF ReadHello, ServerTypes
    <3> QED
      BY <3>1, <3>2
  <2> QED
    BY <1>2, <2>3 DEF ReadHello, Go, ServerTypes
<1>3. ASSUME NEW c \in Conns, SendChallenge(c)
      PROVE  ServerTypes'
  <2>1. held[c] \in Bufs
    BY <1>3 DEF SendChallenge, Lent, Busy, ServerTypes
  <2> QED
    BY <1>3, <2>1 DEF SendChallenge, Go, ServerTypes
<1>4. ASSUME NEW c \in Conns, ReadResponse(c)
      PROVE  ServerTypes'
  <2>1. held[c] \in Bufs
    BY <1>4 DEF ReadResponse, Lent, Busy, ServerTypes
  <2>2. Head(toServer[c]) \in ClientMsgs
    BY <1>4 DEF ReadResponse, ClientTypes
  <2>3. mem' \in [Bufs -> [pubKey : Keys \cup {None}, challenge : Nat,
                           signature : Sigs \cup {None}]]
    <3>1. CASE Head(toServer[c]).type = "response"
      <4>1. PICK x \in Sigs : Head(toServer[c]).signature = x
        BY <2>2, <3>1, ClientMsgKinds
      <4>2. mem' = [mem EXCEPT ![held[c]].signature = x]
        BY <1>4, <3>1, <4>1 DEF ReadResponse
      <4> QED
        BY <2>1, <4>2 DEF ServerTypes
    <3>2. CASE Head(toServer[c]).type # "response"
      BY <1>4, <3>2 DEF ReadResponse, ServerTypes
    <3> QED
      BY <3>1, <3>2
  <2> QED
    BY <1>4, <2>3 DEF ReadResponse, Go, ServerTypes
<1>5. ASSUME NEW c \in Conns, Verify(c) \/ CheckTime(c) \/ SendResult(c)
      PROVE  ServerTypes'
  BY <1>5 DEF Verify, CheckTime, SendResult, Go, ServerTypes
<1>6. ASSUME NEW c \in Conns, CopyID(c)
      PROVE  ServerTypes'
  <2>1. held[c] \in Bufs
    BY <1>6 DEF CopyID, Lent, Busy, ServerTypes
  <2> QED
    BY <1>6, <2>1 DEF CopyID, Go, ServerTypes
<1>7. ASSUME NEW c \in Conns, Fails(c)
      PROVE  ServerTypes'
  <2>1. held[c] \in Bufs
    BY <1>7 DEF Fails, Lent, Busy, ServerTypes
  <2> QED
    BY <1>7, <2>1 DEF Fails, Go, ServerTypes
<1>8. ASSUME NEW c \in Conns, WriteFrame(c) \/ Release(c)
      PROVE  ServerTypes'
  BY <1>8 DEF WriteFrame, Release, ServerTypes
<1>9. ASSUME NEW c \in Conns, Library(c) \/ ClientTimeout(c) \/ OtherSends(c)
      PROVE  ServerTypes'
  BY <1>9 DEF Library, SendHello, Fill, DecodeChallenge, SendResponse, DecodeResult,
     ReadFrame, ClientEOF, ClientTimeout, OtherSends, serverVars, ServerTypes
<1>10. ASSUME SetClock
       PROVE  ServerTypes'
  BY <1>10 DEF SetClock, serverVars, ServerTypes
<1>11. CASE UNCHANGED vars
  BY <1>11 DEF vars, ServerTypes
<1> QED
  BY <1>1, <1>2, <1>3, <1>4, <1>5, <1>6, <1>7, <1>8, <1>9, <1>10, <1>11
     DEF Next, Server

\* A program signs with its own key and its own binding, or has a signature
\* that was made before.
LEMMA SignaturesTypes ==
  ASSUME ServerTypes, ClientTypes, NEW c \in Conns, NEW s \in Signatures(c)
  PROVE  s \in Sigs /\ (s \in made \/ (s.key = owner[c] /\ s.data.binding = c))
<1>1. CASE s \in made
  BY <1>1 DEF ClientTypes
<1>2. CASE s \notin made
  <2>1. PICK j \in DOMAIN toClient[c], k \in Keys :
          /\ Head(toClient[c][j]).type = "challenge"
          /\ s = Sign(owner[c], BuildSignedData(Head(toClient[c][j]).challenge,
                                    Head(toClient[c][j]).timestamp, k, c))
    BY <1>2 DEF Signatures
  <2>2. toClient[c][j] \in Records
    BY DEF ClientTypes
  <2>3. PICK m \in ServerMsgs : toClient[c][j] = <<m>>
    BY <2>2 DEF Records
  <2>4. m.type = "challenge"
    BY <2>1, <2>3
  <2>5. m.challenge \in Nat /\ m.timestamp \in Nat
    BY <2>4 DEF ServerMsgs
  <2>6. s = Sign(owner[c], BuildSignedData(m.challenge, m.timestamp, k, c))
    BY <2>1, <2>3
  <2>7. owner[c] \in Keys
    BY DEF ClientTypes
  <2> QED
    BY <2>5, <2>6, <2>7, SignTypes
<1> QED
  BY <1>1, <1>2

\* Every step keeps the types of the wire and the clients.
LEMMA ClientTypesStep ==
  ASSUME ServerTypes, ClientTypes, [Next]_vars
  PROVE  ClientTypes'
<1> USE DEF given, serverVars, clientVars
<1>1. ASSUME NEW c \in Conns, Start(c) \/ Verify(c) \/ CheckTime(c) \/ CopyID(c)
                              \/ Fails(c) \/ Release(c)
      PROVE  ClientTypes'
  BY <1>1 DEF Start, Verify, CheckTime, CopyID, Fails, Release, ClientTypes
<1>2. ASSUME NEW c \in Conns, ReadHello(c) \/ ReadResponse(c)
      PROVE  ClientTypes'
  <2>1. /\ toServer[c] # <<>> /\ toServer' = [toServer EXCEPT ![c] = Tail(@)]
        /\ UNCHANGED <<lib, owner, toClient, cpc, reader, challenge, sent, got, made,
                       fault>>
    BY <1>2 DEF ReadHello, ReadResponse
  <2> QED
    BY <2>1 DEF ClientTypes
<1>3. ASSUME NEW c \in Conns, NEW r \in Records, Write(c, r)
      PROVE  toClient' \in [Conns -> Seq(Records)]
  BY <1>3 DEF Write, ClientTypes
<1>4. ASSUME NEW c \in Conns, SendChallenge(c)
      PROVE  ClientTypes'
  <2>1. issued' \in Nat /\ clock \in Nat
    BY <1>4, TimeTypes DEF SendChallenge, ServerTypes
  <2>2. toClient' \in [Conns -> Seq(Records)]
    BY <1>3, <1>4, <2>1, MessageTypes DEF SendChallenge
  <2> QED
    BY <1>4, <2>2 DEF SendChallenge, ClientTypes
<1>5. ASSUME NEW c \in Conns, SendResult(c)
      PROVE  ClientTypes'
  <2>1. toClient' \in [Conns -> Seq(Records)]
    BY <1>3, <1>5, MessageTypes DEF SendResult
  <2> QED
    BY <1>5, <2>1 DEF SendResult, ClientTypes
<1>6. ASSUME NEW c \in Conns, WriteFrame(c)
      PROVE  ClientTypes'
  <2>1. frames'[c] \in Nat
    BY <1>6 DEF WriteFrame, ServerTypes
  <2>2. toClient' \in [Conns -> Seq(Records)]
    BY <1>3, <1>6, <2>1, MessageTypes DEF WriteFrame
  <2> QED
    BY <1>6, <2>2 DEF WriteFrame, ClientTypes
<1>7. ASSUME NEW c \in Conns, SendHello(c)
      PROVE  ClientTypes'
  <2>1. ClientHello(owner[c]) \in ClientMsgs
    BY MessageTypes DEF ClientTypes
  <2> QED
    BY <1>7, <2>1 DEF SendHello, ClientTypes
<1>8. ASSUME NEW c \in Conns, Fill(c)
      PROVE  ClientTypes'
  BY <1>8 DEF Fill, ClientTypes
<1>9. ASSUME NEW c \in Conns, DecodeChallenge(c)
      PROVE  ClientTypes'
  <2>1. PICK m \in ServerMsgs : reader[c] = <<m>>
    BY <1>9 DEF DecodeChallenge, ClientTypes, Records
  <2>2. m.type = "challenge" /\ Head(reader[c]) = m /\ Tail(reader[c]) = <<>>
    BY <1>9, <2>1 DEF DecodeChallenge
  <2>3. m.challenge \in Nat /\ m.timestamp \in Nat
    BY <2>2 DEF ServerMsgs
  <2>4. challenge' \in [Conns -> [challenge : Nat, timestamp : Nat]]
    BY <1>9, <2>2, <2>3 DEF DecodeChallenge, ClientTypes
  <2>5. reader' \in [Conns -> Records \cup {<<>>}]
    BY <1>9, <2>2 DEF DecodeChallenge, ClientTypes
  <2> QED
    BY <1>9, <2>4, <2>5 DEF DecodeChallenge, ClientTypes
<1>10. ASSUME NEW c \in Conns, SendResponse(c)
       PROVE  ClientTypes'
  <2> DEFINE s == Sign(owner[c], BuildSignedData(challenge[c].challenge,
                                     challenge[c].timestamp, owner[c], c))
  <2>1. s \in Sigs
    BY SignTypes DEF ClientTypes
  <2>2. /\ made' = made \cup {s}
        /\ toServer' = [toServer EXCEPT ![c] = Append(@, ClientResponse(s))]
    BY <1>10 DEF SendResponse
  <2> HIDE DEF s
  <2>3. ClientResponse(s) \in ClientMsgs
    BY <2>1, MessageTypes
  <2> QED
    BY <1>10, <2>1, <2>2, <2>3 DEF SendResponse, ClientTypes
<1>11. ASSUME NEW c \in Conns, DecodeResult(c) \/ ClientEOF(c) \/ ClientTimeout(c)
       PROVE  ClientTypes'
  BY <1>11 DEF DecodeResult, ClientEOF, ClientTimeout, ClientTypes
<1>12. ASSUME NEW c \in Conns, ReadFrame(c)
       PROVE  ClientTypes'
  <2>1. Head(toClient[c]) \in Records /\ Tail(toClient[c]) \in Seq(Records)
    BY <1>12 DEF ReadFrame, ClientTypes
  <2>2. Head(toClient[c]) \in Seq(ServerMsgs)
    <3>1. PICK m \in ServerMsgs : Head(toClient[c]) = <<m>>
      BY <2>1 DEF Records
    <3>2. <<m>> \in Seq(ServerMsgs)
      OBVIOUS
    <3> QED
      BY <3>1, <3>2
  <2> QED
    BY <1>12, <2>1, <2>2 DEF ReadFrame, ClientTypes
<1>13. ASSUME NEW c \in Conns, OtherSends(c)
       PROVE  ClientTypes'
  <2>1. PICK m \in ClientMsgs : toServer' = [toServer EXCEPT ![c] = Append(@, m)]
    BY <1>13, MessageTypes, SignaturesTypes DEF OtherSends
  <2>2. made' \subseteq Sigs
    BY <1>13, SignaturesTypes DEF OtherSends, ClientTypes
  <2> QED
    BY <1>13, <2>1, <2>2 DEF OtherSends, ClientTypes
<1>14. CASE SetClock \/ UNCHANGED vars
  BY <1>14 DEF SetClock, vars, ClientTypes
<1> QED
  BY <1>1, <1>2, <1>4, <1>5, <1>6, <1>7, <1>8, <1>9, <1>10, <1>11, <1>12, <1>13,
     <1>14 DEF Next, Server, Library

-----------------------------------------------------------------------------
(* Buffers, signatures, keys                                               *)

\* No two handlers have the same buffer.
LEMMA LentStep ==
  ASSUME ServerTypes, Lent, [Next]_vars
  PROVE  Lent'
<1>0. /\ held \in [Conns -> Bufs \cup {None}] /\ None \notin Bufs
      /\ spc \in [Conns -> {"new", "hello", "challenge", "response", "verify", "time",
                            "result", "ok", "served", "failed"}]
  BY NoneAssumption DEF ServerTypes
<1>1. ASSUME NEW c \in Conns, Start(c)
      PROVE  Lent'
  BY <1>0, <1>1 DEF Start, Go, Lent, Busy
<1>2. ASSUME NEW c \in Conns, Release(c)
      PROVE  Lent'
  BY <1>0, <1>2 DEF Release, Lent, Busy
<1>3. ASSUME NEW c \in Conns,
             ReadHello(c) \/ SendChallenge(c) \/ ReadResponse(c) \/ Verify(c)
             \/ CheckTime(c) \/ SendResult(c) \/ CopyID(c) \/ Fails(c)
      PROVE  Lent'
  <2>1. UNCHANGED held
    BY <1>3 DEF ReadHello, SendChallenge, ReadResponse, Verify, CheckTime, SendResult,
       CopyID, Fails
  <2>2. spc[c] \in Busy /\ \E s \in Busy \cup {"served", "failed"} : Go(c, s)
    BY <1>3 DEF ReadHello, SendChallenge, ReadResponse, Verify, CheckTime, SendResult,
       CopyID, Fails, Busy
  <2> QED
    BY <1>0, <2>1, <2>2 DEF Go, Lent, Busy
<1>4. ASSUME NEW c \in Conns, WriteFrame(c) \/ Library(c) \/ ClientTimeout(c)
                              \/ OtherSends(c)
      PROVE  UNCHANGED <<held, spc>>
  BY <1>4 DEF WriteFrame, Library, SendHello, Fill, DecodeChallenge, SendResponse,
     DecodeResult, ReadFrame, ClientEOF, ClientTimeout, OtherSends, serverVars
<1>5. ASSUME SetClock \/ UNCHANGED vars
      PROVE  UNCHANGED <<held, spc>>
  BY <1>5 DEF SetClock, serverVars, vars
<1> QED
  BY <1>1, <1>2, <1>3, <1>4, <1>5 DEF Next, Server, Lent

\* Messages go to the router at the end of toServer and leave it at the front.
LEMMA ToServerStep ==
  ASSUME ServerTypes, ClientTypes, [Next]_vars, NEW d \in Conns
  PROVE  \/ toServer'[d] = toServer[d]
         \/ toServer[d] # <<>> /\ toServer'[d] = Tail(toServer[d])
         \/ \E k \in Keys : toServer'[d] = Append(toServer[d], ClientHello(k))
         \/ \E s \in Sigs : /\ toServer'[d] = Append(toServer[d], ClientResponse(s))
                            /\ s \in made \/ (s.key = owner[d] /\ s.data.binding = d)
<1>0. toServer \in [Conns -> Seq(ClientMsgs)] /\ owner \in [Conns -> Keys]
  BY DEF ClientTypes
<1>1. ASSUME NEW c \in Conns,
             Start(c) \/ SendChallenge(c) \/ Verify(c) \/ CheckTime(c) \/ SendResult(c)
             \/ CopyID(c) \/ Fails(c) \/ WriteFrame(c) \/ Release(c) \/ Fill(c)
             \/ DecodeChallenge(c) \/ DecodeResult(c) \/ ReadFrame(c) \/ ClientEOF(c)
             \/ ClientTimeout(c)
      PROVE  UNCHANGED toServer
  BY <1>1 DEF Start, SendChallenge, Verify, CheckTime, SendResult, CopyID, Fails,
     WriteFrame, Release, Fill, DecodeChallenge, DecodeResult, ReadFrame, ClientEOF,
     ClientTimeout
<1>2. ASSUME NEW c \in Conns, ReadHello(c) \/ ReadResponse(c)
      PROVE  \/ toServer'[d] = toServer[d]
             \/ toServer[d] # <<>> /\ toServer'[d] = Tail(toServer[d])
  <2>1. toServer[c] # <<>> /\ toServer' = [toServer EXCEPT ![c] = Tail(@)]
    BY <1>2 DEF ReadHello, ReadResponse
  <2> QED
    BY <1>0, <2>1
<1>3. ASSUME NEW c \in Conns, SendHello(c)
      PROVE  \/ toServer'[d] = toServer[d]
             \/ \E k \in Keys : toServer'[d] = Append(toServer[d], ClientHello(k))
  BY <1>0, <1>3 DEF SendHello
<1>4. ASSUME NEW c \in Conns, SendResponse(c), toServer'[d] # toServer[d]
      PROVE  \E s \in Sigs : /\ toServer'[d] = Append(toServer[d], ClientResponse(s))
                             /\ s.key = owner[d] /\ s.data.binding = d
  <2> DEFINE s == Sign(owner[c], BuildSignedData(challenge[c].challenge,
                                     challenge[c].timestamp, owner[c], c))
  <2>1. s \in Sigs /\ s.key = owner[c] /\ s.data.binding = c
    <3>1. /\ owner[c] \in Keys
          /\ challenge[c].challenge \in Nat /\ challenge[c].timestamp \in Nat
      BY DEF ClientTypes
    <3> QED
      BY <3>1, SignTypes
  <2>2. toServer' = [toServer EXCEPT ![c] = Append(@, ClientResponse(s))]
    BY <1>4 DEF SendResponse
  <2> HIDE DEF s
  <2>3. d = c
    BY <1>0, <1>4, <2>2
  <2> QED
    BY <1>0, <2>1, <2>2, <2>3
<1>5. ASSUME NEW c \in Conns, OtherSends(c), toServer'[d] # toServer[d]
      PROVE  \/ \E k \in Keys : toServer'[d] = Append(toServer[d], ClientHello(k))
             \/ \E s \in Sigs : /\ toServer'[d] = Append(toServer[d], ClientResponse(s))
                                /\ \/ s \in made
                                   \/ s.key = owner[d] /\ s.data.binding = d
  <2>1. CASE \E k \in Keys :
               toServer' = [toServer EXCEPT ![c] = Append(@, ClientHello(k))]
    BY <1>0, <1>5, <2>1
  <2>2. CASE \E s \in Signatures(c) :
               toServer' = [toServer EXCEPT ![c] = Append(@, ClientResponse(s))]
    <3>1. PICK s \in Signatures(c) :
               toServer' = [toServer EXCEPT ![c] = Append(@, ClientResponse(s))]
      BY <2>2
    <3>2. d = c
      BY <1>0, <1>5, <3>1
    <3>3. s \in Sigs /\ (s \in made \/ (s.key = owner[c] /\ s.data.binding = c))
      BY SignaturesTypes
    <3> QED
      BY <1>0, <3>1, <3>2, <3>3
  <2> QED
    BY <1>5, <2>1, <2>2 DEF OtherSends
<1>6. ASSUME SetClock \/ UNCHANGED vars
      PROVE  UNCHANGED toServer
  BY <1>6 DEF SetClock, vars
<1> QED
  BY <1>1, <1>2, <1>3, <1>4, <1>5, <1>6 DEF Next, Server, Library

\* Signatures are added by the end that made them.
LEMMA MadeStep ==
  ASSUME ServerTypes, ClientTypes, [Next]_vars
  PROVE  /\ UNCHANGED <<lib, owner>>
         /\ made \subseteq made'
         /\ \A s \in made' : s \in made \/ s.key = owner[s.data.binding]
<1>1. ASSUME NEW c \in Conns,
             Server(c) \/ Fails(c) \/ WriteFrame(c) \/ Release(c) \/ SendHello(c)
             \/ Fill(c) \/ DecodeChallenge(c) \/ DecodeResult(c) \/ ReadFrame(c)
             \/ ClientEOF(c) \/ ClientTimeout(c)
      PROVE  UNCHANGED <<lib, owner, made>>
  BY <1>1 DEF Server, Start, ReadHello, SendChallenge, ReadResponse, Verify, CheckTime,
     SendResult, CopyID, Fails, WriteFrame, Release, SendHello, Fill, DecodeChallenge,
     DecodeResult, ReadFrame, ClientEOF, ClientTimeout, given
<1>2. ASSUME NEW c \in Conns, SendResponse(c)
      PROVE  /\ UNCHANGED <<lib, owner>> /\ made \subseteq made'
             /\ \A s \in made' : s \in made \/ s.key = owner[s.data.binding]
  <2> DEFINE s == Sign(owner[c], BuildSignedData(challenge[c].challenge,
                                     challenge[c].timestamp, owner[c], c))
  <2>1. s \in Sigs /\ s.key = owner[c] /\ s.data.binding = c
    <3>1. /\ owner[c] \in Keys
          /\ challenge[c].challenge \in Nat /\ challenge[c].timestamp \in Nat
      BY DEF ClientTypes
    <3> QED
      BY <3>1, SignTypes
  <2>2. made' = made \cup {s} /\ UNCHANGED <<lib, owner>>
    BY <1>2 DEF SendResponse, given
  <2> HIDE DEF s
  <2> QED
    BY <2>1, <2>2
<1>3. ASSUME NEW c \in Conns, OtherSends(c)
      PROVE  /\ UNCHANGED <<lib, owner>> /\ made \subseteq made'
             /\ \A s \in made' : s \in made \/ s.key = owner[s.data.binding]
  <2>1. UNCHANGED made \/ \E s \in Signatures(c) : made' = made \cup {s}
    BY <1>3 DEF OtherSends
  <2>2. UNCHANGED <<lib, owner>>
    BY <1>3 DEF OtherSends, given
  <2> QED
    BY <2>1, <2>2, SignaturesTypes
<1>4. ASSUME SetClock \/ UNCHANGED vars
      PROVE  UNCHANGED <<lib, owner, made>>
  BY <1>4 DEF SetClock, vars, given
<1> QED
  BY <1>1, <1>2, <1>3, <1>4 DEF Next, Library

\* What the steps of the router do to its own variables at one connection: a
\* step of c leaves the state of another connection d alone, and the buffer d
\* has, for no two handlers share one.
LEMMA ServerLocal ==
  ASSUME ServerTypes, ClientTypes, Lent, NEW c \in Conns, NEW d \in Conns, d # c,
         Server(c) \/ Fails(c) \/ WriteFrame(c) \/ Release(c)
  PROVE  /\ spc'[d] = spc[d] /\ held'[d] = held[d] /\ id'[d] = id[d]
         /\ timestamp'[d] = timestamp[d] /\ checked'[d] = checked[d]
         /\ frames'[d] = frames[d] /\ toServer'[d] = toServer[d]
         /\ toClient'[d] = toClient[d] /\ fault'[d] = fault[d]
         /\ held[d] # None => mem'[held[d]] = mem[held[d]]
         /\ UNCHANGED <<cpc, reader, challenge, got>>
<1>0. /\ DOMAIN spc = Conns /\ DOMAIN held = Conns /\ DOMAIN id = Conns
      /\ DOMAIN timestamp = Conns /\ DOMAIN checked = Conns /\ DOMAIN frames = Conns
      /\ DOMAIN toServer = Conns /\ DOMAIN toClient = Conns /\ DOMAIN fault = Conns
      /\ DOMAIN mem = Bufs
      /\ held[d] # None => held[d] \in Bufs /\ held[d] # held[c]
  BY DEF ServerTypes, ClientTypes, Lent
<1>1. CASE Start(c) \/ Release(c)
  BY <1>0, <1>1 DEF Start, Release, Go, clientVars
<1>2. CASE ReadHello(c)
  BY <1>0, <1>2 DEF ReadHello, Go, clientVars
<1>3. CASE SendChallenge(c)
  BY <1>0, <1>3 DEF SendChallenge, Write, Go, clientVars
<1>4. CASE ReadResponse(c)
  BY <1>0, <1>4 DEF ReadResponse, Go, clientVars
<1>5. CASE Verify(c) \/ CheckTime(c) \/ SendResult(c) \/ CopyID(c) \/ WriteFrame(c)
  BY <1>0, <1>5 DEF Verify, CheckTime, SendResult, CopyID, WriteFrame, Write, Go,
     clientVars
<1>6. CASE Fails(c)
  BY <1>0, <1>6 DEF Fails, Go, clientVars
<1> QED
  BY <1>1, <1>2, <1>3, <1>4, <1>5, <1>6 DEF Server

\* The steps of the clients leave the router's variables alone.
LEMMA ClientFrame ==
  ASSUME [Next]_vars,
         ~ \E c \in Conns : Server(c) \/ Fails(c) \/ WriteFrame(c) \/ Release(c)
  PROVE  UNCHANGED <<mem, held, timestamp, issued, spc, id, frames, checked>>
<1>1. ASSUME NEW c \in Conns, Library(c) \/ ClientTimeout(c) \/ OtherSends(c)
      PROVE  UNCHANGED serverVars
  BY <1>1 DEF Library, SendHello, Fill, DecodeChallenge, SendResponse, DecodeResult,
     ReadFrame, ClientEOF, ClientTimeout, OtherSends
<1>2. ASSUME SetClock
      PROVE  UNCHANGED serverVars
  BY <1>2 DEF SetClock
<1>3. ASSUME UNCHANGED vars
      PROVE  UNCHANGED serverVars
  BY <1>3 DEF vars, serverVars
<1> QED
  BY <1>1, <1>2, <1>3 DEF Next, serverVars

\* No signature for the binding of a connection is by another key than the one
\* at its end.
LEMMA SignedStep ==
  ASSUME ServerTypes, ClientTypes, Lent, Signed, [Next]_vars
  PROVE  Signed'
<1>0. UNCHANGED owner
  BY MadeStep
<1>1. \A s \in made' : Genuine(s, owner')
  BY <1>0, MadeStep DEF Signed, Genuine
<1>2. ASSUME NEW d \in Conns, NEW i \in DOMAIN toServer'[d],
             toServer'[d][i].type = "response"
      PROVE  Genuine(toServer'[d][i].signature, owner')
  <2>0. /\ toServer[d] \in Seq(ClientMsgs)
        /\ \A j \in DOMAIN toServer[d] :
             toServer[d][j].type = "response" => Genuine(toServer[d][j].signature, owner)
    BY DEF ClientTypes, Signed
  <2>1. CASE toServer'[d] = toServer[d]
    BY <1>0, <1>2, <2>0, <2>1 DEF Genuine
  <2>2. CASE toServer[d] # <<>> /\ toServer'[d] = Tail(toServer[d])
    <3>1. i + 1 \in DOMAIN toServer[d] /\ toServer'[d][i] = toServer[d][i + 1]
      BY <1>2, <2>0, <2>2
    <3> QED
      BY <1>0, <1>2, <2>0, <3>1 DEF Genuine
  <2>3. ASSUME NEW m \in ClientMsgs, toServer'[d] = Append(toServer[d], m)
        PROVE  \/ i \in DOMAIN toServer[d] /\ toServer'[d][i] = toServer[d][i]
               \/ toServer'[d][i] = m
    BY <1>2, <2>0, <2>3
  <2>4. CASE \E k \in Keys : toServer'[d] = Append(toServer[d], ClientHello(k))
    <3>1. PICK k \in Keys : toServer'[d] = Append(toServer[d], ClientHello(k))
      BY <2>4
    <3>2. ClientHello(k) \in ClientMsgs /\ ClientHello(k).type # "response"
      BY MessageTypes DEF ClientHello
    <3> QED
      BY <1>0, <1>2, <2>0, <2>3, <3>1, <3>2 DEF Genuine
  <2>5. CASE \E s \in Sigs : /\ toServer'[d] = Append(toServer[d], ClientResponse(s))
                             /\ s \in made \/ (s.key = owner[d] /\ s.data.binding = d)
    <3>1. PICK s \in Sigs : /\ toServer'[d] = Append(toServer[d], ClientResponse(s))
                            /\ s \in made \/ (s.key = owner[d] /\ s.data.binding = d)
      BY <2>5
    <3>2. ClientResponse(s) \in ClientMsgs /\ ClientResponse(s).signature = s
      BY MessageTypes DEF ClientResponse
    <3>3. Genuine(s, owner)
      BY <3>1 DEF Signed, Genuine
    <3> QED
      BY <1>0, <1>2, <2>0, <2>3, <3>1, <3>2, <3>3 DEF Genuine
  <2>6. \/ toServer'[d] = toServer[d]
        \/ toServer[d] # <<>> /\ toServer'[d] = Tail(toServer[d])
        \/ \E k \in Keys : toServer'[d] = Append(toServer[d], ClientHello(k))
        \/ \E s \in Sigs : /\ toServer'[d] = Append(toServer[d], ClientResponse(s))
                           /\ s \in made \/ (s.key = owner[d] /\ s.data.binding = d)
    BY ToServerStep
  <2> QED
    BY <2>1, <2>2, <2>4, <2>5, <2>6
<1>3. ASSUME NEW d \in Conns, spc'[d] = "verify"
      PROVE  /\ mem'[held'[d]].signature \in Sigs
             /\ Genuine(mem'[held'[d]].signature, owner')
  <2>1. CASE ReadResponse(d)
    <3>1. held[d] \in Bufs
      BY <2>1 DEF ReadResponse, Lent, Busy, ServerTypes
    <3>2. /\ toServer[d] # <<>> /\ Head(toServer[d]).type = "response"
          /\ mem' = [mem EXCEPT ![held[d]].signature = Head(toServer[d]).signature]
          /\ held' = held
      BY <1>3, <2>1 DEF ReadResponse, Go, ServerTypes
    <3>3. /\ Head(toServer[d]) \in ClientMsgs
          /\ 1 \in DOMAIN toServer[d] /\ Head(toServer[d]) = toServer[d][1]
      BY <3>2 DEF ClientTypes
    <3>4. /\ Head(toServer[d]).signature \in Sigs
          /\ Genuine(Head(toServer[d]).signature, owner)
      BY <3>2, <3>3, ClientMsgKinds DEF Signed
    <3>5. mem'[held'[d]].signature = Head(toServer[d]).signature
      BY <3>1, <3>2 DEF ServerTypes
    <3> QED
      BY <1>0, <3>4, <3>5 DEF Genuine
  <2>2. CASE /\ spc[d] = "verify" /\ held'[d] = held[d]
             /\ mem'[held[d]] = mem[held[d]]
    BY <1>0, <2>2 DEF Signed, Genuine
  <2>3. ASSUME NEW c \in Conns, c # d,
               Server(c) \/ Fails(c) \/ WriteFrame(c) \/ Release(c)
        PROVE  /\ spc[d] = "verify" /\ held'[d] = held[d]
               /\ mem'[held[d]] = mem[held[d]]
    BY <1>3, <2>3, ServerLocal DEF Lent, Busy
  <2>4. ASSUME Server(d) \/ Fails(d) \/ WriteFrame(d) \/ Release(d), ~ReadResponse(d)
        PROVE  FALSE
    BY <1>3, <2>4 DEF Server, Start, ReadHello, SendChallenge, Verify, CheckTime,
       SendResult, CopyID, Fails, WriteFrame, Release, Go, ServerTypes
  <2> QED
    BY <1>3, <2>1, <2>2, <2>3, <2>4, ClientFrame
<1> QED
  BY <1>1, <1>2, <1>3 DEF Signed

\* A signature that verifies is by the key of the other end, and the buffer
\* keeps that key until handleConn copies it.
LEMMA KnownStep ==
  ASSUME ServerTypes, ClientTypes, Lent, Signed, Known, [Next]_vars
  PROVE  Known'
<1>0. /\ UNCHANGED owner
      /\ owner \in [Conns -> Keys] /\ held \in [Conns -> Bufs \cup {None}]
      /\ DOMAIN spc = Conns /\ DOMAIN id = Conns
  BY MadeStep DEF ServerTypes, ClientTypes
<1> DEFINE K(d) == /\ spc'[d] \in {"time", "result", "ok"} => mem'[held'[d]].pubKey = owner[d]
                   /\ id'[d] \in {None, owner[d]}
<1> SUFFICES ASSUME NEW d \in Conns
             PROVE  K(d)
  BY <1>0 DEF Known
<1>1. CASE Verify(d)
  <2> DEFINE b == mem[held[d]]
  <2>1. UNCHANGED <<mem, held, id>>
    BY <1>1 DEF Verify
  <2>2. ASSUME spc'[d] = "time"
        PROVE  b.pubKey = owner[d]
    <3>1. b.signature = Sign(b.pubKey, BuildSignedData(b.challenge, timestamp[d],
                                                       b.pubKey, d))
      BY <1>0, <1>1, <2>2 DEF Verify, Go, Verified
    <3>2. b.signature.key = b.pubKey /\ b.signature.data.binding = d
      BY <3>1 DEF Sign, BuildSignedData
    <3>3. b.signature.key = owner[b.signature.data.binding]
      BY <1>1 DEF Verify, Signed, Genuine
    <3> QED
      BY <3>2, <3>3
  <2>3. spc'[d] \in {"time", "failed"}
    BY <1>0, <1>1 DEF Verify, Go
  <2> QED
    BY <2>1, <2>2, <2>3 DEF Known
<1>2. CASE CheckTime(d) \/ SendResult(d)
  <2>1. /\ UNCHANGED <<mem, held, id>>
        /\ spc[d] \in {"time", "result"}
    BY <1>2 DEF CheckTime, SendResult
  <2> QED
    BY <2>1 DEF Known
<1>3. CASE CopyID(d)
  <2>1. id'[d] = mem[held[d]].pubKey /\ spc[d] = "ok" /\ spc'[d] = "served"
    BY <1>0, <1>3 DEF CopyID, Go
  <2> QED
    BY <2>1 DEF Known
<1>4. CASE Start(d) \/ ReadHello(d) \/ SendChallenge(d) \/ ReadResponse(d) \/ Fails(d)
           \/ Release(d) \/ WriteFrame(d)
  <2>1. id' = id
    BY <1>4 DEF Start, ReadHello, SendChallenge, ReadResponse, Fails, Release, WriteFrame
  <2>2. spc'[d] \notin {"time", "result", "ok"}
    BY <1>0, <1>4 DEF Start, ReadHello, SendChallenge, ReadResponse, Fails, Release,
       WriteFrame, Go
  <2> QED
    BY <2>1, <2>2 DEF Known
<1>5. ASSUME NEW c \in Conns, c # d,
             Server(c) \/ Fails(c) \/ WriteFrame(c) \/ Release(c)
      PROVE  K(d)
  <2>1. /\ spc'[d] = spc[d] /\ held'[d] = held[d] /\ id'[d] = id[d]
        /\ held[d] # None => mem'[held[d]] = mem[held[d]]
    BY <1>5, ServerLocal
  <2>2. spc[d] \in {"time", "result", "ok"} => held[d] # None
    BY DEF Lent, Busy
  <2> QED
    BY <2>1, <2>2 DEF Known
<1>6. CASE UNCHANGED <<mem, held, spc, id>>
  BY <1>6 DEF Known
<1> QED
  BY <1>1, <1>2, <1>3, <1>4, <1>5, <1>6, ClientFrame DEF Server

-----------------------------------------------------------------------------
(* Time                                                                    *)

\* The remainders of step 12, for a time no later than MaxClock: nothing wraps
\* around but the age of a timestamp that is ahead of the clock.
LEMMA AgeOfTimestamp ==
  ASSUME ServerTypes, NEW t \in 0..MaxClock
  PROVE  TimestampValid(t) <=> clock - t \in 0..TTL
<1>0. /\ clock \in Nat /\ t \in Nat /\ clock <= MaxClock /\ t <= MaxClock
      /\ Word \in Nat /\ Tolerance \in Nat /\ TTL \in Nat /\ MaxClock \in Nat
      /\ MaxClock + Tolerance < Word /\ MaxClock + TTL < Word
  BY TimeAssumption DEF ServerTypes
<1>1. ASSUME NEW a \in Nat, NEW w \in Nat, a < w
      PROVE  a % w = a /\ (a + w) % w = a
  BY <1>1
<1>2. (clock + Tolerance) % Word = clock + Tolerance
  BY <1>0, <1>1
<1>3. CASE t <= clock
  <2>1. clock - t \in Nat /\ clock - t < Word /\ clock + Word - t = (clock - t) + Word
    BY <1>0, <1>3
  <2>2. (clock + Word - t) % Word = clock - t
    BY <1>0, <1>1, <2>1
  <2> QED
    BY <1>0, <1>2, <1>3, <2>2 DEF TimestampValid
<1>4. CASE t > clock
  <2>1. clock + Word - t \in Nat /\ clock + Word - t < Word /\ clock + Word - t > TTL
    BY <1>0, <1>4
  <2>2. (clock + Word - t) % Word = clock + Word - t
    BY <1>0, <1>1, <2>1
  <2> QED
    BY <1>0, <1>4, <2>1, <2>2 DEF TimestampValid
<1> QED
  BY <1>0, <1>3, <1>4

\* The time that was checked is the time of the challenge that was accepted.
LEMMA FreshStep ==
  ASSUME ServerTypes, ClientTypes, Lent, FreshWhenChecked, [Next]_vars
  PROVE  FreshWhenChecked'
<1>0. /\ DOMAIN spc = Conns /\ DOMAIN checked = Conns
      /\ timestamp \in [Conns -> 0..MaxClock]
  BY DEF ServerTypes
<1> DEFINE F(d) == spc'[d] \in {"result", "ok", "served"} =>
                      checked'[d] - timestamp'[d] \in 0..TTL
<1> SUFFICES ASSUME NEW d \in Conns
             PROVE  F(d)
  BY DEF FreshWhenChecked
<1>1. CASE CheckTime(d)
  <2>1. checked'[d] = clock /\ timestamp' = timestamp
    BY <1>0, <1>1 DEF CheckTime
  <2>2. spc'[d] = "result" => TimestampValid(timestamp[d])
    BY <1>0, <1>1 DEF CheckTime, Go
  <2>3. spc'[d] \in {"result", "failed"}
    BY <1>0, <1>1 DEF CheckTime, Go
  <2>4. TimestampValid(timestamp[d]) <=> clock - timestamp[d] \in 0..TTL
    BY <1>0, AgeOfTimestamp
  <2> QED
    BY <2>1, <2>2, <2>3, <2>4
<1>2. CASE SendResult(d) \/ CopyID(d) \/ WriteFrame(d) \/ Release(d)
  <2>1. UNCHANGED <<checked, timestamp>>
    BY <1>2 DEF SendResult, CopyID, WriteFrame, Release
  <2>2. spc[d] \in {"result", "ok", "served"} \/ spc'[d] = "failed"
    BY <1>0, <1>2 DEF SendResult, CopyID, WriteFrame, Release
  <2> QED
    BY <2>1, <2>2 DEF FreshWhenChecked
<1>3. CASE Start(d) \/ ReadHello(d) \/ SendChallenge(d) \/ ReadResponse(d) \/ Verify(d)
           \/ Fails(d)
  <2>1. spc'[d] \notin {"result", "ok", "served"}
    BY <1>0, <1>3 DEF Start, ReadHello, SendChallenge, ReadResponse, Verify, Fails, Go
  <2> QED
    BY <2>1
<1>4. ASSUME NEW c \in Conns, c # d,
             Server(c) \/ Fails(c) \/ WriteFrame(c) \/ Release(c)
      PROVE  F(d)
  <2>1. spc'[d] = spc[d] /\ timestamp'[d] = timestamp[d] /\ checked'[d] = checked[d]
    BY <1>4, ServerLocal
  <2> QED
    BY <2>1 DEF FreshWhenChecked
<1>5. CASE UNCHANGED <<timestamp, spc, checked>>
  BY <1>5 DEF FreshWhenChecked
<1> QED
  BY <1>1, <1>2, <1>3, <1>4, <1>5, ClientFrame DEF Server

-----------------------------------------------------------------------------
(* The library and the router in step                                      *)

\* Nothing that Talk is about changed at connection d.
Same(d) ==
    /\ spc'[d] = spc[d] /\ held'[d] = held[d] /\ timestamp'[d] = timestamp[d]
    /\ frames'[d] = frames[d] /\ toServer'[d] = toServer[d]
    /\ toClient'[d] = toClient[d] /\ fault'[d] = fault[d]
    /\ held[d] # None => mem'[held[d]] = mem[held[d]]
    /\ cpc'[d] = cpc[d] /\ reader'[d] = reader[d] /\ challenge'[d] = challenge[d]
    /\ got'[d] = got[d] /\ owner'[d] = owner[d]

LEMMA TalkKept ==
  ASSUME Lent, NEW d \in Conns, Talk(d), Same(d)
  PROVE  Talk(d)'
<1>1. CASE spc[d] \in {"new", "hello"}
  BY <1>1 DEF Same, Talk, HelloPhase
<1>2. CASE spc[d] \in {"challenge", "response", "verify"}
  <2>1. held[d] # None
    BY <1>2 DEF Lent, Busy
  <2> QED
    BY <1>2, <2>1 DEF Same, Talk, ChallengePhase, ResponsePhase, VerifyPhase, Asked, Answer
<1>3. CASE spc[d] \in {"time", "result"}
  BY <1>3 DEF Same, Talk, VerifyPhase
<1>4. CASE spc[d] \in {"ok", "served"}
  BY <1>4 DEF Same, Talk, ServedPhase, FramesAfter
<1>5. CASE spc[d] = "failed"
  BY <1>5 DEF Same, Talk, FailedPhase
<1>6. CASE spc[d] \notin {"new", "hello", "challenge", "response", "verify", "time",
                          "result", "ok", "served", "failed"}
  BY <1>6 DEF Same, Talk
<1> QED
  BY <1>1, <1>2, <1>3, <1>4, <1>5, <1>6

\* A step of one connection's client changes nothing at another connection.
LEMMA ClientLocal ==
  ASSUME ServerTypes, ClientTypes, NEW c \in Conns, NEW d \in Conns, d # c,
         Library(c) \/ ClientTimeout(c) \/ OtherSends(c)
  PROVE  Same(d)
<1>0. /\ DOMAIN toServer = Conns /\ DOMAIN toClient = Conns /\ DOMAIN fault = Conns
      /\ DOMAIN cpc = Conns /\ DOMAIN reader = Conns /\ DOMAIN challenge = Conns
      /\ DOMAIN got = Conns
  BY DEF ClientTypes
<1>1. CASE Library(c)
  BY <1>0, <1>1 DEF Library, SendHello, Fill, DecodeChallenge, SendResponse, DecodeResult,
     ReadFrame, ClientEOF, serverVars, given, Same
<1>2. CASE ClientTimeout(c) \/ OtherSends(c)
  BY <1>0, <1>2 DEF ClientTimeout, OtherSends, serverVars, given, Same
<1> QED
  BY <1>1, <1>2

\* A step of the router keeps it in step with the library.
LEMMA ServerTalks ==
  ASSUME ServerTypes, ClientTypes, Lent, NEW c \in Conns, lib[c], Talk(c),
         Server(c) \/ Fails(c) \/ WriteFrame(c) \/ Release(c)
  PROVE  Talk(c)'
<1>0. /\ DOMAIN spc = Conns /\ DOMAIN timestamp = Conns
      /\ frames \in [Conns -> Nat]
      /\ mem \in [Bufs -> [pubKey : Keys \cup {None}, challenge : Nat,
                           signature : Sigs \cup {None}]]
      /\ DOMAIN toServer = Conns /\ DOMAIN fault = Conns
      /\ toClient \in [Conns -> Seq(Records)]
      /\ spc[c] \in Busy => held[c] \in Bufs
  BY DEF ServerTypes, ClientTypes, Lent
<1>1. UNCHANGED <<lib, owner, cpc, reader, challenge, got>>
  BY DEF Server, Start, ReadHello, SendChallenge, ReadResponse, Verify, CheckTime,
     SendResult, CopyID, Fails, WriteFrame, Release, given, clientVars
<1>2. CASE Start(c)
  BY <1>0, <1>1, <1>2 DEF Start, Go, Talk, HelloPhase
<1>3. CASE ReadHello(c)
  <2>1. toServer[c] = <<ClientHello(owner[c])>> /\ cpc[c] \in {"challenge", "failed"}
        /\ toClient[c] = <<>> /\ reader[c] = <<>> /\ got[c] = <<>> /\ frames[c] = 0
    BY <1>3 DEF ReadHello, Talk, HelloPhase
  <2>2. Head(toServer[c]).type = "hello" /\ Head(toServer[c]).pubKey = owner[c]
        /\ Tail(toServer[c]) = <<>>
    BY <2>1 DEF ClientHello
  <2>3. /\ mem' = [mem EXCEPT ![held[c]].pubKey = owner[c]]
        /\ spc' = [spc EXCEPT ![c] = "challenge"]
        /\ toServer' = [toServer EXCEPT ![c] = <<>>]
        /\ UNCHANGED <<toClient, held, frames>>
    BY <1>3, <2>2 DEF ReadHello, Go
  <2>4. mem'[held'[c]].pubKey = owner[c]
    BY <1>0, <1>3, <2>3 DEF ReadHello, Busy
  <2> QED
    BY <1>0, <1>1, <2>1, <2>3, <2>4 DEF Talk, ChallengePhase
<1>4. CASE SendChallenge(c)
  <2>1. /\ toServer[c] = <<>> /\ cpc[c] \in {"challenge", "failed"}
        /\ toClient[c] = <<>> /\ reader[c] = <<>> /\ got[c] = <<>> /\ frames[c] = 0
        /\ mem[held[c]].pubKey = owner[c]
    BY <1>4 DEF SendChallenge, Talk, ChallengePhase
  <2>2. /\ spc'[c] = "response" /\ timestamp'[c] = clock
        /\ toClient'[c] = <<<<ServerChallenge(issued', clock)>>>>
        /\ UNCHANGED <<toServer, held, frames>>
    BY <1>0, <1>4, <2>1 DEF SendChallenge, Write, Go
  <2>3. mem'[held'[c]].pubKey = owner[c] /\ mem'[held'[c]].challenge = issued'
    BY <1>0, <1>4, <2>1 DEF SendChallenge, Busy
  <2>4. toClient'[c] = <<<<Asked(c)'>>>>
    BY <2>2, <2>3 DEF Asked
  <2> QED
    BY <1>1, <2>1, <2>2, <2>3, <2>4 DEF Talk, ResponsePhase
<1>5. CASE ReadResponse(c)
  <2>1. /\ toServer[c] = <<ClientResponse(Answer(c))>> /\ cpc[c] \in {"result", "failed"}
        /\ cpc[c] = "result" => toClient[c] = <<>> /\ reader[c] = <<>>
        /\ mem[held[c]].pubKey = owner[c] /\ got[c] = <<>> /\ frames[c] = 0
    BY <1>5 DEF ReadResponse, Talk, ResponsePhase
  <2>2. Head(toServer[c]).type = "response" /\ Head(toServer[c]).signature = Answer(c)
    BY <2>1 DEF ClientResponse
  <2>3. /\ mem' = [mem EXCEPT ![held[c]].signature = Answer(c)]
        /\ spc'[c] = "verify"
        /\ UNCHANGED <<toClient, held, frames, timestamp>>
    BY <1>0, <1>5, <2>2 DEF ReadResponse, Go
  <2>4. /\ mem'[held'[c]].pubKey = owner[c] /\ mem'[held'[c]].signature = Answer(c)
        /\ mem'[held'[c]].challenge = mem[held[c]].challenge
    BY <1>0, <1>5, <2>1, <2>3 DEF ReadResponse, Busy
  <2>5. Answer(c)' = Answer(c)
    BY <1>1, <2>3, <2>4 DEF Answer
  <2> QED
    BY <1>1, <2>1, <2>3, <2>4, <2>5 DEF Talk, VerifyPhase
<1>6. CASE Verify(c)
  <2>1. mem[held[c]].signature = Answer(c) /\ mem[held[c]].pubKey = owner[c]
    BY <1>6 DEF Verify, Talk, VerifyPhase
  <2>2. spc'[c] = "time"
    BY <1>0, <1>6, <2>1 DEF Verify, Go, Verified, Answer
  <2>3. UNCHANGED <<toServer, toClient, frames>>
    BY <1>6 DEF Verify
  <2> QED
    BY <1>1, <1>6, <2>2, <2>3 DEF Verify, Talk, VerifyPhase
<1>7. CASE CheckTime(c)
  <2>1. /\ UNCHANGED <<toServer, toClient, frames>> /\ spc[c] = "time"
        /\ spc'[c] = "result" \/ (spc'[c] = "failed" /\ fault'[c])
    BY <1>0, <1>7 DEF CheckTime, Go
  <2>2. VerifyPhase(c) /\ frames[c] = 0 /\ (cpc[c] # "connected" => got[c] = <<>>)
    BY <2>1 DEF Talk
  <2>3. CASE spc'[c] = "result"
    BY <1>1, <2>1, <2>2, <2>3 DEF Talk, VerifyPhase
  <2>4. CASE spc'[c] = "failed" /\ fault'[c]
    BY <1>1, <2>1, <2>2, <2>4 DEF Talk, VerifyPhase, FailedPhase
  <2> QED
    BY <2>1, <2>3, <2>4
<1>8. CASE SendResult(c)
  <2>1. /\ UNCHANGED frames /\ spc[c] = "result" /\ spc'[c] = "ok"
        /\ toClient'[c] = Append(toClient[c], <<AuthResult>>)
    BY <1>0, <1>8 DEF SendResult, Go, Write
  <2>2. /\ cpc[c] \in {"result", "failed"} /\ got[c] = <<>> /\ frames[c] = 0
        /\ cpc[c] = "result" => toClient[c] = <<>> /\ reader[c] = <<>>
    BY <2>1 DEF Talk, VerifyPhase
  <2>3. ASSUME cpc[c] = "result"
        PROVE  /\ toClient'[c] # <<>> /\ Head(toClient'[c]) = <<AuthResult>>
               /\ Tail(toClient'[c]) = <<>>
    BY <2>1, <2>2, <2>3
  <2> QED
    BY <1>1, <2>1, <2>2, <2>3 DEF Talk, ServedPhase, FramesAfter
<1>9. CASE CopyID(c)
  <2>1. /\ UNCHANGED <<toClient, frames>> /\ spc[c] = "ok" /\ spc'[c] = "served"
    BY <1>0, <1>9 DEF CopyID, Go
  <2> QED
    BY <1>1, <2>1 DEF Talk, ServedPhase, FramesAfter
<1>10. CASE Release(c)
  <2>1. UNCHANGED <<toClient, frames, spc, fault>> /\ spc[c] \in {"failed", "served"}
    BY <1>10 DEF Release
  <2> QED
    BY <1>1, <2>1 DEF Talk, ServedPhase, FailedPhase, FramesAfter
<1>11. CASE Fails(c)
  <2>1. /\ UNCHANGED <<toClient, frames>> /\ spc'[c] = "failed" /\ fault'[c]
        /\ spc[c] \in {"hello", "challenge", "response", "result"}
    BY <1>0, <1>11 DEF Fails, Go
  <2>2. Asked(c) # AuthResult
    BY DEF Asked, ServerChallenge, AuthResult
  <2> QED
    BY <1>1, <2>1, <2>2 DEF Talk, HelloPhase, ChallengePhase, ResponsePhase, VerifyPhase,
       FailedPhase
<1>12. CASE WriteFrame(c)
  <2>1. /\ frames'[c] = frames[c] + 1 /\ UNCHANGED spc /\ spc[c] = "served"
        /\ toClient'[c] = Append(toClient[c], <<ServerMessage(frames[c] + 1)>>)
    BY <1>0, <1>12 DEF WriteFrame, Write
  <2> DEFINE m == <<ServerMessage(frames[c] + 1)>>
  <2>2. ASSUME NEW q \in Seq(Records), NEW a \in Nat, FramesAfter(q, a, frames[c])
        PROVE  FramesAfter(Append(q, m), a, frames'[c])
    <3>1. Len(q) + a = frames[c] /\ Len(Append(q, m)) = Len(q) + 1
      BY <2>2 DEF FramesAfter
    <3>2. ASSUME NEW i \in DOMAIN Append(q, m)
          PROVE  Append(q, m)[i] = <<ServerMessage(i + a)>>
      <4>1. CASE i = Len(q) + 1
        <5>1. i + a = frames[c] + 1
          BY <1>0, <3>1, <4>1
        <5>2. Append(q, m)[i] = m
          BY <4>1
        <5> QED
          BY <5>1, <5>2
      <4>2. CASE i # Len(q) + 1
        <5>1. i \in DOMAIN q /\ Append(q, m)[i] = q[i]
          BY <4>2
        <5> QED
          BY <2>2, <5>1 DEF FramesAfter
      <4> QED
        BY <4>1, <4>2
    <3> HIDE DEF m
    <3>3. Len(Append(q, m)) + a = frames'[c]
      BY <1>0, <2>1, <3>1
    <3> QED
      BY <3>2, <3>3 DEF FramesAfter
  <2>3. toClient[c] \in Seq(Records)
    BY <1>0
  <2>4. ASSUME toClient[c] # <<>>
        PROVE  /\ toClient'[c] # <<>> /\ Head(toClient'[c]) = Head(toClient[c])
               /\ Tail(toClient[c]) \in Seq(Records)
               /\ Tail(toClient'[c]) = Append(Tail(toClient[c]), m)
    BY <2>1, <2>3, <2>4
  <2>5. toClient'[c] = Append(toClient[c], m) /\ Len(got[c]) \in Nat
    BY <2>1 DEF ClientTypes
  <2> HIDE DEF m
  <2>6. ServedPhase(c)
    BY <2>1 DEF Talk
  <2>7. CASE cpc[c] = "result"
    <3>1. CASE /\ reader[c] = <<>> /\ toClient[c] # <<>>
               /\ Head(toClient[c]) = <<AuthResult>>
               /\ FramesAfter(Tail(toClient[c]), 0, frames[c])
      <4>1. FramesAfter(Append(Tail(toClient[c]), m), 0, frames'[c])
        BY <2>2, <2>4, <3>1
      <4>2. FramesAfter(Tail(toClient'[c]), 0, frames'[c])
        BY <2>4, <3>1, <4>1 DEF FramesAfter
      <4> QED
        BY <1>1, <2>1, <2>4, <2>7, <3>1, <4>2 DEF Talk, ServedPhase
    <3>2. CASE reader[c] = <<AuthResult>> /\ FramesAfter(toClient[c], 0, frames[c])
      <4>1. FramesAfter(Append(toClient[c], m), 0, frames'[c])
        BY <2>2, <2>3, <3>2
      <4>2. FramesAfter(toClient'[c], 0, frames'[c])
        BY <2>5, <4>1 DEF FramesAfter
      <4> QED
        BY <1>1, <2>1, <2>7, <3>2, <4>2 DEF Talk, ServedPhase
    <3> QED
      BY <2>6, <2>7, <3>1, <3>2 DEF ServedPhase
  <2>8. CASE cpc[c] = "connected"
    <3>1. FramesAfter(Append(toClient[c], m), Len(got[c]), frames'[c])
      BY <2>2, <2>3, <2>5, <2>6, <2>8 DEF ServedPhase
    <3>2. FramesAfter(toClient'[c], Len(got'[c]), frames'[c])
      BY <1>1, <2>5, <3>1 DEF FramesAfter
    <3> QED
      BY <1>1, <2>1, <2>6, <2>8, <3>2 DEF Talk, ServedPhase
  <2>9. CASE cpc[c] = "failed"
    BY <1>1, <2>1, <2>9 DEF Talk, ServedPhase
  <2> QED
    BY <2>6, <2>7, <2>8, <2>9 DEF ServedPhase
<1> QED
  BY <1>2, <1>3, <1>4, <1>5, <1>6, <1>7, <1>8, <1>9, <1>10, <1>11, <1>12 DEF Server

\* A step of the library keeps it in step with the router.
LEMMA LibraryTalks ==
  ASSUME ServerTypes, ClientTypes, NEW c \in Conns, Talk(c),
         Library(c) \/ ClientTimeout(c)
  PROVE  Talk(c)'
<1>0. /\ DOMAIN toServer = Conns /\ DOMAIN fault = Conns /\ DOMAIN cpc = Conns
      /\ DOMAIN challenge = Conns /\ DOMAIN reader = Conns
      /\ toClient \in [Conns -> Seq(Records)] /\ got \in [Conns -> Seq(ServerMsgs)]
      /\ toClient[c] \in Seq(Records)
      /\ spc[c] \in {"new", "hello", "challenge", "response", "verify", "time",
                     "result", "ok", "served", "failed"}
  BY DEF ServerTypes, ClientTypes
<1>1. UNCHANGED <<lib, owner, mem, held, timestamp, spc, frames>>
  BY DEF Library, SendHello, Fill, DecodeChallenge, SendResponse, DecodeResult,
     ReadFrame, ClientEOF, ClientTimeout, given, serverVars
<1>2. CASE SendHello(c)
  <2>1. /\ cpc[c] = "hello" /\ cpc'[c] = "challenge"
        /\ toServer'[c] = Append(toServer[c], ClientHello(owner[c]))
        /\ UNCHANGED <<toClient, reader, challenge, got, fault>>
    BY <1>0, <1>2 DEF SendHello
  <2>2. CASE spc[c] \in {"new", "hello"}
    <3>0. toServer[c] = <<>>
      BY <2>1, <2>2 DEF Talk, HelloPhase
    <3>1. toServer'[c] = <<ClientHello(owner[c])>>
      BY <2>1, <3>0
    <3> QED
      BY <1>1, <2>1, <2>2, <3>1 DEF Talk, HelloPhase
  <2>3. CASE spc[c] = "failed"
    BY <1>1, <2>1, <2>3 DEF Talk, FailedPhase
  <2> QED
    BY <1>0, <2>1, <2>2, <2>3 DEF Talk, ChallengePhase, ResponsePhase, VerifyPhase,
       ServedPhase
<1>3. CASE Fill(c)
  <2>1. /\ cpc[c] \in {"challenge", "result"} /\ reader[c] = <<>> /\ toClient[c] # <<>>
        /\ reader'[c] = Head(toClient[c]) /\ toClient'[c] = Tail(toClient[c])
        /\ UNCHANGED <<toServer, cpc, challenge, got, fault>>
    BY <1>0, <1>3 DEF Fill
  <2>2. CASE spc[c] = "response"
    <3>1. toClient[c] = <<<<Asked(c)>>>> /\ cpc[c] = "challenge"
      BY <2>1, <2>2 DEF Talk, ResponsePhase
    <3>2. reader'[c] = <<Asked(c)>> /\ toClient'[c] = <<>>
      BY <2>1, <3>1
    <3>3. Asked(c)' = Asked(c) /\ Answer(c)' = Answer(c)
      BY <1>1 DEF Asked, Answer
    <3> QED
      BY <1>1, <2>1, <2>2, <3>1, <3>2, <3>3 DEF Talk, ResponsePhase
  <2>3. CASE spc[c] \in {"ok", "served"}
    <3>1. /\ cpc[c] = "result" /\ Head(toClient[c]) = <<AuthResult>>
          /\ FramesAfter(Tail(toClient[c]), 0, frames[c])
      BY <2>1, <2>3 DEF Talk, ServedPhase
    <3> QED
      BY <1>1, <2>1, <2>3, <3>1 DEF Talk, ServedPhase
  <2>4. CASE spc[c] = "failed"
    <3>1. Head(toClient[c]) = toClient[c][1] /\ 1 \in DOMAIN toClient[c]
      BY <1>0, <2>1
    <3>2. \A i \in DOMAIN toClient'[c] :
            i + 1 \in DOMAIN toClient[c] /\ toClient'[c][i] = toClient[c][i + 1]
      BY <1>0, <2>1
    <3> QED
      BY <1>1, <2>1, <2>4, <3>1, <3>2 DEF Talk, FailedPhase
  <2> QED
    BY <1>0, <2>1, <2>2, <2>3, <2>4 DEF Talk, HelloPhase, ChallengePhase, VerifyPhase
<1>4. CASE DecodeChallenge(c)
  <2>1. /\ cpc[c] = "challenge" /\ cpc'[c] = "response" /\ reader[c] # <<>>
        /\ challenge'[c] = [challenge |-> Head(reader[c]).challenge,
                            timestamp |-> Head(reader[c]).timestamp]
        /\ reader'[c] = Tail(reader[c])
        /\ UNCHANGED <<toServer, toClient, got, fault>>
    BY <1>0, <1>4 DEF DecodeChallenge
  <2>2. reader'[c] = <<>> /\ reader'[c] # <<AuthResult>>
    <3>1. PICK m \in ServerMsgs : reader[c] = <<m>>
      BY <2>1 DEF ClientTypes, Records
    <3> QED
      BY <2>1, <3>1
  <2>3. CASE spc[c] = "response"
    <3>1. toClient[c] = <<>> /\ reader[c] = <<Asked(c)>> /\ toServer[c] = <<>>
      BY <2>1, <2>3 DEF Talk, ResponsePhase
    <3>2. challenge'[c] = [challenge |-> mem[held[c]].challenge,
                           timestamp |-> timestamp[c]]
      BY <2>1, <3>1 DEF Asked, ServerChallenge
    <3> QED
      BY <1>1, <2>1, <2>2, <2>3, <3>1, <3>2 DEF Talk, ResponsePhase
  <2>4. CASE spc[c] = "failed"
    BY <1>1, <2>1, <2>2, <2>4 DEF Talk, FailedPhase
  <2> QED
    BY <1>0, <2>1, <2>3, <2>4 DEF Talk, HelloPhase, ChallengePhase, VerifyPhase,
       ServedPhase
<1>5. CASE SendResponse(c)
  <2> DEFINE s == Sign(owner[c], BuildSignedData(challenge[c].challenge,
                                     challenge[c].timestamp, owner[c], c))
  <2>1. /\ cpc[c] = "response" /\ cpc'[c] = "result"
        /\ toServer'[c] = Append(toServer[c], ClientResponse(s))
        /\ UNCHANGED <<toClient, reader, challenge, got, fault>>
    BY <1>0, <1>5 DEF SendResponse
  <2>2. CASE spc[c] = "response"
    <3>1. /\ toClient[c] = <<>> /\ reader[c] = <<>> /\ toServer[c] = <<>>
          /\ challenge[c] = [challenge |-> mem[held[c]].challenge,
                             timestamp |-> timestamp[c]]
      BY <2>1, <2>2 DEF Talk, ResponsePhase
    <3>2. s = Answer(c) /\ Answer(c)' = Answer(c)
      BY <1>1, <3>1 DEF Answer
    <3> HIDE DEF s
    <3>3. toServer'[c] = <<ClientResponse(Answer(c)')>>
      BY <2>1, <3>1, <3>2
    <3> QED
      BY <1>1, <2>1, <2>2, <3>1, <3>3 DEF Talk, ResponsePhase
  <2> HIDE DEF s
  <2>3. CASE spc[c] = "failed"
    BY <1>1, <2>1, <2>3 DEF Talk, FailedPhase
  <2> QED
    BY <1>0, <2>1, <2>2, <2>3 DEF Talk, HelloPhase, ChallengePhase, VerifyPhase,
       ServedPhase
<1>6. CASE DecodeResult(c)
  <2>1. /\ cpc[c] = "result" /\ cpc'[c] = "connected" /\ reader[c] # <<>>
        /\ Head(reader[c]).type = "result" /\ reader'[c] = <<>>
        /\ UNCHANGED <<toServer, toClient, got, fault>>
    BY <1>0, <1>6 DEF DecodeResult
  <2>2. reader[c] = <<AuthResult>>
    <3>1. PICK m \in ServerMsgs : reader[c] = <<m>>
      BY <2>1 DEF ClientTypes, Records
    <3>2. m.type = "result"
      BY <2>1, <3>1
    <3>3. m = AuthResult
      BY <3>2 DEF ServerMsgs, AuthResult
    <3> QED
      BY <3>1, <3>3
  <2>3. CASE spc[c] \in {"ok", "served"}
    <3>1. FramesAfter(toClient[c], 0, frames[c]) /\ got[c] = <<>>
      BY <2>1, <2>3 DEF Talk, ServedPhase
    <3> QED
      BY <1>1, <2>1, <2>3, <3>1 DEF Talk, ServedPhase
  <2> QED
    BY <1>0, <2>1, <2>2, <2>3 DEF Talk, HelloPhase, ChallengePhase, ResponsePhase,
       VerifyPhase, FailedPhase
<1>7. CASE ReadFrame(c)
  <2>1. /\ cpc[c] = "connected" /\ toClient[c] # <<>>
        /\ got'[c] = got[c] \o Head(toClient[c])
        /\ toClient'[c] = Tail(toClient[c])
        /\ UNCHANGED <<toServer, cpc, reader, challenge, fault>>
    BY <1>0, <1>7 DEF ReadFrame
  <2>2. spc[c] \in {"ok", "served"}
    BY <1>0, <2>1 DEF Talk, HelloPhase, ChallengePhase, ResponsePhase, VerifyPhase,
       FailedPhase
  <2>3. /\ FramesAfter(toClient[c], Len(got[c]), frames[c])
        /\ \A i \in DOMAIN got[c] : got[c][i] = ServerMessage(i)
        /\ got[c] \in Seq(ServerMsgs)
    BY <1>0, <2>1, <2>2 DEF Talk, ServedPhase
  <2> DEFINE m == ServerMessage(Len(got[c]) + 1)
  <2>4. Head(toClient[c]) = <<m>>
    <3>1. 1 \in DOMAIN toClient[c] /\ Head(toClient[c]) = toClient[c][1]
      BY <1>0, <2>1
    <3>2. 1 + Len(got[c]) = Len(got[c]) + 1
      BY <2>3
    <3> QED
      BY <2>3, <3>1, <3>2 DEF FramesAfter
  <2>5. m \in ServerMsgs
    BY <2>3 DEF ServerMessage, ServerMsgs
  <2>6. /\ Len(got'[c]) = Len(got[c]) + 1
        /\ \A i \in DOMAIN got'[c] : got'[c][i] = ServerMessage(i)
    <3>1. got'[c] = got[c] \o <<m>>
      BY <2>1, <2>4
    <3>2. \A i \in DOMAIN got'[c] :
             \/ i = Len(got[c]) + 1 /\ got'[c][i] = m
             \/ i \in DOMAIN got[c] /\ got'[c][i] = got[c][i]
      <4> HIDE DEF m
      <4> QED
        BY <2>3, <2>5, <3>1
    <3>3. Len(got'[c]) = Len(got[c]) + 1
      <4> HIDE DEF m
      <4> QED
        BY <2>3, <2>5, <3>1
    <3> QED
      BY <2>3, <3>2, <3>3
  <2>7. FramesAfter(toClient'[c], Len(got'[c]), frames[c])
    <3>1. /\ Len(toClient'[c]) = Len(toClient[c]) - 1
          /\ \A i \in DOMAIN toClient'[c] :
               i \in Nat /\ i + 1 \in DOMAIN toClient[c] /\ toClient'[c][i] = toClient[c][i + 1]
      BY <1>0, <2>1
    <3>2. PICK n \in Nat, l \in Nat : n = Len(got[c]) /\ l = Len(toClient[c])
      BY <1>0
    <3>3. Len(got'[c]) = n + 1 /\ l + n = frames[c] /\ Len(toClient'[c]) = l - 1
      BY <2>3, <2>6, <3>1, <3>2 DEF FramesAfter
    <3>4. (l - 1) + (n + 1) = l + n
      OBVIOUS
    <3>5. Len(toClient'[c]) + Len(got'[c]) = frames[c]
      BY <3>3, <3>4
    <3>6. ASSUME NEW i \in DOMAIN toClient'[c]
          PROVE  toClient'[c][i] = <<ServerMessage(i + Len(got'[c]))>>
      <4>1. toClient'[c][i] = <<ServerMessage((i + 1) + Len(got[c]))>>
        BY <2>3, <3>1 DEF FramesAfter
      <4>2. (i + 1) + n = i + (n + 1)
        BY <3>1
      <4> QED
        BY <3>2, <3>3, <4>1, <4>2
    <3> QED
      BY <3>5, <3>6 DEF FramesAfter
  <2> QED
    BY <1>1, <2>1, <2>2, <2>6, <2>7 DEF Talk, ServedPhase
<1>8. CASE ClientEOF(c)
  <2>1. /\ cpc[c] # "connected" /\ cpc'[c] = "failed" /\ spc[c] \in {"failed", "served"}
        /\ UNCHANGED <<toServer, toClient, reader, challenge, got, fault>>
    BY <1>0, <1>8 DEF ClientEOF, Ended
  <2> QED
    BY <1>1, <2>1 DEF Talk, ServedPhase, FailedPhase
<1>9. CASE ClientTimeout(c)
  <2>1. /\ cpc[c] # "connected" /\ cpc'[c] = "failed" /\ fault'[c]
        /\ UNCHANGED <<toServer, toClient, reader, challenge, got>>
    BY <1>0, <1>9 DEF ClientTimeout
  <2>2. Answer(c)' = Answer(c)
    BY <1>1 DEF Answer
  <2> QED
    BY <1>1, <2>1, <2>2 DEF Talk, HelloPhase, ChallengePhase, ResponsePhase, VerifyPhase,
       ServedPhase, FailedPhase
<1> QED
  BY <1>2, <1>3, <1>4, <1>5, <1>6, <1>7, <1>8, <1>9 DEF Library

\* Every step keeps the library and the router in step on every connection.
LEMMA InStepStep ==
  ASSUME ServerTypes, ClientTypes, Lent, InStep, [Next]_vars
  PROVE  InStep'
<1>0. UNCHANGED <<lib, owner>>
  BY MadeStep
<1> DEFINE T(d) == IF lib[d] THEN Talk(d)' ELSE cpc'[d] = "hello"
<1> SUFFICES ASSUME NEW d \in Conns
             PROVE  T(d)
  BY <1>0 DEF InStep
<1>1. IF lib[d] THEN Talk(d) ELSE cpc[d] = "hello"
  BY DEF InStep
<1>2. CASE Same(d)
  BY <1>1, <1>2, TalkKept DEF Same
<1>3. CASE Server(d) \/ Fails(d) \/ WriteFrame(d) \/ Release(d)
  <2>1. UNCHANGED cpc
    BY <1>3 DEF Server, Start, ReadHello, SendChallenge, ReadResponse, Verify, CheckTime,
       SendResult, CopyID, Fails, WriteFrame, Release, clientVars
  <2> QED
    BY <1>1, <1>3, <2>1, ServerTalks
<1>4. CASE Library(d) \/ ClientTimeout(d)
  <2>1. lib[d]
    BY <1>1, <1>4 DEF Library, SendHello, Fill, DecodeChallenge, SendResponse,
       DecodeResult, ReadFrame, ClientEOF, ClientTimeout
  <2> QED
    BY <1>1, <1>4, <2>1, LibraryTalks
<1>5. CASE OtherSends(d)
  <2>1. ~lib[d] /\ UNCHANGED cpc
    BY <1>5 DEF OtherSends
  <2> QED
    BY <1>1, <2>1
<1>6. ASSUME NEW c \in Conns, c # d,
             Server(c) \/ Fails(c) \/ WriteFrame(c) \/ Release(c)
      PROVE  Same(d)
  BY <1>0, <1>6, ServerLocal DEF Same
<1>7. ASSUME NEW c \in Conns, c # d, Library(c) \/ ClientTimeout(c) \/ OtherSends(c)
      PROVE  Same(d)
  BY <1>7, ClientLocal
<1>8. CASE SetClock \/ UNCHANGED vars
  <2>1. Same(d)
    BY <1>8 DEF SetClock, vars, given, serverVars, clientVars, Same
  <2> QED
    BY <1>2, <2>1
<1> HIDE DEF T
<1> QED
  BY <1>2, <1>3, <1>4, <1>5, <1>6, <1>7, <1>8 DEF Next

-----------------------------------------------------------------------------
(* Theorems                                                                *)

\* The invariant holds when Serve has made its buffers and nothing is read.
LEMMA InitAuth ==
  Init => AuthInv
<1> SUFFICES ASSUME Init
             PROVE  AuthInv
  OBVIOUS
<1>1. ServerTypes
  BY TimeAssumption DEF Init, ServerTypes
<1>2. ClientTypes
  BY DEF Init, ClientTypes
<1>3. Lent /\ Signed /\ FreshWhenChecked
  BY DEF Init, Lent, Busy, Signed, FreshWhenChecked
<1>4. Known
  BY DEF Init, Known
<1>5. InStep
  BY DEF Init, InStep, Talk, HelloPhase
<1> QED
  BY <1>1, <1>2, <1>3, <1>4, <1>5 DEF AuthInv

\* The invariant the handshake rests on holds of every state: buffers are lent
\* to one handler at a time, signatures are bound to the connection of the end
\* that made them, and the library and the router agree on where they are.
THEOREM AuthInductive == Spec => []AuthInv
<1>1. AuthInv /\ [Next]_vars => AuthInv'
  BY ServerTypesStep, ClientTypesStep, LentStep, SignedStep, KnownStep, InStepStep,
     FreshStep DEF AuthInv
<1> QED
  BY InitAuth, <1>1, PTL DEF Spec

\* handleConn takes for the PeerID of a connection the key its other end has.
THEOREM IdentityIsRight == Spec => []RightIdentity
<1>1. AuthInv => RightIdentity
  BY DEF AuthInv, Known, RightIdentity
<1> QED
  BY <1>1, AuthInductive, PTL

\* When the library's Connect has returned, the router has accepted this very
\* connection.
THEOREM ConnectMeansAccepted == Spec => []ConnectedIsAccepted
<1>1. AuthInv => ConnectedIsAccepted
  <2> SUFFICES ASSUME AuthInv, NEW c \in Conns, cpc[c] = "connected"
               PROVE  spc[c] \in {"ok", "served"}
    BY DEF ConnectedIsAccepted
  <2>1. Talk(c) /\ spc[c] \in {"new", "hello", "challenge", "response", "verify", "time",
                               "result", "ok", "served", "failed"}
    BY DEF AuthInv, InStep, ServerTypes
  <2> QED
    BY <2>1 DEF Talk, HelloPhase, ChallengePhase, ResponsePhase, VerifyPhase, FailedPhase
<1> QED
  BY <1>1, AuthInductive, PTL

\* The router refuses the library only for a deadline, a failed read or write,
\* or the clock.
THEOREM LibraryIsAccepted == Spec => []LibraryAccepted
<1>1. AuthInv => LibraryAccepted
  BY DEF AuthInv, InStep, Talk, FailedPhase, LibraryAccepted
<1> QED
  BY <1>1, AuthInductive, PTL

\* A challenge is accepted exactly when it is between zero and TTL seconds old,
\* whatever the clock was set to in between: on uint64 the two comparisons of
\* step 12 amount to that.
THEOREM AgeIsBounded == Spec => []AgeBounded
<1>1. AuthInv => AgeBounded
  <2> SUFFICES ASSUME AuthInv, NEW c \in Conns
               PROVE  /\ spc[c] \in {"result", "ok", "served"} =>
                            checked[c] - timestamp[c] \in 0..TTL
                      /\ clock - timestamp[c] \in 0..TTL => TimestampValid(timestamp[c])
    BY DEF AgeBounded
  <2>1. spc[c] \in {"result", "ok", "served"} => checked[c] - timestamp[c] \in 0..TTL
    BY DEF AuthInv, FreshWhenChecked
  <2>2. TimestampValid(timestamp[c]) <=> clock - timestamp[c] \in 0..TTL
    BY AgeOfTimestamp DEF AuthInv, ServerTypes
  <2> QED
    BY <2>1, <2>2
<1> QED
  BY <1>1, AuthInductive, PTL

\* No message written right after the handshake is lost between the client's
\* two readers.
THEOREM NothingLostBetweenReaders == Spec => []ReadersLoseNothing
<1>1. AuthInv => ReadersLoseNothing
  <2> SUFFICES ASSUME AuthInv, NEW c \in Conns, cpc[c] = "connected"
               PROVE  /\ Len(got[c]) + Len(toClient[c]) = frames[c]
                      /\ \A i \in DOMAIN got[c] : got[c][i] = ServerMessage(i)
    BY DEF ReadersLoseNothing
  <2>1. Talk(c) /\ spc[c] \in {"new", "hello", "challenge", "response", "verify", "time",
                               "result", "ok", "served", "failed"}
    BY DEF AuthInv, InStep, ServerTypes
  <2>2. ServedPhase(c)
    BY <2>1 DEF Talk, HelloPhase, ChallengePhase, ResponsePhase, VerifyPhase, FailedPhase
  <2>3. PICK n \in Nat, l \in Nat : n = Len(got[c]) /\ l = Len(toClient[c])
    BY DEF AuthInv, ClientTypes
  <2>4. Len(toClient[c]) + Len(got[c]) = frames[c]
    BY <2>2 DEF ServedPhase, FramesAfter
  <2>5. n + l = l + n
    OBVIOUS
  <2>6. \A i \in DOMAIN got[c] : got[c][i] = ServerMessage(i)
    BY <2>2 DEF ServedPhase
  <2> QED
    BY <2>3, <2>4, <2>5, <2>6
<1> QED
  BY <1>1, AuthInductive, PTL

=============================================================================

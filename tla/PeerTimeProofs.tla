--------------------------- MODULE PeerTimeProofs ---------------------------
(***************************************************************************)
(* Proofs about the token bucket and the write deadline of a peer, for     *)
(* every burst, rate and timeout.                                          *)
(*                                                                         *)
(* The bucket is bounded from both sides: since any message was handled it *)
(* has lost a token for every one asked for and gained no more than the    *)
(* time that passed (Above), and since it was last full it has gained all  *)
(* of that time (Below).                                                   *)
(***************************************************************************)
EXTENDS PeerTime, TLAPS

\* A full bucket and the price of k messages, in ticks.
Full    == Burst * Period
Cost(k) == k * Period

LEMMA Costs ==
  /\ Full \in Nat /\ Cost(0) = 0
  /\ Burst > 0 => Full >= Period
  /\ \A k \in Int : Cost(k) \in Int /\ Cost(k + 1) = Cost(k) + Period
<1>1. Burst \in Nat /\ Period \in Nat /\ Period > 0
  BY BurstAssumption, PeriodAssumption
<1>2. Full \in Nat
  BY <1>1 DEF Full
<1>3. Burst > 0 => Full >= Period
  <2>1. ASSUME Burst > 0
        PROVE  Full >= Period
    <3>1. PICK b \in Nat : Burst = b + 1
      <4>1. Burst - 1 \in Nat /\ Burst = (Burst - 1) + 1
        BY <1>1, <2>1
      <4> QED
        BY <4>1
    <3>2. (b + 1) * Period = b * Period + Period /\ b * Period \in Nat
      BY <1>1
    <3> QED
      BY <1>1, <3>1, <3>2 DEF Full
  <2> QED
    BY <2>1
<1>4. ASSUME NEW k \in Int
      PROVE  Cost(k) \in Int /\ Cost(k + 1) = Cost(k) + Period
  BY <1>1 DEF Cost
<1>5. Cost(0) = 0
  BY <1>1 DEF Cost
<1> QED
  BY <1>2, <1>3, <1>4, <1>5

-----------------------------------------------------------------------------
(* The inductive invariant                                                 *)

TimeTypes ==
    /\ now \in Nat /\ last \in Nat /\ last <= now
    /\ credit \in Nat /\ credit <= Full
    /\ handled \in Seq(Nat)
    /\ limitedAt \in Int
    /\ rl \in {"check", "read", "done"}

\* The messages a token was taken for, while the read loop runs.
Asked == IF rl = "read" THEN Len(handled) + 1 ELSE Len(handled)

\* Since message i was handled.
Above == \A i \in DOMAIN handled :
            Tokens + Cost(Asked - i) <= Full + (now - handled[i])

\* Since time t, when the bucket was full and the token of message m was taken.
FullAt(m, t) ==
    /\ Tokens >= Full + (now - t) - Cost(Asked - m + 1)
    /\ t <= now
    /\ m \in DOMAIN handled => t <= handled[m]
Below == \/ Tokens = Full
         \/ \E m \in 1..Asked, t \in Nat : FullAt(m, t)

\* The deadline that a write runs under was set no more than half a timeout
\* before the write began.
DeadlineInv ==
    /\ now \in Nat /\ now <= MaxTime
    /\ lastDeadline \in Int /\ deadline \in Int /\ started \in Nat
    /\ \/ lastDeadline = -(2 * WriteTimeout)
       \/ lastDeadline \in Nat /\ lastDeadline <= now /\ deadline = lastDeadline + WriteTimeout
    /\ wl = "write" =>
          /\ lastDeadline \in Nat /\ deadline = lastDeadline + WriteTimeout
          /\ lastDeadline <= started /\ started <= now
          /\ started - lastDeadline <= WriteTimeout \div 2
          /\ now <= deadline

BucketInv ==
    /\ TimeTypes
    /\ rl # "done" => Above /\ Below /\ limitedAt = -1
    /\ RateBounded
    /\ LimitedOnlyWhenExceeded

-----------------------------------------------------------------------------
(* The write deadline                                                      *)

\* A write has at least half of the timeout and lasts no longer than all.
THEOREM WritesHaveTime == Spec => []WriteHasTime
<1>0. /\ WriteTimeout \in Nat /\ WriteTimeout > 0 /\ MaxTime \in Nat
      /\ WriteTimeout \div 2 \in Nat /\ WriteTimeout \div 2 <= WriteTimeout
  BY TimeoutAssumption, TimeBounds
<1>1. Init => DeadlineInv
  BY <1>0 DEF Init, DeadlineInv, NoDeadline
<1>2. DeadlineInv /\ [Next]_vars => DeadlineInv'
  <2> SUFFICES ASSUME DeadlineInv, [Next]_vars
               PROVE  DeadlineInv'
    OBVIOUS
  <2>1. CASE StartWrite
    <3>1. CASE now - lastDeadline > WriteTimeout \div 2
      <4>1. /\ deadline' = now + WriteTimeout /\ lastDeadline' = now
            /\ started' = now /\ now' = now
        BY <2>1, <3>1 DEF StartWrite, RenewDeadline
      <4> QED
        BY <1>0, <4>1 DEF DeadlineInv
    <3>2. CASE ~(now - lastDeadline > WriteTimeout \div 2)
      <4>1. /\ deadline' = deadline /\ lastDeadline' = lastDeadline
            /\ started' = now /\ now' = now
        BY <2>1, <3>2 DEF StartWrite, RenewDeadline
      <4>2. lastDeadline # -(2 * WriteTimeout)
        BY <1>0, <3>2 DEF DeadlineInv
      <4> QED
        BY <1>0, <3>2, <4>1, <4>2 DEF DeadlineInv
    <3> QED
      BY <3>1, <3>2
  <2>2. CASE WriteDone \/ WriteFails \/ WriterStops
    <3>1. UNCHANGED <<now, lastDeadline, deadline, started>> /\ wl' # "write"
      BY <2>2 DEF WriteDone, WriteFails, WriterStops
    <3> QED
      BY <3>1 DEF DeadlineInv
  <2>3. CASE Tick
    <3>1. /\ now' = now + 1 /\ now < MaxTime /\ UNCHANGED writeVars
          /\ wl = "write" => ~(now >= deadline)
      BY <2>3 DEF Tick
    <3> QED
      BY <1>0, <3>1 DEF DeadlineInv, writeVars
  <2>4. CASE ReadLoop \/ UNCHANGED vars
    <3>1. UNCHANGED <<now, writeVars>>
      BY <2>4 DEF ReadLoop, SeesClosed, Allowed, Limited, Handles, HandleFails, vars, writeVars
    <3> QED
      BY <3>1 DEF DeadlineInv, writeVars
  <2> QED
    BY <2>1, <2>2, <2>3, <2>4 DEF Next, WriteLoop
<1>3. DeadlineInv => WriteHasTime
  BY <1>0 DEF DeadlineInv, WriteHasTime
<1> QED
  BY <1>1, <1>2, <1>3, PTL DEF Spec

-----------------------------------------------------------------------------
(* The token bucket                                                        *)

\* The bucket holds what it held, and the time since, and never overflows.
LEMMA TokenTypes ==
  ASSUME TimeTypes
  PROVE  /\ Tokens \in Nat /\ Tokens <= Full
         /\ Tokens = Full \/ Tokens = credit + (now - last)
         /\ credit + (now - last) \in Nat
         /\ Tokens <= credit + (now - last)
<1>1. Tokens = IF credit + (now - last) > Full THEN Full ELSE credit + (now - last)
  BY DEF Tokens, Full
<1>2. Full \in Nat /\ credit \in Nat /\ now \in Nat /\ last \in Nat /\ last <= now
  BY Costs DEF TimeTypes
<1> QED
  BY <1>1, <1>2

\* Time fills it by as much, or up to the brim.
LEMMA TokensTick ==
  ASSUME TimeTypes, now' = now + 1, UNCHANGED <<credit, last>>
  PROVE  /\ Tokens' \in Nat /\ Tokens' <= Full /\ Tokens' <= Tokens + 1
         /\ Tokens' = Full \/ Tokens' = Tokens + 1
<1>1. Full \in Nat /\ Full' = Full
  BY Costs DEF Full
<1>2. /\ Tokens = IF credit + (now - last) > Full THEN Full ELSE credit + (now - last)
      /\ Tokens' = IF credit' + (now' - last') > Full THEN Full ELSE credit' + (now' - last')
  BY DEF Tokens, Full
<1> QED
  BY <1>1, <1>2 DEF TimeTypes

\* A message takes its token.
LEMMA TokensTaken ==
  ASSUME TimeTypes, AllowMessage, now' = now
  PROVE  Tokens' = Tokens - Period /\ Tokens >= Period
<1>1. Tokens \in Nat /\ Tokens <= Full /\ Tokens >= Period
  BY TokenTypes DEF AllowMessage
<1>2. credit' = Tokens - Period /\ last' = now
  BY DEF AllowMessage
<1>3. Full \in Nat /\ Period \in Nat /\ now \in Nat
  BY Costs, PeriodAssumption DEF TimeTypes
<1>4. Tokens' = IF credit' + (now' - last') > Full THEN Full ELSE credit' + (now' - last')
  BY DEF Tokens, Full
<1>5. credit' + (now' - last') = Tokens - Period
  BY <1>1, <1>2, <1>3
<1> QED
  BY <1>1, <1>3, <1>4, <1>5

LEMMA BucketStep ==
  BucketInv /\ [Next]_vars => BucketInv'
<1> SUFFICES ASSUME BucketInv, [Next]_vars
             PROVE  BucketInv'
  OBVIOUS
<1>0. /\ TimeTypes /\ now \in Nat /\ handled \in Seq(Nat) /\ Len(handled) \in Nat
      /\ Tokens \in Nat /\ Tokens <= Full /\ Full \in Nat
      /\ Period \in Nat /\ Period > 0
      /\ RateBounded /\ LimitedOnlyWhenExceeded
      /\ DOMAIN handled = 1..Len(handled)
      /\ \A i \in DOMAIN handled : handled[i] \in Nat
      /\ Asked \in Nat
  <2>1. /\ TimeTypes /\ now \in Nat /\ handled \in Seq(Nat)
        /\ RateBounded /\ LimitedOnlyWhenExceeded
    BY DEF BucketInv, TimeTypes
  <2>2. Asked \in Nat
    BY <2>1 DEF Asked
  <2>3. Tokens \in Nat /\ Tokens <= Full /\ Full \in Nat
    BY <2>1, Costs, TokenTypes
  <2>4. Period \in Nat /\ Period > 0
    BY PeriodAssumption
  <2>5. /\ Len(handled) \in Nat /\ DOMAIN handled = 1..Len(handled)
        /\ \A i \in DOMAIN handled : handled[i] \in Nat
    BY <2>1
  <2> QED
    BY <2>1, <2>2, <2>3, <2>4, <2>5
<1>1. CASE Allowed
  <2>1. /\ rl = "check" /\ rl' = "read" /\ UNCHANGED <<now, handled, limitedAt>>
        /\ AllowMessage /\ Above /\ Below /\ limitedAt = -1
    BY <1>1 DEF Allowed, BucketInv
  <2>2. Tokens' = Tokens - Period /\ Tokens >= Period /\ Asked' = Asked + 1
        /\ Asked = Len(handled)
    BY <1>0, <2>1, TokensTaken DEF Asked
  <2>3. TimeTypes'
    <3>1. Full' = Full /\ credit' = Tokens - Period /\ last' = now
      BY <2>1 DEF AllowMessage, Full
    <3> QED
      BY <1>0, <2>1, <2>2, <3>1 DEF TimeTypes
  <2>4. Above'
    <3>1. ASSUME NEW i \in DOMAIN handled
          PROVE  Tokens' + Cost(Asked' - i) <= Full + (now - handled[i])
      <4>1. Tokens + Cost(Asked - i) <= Full + (now - handled[i])
        BY <2>1 DEF Above
      <4>2. PICK k \in Int : k = Asked - i
        BY <1>0
      <4>3. Asked' - i = k + 1
        BY <1>0, <2>2, <4>2
      <4>4. Cost(k + 1) = Cost(k) + Period /\ Cost(k) \in Int
        BY Costs
      <4>5. Tokens + Cost(k) <= Full + (now - handled[i])
        BY <4>1, <4>2
      <4>6. (Tokens - Period) + (Cost(k) + Period) <= Full + (now - handled[i])
        BY <1>0, <4>4, <4>5
      <4> QED
        BY <2>2, <4>3, <4>4, <4>6
    <3> QED
      BY <2>1, <3>1 DEF Above, Full
  <2>5. Below'
    <3>1. CASE Tokens = Full
      <4>1. PICK m \in Nat, t \in Nat : m = Asked + 1 /\ t = now
        BY <1>0
      <4>2. FullAt(m, t)'
        <5>1. Asked' - m + 1 = 0 + 1
          BY <1>0, <2>2, <4>1
        <5>2. Cost(0 + 1) = Period
          BY <1>0, Costs
        <5>3. m \notin DOMAIN handled
          BY <1>0, <2>2, <4>1
        <5>4. Tokens' >= Full + (now' - t) - Period
          BY <1>0, <2>1, <2>2, <3>1, <4>1
        <5> QED
          BY <1>0, <2>1, <4>1, <5>1, <5>2, <5>3, <5>4 DEF FullAt, Full
      <4>3. m \in 1..Asked'
        BY <1>0, <2>2, <4>1
      <4> QED
        BY <4>2, <4>3 DEF Below
    <3>2. CASE \E m \in 1..Asked, t \in Nat : FullAt(m, t)
      <4>1. PICK m \in 1..Asked, t \in Nat : FullAt(m, t)
        BY <3>2
      <4>2. PICK k \in Int : k = Asked - m + 1
        BY <1>0
      <4>3. Asked' - m + 1 = k + 1 /\ m \in 1..Asked'
        BY <1>0, <2>2, <4>2
      <4>4. Cost(k + 1) = Cost(k) + Period /\ Cost(k) \in Int
        BY Costs
      <4>5. Tokens >= Full + (now - t) - Cost(k)
        BY <4>1, <4>2 DEF FullAt
      <4>6. Tokens - Period >= Full + (now - t) - (Cost(k) + Period)
        BY <1>0, <4>4, <4>5
      <4>7. FullAt(m, t)'
        BY <2>1, <2>2, <4>1, <4>3, <4>4, <4>6 DEF FullAt, Full
      <4> QED
        BY <4>3, <4>7 DEF Below
    <3> QED
      BY <2>1, <3>1, <3>2 DEF Below
  <2> QED
    BY <1>0, <2>1, <2>3, <2>4, <2>5 DEF BucketInv, RateBounded, LimitedOnlyWhenExceeded
<1>2. CASE Handles
  <2>1. /\ rl = "read" /\ rl' = "check" /\ UNCHANGED <<now, credit, last, limitedAt>>
        /\ handled' = Append(handled, now) /\ Above /\ Below /\ limitedAt = -1
    BY <1>2 DEF Handles, BucketInv
  <2>2. /\ Tokens' = Tokens /\ Asked' = Asked /\ Asked = Len(handled) + 1
        /\ handled' \in Seq(Nat) /\ Len(handled') = Len(handled) + 1
        /\ DOMAIN handled' = 1..Asked
        /\ \A i \in DOMAIN handled : handled'[i] = handled[i]
        /\ handled'[Asked] = now
    BY <1>0, <2>1 DEF Tokens, Asked
  <2>3. TimeTypes'
    BY <1>0, <2>1, <2>2 DEF TimeTypes, Full
  <2>4. \A i \in DOMAIN handled' : i = Asked \/ i \in DOMAIN handled
    BY <1>0, <2>2
  <2>5. Above'
    <3>1. ASSUME NEW i \in DOMAIN handled'
          PROVE  Tokens + Cost(Asked - i) <= Full + (now - handled'[i])
      <4>1. CASE i = Asked
        <5>1. Asked - i = 0
          BY <1>0, <4>1
        <5> QED
          BY <1>0, <2>2, <4>1, <5>1, Costs
      <4>2. CASE i \in DOMAIN handled
        BY <2>1, <2>2, <4>2 DEF Above
      <4> QED
        BY <2>4, <4>1, <4>2
    <3> QED
      BY <2>1, <2>2, <3>1 DEF Above, Full
  <2>6. Below'
    <3>1. ASSUME NEW m \in 1..Asked, NEW t \in Nat, FullAt(m, t)
          PROVE  FullAt(m, t)'
      BY <1>0, <2>1, <2>2, <2>4, <3>1 DEF FullAt, Full
    <3> QED
      BY <2>1, <2>2, <3>1 DEF Below, Full
  <2>7. RateBounded'
    <3>1. ASSUME NEW i \in DOMAIN handled', NEW j \in DOMAIN handled', i <= j
          PROVE  Cost(j - i) <= Full + (handled'[j] - handled'[i])
      <4>1. CASE j \in DOMAIN handled
        <5>1. i \in DOMAIN handled
          BY <1>0, <2>2, <3>1, <4>1
        <5> QED
          BY <1>0, <2>2, <3>1, <4>1, <5>1 DEF RateBounded, Cost, Full
      <4>2. CASE j = Asked /\ i = Asked
        <5>1. j - i = 0 /\ handled'[j] = now /\ handled'[i] = now
          BY <1>0, <2>2, <4>2
        <5> QED
          BY <1>0, <5>1, Costs
      <4>3. CASE j = Asked /\ i \in DOMAIN handled
        <5>1. Tokens + Cost(Asked - i) <= Full + (now - handled[i])
          BY <2>1, <4>3 DEF Above
        <5>2. Cost(Asked - i) \in Int /\ handled[i] \in Nat
          BY <1>0, <4>3, Costs
        <5>3. Cost(Asked - i) <= Full + (now - handled[i])
          BY <1>0, <5>1, <5>2
        <5> QED
          BY <2>2, <4>3, <5>3
      <4> QED
        BY <2>4, <4>1, <4>2, <4>3
    <3> QED
      BY <3>1 DEF RateBounded, Cost, Full
  <2> QED
    BY <2>1, <2>3, <2>5, <2>6, <2>7 DEF BucketInv, LimitedOnlyWhenExceeded
<1>3. CASE Limited
  <2>1. /\ rl = "check" /\ rl' = "done" /\ UNCHANGED <<now, credit, last, handled>>
        /\ limitedAt' = now /\ Tokens < Period /\ Below /\ Asked = Len(handled)
    BY <1>3 DEF Limited, BucketInv, Asked
  <2>2. TimeTypes'
    BY <1>0, <2>1 DEF TimeTypes, Full
  <2>3. ASSUME Burst > 0
        PROVE  \E i \in DOMAIN handled : Cost(Len(handled) - i + 2) > Full + (now - handled[i])
    <3>1. Tokens # Full
      BY <1>0, <2>1, <2>3, Costs
    <3>2. PICK m \in 1..Asked, t \in Nat : FullAt(m, t)
      BY <2>1, <3>1 DEF Below
    <3>3. m \in DOMAIN handled /\ handled[m] \in Nat /\ t <= handled[m]
      BY <1>0, <2>1, <3>2 DEF FullAt
    <3>4. PICK k \in Int : k = Asked - m + 1
      BY <1>0
    <3>5. Cost(k + 1) = Cost(k) + Period /\ Cost(k) \in Int
      BY Costs
    <3>6. Tokens >= Full + (now - t) - Cost(k)
      BY <3>2, <3>4 DEF FullAt
    <3>7. Cost(k) + Period > Full + (now - handled[m])
      <4>1. /\ Tokens \in Int /\ Full \in Int /\ now \in Int /\ Period \in Int
            /\ t \in Int /\ handled[m] \in Int /\ Tokens < Period
        BY <1>0, <2>1, <3>3, PeriodAssumption
      <4> QED
        BY <3>3, <3>5, <3>6, <4>1
    <3>8. Len(handled) - m + 2 = k + 1
      BY <1>0, <2>1, <3>4
    <3> QED
      BY <3>3, <3>5, <3>7, <3>8
  <2>4. LimitedOnlyWhenExceeded'
    BY <2>1, <2>3 DEF LimitedOnlyWhenExceeded, Cost, Full
  <2> QED
    BY <1>0, <2>1, <2>2, <2>4 DEF BucketInv, RateBounded
<1>4. CASE SeesClosed \/ HandleFails
  <2>1. rl' = "done" /\ UNCHANGED <<now, credit, last, handled, limitedAt>>
    BY <1>4 DEF SeesClosed, HandleFails
  <2> QED
    BY <1>0, <2>1 DEF BucketInv, TimeTypes, Full, RateBounded, LimitedOnlyWhenExceeded
<1>5. CASE Tick
  <2>1. now' = now + 1 /\ UNCHANGED <<rl, credit, last, handled, limitedAt>>
    BY <1>5 DEF Tick, readVars
  <2>2. /\ Tokens' = Full \/ Tokens' = Tokens + 1
        /\ Tokens' \in Nat /\ Tokens' <= Full /\ Tokens' <= Tokens + 1 /\ Asked' = Asked
    BY <1>0, <2>1, TokensTick DEF Asked
  <2>3. TimeTypes'
    BY <1>0, <2>1 DEF TimeTypes, Full
  <2>4. ASSUME Above
        PROVE  Above'
    <3>1. ASSUME NEW i \in DOMAIN handled
          PROVE  Tokens' + Cost(Asked - i) <= Full + (now' - handled[i])
      <4>1. Tokens + Cost(Asked - i) <= Full + (now - handled[i])
        BY <2>4 DEF Above
      <4>2. Cost(Asked - i) \in Int /\ Tokens' \in Int
        BY <1>0, <2>2, Costs
      <4>3. handled[i] \in Nat /\ now' = now + 1 /\ Tokens' <= Tokens + 1
        BY <1>0, <2>1, <2>2
      <4>4. PICK c \in Int : c = Cost(Asked - i)
        BY <4>2
      <4>5. Tokens' + c <= Full + (now' - handled[i])
        <5>1. Tokens \in Int /\ Full \in Int /\ now \in Int /\ now' \in Int
          BY <1>0, <2>1
        <5>2. Tokens + c <= Full + (now - handled[i])
          BY <4>1, <4>4
        <5> QED
          BY <4>2, <4>3, <5>1, <5>2
      <4> QED
        BY <4>4, <4>5
    <3> QED
      BY <2>1, <2>2, <3>1 DEF Above, Full
  <2>5. ASSUME Below
        PROVE  Below'
    <3>1. CASE Tokens' = Full
      BY <3>1 DEF Below, Full
    <3>2. CASE Tokens' = Tokens + 1 /\ Tokens = Full
      BY <1>0, <2>2, <3>2
    <3>3. CASE Tokens' = Tokens + 1 /\ \E m \in 1..Asked, t \in Nat : FullAt(m, t)
      <4>1. PICK m \in 1..Asked, t \in Nat : FullAt(m, t)
        BY <3>3
      <4>2. Cost(Asked - m + 1) \in Int
        BY <1>0, Costs
      <4>3. FullAt(m, t)'
        BY <1>0, <2>1, <2>2, <3>3, <4>1, <4>2 DEF FullAt, Full
      <4> QED
        BY <2>2, <4>3 DEF Below
    <3> QED
      BY <2>2, <2>5, <3>1, <3>2, <3>3 DEF Below
  <2> QED
    BY <1>0, <2>1, <2>3, <2>4, <2>5 DEF BucketInv, RateBounded, LimitedOnlyWhenExceeded
<1>6. CASE WriteLoop \/ UNCHANGED vars
  <2>1. UNCHANGED <<now, readVars>>
    BY <1>6 DEF WriteLoop, StartWrite, WriteDone, WriteFails, WriterStops, vars, readVars
  <2> QED
    BY <1>0, <2>1 DEF BucketInv, TimeTypes, Full, Above, Below, FullAt, Tokens, Asked,
       readVars, RateBounded, LimitedOnlyWhenExceeded
<1> QED
  BY <1>1, <1>2, <1>3, <1>4, <1>5, <1>6 DEF Next, ReadLoop

\* The invariant of the token bucket.
THEOREM BucketInductive == Spec => []BucketInv
<1>1. Init => BucketInv
  <2> SUFFICES ASSUME Init
               PROVE  BucketInv
    OBVIOUS
  <2>1. TimeTypes
    BY Costs DEF Init, TimeTypes, Full
  <2>2. Tokens = Full /\ handled = <<>> /\ limitedAt = -1
    BY Costs DEF Init, Tokens, Full
  <2> QED
    BY <2>1, <2>2 DEF BucketInv, Above, Below, RateBounded, LimitedOnlyWhenExceeded
<1> QED
  BY <1>1, BucketStep, PTL DEF Spec

\* In any stretch of time at most Burst + 1 messages are handled, and one more
\* for every Period.
THEOREM RateIsBounded == Spec => []RateBounded
<1>1. BucketInv => RateBounded
  BY DEF BucketInv
<1> QED
  BY <1>1, BucketInductive, PTL

\* The limiter ends the connection of nobody who keeps to its rate.
THEOREM OnlyExcessIsLimited == Spec => []LimitedOnlyWhenExceeded
<1>1. BucketInv => LimitedOnlyWhenExceeded
  BY DEF BucketInv
<1> QED
  BY <1>1, BucketInductive, PTL

=============================================================================

------------------------------ MODULE PeerTime ------------------------------
(***************************************************************************)
(* The two places where a peer of the router looks at the clock, which the *)
(* module Peer leaves out: the token bucket of the read loop               *)
(* (AllowMessage, called before every read) and the write deadline, which  *)
(* writeMessage renews only every writeTimeout/2.                          *)
(*                                                                         *)
(* Time is a number of ticks and passes between any two steps.  Closing    *)
(* the peer is one step here; Peer has its interleavings.                  *)
(***************************************************************************)
EXTENDS Integers, Sequences

CONSTANTS
    Burst,        \* limits.rate_limit_burst
    Period,       \* ticks per token: 1 / limits.rate_limit_per_sec
    WriteTimeout, \* WriteTimeout, in ticks
    MaxTime,      \* bound: the clock
    MaxHandled    \* bound: messages handled

ASSUME BurstAssumption   == Burst \in Nat
ASSUME PeriodAssumption  == Period \in Nat \ {0}
ASSUME TimeoutAssumption == WriteTimeout \in Nat \ {0}
ASSUME TimeBounds        == MaxTime \in Nat /\ MaxHandled \in Nat

VARIABLES
    now,          \* the clock
    closed,       \* the peer and its connection are closed
    rl,           \* read loop: "check", "read", "done"
    credit,       \* the limiter's tokens when it was last used, in ticks
    last,         \* when the limiter was last used
    handled,      \* history: when each message was handled
    limitedAt,    \* when the limiter ended the connection, or -1
    wl,           \* write loop: "select", "write", "done"
    lastDeadline, \* Peer.lastDeadline; the zero time.Time is long ago
    deadline,     \* the write deadline of the connection
    started       \* when the write in progress began

readVars  == <<rl, credit, last, handled, limitedAt>>
writeVars == <<wl, lastDeadline, deadline, started>>
vars == <<now, closed, rl, credit, last, handled, limitedAt,
          wl, lastDeadline, deadline, started>>

\* authenticate has cleared the deadline of the connection: a write would
\* block for as long as the client likes.
NoDeadline == MaxTime + WriteTimeout + 1

Init ==
    /\ now = 0 /\ closed = FALSE
    /\ rl = "check" /\ credit = Burst * Period /\ last = 0
    /\ handled = <<>> /\ limitedAt = -1
    /\ wl = "select" /\ started = 0
    /\ lastDeadline = -(2 * WriteTimeout) /\ deadline = NoDeadline

-----------------------------------------------------------------------------
(* The read loop of handleConn                                             *)

\* What the limiter holds now: a token every Period ticks, at most Burst.
Tokens ==
    LET c == credit + (now - last)
    IN  IF c > Burst * Period THEN Burst * Period ELSE c

\* Mutant: a second token is taken when there is one.
AllowMessageTwice ==
    /\ Tokens >= Period
    /\ credit' = IF Tokens >= 2 * Period THEN Tokens - 2 * Period ELSE 0
    /\ last' = now

\* AllowMessage: limiter.Allow() takes a whole token, or takes nothing.
AllowMessage ==
    /\ Tokens >= Period
    /\ credit' = Tokens - Period
    /\ last' = now

\* The top of the loop: the peer is closed.
SeesClosed ==
    /\ rl = "check" /\ closed
    /\ rl' = "done"
    /\ UNCHANGED <<now, closed, credit, last, handled, limitedAt, writeVars>>

\* The limiter has a token, which is taken for the message to come.
Allowed ==
    /\ rl = "check" /\ ~closed
    /\ AllowMessage
    /\ rl' = "read"
    /\ UNCHANGED <<now, closed, handled, limitedAt, writeVars>>

\* Mutant: the excess is logged and the message handled.
LimitedLogs ==
    /\ rl = "check" /\ ~closed
    /\ Tokens < Period
    /\ rl' = "read"
    /\ UNCHANGED <<now, closed, credit, last, handled, limitedAt, writeVars>>

\* The limiter has none: the handler returns and its deferred calls close.
Limited ==
    /\ rl = "check" /\ ~closed
    /\ Tokens < Period
    /\ rl' = "done" /\ closed' = TRUE
    /\ limitedAt' = now
    /\ UNCHANGED <<now, credit, last, handled, writeVars>>

\* handleMessage returns without error; the peer may have been closed since it
\* read the message.
Handles ==
    /\ rl = "read"
    /\ Len(handled) < MaxHandled
    /\ handled' = Append(handled, now)
    /\ rl' = "check"
    /\ UNCHANGED <<now, closed, credit, last, limitedAt, writeVars>>

\* handleMessage fails.
HandleFails ==
    /\ rl = "read"
    /\ rl' = "done" /\ closed' = TRUE
    /\ UNCHANGED <<now, credit, last, handled, limitedAt, writeVars>>

ReadLoop == SeesClosed \/ Allowed \/ Limited \/ Handles \/ HandleFails

-----------------------------------------------------------------------------
(* writeLoop and writeMessage                                              *)

\* Mutant: lastDeadline is the deadline instead of the time it was set.
RenewDeadlineAhead ==
    IF now - lastDeadline > WriteTimeout \div 2
    THEN deadline' = now + WriteTimeout /\ lastDeadline' = now + WriteTimeout
    ELSE UNCHANGED <<deadline, lastDeadline>>

\* SetWriteDeadline, unless it was set at most writeTimeout/2 ago.
RenewDeadline ==
    IF now - lastDeadline > WriteTimeout \div 2
    THEN deadline' = now + WriteTimeout /\ lastDeadline' = now
    ELSE UNCHANGED <<deadline, lastDeadline>>

\* A message is taken from writeCh and its write begins; the select may take
\* one although the peer is closed, and the write then fails.
StartWrite ==
    /\ wl = "select"
    /\ RenewDeadline
    /\ started' = now
    /\ wl' = "write"
    /\ UNCHANGED <<now, closed, readVars>>

\* The client takes the data before the deadline.
WriteDone ==
    /\ wl = "write" /\ ~closed
    /\ now < deadline
    /\ wl' = "select"
    /\ UNCHANGED <<now, closed, lastDeadline, deadline, started, readVars>>

\* The write fails, at its deadline or because the connection is closed or
\* broken: writeLoop closes the peer and returns.
WriteFails ==
    /\ wl = "write"
    /\ wl' = "done" /\ closed' = TRUE
    /\ UNCHANGED <<now, lastDeadline, deadline, started, readVars>>

WriterStops ==
    /\ wl = "select" /\ closed
    /\ wl' = "done"
    /\ UNCHANGED <<now, closed, lastDeadline, deadline, started, readVars>>

WriteLoop == StartWrite \/ WriteDone \/ WriteFails \/ WriterStops

-----------------------------------------------------------------------------

\* Time passes, but a write that has reached its deadline returns first: the
\* runtime's timer makes it fail.
Tick ==
    /\ now < MaxTime
    /\ ~(wl = "write" /\ now >= deadline)
    /\ now' = now + 1
    /\ UNCHANGED <<closed, readVars, writeVars>>

Next ==
    \/ ReadLoop
    \/ WriteLoop
    \/ Tick
    \/ rl = "done" /\ wl = "done" /\ now = MaxTime /\ UNCHANGED vars

Spec == Init /\ [][Next]_vars

-----------------------------------------------------------------------------
(* Properties                                                              *)

\* The limiter protects the router: in any stretch of time no more than Burst
\* + 1 messages of a connection are handled, and one more for every Period
\* that has passed.  The one beyond Burst is real: the token of the next
\* message is taken in advance, and a client that was silent for a while has
\* that one and a full bucket.
RateBounded ==
    \A i, j \in DOMAIN handled :
        i <= j => (j - i) * Period <= Burst * Period + (handled[j] - handled[i])

\* The limiter disconnects only who exceeds it: up to the moment it ended the
\* connection there was a stretch in which the messages handled, and the one
\* asked for in advance, were more than Burst and one for every Period.
\* A client that keeps to Burst - 1 in a row and the rate is never cut off.
LimitedOnlyWhenExceeded ==
    limitedAt >= 0 /\ Burst > 0 =>
        \E i \in DOMAIN handled :
            (Len(handled) - i + 2) * Period > Burst * Period + (limitedAt - handled[i])

\* A write is never cut off early and never blocks for long: although the
\* deadline is shared by the writes of half a timeout, each has at least half
\* of WriteTimeout, and none lasts longer than all of it.
WriteHasTime ==
    wl = "write" =>
        /\ deadline - started >= WriteTimeout - WriteTimeout \div 2
        /\ now - started <= WriteTimeout

=============================================================================

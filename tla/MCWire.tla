------------------------------- MODULE MCWire -------------------------------
(***************************************************************************)
(* Wire for TLC: lengths at every boundary of the code.                    *)
(***************************************************************************)
EXTENDS Wire, TLC

Symmetry == Permutations(Bufs) \cup Permutations(Objs)

\* An OutgoingMessage by recipient, length of the id and length of the frame.
Out(to, id, total, utf8) ==
    [to |-> to, id |-> id, payload |-> total - minMessageSize - id, utf8 |-> utf8]

\* The shortest frame; the longest one that still fits when marshalled, and
\* the next; the longest one of the protocol, and the next; ids at and beyond
\* their limit; the recipients and ids a client may get wrong.
MCOutgoing ==
    { Out("lower", 0, 66, TRUE),
      Out("lower", 256, MaxMessageSize - Overhead, TRUE),
      Out("lower", 256, MaxMessageSize - Overhead + 1, TRUE),
      Out("lower", 256, MaxMessageSize, TRUE),
      Out("lower", 257, 400, TRUE), Out("lower", 1, MaxMessageSize + 1, TRUE),
      Out("upper", 1, 70, TRUE), Out("nothex", 1, 70, TRUE),
      Out("short", 1, 70, TRUE), Out("lower", 1, 70, FALSE) }

RawFrame(to, id, total) == [to |-> to, id |-> id, total |-> total, utf8 |-> TRUE]

\* Frames around the limits of handleMessage.
MCRaw == { RawFrame("lower", 0, 65), RawFrame("lower", 0, 66),
           RawFrame("lower", 1, 66), RawFrame("lower", 257, 400),
           RawFrame("lower", 1, CfgMax), RawFrame("lower", 1, CfgMax + 1) }

=============================================================================

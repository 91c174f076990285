------------------------------ MODULE Channel ------------------------------
(***************************************************************************)
(* What one hop of the message path promises: messages come out in the     *)
(* order in which they went in and each at most once.  While the channel   *)
(* is up none is skipped; once it is down, for good, some may be.          *)
(* The messages that go in are pairwise different.                         *)
(***************************************************************************)
EXTENDS Naturals, Sequences

VARIABLES
    sent,   \* what went in
    got,    \* what came out
    up      \* whether the channel is up

channelVars == <<sent, got, up>>

Init == sent = <<>> /\ got = <<>> /\ up = TRUE

\* The place in sent of what came out last, 0 when nothing did.
Last == IF got = <<>> THEN 0
        ELSE CHOOSE i \in DOMAIN sent : sent[i] = got[Len(got)]

\* A message that was not in sent goes in.
Put ==
    /\ Len(sent') = Len(sent) + 1
    /\ SubSeq(sent', 1, Len(sent)) = sent
    /\ \A i \in DOMAIN sent : sent[i] # sent'[Len(sent')]
    /\ UNCHANGED <<got, up>>

\* The next message comes out, or, when the channel is down, a later one.
Get ==
    /\ \E i \in Last + 1 .. Len(sent) :
          /\ up => i = Last + 1
          /\ got' = Append(got, sent[i])
    /\ UNCHANGED <<sent, up>>

Down == up /\ up' = FALSE /\ UNCHANGED <<sent, got>>

Next == Put \/ Get \/ Down

Spec == Init /\ [][Next]_channelVars

=============================================================================

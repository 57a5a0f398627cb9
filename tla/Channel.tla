------------------------------ MODULE Channel ------------------------------
(***************************************************************************)
(* What the simulations take a link to be, in each direction: messages     *)
(* arrive in the order they were sent, none twice and none invented, and   *)
(* delivery may stop at any point.                                         *)
(***************************************************************************)
EXTENDS Naturals, Sequences

CONSTANT Ends    \* the two ends of the link

VARIABLES
    sent,    \* per end, the number of messages it has sent: 1, 2, ...
    got      \* per end, what it has received from the other

channelVars == <<sent, got>>

Other(s) == CHOOSE t \in Ends : t # s

ChannelInit ==
    /\ sent = [s \in Ends |-> 0]
    /\ got = [s \in Ends |-> <<>>]

ChannelSend(s) ==
    /\ sent' = [sent EXCEPT ![s] = @ + 1]
    /\ UNCHANGED got

Deliver(s) ==
    /\ Len(got[s]) < sent[Other(s)]
    /\ got' = [got EXCEPT ![s] = Append(@, Len(@) + 1)]
    /\ UNCHANGED sent

ChannelNext == \E s \in Ends : ChannelSend(s) \/ Deliver(s)

ChannelSpec ==
    /\ ChannelInit
    /\ [][ChannelNext]_channelVars
=============================================================================

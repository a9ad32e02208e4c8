---------------------------- MODULE EventChannel ----------------------------
(***************************************************************************)
(* What the event bus promises to the handlers of an event, whatever the   *)
(* number of API processes and their failures: an event that has been      *)
(* published is handed to its handlers in the order of their subscription, *)
(* each of them is called once at most, and one that raises does not keep  *)
(* the next from its turn.  Nothing promises that an event arrives.        *)
(***************************************************************************)
EXTENDS Naturals

CONSTANTS
    Events,      \* events the domains publish
    Handlers     \* number of handlers subscribed to an event

VARIABLES
    sent,        \* events that have been published
    called,      \* per event: how many handler calls were made
    ran          \* per event: the handlers that returned without an exception

channelVars == <<sent, called, ran>>

ChannelInit ==
    /\ sent = {}
    /\ called = [e \in Events |-> 0]
    /\ ran = [e \in Events |-> {}]

Send(e) ==
    /\ e \notin sent
    /\ sent' = sent \cup {e}
    /\ UNCHANGED <<called, ran>>

Call(e) ==
    /\ e \in sent
    /\ called[e] < Handlers
    /\ called' = [called EXCEPT ![e] = @ + 1]
    /\ ran' \in {ran, [ran EXCEPT ![e] = @ \cup {called[e] + 1}]}
    /\ UNCHANGED sent

ChannelNext == \E e \in Events : Send(e) \/ Call(e)

ChannelSpec == ChannelInit /\ [][ChannelNext]_channelVars
=============================================================================

----------------------------- MODULE Broadcast -----------------------------
(***************************************************************************)
(* What the subscriber registries promise, without slices, locks, indexes  *)
(* or channels: every topic has a set of members, a message goes once to   *)
(* each client that was a member when its broadcast began, a broadcast     *)
(* ends only when all of them have it, and only a client whose context is  *)
(* done ever loses its membership.                                         *)
(***************************************************************************)
EXTENDS Integers, Sequences

CONSTANTS Clients, Topics, Messages, NoTopic, NoMessage

VARIABLES
    members,    \* members[t]: the clients a broadcast on t goes to
    topic,      \* topic[c]: the topic c has joined, at most one
    done,       \* the clients whose context is done
    inbox,      \* inbox[c]: what c has received, in order
    airTopic,   \* the topic of the broadcast under way, or NoTopic
    airMsg,     \* its message
    pending     \* the members that have not received it yet

vars == <<members, topic, done, inbox, airTopic, airMsg, pending>>

Init ==
    /\ members = [t \in Topics |-> {}]
    /\ topic = [c \in Clients |-> NoTopic]
    /\ done = {}
    /\ inbox = [c \in Clients |-> << >>]
    /\ airTopic = NoTopic
    /\ airMsg = NoMessage
    /\ pending = {}

Join(c, t) ==
    /\ topic[c] = NoTopic
    /\ airTopic # t
    /\ topic' = [topic EXCEPT ![c] = t]
    /\ members' = [members EXCEPT ![t] = @ \union {c}]
    /\ UNCHANGED <<done, inbox, airTopic, airMsg, pending>>

GiveUp(c) ==
    /\ c \notin done
    /\ done' = done \union {c}
    /\ UNCHANGED <<members, topic, inbox, airTopic, airMsg, pending>>

Announce(t, m) ==
    /\ airTopic = NoTopic
    /\ airTopic' = t
    /\ airMsg' = m
    /\ pending' = members[t]
    /\ UNCHANGED <<members, topic, done, inbox>>

Deliver(c) ==
    /\ c \in pending
    /\ inbox' = [inbox EXCEPT ![c] = Append(@, airMsg)]
    /\ pending' = pending \ {c}
    /\ UNCHANGED <<members, topic, done, airTopic, airMsg>>

Finish ==
    /\ airTopic # NoTopic
    /\ pending = {}
    /\ airTopic' = NoTopic
    /\ airMsg' = NoMessage
    /\ UNCHANGED <<members, topic, done, inbox, pending>>

Evict(c) ==
    /\ c \in done
    /\ airTopic = NoTopic
    /\ \E t \in Topics :
         /\ c \in members[t]
         /\ members' = [members EXCEPT ![t] = @ \ {c}]
    /\ UNCHANGED <<topic, done, inbox, airTopic, airMsg, pending>>

Next ==
    \/ Finish
    \/ \E t \in Topics, m \in Messages : Announce(t, m)
    \/ \E c \in Clients :
         \/ \E t \in Topics : Join(c, t)
         \/ GiveUp(c)
         \/ Deliver(c)
         \/ Evict(c)

Spec == Init /\ [][Next]_vars

=============================================================================

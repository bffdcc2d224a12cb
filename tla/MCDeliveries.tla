---------------------------- MODULE MCDeliveries -----------------------------
(***************************************************************************)
(* Two deliveries that are confirmed later: a job pushed to a target that  *)
(* reports when it is done, and a message of a topic that its subscribers  *)
(* ack.  They share no state: part says which is under way.  A topic has   *)
(* the subscriptions of one roster.                                        *)
(***************************************************************************)
EXTENDS PushSettle, TopicLog, TLC

CONSTANT Rosters   \* the sets of subscriptions that may exist together

VARIABLES part, roster

deliveryVars == <<vars, topicVars, part, roster>>

DeliveriesInit ==
    /\ Init /\ TopicInit
    /\ \/ part = "push" /\ roster = {}
       \/ part = "topic" /\ roster \in Rosters

DeliveriesNext ==
    \/ part = "push" /\ Next /\ UNCHANGED <<topicVars, part, roster>>
    \/ part = "topic" /\ TopicNext /\ subscribed' \subseteq roster /\ UNCHANGED <<vars, part, roster>>

DeliveriesSpec == DeliveriesInit /\ [][DeliveriesNext]_deliveryVars

Symmetric == Permutations(Publishers)
=============================================================================

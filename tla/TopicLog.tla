------------------------------ MODULE TopicLog ------------------------------
(***************************************************************************)
(* One declared log topic: publishers append to it, log subscriptions pull *)
(* from it and the retention sweep compacts it.  A subscription reads past *)
(* its cursor, a high-water mark, or leases messages one by one.           *)
(*                                                                         *)
(* A publisher mints the message's UUIDv7 before it inserts the row, so    *)
(* rows can appear in another order than their ids.  lease_topic_messages  *)
(* selects and then upserts in a READ COMMITTED transaction, so the row    *)
(* may have changed between the two; one call is under way at a time per   *)
(* subscription, and takes one message (a lease of several is several).    *)
(* purge_topic_messages is a series of queries with no transaction.        *)
(* Expiry of messages and of ephemeral subscriptions is left out.          *)
(***************************************************************************)
EXTENDS Naturals, FiniteSets

CONSTANTS
    Publishers,
    CursorSubs,   \* subscriptions consumed with read_topic_messages and ack_topic_cursor
    LeaseSubs,    \* subscriptions consumed with leases
    Leavers,      \* bound: the subscriptions that come and go
    MaxMsgs       \* bound on the messages published

ASSUME TopicAssumption ==
    CursorSubs \cap LeaseSubs = {} /\ IsFiniteSet(LeaseSubs) /\ MaxMsgs \in Nat

Subs == CursorSubs \cup LeaseSubs
Msgs == 1..MaxMsgs

VARIABLES
    mintedIds,    \* ids handed out: ids are minted in increasing order
    publishing,   \* per publisher: the id of the row it is about to insert, or 0
    log,          \* topic_messages
    subscribed,   \* topic_subscriptions
    cursor,       \* per cursor subscription, 0 when NULL; NULL for the others
    delivery,     \* topic_deliveries, per lease subscription: none, leased, free (lapsed or nacked) or acked
    picked,       \* per lease subscription: the message a lease has selected, or 0
    sweep,        \* the purge under way; disturbed: auxiliary, see Disturb
    seen,         \* auxiliary: per cursor subscription, messages returned to it
    done,         \* auxiliary: per lease subscription, messages it has acked
    owed,         \* auxiliary: per subscription, messages in the log since it joined
    overtaken,    \* auxiliary: per cursor subscription, rows that appeared below one seen
    excusedMsgs   \* auxiliary: messages purged by a disturbed sweep

topicVars == <<mintedIds, publishing, log, subscribed, cursor, delivery, picked, sweep,
               seen, done, owed, overtaken, excusedMsgs>>
auxVars == <<seen, done, owed, overtaken, excusedMsgs>>

NoSweep == [at |-> "idle", floor |-> 0, names |-> {}, ids |-> {}, disturbed |-> FALSE]

TopicTypeOK ==
    /\ mintedIds \in 0..MaxMsgs /\ publishing \in [Publishers -> 0..MaxMsgs]
    /\ log \subseteq Msgs /\ subscribed \subseteq Subs
    /\ cursor \in [CursorSubs -> 0..MaxMsgs]
    /\ delivery \in [LeaseSubs -> [Msgs -> {"none", "leased", "free", "acked"}]]
    /\ picked \in [LeaseSubs -> 0..MaxMsgs]
    /\ sweep \in [at : {"idle", "cursors", "names", "mixed", "counts", "delete"},
                  floor : 0..MaxMsgs, names : SUBSET LeaseSubs, ids : SUBSET Msgs,
                  disturbed : BOOLEAN]

TopicInit ==
    /\ mintedIds = 0 /\ publishing = [p \in Publishers |-> 0]
    /\ log = {} /\ subscribed = {} /\ sweep = NoSweep /\ excusedMsgs = {}
    /\ cursor = [s \in CursorSubs |-> 0]
    /\ delivery = [s \in LeaseSubs |-> [m \in Msgs |-> "none"]]
    /\ picked = [s \in LeaseSubs |-> 0]
    /\ seen = [s \in CursorSubs |-> {}] /\ done = [s \in LeaseSubs |-> {}]
    /\ owed = [s \in Subs |-> {}] /\ overtaken = [s \in CursorSubs |-> {}]

-----------------------------------------------------------------------------
(* Publishing.                                                             *)

\* publish_message mints the id ...
Mint(p) ==
    /\ publishing[p] = 0 /\ mintedIds < MaxMsgs
    /\ mintedIds' = mintedIds + 1
    /\ publishing' = [publishing EXCEPT ![p] = mintedIds + 1]
    /\ UNCHANGED <<log, subscribed, cursor, delivery, picked, sweep, auxVars>>

\* ... and inserts the row.
InsertMessage(p) ==
    LET m == publishing[p] IN
    /\ m # 0
    /\ log' = log \cup {m}
    /\ publishing' = [publishing EXCEPT ![p] = 0]
    /\ owed' = [s \in Subs |-> IF s \in subscribed THEN owed[s] \cup {m} ELSE owed[s]]
    /\ overtaken' = [s \in CursorSubs |-> IF \E n \in seen[s] : n > m
                                    THEN overtaken[s] \cup {m} ELSE overtaken[s]]
    /\ UNCHANGED <<mintedIds, subscribed, cursor, delivery, picked, sweep, seen, done, excusedMsgs>>

-----------------------------------------------------------------------------
(* Subscriptions.                                                          *)

\* The subscriptions change while a sweep is under way.
Disturb == sweep' = [sweep EXCEPT !.disturbed = @ \/ sweep.at # "idle"]

\* A new row has a NULL cursor: all that is still in the log is due to it.
register_subscription(s) ==
    /\ s \notin subscribed
    /\ subscribed' = subscribed \cup {s}
    /\ owed' = [owed EXCEPT ![s] = log]
    /\ Disturb
    /\ UNCHANGED <<mintedIds, publishing, log, cursor, delivery, picked, seen, done, overtaken, excusedMsgs>>

\* The row goes, with its cursor; the delivery rows stay.
unsubscribe(s) ==
    /\ s \in subscribed \cap Leavers
    /\ subscribed' = subscribed \ {s}
    /\ cursor' = [c \in CursorSubs |-> IF c = s THEN 0 ELSE cursor[c]]
    /\ seen' = [c \in CursorSubs |-> IF c = s THEN {} ELSE seen[c]]
    /\ overtaken' = [c \in CursorSubs |-> IF c = s THEN {} ELSE overtaken[c]]
    /\ owed' = [owed EXCEPT ![s] = {}]
    /\ Disturb
    /\ UNCHANGED <<mintedIds, publishing, log, delivery, picked, done, excusedMsgs>>

\* The oldest messages past the cursor, as many as the limit allows.
Unread(s) == {m \in log : m > cursor[s]}

\* Mutant: the rows come in any order, so a limit leaves out older ones.
read_topic_messages_Unordered(s) ==
    /\ s \in subscribed
    /\ \E m \in Unread(s) : seen' = [seen EXCEPT ![s] = @ \cup {m}]
    /\ UNCHANGED <<mintedIds, publishing, log, subscribed, cursor, delivery, picked, sweep,
                   done, owed, overtaken, excusedMsgs>>

read_topic_messages(s) ==
    /\ s \in subscribed
    /\ \E last \in Unread(s) :
          seen' = [seen EXCEPT ![s] = @ \cup {m \in Unread(s) : m <= last}]
    /\ UNCHANGED <<mintedIds, publishing, log, subscribed, cursor, delivery, picked, sweep,
                   done, owed, overtaken, excusedMsgs>>

\* A consumer acks one of the ids it has been given; a late ack never rewinds.
ack_topic_cursor(s) ==
    /\ s \in subscribed
    /\ \E m \in seen[s] :
          /\ cursor[s] < m
          /\ cursor' = [cursor EXCEPT ![s] = m]
    /\ UNCHANGED <<mintedIds, publishing, log, subscribed, delivery, picked, sweep, auxVars>>

-----------------------------------------------------------------------------
(* Leases.                                                                 *)

\* No delivery row yet, or a lease that has run out and was never acked.
Available(s, m) == delivery[s][m] \in {"none", "free"}

\* lease_topic_messages checks the subscription and selects ...
LeaseSelect(s, m) ==
    /\ picked[s] = 0 /\ s \in subscribed /\ m \in log /\ Available(s, m)
    /\ picked' = [picked EXCEPT ![s] = m]
    /\ UNCHANGED <<mintedIds, publishing, log, subscribed, cursor, delivery, sweep, auxVars>>

\* ... and upserts the delivery row, whatever has become of it since.
LeaseUpsert(s, m) ==
    /\ picked[s] = m
    /\ picked' = [picked EXCEPT ![s] = 0]
    /\ delivery' = [delivery EXCEPT ![s][m] = "leased"]
    /\ IF s \in subscribed THEN UNCHANGED sweep ELSE Disturb
    /\ UNCHANGED <<mintedIds, publishing, log, subscribed, cursor, auxVars>>

ack_message(s, m) ==
    /\ delivery[s][m] \in {"leased", "free"}
    /\ delivery' = [delivery EXCEPT ![s][m] = "acked"]
    /\ done' = [done EXCEPT ![s] = @ \cup {m}]
    /\ UNCHANGED <<mintedIds, publishing, log, subscribed, cursor, picked, sweep, seen, owed, overtaken, excusedMsgs>>

\* nack_message sets the end of the lease to 0; a lease that runs out is as free.
nack_message(s, m) ==
    /\ delivery[s][m] = "leased"
    /\ delivery' = [delivery EXCEPT ![s][m] = "free"]
    /\ UNCHANGED <<mintedIds, publishing, log, subscribed, cursor, picked, sweep, auxVars>>

-----------------------------------------------------------------------------
(* purge_topic_messages, one query at a time.                              *)

\* The lowest cursor; 0 stands for None: no subscription, or one with no cursor.
Floor ==
    IF subscribed = {} \/ subscribed \cap LeaseSubs # {} THEN 0
    ELSE CHOOSE f \in {cursor[s] : s \in subscribed} : \A s \in subscribed : f <= cursor[s]

ReadFloors ==
    /\ sweep.at = "idle"
    /\ sweep' = [NoSweep EXCEPT !.at = "cursors", !.floor = Floor]

SelectBelowFloor ==
    /\ sweep.at = "cursors"
    /\ sweep' = [sweep EXCEPT !.at = "names", !.ids = {m \in log : m <= sweep.floor}]

\* The subscriptions that have a delivery row, live or not.
ReadDeliverers ==
    /\ sweep.at = "names"
    /\ sweep' = [sweep EXCEPT !.at = "mixed",
                   !.names = {s \in LeaseSubs : \E m \in Msgs : delivery[s][m] # "none"}]

\* Mutant: the subscriptions that have leased nothing are not looked at.
Mixed_Never == FALSE

\* A topic with a log subscription that has no delivery row is left to the cursors.
Mixed == \E s \in subscribed : s \notin sweep.names

CheckMixed ==
    /\ sweep.at = "mixed"
    /\ sweep' = [sweep EXCEPT !.at = IF Mixed \/ sweep.names = {} THEN "delete" ELSE "counts"]

AckedBy(m) == {s \in LeaseSubs : delivery[s][m] = "acked"}

CountAcks ==
    /\ sweep.at = "counts"
    /\ sweep' = [sweep EXCEPT !.at = "delete",
                   !.ids = @ \cup {m \in log : Cardinality(AckedBy(m)) = Cardinality(sweep.names)}]

\* The messages go and their delivery rows with them.
DeleteMessages ==
    /\ sweep.at = "delete"
    /\ log' = log \ sweep.ids
    /\ delivery' = [s \in LeaseSubs |-> [m \in Msgs |-> IF m \in sweep.ids THEN "none" ELSE delivery[s][m]]]
    /\ excusedMsgs' = IF sweep.disturbed THEN excusedMsgs \cup sweep.ids ELSE excusedMsgs
    /\ sweep' = NoSweep

PurgeStep ==
    \/ /\ ReadFloors \/ SelectBelowFloor \/ ReadDeliverers \/ CheckMixed \/ CountAcks
       /\ UNCHANGED <<log, delivery, excusedMsgs>>
    \/ DeleteMessages

purge_topic_messages ==
    /\ PurgeStep
    /\ UNCHANGED <<mintedIds, publishing, subscribed, cursor, picked, seen, done, owed, overtaken>>

-----------------------------------------------------------------------------
TopicNext ==
    \/ \E p \in Publishers : Mint(p) \/ InsertMessage(p)
    \/ \E s \in Subs : register_subscription(s) \/ unsubscribe(s)
    \/ \E s \in CursorSubs : read_topic_messages(s) \/ ack_topic_cursor(s)
    \/ \E s \in LeaseSubs, m \in Msgs :
          LeaseSelect(s, m) \/ LeaseUpsert(s, m) \/ ack_message(s, m) \/ nack_message(s, m)
    \/ purge_topic_messages

TopicSpec == TopicInit /\ [][TopicNext]_topicVars

-----------------------------------------------------------------------------
\* A cursor passes no message of its subscription that was not returned to it,
\* late acks and re-reads included, but for a message whose row was inserted
\* after one with a higher id had been read (publish_message, read_topic_messages,
\* ack_topic_cursor), and what a disturbed sweep dropped.
NothingSkipped ==
    \A s \in CursorSubs : \A m \in owed[s] :
        m <= cursor[s] => m \in seen[s] \cup overtaken[s] \cup excusedMsgs

\* The sweep drops a message only when each subscription that was owed it has
\* acked it or moved its cursor past it, however publishes, reads, acks and
\* leases fall between its queries; a sweep under which a subscription comes or
\* goes is excused: it compares a count of rows with the number of names an
\* earlier query found (purge_topic_messages).
CompactedOnlyIfDone ==
    \A s \in subscribed : \A m \in owed[s] \ log :
        \/ s \in LeaseSubs /\ m \in done[s]
        \/ s \in CursorSubs /\ m <= cursor[s]
        \/ m \in excusedMsgs

\* What the documentation promises of log topics: at-least-once delivery.
AtLeastOnce == \A s \in CursorSubs : \A m \in owed[s] : m <= cursor[s] => m \in seen[s]
=============================================================================

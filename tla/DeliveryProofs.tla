--------------------------- MODULE DeliveryProofs ---------------------------
(***************************************************************************)
(* What holds of a log topic and of a pushed job for any number of         *)
(* publishers, subscriptions, messages, dispatches and events.             *)
(***************************************************************************)
EXTENDS PushSettle, TopicLog, FiniteSetTheorems, WellFoundedInduction, TLAPS

-----------------------------------------------------------------------------
(* A set of naturals has a least element.                                  *)
LEMMA LeastExists ==
    ASSUME NEW T \in SUBSET Nat, T # {}
    PROVE  \E x \in T : \A y \in T : x <= y
<1>1. PICK R : R = OpToRel(<, Nat)
  OBVIOUS
<1>2. \A x, y \in Nat : <<y, x>> \in R <=> y < x
  BY <1>1 DEF OpToRel
<1>3. IsWellFoundedOn(R, Nat)
  BY <1>1, NatLessThanWellFounded
<1>4. PICK x \in T : \A y \in T : ~(<<y, x>> \in R)
  BY <1>3, WFMin
<1>5. ASSUME NEW y \in T PROVE x <= y
  <2>1. x \in Nat /\ y \in Nat /\ ~(y < x)
    BY <1>2, <1>4
  <2> QED BY <2>1
<1> QED BY <1>5

-----------------------------------------------------------------------------
(* The log topic.                                                          *)

Sweeps == [at : {"idle", "cursors", "names", "mixed", "counts", "delete"},
           floor : 0..MaxMsgs, names : SUBSET LeaseSubs, ids : SUBSET Msgs, disturbed : BOOLEAN]

TopicTypes ==
    /\ mintedIds \in 0..MaxMsgs /\ publishing \in [Publishers -> 0..MaxMsgs]
    /\ log \subseteq Msgs /\ subscribed \subseteq Subs
    /\ cursor \in [CursorSubs -> 0..MaxMsgs]
    /\ delivery \in [LeaseSubs -> [Msgs -> {"none", "leased", "free", "acked"}]]
    /\ picked \in [LeaseSubs -> 0..MaxMsgs]
    /\ sweep \in Sweeps
    /\ seen \in [CursorSubs -> SUBSET Msgs] /\ done \in [LeaseSubs -> SUBSET Msgs]
    /\ owed \in [Subs -> SUBSET Msgs] /\ overtaken \in [CursorSubs -> SUBSET Msgs]
    /\ excusedMsgs \subseteq Msgs

(* Nothing is left of a subscription that is gone but its delivery rows.   *)
GoneIsGone ==
    \A s \in Subs \ subscribed :
        owed[s] = {} /\ (s \in CursorSubs => seen[s] = {} /\ cursor[s] = 0)

(* A cursor is a message it was given.                                     *)
CursorWasSeen == \A s \in CursorSubs : cursor[s] = 0 \/ cursor[s] \in seen[s]

(* Reads come in the order of the ids: what is owed below a message that   *)
(* was returned was returned too, overtaken, or dropped by a disturbed     *)
(* sweep.                                                                  *)
SeenInOrder ==
    \A s \in CursorSubs : \A n \in seen[s], m \in owed[s] :
        m <= n => m \in seen[s] \cup overtaken[s] \cup excusedMsgs

AckedIsDone == \A s \in LeaseSubs, m \in Msgs : delivery[s][m] = "acked" => m \in done[s]

Deliverers == {s \in LeaseSubs : \E m \in Msgs : delivery[s][m] # "none"}

(* What an undisturbed sweep has established so far still holds.           *)
FloorHolds ==
    sweep.floor = 0 \/ (/\ subscribed \cap LeaseSubs = {}
                        /\ \A s \in subscribed : sweep.floor <= cursor[s])

DoneByAll(m) == \A s \in subscribed : s \in LeaseSubs /\ m \in done[s]

SweepKnows ==
    /\ FloorHolds
    /\ sweep.at = "cursors" => sweep.ids = {}
    /\ sweep.at \in {"names", "mixed", "counts"} => \A m \in sweep.ids : m <= sweep.floor
    /\ sweep.at = "mixed" => Deliverers \subseteq sweep.names \cup subscribed
    /\ sweep.at = "counts" => Deliverers \subseteq sweep.names /\ subscribed \subseteq sweep.names
    /\ sweep.at = "delete" => \A m \in sweep.ids : m <= sweep.floor \/ DoneByAll(m)

SweepOK == sweep.at = "idle" \/ sweep.disturbed \/ SweepKnows

TopicInv ==
    /\ TopicTypes /\ GoneIsGone /\ CursorWasSeen /\ SeenInOrder /\ AckedIsDone /\ SweepOK
    /\ CompactedOnlyIfDone

(* The subscriptions, and with them the sweep, are disturbed.              *)
LEMMA DisturbedIsExcused ==
    ASSUME sweep \in Sweeps, Disturb
    PROVE  sweep' \in Sweeps /\ SweepOK'
<1>1. sweep' \in Sweeps /\ sweep'.at = sweep.at /\ (sweep.at # "idle" => sweep'.disturbed)
  BY DEF Disturb, Sweeps
<1> QED BY <1>1 DEF SweepOK

\* A publisher mints an id, and inserts the message under it later.
LEMMA PublishStep ==
    ASSUME TopicInv, NEW p \in Publishers, Mint(p) \/ InsertMessage(p)
    PROVE  TopicInv'
<1>1. CASE Mint(p)
  <2>1. TopicTypes'
    BY <1>1, TopicAssumption DEF Mint, auxVars, TopicInv, TopicTypes
  <2>2. UNCHANGED <<log, subscribed, cursor, delivery, sweep, seen, done, owed, overtaken, excusedMsgs>>
    BY <1>1 DEF Mint, auxVars
  <2>3. SweepOK'
    BY <2>2 DEF TopicInv, SweepOK, SweepKnows, FloorHolds, DoneByAll, Deliverers
  <2> QED BY <2>1, <2>2, <2>3 DEF TopicInv, GoneIsGone, CursorWasSeen, SeenInOrder, AckedIsDone,
                                  CompactedOnlyIfDone
<1>2. CASE InsertMessage(p)
  <2>1. PICK m : m = publishing[p]
    OBVIOUS
  <2>2. /\ m \in Msgs /\ log' = log \cup {m}
        /\ publishing' = [publishing EXCEPT ![p] = 0]
        /\ owed' = [s \in Subs |-> IF s \in subscribed THEN owed[s] \cup {m} ELSE owed[s]]
        /\ overtaken' = [s \in CursorSubs |-> IF \E n \in seen[s] : n > m
                                    THEN overtaken[s] \cup {m} ELSE overtaken[s]]
        /\ UNCHANGED <<mintedIds, subscribed, cursor, delivery, picked, sweep, seen, done, excusedMsgs>>
    BY <1>2, <2>1, TopicAssumption DEF InsertMessage, TopicInv, TopicTypes, Msgs
  <2>3. TopicTypes'
    BY <2>2, TopicAssumption DEF TopicInv, TopicTypes
  <2>4. SweepOK'
    BY <2>2 DEF TopicInv, SweepOK, SweepKnows, FloorHolds, DoneByAll, Deliverers
  <2>5. SeenInOrder'
    <3> SUFFICES ASSUME NEW s \in CursorSubs, NEW n \in seen[s], NEW k \in owed'[s], k <= n
                 PROVE  k \in seen[s] \cup overtaken'[s] \cup excusedMsgs
      BY <2>2 DEF SeenInOrder
    <3>1. s \in Subs /\ n \in Nat /\ overtaken[s] \subseteq overtaken'[s]
      BY <2>2, TopicAssumption DEF Subs, TopicInv, TopicTypes, Msgs
    <3>2. CASE k \in owed[s]
      BY <3>1, <3>2 DEF TopicInv, SeenInOrder
    <3>3. CASE k = m
      <4>1. CASE n > m
        BY <2>2, <3>3, <4>1
      <4>2. CASE n = m
        BY <3>3, <4>2
      <4> QED BY <2>2, <3>1, <3>3, <4>1, <4>2, TopicAssumption DEF Msgs
    <3> QED BY <2>2, <3>1, <3>2, <3>3
  <2>6. CompactedOnlyIfDone'
    BY <2>2 DEF TopicInv, TopicTypes, CompactedOnlyIfDone
  <2>7. GoneIsGone'
    BY <2>2 DEF TopicInv, GoneIsGone
  <2> QED BY <2>2, <2>3, <2>4, <2>5, <2>6, <2>7 DEF TopicInv, CursorWasSeen, AckedIsDone
<1> QED BY <1>1, <1>2

\* A subscription is made or given up.
LEMMA SubscribeStep ==
    ASSUME TopicInv, NEW s \in Subs, register_subscription(s) \/ unsubscribe(s)
    PROVE  TopicInv'
<1>0. sweep' \in Sweeps /\ SweepOK'
  BY DisturbedIsExcused DEF register_subscription, unsubscribe, TopicInv, TopicTypes
<1>1. CASE register_subscription(s)
  <2>1. /\ s \notin subscribed /\ subscribed' = subscribed \cup {s} /\ owed' = [owed EXCEPT ![s] = log]
        /\ UNCHANGED <<mintedIds, publishing, log, cursor, delivery, picked, seen, done, overtaken,
                       excusedMsgs>>
    BY <1>1 DEF register_subscription
  <2>2. TopicTypes'
    BY <1>0, <2>1 DEF TopicInv, TopicTypes
  <2>3. GoneIsGone'
    BY <2>1 DEF TopicInv, TopicTypes, GoneIsGone
  <2>4. SeenInOrder'
    BY <2>1 DEF TopicInv, TopicTypes, GoneIsGone, SeenInOrder
  <2>5. CompactedOnlyIfDone'
    BY <2>1 DEF TopicInv, TopicTypes, CompactedOnlyIfDone
  <2> QED BY <1>0, <2>1, <2>2, <2>3, <2>4, <2>5 DEF TopicInv, CursorWasSeen, AckedIsDone
<1>2. CASE unsubscribe(s)
  <2>1. /\ subscribed' = subscribed \ {s}
        /\ cursor' = [c \in CursorSubs |-> IF c = s THEN 0 ELSE cursor[c]]
        /\ seen' = [c \in CursorSubs |-> IF c = s THEN {} ELSE seen[c]]
        /\ overtaken' = [c \in CursorSubs |-> IF c = s THEN {} ELSE overtaken[c]]
        /\ owed' = [owed EXCEPT ![s] = {}]
        /\ UNCHANGED <<mintedIds, publishing, log, delivery, picked, done, excusedMsgs>>
    BY <1>2 DEF unsubscribe
  <2>2. TopicTypes'
    BY <1>0, <2>1, TopicAssumption DEF TopicInv, TopicTypes
  <2>3. GoneIsGone'
    BY <2>1 DEF TopicInv, TopicTypes, GoneIsGone
  <2>4. SeenInOrder' /\ CursorWasSeen'
    BY <2>1 DEF TopicInv, TopicTypes, SeenInOrder, CursorWasSeen
  <2>5. CompactedOnlyIfDone'
    BY <2>1 DEF TopicInv, TopicTypes, CompactedOnlyIfDone
  <2> QED BY <1>0, <2>1, <2>2, <2>3, <2>4, <2>5 DEF TopicInv, AckedIsDone
<1> QED BY <1>1, <1>2

\* A cursor subscription reads what its cursor has not passed, or moves the cursor.
LEMMA ReadStep ==
    ASSUME TopicInv, NEW s \in CursorSubs, read_topic_messages(s) \/ ack_topic_cursor(s)
    PROVE  TopicInv'
<1>0. s \in subscribed /\ s \in Subs /\ s \notin LeaseSubs /\ owed[s] \subseteq Msgs /\ Msgs \subseteq Nat
  BY TopicAssumption DEF read_topic_messages, ack_topic_cursor, Subs, TopicInv, TopicTypes, Msgs
<1>1. CASE read_topic_messages(s)
  <2>1. PICK last \in Unread(s) :
            seen' = [seen EXCEPT ![s] = seen[s] \cup {m \in Unread(s) : m <= last}]
    BY <1>1 DEF read_topic_messages, TopicInv, TopicTypes
  <2>2. UNCHANGED <<mintedIds, publishing, log, subscribed, cursor, delivery, picked, sweep,
                    done, owed, overtaken, excusedMsgs>>
    BY <1>1 DEF read_topic_messages
  <2>3. Unread(s) \subseteq Msgs /\ \A m \in log : m \in Unread(s) <=> m > cursor[s]
    BY DEF Unread, TopicInv, TopicTypes
  <2>4. TopicTypes'
    BY <2>1, <2>2, <2>3 DEF TopicInv, TopicTypes
  <2>5. SweepOK'
    BY <2>2 DEF TopicInv, SweepOK, SweepKnows, FloorHolds, DoneByAll, Deliverers
  <2>6. GoneIsGone' /\ CursorWasSeen'
    BY <1>0, <2>1, <2>2 DEF TopicInv, TopicTypes, GoneIsGone, CursorWasSeen
  <2>7. SeenInOrder'
    <3> SUFFICES ASSUME NEW c \in CursorSubs, NEW n \in seen'[c], NEW m \in owed[c], m <= n
                 PROVE  m \in seen'[c] \cup overtaken[c] \cup excusedMsgs
      BY <2>2 DEF SeenInOrder
    <3>1. seen[c] \subseteq seen'[c]
      BY <2>1 DEF TopicInv, TopicTypes
    <3>2. CASE n \in seen[c]
      BY <3>1, <3>2 DEF TopicInv, SeenInOrder
    <3>3. CASE n \notin seen[c]
      <4>1. c = s /\ n \in Unread(s) /\ n <= last
        BY <2>1, <3>3 DEF TopicInv, TopicTypes
      <4>2. m \in Nat /\ n \in Nat /\ last \in Nat /\ m > 0 /\ m <= last /\ cursor[s] \in Nat
        BY <1>0, <2>3, <4>1, TopicAssumption DEF Msgs, TopicInv, TopicTypes
      <4>3. CASE m <= cursor[s]
        <5>1. cursor[s] \in seen[s]
          BY <4>2, <4>3 DEF TopicInv, CursorWasSeen
        <5> QED BY <3>1, <4>1, <4>3, <5>1 DEF TopicInv, SeenInOrder
      <4>4. CASE m \in log /\ m > cursor[s]
        BY <2>1, <2>3, <4>1, <4>2, <4>4 DEF TopicInv, TopicTypes
      <4>5. CASE m \notin log
        BY <1>0, <4>1, <4>3, <4>5 DEF TopicInv, CompactedOnlyIfDone
      <4> QED BY <4>2, <4>3, <4>4, <4>5
    <3> QED BY <3>2, <3>3
  <2>8. CompactedOnlyIfDone'
    BY <2>2 DEF TopicInv, CompactedOnlyIfDone
  <2> QED BY <2>2, <2>4, <2>5, <2>6, <2>7, <2>8 DEF TopicInv, AckedIsDone
<1>2. CASE ack_topic_cursor(s)
  <2>1. PICK k \in seen[s] : cursor[s] < k /\ cursor' = [cursor EXCEPT ![s] = k]
    BY <1>2 DEF ack_topic_cursor
  <2>2. UNCHANGED <<mintedIds, publishing, log, subscribed, delivery, picked, sweep,
                    seen, done, owed, overtaken, excusedMsgs>>
    BY <1>2 DEF ack_topic_cursor, auxVars
  <2>3. k \in Msgs /\ k \in 0..MaxMsgs
    BY <2>1, TopicAssumption DEF TopicInv, TopicTypes, Msgs
  <2>4. TopicTypes'
    BY <2>1, <2>2, <2>3 DEF TopicInv, TopicTypes
  <2>5. \A c \in CursorSubs : cursor[c] \in Nat /\ cursor'[c] \in Nat /\ cursor[c] <= cursor'[c]
    BY <2>1, <2>3, TopicAssumption DEF TopicInv, TopicTypes
  <2>6. SweepOK'
    <3>1. sweep.floor \in Nat
      BY TopicAssumption DEF TopicInv, TopicTypes, Sweeps
    <3>2. FloorHolds => FloorHolds'
      BY <2>2, <2>5, <3>1 DEF FloorHolds, TopicInv, TopicTypes, Subs
    <3> QED BY <2>2, <3>2 DEF TopicInv, SweepOK, SweepKnows, DoneByAll, Deliverers
  <2>7. CursorWasSeen' /\ GoneIsGone'
    BY <1>0, <2>1, <2>2 DEF TopicInv, TopicTypes, CursorWasSeen, GoneIsGone
  <2>8. CompactedOnlyIfDone'
    <3> SUFFICES ASSUME NEW c \in subscribed, NEW m \in owed[c] \ log
                 PROVE  \/ c \in LeaseSubs /\ m \in done[c]
                        \/ c \in CursorSubs /\ m <= cursor'[c]
                        \/ m \in excusedMsgs
      BY <2>2 DEF CompactedOnlyIfDone
    <3>1. m \in Nat
      BY TopicAssumption DEF TopicInv, TopicTypes, Msgs
    <3> QED BY <2>5, <3>1 DEF TopicInv, CompactedOnlyIfDone
  <2> QED BY <2>2, <2>4, <2>6, <2>7, <2>8 DEF TopicInv, SeenInOrder, AckedIsDone
<1> QED BY <1>1, <1>2

(* Leasing, acking and nacking touch the delivery rows of one subscription *)
(* only, and what is done stays done.                                      *)
LEMMA LeaseStep ==
    ASSUME TopicInv, NEW s \in LeaseSubs, NEW m \in Msgs,
           LeaseSelect(s, m) \/ LeaseUpsert(s, m) \/ ack_message(s, m) \/ nack_message(s, m)
    PROVE  TopicInv'
<1>0. UNCHANGED <<mintedIds, publishing, log, subscribed, cursor, seen, owed, overtaken, excusedMsgs>>
  BY DEF LeaseSelect, LeaseUpsert, ack_message, nack_message, auxVars
<1>1. m \in 0..MaxMsgs
  BY TopicAssumption DEF Msgs
<1>2. picked' \in [LeaseSubs -> 0..MaxMsgs]
  BY <1>1, TopicAssumption DEF LeaseSelect, LeaseUpsert, ack_message, nack_message, TopicInv,
    TopicTypes
<1>3. delivery' \in [LeaseSubs -> [Msgs -> {"none", "leased", "free", "acked"}]]
  <2>1. PICK v \in {"none", "leased", "free", "acked"} :
            delivery' = delivery \/ delivery' = [delivery EXCEPT ![s][m] = v]
    BY DEF LeaseSelect, LeaseUpsert, ack_message, nack_message
  <2>2. delivery[s] \in [Msgs -> {"none", "leased", "free", "acked"}]
    BY DEF TopicInv, TopicTypes
  <2>3. [delivery[s] EXCEPT ![m] = v] \in [Msgs -> {"none", "leased", "free", "acked"}]
    BY <2>2
  <2> QED BY <2>1, <2>3 DEF TopicInv, TopicTypes
<1>4. done' \in [LeaseSubs -> SUBSET Msgs] /\ \A t \in LeaseSubs : done[t] \subseteq done'[t]
  <2>1. done' = done \/ done' = [done EXCEPT ![s] = done[s] \cup {m}]
    BY DEF LeaseSelect, LeaseUpsert, ack_message, nack_message, auxVars, TopicInv, TopicTypes
  <2> QED BY ZenonT(60), <2>1 DEF TopicInv, TopicTypes
<1>5. AckedIsDone'
  <2>1. CASE ack_message(s, m)
    BY <2>1 DEF ack_message, TopicInv, TopicTypes, AckedIsDone
  <2>2. CASE ~ack_message(s, m)
    BY <2>2 DEF LeaseSelect, LeaseUpsert, nack_message, auxVars, TopicInv, TopicTypes,
      AckedIsDone
  <2> QED BY <2>1, <2>2
<1>6. sweep' \in Sweeps /\ SweepOK'
  <2>1. CASE LeaseUpsert(s, m) /\ s \notin subscribed
    BY <2>1, DisturbedIsExcused DEF LeaseUpsert, TopicInv, TopicTypes
  <2>2. CASE ~(LeaseUpsert(s, m) /\ s \notin subscribed)
    <3>1. sweep' = sweep
      BY <2>2 DEF LeaseSelect, LeaseUpsert, ack_message, nack_message
    <3>2. Deliverers' \subseteq Deliverers \cup (IF LeaseUpsert(s, m) THEN {s} ELSE {})
      BY DEF LeaseSelect, LeaseUpsert, ack_message, nack_message, Deliverers, TopicInv,
        TopicTypes
    <3>3. Deliverers' \subseteq Deliverers \cup subscribed
      BY <2>2, <3>2
    <3>4. \A k : DoneByAll(k) => DoneByAll(k)'
      BY <1>0, <1>4 DEF DoneByAll
    <3>5. SweepKnows => SweepKnows'
      BY <1>0, <3>1, <3>3, <3>4 DEF SweepKnows, FloorHolds
    <3> QED BY <3>1, <3>5 DEF SweepOK, TopicInv, TopicTypes
  <2> QED BY <2>1, <2>2
<1>7. TopicTypes'
  BY <1>0, <1>2, <1>3, <1>4, <1>6 DEF TopicInv, TopicTypes
<1>8. CompactedOnlyIfDone'
  BY <1>0, <1>4 DEF TopicInv, CompactedOnlyIfDone
<1> QED BY <1>0, <1>5, <1>6, <1>7, <1>8 DEF TopicInv, GoneIsGone, CursorWasSeen, SeenInOrder

(* The floor is below every cursor, and there is none while a subscription *)
(* has no cursor.                                                          *)
LEMMA FloorIsLowest ==
    ASSUME TopicTypes
    PROVE  /\ Floor \in 0..MaxMsgs
           /\ Floor = 0 \/ (subscribed \cap LeaseSubs = {} /\ \A s \in subscribed : Floor <= cursor[s])
<1>1. CASE subscribed = {} \/ subscribed \cap LeaseSubs # {}
  BY <1>1, TopicAssumption DEF Floor
<1>2. CASE ~(subscribed = {} \/ subscribed \cap LeaseSubs # {})
  <2>1. subscribed \subseteq CursorSubs
    BY <1>2 DEF TopicTypes, Subs
  <2>2. PICK T : T = {cursor[s] : s \in subscribed}
    OBVIOUS
  <2>3. T \subseteq 0..MaxMsgs /\ T # {}
    BY <1>2, <2>1, <2>2 DEF TopicTypes
  <2>4. T \subseteq Nat
    BY <2>3, TopicAssumption
  <2>5. \E f \in T : \A y \in T : f <= y
    BY <2>3, <2>4, LeastExists
  <2>6. \E f \in T : \A s \in subscribed : f <= cursor[s]
    BY <2>2, <2>5
  <2>7. Floor = CHOOSE f \in T : \A s \in subscribed : f <= cursor[s]
    BY <1>2, <2>2 DEF Floor
  <2>8. Floor \in T /\ \A s \in subscribed : Floor <= cursor[s]
    BY <2>6, <2>7
  <2> QED BY <1>2, <2>3, <2>8
<1> QED BY <1>1, <1>2

(* As many acks as names, from among the names: everyone named has acked.  *)
LEMMA FullCountIsEveryone ==
    ASSUME TopicInv, Deliverers \subseteq sweep.names, subscribed \subseteq sweep.names,
           NEW m \in Msgs, Cardinality(AckedBy(m)) = Cardinality(sweep.names)
    PROVE  DoneByAll(m)
<1>1. sweep.names \subseteq LeaseSubs
  BY DEF TopicInv, TopicTypes, Sweeps
<1>2. IsFiniteSet(sweep.names)
  BY <1>1, FS_Subset, TopicAssumption
<1>3. AckedBy(m) \subseteq Deliverers
  BY DEF AckedBy, Deliverers
<1>4. AckedBy(m) \subseteq sweep.names
  BY <1>3
<1>5. AckedBy(m) = sweep.names
  BY <1>2, <1>4, FS_Subset
<1> QED BY <1>1, <1>5 DEF DoneByAll, AckedBy, TopicInv, AckedIsDone

(* A query of the sweep.                                                   *)
LEMMA QueryStep ==
    ASSUME TopicInv,
         ReadFloors \/ SelectBelowFloor \/ ReadDeliverers \/ CheckMixed \/ CountAcks,
           UNCHANGED <<mintedIds, publishing, log, subscribed, cursor, delivery, picked, seen, done,
                       owed, overtaken, excusedMsgs>>
    PROVE  TopicInv'
<1>0. sweep \in Sweeps
  BY DEF TopicInv, TopicTypes
<1>1. sweep' \in Sweeps /\ SweepOK'
  <2>1. CASE ReadFloors
    <3>1. sweep' = [at |-> "cursors", floor |-> Floor, names |-> {}, ids |-> {}, disturbed |-> FALSE]
      BY <2>1 DEF ReadFloors, NoSweep
    <3>2. sweep' \in Sweeps
      BY <3>1, FloorIsLowest DEF Sweeps, TopicInv
    <3>3. FloorHolds'
      BY <3>1, FloorIsLowest DEF FloorHolds, TopicInv
    <3> QED BY <3>1, <3>2, <3>3 DEF SweepOK, SweepKnows
  <2>2. CASE SelectBelowFloor
    <3>1. sweep' = [sweep EXCEPT !.at = "names", !.ids = {m \in log : m <= sweep.floor}]
      BY <2>2 DEF SelectBelowFloor
    <3>2. sweep' \in Sweeps
      BY <1>0, <3>1 DEF Sweeps, TopicInv, TopicTypes
    <3>3. sweep'.at = "names" /\ sweep'.floor = sweep.floor /\ sweep'.disturbed = sweep.disturbed
          /\ \A m \in sweep'.ids : m <= sweep.floor
      BY <1>0, <3>1 DEF Sweeps
    <3> QED BY <2>2, <3>2, <3>3 DEF SweepOK, SweepKnows, FloorHolds, TopicInv, SelectBelowFloor
  <2>3. CASE ReadDeliverers
    <3>1. sweep' = [sweep EXCEPT !.at = "mixed", !.names = Deliverers] /\ sweep.at = "names"
      BY <2>3 DEF ReadDeliverers, Deliverers
    <3>2. sweep' \in Sweeps
      BY <1>0, <3>1 DEF Sweeps, Deliverers
    <3>3. /\ sweep'.at = "mixed" /\ sweep'.floor = sweep.floor /\ sweep'.disturbed = sweep.disturbed
          /\ sweep'.ids = sweep.ids /\ sweep'.names = Deliverers
      BY <1>0, <3>1 DEF Sweeps
    <3>4. Deliverers' = Deliverers
      BY DEF Deliverers
    <3> QED BY <3>1, <3>2, <3>3, <3>4 DEF SweepOK, SweepKnows, FloorHolds, TopicInv
  <2>4. CASE CheckMixed
    <3>1. /\ sweep' = [sweep EXCEPT !.at = IF Mixed \/ sweep.names = {} THEN "delete" ELSE "counts"]
          /\ sweep.at = "mixed"
      BY <2>4 DEF CheckMixed
    <3>2. sweep' \in Sweeps
      BY <1>0, <3>1 DEF Sweeps
    <3>3. /\ sweep'.at = IF Mixed \/ sweep.names = {} THEN "delete" ELSE "counts"
          /\ sweep'.floor = sweep.floor /\ sweep'.disturbed = sweep.disturbed
          /\ sweep'.ids = sweep.ids /\ sweep'.names = sweep.names
      BY <1>0, <3>1 DEF Sweeps
    <3>4. Deliverers' = Deliverers
      BY DEF Deliverers
    <3>5. ~Mixed => subscribed \subseteq sweep.names
      BY DEF Mixed
    <3>6. SweepKnows => SweepKnows'
      BY <3>1, <3>3, <3>4, <3>5 DEF SweepKnows, FloorHolds
    <3> QED BY <3>1, <3>2, <3>3, <3>6 DEF SweepOK, TopicInv
  <2>5. CASE CountAcks
    <3>1. PICK full : full = {m \in log : Cardinality(AckedBy(m)) = Cardinality(sweep.names)}
      OBVIOUS
    <3>2. sweep' = [sweep EXCEPT !.at = "delete", !.ids = sweep.ids \cup full] /\ sweep.at = "counts"
      BY <1>0, <2>5, <3>1 DEF CountAcks, Sweeps
    <3>3. full \subseteq Msgs
      BY <3>1 DEF TopicInv, TopicTypes
    <3>4. sweep' \in Sweeps
      BY <1>0, <3>2, <3>3 DEF Sweeps
    <3>5. /\ sweep'.at = "delete" /\ sweep'.floor = sweep.floor /\ sweep'.disturbed = sweep.disturbed
          /\ sweep'.ids = sweep.ids \cup full
      BY <1>0, <3>2 DEF Sweeps
    <3>6. SweepKnows => \A m \in full : DoneByAll(m)
      BY <3>1, <3>2, <3>3, FullCountIsEveryone DEF SweepKnows
    <3>7. \A m : DoneByAll(m)' <=> DoneByAll(m)
      BY DEF DoneByAll
    <3>8. SweepKnows => SweepKnows'
      BY <3>2, <3>5, <3>6, <3>7 DEF SweepKnows, FloorHolds
    <3> QED BY <3>2, <3>4, <3>5, <3>8 DEF SweepOK, TopicInv
  <2> QED BY <2>1, <2>2, <2>3, <2>4, <2>5
<1> QED BY <1>1 DEF TopicInv, TopicTypes, GoneIsGone, CursorWasSeen, SeenInOrder, AckedIsDone,
                    CompactedOnlyIfDone

(* The delete.                                                             *)
LEMMA DeleteStep ==
    ASSUME TopicInv, DeleteMessages,
           UNCHANGED <<mintedIds, publishing, subscribed, cursor, picked, seen, done, owed, overtaken>>
    PROVE  TopicInv'
<1>0. /\ sweep.at = "delete" /\ sweep \in Sweeps
      /\ log' = log \ sweep.ids
      /\ delivery' = [s \in LeaseSubs |-> [m \in Msgs |-> IF m \in sweep.ids THEN "none" ELSE delivery[s][m]]]
      /\ excusedMsgs' = IF sweep.disturbed THEN excusedMsgs \cup sweep.ids ELSE excusedMsgs
      /\ sweep' = NoSweep
  BY DEF DeleteMessages, TopicInv, TopicTypes
<1>1. sweep' \in Sweeps /\ SweepOK'
  BY <1>0, TopicAssumption DEF Sweeps, NoSweep, SweepOK
<1>2. excusedMsgs \subseteq excusedMsgs' /\ excusedMsgs' \subseteq Msgs
  BY <1>0 DEF Sweeps, TopicInv, TopicTypes
<1>3. delivery' \in [LeaseSubs -> [Msgs -> {"none", "leased", "free", "acked"}]]
  BY <1>0 DEF TopicInv, TopicTypes
<1>4. TopicTypes'
  BY <1>0, <1>1, <1>2, <1>3 DEF TopicInv, TopicTypes
<1>5. AckedIsDone'
  BY <1>0 DEF TopicInv, TopicTypes, AckedIsDone
<1>6. SeenInOrder'
  BY <1>2 DEF TopicInv, SeenInOrder
<1>7. CompactedOnlyIfDone'
  <2> SUFFICES ASSUME NEW s \in subscribed, NEW m \in owed[s] \ log'
               PROVE  \/ s \in LeaseSubs /\ m \in done[s]
                      \/ s \in CursorSubs /\ m <= cursor[s]
                      \/ m \in excusedMsgs'
    BY DEF CompactedOnlyIfDone
  <2>1. CASE m \notin log
    BY <1>2, <2>1 DEF TopicInv, CompactedOnlyIfDone
  <2>2. CASE m \in log /\ sweep.disturbed
    BY <1>0, <2>2
  <2>3. CASE m \in log /\ ~sweep.disturbed
    <3>1. SweepKnows /\ m \in sweep.ids
      BY <1>0, <2>3 DEF TopicInv, SweepOK
    <3>2. s \in Subs /\ m \in Msgs /\ m \in Nat /\ m > 0 /\ sweep.floor \in Nat
      BY <1>0, <2>3, TopicAssumption DEF TopicInv, TopicTypes, Msgs, Sweeps
    <3>3. CASE DoneByAll(m)
      BY <3>3 DEF DoneByAll
    <3>4. CASE m <= sweep.floor
      <4>1. s \in CursorSubs /\ sweep.floor <= cursor[s]
        BY <3>1, <3>2, <3>4 DEF SweepKnows, FloorHolds, Subs
      <4>2. cursor[s] \in Nat
        BY <4>1, TopicAssumption DEF TopicInv, TopicTypes
      <4> QED BY <3>2, <3>4, <4>1, <4>2
    <3> QED BY <1>0, <3>1, <3>3, <3>4 DEF SweepKnows
  <2> QED BY <2>1, <2>2, <2>3
<1> QED BY <1>1, <1>4, <1>5, <1>6, <1>7 DEF TopicInv, GoneIsGone, CursorWasSeen

(* The invariant holds at first and every step keeps it.                   *)
LEMMA TopicInitOK ==
    ASSUME TopicInit
    PROVE  TopicInv
<1>1. TopicTypes
  BY TopicAssumption DEF TopicInit, TopicTypes, NoSweep, Sweeps
<1> QED BY <1>1 DEF TopicInit, TopicInv, GoneIsGone, CursorWasSeen, SeenInOrder, AckedIsDone,
  SweepOK,
                    NoSweep, CompactedOnlyIfDone, Subs

\* Every step keeps the invariant of the topic.
LEMMA TopicStep ==
    ASSUME TopicInv, [TopicNext]_topicVars
    PROVE  TopicInv'
<1>1. CASE \E p \in Publishers : Mint(p) \/ InsertMessage(p)
  BY <1>1, PublishStep
<1>2. CASE \E s \in Subs : register_subscription(s) \/ unsubscribe(s)
  BY <1>2, SubscribeStep
<1>3. CASE \E s \in CursorSubs : read_topic_messages(s) \/ ack_topic_cursor(s)
  BY <1>3, ReadStep
<1>4. CASE \E s \in LeaseSubs, m \in Msgs :
             LeaseSelect(s, m) \/ LeaseUpsert(s, m) \/ ack_message(s, m) \/ nack_message(s, m)
  BY <1>4, LeaseStep
<1>5. CASE purge_topic_messages
  BY <1>5, QueryStep, DeleteStep DEF purge_topic_messages, PurgeStep
<1>6. CASE UNCHANGED topicVars
  <2>1. Deliverers' = Deliverers /\ \A m : DoneByAll(m)' <=> DoneByAll(m)
    BY <1>6 DEF topicVars, Deliverers, DoneByAll
  <2>2. SweepOK'
    BY <1>6, <2>1 DEF topicVars, TopicInv, SweepOK, SweepKnows, FloorHolds
  <2> QED BY <1>6, <2>2 DEF topicVars, TopicInv, TopicTypes, GoneIsGone, CursorWasSeen,
    SeenInOrder,
                            AckedIsDone, CompactedOnlyIfDone
<1> QED BY <1>1, <1>2, <1>3, <1>4, <1>5, <1>6 DEF TopicNext

(* The sweep drops a message only when every subscription that was owed it *)
(* is done with it, for any number of publishers and subscriptions and     *)
(* however their calls fall between the queries of purge_topic_messages,   *)
(* sweeps under which a subscription came or went excepted.                *)
THEOREM CompactedOnlyIfDoneAlways == TopicSpec => []CompactedOnlyIfDone
<1>1. TopicInv => CompactedOnlyIfDone
  BY DEF TopicInv
<1> QED BY <1>1, TopicInitOK, TopicStep, PTL DEF TopicSpec

(* No cursor passes a message that its subscription was owed and was never *)
(* given, but for rows inserted below one already read and what a          *)
(* disturbed sweep dropped (read_topic_messages, ack_topic_cursor).        *)
THEOREM NothingSkippedAlways == TopicSpec => []NothingSkipped
<1>1. TopicInv => NothingSkipped
  <2> SUFFICES ASSUME TopicInv, NEW s \in CursorSubs, NEW m \in owed[s], m <= cursor[s]
               PROVE  m \in seen[s] \cup overtaken[s] \cup excusedMsgs
    BY DEF NothingSkipped
  <2>1. s \in Subs /\ m \in Msgs /\ cursor[s] \in Nat
    BY TopicAssumption DEF TopicInv, TopicTypes, Subs
  <2>2. cursor[s] # 0
    BY <2>1, TopicAssumption DEF Msgs
  <2> QED BY <2>2 DEF TopicInv, CursorWasSeen, SeenInOrder
<1> QED BY <1>1, TopicInitOK, TopicStep, PTL DEF TopicSpec

-----------------------------------------------------------------------------
(* The pushed job.                                                         *)

Attempts == [pc : TaskPc, why : Why]
Results == [dispatch : Dispatches, by : {"target", "task"}, why : Why]
Verdicts == {"none", "requeue"} \cup Parties

PushTypes ==
    /\ now \in Nat /\ marker \in Nat /\ issued \in 0..MaxDispatches /\ cur \in 0..MaxDispatches
    /\ started \in [Dispatches -> Nat] /\ asked \in [Dispatches -> Nat]
    /\ task \in [Dispatches -> Attempts]
    /\ held \in Entry /\ ended \in Ending /\ reap \in Reading
    /\ relieved \in [Dispatches -> BOOLEAN] /\ call \in [Dispatches -> CallPc]
    /\ sent \subseteq Results /\ emitted \in [Dispatches -> Nat]
    /\ outcome \in [Dispatches -> Verdicts] /\ won \in [Dispatches -> SUBSET Parties]

(* What a step of one attempt does to the attempts.                        *)
Moves(d, pc) ==
    /\ task' \in [Dispatches -> Attempts] /\ task'[d].pc = pc
    /\ \A e \in Dispatches : e # d => task'[e] = task[e]

(* An attempt goes on.                                                     *)
LEMMA GotoMoves ==
    ASSUME task \in [Dispatches -> Attempts], NEW d \in Dispatches, NEW pc \in TaskPc,
         Goto(d, pc)
    PROVE  Moves(d, pc) /\ task'[d].why = task[d].why
<1>1. task[d] \in Attempts
  OBVIOUS
<1>2. PICK y : y = [task[d] EXCEPT !.pc = pc]
  OBVIOUS
<1>3. y \in Attempts /\ y.pc = pc /\ y.why = task[d].why
  BY <1>1, <1>2 DEF Attempts
<1>4. task' = [task EXCEPT ![d] = y]
  BY <1>2 DEF Goto
<1> QED BY <1>3, <1>4 DEF Moves

(* An attempt goes on for a reason.                                        *)
LEMMA TurnMoves ==
    ASSUME task \in [Dispatches -> Attempts], NEW d \in Dispatches, NEW pc \in TaskPc,
         NEW why \in Why,
           task' = [task EXCEPT ![d] = [pc |-> pc, why |-> why]]
    PROVE  Moves(d, pc) /\ task'[d].why = why
<1>1. PICK y : y = [pc |-> pc, why |-> why]
  OBVIOUS
<1>2. y \in Attempts /\ y.pc = pc /\ y.why = why
  BY <1>1 DEF Attempts
<1> QED BY <1>1, <1>2 DEF Moves

(* The names of the places of an attempt.                                  *)
LEMMA Places ==
    /\ \A pc \in {"none", "request", "recording", "recorded", "waiting", "claiming", "emit", "lost", "done"} :
          pc \in TaskPc
    /\ \A why \in {"none", "answer", "failure", "cancel", "drain", "deadline"} : why \in Why
  BY DEF TaskPc, Why

(* A decision ends the dispatch and leaves no marker.                      *)
LEMMA DecideFacts ==
    ASSUME PushTypes, cur # 0, NEW party \in Verdicts, NEW why, Decide(party, why)
    PROVE  /\ cur \in Dispatches /\ cur' = 0 /\ marker' = 0 /\ won' = won
           /\ outcome' \in [Dispatches -> Verdicts] /\ outcome'[cur] = party
           /\ \A d \in Dispatches : d # cur => outcome'[d] = outcome[d]
<1>1. cur \in Dispatches
  BY PushAssumption DEF PushTypes, Dispatches
<1> QED BY <1>1 DEF Decide, PushTypes

(* A marker is consumed by one party.                                      *)
LEMMA ConsumeFacts ==
    ASSUME PushTypes, cur # 0, NEW party \in Parties, consume(party)
    PROVE  /\ cur \in Dispatches /\ marker' = 0 /\ won' \in [Dispatches -> SUBSET Parties]
           /\ won'[cur] = won[cur] \cup {party}
           /\ \A d \in Dispatches : d # cur => won'[d] = won[d]
<1>1. cur \in Dispatches
  BY PushAssumption DEF PushTypes, Dispatches
<1> QED BY <1>1 DEF consume, PushTypes

(* Sending adds one result for one dispatch.                               *)
LEMMA SendFacts ==
    ASSUME PushTypes, NEW d \in Dispatches, NEW by \in {"target", "task"}, NEW why \in Why,
         Send(d, by, why)
    PROVE  /\ sent' \subseteq Results /\ emitted' \in [Dispatches -> Nat]
           /\ emitted'[d] = emitted[d] + 1
           /\ \A e \in Dispatches : e # d => emitted'[e] = emitted[e]
<1>1. [dispatch |-> d, by |-> by, why |-> why] \in Results
  BY DEF Results
<1> QED BY <1>1 DEF Send, PushTypes

(* Retiring an entry leaves those of other dispatches alone.               *)
LEMMA RetireFacts ==
    ASSUME PushTypes, NEW d \in Dispatches, NEW how \in {"fenced", "cancelled"},
         retire_accepted(d, how)
    PROVE  /\ held' \in Entry /\ ended' \in Ending
           /\ held.dispatch = d => held'.dispatch = 0 /\ ended' = [dispatch |-> d, how |-> how]
           /\ held.dispatch # d => held' = held /\ ended' = ended
<1>1. CASE held.dispatch = d
  <2>1. held' = [dispatch |-> 0, ready |-> FALSE] /\ ended' = [dispatch |-> d, how |-> how]
    BY <1>1 DEF retire_accepted, NoEntry
  <2>2. held' \in Entry
    BY <2>1, PushAssumption DEF Entry
  <2>3. ended' \in Ending
    BY <2>1, PushAssumption DEF Ending, Dispatches
  <2> QED BY <1>1, <2>1, <2>2, <2>3
<1>2. CASE held.dispatch # d
  BY <1>2 DEF retire_accepted, PushTypes
<1> QED BY <1>1, <1>2

(* The attempt tasks keep the types.                                       *)
LEMMA TaskTypes ==
    ASSUME PushTypes, NEW d \in Dispatches, TaskStep(d) \/ RecordError(d) \/ ClaimError(d)
    PROVE  PushTypes'
<1> USE PushAssumption
<1>0. /\ UNCHANGED <<now, issued, started, call, extend, reap, over>>
      /\ UNCHANGED <<cur, relieved, outcome>>
  BY DEF TaskStep, RecordError, ClaimError, RequestEnds, Accepted, Record, MarkReady, Relieved,
    GiveUp,
         Claim, Lost, Emit, TaskOnly, calls, row
<1>1. CASE RequestEnds(d)
  <2>1. task' \in [Dispatches -> Attempts]
    BY <1>1, TurnMoves, Places DEF RequestEnds, PushTypes, Moves
  <2> QED BY <1>0, <1>1, <2>1 DEF RequestEnds, PushTypes, row
<1>2. CASE Accepted(d)
  <2>1. task' \in [Dispatches -> Attempts]
    BY <1>2, GotoMoves, Places DEF Accepted, PushTypes, Moves
  <2>2. held' \in Entry
    BY <1>2 DEF Accepted, Entry, Dispatches
  <2> QED BY <1>0, <1>2, <2>1, <2>2 DEF Accepted, PushTypes, row
<1>3. CASE Record(d)
  <2>1. task' \in [Dispatches -> Attempts]
    BY <1>3, GotoMoves, Places DEF Record, PushTypes, Moves
  <2>2. marker' \in Nat
    BY <1>3 DEF Record, await_settle, Deadline, PushTypes
  <2> QED BY <1>0, <1>3, <2>1, <2>2 DEF Record, PushTypes
<1>4. CASE RecordError(d)
  <2>1. task' \in [Dispatches -> Attempts]
    BY <1>4, TurnMoves, Places DEF RecordError, PushTypes, Moves
  <2> QED BY <1>0, <1>4, <2>1 DEF RecordError, PushTypes, row
<1>5. CASE MarkReady(d)
  <2>1. task' \in [Dispatches -> Attempts]
    BY <1>5, GotoMoves, Places DEF MarkReady, PushTypes, Moves
  <2>2. held' \in Entry
    BY <1>5 DEF MarkReady, Entry, PushTypes
  <2> QED BY <1>0, <1>5, <2>1, <2>2 DEF MarkReady, PushTypes, row
<1>6. CASE Relieved(d) \/ ClaimError(d)
  <2>1. task' \in [Dispatches -> Attempts]
    BY <1>6, GotoMoves, Places DEF Relieved, ClaimError, PushTypes, Moves
  <2> QED BY <1>0, <1>6, <2>1 DEF Relieved, ClaimError, PushTypes, row
<1>7. ASSUME NEW why \in {"cancel", "drain", "deadline"}, GiveUp(d, why) PROVE PushTypes'
  <2>1. task' \in [Dispatches -> Attempts]
    BY <1>7, TurnMoves, Places DEF GiveUp, PushTypes, Moves
  <2>2. asked' \in [Dispatches -> Nat]
    BY <1>7 DEF GiveUp, PushTypes
  <2> QED BY <1>0, <1>7, <2>1, <2>2 DEF GiveUp, PushTypes, row
<1>8. CASE Claim(d)
  <2>1. task' \in [Dispatches -> Attempts]
    BY <1>8, GotoMoves, Places DEF Claim, PushTypes, Moves
  <2>2. marker' \in Nat /\ won' \in [Dispatches -> SUBSET Parties]
    <3>1. CASE Entitled(d) /\ consume("task")
      <4>1. cur # 0
        BY <3>1 DEF Entitled, claim_settle_Expired, claim_settle_Abandoned
      <4> QED BY <3>1, <4>1, ConsumeFacts DEF Parties
    <3>2. CASE UNCHANGED <<marker, won>>
      BY <3>2 DEF PushTypes
    <3> QED BY <1>8, <3>1, <3>2 DEF Claim
  <2> QED BY <1>0, <1>8, <2>1, <2>2 DEF Claim, PushTypes
<1>9. CASE Lost(d)
  <2>1. task' \in [Dispatches -> Attempts]
    BY <1>9, GotoMoves, Places DEF Lost, PushTypes, Moves
  <2>2. held' \in Entry /\ ended' \in Ending
    BY <1>9, RetireFacts DEF Lost
  <2> QED BY <1>0, <1>9, <2>1, <2>2 DEF Lost, PushTypes, row
<1>10. CASE Emit(d)
  <2>1. task' \in [Dispatches -> Attempts]
    BY <1>10, GotoMoves, Places DEF Emit, PushTypes, Moves
  <2>2. held' \in Entry /\ ended' \in Ending
    BY <1>10, RetireFacts DEF Emit
  <2>3. task[d].why \in Why
    BY DEF PushTypes, Attempts
  <2>4. sent' \subseteq Results /\ emitted' \in [Dispatches -> Nat]
    BY <1>10, <2>3, SendFacts DEF Emit, PushTypes
  <2> QED BY <1>0, <1>10, <2>1, <2>2, <2>4 DEF Emit, PushTypes, row
<1> QED BY <1>1, <1>2, <1>3, <1>4, <1>5, <1>6, <1>7, <1>8, <1>9, <1>10 DEF TaskStep

(* So do the target's calls.                                               *)
LEMMA CallTypes ==
    ASSUME PushTypes, NEW d \in Dispatches,
           CallStep(d) \/ SettleCheck(d) \/ ExtendCheck(d) \/ ExtendWrite(d)
    PROVE  PushTypes'
<1> USE PushAssumption
<1>0. UNCHANGED <<now, issued, started, task, asked, ended, reap, cur, outcome, held>>
  BY DEF CallStep, SettleClaim, SettleEmit, SettleRelieve, SettleCheck,
    SettleCheck_NotReadyIsReady,
         ExtendCheck, ExtendWrite, CallOnly, row
<1>1. CASE SettleCheck(d)
  <2>1. not_held(d) \in CallPc
    BY DEF not_held, PushTypes, Ending, CallPc
  <2>2. call' \in [Dispatches -> CallPc]
    BY <1>1, <2>1 DEF SettleCheck, SettleCheck_NotReadyIsReady, PushTypes, CallPc
  <2> QED BY <1>0, <1>1, <2>2 DEF SettleCheck, SettleCheck_NotReadyIsReady, PushTypes, row
<1>2. CASE SettleClaim(d)
  <2>1. call' \in [Dispatches -> CallPc]
    BY <1>2 DEF SettleClaim, PushTypes, CallPc
  <2>2. marker' \in Nat /\ won' \in [Dispatches -> SUBSET Parties]
    <3>1. CASE claim_settle_Lease(d) /\ consume("target")
      <4>1. cur # 0
        BY <3>1 DEF claim_settle_Lease, Dispatches
      <4> QED BY <3>1, <4>1, ConsumeFacts DEF Parties
    <3>2. CASE UNCHANGED <<marker, won>>
      BY <3>2 DEF PushTypes
    <3> QED BY <1>2, <3>1, <3>2 DEF SettleClaim
  <2> QED BY <1>0, <1>2, <2>1, <2>2 DEF SettleClaim, PushTypes
<1>3. CASE SettleEmit(d)
  <2>1. call' \in [Dispatches -> CallPc]
    BY <1>3 DEF SettleEmit, PushTypes, CallPc
  <2>2. held.dispatch # 0 => held.dispatch \in Dispatches
    BY DEF PushTypes, Entry, Dispatches
  <2>3. sent' \subseteq Results /\ emitted' \in [Dispatches -> Nat]
    BY <1>3, <2>2, SendFacts, Places DEF SettleEmit, PushTypes
  <2> QED BY <1>0, <1>3, <2>1, <2>3 DEF SettleEmit, PushTypes, row
<1>4. CASE SettleRelieve(d)
  <2>1. call' \in [Dispatches -> CallPc]
    BY <1>4 DEF SettleRelieve, PushTypes, CallPc
  <2>2. relieved' \in [Dispatches -> BOOLEAN]
    BY <1>4 DEF SettleRelieve
  <2> QED BY <1>0, <1>4, <2>1, <2>2 DEF SettleRelieve, PushTypes, row
<1>5. CASE ExtendCheck(d)
  BY <1>0, <1>5 DEF ExtendCheck, PushTypes, row
<1>6. CASE ExtendWrite(d)
  <2>1. marker' \in Nat
    BY <1>6 DEF ExtendWrite, await_settle, PushTypes
  <2> QED BY <1>0, <1>6, <2>1 DEF ExtendWrite, PushTypes
<1> QED BY <1>1, <1>2, <1>3, <1>4, <1>5, <1>6 DEF CallStep

(* And the scheduler.                                                      *)
LEMMA SchedulerTypes ==
    ASSUME PushTypes, \/ Tick \/ Dispatch \/ ReapStep \/ ReapClaimError \/ Requeue
                      \/ (\E r \in sent : Drain(r)) \/ (\E e \in EventKinds : Signal(e))
    PROVE  PushTypes'
<1> USE PushAssumption
<1>1. CASE Tick
  BY <1>1 DEF Tick, PushTypes, row, process, calls
<1>2. CASE Dispatch
  <2>1. issued + 1 \in Dispatches /\ issued' = issued + 1 /\ cur' = issued + 1
    BY <1>2 DEF Dispatch, Dispatches, PushTypes
  <2>2. started' \in [Dispatches -> Nat]
    BY <1>2, <2>1 DEF Dispatch, PushTypes
  <2>3. Goto(issued + 1, "request")
    BY <1>2, <2>1 DEF Dispatch, Goto
  <2>4. task' \in [Dispatches -> Attempts]
    BY <2>1, <2>3, GotoMoves, Places DEF PushTypes, Moves
  <2>5. issued' \in 0..MaxDispatches /\ cur' \in 0..MaxDispatches
    BY <2>1 DEF Dispatches
  <2> QED BY <1>2, <2>2, <2>4, <2>5 DEF Dispatch, PushTypes, calls
<1>3. CASE ReapScan
  <2>1. reap' \in Reading
    BY <1>3 DEF ReapScan, Reading, PushTypes
  <2> QED BY <1>3, <2>1 DEF ReapScan, PushTypes, row, process, calls
<1>4. NoReading \in Reading
  BY DEF NoReading, Reading
<1>5. CASE ReapClaim
  <2>1. CASE claim_settle_Expired(reap.at) /\ consume("reaper")
    <3>1. cur # 0
      BY <2>1 DEF claim_settle_Expired
    <3>2. marker' \in Nat /\ won' \in [Dispatches -> SUBSET Parties]
      BY <2>1, <3>1, ConsumeFacts DEF Parties
    <3>3. reap' \in Reading
      BY <1>4, <1>5 DEF ReapClaim, Reading, PushTypes
    <3>4. UNCHANGED <<cur, outcome>>
      BY <1>5 DEF ReapClaim, row
    <3> QED BY <1>5, <3>2, <3>3, <3>4 DEF ReapClaim, PushTypes, process, calls
  <2>2. CASE reap' = NoReading /\ UNCHANGED row
    BY <1>4, <1>5, <2>2 DEF ReapClaim, PushTypes, row, process, calls
  <2> QED BY <1>5, <2>1, <2>2 DEF ReapClaim
<1>6. CASE ReapClaimError
  BY <1>4, <1>6 DEF ReapClaimError, PushTypes, row, process, calls
<1>7. CASE ReapSettle
  <2>1. CASE cur = reap.dispatch /\ Decide("reaper", "failure")
    <3>1. cur # 0
      BY <1>7, <2>1 DEF ReapSettle
    <3>2. cur' = 0 /\ marker' = 0 /\ won' = won /\ outcome' \in [Dispatches -> Verdicts]
      BY <2>1, <3>1, DecideFacts DEF Verdicts, Parties
    <3> QED BY <1>4, <1>7, <3>2 DEF ReapSettle, PushTypes, calls
  <2>2. CASE UNCHANGED row
    BY <1>4, <1>7, <2>2 DEF ReapSettle, PushTypes, row, calls
  <2> QED BY <1>7, <2>1, <2>2 DEF ReapSettle
<1>8. CASE Requeue
  <2>1. cur' = 0 /\ marker' = 0 /\ won' = won /\ outcome' \in [Dispatches -> Verdicts]
    BY <1>8, DecideFacts DEF Requeue, Verdicts
  <2> QED BY <1>8, <2>1 DEF Requeue, PushTypes, process, calls
<1>9. ASSUME NEW r \in sent, Drain(r) PROVE PushTypes'
  <2>1. CASE cur # 0
    <3>1. r.by \in Verdicts
      BY DEF PushTypes, Results, Verdicts, Parties
    <3>2. cur' = 0 /\ marker' = 0 /\ won' = won /\ outcome' \in [Dispatches -> Verdicts]
      BY <1>9, <2>1, <3>1, DecideFacts DEF Drain
    <3> QED BY <1>9, <3>2 DEF Drain, PushTypes, calls
  <2>2. CASE cur = 0
    BY <1>9, <2>2 DEF Drain, PushTypes, row, calls
  <2> QED BY <2>1, <2>2
<1>10. CASE \E e \in EventKinds : Signal(e)
  BY <1>10 DEF Signal, PushTypes, row, process, calls
<1> QED BY <1>1, <1>2, <1>3, <1>5, <1>6, <1>7, <1>8, <1>9, <1>10 DEF ReapStep

-----------------------------------------------------------------------------
(* One party gets the marker, whatever overtakes what.                     *)

Nones == \A d \in Dispatches : d > issued => At(d, "none")

(* An unconsumed marker belongs to a dispatch nobody has won, whose attempt*)
(* has recorded it and has not decided to answer by itself.                *)
Markers ==
    /\ marker # 0 => /\ cur # 0 /\ won[cur] = {}
                     /\ task[cur].pc \notin {"none", "request", "recording", "emit"}
    /\ \A d \in Dispatches : /\ task[d].pc \in {"none", "request", "recording"} => won[d] = {}
                             /\ won[d] = {} \/ \E p \in Parties : won[d] = {p}

NotExtended == \A d \in Dispatches : extend[d] = "idle"

MarkerInv == PushTypes /\ Nones /\ Markers /\ NotExtended

(* Nothing that the marker depends on changes.                             *)
LEMMA MarkersIdle ==
    ASSUME MarkerInv, UNCHANGED <<issued, cur, marker, won, task, extend>>
    PROVE  Nones' /\ Markers' /\ NotExtended'
  BY DEF MarkerInv, Nones, Markers, NotExtended, At

(* The job leaves Running.                                                 *)
LEMMA MarkersDecided ==
    ASSUME MarkerInv, cur' = 0, marker' = 0, won' = won, UNCHANGED <<issued, task, extend>>
    PROVE  Nones' /\ Markers' /\ NotExtended'
  BY DEF MarkerInv, Nones, Markers, NotExtended, At

(* An attempt goes on without touching the marker.                         *)
LEMMA MarkersMoved ==
    ASSUME MarkerInv, NEW d \in Dispatches, NEW pc \in TaskPc, Moves(d, pc), ~At(d, "none"),
           pc \notin {"none", "request"}, pc = "recording" => At(d, "request"),
           pc = "emit" => At(d, "request") \/ At(d, "recording"),
           UNCHANGED <<issued, cur, marker, won, extend>>
    PROVE  Nones' /\ Markers' /\ NotExtended'
<1>1. Nones' /\ NotExtended'
  BY DEF MarkerInv, Nones, NotExtended, Moves, At
<1>2. cur # 0 => cur \in Dispatches
  BY PushAssumption DEF MarkerInv, PushTypes, Dispatches
<1>3. Markers'
  BY <1>2 DEF MarkerInv, Markers, Moves, At
<1> QED BY <1>1, <1>3

(* A party consumes the marker; the attempt that does so goes on to answer.*)
LEMMA MarkersConsumed ==
    ASSUME MarkerInv, cur # 0, marker # 0, NEW party \in Parties, consume(party),
           UNCHANGED <<issued, cur, extend>>,
           \/ task' = task
           \/ \E d \in Dispatches : At(d, "claiming") /\ Moves(d, "emit")
    PROVE  Nones' /\ Markers' /\ NotExtended'
<1>1. /\ cur \in Dispatches /\ marker' = 0 /\ won'[cur] = won[cur] \cup {party}
      /\ \A d \in Dispatches : d # cur => won'[d] = won[d]
  BY ConsumeFacts DEF MarkerInv
<1>2. \A d \in Dispatches : \/ task'[d] = task[d]
                            \/ At(d, "claiming") /\ task'[d].pc = "emit"
  BY DEF Moves
<1>3. won'[cur] = {party} /\ task[cur].pc \notin {"none", "request", "recording", "emit"}
  BY <1>1 DEF MarkerInv, Markers
<1>4. Nones' /\ NotExtended'
  BY <1>2 DEF MarkerInv, Nones, NotExtended, At
<1>5. Markers'
  <2> SUFFICES ASSUME NEW d \in Dispatches
               PROVE  /\ task'[d].pc \in {"none", "request", "recording"} => won'[d] = {}
                      /\ won'[d] = {} \/ \E p \in Parties : won'[d] = {p}
    BY <1>1 DEF Markers
  <2>1. CASE d = cur
    BY <1>2, <1>3, <2>1 DEF At
  <2>2. CASE d # cur
    BY <1>1, <1>2, <2>2 DEF MarkerInv, Markers, At
  <2> QED BY <2>1, <2>2
<1> QED BY <1>4, <1>5

(* The attempt that was accepted records its marker.                       *)
LEMMA MarkersRecorded ==
    ASSUME MarkerInv, NEW d \in Dispatches, At(d, "recording"), cur = d, Moves(d, "recorded"),
           UNCHANGED <<issued, cur, won, extend>>
    PROVE  Nones' /\ Markers' /\ NotExtended'
<1>1. d # 0 /\ won[d] = {}
  BY DEF Dispatches, MarkerInv, Markers, At
<1> QED BY <1>1 DEF MarkerInv, Nones, Markers, NotExtended, At, Moves

(* The job is dispatched.                                                  *)
LEMMA MarkersDispatched ==
    ASSUME MarkerInv, Dispatch
    PROVE  Nones' /\ Markers' /\ NotExtended'
<1> USE PushAssumption
<1>1. /\ issued \in Nat /\ issued + 1 \in Dispatches /\ issued' = issued + 1 /\ cur' = issued + 1
      /\ marker' = marker /\ won' = won /\ extend' = extend /\ cur = 0
  BY DEF Dispatch, Dispatches, MarkerInv, PushTypes, calls
<1>2. Goto(issued + 1, "request")
  BY <1>1 DEF Dispatch, Goto
<1>3. Moves(issued + 1, "request")
  BY <1>1, <1>2, GotoMoves, Places DEF MarkerInv, PushTypes
<1>4. won[issued + 1] = {} /\ marker = 0
  BY <1>1 DEF MarkerInv, Nones, Markers, At
<1>5. Nones'
  BY <1>1, <1>3 DEF MarkerInv, Nones, At, Moves, Dispatches
<1>6. Markers'
  BY <1>1, <1>3, <1>4 DEF MarkerInv, Markers, Moves
<1> QED BY <1>1, <1>5, <1>6 DEF MarkerInv, NotExtended

\* Every step keeps the invariant of the settle marker, if no lease is extended.
LEMMA MarkerStep ==
    ASSUME "extend" \notin Events, MarkerInv, [Next]_vars
    PROVE  MarkerInv'
<1>1. ASSUME NEW d \in Dispatches, TaskStep(d) \/ RecordError(d) \/ ClaimError(d)
      PROVE  MarkerInv'
  <2>0. PushTypes' /\ issued' = issued /\ cur' = cur /\ extend' = extend
    BY <1>1, TaskTypes DEF MarkerInv, TaskStep, RecordError, ClaimError, RequestEnds, Accepted,
      Record,
       MarkReady, Relieved, GiveUp, Claim, Lost, Emit, TaskOnly, calls, row
  <2>1. CASE RequestEnds(d)
    <3>1. Moves(d, "emit") /\ At(d, "request") /\ UNCHANGED <<marker, won>>
      BY <2>1, TurnMoves, Places DEF RequestEnds, MarkerInv, PushTypes, row
    <3> QED BY <2>0, <3>1, MarkersMoved, Places DEF At, MarkerInv
  <2>2. CASE Accepted(d)
    <3>1. Moves(d, "recording") /\ At(d, "request") /\ UNCHANGED <<marker, won>>
      BY <2>2, GotoMoves, Places DEF Accepted, MarkerInv, PushTypes, row
    <3> QED BY <2>0, <3>1, MarkersMoved, Places DEF At, MarkerInv
  <2>3. CASE Record(d)
    <3>1. CASE cur = d /\ Goto(d, "recorded")
      <4>1. Moves(d, "recorded") /\ At(d, "recording") /\ UNCHANGED won
        BY <2>3, <3>1, GotoMoves, Places DEF Record, MarkerInv, PushTypes
      <4> QED BY <2>0, <3>1, <4>1, MarkersRecorded DEF MarkerInv
    <3>2. CASE Goto(d, "lost") /\ UNCHANGED marker
      <4>1. Moves(d, "lost") /\ At(d, "recording") /\ UNCHANGED <<marker, won>>
        BY <2>3, <3>2, GotoMoves, Places DEF Record, MarkerInv, PushTypes
      <4> QED BY <2>0, <4>1, MarkersMoved, Places DEF At, MarkerInv
    <3> QED BY <2>3, <3>1, <3>2 DEF Record, await_settle
  <2>4. CASE RecordError(d)
    <3>1. Moves(d, "emit") /\ At(d, "recording") /\ UNCHANGED <<marker, won>>
      BY <2>4, TurnMoves, Places DEF RecordError, MarkerInv, PushTypes, row
    <3> QED BY <2>0, <3>1, MarkersMoved, Places DEF At, MarkerInv
  <2>5. CASE MarkReady(d)
    <3>1. Moves(d, "waiting") /\ At(d, "recorded") /\ UNCHANGED <<marker, won>>
      BY <2>5, GotoMoves, Places DEF MarkReady, MarkerInv, PushTypes, row
    <3> QED BY <2>0, <3>1, MarkersMoved, Places DEF At, MarkerInv
  <2>6. CASE Relieved(d) \/ ClaimError(d)
    <3>1. Moves(d, "lost") /\ (At(d, "waiting") \/ At(d, "claiming")) /\ UNCHANGED <<marker, won>>
      BY <2>6, GotoMoves, Places DEF Relieved, ClaimError, MarkerInv, PushTypes, row
    <3> QED BY <2>0, <3>1, MarkersMoved, Places DEF At, MarkerInv
  <2>7. ASSUME NEW why \in {"cancel", "drain", "deadline"}, GiveUp(d, why) PROVE MarkerInv'
    <3>1. Moves(d, "claiming") /\ At(d, "waiting") /\ UNCHANGED <<marker, won>>
      BY <2>7, TurnMoves, Places DEF GiveUp, MarkerInv, PushTypes, row
    <3> QED BY <2>0, <3>1, MarkersMoved, Places DEF At, MarkerInv
  <2>8. CASE Claim(d)
    <3>1. CASE Entitled(d) /\ consume("task") /\ Goto(d, "emit")
      <4>1. cur # 0 /\ marker # 0
        BY <3>1 DEF Entitled, claim_settle_Expired, claim_settle_Abandoned
      <4>2. Moves(d, "emit") /\ At(d, "claiming")
        BY <2>8, <3>1, GotoMoves, Places DEF Claim, MarkerInv, PushTypes
      <4>3. "task" \in Parties
        BY DEF Parties
      <4> QED BY <2>0, <3>1, <4>1, <4>2, <4>3, MarkersConsumed DEF MarkerInv
    <3>2. CASE Goto(d, "lost") /\ UNCHANGED <<marker, won>>
      <4>1. Moves(d, "lost") /\ At(d, "claiming")
        BY <2>8, <3>2, GotoMoves, Places DEF Claim, MarkerInv, PushTypes
      <4> QED BY <2>0, <3>2, <4>1, MarkersMoved, Places DEF At, MarkerInv
    <3> QED BY <2>8, <3>1, <3>2 DEF Claim
  <2>9. CASE Lost(d) \/ Emit(d)
    <3>1. Moves(d, "done") /\ (At(d, "lost") \/ At(d, "emit")) /\ UNCHANGED <<marker, won>>
      BY <2>9, GotoMoves, Places DEF Lost, Emit, MarkerInv, PushTypes, row
    <3> QED BY <2>0, <3>1, MarkersMoved, Places DEF At, MarkerInv
  <2> QED BY <1>1, <2>1, <2>2, <2>3, <2>4, <2>5, <2>6, <2>7, <2>8, <2>9 DEF TaskStep
<1>2. ASSUME NEW d \in Dispatches,
     CallStep(d) \/ SettleCheck(d) \/ ExtendCheck(d) \/ ExtendWrite(d)
      PROVE  MarkerInv'
  <2>0. PushTypes'
    BY <1>2, CallTypes DEF MarkerInv
  <2>1. CASE SettleClaim(d) /\ claim_settle_Lease(d)
    <3>1. cur # 0 /\ marker # 0 /\ consume("target") /\ UNCHANGED <<issued, cur, extend, task>>
      BY <2>1 DEF SettleClaim, claim_settle_Lease, Dispatches, CallOnly
    <3>2. "target" \in Parties
      BY DEF Parties
    <3> QED BY <2>0, <3>1, <3>2, MarkersConsumed DEF MarkerInv
  <2>2. CASE SettleCheck(d) \/ SettleEmit(d) \/ SettleRelieve(d) \/ (SettleClaim(d) /\ ~claim_settle_Lease(d))
    <3>1. UNCHANGED <<issued, cur, marker, won, task, extend>>
      BY <2>2 DEF SettleCheck, SettleCheck_NotReadyIsReady, SettleEmit, SettleRelieve,
        SettleClaim,
                  CallOnly, row
    <3> QED BY <2>0, <3>1, MarkersIdle DEF MarkerInv
  <2>3. ~ExtendCheck(d) /\ ~ExtendWrite(d)
    BY DEF ExtendCheck, Happens, ExtendWrite, MarkerInv, NotExtended
  <2> QED BY <1>2, <2>1, <2>2, <2>3 DEF CallStep
<1>3. ASSUME \/ Tick \/ Dispatch \/ ReapStep \/ ReapClaimError \/ Requeue
             \/ (\E r \in sent : Drain(r)) \/ (\E e \in EventKinds : Signal(e))
      PROVE  MarkerInv'
  <2>0. PushTypes'
    BY <1>3, SchedulerTypes DEF MarkerInv
  <2>1. CASE Dispatch
    BY <2>0, <2>1, MarkersDispatched DEF MarkerInv
  <2>2. CASE ReapClaim /\ claim_settle_Expired(reap.at)
    <3>1. cur # 0 /\ marker # 0 /\ consume("reaper") /\ UNCHANGED <<issued, cur, extend, task>>
      BY <2>2 DEF ReapClaim, claim_settle_Expired, process, calls
    <3>2. "reaper" \in Parties
      BY DEF Parties
    <3> QED BY <2>0, <3>1, <3>2, MarkersConsumed DEF MarkerInv
  <2>3. CASE Tick \/ ReapScan \/ ReapClaimError \/ (\E e \in EventKinds : Signal(e))
             \/ (ReapClaim /\ ~claim_settle_Expired(reap.at))
    <3>1. UNCHANGED <<issued, cur, marker, won, task, extend>>
      BY <2>3 DEF Tick, ReapScan, ReapClaimError, Signal, ReapClaim, row, process, calls
    <3> QED BY <2>0, <3>1, MarkersIdle DEF MarkerInv
  <2>4. CASE ReapSettle \/ Requeue \/ \E r \in sent : Drain(r)
    <3>1. \/ UNCHANGED <<cur, marker, won>>
          \/ cur' = 0 /\ marker' = 0 /\ won' = won
      BY <2>4 DEF ReapSettle, Requeue, Drain, Decide, row
    <3>2. UNCHANGED <<issued, task, extend>>
      BY <2>4 DEF ReapSettle, Requeue, Drain, process, calls
    <3> QED BY <2>0, <3>1, <3>2, MarkersIdle, MarkersDecided DEF MarkerInv
  <2> QED BY <1>3, <2>1, <2>2, <2>3, <2>4 DEF ReapStep
<1>4. CASE UNCHANGED vars
  <2>1. UNCHANGED <<issued, cur, marker, won, task, extend>>
    BY <1>4 DEF vars, row, process, calls
  <2>2. PushTypes'
    BY <1>4 DEF vars, row, process, calls, MarkerInv, PushTypes
  <2> QED BY <2>1, <2>2, MarkersIdle DEF MarkerInv
<1> QED BY <1>1, <1>2, <1>3, <1>4 DEF Next

\* The initial states satisfy it.
LEMMA MarkerInitOK ==
    ASSUME Init
    PROVE  MarkerInv
<1>1. PushTypes
  BY PushAssumption, Places DEF Init, PushTypes, Attempts, NoEntry, Entry, Ending, NoReading,
    Reading, CallPc,
     Verdicts, Parties
<1> QED BY <1>1 DEF Init, MarkerInv, Nones, Markers, NotExtended, At

(* The attempt, the target and the reaper race for the marker of a dispatch*)
(* and one of them gets it, whatever is cancelled, drained, requeued,      *)
(* failed or overtaken, for any number of dispatches: as long as no lease  *)
(* is extended, which arms a consumed marker again (claim_settle,          *)
(* await_settle).                                                          *)
THEOREM SingleWinnerAlways ==
    ASSUME "extend" \notin Events
    PROVE  Spec => []SingleWinner
<1>1. MarkerInv => SingleWinner
  <2> SUFFICES ASSUME MarkerInv, NEW d \in Dispatches
               PROVE  Cardinality(won[d]) <= 1
    BY DEF SingleWinner
  <2>1. CASE won[d] = {}
    BY <2>1, FS_EmptySet
  <2>2. CASE \E p \in Parties : won[d] = {p}
    BY <2>2, FS_Singleton
  <2> QED BY <2>1, <2>2 DEF MarkerInv, Markers
<1> QED BY <1>1, MarkerInitOK, MarkerStep, PTL DEF Spec

-----------------------------------------------------------------------------
(* One answer per dispatch, when no request outlives its dispatch.         *)

(* The job is dispatched again only once the request of its last dispatch  *)
(* has ended.                                                              *)
RequestEndsFirst == Dispatch => \A d \in Dispatches : ~At(d, "request")

Open == {"recording", "recorded", "waiting", "claiming", "lost"}

(* Of the dispatches before the newest nothing is left but a waiting       *)
(* attempt, or one that is on its way out.                                 *)
Turns ==
    /\ cur \in {0, issued}
    /\ \A d \in Dispatches :
          /\ d > issued => call[d] = "idle" /\ emitted[d] = 0 /\ ~relieved[d]
          /\ d <= issued => ~At(d, "none") /\ (d # cur => outcome[d] # "none")
          /\ d < issued => /\ task[d].pc \notin {"request", "recording", "recorded"}
                           /\ call[d] \notin {"granted", "emitted"}

(* The registry holds the newest dispatch from its 202 until its attempt   *)
(* retires it.                                                             *)
Registry ==
    /\ held.dispatch # 0 => task[held.dispatch].pc \in Open \cup {"emit"}
    /\ ended.dispatch <= issued
    /\ \A d \in Dispatches : d = issued =>
          /\ task[d].pc \in Open => held.dispatch = d
          /\ call[d] # "idle" \/ ended.dispatch = d => held.dispatch \in {0, d}

(* The attempt and the target do not both answer.                          *)
Answers ==
    \A d \in Dispatches :
        /\ "target" \in won[d] <=> call[d] \in {"granted", "emitted", "ok"}
        /\ At(d, "emit") => "target" \notin won[d]
        /\ call[d] = "ok" => relieved[d] \/ At(d, "done")
        /\ At(d, "claiming") /\ call[d] = "ok" => d = issued
        /\ emitted[d] <= 1
        /\ ~At(d, "done") /\ call[d] \notin {"emitted", "ok"} => emitted[d] = 0

AnswerInv == MarkerInv /\ Turns /\ Registry /\ Answers

(* Dispatches are numbered from 1 in the order in which they are made.     *)
LEMMA Numbers ==
    ASSUME AnswerInv
    PROVE  /\ issued \in Nat /\ Dispatches \subseteq Nat \ {0}
           /\ \A d \in Dispatches : At(d, "none") <=> d > issued
           /\ cur # 0 => cur \in Dispatches /\ cur = issued
           /\ held.dispatch # 0 => held.dispatch \in Dispatches /\ held.dispatch <= issued
           /\ ended.dispatch \in Nat
<1> USE PushAssumption
<1>1. issued \in Nat /\ Dispatches \subseteq Nat \ {0}
  BY DEF AnswerInv, MarkerInv, PushTypes, Dispatches
<1>2. \A d \in Dispatches : At(d, "none") <=> d > issued
  BY <1>1 DEF AnswerInv, MarkerInv, Nones, Turns
<1>3. cur # 0 => cur \in Dispatches /\ cur = issued
  BY DEF AnswerInv, MarkerInv, PushTypes, Dispatches, Turns
<1>4. held.dispatch # 0 => held.dispatch \in Dispatches
  BY DEF AnswerInv, MarkerInv, PushTypes, Entry, Dispatches
<1>5. held.dispatch # 0 => held.dispatch <= issued
  <2> SUFFICES ASSUME held.dispatch # 0 PROVE held.dispatch <= issued
    OBVIOUS
  <2>1. PICK d \in Dispatches : d = held.dispatch
    BY <1>4
  <2>2. ~At(d, "none")
    BY <2>1 DEF AnswerInv, Registry, Open, At
  <2>3. d <= issued
    BY <1>1, <1>2, <2>2
  <2> QED BY <2>1, <2>3
<1>6. ended.dispatch \in Nat
  BY DEF AnswerInv, MarkerInv, PushTypes, Ending
<1> QED BY <1>1, <1>2, <1>3, <1>4, <1>5, <1>6

(* An attempt goes on, and what the others see of it does not change.      *)
LEMMA TurnsMoved ==
    ASSUME AnswerInv, NEW d \in Dispatches, NEW pc \in TaskPc, Moves(d, pc), d <= issued,
           pc \notin {"none", "request"}, pc \in {"recording", "recorded"} => d = issued,
           UNCHANGED <<issued, cur, outcome, call, relieved>>,
           \A e \in Dispatches : e # d => emitted'[e] = emitted[e]
    PROVE  Turns'
<1>1. \A e \in Dispatches : e > issued => emitted'[e] = 0
  BY Numbers DEF AnswerInv, Turns
<1> QED BY <1>1, Numbers DEF AnswerInv, Turns, Moves, At

\* A step of one attempt that leaves the registry alone.
LEMMA RegistryMoved ==
    ASSUME AnswerInv, NEW d \in Dispatches, NEW pc \in Open \cup {"emit"}, Moves(d, pc),
           pc \in Open => task[d].pc \in Open,
           UNCHANGED <<issued, ended, call>>, held'.dispatch = held.dispatch
    PROVE  Registry'
  BY Numbers DEF AnswerInv, Registry, Moves, Open

\* An attempt that retires its registry entry.
LEMMA RegistryRetired ==
    ASSUME AnswerInv, NEW d \in Dispatches, Moves(d, "done"), task[d].pc \in {"lost", "emit"},
           NEW how \in {"fenced", "cancelled"}, retire_accepted(d, how), UNCHANGED <<issued, call>>
    PROVE  Registry'
<1>1. /\ held.dispatch = d => held'.dispatch = 0 /\ ended'.dispatch = d
      /\ held.dispatch # d => held' = held /\ ended' = ended
  BY RetireFacts DEF AnswerInv, MarkerInv
<1>2. d <= issued
  BY Numbers DEF At
<1>3. CASE held.dispatch = d
  BY <1>1, <1>2, <1>3, Numbers DEF AnswerInv, Registry, Moves, Open
<1>4. CASE held.dispatch # d
  BY <1>1, <1>2, <1>4, Numbers DEF AnswerInv, Registry, Moves, Open
<1> QED BY <1>3, <1>4

\* A step of one attempt that decides nothing.
LEMMA AnswersMoved ==
    ASSUME AnswerInv, NEW d \in Dispatches, NEW pc \in TaskPc, Moves(d, pc), ~At(d, "done"),
           pc = "emit" => "target" \notin won[d], pc = "claiming" => call[d] # "ok",
           UNCHANGED <<issued, call, relieved, won, emitted>>
    PROVE  Answers'
  BY DEF AnswerInv, Answers, Moves, At

(* What the scheduler does to the job, calls and attempts apart.           *)
LEMMA AnswersIdle ==
    ASSUME AnswerInv, MarkerInv',
         UNCHANGED <<issued, task, call, relieved, emitted, held, ended>>,
           cur' \in {0, issued}, \A d \in Dispatches : d <= issued /\ d # cur' => outcome'[d] # "none",
           \A d \in Dispatches : "target" \in won'[d] <=> "target" \in won[d]
    PROVE  AnswerInv'
<1>1. Turns'
  BY DEF AnswerInv, Turns, At
<1>2. Registry'
  BY DEF AnswerInv, Registry
<1>3. Answers'
  BY DEF AnswerInv, Answers, At
<1> QED BY <1>1, <1>2, <1>3 DEF AnswerInv

(* The attempt tasks.                                                      *)
LEMMA AnswerTaskStep ==
    ASSUME AnswerInv, MarkerInv', NEW d \in Dispatches,
         TaskStep(d) \/ RecordError(d) \/ ClaimError(d)
    PROVE  AnswerInv'
<1>0. UNCHANGED <<issued, cur, outcome, call, relieved>>
  BY DEF TaskStep, RecordError, ClaimError, RequestEnds, Accepted, Record, MarkReady, Relieved,
    GiveUp,
         Claim, Lost, Emit, TaskOnly, calls, row
<1>1. task \in [Dispatches -> Attempts]
  BY DEF AnswerInv, MarkerInv, PushTypes
<1>2. CASE RequestEnds(d) \/ RecordError(d)
  <2>1. Moves(d, "emit") /\ (At(d, "request") \/ At(d, "recording"))
        /\ UNCHANGED <<won, emitted, ended, held>>
    BY <1>1, <1>2, TurnMoves, Places DEF RequestEnds, RecordError, row
  <2>2. d <= issued
    BY <2>1, Numbers DEF At
  <2>3. "target" \notin won[d]
    BY <2>1 DEF AnswerInv, MarkerInv, Markers, At
  <2>4. Turns'
    BY <1>0, <2>1, <2>2, TurnsMoved, Places
  <2>5. Registry'
    BY <1>0, <2>1, RegistryMoved DEF Open
  <2>6. Answers'
    BY <1>0, <2>1, <2>3, AnswersMoved, Places DEF At
  <2> QED BY <2>4, <2>5, <2>6 DEF AnswerInv
<1>3. CASE Accepted(d)
  <2>1. Moves(d, "recording") /\ At(d, "request") /\ held' = [dispatch |-> d, ready |-> FALSE]
        /\ UNCHANGED <<won, emitted, ended>>
    BY <1>1, <1>3, GotoMoves, Places DEF Accepted, row
  <2>2. d = issued
    BY <2>1, Numbers DEF At, AnswerInv, Turns
  <2>3. Turns'
    BY <1>0, <2>1, <2>2, TurnsMoved, Places, Numbers
  <2>4. Registry'
    BY <1>0, <2>1, <2>2 DEF AnswerInv, Registry, Moves, Open
  <2>5. Answers'
    BY <1>0, <2>1, AnswersMoved, Places DEF At
  <2> QED BY <2>3, <2>4, <2>5 DEF AnswerInv
<1>4. CASE Record(d) \/ MarkReady(d) \/ Relieved(d) \/ ClaimError(d)
  <2>1. PICK pc \in Open : Moves(d, pc) /\ pc \notin {"recording", "claiming"}
    <3>1. PICK pc \in {"recorded", "waiting", "lost"} : Goto(d, pc)
      BY <1>4 DEF Record, MarkReady, Relieved, ClaimError
    <3> QED BY <1>1, <3>1, GotoMoves, Places DEF Open
  <2>2. /\ task[d].pc \in Open /\ (pc = "recorded" => At(d, "recording"))
        /\ UNCHANGED <<won, emitted, ended>> /\ held'.dispatch = held.dispatch
    <3>1. CASE Record(d)
      BY <3>1 DEF Record, At, Open
    <3>2. CASE MarkReady(d)
      <4>1. held'.dispatch = held.dispatch
        BY <3>2 DEF MarkReady, AnswerInv, MarkerInv, PushTypes, Entry
      <4> QED BY <2>1, <3>2, <4>1, GotoMoves, <1>1, Places DEF MarkReady, At, Open, row, Moves
    <3>3. CASE Relieved(d) \/ ClaimError(d)
      BY <2>1, <3>3, GotoMoves, <1>1, Places DEF Relieved, ClaimError, At, Open, row, Moves
    <3> QED BY <1>4, <3>1, <3>2, <3>3
  <2>3. d <= issued /\ (pc = "recorded" => d = issued) /\ pc \in TaskPc
    BY <2>2, Numbers, Places DEF At, AnswerInv, Turns, Open
  <2>4. Turns'
    BY <1>0, <2>1, <2>2, <2>3, TurnsMoved DEF Open
  <2>5. Registry'
    BY <1>0, <2>1, <2>2, RegistryMoved
  <2>6. Answers'
    BY <1>0, <2>1, <2>2, <2>3, AnswersMoved DEF At, Open
  <2> QED BY <2>4, <2>5, <2>6 DEF AnswerInv
<1>5. ASSUME NEW why \in {"cancel", "drain", "deadline"}, GiveUp(d, why) PROVE AnswerInv'
  <2>1. Moves(d, "claiming") /\ At(d, "waiting") /\ ~relieved[d] /\ UNCHANGED <<won, emitted, ended, held>>
    BY <1>1, <1>5, TurnMoves, Places DEF GiveUp, row
  <2>2. d <= issued /\ call[d] # "ok"
    BY <2>1, Numbers DEF At, AnswerInv, Answers
  <2>3. Turns'
    BY <1>0, <2>1, <2>2, TurnsMoved, Places
  <2>4. Registry'
    BY <1>0, <2>1, RegistryMoved DEF Open, At
  <2>5. Answers'
    BY <1>0, <2>1, <2>2, AnswersMoved, Places DEF At
  <2> QED BY <2>3, <2>4, <2>5 DEF AnswerInv
<1>6. CASE Claim(d)
  <2>0. At(d, "claiming") /\ UNCHANGED <<emitted, ended, held>>
    BY <1>6 DEF Claim
  <2>1. d <= issued
    BY <2>0, Numbers DEF At
  <2>2. CASE Entitled(d) /\ consume("task") /\ Goto(d, "emit")
    <3>1. Moves(d, "emit") /\ cur # 0 /\ marker # 0
      BY <1>1, <2>2, GotoMoves, Places DEF Entitled, claim_settle_Expired,
        claim_settle_Abandoned
    <3>2. \A e \in Dispatches : "target" \in won'[e] <=> "target" \in won[e]
      <4>1. "task" \in Parties
        BY DEF Parties
      <4> QED BY <2>2, <3>1, <4>1, ConsumeFacts DEF AnswerInv, MarkerInv
    <3>3. "target" \notin won[d]
      <4>1. CASE cur = d
        BY <3>1, <4>1 DEF AnswerInv, MarkerInv, Markers
      <4>2. CASE cur # d
        <5>1. d < issued
          BY <2>1, <3>1, <4>2, Numbers
        <5> QED BY <2>0, <5>1, Numbers DEF AnswerInv, Turns, Answers
      <4> QED BY <4>1, <4>2
    <3>4. Turns'
      BY <1>0, <2>0, <2>1, <3>1, TurnsMoved, Places
    <3>5. Registry'
      BY <1>0, <2>0, <3>1, RegistryMoved DEF Open
    <3>6. Answers'
      BY <1>0, <2>0, <3>1, <3>2, <3>3 DEF AnswerInv, Answers, Moves, At
    <3> QED BY <3>4, <3>5, <3>6 DEF AnswerInv
  <2>3. CASE Goto(d, "lost") /\ UNCHANGED <<marker, won>>
    <3>1. Moves(d, "lost")
      BY <1>1, <2>3, GotoMoves, Places
    <3>2. Turns'
      BY <1>0, <2>0, <2>1, <3>1, TurnsMoved, Places
    <3>3. Registry'
      BY <1>0, <2>0, <3>1, RegistryMoved DEF Open, At
    <3>4. Answers'
      BY <1>0, <2>0, <2>3, <3>1, AnswersMoved, Places DEF At
    <3> QED BY <3>2, <3>3, <3>4 DEF AnswerInv
  <2> QED BY <1>6, <2>2, <2>3 DEF Claim
<1>7. CASE Lost(d)
  <2>1. Moves(d, "done") /\ At(d, "lost") /\ retire_accepted(d, "fenced") /\ UNCHANGED <<won, emitted>>
    BY <1>1, <1>7, GotoMoves, Places DEF Lost, row
  <2>2. d <= issued
    BY <2>1, Numbers DEF At
  <2>3. Turns'
    BY <1>0, <2>1, <2>2, TurnsMoved, Places
  <2>4. Registry'
    BY <1>0, <2>1, RegistryRetired DEF At
  <2>5. Answers'
    BY <1>0, <2>1, AnswersMoved, Places DEF At
  <2> QED BY <2>3, <2>4, <2>5 DEF AnswerInv
<1>8. CASE Emit(d)
  <2>1. Moves(d, "done") /\ At(d, "emit") /\ UNCHANGED won
    BY <1>1, <1>8, GotoMoves, Places DEF Emit, row
  <2>2. d <= issued
    BY <2>1, Numbers DEF At
  <2>3. PICK how \in {"fenced", "cancelled"} : retire_accepted(d, how)
    BY <1>8 DEF Emit
  <2>4. task[d].why \in Why
    BY <1>1 DEF Attempts
  <2>5. \A e \in Dispatches : e # d => emitted'[e] = emitted[e]
    BY <1>8, <2>4, SendFacts DEF Emit, AnswerInv, MarkerInv
  <2>6. emitted'[d] <= emitted[d] + 1
    <3>1. emitted[d] \in Nat
      BY DEF AnswerInv, MarkerInv, PushTypes
    <3> QED BY <1>8, <2>4, <3>1, SendFacts DEF Emit, AnswerInv, MarkerInv
  <2>7. emitted[d] = 0
    BY <2>1 DEF AnswerInv, Answers, At
  <2>8. Turns'
    BY <1>0, <2>1, <2>2, <2>5, TurnsMoved, Places
  <2>9. Registry'
    BY <1>0, <2>1, <2>3, RegistryRetired DEF At
  <2>10. Answers'
    <3> SUFFICES ASSUME NEW e \in Dispatches
                 PROVE  /\ "target" \in won'[e] <=> call'[e] \in {"granted", "emitted", "ok"}
                        /\ At(e, "emit")' => "target" \notin won'[e]
                        /\ call'[e] = "ok" => relieved'[e] \/ At(e, "done")'
                        /\ At(e, "claiming")' /\ call'[e] = "ok" => e = issued'
                        /\ emitted'[e] <= 1
                        /\ ~At(e, "done")' /\ call'[e] \notin {"emitted", "ok"} => emitted'[e] = 0
      BY DEF Answers
    <3>1. CASE e = d
      BY <1>0, <2>1, <2>6, <2>7, <3>1 DEF AnswerInv, Answers, Moves, At
    <3>2. CASE e # d
      BY <1>0, <2>1, <2>5, <3>2 DEF AnswerInv, Answers, Moves, At
    <3> QED BY <3>1, <3>2
  <2> QED BY <2>8, <2>9, <2>10 DEF AnswerInv
<1> QED BY <1>2, <1>3, <1>4, <1>5, <1>6, <1>7, <1>8 DEF TaskStep

(* The target's calls.                                                     *)
LEMMA AnswerCallStep ==
    ASSUME AnswerInv, MarkerInv', NEW d \in Dispatches, SettleCheck(d) \/ CallStep(d)
    PROVE  AnswerInv'
<1>0. UNCHANGED <<issued, cur, outcome, task, held, ended>>
  BY DEF SettleCheck, SettleCheck_NotReadyIsReady, CallStep, SettleClaim, SettleEmit,
    SettleRelieve,
         CallOnly, row
<1>1. call \in [Dispatches -> CallPc]
  BY DEF AnswerInv, MarkerInv, PushTypes
<1>2. CASE SettleCheck(d)
  <2>1. /\ call[d] = "idle" /\ WasAccepted(d)
        /\ UNCHANGED <<won, relieved, emitted>>
    BY <1>2 DEF SettleCheck, SettleCheck_NotReadyIsReady, row
  <2>2. PICK x \in {"checked", "fenced", "cancelled", "nothere"} : call' = [call EXCEPT ![d] = x]
    <3>1. not_held(d) \in {"fenced", "cancelled", "nothere"}
      BY DEF not_held, AnswerInv, MarkerInv, PushTypes, Ending
    <3>2. PICK x : x = CASE held.dispatch = d -> "checked"
                         [] held.dispatch = 0 -> not_held(d)
                         [] OTHER -> "fenced"
      OBVIOUS
    <3>3. x \in {"checked", "fenced", "cancelled", "nothere"}
      <4>1. CASE held.dispatch = d
        BY <3>2, <4>1, Numbers
      <4>2. CASE held.dispatch = 0
        BY <3>1, <3>2, <4>2, Numbers
      <4>3. CASE held.dispatch \notin {0, d}
        BY <3>2, <4>3
      <4> QED BY <4>1, <4>2, <4>3
    <3>4. call' = [call EXCEPT ![d] = x]
      BY <1>2, <3>2 DEF SettleCheck, SettleCheck_NotReadyIsReady
    <3> QED BY <3>3, <3>4
  <2>3. d <= issued
    BY <2>1, Numbers DEF WasAccepted, At, AnswerInv, Registry
  <2>4. Turns'
    BY <1>0, <1>1, <2>1, <2>2, <2>3, Numbers DEF AnswerInv, Turns, At
  <2>5. d = issued => held.dispatch \in {0, d}
    BY <2>1 DEF WasAccepted, AnswerInv, Registry, Open
  <2>6. Registry'
    BY <1>0, <1>1, <2>2, <2>5 DEF AnswerInv, Registry
  <2>7. Answers'
    BY <1>0, <1>1, <2>1, <2>2 DEF AnswerInv, Answers, At
  <2> QED BY <2>4, <2>6, <2>7 DEF AnswerInv
<1>3. CASE SettleClaim(d)
  <2>1. call[d] = "checked" /\ UNCHANGED <<relieved, emitted>>
    BY <1>3 DEF SettleClaim
  <2>2. d <= issued
    BY <2>1, Numbers DEF AnswerInv, Turns
  <2>3. CASE claim_settle_Lease(d)
    <3>1. cur = d /\ d # 0 /\ marker # 0 /\ consume("target") /\ call' = [call EXCEPT ![d] = "granted"]
      BY <1>3, <2>3, Numbers DEF SettleClaim, claim_settle_Lease
    <3>2. d = issued /\ task[d].pc # "emit"
      BY <3>1, Numbers DEF AnswerInv, MarkerInv, Markers
    <3>3. won'[d] = won[d] \cup {"target"} /\ \A e \in Dispatches : e # d => won'[e] = won[e]
      <4>1. "target" \in Parties
        BY DEF Parties
      <4> QED BY <3>1, <4>1, ConsumeFacts DEF AnswerInv, MarkerInv
    <3>4. Turns'
      BY <1>0, <1>1, <2>1, <3>1, <3>2, Numbers DEF AnswerInv, Turns, At
    <3>5. Registry'
      BY <1>0, <1>1, <2>1, <3>1 DEF AnswerInv, Registry
    <3>6. Answers'
      BY <1>0, <1>1, <2>1, <3>1, <3>2, <3>3 DEF AnswerInv, Answers, At
    <3> QED BY <3>4, <3>5, <3>6 DEF AnswerInv
  <2>4. CASE ~claim_settle_Lease(d)
    <3>1. call' = [call EXCEPT ![d] = "fenced"] /\ won' = won
      BY <1>3, <2>4 DEF SettleClaim
    <3>2. Turns'
      BY <1>0, <1>1, <2>1, <2>2, <3>1, Numbers DEF AnswerInv, Turns, At
    <3>3. Registry'
      BY <1>0, <1>1, <2>1, <3>1 DEF AnswerInv, Registry
    <3>4. Answers'
      BY <1>0, <1>1, <2>1, <3>1 DEF AnswerInv, Answers, At
    <3> QED BY <3>2, <3>3, <3>4 DEF AnswerInv
  <2> QED BY <2>3, <2>4
<1>4. CASE SettleEmit(d)
  <2>1. /\ call[d] = "granted" /\ call' = [call EXCEPT ![d] = "emitted"] /\ UNCHANGED <<won, relieved>>
    BY <1>4 DEF SettleEmit, row
  <2>2. d = issued
    BY <2>1, Numbers DEF AnswerInv, Turns
  <2>3. held.dispatch \in {0, d}
    BY <2>1, <2>2 DEF AnswerInv, Registry
  <2>4. emitted' = emitted \/ (/\ held.dispatch = d /\ emitted'[d] = emitted[d] + 1
                               /\ \A e \in Dispatches : e # d => emitted'[e] = emitted[e])
    BY <1>4, <2>3, SendFacts, Places DEF SettleEmit, AnswerInv, MarkerInv
  <2>5. held.dispatch = d => ~At(d, "done")
    BY Numbers DEF AnswerInv, Registry, Open, At
  <2>6. emitted'[d] <= 1 /\ \A e \in Dispatches : e # d => emitted'[e] = emitted[e]
    BY <2>1, <2>4, <2>5 DEF AnswerInv, Answers
  <2>7. Turns'
    BY <1>0, <1>1, <2>1, <2>2, <2>6, Numbers DEF AnswerInv, Turns, At
  <2>8. Registry'
    BY <1>0, <1>1, <2>1 DEF AnswerInv, Registry
  <2>9. Answers'
    BY <1>0, <1>1, <2>1, <2>2, <2>6 DEF AnswerInv, Answers, At
  <2> QED BY <2>7, <2>8, <2>9 DEF AnswerInv
<1>5. CASE SettleRelieve(d)
  <2>1. /\ call[d] = "emitted" /\ call' = [call EXCEPT ![d] = "ok"] /\ UNCHANGED <<won, emitted>>
        /\ relieved' = [k \in Dispatches |-> relieved[k] \/ k = held.dispatch]
    BY <1>5 DEF SettleRelieve, row
  <2>2. d = issued
    BY <2>1, Numbers DEF AnswerInv, Turns
  <2>3. held.dispatch \in {0, d}
    BY <2>1, <2>2 DEF AnswerInv, Registry
  <2>4. task[d].pc \notin Open => At(d, "done")
    <3>1. "target" \in won[d]
      BY <2>1 DEF AnswerInv, Answers
    <3>2. task[d].pc \notin {"none", "request", "emit"}
      BY <3>1 DEF AnswerInv, Answers, MarkerInv, Markers, At
    <3>3. task[d].pc \in TaskPc
      BY DEF AnswerInv, MarkerInv, PushTypes, Attempts
    <3> QED BY <3>2, <3>3 DEF TaskPc, Open, At
  <2>5. relieved'[d] \/ At(d, "done")
    BY <2>1, <2>2, <2>4 DEF AnswerInv, Registry
  <2>6. \A e \in Dispatches : e # d => (relieved'[e] <=> relieved[e])
    BY <2>1, <2>3, Numbers
  <2>7. Turns'
    BY <1>0, <1>1, <2>1, <2>2, <2>6, Numbers DEF AnswerInv, Turns, At
  <2>8. Registry'
    BY <1>0, <1>1, <2>1 DEF AnswerInv, Registry
  <2>9. Answers'
    BY <1>0, <1>1, <2>1, <2>2, <2>5, <2>6 DEF AnswerInv, Answers, At
  <2> QED BY <2>7, <2>8, <2>9 DEF AnswerInv
<1> QED BY <1>2, <1>3, <1>4, <1>5 DEF CallStep

(* A new dispatch finds nothing of the earlier ones under way.             *)
LEMMA AnswerDispatch ==
    ASSUME "overtake" \notin Events, AnswerInv, MarkerInv', Dispatch, RequestEndsFirst
    PROVE  AnswerInv'
<1> USE PushAssumption
<1>1. /\ issued + 1 \in Dispatches /\ issued' = issued + 1 /\ cur' = issued + 1 /\ cur = 0
      /\ UNCHANGED <<outcome, won, held, ended, relieved, emitted, call>>
  BY DEF Dispatch, Dispatches, AnswerInv, MarkerInv, PushTypes, calls
<1>2. Moves(issued + 1, "request")
  <2>1. Goto(issued + 1, "request")
    BY <1>1 DEF Dispatch, Goto
  <2> QED BY <1>1, <2>1, GotoMoves, Places DEF AnswerInv, MarkerInv, PushTypes
<1>3. \A d \in Dispatches : /\ task[d].pc \notin {"request", "recording", "recorded", "claiming"}
                            /\ call[d] \notin {"granted", "emitted"}
  BY DEF Dispatch, RequestEndsFirst, Underway, At
<1>4. \A d \in Dispatches : d < issued + 1 <=> d <= issued
  BY Numbers
<1>5. Turns'
  BY <1>1, <1>2, <1>3, <1>4, Numbers DEF AnswerInv, Turns, Moves, At
<1>6. ended.dispatch <= issued + 1 /\ ended.dispatch # issued + 1
  BY Numbers DEF AnswerInv, Registry
<1>7. held.dispatch # issued + 1 /\ call[issued + 1] = "idle"
  BY <1>1, Numbers DEF AnswerInv, Turns
<1>8. Registry'
  BY <1>1, <1>2, <1>6, <1>7, Numbers DEF AnswerInv, Registry, Moves, Open
<1>9. Answers'
  BY <1>1, <1>2, <1>3, <1>7, Numbers DEF AnswerInv, Answers, Moves, At
<1> QED BY <1>5, <1>8, <1>9 DEF AnswerInv

\* Every step keeps the invariant of the answers.
LEMMA AnswerStep ==
    ASSUME Events \cap {"extend", "overtake"} = {}, AnswerInv, [Next]_vars,
         [RequestEndsFirst]_vars
    PROVE  AnswerInv'
<1>0. MarkerInv' /\ "overtake" \notin Events
  BY MarkerStep DEF AnswerInv
<1>1. ASSUME NEW d \in Dispatches, TaskStep(d) \/ RecordError(d) \/ ClaimError(d)
     PROVE AnswerInv'
  BY <1>0, <1>1, AnswerTaskStep
<1>2. ASSUME NEW d \in Dispatches, CallStep(d) \/ SettleCheck(d) PROVE AnswerInv'
  BY <1>0, <1>2, AnswerCallStep
<1>3. \A d \in Dispatches : ~ExtendCheck(d) /\ ~ExtendWrite(d)
  BY DEF ExtendCheck, Happens, ExtendWrite, AnswerInv, MarkerInv, NotExtended
<1>4. CASE Dispatch
  <2>1. RequestEndsFirst
    <3>1. issued' # issued
      BY <1>4, Numbers DEF Dispatch
    <3> QED BY <3>1 DEF vars
  <2> QED BY <1>0, <1>4, <2>1, AnswerDispatch
<1>5. CASE Tick \/ ReapScan \/ ReapClaimError \/ (\E e \in EventKinds : Signal(e)) \/ UNCHANGED vars
           \/ (ReapClaim /\ ~claim_settle_Expired(reap.at))
  <2>1. UNCHANGED <<issued, task, call, relieved, emitted, held, ended, cur, outcome, won>>
    BY <1>5 DEF Tick, ReapScan, ReapClaimError, Signal, ReapClaim, row, process, calls, vars
  <2>2. cur' \in {0, issued} /\ \A d \in Dispatches : d <= issued /\ d # cur' => outcome'[d] # "none"
    BY <2>1 DEF AnswerInv, Turns
  <2> QED BY <1>0, <2>1, <2>2, AnswersIdle
<1>6. CASE ReapClaim /\ claim_settle_Expired(reap.at)
  <2>1. /\ UNCHANGED <<issued, task, call, relieved, emitted, held, ended, cur, outcome>>
        /\ cur # 0 /\ consume("reaper")
    BY <1>6 DEF ReapClaim, claim_settle_Expired, process, calls
  <2>2. cur' \in {0, issued} /\ \A d \in Dispatches : d <= issued /\ d # cur' => outcome'[d] # "none"
    BY <2>1 DEF AnswerInv, Turns
  <2>3. \A d \in Dispatches : "target" \in won'[d] <=> "target" \in won[d]
    <3>1. "reaper" \in Parties
      BY DEF Parties
    <3> QED BY <2>1, <3>1, ConsumeFacts DEF AnswerInv, MarkerInv
  <2> QED BY <1>0, <2>1, <2>2, <2>3, AnswersIdle
<1>7. CASE ReapSettle \/ Requeue \/ \E r \in sent : Drain(r)
  <2>1. UNCHANGED <<issued, task, call, relieved, emitted, held, ended>>
    BY <1>7 DEF ReapSettle, Requeue, Drain, process, calls
  <2>2. \/ UNCHANGED <<cur, outcome, won>>
        \/ cur # 0 /\ \E party \in Verdicts \ {"none"} : \E why : Decide(party, why)
    <3>1. CASE ReapSettle
      BY <3>1 DEF ReapSettle, row, Verdicts, Parties
    <3>2. CASE Requeue
      BY <3>2 DEF Requeue, Verdicts
    <3>3. ASSUME NEW r \in sent, Drain(r)
          PROVE  \/ UNCHANGED <<cur, outcome, won>>
                 \/ cur # 0 /\ \E party \in Verdicts \ {"none"} : \E why : Decide(party, why)
      <4>1. r.by \in Verdicts \ {"none"}
        BY DEF AnswerInv, MarkerInv, PushTypes, Results, Verdicts, Parties
      <4> QED BY <3>3, <4>1 DEF Drain, row
    <3> QED BY <1>7, <3>1, <3>2, <3>3
  <2>3. /\ cur' \in {0, issued} /\ \A d \in Dispatches : d <= issued /\ d # cur' => outcome'[d] # "none"
        /\ won' = won
    <3>1. CASE UNCHANGED <<cur, outcome, won>>
      BY <3>1 DEF AnswerInv, Turns
    <3>2. ASSUME cur # 0, NEW party \in Verdicts \ {"none"}, NEW why, Decide(party, why)
          PROVE  /\ cur' = 0 /\ \A d \in Dispatches : d <= issued => outcome'[d] # "none"
                 /\ won' = won
      <4>1. /\ cur' = 0 /\ won' = won /\ outcome'[cur] = party
            /\ \A d \in Dispatches : d # cur => outcome'[d] = outcome[d]
        BY <3>2, DecideFacts DEF AnswerInv, MarkerInv
      <4> QED BY <4>1 DEF AnswerInv, Turns
    <3> QED BY <2>2, <3>1, <3>2
  <2> QED BY <1>0, <2>1, <2>3, AnswersIdle
<1> QED BY <1>1, <1>2, <1>3, <1>4, <1>5, <1>6, <1>7 DEF Next, ReapStep

\* The initial states satisfy it.
LEMMA AnswerInitOK ==
    ASSUME Init
    PROVE  AnswerInv
<1>1. MarkerInv /\ Dispatches \subseteq Nat \ {0}
  BY MarkerInitOK, PushAssumption DEF Dispatches
<1> QED BY <1>1 DEF Init, AnswerInv, Turns, Registry, Answers, NoEntry, At, Open

(* One party gets the marker of a dispatch and one result is sent for it:  *)
(* the attempt, its timer, its cancel, its drain and the target's report   *)
(* never both answer, for any number of dispatches, storage errors and     *)
(* operator requeues included, as long as the job is not dispatched again  *)
(* before its last request, an attempt inside a storage call or a granted  *)
(* report has ended, and no lease is extended (attempt.rs, emit_settled).  *)
THEOREM DecidedOnceOrdinarily ==
    ASSUME Events \cap {"extend", "overtake"} = {}
    PROVE  Spec /\ [][RequestEndsFirst]_vars => []DecidedOnce
<1>1. AnswerInv => \A d \in Dispatches : emitted[d] <= 1
  BY DEF AnswerInv, Answers
<1>2. Spec => []SingleWinner
  BY SingleWinnerAlways
<1>3. Spec /\ [][RequestEndsFirst]_vars => []AnswerInv
  BY AnswerInitOK, AnswerStep, PTL DEF Spec
<1>4. SingleWinner /\ AnswerInv => DecidedOnce
  BY <1>1 DEF DecidedOnce
<1> QED BY <1>2, <1>3, <1>4, PTL

-----------------------------------------------------------------------------
(* Fenced means decided.                                                   *)

Decided(d) == outcome[d] # "none" \/ won[d] # {}

Armed(d) == marker # 0 \/ won[d] # {}

(* What is over for a dispatch is over because somebody decided it, and the*)
(* dispatch that runs keeps its marker until somebody has won it.          *)
FenceOf(d) ==
    /\ relieved[d] \/ At(d, "lost") \/ call[d] = "fenced" => Decided(d)
    /\ ended.dispatch = d /\ ended.how = "fenced" => Decided(d)
    /\ held.dispatch = d /\ At(d, "emit") => Decided(d)
    /\ cur = d /\ (\/ task[d].pc \in {"recorded", "waiting", "claiming"} \/ call[d] = "checked"
                   \/ held.dispatch = d /\ held.ready) => Armed(d)

(* The timer of an attempt has fired no earlier than the marker lapses.    *)
TimersAgree ==
    /\ marker # 0 => marker = Deadline(cur)
    /\ \A d \in Dispatches : At(d, "claiming") /\ task[d].why = "deadline" => asked[d] >= Deadline(d)

FenceInv == AnswerInv /\ TimersAgree /\ \A d \in Dispatches : FenceOf(d)

(* Only the fences of the dispatch that runs can be in doubt.              *)
PastFenced == \A d \in Dispatches : d # cur => FenceOf(d)

\* What FenceInv says of the dispatches before the current one holds in any case.
LEMMA PastIsFenced == AnswerInv => PastFenced
<1> SUFFICES ASSUME AnswerInv, NEW d \in Dispatches, d # cur
             PROVE  FenceOf(d)
  BY DEF PastFenced
<1>1. CASE d <= issued
  BY <1>1 DEF AnswerInv, Turns, FenceOf, Decided
<1>2. CASE d > issued
  <2>1. At(d, "none") /\ call[d] = "idle" /\ ~relieved[d]
    BY <1>2, Numbers DEF AnswerInv, Turns
  <2>2. ended.dispatch # d /\ held.dispatch # d
    BY <1>2, Numbers DEF AnswerInv, Registry
  <2> QED BY <2>1, <2>2 DEF FenceOf, At
<1> QED BY <1>1, <1>2, Numbers

\* So that a step has to be examined for the current dispatch only.
LEMMA FencesSuffice ==
    ASSUME AnswerInv', TimersAgree', \A d \in Dispatches : d = cur' => FenceOf(d)'
    PROVE  FenceInv'
<1>1. AnswerInv' => PastFenced'
  BY PastIsFenced, PTL
<1> QED BY <1>1 DEF FenceInv, PastFenced

(* The attempt tasks.                                                      *)
LEMMA FenceTaskStep ==
    ASSUME FenceInv, AnswerInv', NEW d \in Dispatches, TaskStep(d)
    PROVE  FenceInv'
<1>0. UNCHANGED <<now, issued, started, cur, outcome, call, relieved>>
  BY DEF TaskStep, RequestEnds, Accepted, Record, MarkReady, Relieved, GiveUp,
         Claim, Lost, Emit, TaskOnly, calls, row
<1>1. task \in [Dispatches -> Attempts] /\ AnswerInv
  BY DEF FenceInv, AnswerInv, MarkerInv, PushTypes
<1>2. \A e \in Dispatches : Deadline(e)' = Deadline(e) /\ Deadline(e) \in Nat /\ Deadline(e) # 0
  BY <1>0, <1>1, PushAssumption DEF Deadline, AnswerInv, MarkerInv, PushTypes
<1>3. cur # 0 => cur \in Dispatches /\ cur = issued
  BY <1>1, Numbers
<1>4. CASE RequestEnds(d)
  <2>1. Moves(d, "emit") /\ At(d, "request") /\ UNCHANGED <<marker, won, asked, held, ended>>
    BY <1>1, <1>4, TurnMoves, Places DEF RequestEnds, row
  <2>2. held.dispatch # d
    BY <1>1, <2>1, Numbers DEF AnswerInv, Registry, Open, At
  <2>3. TimersAgree'
    BY <1>0, <1>2, <1>3, <2>1 DEF FenceInv, TimersAgree, Moves, At, Deadline
  <2>4. \A e \in Dispatches : e = cur' => FenceOf(e)'
    BY <1>0, <2>1, <2>2 DEF FenceInv, FenceOf, Moves, At, Decided, Armed
  <2> QED BY <2>3, <2>4, FencesSuffice
<1>5. CASE Accepted(d)
  <2>1. Moves(d, "recording") /\ At(d, "request") /\ held' = [dispatch |-> d, ready |-> FALSE]
        /\ UNCHANGED <<marker, won, asked, ended>>
    BY <1>1, <1>5, GotoMoves, Places DEF Accepted, row
  <2>2. TimersAgree'
    BY <1>0, <1>2, <1>3, <2>1 DEF FenceInv, TimersAgree, Moves, At, Deadline
  <2>3. \A e \in Dispatches : e = cur' => FenceOf(e)'
    BY <1>0, <1>2, <2>1 DEF FenceInv, FenceOf, Moves, At, Decided, Armed
  <2> QED BY <2>2, <2>3, FencesSuffice
<1>6. CASE Record(d)
  <2>0. At(d, "recording") /\ UNCHANGED <<won, asked, held, ended>>
    BY <1>6 DEF Record
  <2>1. CASE cur = d /\ await_settle(d, Deadline(d)) /\ Goto(d, "recorded")
    <3>1. Moves(d, "recorded")
      BY <1>1, <2>1, GotoMoves, Places
    <3>2. marker = 0
      BY <1>1, <2>0, <2>1 DEF AnswerInv, MarkerInv, Markers, At
    <3>3. marker' = Deadline(d)
      BY <1>2, <2>1, <3>2 DEF await_settle
    <3>4. TimersAgree'
      BY <1>0, <1>2, <2>0, <2>1, <3>1, <3>3 DEF FenceInv, TimersAgree, Moves, At
    <3>5. \A e \in Dispatches : e = cur' => FenceOf(e)'
      BY <1>0, <1>2, <2>0, <2>1, <3>1, <3>3 DEF FenceInv, FenceOf, Moves, At, Decided, Armed
    <3> QED BY <3>4, <3>5, FencesSuffice
  <2>2. CASE cur # d /\ Goto(d, "lost") /\ UNCHANGED marker
    <3>1. Moves(d, "lost")
      BY <1>1, <2>2, GotoMoves, Places
    <3>2. TimersAgree'
      BY <1>0, <1>2, <1>3, <2>0, <2>2, <3>1 DEF FenceInv, TimersAgree, Moves, At, Deadline
    <3>3. \A e \in Dispatches : e = cur' => FenceOf(e)'
      BY <1>0, <2>0, <2>2, <3>1 DEF FenceInv, FenceOf, Moves, At, Decided, Armed
    <3> QED BY <3>2, <3>3, FencesSuffice
  <2> QED BY <1>6, <2>1, <2>2 DEF Record, await_settle
<1>7. CASE MarkReady(d)
  <2>1. Moves(d, "waiting") /\ At(d, "recorded") /\ UNCHANGED <<marker, won, asked, ended>>
    BY <1>1, <1>7, GotoMoves, Places DEF MarkReady, row
  <2>2. held'.dispatch = held.dispatch
    BY <1>7 DEF MarkReady, FenceInv, AnswerInv, MarkerInv, PushTypes, Entry
  <2>3. d = issued
    BY <1>1, <2>1, Numbers DEF AnswerInv, Turns, At
  <2>4. TimersAgree'
    BY <1>0, <1>2, <1>3, <2>1 DEF FenceInv, TimersAgree, Moves, At, Deadline
  <2>5. ASSUME NEW e \in Dispatches, e = cur' PROVE FenceOf(e)'
    <3>1. e = d
      BY <1>0, <1>3, <2>3, <2>5, PushAssumption DEF Dispatches
    <3> QED BY <1>0, <2>1, <2>2, <2>5, <3>1 DEF FenceInv, FenceOf, Moves, At, Decided, Armed
  <2> QED BY <2>4, <2>5, FencesSuffice
<1>8. CASE Relieved(d)
  <2>1. Moves(d, "lost") /\ At(d, "waiting") /\ relieved[d] /\ UNCHANGED <<marker, won, asked, held, ended>>
    BY <1>1, <1>8, GotoMoves, Places DEF Relieved, row
  <2>2. TimersAgree'
    BY <1>0, <1>2, <1>3, <2>1 DEF FenceInv, TimersAgree, Moves, At, Deadline
  <2>3. \A e \in Dispatches : e = cur' => FenceOf(e)'
    BY <1>0, <2>1 DEF FenceInv, FenceOf, Moves, At, Decided, Armed
  <2> QED BY <2>2, <2>3, FencesSuffice
<1>9. ASSUME NEW why \in {"cancel", "drain", "deadline"}, GiveUp(d, why) PROVE FenceInv'
  <2>1. Moves(d, "claiming") /\ At(d, "waiting") /\ task'[d].why = why /\ UNCHANGED <<marker, won, held, ended>>
    BY <1>1, <1>9, TurnMoves, Places DEF GiveUp, row
  <2>2. /\ \A e \in Dispatches : e # d => asked'[e] = asked[e]
        /\ why = "deadline" => asked'[d] >= Deadline(d)
    BY <1>1, <1>9 DEF GiveUp, Given, AnswerInv, MarkerInv, PushTypes
  <2>3. TimersAgree'
    BY <1>0, <1>2, <1>3, <2>1, <2>2 DEF FenceInv, TimersAgree, Moves, At, Deadline
  <2>4. \A e \in Dispatches : e = cur' => FenceOf(e)'
    BY <1>0, <2>1 DEF FenceInv, FenceOf, Moves, At, Decided, Armed
  <2> QED BY <2>3, <2>4, FencesSuffice
<1>10. CASE Claim(d)
  <2>0. At(d, "claiming") /\ UNCHANGED <<asked, held, ended>>
    BY <1>10 DEF Claim
  <2>1. CASE Entitled(d) /\ consume("task") /\ Goto(d, "emit")
    <3>1. Moves(d, "emit") /\ cur # 0
      BY <1>1, <2>1, GotoMoves, Places DEF Entitled, claim_settle_Expired,
        claim_settle_Abandoned
    <3>2. marker' = 0 /\ won'[cur] # {}
      <4>1. "task" \in Parties
        BY DEF Parties
      <4> QED BY <1>1, <2>1, <3>1, <4>1, ConsumeFacts DEF AnswerInv, MarkerInv
    <3>3. TimersAgree'
      BY <1>0, <1>2, <2>0, <3>1, <3>2 DEF FenceInv, TimersAgree, Moves, At
    <3>4. \A e \in Dispatches : e = cur' => FenceOf(e)'
      BY <1>0, <3>2 DEF FenceOf, Decided, Armed
    <3> QED BY <3>3, <3>4, FencesSuffice
  <2>2. CASE ~Entitled(d) /\ Goto(d, "lost") /\ UNCHANGED <<marker, won>>
    <3>1. Moves(d, "lost")
      BY <1>1, <2>2, GotoMoves, Places
    <3>2. cur = d => won[d] # {}
      <4> SUFFICES ASSUME cur = d, marker # 0 PROVE FALSE
        BY <2>0 DEF FenceInv, FenceOf, At, Armed
      <4>1. marker = Deadline(d) /\ d # 0 /\ asked[d] \in Nat
        BY <1>1, Numbers DEF FenceInv, TimersAgree, AnswerInv, MarkerInv, PushTypes
      <4>2. CASE task[d].why = "deadline"
        BY <1>2, <2>0, <2>2, <4>1, <4>2 DEF FenceInv, TimersAgree, Entitled,
          claim_settle_Expired
      <4>3. CASE task[d].why # "deadline"
        BY <2>2, <4>1, <4>3 DEF Entitled, claim_settle_Abandoned
      <4> QED BY <4>2, <4>3
    <3>3. TimersAgree'
      BY <1>0, <1>2, <1>3, <2>0, <2>2, <3>1 DEF FenceInv, TimersAgree, Moves, At, Deadline
    <3>4. \A e \in Dispatches : e = cur' => FenceOf(e)'
      BY <1>0, <2>0, <2>2, <3>1, <3>2 DEF FenceInv, FenceOf, Moves, At, Decided, Armed
    <3> QED BY <3>3, <3>4, FencesSuffice
  <2> QED BY <1>10, <2>1, <2>2 DEF Claim
<1>11. CASE Lost(d) \/ Emit(d)
  <2>1. Moves(d, "done") /\ (At(d, "lost") \/ At(d, "emit")) /\ UNCHANGED <<marker, won, asked>>
    BY <1>1, <1>11, GotoMoves, Places DEF Lost, Emit, row
  <2>2. PICK how \in {"fenced", "cancelled"} : retire_accepted(d, how)
    BY <1>11 DEF Lost, Emit
  <2>3. /\ held.dispatch = d => held'.dispatch = 0 /\ ended' = [dispatch |-> d, how |-> how]
        /\ held.dispatch # d => held' = held /\ ended' = ended
    BY <1>1, <2>2, RetireFacts DEF AnswerInv, MarkerInv
  <2>4. held.dispatch = d => Decided(d)
    BY <2>1 DEF FenceInv, FenceOf
  <2>5. TimersAgree'
    BY <1>0, <1>2, <1>3, <2>1 DEF FenceInv, TimersAgree, Moves, At, Deadline
  <2>6. ASSUME NEW e \in Dispatches, e = cur' PROVE FenceOf(e)'
    <3>0. e # 0
      BY PushAssumption DEF Dispatches
    <3>1. CASE held.dispatch = d
      BY <1>0, <2>1, <2>3, <2>4, <2>6, <3>0, <3>1 DEF FenceInv, FenceOf, Moves, At, Decided,
        Armed
    <3>2. CASE held.dispatch # d
      BY <1>0, <2>1, <2>3, <2>6, <3>2 DEF FenceInv, FenceOf, Moves, At, Decided, Armed
    <3> QED BY <3>1, <3>2
  <2> QED BY <2>5, <2>6, FencesSuffice
<1> QED BY <1>4, <1>5, <1>6, <1>7, <1>8, <1>9, <1>10, <1>11 DEF TaskStep

(* The target's calls.                                                     *)
LEMMA FenceCallStep ==
    ASSUME FenceInv, AnswerInv', NEW d \in Dispatches, SettleCheck(d) \/ CallStep(d)
    PROVE  FenceInv'
<1>0. UNCHANGED <<issued, started, cur, outcome, task, asked, held, ended>>
  BY DEF SettleCheck, SettleCheck_NotReadyIsReady, CallStep, SettleClaim, SettleEmit,
    SettleRelieve,
         CallOnly, row
<1>1. call \in [Dispatches -> CallPc] /\ AnswerInv /\ d # 0
  <2>1. d # 0
    BY PushAssumption DEF Dispatches
  <2> QED BY <2>1 DEF FenceInv, AnswerInv, MarkerInv, PushTypes
<1>2. cur = d => d = issued
  BY <1>1, Numbers
<1>3. marker' \in {0, marker} => TimersAgree'
  BY <1>0 DEF FenceInv, TimersAgree, Deadline, At
<1>4. CASE SettleCheck(d)
  <2>1. /\ call[d] = "idle" /\ WasAccepted(d) /\ (held.dispatch # 0 => held.ready)
        /\ UNCHANGED <<marker, won, relieved>>
        /\ call' = [call EXCEPT ![d] = CASE held.dispatch = d -> "checked"
                                         [] held.dispatch = 0 -> not_held(d)
                                         [] OTHER -> "fenced"]
    BY <1>4 DEF SettleCheck, SettleCheck_NotReadyIsReady, row
  <2>2. \A e \in Dispatches : e # d => call'[e] = call[e]
    BY <1>1, <2>1
  <2>3. cur = d => held.dispatch \in {0, d}
    BY <1>1, <1>2, <2>1 DEF WasAccepted, AnswerInv, Registry, Open
  <2>4. CASE held.dispatch = d
    <3>1. call'[d] = "checked"
      BY <1>1, <2>1, <2>4
    <3>2. \A e \in Dispatches : e = cur' => FenceOf(e)'
      BY <1>0, <1>1, <2>1, <2>2, <2>4, <3>1 DEF FenceInv, FenceOf, At, Decided, Armed
    <3> QED BY <1>3, <2>1, <3>2, FencesSuffice
  <2>5. CASE held.dispatch = 0
    <3>1. call'[d] = not_held(d)
      BY <1>1, <2>1, <2>5
    <3>2. call'[d] # "checked" /\ (call'[d] = "fenced" => ended.dispatch = d /\ ended.how = "fenced")
      BY <1>1, <3>1 DEF not_held, AnswerInv, MarkerInv, PushTypes, Ending
    <3>3. \A e \in Dispatches : e = cur' => FenceOf(e)'
      BY <1>0, <1>1, <2>1, <2>2, <3>2 DEF FenceInv, FenceOf, At, Decided, Armed
    <3> QED BY <1>3, <2>1, <3>3, FencesSuffice
  <2>6. CASE held.dispatch \notin {0, d}
    <3>1. \A e \in Dispatches : e = cur' => FenceOf(e)'
      BY <1>0, <2>1, <2>2, <2>3, <2>6 DEF FenceInv, FenceOf, At, Decided, Armed
    <3> QED BY <1>3, <2>1, <3>1, FencesSuffice
  <2> QED BY <2>4, <2>5, <2>6
<1>5. CASE SettleClaim(d)
  <2>1. call[d] = "checked" /\ UNCHANGED relieved
    BY <1>5 DEF SettleClaim
  <2>2. CASE claim_settle_Lease(d)
    <3>1. cur = d /\ consume("target") /\ "target" \in Parties
      BY <1>5, <2>2 DEF SettleClaim, claim_settle_Lease, Parties
    <3>2. marker' = 0 /\ won'[d] # {}
      BY <1>1, <3>1, ConsumeFacts DEF AnswerInv, MarkerInv
    <3>3. \A e \in Dispatches : e = cur' => FenceOf(e)'
      BY <1>0, <3>1, <3>2 DEF FenceOf, Decided, Armed
    <3> QED BY <1>3, <3>2, <3>3, FencesSuffice
  <2>3. CASE ~claim_settle_Lease(d)
    <3>1. call' = [call EXCEPT ![d] = "fenced"] /\ UNCHANGED <<marker, won>>
      BY <1>5, <2>3 DEF SettleClaim
    <3>2. cur = d => won[d] # {}
      BY <2>1, <2>3 DEF claim_settle_Lease, FenceInv, FenceOf, Armed
    <3>3. \A e \in Dispatches : e = cur' => FenceOf(e)'
      BY <1>0, <1>1, <2>1, <3>1, <3>2 DEF FenceInv, FenceOf, At, Decided, Armed
    <3> QED BY <1>3, <3>1, <3>3, FencesSuffice
  <2> QED BY <2>2, <2>3
<1>6. CASE SettleEmit(d) \/ SettleRelieve(d)
  <2>1. PICK x \in {"emitted", "ok"} : call' = [call EXCEPT ![d] = x]
    BY <1>6 DEF SettleEmit, SettleRelieve
  <2>2. call[d] \in {"granted", "emitted"} /\ UNCHANGED <<marker, won>>
    BY <1>6 DEF SettleEmit, SettleRelieve, row
  <2>3. d = issued /\ won[d] # {}
    BY <1>1, <2>2, Numbers DEF AnswerInv, Turns, Answers
  <2>4. ASSUME NEW e \in Dispatches, e = cur' PROVE FenceOf(e)'
    <3>1. e = d
      BY <1>0, <1>1, <2>3, <2>4, Numbers
    <3> QED BY <2>2, <2>3, <3>1 DEF FenceOf, Decided, Armed
  <2> QED BY <1>3, <2>2, <2>4, FencesSuffice
<1> QED BY <1>4, <1>5, <1>6 DEF CallStep

(* A new dispatch starts with nothing known of it.                         *)
LEMMA FenceDispatch ==
    ASSUME "overtake" \notin Events, FenceInv, AnswerInv', Dispatch
    PROVE  FenceInv'
<1> USE PushAssumption
<1>1. /\ issued + 1 \in Dispatches /\ issued' = issued + 1 /\ cur' = issued + 1 /\ cur = 0
      /\ UNCHANGED <<outcome, won, held, ended, relieved, marker, asked, call>>
      /\ started' = [started EXCEPT ![issued + 1] = now] /\ AnswerInv
  BY SMTT(30) DEF Dispatch, Dispatches, FenceInv, AnswerInv, MarkerInv, PushTypes, calls
<1>2. Moves(issued + 1, "request")
  <2>1. Goto(issued + 1, "request")
    BY <1>1 DEF Dispatch, Goto
  <2> QED BY <1>1, <2>1, GotoMoves, Places DEF AnswerInv, MarkerInv, PushTypes
<1>3. \A d \in Dispatches : task[d].pc # "claiming"
  BY DEF Dispatch, Underway
<1>4. marker = 0
  BY <1>1 DEF AnswerInv, MarkerInv, Markers
<1>5. TimersAgree'
  BY <1>1, <1>2, <1>3, <1>4 DEF TimersAgree, Moves, At
<1>6. ended.dispatch # issued + 1 /\ held.dispatch # issued + 1
  BY <1>1, Numbers DEF AnswerInv, Registry
<1>7. call[issued + 1] = "idle" /\ ~relieved[issued + 1]
  BY <1>1, Numbers DEF AnswerInv, Turns
<1>8. \A d \in Dispatches : d = cur' => FenceOf(d)'
  BY <1>1, <1>2, <1>6, <1>7 DEF FenceOf, Moves, At
<1> QED BY <1>5, <1>8, FencesSuffice

\* Every step keeps the invariant of the fence.
LEMMA FenceStep ==
    ASSUME Events \cap {"extend", "overtake", "recordError", "claimError"} = {}, FenceInv,
         [Next]_vars,
           [RequestEndsFirst]_vars
    PROVE  FenceInv'
<1>0. AnswerInv' /\ "overtake" \notin Events /\ AnswerInv
  BY AnswerStep DEF FenceInv
<1>1. ASSUME NEW d \in Dispatches, TaskStep(d) PROVE FenceInv'
  BY <1>0, <1>1, FenceTaskStep
<1>2. ASSUME NEW d \in Dispatches, CallStep(d) \/ SettleCheck(d) PROVE FenceInv'
  BY <1>0, <1>2, FenceCallStep
<1>3. \A d \in Dispatches : ~RecordError(d) /\ ~ClaimError(d) /\ ~ExtendCheck(d) /\ ~ExtendWrite(d)
  BY <1>0 DEF RecordError, ClaimError, ExtendCheck, Happens, ExtendWrite, AnswerInv, MarkerInv,
    NotExtended
<1>4. CASE Dispatch
  BY <1>0, <1>4, FenceDispatch
<1>5. CASE Tick \/ ReapScan \/ ReapClaimError \/ (\E e \in EventKinds : Signal(e)) \/ UNCHANGED vars
           \/ (ReapClaim /\ ~claim_settle_Expired(reap.at))
  <2>1. UNCHANGED <<started, marker, task, asked, call, relieved, held, ended, cur, outcome, won>>
    BY <1>5 DEF Tick, ReapScan, ReapClaimError, Signal, ReapClaim, row, process, calls, vars
  <2>2. TimersAgree'
    BY <2>1 DEF FenceInv, TimersAgree, Deadline, At
  <2>3. \A d \in Dispatches : d = cur' => FenceOf(d)'
    BY <2>1 DEF FenceInv, FenceOf, Decided, Armed, At
  <2> QED BY <1>0, <2>2, <2>3, FencesSuffice
<1>6. CASE ReapClaim /\ claim_settle_Expired(reap.at)
  <2>1. /\ UNCHANGED <<started, task, asked, cur>>
        /\ cur # 0 /\ consume("reaper") /\ "reaper" \in Parties
    BY <1>6 DEF ReapClaim, claim_settle_Expired, process, calls, Parties
  <2>2. marker' = 0 /\ won'[cur] # {}
    BY <1>0, <2>1, ConsumeFacts DEF AnswerInv, MarkerInv
  <2>3. TimersAgree'
    BY <2>1, <2>2 DEF FenceInv, TimersAgree, Deadline, At
  <2>4. \A d \in Dispatches : d = cur' => FenceOf(d)'
    BY <2>1, <2>2 DEF FenceOf, Decided, Armed
  <2> QED BY <1>0, <2>3, <2>4, FencesSuffice
<1>7. CASE ReapSettle \/ Requeue \/ \E r \in sent : Drain(r)
  <2>1. UNCHANGED <<started, task, asked, call, relieved, held, ended>>
    BY <1>7 DEF ReapSettle, Requeue, Drain, process, calls
  <2>2. \/ UNCHANGED <<cur, marker, outcome, won>>
        \/ cur' = 0 /\ marker' = 0
    BY <1>7 DEF ReapSettle, Requeue, Drain, Decide, row
  <2>3. TimersAgree'
    BY <2>1, <2>2 DEF FenceInv, TimersAgree, Deadline, At
  <2>4. \A d \in Dispatches : d = cur' => FenceOf(d)'
    <3>1. \A d \in Dispatches : d # 0
      BY PushAssumption DEF Dispatches
    <3> QED BY <2>1, <2>2, <3>1 DEF FenceInv, FenceOf, Decided, Armed, At
  <2> QED BY <1>0, <2>3, <2>4, FencesSuffice
<1> QED BY <1>1, <1>2, <1>3, <1>4, <1>5, <1>6, <1>7 DEF Next, ReapStep

\* The initial states satisfy it.
LEMMA FenceInitOK ==
    ASSUME Init
    PROVE  FenceInv
<1>1. AnswerInv /\ \A d \in Dispatches : d # 0
  BY AnswerInitOK, PushAssumption DEF Dispatches
<1> QED BY <1>1 DEF Init, FenceInv, TimersAgree, FenceOf, NoEntry, At

(* A target is told Fenced, which is final, only once its dispatch is      *)
(* decided or somebody holds its marker, for any number of dispatches,     *)
(* under the same conditions and while no storage call fails: after a      *)
(* failed claim the attempt gives its entry up with the marker still there *)
(* (attempt.rs, retire_accepted).                                          *)
THEOREM FencedMeansDecidedOrdinarily ==
    ASSUME Events \cap {"extend", "overtake", "recordError", "claimError"} = {}
    PROVE  Spec /\ [][RequestEndsFirst]_vars => []FencedMeansDecided
<1>1. FenceInv => FencedMeansDecided
  BY DEF FenceInv, FenceOf, Decided, FencedMeansDecided
<1> QED BY <1>1, FenceInitOK, FenceStep, PTL DEF Spec
=============================================================================

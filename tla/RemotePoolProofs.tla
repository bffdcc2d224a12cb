-------------------------- MODULE RemotePoolProofs --------------------------
(***************************************************************************)
(* The remote executor pool: a dispatch is answered for once, and rotating *)
(* a connection out strands no job, for any jobs, connections and slots.   *)
(***************************************************************************)
EXTENDS RemotePool, FiniteSetTheorems, TLAPS

Upto == 0..MaxHand
IsSeq(s) == \E S : s \in Seq(S)

\* What each variable is made of, as far as the invariant depends on it.
HandTypes ==
    /\ given \in Seq(PoolJobs) /\ Len(given) <= MaxHand /\ queue \in Seq(Handed)
    /\ place \in [n : Upto, conn : Conns \cup {0}]

LinkRow(r) == DOMAIN r = {"state", "id", "free", "draining"} /\ r.free \in Int
LinkTypes == DOMAIN link = Conns /\ (\A c \in Conns : LinkRow(link[c])) /\ registry \subseteq Conns

EntryRow(r) == DOMAIN r = {"n", "lease", "slept"} /\ r.n \in Upto
EntryTypes ==
    /\ DOMAIN entry = Conns
    /\ \A c \in Conns : DOMAIN entry[c] = PoolJobs /\ \A j \in PoolJobs : EntryRow(entry[c][j])

DownTypes(s) == IsSeq(s) /\ \A i \in DOMAIN s : s[i].n \in Handed
UpTypes(s) == IsSeq(s) /\ \A i \in DOMAIN s : s[i].n \in Upto /\ (s[i].kind = "beat" => s[i].free \in Int)
ExecRow(e) ==
    /\ DOMAIN e = {"leases", "free_slots", "running", "asking", "told", "done", "sent", "beat", "draining"}
    /\ e.free_slots \in Int /\ e.beat \in Int /\ e.sent \in Upto
    /\ e.running \subseteq Handed /\ e.asking \subseteq Handed /\ e.done \subseteq Handed
ExecTypes(c) == DownTypes(down[c]) /\ UpTypes(up[c]) /\ ExecRow(exec[c])
Domains == DOMAIN down = Conns /\ DOMAIN up = Conns /\ DOMAIN exec = Conns

PumpTypes == \A w \in pump : w.conn \in Conns /\ w.n \in 1..Len(given)
AnswerTypes == replies \in [Handed -> Nat] /\ DOMAIN fate = Handed

PoolTypes ==
    /\ HandTypes /\ LinkTypes /\ EntryTypes /\ Domains /\ PumpTypes /\ AnswerTypes
    /\ \A c \in Conns : ExecTypes(c)

\* The dispatch an entry stands for, or 0.
Of(c, j) == entry[c][j].n
Known(n) == n \in 1..Len(given)
Queued(n) == \E i \in DOMAIN queue : queue[i] = n
Entered(n) == \E c \in Conns, j \in PoolJobs : Of(c, j) = n
Unsettled(n) == n # 0 /\ (Queued(n) \/ place.n = n \/ Entered(n))

(* A dispatch nobody answered for is in one place: the queue, placement or *)
(* one entry of one connection.                                            *)
OnePlace ==
    /\ \A i, k \in DOMAIN queue : queue[i] = queue[k] => i = k
    /\ \A i \in DOMAIN queue : Known(queue[i]) /\ queue[i] # place.n /\ ~Entered(queue[i])
    /\ place.n = 0 => place.conn = 0
    /\ place.n # 0 => Known(place.n) /\ ~Entered(place.n)
    /\ place.conn # 0 => Of(place.conn, Job(place.n)) = 0
    /\ \A c \in Conns, j \in PoolJobs :
          /\ Of(c, j) = 0 => entry[c][j] = NoDispatch
          /\ Of(c, j) # 0 => /\ Known(Of(c, j)) /\ Job(Of(c, j)) = j
                             /\ \A d \in Conns : Of(d, j) = Of(c, j) => d = c

AnswersLeft ==
    \A n \in Handed : replies[n] <= 1 /\ (~Known(n) \/ Unsettled(n) => replies[n] = 0)

Busy(c) == exec[c].running \cup exec[c].asking \cup exec[c].done
OneStage(e) == e.running \cap e.asking = {} /\ e.running \cap e.done = {} /\ e.asking \cap e.done = {}
Named(c, n) == Known(n) /\ Of(c, Job(n)) = n
Speaks(c, i, n) == up[c][i].kind # "beat" /\ up[c][i].n = n

(* What is on its way to, at or from an executor belongs to the dispatch   *)
(* its entry stands for, is in one place, and a result is the last that is *)
(* said of it.                                                             *)
BusyNamed(c) == \A n \in Busy(c) : Named(c, n)
UpNamed(c) == \A i \in DOMAIN up[c] : up[c][i].kind # "beat" => up[c][i].n # 0 /\ Named(c, up[c][i].n)
DownOnce(c) ==
    \A i \in DOMAIN down[c] :
        /\ Named(c, down[c][i].n) /\ down[c][i].n \notin Busy(c)
        /\ \A k \in DOMAIN up[c] : ~Speaks(c, k, down[c][i].n)
        /\ \A k \in DOMAIN down[c] : down[c][k].n = down[c][i].n => k = i
ResultLast(c) ==
    \A i \in DOMAIN up[c] : up[c][i].kind = "result" =>
        up[c][i].n \notin Busy(c) /\ \A k \in DOMAIN up[c] : Speaks(c, k, up[c][i].n) => k <= i
Stopped(c) ==
    /\ link[c].state # "open" => Busy(c) = {} /\ down[c] = <<>>
    /\ link[c].state = "gone" => \A i \in DOMAIN up[c] : up[c][i].kind = "beat"

Tidy(c) == BusyNamed(c) /\ UpNamed(c) /\ DownOnce(c) /\ ResultLast(c) /\ OneStage(exec[c]) /\ Stopped(c)

(* A dispatch given up stays given up.                                     *)
LostForGood ==
    \A n \in Handed : fate[n] = "lost" =>
        /\ Known(n) /\ ~Queued(n) /\ place.n # n
        /\ \A c \in Conns, j \in PoolJobs : Of(c, j) = n => link[c].state = "gone"

Slotted(c) ==
    /\ link[c].state = "off" => Held(c) = {} /\ place.conn # c /\ c \notin registry /\ link[c].free <= Slots
    /\ link[c].state = "detached" => Held(c) = {} /\ place.conn # c /\ c \notin registry
    /\ Open(c) => link[c].free + Cardinality(Held(c)) + Matched(c) <= Slots
    /\ Open(c) => c \in registry \/ \E n \in Handed : fate[n] = "lost"

\* The entries stand for the dispatches they stood for.
EntriesKept ==
    /\ EntryTypes'
    /\ \A c \in Conns, j \in PoolJobs : /\ Of(c, j)' = Of(c, j)
                                        /\ (entry'[c][j] = NoDispatch) <=> (entry[c][j] = NoDispatch)

PoolInv ==
    /\ PoolTypes /\ OnePlace /\ AnswersLeft
    /\ \A c \in Conns : Tidy(c)
    /\ LostForGood
    /\ \A c \in Conns : Slotted(c)

(* Sequences of whatever: frames are never looked into but for a field.    *)
LEMMA SeqFacts == ASSUME NEW s, IsSeq(s) PROVE Len(s) \in Nat /\ DOMAIN s = 1..Len(s)
BY DEF IsSeq

(* One more at the end.                                                    *)
LEMMA AppendFacts ==
    ASSUME NEW s, IsSeq(s), NEW f
    PROVE  /\ IsSeq(Append(s, f)) /\ DOMAIN Append(s, f) = 1..(Len(s) + 1) /\ Append(s, f)[Len(s) + 1] = f
           /\ \A i \in 1..Len(s) : Append(s, f)[i] = s[i]
<1>1. PICK S : s \in Seq(S)
  BY DEF IsSeq
<1>2. s \in Seq(S \cup {f}) /\ f \in S \cup {f}
  BY <1>1
<1>3. Append(s, f) \in Seq(S \cup {f})
  BY <1>2
<1>4. /\ DOMAIN Append(s, f) = 1..(Len(s) + 1) /\ Append(s, f)[Len(s) + 1] = f
      /\ \A i \in 1..Len(s) : Append(s, f)[i] = s[i]
  BY <1>2
<1> QED BY <1>3, <1>4, Zenon DEF IsSeq

(* One less in front.                                                      *)
LEMMA TailFacts ==
    ASSUME NEW s, IsSeq(s), s # <<>>
    PROVE  /\ IsSeq(Tail(s)) /\ DOMAIN Tail(s) = 1..(Len(s) - 1) /\ 1 \in DOMAIN s /\ Head(s) = s[1]
           /\ \A i \in 1..(Len(s) - 1) : i + 1 \in DOMAIN s /\ Tail(s)[i] = s[i + 1]
<1>1. PICK S : s \in Seq(S)
  BY DEF IsSeq
<1>2. Tail(s) \in Seq(S)
  BY <1>1
<1>3. /\ DOMAIN Tail(s) = 1..(Len(s) - 1) /\ 1 \in DOMAIN s /\ Head(s) = s[1]
      /\ \A i \in 1..(Len(s) - 1) : i + 1 \in DOMAIN s /\ Tail(s)[i] = s[i + 1]
  BY <1>1
<1> QED BY <1>2, <1>3, Zenon DEF IsSeq

(* What is read of a stream that ends.                                     *)
LEMMA PrefixFacts ==
    ASSUME NEW s, IsSeq(s), NEW k \in 0..Len(s)
    PROVE  /\ IsSeq(SubSeq(s, 1, k))
           /\ \A i \in DOMAIN SubSeq(s, 1, k) : i \in DOMAIN s /\ SubSeq(s, 1, k)[i] = s[i]
<1>1. PICK S : s \in Seq(S)
  BY DEF IsSeq
<1>2. SubSeq(s, 1, k) \in Seq(S)
  BY <1>1
<1>3. \A i \in DOMAIN SubSeq(s, 1, k) : i \in DOMAIN s /\ SubSeq(s, 1, k)[i] = s[i]
  BY <1>1
<1> QED BY <1>2, <1>3, Zenon DEF IsSeq

(* Nothing on the way.                                                     *)
LEMMA EmptyFacts == IsSeq(<<>>) /\ DOMAIN <<>> = {}
<1>1. <<>> \in Seq({})
  OBVIOUS
<1>2. DOMAIN <<>> = {}
  OBVIOUS
<1> QED BY <1>1, <1>2, Zenon DEF IsSeq

(* Sets of dispatches are finite.                                          *)
LEMMA SizeIsNat == ASSUME NEW S \in SUBSET Handed PROVE Cardinality(S) \in Nat
<1>1. IsFiniteSet(Handed)
  BY PoolAssumption, FS_Interval DEF Handed
<1> QED BY <1>1, FS_Subset, FS_CardinalityType

(* A dispatch that was handed over has a job.                              *)
LEMMA JobKnown == ASSUME HandTypes, NEW n, Known(n) PROVE Job(n) \in PoolJobs /\ n \in Handed
BY PoolAssumption DEF HandTypes, Known, Job, Handed

(* Dispatches stay where they are.                                         *)
LEMMA PlacesKept ==
    ASSUME PoolInv, UNCHANGED <<given, queue, place, replies>>, EntriesKept
    PROVE  /\ OnePlace' /\ AnswersLeft' /\ \A n : (Known(n)' <=> Known(n)) /\ (Queued(n)' <=> Queued(n))
           /\ \A c \in Conns : Held(c)' = Held(c) /\ Matched(c)' = Matched(c)
<1>0. HandTypes
  BY DEF PoolInv, PoolTypes
<1>1. \A n : (Known(n)' <=> Known(n)) /\ (Queued(n)' <=> Queued(n)) /\ Job(n)' = Job(n)
  BY DEF Known, Queued, Job
<1>2. \A n : Entered(n)' <=> Entered(n)
  BY DEF Entered, EntriesKept
<1>3. OnePlace'
  <2>1. place.conn # 0 => place.conn \in Conns /\ Job(place.n) \in PoolJobs
    BY <1>0, JobKnown DEF PoolInv, OnePlace, HandTypes
  <2>2. place'.conn # 0 => Of(place.conn, Job(place.n))' = 0
    BY <1>1, <2>1 DEF PoolInv, OnePlace, EntriesKept
  <2>3. \A c \in Conns, j \in PoolJobs :
          /\ Of(c, j)' = 0 => entry'[c][j] = NoDispatch
          /\ Of(c, j)' # 0 => /\ Known(Of(c, j)) /\ Job(Of(c, j)) = j
                              /\ \A d \in Conns : Of(d, j)' = Of(c, j)' => d = c
    BY DEF PoolInv, OnePlace, EntriesKept
  <2>4. \A c \in Conns, j \in PoolJobs : Of(c, j)' # 0 => (Known(Of(c, j)) /\ Job(Of(c, j)) = j)'
    BY <1>1, <2>3 DEF EntriesKept, Known, Job
  <2> QED BY <1>1, <1>2, <2>2, <2>3, <2>4 DEF PoolInv, OnePlace
<1>4. AnswersLeft'
  BY <1>1, <1>2 DEF PoolInv, AnswersLeft, Unsettled
<1>5. \A c \in Conns : Held(c)' = Held(c) /\ Matched(c)' = Matched(c)
  BY DEF EntriesKept, Held, Matched
<1> QED BY <1>1, <1>3, <1>4, <1>5

(* Entries nobody touched.                                                 *)
LEMMA EntriesSame == PoolInv /\ entry' = entry => EntriesKept
BY DEF PoolInv, PoolTypes, EntryTypes, EntriesKept, Of

(* What a step at one connection's executor leaves alone.                  *)
LEMMA PoolSideKept ==
    ASSUME PoolInv, UNCHANGED <<given, queue, place, link, registry, replies, fate>>, EntriesKept
    PROVE  /\ OnePlace' /\ AnswersLeft' /\ LostForGood' /\ \A c \in Conns : Slotted(c)'
           /\ HandTypes' /\ LinkTypes' /\ EntryTypes' /\ AnswerTypes'
<1>1. LostForGood'
  BY PlacesKept DEF PoolInv, LostForGood, EntriesKept
<1>2. \A c \in Conns : Slotted(c)'
  BY PlacesKept DEF PoolInv, Slotted, Open
<1>3. HandTypes' /\ LinkTypes' /\ EntryTypes' /\ AnswerTypes'
  BY DEF PoolInv, PoolTypes, HandTypes, LinkTypes, EntriesKept, AnswerTypes
<1> QED BY <1>1, <1>2, <1>3, PlacesKept

(* Less on the way, and nothing new.                                       *)
LEMMA TidyLess ==
    ASSUME PoolInv, NEW c \in Conns, NEW a \in Nat, ExecTypes(c)',
           \A n : Known(n) => Known(n)' /\ Job(n)' = Job(n),
           \A j \in PoolJobs : Of(c, j)' = Of(c, j),
           Busy(c)' \subseteq Busy(c), OneStage(exec'[c]), down'[c] = down[c] \/ down'[c] = <<>>,
           \A i \in DOMAIN up'[c] : i + a \in DOMAIN up[c] /\ up'[c][i] = up[c][i + a],
           link'[c].state # "open" => Busy(c)' = {} /\ down'[c] = <<>>,
           link'[c].state = "gone" => link[c].state = "gone" \/ up'[c] = <<>>
    PROVE  Tidy(c)'
<1>0. Tidy(c) /\ HandTypes
  BY DEF PoolInv, PoolTypes
<1>1. \A n : Named(c, n) => Named(c, n)'
  BY <1>0, JobKnown DEF Named
<1>2. DOMAIN up'[c] \subseteq Int /\ DOMAIN up[c] \subseteq Int /\ DOMAIN down'[c] \subseteq DOMAIN down[c]
      /\ \A i \in DOMAIN down'[c] : down'[c][i] = down[c][i]
  BY SeqFacts, EmptyFacts DEF PoolInv, PoolTypes, ExecTypes, UpTypes
<1>3. BusyNamed(c)' /\ UpNamed(c)'
  BY <1>0, <1>1 DEF Tidy, BusyNamed, UpNamed
<1>4. DownOnce(c)'
  BY <1>0, <1>1, <1>2 DEF Tidy, DownOnce, Speaks
<1>5. ResultLast(c)'
  <2> SUFFICES ASSUME NEW i \in DOMAIN up'[c], up'[c][i].kind = "result"
               PROVE  /\ up'[c][i].n \notin Busy(c)'
                      /\ \A k \in DOMAIN up'[c] : up'[c][k].kind # "beat" /\ up'[c][k].n = up'[c][i].n => k <= i
    BY DEF ResultLast, Speaks
  <2>1. i \in Int /\ i + a \in DOMAIN up[c] /\ up'[c][i] = up[c][i + a]
    BY <1>2
  <2>2. /\ up[c][i + a].n \notin Busy(c)
        /\ \A k \in DOMAIN up[c] : up[c][k].kind # "beat" /\ up[c][k].n = up[c][i + a].n => k <= i + a
    BY <1>0, <2>1 DEF Tidy, ResultLast, Speaks
  <2>3. ASSUME NEW k \in DOMAIN up'[c], up'[c][k].kind # "beat" /\ up'[c][k].n = up'[c][i].n PROVE k <= i
    <3>1. k \in Int /\ k + a <= i + a
      BY <1>2, <2>1, <2>2, <2>3
    <3> QED BY <2>1, <3>1
  <2> QED BY <2>1, <2>2, <2>3
<1>6. Stopped(c)'
  BY <1>0, EmptyFacts DEF Tidy, Stopped
<1> QED BY <1>3, <1>4, <1>5, <1>6 DEF Tidy

(* Nothing at all at this connection.                                      *)
LEMMA TidySame ==
    ASSUME PoolInv, NEW c \in Conns, \A n : Known(n) => Known(n)' /\ Job(n)' = Job(n),
           \A j \in PoolJobs : Of(c, j)' = Of(c, j),
           UNCHANGED <<down[c], up[c], exec[c]>>,
           link'[c].state # "open" => link[c].state # "open",
           link'[c].state = "gone" => link[c].state = "gone"
    PROVE  ExecTypes(c)' /\ Tidy(c)'
<1>0. Tidy(c) /\ ExecTypes(c)
  BY DEF PoolInv, PoolTypes
<1>1. ExecTypes(c)' /\ Busy(c)' = Busy(c) /\ OneStage(exec'[c])
  BY <1>0 DEF ExecTypes, Busy, Tidy
<1>2. \A i \in DOMAIN up'[c] : i + 0 \in DOMAIN up[c] /\ up'[c][i] = up[c][i + 0]
  BY <1>0, SeqFacts DEF ExecTypes, UpTypes
<1>3. link'[c].state # "open" => Busy(c)' = {} /\ down'[c] = <<>>
  BY <1>0, <1>1 DEF Tidy, Stopped
<1> QED BY <1>1, <1>2, <1>3, TidyLess

(* A step of one executor, or of the pump for it.                          *)
LEMMA PumpSide ==
    ASSUME PoolInv, NEW c \in Conns, UNCHANGED <<given, queue, place, link, registry, replies, fate>>, EntriesKept,
           Domains', PumpTypes', ExecTypes(c)', Tidy(c)',
           \A d \in Conns : d # c => UNCHANGED <<down[d], up[d], exec[d]>>
    PROVE  PoolInv'
<1>1. \A n : Known(n) => Known(n)' /\ Job(n)' = Job(n)
  BY DEF Known, Job
<1>2. \A d \in Conns : ExecTypes(d)' /\ Tidy(d)'
  BY <1>1, TidySame DEF EntriesKept
<1> QED BY <1>2, PoolSideKept DEF PoolInv, PoolTypes

(* A step of one executor that no entry notices.                           *)
LEMMA ExecutorSide ==
    ASSUME PoolInv, NEW c \in Conns, UNCHANGED <<given, queue, place, link, registry, entry, replies, fate>>,
           Domains', PumpTypes', ExecTypes(c)', Tidy(c)',
           \A d \in Conns : d # c => UNCHANGED <<down[d], up[d], exec[d]>>
    PROVE  PoolInv'
BY EntriesSame, PumpSide

(* One more frame from the executor, about a dispatch it has.              *)
LEMMA TidySays ==
    ASSUME PoolInv, NEW c \in Conns, NEW f, NEW b \in Nat, ExecTypes(c)', UNCHANGED <<given, entry, link>>,
           up'[c] = Append(up[c], f), Busy(c)' \subseteq Busy(c), OneStage(exec'[c]),
           link[c].state # "open" => down'[c] = <<>>,
           \A i \in DOMAIN down'[c] : i + b \in DOMAIN down[c] /\ down'[c][i] = down[c][i + b],
           f.kind # "beat" =>
               /\ f.n # 0 /\ Named(c, f.n) /\ link[c].state = "open"
               /\ \A i \in DOMAIN down'[c] : down'[c][i].n # f.n
               /\ \A k \in DOMAIN up[c] : up[c][k].kind = "result" => up[c][k].n # f.n
               /\ f.kind = "result" => f.n \notin Busy(c)'
    PROVE  Tidy(c)'
<1>0. Tidy(c) /\ IsSeq(up[c]) /\ DownTypes(down[c]) /\ DownTypes(down'[c])
  BY DEF PoolInv, PoolTypes, ExecTypes, UpTypes
<1>1. \A n : Named(c, n)' = Named(c, n)
  BY DEF Named, Known, Of, Job
<1>2. PICK m \in Nat : /\ m + 1 \in DOMAIN up'[c] /\ up'[c][m + 1] = f /\ DOMAIN up[c] = 1..m
                       /\ DOMAIN up'[c] = 1..(m + 1) /\ \A i \in 1..m : up'[c][i] = up[c][i]
  BY <1>0, SeqFacts, AppendFacts
<1>3. \A i \in DOMAIN up'[c] : i = m + 1 \/ (i \in DOMAIN up[c] /\ up'[c][i] = up[c][i] /\ i <= m)
  BY <1>2
<1>4. BusyNamed(c)' /\ UpNamed(c)'
  BY <1>0, <1>1, <1>2, <1>3 DEF Tidy, BusyNamed, UpNamed
<1>5. DOMAIN down'[c] \subseteq Int
  BY <1>0, SeqFacts DEF DownTypes
<1>6. DownOnce(c)'
  <2> SUFFICES ASSUME NEW i \in DOMAIN down'[c]
               PROVE  /\ Named(c, down[c][i].n)' /\ down'[c][i].n \notin Busy(c)'
                      /\ \A k \in DOMAIN up'[c] : ~(up'[c][k].kind # "beat" /\ up'[c][k].n = down'[c][i].n)
                      /\ \A k \in DOMAIN down'[c] : down'[c][k].n = down'[c][i].n => k = i
    BY DEF DownOnce, Speaks
  <2>1. /\ i \in Int /\ i + b \in DOMAIN down[c] /\ down'[c][i] = down[c][i + b]
        /\ \A k \in DOMAIN down'[c] : k \in Int /\ k + b \in DOMAIN down[c] /\ down'[c][k] = down[c][k + b]
    BY <1>5
  <2>2. /\ Named(c, down[c][i + b].n) /\ down[c][i + b].n \notin Busy(c)
        /\ \A k \in DOMAIN up[c] : ~(up[c][k].kind # "beat" /\ up[c][k].n = down[c][i + b].n)
        /\ \A k \in DOMAIN down[c] : down[c][k].n = down[c][i + b].n => k = i + b
    BY <1>0, <2>1 DEF Tidy, DownOnce, Speaks
  <2>3. ASSUME NEW k \in DOMAIN down'[c], down'[c][k].n = down'[c][i].n PROVE k = i
    <3>1. k + b = i + b /\ k \in Int
      BY <2>1, <2>2, <2>3
    <3> QED BY <2>1, <3>1
  <2>4. \A k \in DOMAIN up'[c] : ~(up'[c][k].kind # "beat" /\ up'[c][k].n = down'[c][i].n)
    BY <1>2, <1>3, <2>1, <2>2
  <2> QED BY <1>1, <2>1, <2>2, <2>3, <2>4
<1>7. ResultLast(c)'
  <2> SUFFICES ASSUME NEW i \in DOMAIN up'[c], up'[c][i].kind = "result"
               PROVE  /\ up'[c][i].n \notin Busy(c)'
                      /\ \A k \in DOMAIN up'[c] : up'[c][k].kind # "beat" /\ up'[c][k].n = up'[c][i].n => k <= i
    BY DEF ResultLast, Speaks
  <2>1. CASE i = m + 1
    BY <1>2, <1>3, <2>1
  <2>2. CASE i \in DOMAIN up[c] /\ up'[c][i] = up[c][i]
    <3>1. /\ up[c][i].n \notin Busy(c)
          /\ \A k \in DOMAIN up[c] : up[c][k].kind # "beat" /\ up[c][k].n = up[c][i].n => k <= i
      BY <1>0, <2>2 DEF Tidy, ResultLast, Speaks
    <3> QED BY <1>2, <1>3, <2>2, <3>1
  <2> QED BY <1>3, <2>1, <2>2
<1>8. Stopped(c)'
  <2>1. link[c].state # "open" => Busy(c)' = {} /\ down'[c] = <<>>
    BY <1>0 DEF Tidy, Stopped
  <2>2. link[c].state = "gone" => \A i \in DOMAIN up'[c] : up'[c][i].kind = "beat"
    BY <1>0, <1>2, <1>3 DEF Tidy, Stopped
  <2> QED BY <2>1, <2>2 DEF Stopped
<1> QED BY <1>4, <1>6, <1>7, <1>8 DEF Tidy

(* A well-formed frame keeps the stream well-formed.                       *)
LEMMA SaysTypes ==
    ASSUME NEW s, UpTypes(s), NEW f, f.n \in Upto, f.kind = "beat" => f.free \in Int
    PROVE  UpTypes(Append(s, f))
<1>1. IsSeq(s)
  BY DEF UpTypes
<1>2. /\ IsSeq(Append(s, f)) /\ Append(s, f)[Len(s) + 1] = f /\ DOMAIN s = 1..Len(s) /\ Len(s) \in Nat
      /\ DOMAIN Append(s, f) = 1..(Len(s) + 1) /\ \A i \in 1..Len(s) : Append(s, f)[i] = s[i]
  BY <1>1, AppendFacts, SeqFacts
<1>3. \A i \in DOMAIN Append(s, f) : i = Len(s) + 1 \/ i \in DOMAIN s
  BY <1>2
<1> QED BY <1>2, <1>3 DEF UpTypes

(* The executor: a task ends or gives up waiting, a slot is published, a   *)
(* count is read.                                                          *)
LEMMA ExecutorWorks ==
    ASSUME PoolInv, NEW c \in Conns,
           job_finished(c) \/ LoadHeartbeat(c) \/ \E n \in Handed : TaskEnds(c, n) \/ AckTimeout(c, n)
    PROVE  PoolInv'
<1>0. ExecRow(exec[c]) /\ DOMAIN exec = Conns /\ OneStage(exec[c]) /\ UpTypes(up[c]) /\ DownTypes(down[c])
  BY DEF PoolInv, PoolTypes, Domains, ExecTypes, Tidy
<1>1. UNCHANGED <<given, queue, place, link, registry, entry, replies, fate, down, up, pump>>
  BY DEF job_finished, LoadHeartbeat, TaskEnds, AckTimeout, storeSide, poolSide, wire, answers
<1>2. /\ ExecRow(exec'[c]) /\ DOMAIN exec' = Conns /\ OneStage(exec'[c]) /\ Busy(c)' = Busy(c)
      /\ \A d \in Conns : d # c => exec'[d] = exec[d]
  <2>1. CASE LoadHeartbeat(c)
    BY <1>0, <2>1 DEF LoadHeartbeat, ExecRow, OneStage, Busy
  <2>2. CASE job_finished(c)
    <3> DEFINE free == publish_free(exec[c], Unanswered(exec[c]) \ {exec[c].sent})
    <3>1. Unanswered(exec[c]) \ {exec[c].sent} \in SUBSET Handed
      BY <1>0, PoolAssumption DEF Unanswered, ExecRow, Upto, Handed
    <3>2. free \in Int
      BY <1>0, <3>1, SizeIsNat, PoolAssumption DEF publish_free, ExecRow
    <3>3. exec' = [exec EXCEPT ![c].leases[Job(exec[c].sent)] = 0, ![c].sent = 0, ![c].free_slots = free]
      BY <2>2 DEF job_finished
    <3> HIDE DEF free
    <3> QED BY <1>0, <3>2, <3>3, PoolAssumption DEF ExecRow, OneStage, Busy, Upto
  <2>3. ASSUME NEW n \in Handed, TaskEnds(c, n) \/ AckTimeout(c, n)
        PROVE  /\ ExecRow(exec'[c]) /\ DOMAIN exec' = Conns /\ OneStage(exec'[c]) /\ Busy(c)' = Busy(c)
               /\ \A d \in Conns : d # c => exec'[d] = exec[d]
    <3>1. CASE TaskEnds(c, n)
      BY <1>0, <3>1 DEF TaskEnds, ExecRow, OneStage, Busy
    <3>2. CASE AckTimeout(c, n)
      <4>1. /\ DOMAIN exec' = Conns /\ \A d \in Conns : d # c => exec'[d] = exec[d]
            /\ exec'[c] = [exec[c] EXCEPT !.asking = exec[c].asking \ {n}, !.done = exec[c].done \cup {n}]
        BY <1>0, <3>2 DEF AckTimeout
      <4>2. ExecRow(exec'[c])
        BY <1>0, <4>1 DEF ExecRow
      <4>3. /\ exec'[c].asking = exec[c].asking \ {n} /\ exec'[c].done = exec[c].done \cup {n}
            /\ exec'[c].running = exec[c].running /\ n \in exec[c].asking
        BY <1>0, <3>2, <4>1 DEF ExecRow, AckTimeout
      <4> QED BY <1>0, <4>1, <4>2, <4>3 DEF OneStage, Busy
    <3> QED BY <2>3, <3>1, <3>2
  <2> QED BY <2>1, <2>2, <2>3
<1>3. Domains' /\ PumpTypes' /\ ExecTypes(c)'
  BY <1>0, <1>1, <1>2 DEF PoolInv, PoolTypes, Domains, PumpTypes, ExecTypes
<1>4. \A i \in DOMAIN up'[c] : i + 0 \in DOMAIN up[c] /\ up'[c][i] = up[c][i + 0]
  BY <1>0, <1>1, SeqFacts DEF UpTypes
<1>5. Tidy(c)'
  <2>1. (\A n : Known(n) => Known(n)' /\ Job(n)' = Job(n)) /\ \A j \in PoolJobs : Of(c, j)' = Of(c, j)
    BY <1>1 DEF Known, Job, Of
  <2>2. link'[c].state # "open" => Busy(c)' = {} /\ down'[c] = <<>>
    BY <1>1, <1>2 DEF PoolInv, Tidy, Stopped
  <2> QED BY <1>1, <1>2, <1>3, <1>4, <2>1, <2>2, TidyLess
<1> QED BY <1>1, <1>2, <1>3, <1>5, ExecutorSide

(* The executor: a heartbeat, or the one that announces its end.           *)
LEMMA ExecutorBeats ==
    ASSUME PoolInv, NEW c \in Conns, SendHeartbeat(c) \/ begin_drain(c)
    PROVE  PoolInv'
<1>0. /\ ExecRow(exec[c]) /\ Domains /\ OneStage(exec[c]) /\ UpTypes(up[c]) /\ DownTypes(down[c])
      /\ Stopped(c)
  BY DEF PoolInv, PoolTypes, ExecTypes, Tidy
<1>1. UNCHANGED <<given, queue, place, link, registry, entry, replies, fate, down, pump>>
  BY DEF SendHeartbeat, begin_drain, storeSide, poolSide, answers
<1>2. /\ ExecRow(exec'[c]) /\ DOMAIN exec' = Conns /\ OneStage(exec'[c]) /\ Busy(c)' = Busy(c)
      /\ \A d \in Conns : d # c => exec'[d] = exec[d]
  <2>1. CASE SendHeartbeat(c)
    BY <1>0, <2>1 DEF SendHeartbeat, Domains, ExecRow, OneStage, Busy
  <2>2. CASE begin_drain(c)
    BY <1>0, <2>2 DEF begin_drain, Domains, ExecRow, OneStage, Busy
  <2> QED BY <2>1, <2>2
<1>3. PICK count \in Int : up' = [up EXCEPT ![c] = Append(up[c], Beat(count))]
  BY <1>0 DEF SendHeartbeat, begin_drain, Write, ExecRow
<1>4. up'[c] = Append(up[c], Beat(count)) /\ DOMAIN up' = Conns /\ \A d \in Conns : d # c => up'[d] = up[d]
  BY <1>0, <1>3 DEF Domains
<1>5. Beat(count).kind = "beat" /\ Beat(count).n \in Upto /\ Beat(count).free \in Int
  BY PoolAssumption DEF Beat, Upto
<1>6. Domains' /\ PumpTypes' /\ ExecTypes(c)'
  BY <1>0, <1>1, <1>2, <1>4, <1>5, SaysTypes DEF PoolInv, PoolTypes, Domains, PumpTypes, ExecTypes
<1>7. \A i \in DOMAIN down'[c] : i + 0 \in DOMAIN down[c] /\ down'[c][i] = down[c][i + 0]
  BY <1>0, <1>1, SeqFacts DEF DownTypes
<1>8. Tidy(c)'
  BY <1>0, <1>1, <1>2, <1>4, <1>5, <1>6, <1>7, TidySays DEF Stopped
<1> QED BY <1>1, <1>2, <1>4, <1>6, <1>8, ExecutorSide

(* The executor: a result, or the wish to commit a sleep.                  *)
LEMMA ExecutorAnswers ==
    ASSUME PoolInv, NEW c \in Conns, NEW n \in Handed, send_result(c, n) \/ commit_sleep(c, n)
    PROVE  PoolInv'
<1>0. /\ ExecRow(exec[c]) /\ Domains /\ OneStage(exec[c]) /\ UpTypes(up[c]) /\ DownTypes(down[c]) /\ Tidy(c)
  BY DEF PoolInv, PoolTypes, ExecTypes, Tidy
<1>1. UNCHANGED <<given, queue, place, link, registry, entry, replies, fate, down, pump>>
  BY DEF send_result, commit_sleep, storeSide, poolSide, answers
<1>2. n \in Busy(c)
  BY DEF send_result, commit_sleep, Busy
<1>3. /\ ExecRow(exec'[c]) /\ DOMAIN exec' = Conns /\ OneStage(exec'[c]) /\ Busy(c)' \subseteq Busy(c)
      /\ \A d \in Conns : d # c => exec'[d] = exec[d]
      /\ send_result(c, n) => n \notin Busy(c)'
  <2>1. CASE send_result(c, n)
    BY <1>0, <2>1, PoolAssumption DEF send_result, Domains, ExecRow, OneStage, Busy, Handed, Upto
  <2>2. CASE commit_sleep(c, n) /\ ~send_result(c, n)
    BY <1>0, <2>2 DEF commit_sleep, Domains, ExecRow, OneStage, Busy
  <2> QED BY <2>1, <2>2
<1>4. PICK f : /\ up' = [up EXCEPT ![c] = Append(up[c], f)] /\ f.n = n /\ f.kind \in {"result", "sleep"}
               /\ f.kind = "result" => send_result(c, n)
  <2>1. CASE send_result(c, n)
    <3>1. up' = [up EXCEPT ![c] = Append(up[c], Result(c, n))]
      BY <2>1 DEF send_result, Write
    <3>2. Result(c, n).n = n /\ Result(c, n).kind = "result"
      BY DEF Result
    <3> QED BY <2>1, <3>1, <3>2
  <2>2. CASE commit_sleep(c, n)
    <3> DEFINE f == [Result(c, n) EXCEPT !.kind = "sleep"]
    <3>1. up' = [up EXCEPT ![c] = Append(up[c], f)]
      BY <2>2 DEF commit_sleep, Write
    <3>2. f.n = n /\ f.kind = "sleep"
      BY DEF Result
    <3> HIDE DEF f
    <3> QED BY <3>1, <3>2
  <2> QED BY <2>1, <2>2
<1>5. up'[c] = Append(up[c], f) /\ DOMAIN up' = Conns /\ \A d \in Conns : d # c => up'[d] = up[d]
  BY <1>0, <1>4 DEF Domains
<1>6. Domains' /\ PumpTypes' /\ ExecTypes(c)'
  <2>1. f.n \in Upto /\ f.kind # "beat"
    BY <1>4, PoolAssumption DEF Upto, Handed
  <2> QED BY <1>0, <1>1, <1>3, <1>5, <2>1, SaysTypes DEF PoolInv, PoolTypes, Domains, PumpTypes, ExecTypes
<1>7. \A i \in DOMAIN down'[c] : i + 0 \in DOMAIN down[c] /\ down'[c][i] = down[c][i + 0]
  BY <1>0, <1>1, SeqFacts DEF DownTypes
<1>8. /\ f.n # 0 /\ Named(c, f.n) /\ link[c].state = "open"
      /\ \A i \in DOMAIN down[c] : down[c][i].n # f.n
      /\ \A k \in DOMAIN up[c] : up[c][k].kind = "result" => up[c][k].n # f.n
  BY <1>0, <1>2, <1>4 DEF Tidy, BusyNamed, DownOnce, ResultLast, Stopped, Handed
<1>9. Tidy(c)'
  BY <1>1, <1>3, <1>4, <1>5, <1>6, <1>7, <1>8, TidySays
<1> QED BY <1>1, <1>3, <1>5, <1>6, <1>9, ExecutorSide

(* The executor: a job frame is taken, and the job started or declined.    *)
LEMMA ExecutorAccepts ==
    ASSUME PoolInv, NEW c \in Conns, accept_job(c)
    PROVE  PoolInv'
<1>0. /\ ExecRow(exec[c]) /\ Domains /\ OneStage(exec[c]) /\ UpTypes(up[c]) /\ DownTypes(down[c]) /\ Tidy(c)
      /\ HandTypes
  BY DEF PoolInv, PoolTypes, ExecTypes, Tidy
<1>1. UNCHANGED <<given, queue, place, link, registry, entry, replies, fate, pump>>
  BY DEF accept_job, storeSide, poolSide, answers
<1> DEFINE n == Head(down[c]).n
           lease == IF Head(down[c]).lease = 0 THEN exec[c].leases[Job(n)] ELSE Head(down[c]).lease
<1>2. down' = [down EXCEPT ![c] = Tail(down[c])] /\ down[c] # <<>>
  BY DEF accept_job
<1>3. down'[c] = Tail(down[c]) /\ DOMAIN down' = Conns /\ \A d \in Conns : d # c => down'[d] = down[d]
  BY <1>0, <1>2 DEF Domains
<1>4. IsSeq(down[c]) /\ IsSeq(up[c])
  BY <1>0 DEF DownTypes, UpTypes
<1>5. /\ IsSeq(down'[c]) /\ 1 \in DOMAIN down[c] /\ n = down[c][1].n
      /\ \A i \in DOMAIN down'[c] : i \in Nat \ {0} /\ i + 1 \in DOMAIN down[c] /\ down'[c][i] = down[c][i + 1]
  BY <1>2, <1>3, <1>4, TailFacts, SeqFacts
<1>6. /\ n \in Handed /\ Named(c, n) /\ n \notin Busy(c) /\ link[c].state = "open"
      /\ \A k \in DOMAIN up[c] : ~(up[c][k].kind # "beat" /\ up[c][k].n = n)
      /\ \A i \in DOMAIN down'[c] : down'[c][i].n # n
  <2>1. /\ down[c][1].n \in Handed /\ Named(c, down[c][1].n) /\ down[c][1].n \notin Busy(c)
        /\ \A k \in DOMAIN up[c] : ~(up[c][k].kind # "beat" /\ up[c][k].n = down[c][1].n)
        /\ \A k \in DOMAIN down[c] : down[c][k].n = down[c][1].n => k = 1
    BY <1>0, <1>5 DEF DownTypes, Tidy, DownOnce, Speaks
  <2>2. link[c].state = "open"
    BY <1>0, <1>2 DEF Tidy, Stopped
  <2> QED BY <1>5, <2>1, <2>2
<1>7. DownTypes(down'[c])
  BY <1>0, <1>5 DEF DownTypes
<1> HIDE DEF n
<1>8. CASE exec[c].draining
  <2> DEFINE f == [Result(c, n) EXCEPT !.lease = lease]
  <2>1. up' = [up EXCEPT ![c] = Append(up[c], f)] /\ exec' = [exec EXCEPT ![c].leases[Job(n)] = 0]
    BY <1>8 DEF accept_job, Write, n
  <2>2. f.n = n /\ f.kind = "result"
    BY DEF Result
  <2> HIDE DEF f
  <2>3. up'[c] = Append(up[c], f) /\ DOMAIN up' = Conns /\ \A d \in Conns : d # c => up'[d] = up[d]
    BY <1>0, <2>1 DEF Domains
  <2>4. /\ ExecRow(exec'[c]) /\ DOMAIN exec' = Conns /\ OneStage(exec'[c]) /\ Busy(c)' = Busy(c)
        /\ \A d \in Conns : d # c => exec'[d] = exec[d]
    BY <1>0, <2>1 DEF Domains, ExecRow, OneStage, Busy
  <2>5. f.n \in Upto /\ f.n # 0
    BY <1>6, <2>2, PoolAssumption DEF Upto, Handed
  <2>6. Domains' /\ PumpTypes' /\ ExecTypes(c)'
    BY <1>0, <1>1, <1>3, <1>7, <2>2, <2>3, <2>4, <2>5, SaysTypes
    DEF PoolInv, PoolTypes, Domains, PumpTypes, ExecTypes
  <2>7. Tidy(c)'
    BY <1>1, <1>5, <1>6, <2>2, <2>3, <2>4, <2>5, <2>6, TidySays
  <2> QED BY <1>1, <1>3, <2>3, <2>4, <2>6, <2>7, ExecutorSide
<1>9. CASE ~exec[c].draining
  <2> DEFINE free == publish_free(exec[c], Unanswered(exec[c]) \cup {n})
  <2>1. Unanswered(exec[c]) \cup {n} \in SUBSET Handed
    BY <1>0, <1>6, PoolAssumption DEF Unanswered, ExecRow, Upto, Handed
  <2>2. free \in Int
    BY <1>0, <2>1, SizeIsNat, PoolAssumption DEF publish_free, ExecRow
  <2>3. /\ up' = up
        /\ exec' = [exec EXCEPT ![c].leases[Job(n)] = lease, ![c].running = @ \cup {n}, ![c].free_slots = free]
    BY <1>9 DEF accept_job, n
  <2> HIDE DEF free, lease
  <2>4. /\ ExecRow(exec'[c]) /\ DOMAIN exec' = Conns /\ \A d \in Conns : d # c => exec'[d] = exec[d]
        /\ exec'[c].running = exec[c].running \cup {n} /\ exec'[c].asking = exec[c].asking
        /\ exec'[c].done = exec[c].done
    BY <1>0, <1>6, <2>2, <2>3 DEF Domains, ExecRow
  <2>5. OneStage(exec'[c]) /\ Busy(c)' = Busy(c) \cup {n}
    BY <1>0, <1>6, <2>4 DEF OneStage, Busy
  <2>6. Domains' /\ PumpTypes' /\ ExecTypes(c)'
    BY <1>0, <1>1, <1>3, <1>7, <2>3, <2>4 DEF PoolInv, PoolTypes, Domains, PumpTypes, ExecTypes
  <2>7. \A m : Named(c, m)' = Named(c, m)
    BY <1>1 DEF Named, Known, Of, Job
  <2>8. BusyNamed(c)' /\ UpNamed(c)'
    BY <1>0, <1>6, <2>3, <2>5, <2>7 DEF Tidy, BusyNamed, UpNamed
  <2>9. DownOnce(c)'
    <3> SUFFICES ASSUME NEW i \in DOMAIN down'[c]
                 PROVE  /\ Named(c, down[c][i].n)' /\ down'[c][i].n \notin Busy(c)'
                        /\ \A k \in DOMAIN up[c] : ~(up[c][k].kind # "beat" /\ up[c][k].n = down'[c][i].n)
                        /\ \A k \in DOMAIN down'[c] : down'[c][k].n = down'[c][i].n => k = i
      BY <2>3 DEF DownOnce, Speaks
    <3>1. /\ i \in Nat /\ i + 1 \in DOMAIN down[c] /\ down'[c][i] = down[c][i + 1]
          /\ \A k \in DOMAIN down'[c] : k \in Nat /\ k + 1 \in DOMAIN down[c] /\ down'[c][k] = down[c][k + 1]
      BY <1>5
    <3>2. /\ Named(c, down[c][i + 1].n) /\ down[c][i + 1].n \notin Busy(c)
          /\ \A k \in DOMAIN up[c] : ~(up[c][k].kind # "beat" /\ up[c][k].n = down[c][i + 1].n)
          /\ \A k \in DOMAIN down[c] : down[c][k].n = down[c][i + 1].n => k = i + 1
      BY <1>0, <3>1 DEF Tidy, DownOnce, Speaks
    <3>3. ASSUME NEW k \in DOMAIN down'[c], down'[c][k].n = down'[c][i].n PROVE k = i
      <4>1. k + 1 = i + 1 /\ k \in Nat
        BY <3>1, <3>2, <3>3
      <4> QED BY <3>1, <4>1
    <3> QED BY <1>6, <2>5, <2>7, <3>1, <3>2, <3>3
  <2>10. ResultLast(c)' /\ Stopped(c)'
    BY <1>0, <1>1, <1>6, <2>3, <2>5 DEF Tidy, ResultLast, Speaks, Stopped
  <2>11. Tidy(c)'
    BY <2>5, <2>8, <2>9, <2>10 DEF Tidy
  <2> QED BY <1>1, <1>3, <2>3, <2>4, <2>6, <2>11, ExecutorSide
<1> QED BY <1>8, <1>9

(* An answer to a task that waits for one moves it on.                     *)
LEMMA AnsweredFacts ==
    ASSUME PoolInv, NEW c \in Conns, NEW n \in Handed, NEW ok, Answered(c, n, ok)
    PROVE  /\ ExecRow(exec'[c]) /\ DOMAIN exec' = Conns /\ OneStage(exec'[c]) /\ Busy(c)' = Busy(c)
           /\ \A d \in Conns : d # c => exec'[d] = exec[d]
<1>0. ExecRow(exec[c]) /\ DOMAIN exec = Conns /\ OneStage(exec[c])
  BY DEF PoolInv, PoolTypes, Domains, ExecTypes, Tidy
<1>1. CASE n \notin exec[c].asking
  BY <1>0, <1>1 DEF Answered, Busy
<1>2. CASE n \in exec[c].asking
  <2> DEFINE told == IF ok THEN exec[c].told \cup {n} ELSE exec[c].told
  <2>1. exec' = [exec EXCEPT ![c].asking = exec[c].asking \ {n}, ![c].done = exec[c].done \cup {n}, ![c].told = told]
    BY <1>2 DEF Answered
  <2> HIDE DEF told
  <2>2. /\ DOMAIN exec' = Conns /\ \A d \in Conns : d # c => exec'[d] = exec[d]
        /\ exec'[c] = [exec[c] EXCEPT !.asking = exec[c].asking \ {n}, !.done = exec[c].done \cup {n}, !.told = told]
    BY <1>0, <2>1
  <2>3. ExecRow(exec'[c])
    BY <1>0, <2>2 DEF ExecRow
  <2>4. /\ exec'[c].asking = exec[c].asking \ {n} /\ exec'[c].done = exec[c].done \cup {n}
        /\ exec'[c].running = exec[c].running
    BY <1>0, <2>2 DEF ExecRow
  <2> QED BY <1>0, <1>2, <2>2, <2>3, <2>4 DEF OneStage, Busy
<1> QED BY <1>1, <1>2

(* The frame a reader takes off a connection.                              *)
LEMMA ReadFacts ==
    ASSUME PoolInv, NEW c \in Conns, up[c] # <<>>, Read(c)
    PROVE  /\ DOMAIN up' = Conns /\ (\A d \in Conns : d # c => up'[d] = up[d]) /\ UpTypes(up'[c])
           /\ 1 \in DOMAIN up[c] /\ Head(up[c]) = up[c][1]
           /\ \A i \in DOMAIN up'[c] : i \in Nat \ {0} /\ i + 1 \in DOMAIN up[c] /\ up'[c][i] = up[c][i + 1]
           /\ Head(up[c]).kind = "beat" => Head(up[c]).free \in Int
           /\ Head(up[c]).kind # "beat" => /\ Head(up[c]).n \in Handed /\ Named(c, Head(up[c]).n)
                                           /\ Job(Head(up[c]).n) \in PoolJobs
<1>0. Domains /\ UpTypes(up[c]) /\ Tidy(c) /\ HandTypes
  BY DEF PoolInv, PoolTypes, ExecTypes
<1>1. up'[c] = Tail(up[c]) /\ DOMAIN up' = Conns /\ \A d \in Conns : d # c => up'[d] = up[d]
  BY <1>0 DEF Read, Domains
<1>2. IsSeq(up[c])
  BY <1>0 DEF UpTypes
<1>3. /\ IsSeq(up'[c]) /\ 1 \in DOMAIN up[c] /\ Head(up[c]) = up[c][1]
      /\ \A i \in DOMAIN up'[c] : i \in Nat \ {0} /\ i + 1 \in DOMAIN up[c] /\ up'[c][i] = up[c][i + 1]
  BY <1>1, <1>2, TailFacts, SeqFacts
<1>4. UpTypes(up'[c])
  BY <1>0, <1>3 DEF UpTypes
<1>5. Head(up[c]).kind = "beat" => Head(up[c]).free \in Int
  BY <1>0, <1>3 DEF UpTypes
<1>6. Head(up[c]).kind # "beat" => Named(c, Head(up[c]).n) /\ Known(Head(up[c]).n)
  BY <1>0, <1>3 DEF Tidy, UpNamed, Named
<1> QED BY <1>0, <1>1, <1>3, <1>4, <1>5, <1>6, JobKnown

(* apply_step_commit.                                                      *)
LEMMA ReaderCommits ==
    ASSUME PoolInv, NEW c \in Conns, apply_step_commit(c)
    PROVE  PoolInv'
<1>0. ExecRow(exec[c]) /\ Domains /\ OneStage(exec[c]) /\ DownTypes(down[c]) /\ Stopped(c) /\ PumpTypes
  BY DEF PoolInv, PoolTypes, ExecTypes, Tidy
<1>1. UNCHANGED <<given, queue, place, link, registry, entry, replies, fate, down>> /\ up[c] # <<>> /\ Read(c)
      /\ Head(up[c]).kind = "sleep"
  BY DEF apply_step_commit, storeSide, poolSide, answers, Frame
<1>2. /\ DOMAIN up' = Conns /\ (\A d \in Conns : d # c => up'[d] = up[d]) /\ UpTypes(up'[c])
      /\ \A i \in DOMAIN up'[c] : i + 1 \in DOMAIN up[c] /\ up'[c][i] = up[c][i + 1]
      /\ Head(up[c]).n \in Handed /\ Named(c, Head(up[c]).n)
  BY <1>1, ReadFacts
<1>3. /\ ExecRow(exec'[c]) /\ DOMAIN exec' = Conns /\ OneStage(exec'[c]) /\ Busy(c)' = Busy(c)
      /\ \A d \in Conns : d # c => exec'[d] = exec[d]
  <2>1. CASE Answered(c, Head(up[c]).n, FALSE)
    BY <1>2, <2>1, AnsweredFacts
  <2>2. CASE exec' = exec
    BY <1>0, <2>2 DEF Domains, Busy
  <2> QED BY <2>1, <2>2 DEF apply_step_commit
<1>4. PumpTypes'
  <2> DEFINE w == [conn |-> c, n |-> Head(up[c]).n, epoch |-> entry[c][Job(Head(up[c]).n)].lease]
  <2>0. pump' = pump \/ pump' = pump \cup {w}
    BY DEF apply_step_commit
  <2>1. \A v \in pump' : v \in pump \/ (v.conn = c /\ v.n = Head(up[c]).n)
    BY <2>0
  <2> QED BY <1>0, <1>1, <1>2, <2>1 DEF PumpTypes, Named, Known
<1>5. Domains' /\ ExecTypes(c)'
  BY <1>0, <1>1, <1>2, <1>3 DEF Domains, ExecTypes
<1>6. Tidy(c)'
  <2>1. (\A n : Known(n) => Known(n)' /\ Job(n)' = Job(n)) /\ \A j \in PoolJobs : Of(c, j)' = Of(c, j)
    BY <1>1 DEF Known, Job, Of
  <2>2. link'[c].state # "open" => Busy(c)' = {} /\ down'[c] = <<>>
    BY <1>0, <1>1, <1>3 DEF Stopped
  <2> QED BY <1>1, <1>2, <1>3, <1>5, <2>1, <2>2, TidyLess
<1> QED BY <1>1, <1>2, <1>3, <1>4, <1>5, <1>6, ExecutorSide

(* The pump: the sleep is in storage and noted on the entry, or fenced.    *)
LEMMA PumpApplies ==
    ASSUME PoolInv, NEW w \in pump, StepPumpApply(w)
    PROVE  PoolInv'
<1> DEFINE c == w.conn
<1>0. c \in Conns /\ w.n \in Handed /\ Job(w.n) \in PoolJobs
  <2>1. Known(w.n) /\ HandTypes /\ w.conn \in Conns
    BY DEF PoolInv, PoolTypes, PumpTypes, Known
  <2> QED BY <2>1, JobKnown
<1>1. /\ ExecRow(exec[c]) /\ Domains /\ OneStage(exec[c]) /\ DownTypes(down[c]) /\ UpTypes(up[c]) /\ Stopped(c)
      /\ PumpTypes /\ EntryTypes
  BY <1>0 DEF PoolInv, PoolTypes, ExecTypes, Tidy
<1>2. UNCHANGED <<given, queue, place, link, registry, replies, fate, down, up>> /\ pump' \subseteq pump
  BY DEF StepPumpApply, wire, answers
<1>3. /\ ExecRow(exec'[c]) /\ DOMAIN exec' = Conns /\ OneStage(exec'[c]) /\ Busy(c)' = Busy(c)
      /\ \A d \in Conns : d # c => exec'[d] = exec[d]
  BY <1>0, AnsweredFacts DEF StepPumpApply
<1>4. EntriesKept
  <2>1. CASE entry' = entry
    BY <2>1, EntriesSame
  <2>2. CASE entry[c][Job(w.n)] # NoDispatch /\ entry' = [entry EXCEPT ![c][Job(w.n)].slept = TRUE]
    <3>1. entry[c][Job(w.n)].n # 0
      BY <1>0, <2>2 DEF PoolInv, OnePlace, Of
    <3> QED BY <1>0, <1>1, <2>2, <3>1 DEF EntriesKept, EntryTypes, EntryRow, Of, NoDispatch
  <2> QED BY <2>1, <2>2 DEF StepPumpApply
<1>5. Domains' /\ ExecTypes(c)' /\ PumpTypes'
  BY <1>1, <1>2, <1>3 DEF Domains, ExecTypes, PumpTypes
<1>6. Tidy(c)'
  <2>1. (\A n : Known(n) => Known(n)' /\ Job(n)' = Job(n)) /\ \A j \in PoolJobs : Of(c, j)' = Of(c, j)
    BY <1>0, <1>2, <1>4 DEF Known, Job, EntriesKept
  <2>2. link'[c].state # "open" => Busy(c)' = {} /\ down'[c] = <<>>
    BY <1>1, <1>2, <1>3 DEF Stopped
  <2>3. \A i \in DOMAIN up'[c] : i + 0 \in DOMAIN up[c] /\ up'[c][i] = up[c][i + 0]
    BY <1>1, <1>2, SeqFacts DEF UpTypes
  <2> QED BY <1>0, <1>2, <1>3, <1>5, <2>1, <2>2, <2>3, TidyLess
<1> QED BY <1>0, <1>2, <1>3, <1>4, <1>5, <1>6, PumpSide

(* What another connection's step leaves a connection with.                *)
LEMMA SlottedSame ==
    ASSUME PoolInv, NEW d \in Conns, UNCHANGED link[d], d \in registry <=> d \in registry',
           Held(d)' = Held(d), Matched(d)' = Matched(d),
           \A n \in Handed : fate[n] = "lost" => fate'[n] = "lost"
    PROVE  Slotted(d)'
<1>1. place'.conn = d <=> place.conn = d
  BY DEF Matched
<1> QED BY <1>1 DEF PoolInv, Slotted, Open

(* The scheduler: a result settled, a job taken back.                      *)
LEMMA SchedulerSettles ==
    ASSUME PoolInv,
           (\E r \in results : release_in_flight(r)) \/ \E j \in PoolJobs, own \in BOOLEAN : TakenBack(j, own)
    PROVE  PoolInv'
<1>1. UNCHANGED <<given, queue, place, link, registry, entry, replies, fate, down, up, exec, pump>>
  BY DEF release_in_flight, TakenBack, poolSide, wire, answers
<1>2. \A d \in Conns : ExecTypes(d)' /\ Tidy(d)'
  <2>1. \A n, d, j : (Known(n) => Known(n)' /\ Job(n)' = Job(n)) /\ Of(d, j)' = Of(d, j)
    BY <1>1 DEF Known, Job, Of
  <2> QED BY <1>1, <2>1, TidySame
<1>3. Domains' /\ PumpTypes'
  BY <1>1 DEF PoolInv, PoolTypes, Domains, PumpTypes
<1> QED BY <1>1, <1>2, <1>3, EntriesSame, PoolSideKept DEF PoolInv, PoolTypes

(* The scheduler: the next dispatch enters the queue.                      *)
LEMMA SchedulerHands == ASSUME PoolInv, NEW j \in PoolJobs, Hand(j) PROVE PoolInv'
<1> USE PoolAssumption
<1>0. HandTypes /\ EntryTypes /\ OnePlace
  BY DEF PoolInv, PoolTypes
<1>n. PICK n \in Nat : n = Len(given) + 1
  BY <1>0 DEF HandTypes
<1>1. /\ UNCHANGED <<place, link, registry, entry, replies, fate, down, up, exec, pump>>
      /\ n <= MaxHand /\ given' = Append(given, j) /\ queue' = Append(queue, n)
  BY <1>n DEF Hand, wire, answers
<1>2. /\ HandTypes' /\ n \in Handed /\ Len(given') = n /\ ~Known(n)
      /\ \A m : (Known(m)' <=> (Known(m) \/ m = n)) /\ (Known(m) => Job(m)' = Job(m))
      /\ Job(n)' = j
  <2>1. given \in Seq(PoolJobs) /\ Len(given) \in Nat /\ queue \in Seq(Handed) /\ n \in Handed
    BY <1>0, <1>1, <1>n DEF HandTypes, Handed
  <2>2. /\ given' \in Seq(PoolJobs) /\ Len(given') = n /\ given'[n] = j /\ queue' \in Seq(Handed)
        /\ \A m \in 1..Len(given) : given'[m] = given[m]
    BY <1>1, <1>n, <2>1
  <2>3. HandTypes'
    BY <1>0, <1>1, <2>2 DEF HandTypes
  <2>4. \A m : m \in 1..n <=> (m \in 1..Len(given) \/ m = n)
    BY <1>n, <2>1
  <2>5. ~Known(n)
    BY <1>n, <2>1 DEF Known
  <2> QED BY <2>1, <2>2, <2>3, <2>4, <2>5 DEF Known, Job
<1>3. EntriesKept
  BY <1>1, EntriesSame
<1>4. PICK l \in Nat : /\ DOMAIN queue = 1..l /\ DOMAIN queue' = 1..(l + 1) /\ queue'[l + 1] = n
                       /\ \A i \in 1..l : queue'[i] = queue[i] /\ queue'[i] # n
  <2>1. /\ Len(queue) \in Nat /\ DOMAIN queue = 1..Len(queue) /\ DOMAIN queue' = 1..(Len(queue) + 1)
        /\ queue'[Len(queue) + 1] = n /\ \A i \in 1..Len(queue) : queue'[i] = queue[i]
    BY <1>0, <1>1 DEF HandTypes
  <2>2. \A i \in 1..Len(queue) : queue[i] # n
    BY <1>0, <1>2, <2>1 DEF OnePlace
  <2> QED BY <2>1, <2>2
<1>5. \A m : (Queued(m)' <=> (Queued(m) \/ m = n)) /\ (Entered(m)' <=> Entered(m))
  <2>1. \A m : Queued(m)' <=> (Queued(m) \/ m = n)
    <3>1. \A i \in DOMAIN queue' : i = l + 1 \/ i \in DOMAIN queue
      BY <1>4
    <3> QED BY <1>4, <3>1 DEF Queued
  <2> QED BY <1>1, <2>1 DEF Entered, Of
<1>6. /\ place.n # n /\ ~Entered(n)
  BY <1>0, <1>2 DEF OnePlace, Entered, Handed, Known
<1>7. OnePlace'
  <2>1. \A i, k \in DOMAIN queue' : queue'[i] = queue'[k] => i = k
    <3>1. \A i \in DOMAIN queue' : i = l + 1 \/ i \in 1..l
      BY <1>4
    <3> QED BY <1>0, <1>4, <3>1 DEF OnePlace
  <2>2. \A i \in DOMAIN queue' : (Known(queue[i]) /\ queue[i] # place.n /\ ~Entered(queue[i]))'
    <3>1. \A i \in DOMAIN queue' : queue'[i] = n \/ (i \in DOMAIN queue /\ queue'[i] = queue[i])
      BY <1>4
    <3>2. \A m : Known(m)' /\ m # place'.n /\ ~Entered(m)'
                 <=> (Known(m) \/ m = n) /\ m # place.n /\ ~Entered(m)
      BY <1>1, <1>2, <1>5
    <3>3. \A i \in DOMAIN queue' : LET m == queue'[i] IN (Known(m) \/ m = n) /\ m # place.n /\ ~Entered(m)
      BY <1>0, <1>6, <3>1 DEF OnePlace
    <3>4. \A i \in DOMAIN queue' : \E m : m = queue'[i] /\ Known(m)' /\ m # place'.n /\ ~Entered(m)'
      BY <3>2, <3>3
    <3> QED BY <3>4 DEF Known, Entered
  <2>3. /\ place'.n = 0 => place'.conn = 0
        /\ place'.n # 0 => Known(place.n)' /\ ~Entered(place.n)'
        /\ place'.conn # 0 => Of(place.conn, Job(place.n))' = 0
    BY <1>0, <1>1, <1>2, <1>5 DEF OnePlace, Known, Entered, Of
  <2>4. \A c \in Conns, k \in PoolJobs :
          /\ Of(c, k)' = 0 => entry'[c][k] = NoDispatch
          /\ Of(c, k)' # 0 => /\ (Known(Of(c, k)) /\ Job(Of(c, k)) = k)'
                              /\ \A d \in Conns : Of(d, k)' = Of(c, k)' => d = c
    BY <1>0, <1>1, <1>2 DEF OnePlace, Of, Known, Job
  <2> QED BY <2>1, <2>2, <2>3, <2>4 DEF OnePlace
<1>8. AnswersLeft'
  BY <1>1, <1>2, <1>5, <1>6 DEF PoolInv, AnswersLeft, Unsettled
<1>9. LostForGood'
  BY <1>1, <1>2, <1>5 DEF PoolInv, LostForGood, Of
<1>10. \A d \in Conns : ExecTypes(d)' /\ Tidy(d)'
  BY <1>1, <1>2, <1>3, TidySame DEF EntriesKept
<1>11. \A d \in Conns : Slotted(d)'
  <2>1. \A d \in Conns : Held(d)' = Held(d) /\ Matched(d)' = Matched(d)
    BY <1>1 DEF Held, Matched
  <2> QED BY <1>1, <2>1, SlottedSame
<1>12. PumpTypes'
  BY <1>0, <1>1, <1>2, <1>n DEF PoolInv, PoolTypes, PumpTypes, HandTypes
<1>13. LinkTypes' /\ EntryTypes' /\ AnswerTypes' /\ Domains'
  BY <1>1 DEF PoolInv, PoolTypes, LinkTypes, EntryTypes, AnswerTypes, Domains
<1> QED BY <1>2, <1>7, <1>8, <1>9, <1>10, <1>11, <1>12, <1>13 DEF PoolInv, PoolTypes

(* A connection's own state changes, and no dispatch moves.                *)
LEMMA LinkSide ==
    ASSUME PoolInv, NEW c \in Conns, UNCHANGED <<given, queue, place, entry, replies, fate, pump>>,
           LinkTypes', Domains', ExecTypes(c)', Tidy(c)', Slotted(c)',
           link[c].state = "gone" => link'[c].state = "gone",
           \A d \in Conns : d # c => /\ UNCHANGED <<down[d], up[d], exec[d], link[d]>>
                                     /\ d \in registry <=> d \in registry'
    PROVE  PoolInv'
<1>1. EntriesKept
  BY EntriesSame
<1>2. LostForGood'
  BY <1>1, PlacesKept DEF PoolInv, LostForGood, EntriesKept
<1>3. \A n : Known(n) => Known(n)' /\ Job(n)' = Job(n)
  BY DEF Known, Job
<1>4. \A d \in Conns : ExecTypes(d)' /\ Tidy(d)'
  BY <1>1, <1>3, TidySame DEF EntriesKept
<1>5. \A d \in Conns : Slotted(d)'
  BY <1>1, PlacesKept, SlottedSame
<1>6. HandTypes' /\ EntryTypes' /\ AnswerTypes' /\ PumpTypes'
  BY DEF PoolInv, PoolTypes, HandTypes, EntryTypes, AnswerTypes, PumpTypes
<1> QED BY <1>1, <1>2, <1>4, <1>5, <1>6, PlacesKept DEF PoolInv, PoolTypes

(* attach and BeginDetach.                                                 *)
LEMMA LinkOpens ==
    ASSUME PoolInv, NEW c \in Conns, BeginDetach(c) \/ \E id \in ExecIds : attach(c, id)
    PROVE  PoolInv'
<1>0. LinkTypes /\ Domains /\ Slotted(c) /\ Stopped(c)
  BY DEF PoolInv, PoolTypes, Tidy
<1>1. UNCHANGED <<given, queue, place, entry, replies, fate, pump, down, up, exec>>
  BY DEF BeginDetach, attach, storeSide, wire, answers
<1>2. /\ LinkTypes' /\ \A d \in Conns : d # c => link'[d] = link[d] /\ (d \in registry <=> d \in registry')
      /\ \/ link'[c].state = link[c].state /\ registry' = registry
         \/ link[c].state = "off" /\ link'[c].state = "open" /\ c \in registry'
      /\ link'[c].free = link[c].free
  <2>1. CASE BeginDetach(c)
    BY <1>0, <2>1 DEF BeginDetach, LinkTypes, LinkRow
  <2>2. ASSUME NEW id \in ExecIds, attach(c, id)
        PROVE  /\ LinkTypes' /\ \A d \in Conns : d # c => link'[d] = link[d] /\ (d \in registry <=> d \in registry')
               /\ link[c].state = "off" /\ link'[c].state = "open" /\ c \in registry'
               /\ link'[c].free = link[c].free
    <3>1. /\ DOMAIN link' = Conns /\ (\A d \in Conns : d # c => link'[d] = link[d])
          /\ link'[c] = [link[c] EXCEPT !.state = "open", !.id = id]
      BY <1>0, <2>2 DEF attach, LinkTypes
    <3>2. LinkRow(link'[c]) /\ link'[c].state = "open" /\ link'[c].free = link[c].free
      BY <1>0, <3>1 DEF LinkTypes, LinkRow
    <3>3. registry' = registry \cup {c} /\ link[c].state = "off"
      BY <2>2 DEF attach
    <3> QED BY <1>0, <3>1, <3>2, <3>3 DEF LinkTypes
  <2> QED BY <2>1, <2>2
<1>3. Domains' /\ Held(c)' = Held(c) /\ Matched(c)' = Matched(c)
  BY <1>0, <1>1 DEF Domains, Held, Matched
<1>4. \A n, j : (Known(n) => Known(n)' /\ Job(n)' = Job(n)) /\ Of(c, j)' = Of(c, j)
  BY <1>1 DEF Known, Job, Of
<1>5. ExecTypes(c)' /\ Tidy(c)'
  BY <1>1, <1>2, <1>4, TidySame
<1>6. Slotted(c)'
  <2>1. CASE link'[c].state = link[c].state /\ registry' = registry
    BY <1>0, <1>1, <1>2, <1>3, <2>1 DEF Slotted, Open
  <2>2. CASE link[c].state = "off" /\ link'[c].state = "open" /\ c \in registry'
    <3>1. Cardinality({}) = 0
      BY FS_EmptySet
    <3> QED BY <1>0, <1>1, <1>2, <1>3, <2>2, <3>1, PoolAssumption DEF Slotted, Open, Matched, LinkTypes, LinkRow
  <2> QED BY <1>2, <2>1, <2>2
<1> QED BY <1>1, <1>2, <1>3, <1>5, <1>6, LinkSide

(* What the end of a connection leaves on it.                              *)
LEMMA EndedFacts ==
    ASSUME PoolInv, NEW c \in Conns, Ended(c)
    PROVE  /\ Domains' /\ ExecTypes(c)' /\ Busy(c)' = {} /\ OneStage(exec'[c]) /\ down'[c] = <<>>
           /\ \A d \in Conns : d # c => UNCHANGED <<down[d], up[d], exec[d]>>
           /\ \A i \in DOMAIN up'[c] : i + 0 \in DOMAIN up[c] /\ up'[c][i] = up[c][i + 0]
<1>0. Domains /\ ExecRow(exec[c]) /\ UpTypes(up[c]) /\ IsSeq(up[c])
  BY DEF PoolInv, PoolTypes, ExecTypes, UpTypes
<1>1. down'[c] = <<>> /\ DOMAIN down' = Conns /\ \A d \in Conns : d # c => down'[d] = down[d]
  BY <1>0 DEF Ended, Domains
<1>2. PICK k \in 0..Len(up[c]) : up' = [up EXCEPT ![c] = SubSeq(up[c], 1, k)]
  BY DEF Ended
<1>3. up'[c] = SubSeq(up[c], 1, k) /\ DOMAIN up' = Conns /\ \A d \in Conns : d # c => up'[d] = up[d]
  BY <1>0, <1>2 DEF Domains
<1>4. IsSeq(up'[c]) /\ \A i \in DOMAIN up'[c] : i \in Nat /\ i \in DOMAIN up[c] /\ up'[c][i] = up[c][i]
  BY <1>0, <1>3, PrefixFacts, SeqFacts
<1>5. UpTypes(up'[c]) /\ \A i \in DOMAIN up'[c] : i + 0 \in DOMAIN up[c] /\ up'[c][i] = up[c][i + 0]
  BY <1>0, <1>4 DEF UpTypes
<1>6. /\ DOMAIN exec' = Conns /\ (\A d \in Conns : d # c => exec'[d] = exec[d])
      /\ exec'[c] = [exec[c] EXCEPT !.running = {}, !.asking = {}, !.told = {}, !.done = {}, !.sent = 0,
                                    !.beat = -1, !.draining = TRUE]
  BY <1>0 DEF Ended, Domains
<1>7. /\ exec'[c].running = {} /\ exec'[c].asking = {} /\ exec'[c].done = {} /\ exec'[c].sent = 0
      /\ exec'[c].beat = -1 /\ exec'[c].free_slots = exec[c].free_slots /\ DOMAIN exec'[c] = DOMAIN exec[c]
  BY <1>0, <1>6 DEF ExecRow
<1>8. ExecRow(exec'[c])
  BY <1>0, <1>7, PoolAssumption DEF ExecRow, Upto
<1>9. DownTypes(down'[c])
  BY <1>1, EmptyFacts DEF DownTypes
<1>10. Busy(c)' = {} /\ OneStage(exec'[c])
  BY <1>7 DEF Busy, OneStage
<1> QED BY <1>1, <1>3, <1>5, <1>6, <1>8, <1>9, <1>10 DEF Domains, ExecTypes

(* Lose, teardown and CloseDetached: an idle connection has nothing.       *)
LEMMA LinkCloses ==
    ASSUME PoolInv, NEW c \in Conns, Lose(c) \/ teardown(c) \/ \E late \in BOOLEAN : CloseDetached(c, late)
    PROVE  PoolInv'
<1>0. LinkTypes /\ Domains /\ Slotted(c) /\ Tidy(c) /\ ExecTypes(c) /\ EntryTypes
  BY DEF PoolInv, PoolTypes
<1>1. UNCHANGED <<given, queue, place, entry, replies, fate, pump>>
  BY DEF Lose, teardown, CloseDetached, storeSide, answers
<1>2. /\ LinkTypes' /\ \A d \in Conns : d # c => link'[d] = link[d] /\ (d \in registry <=> d \in registry')
      /\ link[c].state = "open" /\ link'[c].free = link[c].free
      /\ \/ link'[c].state = "closed"
         \/ link'[c].state = "detached" /\ c \notin registry' /\ is_idle(c)
  <2>1. CASE Lose(c)
    BY <1>0, <2>1 DEF Lose, LinkTypes, LinkRow
  <2>2. CASE teardown(c)
    BY <1>0, <2>2 DEF teardown, LinkTypes, LinkRow
  <2>3. ASSUME NEW late \in BOOLEAN, CloseDetached(c, late)
        PROVE  /\ LinkTypes' /\ \A d \in Conns : d # c => link'[d] = link[d] /\ (d \in registry <=> d \in registry')
               /\ link[c].state = "open" /\ link'[c].free = link[c].free
               /\ \/ link'[c].state = "closed"
                  \/ link'[c].state = "detached" /\ c \notin registry' /\ is_idle(c)
    <3>1. CASE late
      BY <1>0, <2>3, <3>1 DEF CloseDetached, deregister, LinkTypes, LinkRow
    <3>2. CASE ~late
      BY <1>0, <2>3, <3>2 DEF CloseDetached, deregister, LinkTypes, LinkRow
    <3> QED BY <3>1, <3>2
  <2> QED BY <2>1, <2>2, <2>3
<1>3. /\ Domains' /\ ExecTypes(c)' /\ Busy(c)' = {} /\ OneStage(exec'[c]) /\ down'[c] = <<>>
      /\ \A d \in Conns : d # c => UNCHANGED <<down[d], up[d], exec[d]>>
      /\ \A i \in DOMAIN up'[c] : i + 0 \in DOMAIN up[c] /\ up'[c][i] = up[c][i + 0]
  <2>1. CASE Ended(c)
    BY <2>1, EndedFacts
  <2>2. CASE teardown(c)
    <3>1. /\ UNCHANGED <<up, exec>> /\ down'[c] = <<>> /\ DOMAIN down' = Conns
          /\ \A d \in Conns : d # c => down'[d] = down[d]
      BY <1>0, <2>2 DEF teardown, Domains
    <3>2. Busy(c) = {}
      BY <2>2 DEF teardown, Unanswered, Busy
    <3>3. \A i \in DOMAIN up'[c] : i + 0 \in DOMAIN up[c] /\ up'[c][i] = up[c][i + 0]
      BY <1>0, <3>1, SeqFacts DEF ExecTypes, UpTypes
    <3>4. DownTypes(<<>>)
      BY EmptyFacts DEF DownTypes
    <3> QED BY <1>0, <3>1, <3>2, <3>3, <3>4 DEF Domains, ExecTypes, Busy, Tidy
  <2> QED BY <2>1, <2>2 DEF Lose, CloseDetached
<1>4. \A n, j : (Known(n) => Known(n)' /\ Job(n)' = Job(n)) /\ Of(c, j)' = Of(c, j)
  BY <1>1 DEF Known, Job, Of
<1>5. Tidy(c)'
  BY <1>2, <1>3, <1>4, TidyLess
<1>6. Held(c)' = Held(c) /\ Matched(c)' = Matched(c)
  BY <1>1 DEF Held, Matched
<1>7. Slotted(c)'
  <2>1. CASE link'[c].state = "closed"
    BY <2>1 DEF Slotted, Open
  <2>2. CASE link'[c].state = "detached" /\ c \notin registry' /\ is_idle(c)
    <3>1. IsFiniteSet(Held(c))
      BY PoolAssumption, FS_Subset DEF Held
    <3>2. /\ Cardinality(Held(c)) \in Nat /\ Matched(c) \in {0, 1} /\ link[c].free \in Int /\ link[c].free >= Slots
          /\ link[c].free + Cardinality(Held(c)) + Matched(c) <= Slots
      BY <1>0, <1>2, <2>2, <3>1, FS_CardinalityType DEF LinkTypes, LinkRow, Slotted, Open, Matched, is_idle
    <3>3. Cardinality(Held(c)) = 0 /\ Matched(c) = 0
      BY <3>2, PoolAssumption
    <3>4. Held(c) = {} /\ place.conn # c
      BY <3>1, <3>3, FS_EmptySet DEF Matched
    <3> QED BY <1>1, <1>6, <2>2, <3>4 DEF Slotted, Open
  <2> QED BY <1>2, <2>1, <2>2
<1> QED BY <1>1, <1>2, <1>3, <1>5, <1>7, LinkSide

(* A heartbeat only shrinks the free slots.                                *)
LEMMA ReaderBeats == ASSUME PoolInv, NEW c \in Conns, ReadHeartbeat(c) PROVE PoolInv'
<1>0. LinkTypes /\ Domains /\ Slotted(c) /\ Tidy(c) /\ ExecTypes(c)
  BY DEF PoolInv, PoolTypes
<1>1. UNCHANGED <<given, queue, place, entry, replies, fate, pump, registry, down, exec>> /\ up[c] # <<>> /\ Read(c)
      /\ Head(up[c]).kind = "beat"
  BY DEF ReadHeartbeat, storeSide, answers, Frame
<1>2. /\ DOMAIN up' = Conns /\ (\A d \in Conns : d # c => up'[d] = up[d]) /\ UpTypes(up'[c])
      /\ \A i \in DOMAIN up'[c] : i + 1 \in DOMAIN up[c] /\ up'[c][i] = up[c][i + 1]
      /\ Head(up[c]).free \in Int
  BY <1>1, ReadFacts
<1>3. /\ LinkTypes' /\ \A d \in Conns : d # c => link'[d] = link[d]
      /\ link'[c].state = link[c].state /\ link'[c].free <= link[c].free
      /\ link'[c].free \in Int /\ link[c].free \in Int
  BY <1>0, <1>2 DEF ReadHeartbeat, LinkTypes, LinkRow
<1>4. Domains' /\ ExecTypes(c)' /\ Busy(c)' = Busy(c) /\ OneStage(exec'[c])
  BY <1>0, <1>1, <1>2 DEF Domains, ExecTypes, Busy, Tidy
<1>5. \A n, j : (Known(n) => Known(n)' /\ Job(n)' = Job(n)) /\ Of(c, j)' = Of(c, j)
  BY <1>1 DEF Known, Job, Of
<1>6. Tidy(c)'
  <2>1. link'[c].state # "open" => Busy(c)' = {} /\ down'[c] = <<>>
    BY <1>0, <1>1, <1>3, <1>4 DEF Tidy, Stopped
  <2> QED BY <1>1, <1>2, <1>3, <1>4, <1>5, <2>1, TidyLess
<1>7. Slotted(c)'
  <2>1. IsFiniteSet(Held(c)) /\ Held(c)' = Held(c) /\ Matched(c)' = Matched(c)
    BY <1>1, PoolAssumption, FS_Subset DEF Held, Matched
  <2>2. Cardinality(Held(c)) \in Nat /\ Matched(c) \in Nat
    BY <2>1, FS_CardinalityType DEF Matched
  <2>3. Open(c)' => link'[c].free + Cardinality(Held(c)') + Matched(c)' <= Slots
    <3>1. Open(c) => link[c].free + Cardinality(Held(c)) + Matched(c) <= Slots
      BY <1>0 DEF Slotted
    <3> QED BY <1>3, <2>1, <2>2, <3>1, PoolAssumption DEF Open
  <2>4. link[c].state = "off" => link'[c].free <= Slots
    BY <1>0, <1>3, PoolAssumption DEF Slotted
  <2> QED BY <1>0, <1>1, <1>3, <2>1, <2>3, <2>4 DEF Slotted, Open
<1> QED BY <1>1, <1>2, <1>3, <1>4, <1>6, <1>7, LinkSide

(* Dispatches leave the place they were in, and go nowhere else.           *)
Shrinks ==
    /\ UNCHANGED <<given, queue>> /\ EntryTypes' /\ (place' = place \/ place' = NoPlacement)
    /\ \A c \in Conns, j \in PoolJobs : entry'[c][j] = entry[c][j] \/ entry'[c][j] = NoDispatch
    /\ \A c \in Conns : link[c].state = "gone" => link'[c].state = "gone"

(* They stay in one place, and only fewer are unsettled.                   *)
LEMMA ShrinkFacts ==
    ASSUME PoolInv, Shrinks
    PROVE  /\ HandTypes' /\ OnePlace'
           /\ \A n : (Known(n)' <=> Known(n)) /\ Job(n)' = Job(n) /\ (Unsettled(n)' => Unsettled(n))
           /\ \A c \in Conns, j \in PoolJobs : Of(c, j)' = Of(c, j) \/ Of(c, j)' = 0
<1>0. HandTypes /\ OnePlace
  BY DEF PoolInv, PoolTypes
<1>1. HandTypes'
  BY <1>0, PoolAssumption DEF Shrinks, HandTypes, NoPlacement, Upto
<1>2. \A c \in Conns, j \in PoolJobs : /\ Of(c, j)' = Of(c, j) \/ Of(c, j)' = 0
                                       /\ Of(c, j)' = 0 => entry'[c][j] = NoDispatch
  BY <1>0 DEF Shrinks, Of, NoDispatch, OnePlace
<1>3. \A n : (Known(n)' <=> Known(n)) /\ Job(n)' = Job(n) /\ (Queued(n)' <=> Queued(n))
  BY DEF Shrinks, Known, Job, Queued
<1>4. \A n : n # 0 /\ Entered(n)' => Entered(n)
  BY <1>2 DEF Entered
<1>5. place'.n = place.n \/ (place'.n = 0 /\ place'.conn = 0)
  BY DEF Shrinks, NoPlacement
<1>6. OnePlace'
  <2>1. \A i \in DOMAIN queue' : queue'[i] = queue[i] /\ queue[i] \in Handed /\ queue[i] # 0
    BY <1>0, PoolAssumption DEF Shrinks, HandTypes, Handed
  <2>2. \A i \in DOMAIN queue' : (Known(queue[i]) /\ queue[i] # place.n /\ ~Entered(queue[i]))'
    <3>1. \A i \in DOMAIN queue' : \E m : m = queue'[i] /\ Known(m)' /\ m # place'.n /\ ~Entered(m)'
      BY <1>0, <1>3, <1>4, <1>5, <2>1 DEF OnePlace, Shrinks
    <3> QED BY <3>1 DEF Known, Entered
  <2>3. place'.n # 0 => (Known(place.n) /\ ~Entered(place.n))'
    <3>1. place'.n # 0 => \E m : m = place'.n /\ Known(m)' /\ ~Entered(m)'
      BY <1>0, <1>3, <1>4, <1>5 DEF OnePlace
    <3> QED BY <3>1 DEF Known, Entered
  <2>4. (place'.n = 0 => place'.conn = 0) /\ (place'.conn # 0 => (Of(place.conn, Job(place.n)) = 0)')
    <3>1. CASE place' = place
      <4>1. place.conn # 0 => place.conn \in Conns /\ Job(place.n) \in PoolJobs
        BY <1>0, JobKnown DEF OnePlace, HandTypes
      <4>2. place.conn # 0 => entry'[place.conn][Job(place.n)].n = 0
        BY <1>0, <1>2, <4>1 DEF OnePlace, Of
      <4> QED BY <1>0, <1>3, <3>1, <4>2 DEF OnePlace, Of, Job, Shrinks
    <3>2. CASE place' = NoPlacement
      BY <3>2 DEF NoPlacement
    <3> QED BY <3>1, <3>2 DEF Shrinks
  <2>5. \A c \in Conns, j \in PoolJobs : Of(c, j)' # 0 =>
            /\ (Known(Of(c, j)) /\ Job(Of(c, j)) = j)'
            /\ \A d \in Conns : Of(d, j)' = Of(c, j)' => d = c
    <3>1. ASSUME NEW c \in Conns, NEW j \in PoolJobs, Of(c, j)' # 0
          PROVE  /\ (Known(Of(c, j)) /\ Job(Of(c, j)) = j)'
                 /\ \A d \in Conns : Of(d, j)' = Of(c, j)' => d = c
      <4>1. Of(c, j)' = Of(c, j) /\ Of(c, j) # 0 /\ Known(Of(c, j)) /\ Job(Of(c, j)) = j
        BY <1>0, <1>2, <3>1 DEF OnePlace
      <4>2. \A d \in Conns : Of(d, j) = Of(c, j) => d = c
        BY <1>0, <4>1 DEF OnePlace
      <4>3. (Known(Of(c, j)) /\ Job(Of(c, j)) = j)'
        BY <4>1 DEF Known, Job, Shrinks
      <4> QED BY <1>2, <3>1, <4>1, <4>2, <4>3
    <3> QED BY <3>1
  <2>6. \A i, k \in DOMAIN queue' : queue'[i] = queue'[k] => i = k
    BY <1>0 DEF OnePlace, Shrinks
  <2> QED BY <1>2, <2>2, <2>3, <2>4, <2>5, <2>6 DEF OnePlace
<1>7. \A n : Unsettled(n)' => Unsettled(n)
  BY <1>3, <1>4, <1>5 DEF Unsettled
<1> QED BY <1>1, <1>2, <1>3, <1>6, <1>7

(* Answering for a dispatch that leaves, or giving it up.                  *)
LEMMA ShrinkAnswers ==
    ASSUME PoolInv, Shrinks,
           \A n \in Handed : \/ replies'[n] = replies[n]
                             \/ Unsettled(n) /\ ~Unsettled(n)' /\ replies'[n] = replies[n] + 1,
           \A n \in Handed : fate'[n] = "lost" => fate[n] = "lost" \/ (Known(n) /\ ~Unsettled(n)')
    PROVE  AnswersLeft' /\ LostForGood'
<1>1. AnswersLeft'
  <2>1. \A n : Unsettled(n) => Known(n)
    BY DEF PoolInv, OnePlace, Unsettled, Queued, Entered
  <2>2. \A n \in Handed : replies[n] \in Nat
    BY DEF PoolInv, PoolTypes, AnswerTypes
  <2> QED BY <2>1, <2>2, ShrinkFacts DEF PoolInv, AnswersLeft
<1>2. LostForGood'
  <2> SUFFICES ASSUME NEW n \in Handed, fate'[n] = "lost"
               PROVE  /\ Known(n)' /\ ~Queued(n)' /\ place'.n # n
                      /\ \A c \in Conns, j \in PoolJobs : Of(c, j)' = n => link'[c].state = "gone"
    BY DEF LostForGood
  <2>0. n # 0
    BY PoolAssumption DEF Handed
  <2>1. CASE fate[n] = "lost"
    <3>1. /\ Known(n) /\ ~Queued(n) /\ place.n # n
          /\ \A c \in Conns, j \in PoolJobs : Of(c, j) = n => link[c].state = "gone"
      BY <2>1 DEF PoolInv, LostForGood
    <3> QED BY <2>0, <3>1, ShrinkFacts DEF Shrinks, Queued, NoPlacement
  <2>2. CASE Known(n) /\ ~Unsettled(n)'
    BY <2>0, <2>2, ShrinkFacts DEF Unsettled, Entered
  <2> QED BY <2>1, <2>2
<1> QED BY <1>1, <1>2

(* Placement gives up: no slot, no snapshot, or a write that failed.       *)
LEMMA PlacementEnds ==
    ASSUME PoolInv, fail_unplaceable \/ SnapshotUnread \/ WriteFailed
    PROVE  PoolInv'
<1> USE PoolAssumption
<1>0. LinkTypes /\ HandTypes /\ EntryTypes /\ OnePlace /\ AnswerTypes
  BY DEF PoolInv, PoolTypes
<1>n. PICK n \in Handed : n = place.n /\ n # 0 /\ Known(n)
  <2>1. place.n # 0
    BY <1>0 DEF fail_unplaceable, SnapshotUnread, WriteFailed, OnePlace
  <2> QED BY <1>0, <2>1, JobKnown DEF OnePlace
<1>1. /\ UNCHANGED <<given, queue, entry, pump, down, up, exec>> /\ place' = NoPlacement
      /\ replies' = replies \/ replies' = [replies EXCEPT ![n] = @ + 1]
      /\ \/ fate' = [fate EXCEPT ![n] = "emitted"] /\ registry' = registry
         \/ fate' = [fate EXCEPT ![n] = "lost"]
  BY <1>n DEF fail_unplaceable, SnapshotUnread, WriteFailed, emit, storeSide, wire
<1>2. /\ LinkTypes' /\ registry' \subseteq registry
      /\ \A c \in Conns : link'[c].state = link[c].state
      /\ \A c \in Conns : link'[c].free = link[c].free \/ (c = place.conn /\ link'[c].free = link[c].free + 1)
  <2>1. CASE fail_unplaceable
    BY <1>0, <2>1 DEF fail_unplaceable, LinkTypes
  <2>2. CASE SnapshotUnread \/ WriteFailed
    <3>1. /\ place.conn \in Conns /\ link' = [link EXCEPT ![place.conn].free = @ + 1]
          /\ registry' \subseteq registry
      BY <1>0, <2>2 DEF SnapshotUnread, WriteFailed, deregister, HandTypes
    <3> QED BY <1>0, <3>1 DEF LinkTypes, LinkRow
  <2> QED BY <2>1, <2>2
<1>3. Shrinks
  BY <1>0, <1>1, <1>2 DEF Shrinks, EntryTypes, EntryRow, Of
<1>4. Unsettled(n) /\ ~Unsettled(n)'
  <2>1. ~Queued(n) /\ ~Entered(n)
    BY <1>0, <1>n DEF OnePlace, Queued
  <2>2. ~Queued(n)' /\ ~Entered(n)' /\ place'.n # n
    BY <1>1, <1>n, <2>1 DEF Queued, Entered, Of, NoPlacement
  <2> QED BY <1>n, <2>2 DEF Unsettled
<1>5. fate[n] # "lost" /\ \A m \in Handed : fate[m] = "lost" => fate'[m] = "lost"
  <2>1. fate[n] # "lost"
    BY <1>n DEF PoolInv, LostForGood
  <2> QED BY <1>0, <1>1, <2>1 DEF AnswerTypes
<1>6. AnswersLeft' /\ LostForGood'
  <2>1. \A m \in Handed : \/ replies'[m] = replies[m]
                          \/ Unsettled(m) /\ ~Unsettled(m)' /\ replies'[m] = replies[m] + 1
    BY <1>0, <1>1, <1>4 DEF AnswerTypes
  <2>2. \A m \in Handed : fate'[m] = "lost" => fate[m] = "lost" \/ (Known(m) /\ ~Unsettled(m)')
    BY <1>0, <1>1, <1>4, <1>n DEF AnswerTypes
  <2> QED BY <1>3, <2>1, <2>2, ShrinkAnswers
<1>7. AnswerTypes'
  BY <1>0, <1>1 DEF AnswerTypes
<1>8. \A d \in Conns : ExecTypes(d)' /\ Tidy(d)'
  <2>1. \A d, j : Of(d, j)' = Of(d, j)
    BY <1>1 DEF Of
  <2> QED BY <1>1, <1>2, <1>3, <2>1, ShrinkFacts, TidySame
<1>9. ASSUME NEW c \in Conns PROVE Slotted(c)'
  <2>1. Held(c)' = Held(c) /\ Matched(c)' = 0 /\ place'.conn # c
    BY <1>1 DEF Held, Matched, NoPlacement
  <2>2. Cardinality(Held(c)) \in Nat /\ link[c].free \in Int
    BY <1>0, FS_Subset, FS_CardinalityType DEF Held, LinkTypes, LinkRow
  <2>3. Slotted(c)
    BY DEF PoolInv
  <2>4. c \in registry => c \in registry' \/ fate'[n] = "lost"
    BY <1>0, <1>1 DEF AnswerTypes
  <2>5. Open(c) => link'[c].free + Cardinality(Held(c)) <= Slots
    BY <1>2, <2>2, <2>3 DEF Slotted, Open, Matched
  <2>6. link[c].state = "off" => link'[c].free <= Slots
    BY <1>2, <2>3 DEF Slotted
  <2>7. Open(c)' => link'[c].free + Cardinality(Held(c))' + Matched(c)' <= Slots
    BY <1>2, <2>1, <2>2, <2>5 DEF Open, LinkTypes, LinkRow
  <2>8. Open(c)' => c \in registry' \/ \E m \in Handed : fate'[m] = "lost"
    BY <1>2, <1>5, <2>3, <2>4 DEF Slotted, Open
  <2> QED BY <1>2, <2>1, <2>3, <2>6, <2>7, <2>8 DEF Slotted
<1>10. Domains' /\ PumpTypes'
  BY <1>1 DEF PoolInv, PoolTypes, Domains, PumpTypes
<1> QED BY <1>2, <1>3, <1>6, <1>7, <1>8, <1>9, <1>10, ShrinkFacts DEF PoolInv, PoolTypes, Shrinks

(* A result: the entry goes, with the last that is said of its dispatch.   *)
LEMMA ReaderResults == ASSUME PoolInv, NEW c \in Conns, ReadResult(c) PROVE PoolInv'
<1> USE PoolAssumption
<1>0. /\ LinkTypes /\ HandTypes /\ EntryTypes /\ OnePlace /\ AnswerTypes /\ Domains /\ Tidy(c) /\ ExecTypes(c)
      /\ Slotted(c)
  BY DEF PoolInv, PoolTypes
<1>1. /\ UNCHANGED <<given, queue, place, pump, down, exec, registry>> /\ up[c] # <<>> /\ Read(c)
      /\ Head(up[c]).kind = "result"
  BY DEF ReadResult, storeSide, Frame
<1>2. /\ DOMAIN up' = Conns /\ (\A d \in Conns : d # c => up'[d] = up[d]) /\ UpTypes(up'[c])
      /\ 1 \in DOMAIN up[c] /\ Head(up[c]) = up[c][1]
      /\ \A i \in DOMAIN up'[c] : i \in Nat \ {0} /\ i + 1 \in DOMAIN up[c] /\ up'[c][i] = up[c][i + 1]
      /\ Head(up[c]).n \in Handed /\ Named(c, Head(up[c]).n) /\ Job(Head(up[c]).n) \in PoolJobs
  BY <1>1, ReadFacts
<1>n. PICK n \in Handed, j \in PoolJobs : n = Head(up[c]).n /\ j = Job(n) /\ Of(c, j) = n /\ Known(n) /\ n # 0
  BY <1>2 DEF Named, Handed
<1>3. entry[c][j] # NoDispatch /\ entry[c][j].n = n
  BY <1>n DEF Of, NoDispatch
<1>4. /\ entry' = [entry EXCEPT ![c][j] = NoDispatch] /\ link' = [link EXCEPT ![c].free = @ + 1]
      /\ replies' = replies \/ replies' = [replies EXCEPT ![n] = @ + 1]
      /\ fate' = [fate EXCEPT ![n] = "emitted"] \/ fate' = [fate EXCEPT ![n] = "refused"]
  BY <1>n, <1>3 DEF ReadResult, emit
<1>5. /\ EntryTypes' /\ Of(c, j)' = 0 /\ entry'[c][j] = NoDispatch
      /\ \A d \in Conns, k \in PoolJobs : d # c \/ k # j => entry'[d][k] = entry[d][k]
  BY <1>0, <1>4 DEF EntryTypes, EntryRow, Of, NoDispatch, Upto
<1>6. /\ LinkTypes' /\ (\A d \in Conns : d # c => link'[d] = link[d])
      /\ link'[c].state = link[c].state /\ link'[c].free = link[c].free + 1 /\ link[c].free \in Int
  BY <1>0, <1>1, <1>4 DEF LinkTypes, LinkRow
<1>7. Shrinks
  BY <1>1, <1>5, <1>6 DEF Shrinks
<1>8. Unsettled(n) /\ ~Unsettled(n)'
  <2>1. ~Queued(n) /\ place.n # n /\ Entered(n)
    BY <1>0, <1>n DEF OnePlace, Queued, Entered
  <2>2. ~Entered(n)'
    <3> SUFFICES ASSUME NEW d \in Conns, NEW k \in PoolJobs, Of(d, k)' = n PROVE FALSE
      BY DEF Entered
    <3>1. d # c \/ k # j
      BY <1>5, <1>n
    <3>2. Of(d, k) = n
      BY <1>5, <3>1 DEF Of
    <3>3. k = j /\ d = c
      BY <1>0, <1>n, <3>2 DEF OnePlace
    <3> QED BY <3>1, <3>3
  <2> QED BY <1>1, <1>n, <2>1, <2>2 DEF Unsettled, Queued
<1>9. /\ fate[n] # "lost" /\ \A m \in Handed : fate[m] = "lost" <=> fate'[m] = "lost"
  <2>1. link[c].state # "gone"
    BY <1>0, <1>1, <1>2 DEF Tidy, Stopped
  <2>2. fate[n] # "lost"
    BY <1>n, <2>1 DEF PoolInv, LostForGood
  <2> QED BY <1>0, <1>4, <2>2 DEF AnswerTypes
<1>10. AnswersLeft' /\ LostForGood'
  <2>1. \A m \in Handed : \/ replies'[m] = replies[m]
                          \/ Unsettled(m) /\ ~Unsettled(m)' /\ replies'[m] = replies[m] + 1
    BY <1>0, <1>4, <1>8 DEF AnswerTypes
  <2> QED BY <1>7, <1>9, <2>1, ShrinkAnswers
<1>11. AnswerTypes' /\ Domains' /\ PumpTypes' /\ ExecTypes(c)'
  <2>1. AnswerTypes'
    BY <1>0, <1>4 DEF AnswerTypes
  <2> QED BY <1>0, <1>1, <1>2, <2>1 DEF PoolInv, PoolTypes, Domains, PumpTypes, ExecTypes
<1>12. ASSUME NEW d \in Conns, d # c PROVE ExecTypes(d)' /\ Tidy(d)' /\ Slotted(d)'
  <2>1. Held(d)' = Held(d) /\ Matched(d)' = Matched(d) /\ \A k \in PoolJobs : Of(d, k)' = Of(d, k)
    BY <1>1, <1>5, <1>12 DEF Held, Matched, Of
  <2>2. ExecTypes(d)' /\ Tidy(d)'
    BY <1>1, <1>2, <1>6, <1>7, <1>12, <2>1, ShrinkFacts, TidySame
  <2> QED BY <1>1, <1>6, <1>9, <1>12, <2>1, <2>2, SlottedSame
<1>13. Tidy(c)'
  <2>1. \A m : Named(c, m) /\ m # n => Named(c, m)'
    <3> SUFFICES ASSUME NEW m, Named(c, m), m # n PROVE Named(c, m)'
      OBVIOUS
    <3>1. Known(m) /\ Job(m) \in PoolJobs /\ Of(c, Job(m)) = m /\ Job(m) # j
      BY <1>0, <1>n, JobKnown DEF Named
    <3> QED BY <1>5, <1>7, <3>1, ShrinkFacts DEF Named, Of
  <2>2. /\ n \notin Busy(c) /\ \A k \in DOMAIN up[c] : up[c][k].kind # "beat" /\ up[c][k].n = n => k <= 1
    BY <1>0, <1>1, <1>2, <1>n DEF Tidy, ResultLast, Speaks
  <2>3. \A i \in DOMAIN up'[c] : up'[c][i].kind # "beat" => up'[c][i].n # n
    BY <1>2, <2>2
  <2>4. \A i \in DOMAIN down[c] : down[c][i].n # n
    BY <1>0, <1>1, <1>2, <1>n DEF Tidy, DownOnce, Speaks
  <2>5. Busy(c)' = Busy(c) /\ OneStage(exec'[c])
    BY <1>0, <1>1 DEF Busy, Tidy
  <2>6. BusyNamed(c)' /\ UpNamed(c)'
    BY <1>0, <1>2, <2>1, <2>2, <2>3, <2>5 DEF Tidy, BusyNamed, UpNamed
  <2>7. DownOnce(c)'
    BY <1>0, <1>1, <1>2, <2>1, <2>4, <2>5 DEF Tidy, DownOnce, Speaks
  <2>8. ResultLast(c)'
    <3> SUFFICES ASSUME NEW i \in DOMAIN up'[c], up'[c][i].kind = "result"
                 PROVE  /\ up'[c][i].n \notin Busy(c)'
                        /\ \A k \in DOMAIN up'[c] : up'[c][k].kind # "beat" /\ up'[c][k].n = up'[c][i].n => k <= i
      BY DEF ResultLast, Speaks
    <3>1. /\ up[c][i + 1].n \notin Busy(c)
          /\ \A k \in DOMAIN up[c] : up[c][k].kind # "beat" /\ up[c][k].n = up[c][i + 1].n => k <= i + 1
      BY <1>0, <1>2 DEF Tidy, ResultLast, Speaks
    <3>2. ASSUME NEW k \in DOMAIN up'[c], up'[c][k].kind # "beat" /\ up'[c][k].n = up'[c][i].n PROVE k <= i
      <4>1. k + 1 <= i + 1 /\ k \in Nat /\ i \in Nat
        BY <1>2, <3>1, <3>2
      <4> QED BY <4>1
    <3> QED BY <1>2, <2>5, <3>1, <3>2
  <2>9. Stopped(c)'
    BY <1>0, <1>1, <1>2, <1>6, <2>5 DEF Tidy, Stopped
  <2> QED BY <2>5, <2>6, <2>7, <2>8, <2>9 DEF Tidy
<1>14. Slotted(c)'
  <2>1. IsFiniteSet(Held(c)) /\ j \in Held(c) /\ Held(c)' = Held(c) \ {j} /\ Matched(c)' = Matched(c)
    BY <1>1, <1>3, <1>5, FS_Subset DEF Held, Matched
  <2>2. Cardinality(Held(c)') = Cardinality(Held(c)) - 1 /\ Cardinality(Held(c)) \in Nat /\ Matched(c) \in Nat
    BY <2>1, FS_RemoveElement, FS_CardinalityType DEF Matched
  <2>3. Open(c)' => link'[c].free + Cardinality(Held(c)') + Matched(c)' <= Slots
    BY <1>0, <1>6, <2>1, <2>2 DEF Slotted, Open
  <2>4. link[c].state # "off"
    BY <1>0, <2>1 DEF Slotted
  <2>5. Open(c)' => c \in registry' \/ \E m \in Handed : fate'[m] = "lost"
    BY <1>0, <1>1, <1>6, <1>9 DEF Slotted, Open
  <2>6. link'[c].state # "detached"
    BY <1>0, <1>6, <2>1 DEF Slotted
  <2> QED BY <1>6, <2>3, <2>4, <2>5, <2>6 DEF Slotted
<1> QED BY <1>5, <1>6, <1>7, <1>10, <1>11, <1>12, <1>13, <1>14, ShrinkFacts DEF PoolInv, PoolTypes

(* The end of the stream: every entry goes, and nothing is on the way.     *)
LEMMA ReaderAbandons == ASSUME PoolInv, NEW c \in Conns, abandon(c) PROVE PoolInv'
<1> USE PoolAssumption
<1>0. /\ LinkTypes /\ HandTypes /\ EntryTypes /\ OnePlace /\ AnswerTypes /\ Domains /\ Tidy(c) /\ ExecTypes(c)
  BY DEF PoolInv, PoolTypes
<1> DEFINE over == {entry[c][j].n : j \in Held(c)}
           asleep == {entry[c][j].n : j \in {k \in Held(c) : entry[c][k].slept}}
<1>1. /\ UNCHANGED <<given, queue, place, pump, down, up, exec>> /\ registry' = registry \ {c}
      /\ link[c].state \in {"closed", "detached"} /\ up[c] = <<>>
      /\ link' = [link EXCEPT ![c].state = "gone"]
      /\ entry' = [entry EXCEPT ![c] = [j \in PoolJobs |-> NoDispatch]]
      /\ replies' = [n \in Handed |-> IF n \in asleep THEN replies[n] + 1 ELSE replies[n]]
      /\ fate' = [n \in Handed |-> IF n \in asleep THEN "emitted" ELSE IF n \in over THEN "lost" ELSE fate[n]]
  BY DEF abandon, deregister, storeSide, wire
<1>2. asleep \subseteq over /\ \A n : n \in over => \E j \in PoolJobs : Of(c, j) = n /\ n # 0
  BY <1>0 DEF Held, Of, OnePlace
<1> HIDE DEF over, asleep
<1>3. /\ EntryTypes' /\ \A j \in PoolJobs : entry'[c][j] = NoDispatch /\ Of(c, j)' = 0
      /\ \A d \in Conns : d # c => entry'[d] = entry[d]
  BY <1>0, <1>1 DEF EntryTypes, EntryRow, Of, NoDispatch, Upto
<1>4. LinkTypes' /\ link'[c].state = "gone" /\ \A d \in Conns : d # c => link'[d] = link[d]
  BY <1>0, <1>1 DEF LinkTypes, LinkRow
<1>5. Shrinks
  BY <1>1, <1>3, <1>4 DEF Shrinks
<1>6. \A n \in over : Unsettled(n) /\ ~Unsettled(n)' /\ Known(n) /\ fate[n] # "lost"
  <2> SUFFICES ASSUME NEW n \in over PROVE Unsettled(n) /\ ~Unsettled(n)' /\ Known(n) /\ fate[n] # "lost"
    OBVIOUS
  <2>1. PICK j \in PoolJobs : Of(c, j) = n /\ n # 0
    BY <1>2
  <2>2. Known(n) /\ Job(n) = j /\ ~Queued(n) /\ place.n # n /\ Entered(n)
    BY <1>0, <2>1 DEF OnePlace, Queued, Entered
  <2>3. ~Entered(n)'
    <3> SUFFICES ASSUME NEW d \in Conns, NEW k \in PoolJobs, Of(d, k)' = n PROVE FALSE
      BY DEF Entered
    <3>1. d # c /\ Of(d, k) = n
      BY <1>3, <2>1 DEF Of
    <3> QED BY <1>0, <2>1, <2>2, <3>1 DEF OnePlace
  <2>4. n \in Handed
    BY <1>0, <2>2, JobKnown
  <2>5. fate[n] # "lost"
    BY <1>1, <2>1, <2>4 DEF PoolInv, LostForGood
  <2> QED BY <1>1, <2>1, <2>2, <2>3, <2>5 DEF Unsettled, Queued
<1>7. AnswersLeft' /\ LostForGood'
  <2>1. \A m \in Handed : \/ replies'[m] = replies[m]
                          \/ Unsettled(m) /\ ~Unsettled(m)' /\ replies'[m] = replies[m] + 1
    BY <1>1, <1>2, <1>6
  <2>2. \A m \in Handed : fate'[m] = "lost" => fate[m] = "lost" \/ (Known(m) /\ ~Unsettled(m)')
    BY <1>1, <1>6
  <2> QED BY <1>5, <2>1, <2>2, ShrinkAnswers
<1>8. AnswerTypes' /\ \A m \in Handed : fate[m] = "lost" => fate'[m] = "lost"
  BY <1>0, <1>1, <1>2, <1>6 DEF AnswerTypes
<1>9. Domains' /\ PumpTypes' /\ ExecTypes(c)'
  BY <1>0, <1>1 DEF PoolInv, PoolTypes, Domains, PumpTypes, ExecTypes
<1>10. ASSUME NEW d \in Conns, d # c PROVE ExecTypes(d)' /\ Tidy(d)' /\ Slotted(d)'
  <2>1. Held(d)' = Held(d) /\ Matched(d)' = Matched(d) /\ \A k \in PoolJobs : Of(d, k)' = Of(d, k)
    BY <1>1, <1>3, <1>10 DEF Held, Matched, Of
  <2>2. ExecTypes(d)' /\ Tidy(d)'
    BY <1>1, <1>4, <1>5, <1>10, <2>1, ShrinkFacts, TidySame
  <2> QED BY <1>1, <1>4, <1>8, <1>10, <2>1, <2>2, SlottedSame
<1>11. Tidy(c)'
  <2>1. Busy(c)' = {} /\ down'[c] = <<>> /\ up'[c] = <<>> /\ DOMAIN <<>> = {} /\ OneStage(exec'[c])
    BY <1>0, <1>1, EmptyFacts DEF Tidy, Stopped, Busy
  <2> QED BY <2>1 DEF Tidy, BusyNamed, UpNamed, DownOnce, ResultLast, Stopped
<1>12. Slotted(c)'
  BY <1>4 DEF Slotted, Open
<1> QED BY <1>3, <1>4, <1>5, <1>7, <1>8, <1>9, <1>10, <1>11, <1>12, ShrinkFacts DEF PoolInv, PoolTypes

(* Placement takes the next job.                                           *)
LEMMA PlacementTakes == ASSUME PoolInv, TakeJob PROVE PoolInv'
<1> USE PoolAssumption
<1>0. HandTypes /\ OnePlace
  BY DEF PoolInv, PoolTypes
<1>1. /\ UNCHANGED <<given, link, registry, entry, replies, fate, pump, down, up, exec>>
      /\ place = NoPlacement /\ queue # <<>> /\ place' = [n |-> Head(queue), conn |-> 0] /\ queue' = Tail(queue)
  BY DEF TakeJob, storeSide, wire, answers
<1>2. /\ 1 \in DOMAIN queue /\ Head(queue) = queue[1] /\ queue[1] \in Handed /\ queue' \in Seq(Handed)
      /\ \A i \in DOMAIN queue' : i \in Nat \ {0} /\ i + 1 \in DOMAIN queue /\ queue'[i] = queue[i + 1]
  BY <1>0, <1>1 DEF HandTypes
<1>n. PICK n \in Handed : n = queue[1] /\ n # 0 /\ Known(n) /\ ~Entered(n)
  BY <1>0, <1>2 DEF OnePlace, Handed
<1>3. HandTypes' /\ place'.n = n /\ place'.conn = 0
  BY <1>0, <1>1, <1>2, <1>n DEF HandTypes, Upto, Handed
<1>4. \A m : (Known(m)' <=> Known(m)) /\ Job(m)' = Job(m) /\ (Entered(m)' <=> Entered(m))
  BY <1>1 DEF Known, Job, Entered, Of
<1>5. \A m : Queued(m)' => Queued(m) /\ m # n
  <2>1. \A i \in DOMAIN queue' : queue'[i] # n
    BY <1>0, <1>2, <1>n DEF OnePlace
  <2> QED BY <1>2, <2>1 DEF Queued
<1>6. Queued(n)
  BY <1>2, <1>n DEF Queued
<1>7. OnePlace'
  <2>1. \A i, k \in DOMAIN queue' : queue'[i] = queue'[k] => i = k
    <3> SUFFICES ASSUME NEW i \in DOMAIN queue', NEW k \in DOMAIN queue', queue'[i] = queue'[k] PROVE i = k
      OBVIOUS
    <3>1. i + 1 = k + 1 /\ i \in Nat /\ k \in Nat
      BY <1>0, <1>2 DEF OnePlace
    <3> QED BY <3>1
  <2>2. \A i \in DOMAIN queue' : (Known(queue[i]) /\ queue[i] # place.n /\ ~Entered(queue[i]))'
    <3>1. \A i \in DOMAIN queue' : \E m : m = queue'[i] /\ Known(m)' /\ m # place'.n /\ ~Entered(m)'
      <4>1. \A m : Queued(m) => Known(m) /\ ~Entered(m)
        BY <1>0 DEF OnePlace, Queued
      <4>2. ASSUME NEW i \in DOMAIN queue'
            PROVE  \E m : m = queue'[i] /\ Known(m)' /\ m # place'.n /\ ~Entered(m)'
        <5>1. PICK m : m = queue'[i]
          OBVIOUS
        <5>2. Queued(m)'
          BY <5>1 DEF Queued
        <5> QED BY <1>3, <1>4, <1>5, <4>1, <5>1, <5>2
      <4> QED BY <4>2
    <3> QED BY <3>1 DEF Known, Entered
  <2>3. (Known(place.n) /\ ~Entered(place.n))'
    BY <1>3, <1>4, <1>n DEF Known, Entered
  <2>4. \A c \in Conns, j \in PoolJobs :
          /\ Of(c, j)' = 0 => entry'[c][j] = NoDispatch
          /\ Of(c, j)' # 0 => /\ (Known(Of(c, j)) /\ Job(Of(c, j)) = j)'
                              /\ \A d \in Conns : Of(d, j)' = Of(c, j)' => d = c
    BY <1>0, <1>1 DEF OnePlace, Of, Known, Job
  <2> QED BY <1>3, <1>n, <2>1, <2>2, <2>3, <2>4 DEF OnePlace
<1>8. AnswersLeft' /\ LostForGood'
  <2>1. \A m : Unsettled(m)' => Unsettled(m)
    BY <1>3, <1>4, <1>5, <1>6 DEF Unsettled
  <2>2. AnswersLeft'
    BY <1>1, <1>4, <2>1 DEF PoolInv, AnswersLeft
  <2>3. fate[n] # "lost"
    BY <1>6 DEF PoolInv, LostForGood
  <2> QED BY <1>1, <1>3, <1>4, <1>5, <2>2, <2>3 DEF PoolInv, LostForGood, Of
<1>9. \A d \in Conns : ExecTypes(d)' /\ Tidy(d)'
  <2>1. \A d, j : Of(d, j)' = Of(d, j)
    BY <1>1 DEF Of
  <2> QED BY <1>1, <1>4, <2>1, TidySame
<1>10. \A d \in Conns : Slotted(d)'
  <2>1. \A d \in Conns : Held(d)' = Held(d) /\ Matched(d)' = Matched(d)
    BY <1>1, <1>3 DEF Held, Matched, NoPlacement
  <2> QED BY <1>1, <2>1, SlottedSame
<1>11. LinkTypes' /\ EntryTypes' /\ AnswerTypes' /\ Domains' /\ PumpTypes'
  BY <1>1 DEF PoolInv, PoolTypes, LinkTypes, EntryTypes, AnswerTypes, Domains, PumpTypes
<1> QED BY <1>3, <1>7, <1>8, <1>9, <1>10, <1>11 DEF PoolInv, PoolTypes

(* Placement: a slot of a connection without an attempt of the job.        *)
LEMMA PlacementAcquires == ASSUME PoolInv, NEW c \in Conns, try_acquire(c) PROVE PoolInv'
<1> USE PoolAssumption
<1>0. HandTypes /\ OnePlace /\ LinkTypes /\ EntryTypes
  BY DEF PoolInv, PoolTypes
<1>1. /\ UNCHANGED <<given, queue, registry, entry, replies, fate, pump, down, up, exec>>
      /\ place.n # 0 /\ place.conn = 0 /\ c \in registry /\ entry[c][Job(place.n)] = NoDispatch
      /\ place' = [place EXCEPT !.conn = c] /\ link' = [link EXCEPT ![c].free = @ - 1]
  BY DEF try_acquire, Candidates, storeSide, wire, answers
<1>2. place'.n = place.n /\ place'.conn = c /\ HandTypes' /\ c # 0
  BY <1>0, <1>1 DEF HandTypes
<1>3. /\ LinkTypes' /\ (\A d \in Conns : link'[d].state = link[d].state) /\ link'[c].free = link[c].free - 1
      /\ link[c].free \in Int /\ \A d \in Conns : d # c => link'[d] = link[d]
  BY <1>0, <1>1 DEF LinkTypes, LinkRow
<1>4. /\ \A m : /\ Known(m)' <=> Known(m)
               /\ Job(m)' = Job(m) /\ (Entered(m)' <=> Entered(m)) /\ (Queued(m)' <=> Queued(m))
      /\ \A d, j : Of(d, j)' = Of(d, j)
  BY <1>1 DEF Known, Job, Entered, Of, Queued
<1>5. OnePlace'
  <2>1. (Of(place.conn, Job(place.n)) = 0)'
    BY <1>1, <1>2 DEF Of, Job, NoDispatch
  <2>2. \A i \in DOMAIN queue' : (Known(queue[i]) /\ queue[i] # place.n /\ ~Entered(queue[i]))'
    BY <1>0, <1>1, <1>2 DEF OnePlace, Known, Entered, Of
  <2>3. (Known(place.n) /\ ~Entered(place.n))'
    BY <1>0, <1>1, <1>2 DEF OnePlace, Known, Entered, Of
  <2>4. \A d \in Conns, j \in PoolJobs :
          /\ Of(d, j)' = 0 => entry'[d][j] = NoDispatch
          /\ Of(d, j)' # 0 => /\ (Known(Of(d, j)) /\ Job(Of(d, j)) = j)'
                              /\ \A e \in Conns : Of(e, j)' = Of(d, j)' => e = d
    BY <1>0, <1>1 DEF OnePlace, Of, Known, Job
  <2>5. \A i, k \in DOMAIN queue' : queue'[i] = queue'[k] => i = k
    BY <1>0, <1>1 DEF OnePlace
  <2> QED BY <1>1, <1>2, <2>1, <2>2, <2>3, <2>4, <2>5 DEF OnePlace
<1>6. AnswersLeft' /\ LostForGood'
  <2>1. AnswersLeft'
    BY <1>1, <1>2, <1>4 DEF PoolInv, AnswersLeft, Unsettled
  <2> QED BY <1>1, <1>2, <1>3, <1>4, <2>1 DEF PoolInv, LostForGood
<1>7. \A d \in Conns : ExecTypes(d)' /\ Tidy(d)'
  BY <1>1, <1>3, <1>4, TidySame
<1>8. ASSUME NEW d \in Conns, d # c PROVE Slotted(d)'
  <2>1. Held(d)' = Held(d) /\ Matched(d)' = Matched(d)
    BY <1>1, <1>2, <1>8 DEF Held, Matched
  <2> QED BY <1>1, <1>3, <1>8, <2>1, SlottedSame
<1>9. Slotted(c)'
  <2>1. Held(c)' = Held(c) /\ Matched(c)' = 1 /\ Matched(c) = 0 /\ IsFiniteSet(Held(c))
    BY <1>1, <1>2, FS_Subset DEF Held, Matched
  <2>2. Cardinality(Held(c)) \in Nat
    BY <2>1, FS_CardinalityType
  <2>3. Slotted(c)
    BY DEF PoolInv
  <2> QED BY <1>1, <1>3, <2>1, <2>2, <2>3 DEF Slotted, Open
<1>10. EntryTypes' /\ AnswerTypes' /\ Domains' /\ PumpTypes'
  BY <1>1 DEF PoolInv, PoolTypes, EntryTypes, AnswerTypes, Domains, PumpTypes
<1> QED BY <1>2, <1>3, <1>5, <1>6, <1>7, <1>8, <1>9, <1>10 DEF PoolInv, PoolTypes

(* Placement: the job is registered on its connection and sent.            *)
LEMMA PlacementSends == ASSUME PoolInv, dispatch_to PROVE PoolInv'
<1> USE PoolAssumption
<1>0. HandTypes /\ OnePlace /\ LinkTypes /\ EntryTypes /\ AnswerTypes /\ Domains
  BY DEF PoolInv, PoolTypes
<1>n. PICK n \in Handed, c \in Conns, j \in PoolJobs :
          /\ n = place.n /\ c = place.conn /\ j = Job(n) /\ n # 0 /\ Known(n) /\ Of(c, j) = 0 /\ ~Entered(n)
  <2>1. place.conn # 0 /\ place.conn \in Conns /\ place.n # 0
    BY <1>0 DEF dispatch_to, HandTypes, OnePlace
  <2> QED BY <1>0, <2>1, JobKnown DEF OnePlace
<1>1. /\ UNCHANGED <<given, queue, link, registry, replies, pump, up, exec>> /\ place' = NoPlacement
      /\ entry' = [entry EXCEPT ![c][j] = [n |-> n, lease |-> book[j], slept |-> FALSE]]
      /\ down' = IF link[c].state = "open" THEN [down EXCEPT ![c] = Append(@, [n |-> n, lease |-> book[j]])]
                 ELSE down
      /\ fate' = IF link[c].state = "gone" THEN [fate EXCEPT ![n] = "lost"] ELSE fate
  BY <1>n DEF dispatch_to, storeSide
<1>2. /\ EntryTypes' /\ Of(c, j)' = n /\ entry'[c][j] # NoDispatch
      /\ \A d \in Conns, k \in PoolJobs : d # c \/ k # j => entry'[d][k] = entry[d][k] /\ Of(d, k)' = Of(d, k)
  BY <1>0, <1>1, <1>n DEF EntryTypes, EntryRow, Of, NoDispatch, Upto, Handed
<1>3. HandTypes' /\ place'.n = 0 /\ place'.conn = 0
  BY <1>0, <1>1 DEF HandTypes, NoPlacement, Upto
<1>4. /\ \A m : (Known(m)' <=> Known(m)) /\ Job(m)' = Job(m) /\ (Queued(m)' <=> Queued(m))
      /\ \A m : m # 0 => (Entered(m)' <=> (Entered(m) \/ m = n))
  <2>1. \A m : m # 0 => (Entered(m)' <=> (Entered(m) \/ m = n))
    <3> SUFFICES ASSUME NEW m, m # 0 PROVE Entered(m)' <=> (Entered(m) \/ m = n)
      OBVIOUS
    <3>1. ASSUME Entered(m) PROVE Entered(m)'
      <4>1. PICK d \in Conns, k \in PoolJobs : Of(d, k) = m
        BY <3>1 DEF Entered
      <4>2. Of(d, k)' = m
        BY <1>2, <1>n, <4>1
      <4> QED BY <4>2 DEF Entered
    <3>2. m = n => Entered(m)'
      BY <1>2 DEF Entered
    <3>3. Entered(m)' => Entered(m) \/ m = n
      BY <1>2 DEF Entered
    <3> QED BY <3>1, <3>2, <3>3
  <2> QED BY <1>1, <2>1 DEF Known, Job, Queued
<1>5. OnePlace'
  <2>1. \A i \in DOMAIN queue' : (Known(queue[i]) /\ queue[i] # place.n /\ ~Entered(queue[i]))'
    <3>1. \A i \in DOMAIN queue' : \E m : m = queue'[i] /\ m # 0 /\ Known(m)' /\ m # place'.n /\ ~Entered(m)'
      <4>1. \A i \in DOMAIN queue : /\ queue[i] # 0 /\ Known(queue[i]) /\ queue[i] # n /\ ~Entered(queue[i])
        BY <1>0, <1>n DEF OnePlace, HandTypes, Handed
      <4> QED BY <1>1, <1>3, <1>4, <4>1
    <3> QED BY <3>1 DEF Known, Entered
  <2>2. \A d \in Conns, k \in PoolJobs : Of(d, k)' = 0 => entry'[d][k] = NoDispatch
    BY <1>0, <1>2, <1>n DEF OnePlace
  <2>3. ASSUME NEW d \in Conns, NEW k \in PoolJobs, Of(d, k)' # 0
        PROVE  /\ (Known(Of(d, k)) /\ Job(Of(d, k)) = k)'
               /\ \A e \in Conns : Of(e, k)' = Of(d, k)' => e = d
    <3>1. CASE d = c /\ k = j
      <4>1. (Known(Of(d, k)) /\ Job(Of(d, k)) = k)'
        BY <1>1, <1>2, <1>n, <3>1 DEF Known, Job
      <4>2. \A e \in Conns : e # c => Of(e, j)' = Of(e, j) /\ Of(e, j) # n
        BY <1>2, <1>n DEF Entered
      <4> QED BY <1>2, <3>1, <4>1, <4>2
    <3>2. CASE d # c \/ k # j
      <4>1. Of(d, k)' = Of(d, k) /\ Of(d, k) # 0 /\ Of(d, k) # n
        BY <1>2, <1>n, <2>3, <3>2 DEF Entered
      <4>2. Known(Of(d, k)) /\ Job(Of(d, k)) = k /\ \A e \in Conns : Of(e, k) = Of(d, k) => e = d
        BY <1>0, <4>1 DEF OnePlace
      <4>3. (Known(Of(d, k)) /\ Job(Of(d, k)) = k)'
        BY <1>1, <4>1, <4>2 DEF Known, Job
      <4> QED BY <1>2, <4>1, <4>2, <4>3
    <3> QED BY <3>1, <3>2
  <2>4. \A i, k \in DOMAIN queue' : queue'[i] = queue'[k] => i = k
    BY <1>0, <1>1 DEF OnePlace
  <2> QED BY <1>3, <2>1, <2>2, <2>3, <2>4 DEF OnePlace
<1>6. AnswersLeft'
  <2>1. \A m : Unsettled(m)' => Unsettled(m)
    BY <1>3, <1>4, <1>n DEF Unsettled
  <2> QED BY <1>1, <1>4, <2>1 DEF PoolInv, AnswersLeft
<1>7. /\ fate[n] # "lost"
      /\ \A m \in Handed : fate'[m] = "lost" <=> fate[m] = "lost" \/ (m = n /\ link[c].state = "gone")
  <2>1. fate[n] # "lost"
    BY <1>n DEF PoolInv, LostForGood
  <2> QED BY <1>0, <1>1, <2>1 DEF AnswerTypes
<1>8. LostForGood'
  <2> SUFFICES ASSUME NEW m \in Handed, fate'[m] = "lost"
               PROVE  /\ Known(m)' /\ ~Queued(m)' /\ place'.n # m
                      /\ \A d \in Conns, k \in PoolJobs : Of(d, k)' = m => link'[d].state = "gone"
    BY DEF LostForGood
  <2>0. m # 0
    BY DEF Handed
  <2>1. CASE fate[m] = "lost"
    <3>1. /\ Known(m) /\ ~Queued(m) /\ m # n
          /\ \A d \in Conns, k \in PoolJobs : Of(d, k) = m => link[d].state = "gone"
      BY <1>7, <2>1 DEF PoolInv, LostForGood
    <3>2. \A d \in Conns, k \in PoolJobs : Of(d, k)' = m => Of(d, k) = m
      BY <1>2, <3>1
    <3> QED BY <1>1, <1>3, <1>4, <2>0, <3>1, <3>2
  <2>2. CASE m = n /\ link[c].state = "gone"
    <3>1. ~Queued(n)
      BY <1>0, <1>n DEF OnePlace, Queued
    <3>2. \A d \in Conns, k \in PoolJobs : Of(d, k)' = n => d = c
      BY <1>2, <1>n DEF Entered
    <3> QED BY <1>1, <1>3, <1>4, <1>n, <2>0, <2>2, <3>1, <3>2
  <2> QED BY <1>7, <2>1, <2>2
<1>9. ASSUME NEW d \in Conns, d # c PROVE ExecTypes(d)' /\ Tidy(d)' /\ Slotted(d)'
  <2>1. /\ Held(d)' = Held(d) /\ Matched(d)' = Matched(d) /\ down'[d] = down[d]
        /\ \A k \in PoolJobs : Of(d, k)' = Of(d, k)
    BY <1>0, <1>1, <1>2, <1>3, <1>n, <1>9 DEF Held, Matched, Domains
  <2>2. ExecTypes(d)' /\ Tidy(d)'
    BY <1>1, <1>4, <1>9, <2>1, TidySame
  <2> QED BY <1>1, <1>7, <1>9, <2>1, <2>2, SlottedSame
<1>10. Slotted(c)'
  <2>0. Matched(c) = 1 /\ Matched(c)' = 0 /\ place'.conn # c /\ entry[c][j] = NoDispatch
    BY <1>0, <1>3, <1>n DEF Matched, OnePlace
  <2>1. IsFiniteSet(Held(c)) /\ j \notin Held(c) /\ Held(c)' = Held(c) \cup {j}
    <3>1. IsFiniteSet(Held(c))
      BY FS_Subset DEF Held
    <3> QED BY <1>2, <1>n, <2>0, <3>1 DEF Held
  <2>2. Cardinality(Held(c)') = Cardinality(Held(c)) + 1 /\ Cardinality(Held(c)) \in Nat
    BY <2>1, FS_AddElement, FS_CardinalityType
  <2>3. Slotted(c) /\ link[c].free \in Int
    BY <1>0 DEF PoolInv, LinkTypes, LinkRow
  <2> QED BY <1>1, <1>7, <1>n, <2>0, <2>1, <2>2, <2>3 DEF Slotted, Open
<1>11. AnswerTypes' /\ LinkTypes' /\ PumpTypes'
  BY <1>0, <1>1 DEF PoolInv, PoolTypes, AnswerTypes, LinkTypes, PumpTypes
<1>12. Tidy(c) /\ ExecTypes(c)
  BY DEF PoolInv, PoolTypes
<1>13. /\ \A m : Named(c, m) => Named(c, m)' /\ m # n
       /\ Named(c, n)'
  <2>1. \A m : Named(c, m) => Known(m) /\ Job(m) \in PoolJobs /\ Of(c, Job(m)) = m /\ m # 0
    BY <1>0, JobKnown DEF Named, Known
  <2>2. \A m : Named(c, m) => m # n /\ Job(m) # j
    BY <1>n, <2>1
  <2> QED BY <1>2, <1>4, <1>n, <2>1, <2>2 DEF Named
<1>14. CASE link[c].state # "open"
  <2>1. down' = down /\ Busy(c)' = Busy(c) /\ Domains' /\ ExecTypes(c)'
    BY <1>0, <1>1, <1>12, <1>14 DEF Busy, Domains, ExecTypes
  <2>2. Tidy(c)'
    BY <1>1, <1>12, <1>13, <2>1 DEF Tidy, BusyNamed, UpNamed, DownOnce, ResultLast, Stopped, Speaks
  <2> QED BY <1>2, <1>3, <1>5, <1>6, <1>8, <1>9, <1>10, <1>11, <2>1, <2>2 DEF PoolInv, PoolTypes
<1>15. CASE link[c].state = "open"
  <2> DEFINE f == [n |-> n, lease |-> book[j]]
  <2>1. /\ DOMAIN down' = Conns /\ down'[c] = Append(down[c], f) /\ f.n = n
    BY <1>0, <1>1, <1>15 DEF Domains
  <2> HIDE DEF f
  <2>2. IsSeq(down[c])
    BY <1>12 DEF ExecTypes, DownTypes
  <2>3. PICK l \in Nat : /\ DOMAIN down[c] = 1..l /\ DOMAIN down'[c] = 1..(l + 1) /\ down'[c][l + 1] = f
                         /\ \A i \in 1..l : down'[c][i] = down[c][i]
    BY <2>1, <2>2, AppendFacts, SeqFacts
  <2>4. \A i \in DOMAIN down'[c] : i = l + 1 \/ (i \in DOMAIN down[c] /\ down'[c][i] = down[c][i])
    BY <2>3
  <2>5. Domains' /\ ExecTypes(c)' /\ Busy(c)' = Busy(c)
    <3>1. IsSeq(down'[c])
      BY <2>1, <2>2, AppendFacts
    <3>2. DownTypes(down'[c])
      BY <1>12, <2>1, <2>3, <2>4, <3>1 DEF DownTypes, ExecTypes
    <3> QED BY <1>0, <1>1, <1>12, <2>1, <3>2 DEF Busy, Domains, ExecTypes
  <2>6. /\ n \notin Busy(c) /\ (\A k \in DOMAIN up[c] : ~(up[c][k].kind # "beat" /\ up[c][k].n = n))
        /\ \A i \in DOMAIN down[c] : down[c][i].n # n
    BY <1>12, <1>13 DEF Tidy, BusyNamed, UpNamed, DownOnce
  <2>7. DownOnce(c)'
    <3> SUFFICES ASSUME NEW i \in DOMAIN down'[c]
                 PROVE  /\ Named(c, down[c][i].n)' /\ down'[c][i].n \notin Busy(c)
                        /\ \A k \in DOMAIN up[c] : ~(up[c][k].kind # "beat" /\ up[c][k].n = down'[c][i].n)
                        /\ \A k \in DOMAIN down'[c] : down'[c][k].n = down'[c][i].n => k = i
      BY <1>1, <2>5 DEF DownOnce, Speaks
    <3>1. CASE i = l + 1
      BY <1>13, <2>1, <2>3, <2>4, <2>6, <3>1
    <3>2. CASE i \in DOMAIN down[c] /\ down'[c][i] = down[c][i]
      <4>1. /\ Named(c, down[c][i].n) /\ down[c][i].n \notin Busy(c) /\ down[c][i].n # n
            /\ \A k \in DOMAIN up[c] : ~(up[c][k].kind # "beat" /\ up[c][k].n = down[c][i].n)
            /\ \A k \in DOMAIN down[c] : down[c][k].n = down[c][i].n => k = i
        BY <1>12, <2>6, <3>2 DEF Tidy, DownOnce, Speaks
      <4> QED BY <1>13, <2>1, <2>3, <2>4, <3>2, <4>1
    <3> QED BY <2>4, <3>1, <3>2
  <2>8. BusyNamed(c)' /\ UpNamed(c)' /\ ResultLast(c)' /\ Stopped(c)' /\ OneStage(exec'[c])
    BY <1>1, <1>12, <1>13, <1>15, <2>5 DEF Tidy, BusyNamed, UpNamed, ResultLast, Stopped, Speaks
  <2>9. Tidy(c)'
    BY <2>7, <2>8 DEF Tidy
  <2> QED BY <1>2, <1>3, <1>5, <1>6, <1>8, <1>9, <1>10, <1>11, <2>5, <2>9 DEF PoolInv, PoolTypes
<1> QED BY <1>14, <1>15

(* Nothing happens.                                                        *)
LEMMA PoolStutters == ASSUME PoolInv, UNCHANGED poolVars PROVE PoolInv'
<1>1. UNCHANGED <<given, queue, place, link, registry, entry, replies, fate, down, up, exec, pump>>
  BY DEF poolVars
<1>2. \A d \in Conns : ExecTypes(d)' /\ Tidy(d)'
  <2>1. \A n, d, j : (Known(n) => Known(n)' /\ Job(n)' = Job(n)) /\ Of(d, j)' = Of(d, j)
    BY <1>1 DEF Known, Job, Of
  <2> QED BY <1>1, <2>1, TidySame
<1>3. Domains' /\ PumpTypes'
  BY <1>1 DEF PoolInv, PoolTypes, Domains, PumpTypes
<1> QED BY <1>1, <1>2, <1>3, EntriesSame, PoolSideKept DEF PoolInv, PoolTypes

(* Every step of the pool and its executors keeps the invariant.           *)
LEMMA PoolStep == PoolInv /\ [PoolNext]_poolVars => PoolInv'
<1> SUFFICES ASSUME PoolInv, [PoolNext]_poolVars PROVE PoolInv'
  OBVIOUS
<1>1. CASE Scheduling
  BY <1>1, SchedulerHands, SchedulerSettles DEF Scheduling
<1>2. CASE Placing
  BY <1>2, PlacementTakes, PlacementEnds, PlacementSends, PlacementAcquires DEF Placing
<1>3. CASE Connecting
  BY <1>3, LinkOpens, LinkCloses, ReaderAbandons DEF Connecting
<1>4. CASE Receiving
  BY <1>4, ReaderBeats, ReaderResults, ReaderCommits, PumpApplies DEF Receiving
<1>5. CASE Executing
  BY <1>5, ExecutorAccepts, ExecutorWorks, ExecutorBeats, ExecutorAnswers DEF Executing
<1> QED BY <1>1, <1>2, <1>3, <1>4, <1>5, PoolStutters DEF PoolNext

(* The pool starts with no connection, no dispatch and every slot free.    *)
LEMMA PoolStarts == PoolInit => PoolInv
<1> SUFFICES ASSUME PoolInit PROVE PoolInv
  OBVIOUS
<1> USE PoolAssumption
<1>1. /\ \A n : ~Known(n) /\ ~Queued(n) /\ (n # 0 => ~Entered(n))
      /\ \A c \in Conns, j \in PoolJobs : Of(c, j) = 0 /\ entry[c][j] = NoDispatch
  BY DEF PoolInit, Known, Queued, Entered, Of, NoDispatch
<1>2. PoolTypes
  <2>1. HandTypes /\ PumpTypes
    BY DEF PoolInit, HandTypes, PumpTypes, NoPlacement, Upto
  <2>2. LinkTypes /\ EntryTypes /\ Domains /\ AnswerTypes
    BY DEF PoolInit, LinkTypes, LinkRow, EntryTypes, EntryRow, NoDispatch, Domains, AnswerTypes, Upto
  <2>3. ASSUME NEW c \in Conns PROVE ExecTypes(c)
    <3>1. ExecRow(exec[c])
      BY DEF PoolInit, ExecRow, Upto
    <3>2. DownTypes(down[c]) /\ UpTypes(up[c])
      BY EmptyFacts DEF PoolInit, DownTypes, UpTypes
    <3> QED BY <3>1, <3>2 DEF ExecTypes
  <2> QED BY <2>1, <2>2, <2>3 DEF PoolTypes
<1>3. OnePlace
  BY <1>1 DEF PoolInit, OnePlace, NoPlacement
<1>4. AnswersLeft /\ LostForGood
  BY <1>1 DEF PoolInit, AnswersLeft, LostForGood
<1>5. ASSUME NEW c \in Conns PROVE Tidy(c) /\ Slotted(c)
  <2>1. Busy(c) = {} /\ OneStage(exec[c]) /\ up[c] = <<>> /\ down[c] = <<>> /\ link[c].state = "off"
    BY DEF PoolInit, Busy, OneStage
  <2>2. Tidy(c)
    BY <2>1, EmptyFacts DEF Tidy, BusyNamed, UpNamed, DownOnce, ResultLast, Stopped
  <2>3. Slotted(c)
    BY <1>1, <2>1 DEF PoolInit, Slotted, Open, Held, NoPlacement
  <2> QED BY <2>2, <2>3
<1> QED BY <1>2, <1>3, <1>4, <1>5 DEF PoolInv

(* register_dispatch, handle_frame, abandon and placement: a dispatch is   *)
(* answered for at most once, and what a connection says of a job is said  *)
(* by the dispatch its entry stands for, for any number of connections,    *)
(* slots and jobs, whatever is lost, drained, rotated out or taken back.   *)
THEOREM AnsweredOnceAlways == PoolSpec => []AnsweredOnce
<1>1. PoolInv => AnsweredOnce
  BY DEF PoolInv, AnswersLeft, Tidy, UpNamed, Named, Of, AnsweredOnce
<1> QED BY <1>1, PoolStarts, PoolStep, PTL DEF PoolSpec

(* is_idle, handle_frame and deregister: a connection closed because it    *)
(* was idle had no job, none is given more than its slots, and only a      *)
(* failed write takes an open connection out of the registry.              *)
THEOREM NothingStrandedAlways == PoolSpec => []NothingStranded
<1>1. PoolInv => NothingStranded
  BY DEF PoolInv, Slotted, NothingStranded
<1> QED BY <1>1, PoolStarts, PoolStep, PTL DEF PoolSpec
=============================================================================

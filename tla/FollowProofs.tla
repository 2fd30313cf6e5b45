------------------------------ MODULE FollowProofs ------------------------------
(***************************************************************************)
(* Theorems about Turn and FollowRun, for every set of runs, consumers and *)
(* requests and every log the server may write.                            *)
(*                                                                         *)
(* First what a log keeps saying as it grows (the lemmas on Histories):    *)
(* one run takes the message and goes on having taken it, and a run that   *)
(* ended goes on having ended that way.  So an item that is still in a     *)
(* buffer is Sound, however much happens before it is read.                *)
(*                                                                         *)
(* HandleInv, the watch and the handle, is kept by each of their steps:    *)
(* from it come the theorems about a turn.  RunInv adds the command, with  *)
(* one part for each thing it keeps; one lemma for each of its actions     *)
(* carries RunInv over the step.                                           *)
(***************************************************************************)
EXTENDS FollowRun, WellFoundedInduction, TLAPS

LEMMA EmptySequence == \A T : <<>> \in Seq(T)
OBVIOUS

\* The natural numbers are well-ordered.
LEMMA LeastNatural ==
  ASSUME NEW S \in SUBSET Nat, S # {}
  PROVE  \E x \in S : \A y \in S : x <= y
<1>1. PICK x \in S : \A y \in S : <<y, x>> \notin OpToRel(<, Nat)
  BY WFMin, NatLessThanWellFounded, Zenon
<1>2. \A m, n \in Nat : m < n => <<m, n>> \in OpToRel(<, Nat)
  BY Zenon DEF OpToRel
<1>3. \A y \in S : ~(y < x)
  BY <1>1, <1>2, Zenon
<1> QED
  BY <1>3

\* Max is what its name says of bounded sets of numbers.
LEMMA MaxOfNumbers ==
  ASSUME NEW k \in Nat, NEW S \in SUBSET (0..k), S # {}
  PROVE  Max(S) \in S /\ \A y \in S : y <= Max(S)
<1> DEFINE T == {n \in 0..k : k - n \in S}
<1>1. T \in SUBSET Nat /\ T # {}
  <2>1. PICK s \in S : TRUE
    OBVIOUS
  <2>2. k - s \in T
    OBVIOUS
  <2> QED
    BY <2>2
<1>2. PICK m \in T : \A y \in T : m <= y
  BY <1>1, LeastNatural
<1>3. \A y \in S : k - y \in T
  OBVIOUS
<1>4. k - m \in S /\ \A y \in S : k - m >= y
  BY <1>2, <1>3
<1>5. \E x \in S : \A y \in S : x >= y
  BY <1>4
<1>6. Max(S) \in S /\ \A y \in S : Max(S) >= y
  BY <1>5 DEF Max
<1> QED
  BY <1>6

LEMMA MaxOfTwo ==
  ASSUME NEW a \in Int, NEW b \in Int
  PROVE  Max({a, b}) = IF a >= b THEN a ELSE b
<1>1. \E x \in {a, b} : \A y \in {a, b} : x >= y
  OBVIOUS
<1>2. Max({a, b}) \in {a, b} /\ \A y \in {a, b} : Max({a, b}) >= y
  BY <1>1 DEF Max
<1> QED
  BY <1>2

-----------------------------------------------------------------------------
(* What a log says *)

LEMMA EventFields ==
  \A e \in Events :
    \/ e.type = "run" /\ e.id \in Runs /\ e.status \in RunStatus \ {"none"}
    \/ e.type = "message" /\ e.id \in Runs /\ e.status = "linked"
    \/ e.type = "request" /\ e.id \in Requests /\ e.status \in {"pending", "resolved"}
    \/ e.type = "item" /\ e.id \in Requests /\ e.status = "known"
BY DEF Events, Event

LEMMA NoStatus ==
  ASSUME NEW l, NEW n, NEW type, NEW id, About(l, n, type, id) = {}
  PROVE  StatusAt(l, n, type, id) = "none"
BY DEF StatusAt

\* The last event about an entity gives its status.
LEMMA LastStatus ==
  ASSUME NEW l, NEW n \in Nat, NEW type, NEW id, About(l, n, type, id) # {}
  PROVE  \E m \in About(l, n, type, id) :
           /\ \A k \in About(l, n, type, id) : k <= m
           /\ StatusAt(l, n, type, id) = l[m].status
<1> DEFINE A == About(l, n, type, id)
<1>1. A \in SUBSET (0..n)
  BY DEF About
<1>2. Max(A) \in A /\ \A k \in A : k <= Max(A)
  BY <1>1, MaxOfNumbers
<1>3. StatusAt(l, n, type, id) = l[Max(A)].status
  BY DEF StatusAt
<1> QED
  BY <1>2, <1>3

LEMMA StatusOf ==
  ASSUME NEW l, NEW n \in Nat, NEW type, NEW id, NEW m \in About(l, n, type, id),
         \A k \in About(l, n, type, id) : k <= m
  PROVE  StatusAt(l, n, type, id) = l[m].status
<1>1. PICK x \in About(l, n, type, id) :
        /\ \A k \in About(l, n, type, id) : k <= x
        /\ StatusAt(l, n, type, id) = l[x].status
  BY LastStatus
<1>2. x <= m /\ m <= x /\ x \in Nat /\ m \in Nat
  BY <1>1 DEF About
<1> QED
  BY <1>1, <1>2

\* A run that an event was about is known.
LEMMA RunKnown ==
  ASSUME NEW l \in Seq(Events), NEW n \in 0..Len(l), NEW r
  PROVE  About(l, n, "run", r) # {} <=> StatusAt(l, n, "run", r) # "none"
<1>0. n \in Nat
  OBVIOUS
<1>1. ASSUME About(l, n, "run", r) # {} PROVE StatusAt(l, n, "run", r) # "none"
  <2>1. PICK m \in About(l, n, "run", r) : StatusAt(l, n, "run", r) = l[m].status
    BY <1>0, <1>1, LastStatus
  <2>2. l[m] \in Events /\ l[m].type = "run"
    BY DEF About
  <2> QED
    BY <2>1, <2>2, EventFields
<1> QED
  BY <1>1, NoStatus

\* The last link names the run.
LEMMA LastLink ==
  ASSUME NEW l, NEW n \in Nat, NEW i \in 1..n, l[i].type = "message"
  PROVE  \E m \in 1..n : l[m].type = "message" /\ LinkAt(l, n) = l[m].id
<1> DEFINE A == {k \in 1..n : l[k].type = "message"}
<1>1. A \in SUBSET (0..n) /\ A # {}
  OBVIOUS
<1>2. Max(A) \in A
  BY <1>1, MaxOfNumbers
<1>3. LinkAt(l, n) = l[Max(A)].id
  BY <1>1 DEF LinkAt
<1> QED
  BY <1>2, <1>3

LEMMA NoLink ==
  ASSUME NEW l, NEW n, LinkAt(l, n) # NoRun
  PROVE  \E i \in 1..n : l[i].type = "message"
BY DEF LinkAt

\* A log that grows says the same of the events it had.
LEMMA ThreadAppended ==
  ASSUME NEW l \in Seq(Events), NEW e \in Events, NEW n \in 0..Len(l)
  PROVE  ThreadAt(Append(l, e), n) = ThreadAt(l, n)
<1>0. PICK m : m = Append(l, e)
  OBVIOUS
<1>1. n \in Nat /\ \A i \in 1..n : m[i] = l[i]
  BY <1>0
<1>2. \A type, id : StatusAt(m, n, type, id) = StatusAt(l, n, type, id)
  <2> TAKE type, id
  <2>1. About(m, n, type, id) = About(l, n, type, id)
    BY <1>1 DEF About
  <2>2. CASE About(l, n, type, id) = {}
    BY <2>1, <2>2, NoStatus
  <2>3. CASE About(l, n, type, id) # {}
    <3>1. PICK k \in About(l, n, type, id) :
            (\A j \in About(l, n, type, id) : j <= k) /\ StatusAt(l, n, type, id) = l[k].status
      BY <1>1, <2>3, LastStatus
    <3>2. StatusAt(m, n, type, id) = m[k].status
      BY <1>1, <2>1, <3>1, StatusOf
    <3>3. k \in 1..n
      BY DEF About
    <3> QED
      BY <1>1, <3>1, <3>2, <3>3
  <2> QED
    BY <2>2, <2>3
<1>3. LinkAt(m, n) = LinkAt(l, n)
  <2> DEFINE A == {k \in 1..n : l[k].type = "message"}
             B == {k \in 1..n : m[k].type = "message"}
  <2>1. A = B
    BY <1>1
  <2>2. CASE A = {}
    BY <2>1, <2>2 DEF LinkAt
  <2>3. CASE A # {}
    <3>1. A \in SUBSET (0..n)
      OBVIOUS
    <3>2. Max(A) \in A
      BY <1>1, <2>3, <3>1, MaxOfNumbers
    <3>3. LinkAt(m, n) = m[Max(A)].id /\ LinkAt(l, n) = l[Max(A)].id
      BY <2>1, <2>3 DEF LinkAt
    <3> QED
      BY <1>1, <3>2, <3>3
  <2> QED
    BY <2>2, <2>3
<1>4. ThreadAt(m, n) = ThreadAt(l, n)
  BY <1>2, <1>3 DEF ThreadAt
<1> QED
  BY <1>0, <1>4

-----------------------------------------------------------------------------
(* What a log that the server wrote goes on saying *)

LEMMA ThreadFields ==
  ASSUME NEW l, NEW n
  PROVE  /\ \A r \in Runs : ThreadAt(l, n).runs[r] = StatusAt(l, n, "run", r)
         /\ ThreadAt(l, n).message = LinkAt(l, n)
BY DEF ThreadAt

LEMMA TookFields ==
  ASSUME NEW l, NEW n, NEW r
  PROVE  r \in Took(ThreadAt(l, n)) <=>
           \/ r \in OurRuns /\ StatusAt(l, n, "run", r) # "none"
           \/ r = LinkAt(l, n) /\ r # NoRun
BY FeedAssumption, ThreadFields DEF Took

LEMMA RunsAreNamed == NoRun \notin Runs /\ OurRuns \subseteq Runs
BY FeedAssumption

\* Our message is linked once.
LEMMA LinkStays ==
  ASSUME NEW l \in Histories, NEW n \in 0..Len(l), NEW i \in 1..n, l[i].type = "message"
  PROVE  LinkAt(l, n) = l[i].id
<1>0. l \in Seq(Events) /\ n \in Nat
  BY DEF Histories
<1>1. ASSUME NEW j \in 1..n, NEW k \in 1..n, l[j].type = "message", l[k].type = "message", j < k
      PROVE  FALSE
  <2>1. k \in DOMAIN l /\ k - 1 \in Nat /\ j \in 1..k-1 /\ k - 1 \in 0..Len(l)
    BY <1>0, <1>1
  <2>2. Took(ThreadAt(l, k - 1)) = {}
    BY <1>1, <2>1 DEF Histories, MayFollow
  <2>3. PICK m \in 1..k-1 : l[m].type = "message" /\ LinkAt(l, k - 1) = l[m].id
    BY <1>1, <2>1, LastLink
  <2>4. l[m].id \in Runs
    BY <1>0, <2>1, <2>3, EventFields
  <2> QED
    BY <2>2, <2>3, <2>4, TookFields, RunsAreNamed
<1>2. PICK m \in 1..n : l[m].type = "message" /\ LinkAt(l, n) = l[m].id
  BY <1>0, LastLink
<1>3. m = i
  BY <1>1, <1>2
<1> QED
  BY <1>2, <1>3

\* What took our message goes on having taken it.
LEMMA TookStays ==
  ASSUME NEW l \in Histories, NEW n \in 0..Len(l), NEW m \in 0..n, NEW r \in Took(ThreadAt(l, m))
  PROVE  r \in Took(ThreadAt(l, n))
<1>0. l \in Seq(Events) /\ n \in Nat /\ m \in Nat /\ m \in 0..Len(l) /\ 1..m \subseteq 1..n
  BY DEF Histories
<1>1. CASE r \in OurRuns /\ StatusAt(l, m, "run", r) # "none"
  <2>1. About(l, m, "run", r) # {}
    BY <1>0, <1>1, NoStatus
  <2>2. About(l, n, "run", r) # {}
    BY <1>0, <2>1 DEF About
  <2> QED
    BY <1>0, <1>1, <2>2, RunKnown, TookFields
<1>2. CASE r = LinkAt(l, m) /\ r # NoRun
  <2>1. PICK i \in 1..m : l[i].type = "message"
    BY <1>2, NoLink
  <2>2. LinkAt(l, m) = l[i].id /\ LinkAt(l, n) = l[i].id
    BY <1>0, <2>1, LinkStays
  <2> QED
    BY <1>2, <2>2, TookFields
<1> QED
  BY <1>1, <1>2, TookFields

\* An event that links our message, or is about our run, tells which run took it.
LEMMA EventTells ==
  ASSUME NEW l \in Histories, NEW i \in DOMAIN l,
         l[i].type = "message" \/ (l[i].type = "run" /\ l[i].id \in OurRuns)
  PROVE  l[i].id \in Took(ThreadAt(l, Len(l)))
<1>0. l \in Seq(Events) /\ Len(l) \in Nat /\ Len(l) \in 0..Len(l) /\ i \in 1..Len(l) /\ l[i] \in Events
  BY DEF Histories
<1>1. CASE l[i].type = "message"
  <2>1. LinkAt(l, Len(l)) = l[i].id
    BY <1>0, <1>1, LinkStays
  <2>2. l[i].id \in Runs
    BY <1>0, <1>1, EventFields
  <2> QED
    BY <2>1, <2>2, TookFields, RunsAreNamed
<1>2. CASE l[i].type = "run" /\ l[i].id \in OurRuns
  <2>1. i \in About(l, Len(l), "run", l[i].id)
    BY <1>0, <1>2 DEF About
  <2> QED
    BY <1>0, <1>2, <2>1, RunKnown, TookFields
<1> QED
  BY <1>1, <1>2

\* A run that ended has no event more.
LEMMA EndStays ==
  ASSUME NEW l \in Histories, NEW n \in 0..Len(l), NEW i \in 1..n,
         l[i].type = "run", l[i].status \in TerminalStatus
  PROVE  StatusAt(l, n, "run", l[i].id) = l[i].status
<1> DEFINE r == l[i].id
           A(k) == About(l, k, "run", r)
<1>0. l \in Seq(Events) /\ n \in Nat /\ i \in A(n) /\ l[i] \in Events /\ r \in Runs
  <2>1. l \in Seq(Events) /\ i \in DOMAIN l /\ i \in A(n)
    BY DEF Histories, About
  <2> QED
    BY <2>1, EventFields
<1>1. ASSUME NEW later \in A(n), later > i PROVE FALSE
  <2> DEFINE S == {j \in A(n) : j > i}
  <2>1. S \in SUBSET Nat /\ S # {}
    BY <1>1 DEF About
  <2>2. PICK j \in S : \A k \in S : j <= k
    BY <2>1, LeastNatural
  <2>3. /\ j \in DOMAIN l /\ j - 1 \in Nat /\ i \in 1..j-1 /\ j - 1 <= n
        /\ l[j].type = "run" /\ l[j].id = r
    BY <1>0 DEF About
  <2>4. i \in A(j - 1)
    BY <1>0, <2>3 DEF About
  <2>5. \A k \in A(j - 1) : k <= i
    <3> TAKE k \in A(j - 1)
    <3>1. k \in A(n) /\ k < j /\ k \in Nat
      BY <1>0, <2>3 DEF About
    <3> QED
      BY <1>0, <2>2, <3>1
  <2>6. StatusAt(l, j - 1, "run", r) = l[i].status
    BY <2>3, <2>4, <2>5, StatusOf
  <2>7. ThreadAt(l, j - 1).runs[r] = l[i].status
    BY <1>0, <2>6, ThreadFields
  <2>8. MayFollow(ThreadAt(l, j - 1), l[j])
    BY <2>3 DEF Histories
  <2>9. l[i].status \notin {"none", "queued", "running"}
    BY DEF TerminalStatus
  <2> QED
    BY <2>3, <2>7, <2>8, <2>9 DEF MayFollow
<1>2. \A k \in A(n) : k <= i
  BY <1>0, <1>1 DEF About
<1> QED
  BY <1>0, <1>2, StatusOf

LEMMA EndedStays ==
  ASSUME NEW l \in Histories, NEW n \in 0..Len(l), NEW m \in 0..n, NEW r \in Runs,
         ThreadAt(l, m).runs[r] \in TerminalStatus
  PROVE  ThreadAt(l, n).runs[r] = ThreadAt(l, m).runs[r]
<1>1. StatusAt(l, m, "run", r) \in TerminalStatus /\ m \in Nat
  BY ThreadFields
<1>2. About(l, m, "run", r) # {}
  BY <1>1, NoStatus DEF TerminalStatus
<1>3. PICK i \in About(l, m, "run", r) : StatusAt(l, m, "run", r) = l[i].status
  BY <1>1, <1>2, LastStatus
<1>4. i \in 1..n /\ l[i].type = "run" /\ l[i].id = r
  BY DEF About
<1>5. StatusAt(l, n, "run", r) = l[i].status
  BY <1>1, <1>3, <1>4, EndStays
<1> QED
  BY <1>3, <1>5, ThreadFields

\* The event of a run's end says how the run ended.
LEMMA EndTells ==
  ASSUME NEW l \in Histories, NEW i \in DOMAIN l, l[i].type = "run", l[i].status \in TerminalStatus
  PROVE  l[i].id \in Runs /\ ThreadAt(l, Len(l)).runs[l[i].id] = l[i].status
<1>1. l \in Seq(Events) /\ Len(l) \in 0..Len(l) /\ i \in 1..Len(l) /\ l[i] \in Events
  BY DEF Histories
<1>2. l[i].id \in Runs
  BY <1>1, EventFields
<1> QED
  BY <1>1, <1>2, EndStays, ThreadFields

\* An event that may follow makes another history.
LEMMA HistoryGrows ==
  ASSUME NEW l \in Histories, NEW e \in Events, MayFollow(ThreadAt(l, Len(l)), e)
  PROVE  Append(l, e) \in Histories
<1>0. PICK m : m = Append(l, e)
  OBVIOUS
<1>1. l \in Seq(Events) /\ Len(l) \in Nat
  BY DEF Histories
<1>2. m \in Seq(Events) /\ DOMAIN m = 1..Len(l)+1 /\ DOMAIN l = 1..Len(l) /\ m[Len(l) + 1] = e
  BY <1>0, <1>1
<1>3. ASSUME NEW i \in DOMAIN m PROVE MayFollow(ThreadAt(m, i - 1), m[i])
  <2>1. i - 1 \in 0..Len(l)
    BY <1>1, <1>2
  <2>2. ThreadAt(m, i - 1) = ThreadAt(l, i - 1)
    BY <1>0, <1>1, <2>1, ThreadAppended
  <2>3. CASE i \in DOMAIN l
    <3>1. m[i] = l[i]
      BY <1>0, <1>1, <2>3
    <3> QED
      BY <2>2, <2>3, <3>1 DEF Histories
  <2>4. CASE i = Len(l) + 1
    <3>1. i - 1 = Len(l)
      BY <1>1, <2>4
    <3> QED
      BY <1>2, <2>2, <2>4, <3>1
  <2> QED
    BY <1>1, <1>2, <2>3, <2>4
<1> QED
  BY <1>0, <1>2, <1>3 DEF Histories

-----------------------------------------------------------------------------
(* The watch *)

FeedItems == [kind : {"none", "snapshot", "event", "decode-error", "turn-settled"}, at : Nat]
FeedStates ==
  [state : {"idle", "open"} \cup Endings, cursor : Int, seeded : BOOLEAN, projected : Int,
   settled : SUBSET Runs, out : Seq(FeedItems), snapshots : Int]

\* An item is about the log as it is, and one that announces the end of a run about that end.
Sound(l, item) ==
  /\ item \in FeedItems /\ item.at <= Len(l)
  /\ item.kind \in {"event", "decode-error", "turn-settled"} => item.at \in DOMAIN l
  /\ item.kind = "turn-settled" =>
       l[item.at].type = "run" /\ l[item.at].status \in TerminalStatus

AllSound(l, items) == \A i \in DOMAIN items : Sound(l, items[i])

FeedInv ==
  /\ log \in Histories /\ Len(log) <= MaxEvents
  /\ feed \in FeedStates
  /\ feed.cursor \in {Off} \cup 0..Len(log) /\ (feed.seeded => feed.cursor # Off)
  /\ feed.projected \in 0..Len(log)
  /\ Len(feed.out) <= 2 /\ AllSound(log, feed.out)

\* The log has grown at its end.
Grown ==
  /\ Len(log') \in Nat /\ Len(log) <= Len(log') /\ log' \in Histories
  /\ \A i \in DOMAIN log : i \in DOMAIN log' /\ log'[i] = log[i]
  /\ \A n \in 0..Len(log) : ThreadAt(log', n) = ThreadAt(log, n)

LEMMA LogTyped == ASSUME NEW l \in Histories
                  PROVE  l \in Seq(Events) /\ Len(l) \in Nat /\ DOMAIN l = 1..Len(l)
BY DEF Histories

LEMMA EmitGrows == ASSUME FeedInv, Emit PROVE Grown /\ Len(log') <= MaxEvents
<1>1. PICK e \in Events : MayFollow(Thread, e) /\ log' = Append(log, e)
  BY DEF Emit
<1>2. log \in Histories /\ log \in Seq(Events) /\ Len(log) \in Nat
  BY LogTyped DEF FeedInv
<1>3. log' \in Histories
  BY <1>1, <1>2, HistoryGrows DEF Thread
<1>4. Len(log') = Len(log) + 1 /\ \A i \in DOMAIN log : i \in DOMAIN log' /\ log'[i] = log[i]
  BY <1>1, <1>2
<1>5. \A n \in 0..Len(log) : ThreadAt(log', n) = ThreadAt(log, n)
  BY <1>1, <1>2, ThreadAppended
<1>6. Len(log) < MaxEvents /\ MaxEvents \in Nat
  BY FeedAssumption DEF Emit
<1> QED
  BY <1>2, <1>3, <1>4, <1>5, <1>6 DEF Grown

LEMMA SameLogGrown == ASSUME FeedInv, UNCHANGED log PROVE Grown
BY LogTyped DEF Grown, FeedInv

LEMMA SoundStays == ASSUME FeedInv, Grown, NEW item, Sound(log, item) PROVE Sound(log', item)
<1>1. Len(log) \in Nat /\ Len(log') \in Nat /\ Len(log) <= Len(log') /\ item.at \in Nat
  BY LogTyped DEF FeedInv, Grown, Sound, FeedItems
<1> QED
  BY <1>1 DEF Sound, Grown

LEMMA AllSoundStays ==
  ASSUME FeedInv, Grown, NEW items, AllSound(log, items) PROVE AllSound(log', items)
BY SoundStays DEF AllSound

LEMMA NoneSound == \A l : AllSound(l, <<>>)
BY DEF AllSound

LEMMA QueuedSound ==
  ASSUME NEW l, NEW items \in Seq(FeedItems), AllSound(l, items)
  PROVE  /\ items # <<>> => Tail(items) \in Seq(FeedItems) /\ AllSound(l, Tail(items)) /\ Sound(l, Head(items))
         /\ \A item \in FeedItems :
              Sound(l, item) => Append(items, item) \in Seq(FeedItems) /\ AllSound(l, Append(items, item))
<1>1. ASSUME items # <<>>
      PROVE  Tail(items) \in Seq(FeedItems) /\ AllSound(l, Tail(items)) /\ Sound(l, Head(items))
  <2>1. /\ Tail(items) \in Seq(FeedItems) /\ Head(items) = items[1] /\ 1 \in DOMAIN items
        /\ \A i \in DOMAIN Tail(items) : i + 1 \in DOMAIN items /\ Tail(items)[i] = items[i + 1]
    BY <1>1
  <2> QED
    BY <2>1 DEF AllSound
<1>2. ASSUME NEW item \in FeedItems, Sound(l, item)
      PROVE  Append(items, item) \in Seq(FeedItems) /\ AllSound(l, Append(items, item))
  <2>1. /\ Append(items, item) \in Seq(FeedItems) /\ DOMAIN Append(items, item) = 1..Len(items)+1
        /\ DOMAIN items = 1..Len(items) /\ Len(items) \in Nat
        /\ \A i \in 1..Len(items) : Append(items, item)[i] = items[i]
        /\ Append(items, item)[Len(items) + 1] = item
    OBVIOUS
  <2> QED
    BY <1>2, <2>1 DEF AllSound
<1> QED
  BY <1>1, <1>2

\* The items that wait go on being sound when the watch yields nothing new.
LEMMA FeedStays ==
  ASSUME FeedInv, Grown, Len(log') <= MaxEvents, feed' \in FeedStates,
         feed'.cursor = feed.cursor, feed'.seeded = feed.seeded, feed'.projected = feed.projected,
         feed'.out = feed.out \/ feed'.out = <<>> \/ (feed.out # <<>> /\ feed'.out = Tail(feed.out))
  PROVE  FeedInv'
<1>1. /\ feed.out \in Seq(FeedItems) /\ Len(log) \in Nat /\ Len(log') \in Nat
      /\ Len(log) <= Len(log') /\ log' \in Histories
  BY LogTyped DEF FeedInv, Grown, FeedStates
<1>2. \A i \in DOMAIN feed.out : Sound(log', feed.out[i])
  BY SoundStays DEF FeedInv, AllSound
<1>3. /\ Len(feed'.out) <= 2
      /\ \A i \in DOMAIN feed'.out : \E j \in DOMAIN feed.out : feed'.out[i] = feed.out[j]
  <2>1. CASE feed'.out = <<>>
    BY <2>1
  <2>2. CASE feed.out # <<>> /\ feed'.out = Tail(feed.out)
    <3>1. /\ Len(Tail(feed.out)) = Len(feed.out) - 1
          /\ \A i \in DOMAIN Tail(feed.out) : i + 1 \in DOMAIN feed.out /\ Tail(feed.out)[i] = feed.out[i + 1]
      BY <1>1, <2>2
    <3> QED
      BY <1>1, <2>2, <3>1 DEF FeedInv
  <2>3. CASE feed'.out = feed.out
    BY <2>3 DEF FeedInv
  <2> QED
    BY <2>1, <2>2, <2>3
<1>4. \A i \in DOMAIN feed'.out : Sound(log', feed'.out[i])
  BY <1>2, <1>3
<1>5. /\ feed'.cursor \in {Off} \cup 0..Len(log') /\ (feed'.seeded => feed'.cursor # Off)
      /\ feed'.projected \in 0..Len(log')
  BY <1>1 DEF FeedInv
<1> QED
  BY <1>1, <1>3, <1>4, <1>5 DEF FeedInv, AllSound

\* The watch yields new items.
LEMMA FeedYields ==
  ASSUME FeedInv, UNCHANGED log, feed' \in FeedStates,
         feed'.cursor \in 0..Len(log) \/ (feed'.cursor = feed.cursor /\ feed.cursor # Off),
         feed'.projected \in 0..Len(log),
         \/ \E a : feed'.out = <<a>> /\ Sound(log, a)
         \/ \E a, b : feed'.out = <<a, b>> /\ Sound(log, a) /\ Sound(log, b)
  PROVE  FeedInv'
<1>1. Len(feed'.out) <= 2 /\ \A i \in DOMAIN feed'.out : Sound(log, feed'.out[i])
  <2>1. ASSUME NEW a, feed'.out = <<a>>, Sound(log, a)
        PROVE  Len(feed'.out) <= 2 /\ \A i \in DOMAIN feed'.out : Sound(log, feed'.out[i])
    BY <2>1
  <2>2. ASSUME NEW a, NEW b, feed'.out = <<a, b>>, Sound(log, a), Sound(log, b)
        PROVE  Len(feed'.out) <= 2 /\ \A i \in DOMAIN feed'.out : Sound(log, feed'.out[i])
    BY <2>2
  <2> QED
    BY <2>1, <2>2
<1>2. \A i \in DOMAIN feed'.out : Sound(log', feed'.out[i])
  BY <1>1 DEF Sound
<1>3. feed'.cursor \in {Off} \cup 0..Len(log) /\ feed'.cursor # Off
  BY LogTyped DEF FeedInv, Off
<1> QED
  BY <1>1, <1>2, <1>3 DEF FeedInv, AllSound

\* Updates of the watch's state.
LEMMA FeedUpdates ==
  ASSUME NEW f \in FeedStates, NEW c \in Int, NEW p \in Int, NEW s \in SUBSET Runs,
         NEW q \in Seq(FeedItems)
  PROVE  /\ [f EXCEPT !.cursor = c, !.projected = p, !.settled = s, !.out = q] \in FeedStates
         /\ [f EXCEPT !.seeded = TRUE, !.projected = p, !.settled = s, !.out = q] \in FeedStates
<1>1. [f EXCEPT !.cursor = c, !.projected = p, !.settled = s, !.out = q] \in FeedStates
  BY DEF FeedStates
<1>2. [f EXCEPT !.seeded = TRUE, !.projected = p, !.settled = s, !.out = q] \in FeedStates
  BY DEF FeedStates
<1> QED
  BY <1>1, <1>2

LEMMA CursorUpdate ==
  ASSUME NEW f \in FeedStates, NEW c \in Int
  PROVE  [f EXCEPT !.cursor = c, !.snapshots = @ + 1] \in FeedStates
<1>1. f.snapshots + 1 \in Int
  BY DEF FeedStates
<1> QED
  BY <1>1 DEF FeedStates

LEMMA SeededFields ==
  ASSUME FeedInv, NEW n \in 0..Len(log)
  PROVE  /\ Seeded(n) \in FeedStates /\ Seeded(n).cursor = feed.cursor
         /\ Seeded(n).projected \in 0..Len(log) /\ Seeded(n).out = <<Item("snapshot", n)>>
         /\ Seeded(n).state = feed.state
         /\ Sound(log, Item("snapshot", n))
<1>1. Len(log) \in Nat /\ feed.projected \in 0..Len(log) /\ feed.projected \in Int /\ n \in Int
  BY LogTyped DEF FeedInv
<1>2. Max({feed.projected, n}) \in 0..Len(log)
  BY <1>1, MaxOfTwo
<1>3. Item("snapshot", n) \in FeedItems /\ Sound(log, Item("snapshot", n))
  BY <1>1 DEF Item, FeedItems, Sound
<1>4. <<Item("snapshot", n)>> \in Seq(FeedItems)
  BY <1>3
<1>5. Settled(ThreadAt(log, n)) \subseteq Runs
  BY DEF Settled
<1>6. feed \in FeedStates /\ feed.settled \cup Settled(ThreadAt(log, n)) \in SUBSET Runs
  BY <1>5 DEF FeedInv, FeedStates
<1>7. Max({feed.projected, n}) \in Int
  BY <1>1, <1>2
<1>8. Seeded(n) \in FeedStates
  BY <1>4, <1>6, <1>7, FeedUpdates DEF Seeded
<1>9. /\ Seeded(n).cursor = feed.cursor /\ Seeded(n).projected = Max({feed.projected, n})
      /\ Seeded(n).out = <<Item("snapshot", n)>> /\ Seeded(n).state = feed.state
  BY <1>6 DEF Seeded, FeedStates
<1> QED
  BY <1>2, <1>3, <1>8, <1>9

LEMMA SnapshotKeeps == ASSUME FeedInv, FeedSnapshot PROVE FeedInv'
<1>1. PICK n \in Max({feed.cursor, feed.projected, 0})..Len(log) :
        feed' = [Seeded(n) EXCEPT !.cursor = n, !.snapshots = @ + 1]
  BY DEF FeedSnapshot
<1>2. n \in 0..Len(log)
  <2>1. /\ feed.cursor \in Int /\ feed.projected \in Int /\ Len(log) \in Nat
    BY LogTyped DEF FeedInv, Off
  <2>2. Max({feed.cursor, feed.projected, 0}) \in Int /\ Max({feed.cursor, feed.projected, 0}) >= 0
    <3> DEFINE S == {feed.cursor, feed.projected, 0}
    <3>1. \E x \in S : \A y \in S : x >= y
      BY <2>1
    <3>2. Max(S) \in S /\ \A y \in S : Max(S) >= y
      BY <3>1 DEF Max
    <3> QED
      BY <2>1, <3>2
  <2> QED
    BY <2>1, <2>2
<1>3. /\ Seeded(n) \in FeedStates /\ Seeded(n).projected \in 0..Len(log)
      /\ Seeded(n).out = <<Item("snapshot", n)>> /\ Sound(log, Item("snapshot", n))
  BY <1>2, SeededFields
<1>4. n \in Int
  BY <1>2
<1>5. /\ feed' \in FeedStates /\ feed'.cursor = n /\ feed'.projected = Seeded(n).projected
      /\ feed'.out = Seeded(n).out
  <2>1. feed' \in FeedStates
    BY <1>1, <1>3, <1>4, CursorUpdate
  <2>2. feed'.cursor = n /\ feed'.projected = Seeded(n).projected /\ feed'.out = Seeded(n).out
    <3> HIDE DEF Seeded
    <3> QED
      BY <1>1, <1>3 DEF FeedStates
  <2> QED
    BY <2>1, <2>2
<1> QED
  BY <1>2, <1>3, <1>4, <1>5, FeedYields DEF FeedSnapshot

LEMMA LoadsKeeps == ASSUME FeedInv, FeedLoads PROVE FeedInv'
<1>1. PICK n \in feed.cursor..Len(log) : feed' = Seeded(n)
  BY DEF FeedLoads
<1>2. n \in 0..Len(log)
  BY LogTyped DEF FeedInv, FeedLoads
<1> QED
  BY <1>1, <1>2, SeededFields, FeedYields DEF FeedLoads

LEMMA EventKeeps == ASSUME FeedInv, FeedEvent PROVE FeedInv'
<1> DEFINE n == feed.cursor + 1
           e == log[n]
           applied == n > feed.projected /\ n \notin Opaque
           settles == applied /\ e.type = "run" /\ e.status \in TerminalStatus
                        /\ e.id \notin feed.settled
           out == IF n \in Opaque THEN <<Item("decode-error", n)>>
                  ELSE IF settles THEN <<Item("event", n), Item("turn-settled", n)>>
                  ELSE <<Item("event", n)>>
<1>1. /\ log \in Seq(Events) /\ Len(log) \in Nat /\ n \in DOMAIN log /\ n \in 1..Len(log)
      /\ feed \in FeedStates /\ feed.projected \in 0..Len(log) /\ UNCHANGED log
  BY LogTyped DEF FeedInv, FeedEvent
<1>2. feed' = [feed EXCEPT !.cursor = n, !.projected = IF applied THEN n ELSE @,
                           !.settled = IF settles THEN @ \cup {e.id} ELSE @, !.out = out]
  BY DEF FeedEvent
<1>3. /\ Sound(log, Item("decode-error", n)) /\ Sound(log, Item("event", n))
      /\ settles => Sound(log, Item("turn-settled", n))
  BY <1>1 DEF Sound, Item, FeedItems
<1>4. settles => e.id \in Runs
  BY <1>1, EventFields
<1>5. \/ \E a : out = <<a>> /\ Sound(log, a)
      \/ \E a, b : out = <<a, b>> /\ Sound(log, a) /\ Sound(log, b)
  BY <1>3
<1>6. out \in Seq(FeedItems)
  <2>1. /\ Item("decode-error", n) \in FeedItems /\ Item("event", n) \in FeedItems
        /\ Item("turn-settled", n) \in FeedItems
    BY <1>1 DEF Item, FeedItems
  <2> QED
    BY <2>1
<1>7. PICK p \in 0..Len(log), s \in SUBSET Runs :
        feed' = [feed EXCEPT !.cursor = n, !.projected = p, !.settled = s, !.out = out]
  <2>1. (IF applied THEN n ELSE feed.projected) \in 0..Len(log)
    BY <1>1
  <2>2. (IF settles THEN feed.settled \cup {e.id} ELSE feed.settled) \in SUBSET Runs
    BY <1>1, <1>4 DEF FeedStates
  <2> QED
    BY <1>2, <1>6, <2>1, <2>2
<1> HIDE DEF out
<1>8. feed' \in FeedStates /\ feed'.cursor = n /\ feed'.projected = p /\ feed'.out = out
  <2>1. n \in Int /\ p \in Int
    BY <1>1
  <2>2. feed' \in FeedStates
    BY <1>1, <1>6, <1>7, <2>1, FeedUpdates
  <2> QED
    BY <1>1, <1>7, <2>2 DEF FeedStates
<1>9. n \in 0..Len(log)
  BY <1>1
<1> QED
  BY <1>1, <1>5, <1>7, <1>8, <1>9, FeedYields

LEMMA StopsKeeps == ASSUME FeedInv, FeedStops PROVE FeedInv'
<1>1. PICK how \in Endings : feed' = [feed EXCEPT !.state = how]
  BY FeedAssumption DEF FeedStops
<1>2. feed' \in FeedStates /\ UNCHANGED log
  BY <1>1 DEF FeedInv, FeedStates, FeedStops
<1> QED
  BY <1>1, <1>2, SameLogGrown, FeedStays DEF FeedInv, FeedStates

LEMMA FeedsKeep == ASSUME FeedInv, Feeds PROVE FeedInv' /\ UNCHANGED log
BY SnapshotKeeps, LoadsKeeps, EventKeeps DEF Feeds, FeedSnapshot, FeedLoads, FeedEvent

LEMMA FeedEmitKeeps == ASSUME FeedInv, Emit PROVE FeedInv' /\ Grown
<1>1. Grown /\ Len(log') <= MaxEvents
  BY EmitGrows
<1> QED
  BY <1>1, FeedStays DEF FeedInv, Emit

LEMMA FeedTyped == FeedInv => FeedTypeOK
BY LogTyped DEF FeedInv, FeedTypeOK, FeedStates, Sound, FeedItems, AllSound

-----------------------------------------------------------------------------
(* The turn *)

Turns == [watch : {"idle", "running", "leaving", "over"}, runId : Runs \cup {NoRun},
          done : BOOLEAN, outcome : Outcomes]
Channels == [state : {"none", "open", "ended", "returned"}, buffer : Seq(FeedItems),
             early : BOOLEAN, last : FeedItems]

\* The run in hand is one that took our message, in the log l.
Ours(l, run) == run \in Runs \cup {NoRun} /\ (run # NoRun => run \in Took(ThreadAt(l, Len(l))))

\* A settled outcome is how a run that took our message ended.
True(l, outcome) ==
  outcome.kind = "settled" =>
    /\ outcome.run \in Runs /\ outcome.run \in Took(ThreadAt(l, Len(l)))
    /\ outcome.state \in TerminalStatus /\ outcome.state = ThreadAt(l, Len(l)).runs[outcome.run]

\* An item that settles the turn with the outcome, in the log l.
Settling(l, item, outcome) ==
  /\ item.kind # "none"
  /\ \/ /\ item.kind = "snapshot" /\ outcome.run \in Settled(ThreadAt(l, item.at))
        /\ outcome = SettledAs(outcome.run, ThreadAt(l, item.at).runs[outcome.run])
     \/ /\ item.kind = "turn-settled" /\ l[item.at].id = outcome.run
        /\ outcome = SettledAs(outcome.run, l[item.at].status)

\* What an iteration of events() has been given, when the turn stands as it does.
ServedAs(l, t, channel) ==
  /\ channel \in Channels /\ Sound(l, channel.last) /\ AllSound(l, channel.buffer)
  /\ channel.state = "none" => ~channel.early
  /\ channel.state = "open" => channel.early /\ t.watch # "over"
  /\ channel.state = "ended" => t.done /\ (channel.early => t.watch = "over")
  /\ channel.state \in {"open", "ended"} /\ channel.early /\ t.outcome.kind = "settled"
       => Settling(l, channel.last, t.outcome)

TurnOK(l, t) ==
  /\ t \in Turns /\ (t.done <=> t.outcome # Pending) /\ (t.done <=> t.watch \in {"leaving", "over"})
  /\ Ours(l, t.runId) /\ True(l, t.outcome)

TurnInv ==
  /\ TurnOK(log, turn)
  /\ channels \in [Consumers -> Channels] /\ \A c \in Consumers : ServedAs(log, turn, channels[c])

HandleInv == FeedInv /\ TurnInv

LEMMA OutcomeKinds ==
  /\ Pending \in Outcomes /\ Pending.kind = "pending"
  /\ \A r \in Runs, s \in TerminalStatus :
       /\ SettledAs(r, s) \in Outcomes /\ SettledAs(r, s) # Pending
       /\ SettledAs(r, s).kind = "settled" /\ SettledAs(r, s).run = r /\ SettledAs(r, s).state = s
  /\ \A w \in {"interrupted", "connection", "rpc"} :
       /\ RejectedAs(w) \in Outcomes /\ RejectedAs(w) # Pending /\ RejectedAs(w).kind = "rejected"
<1>1. Pending.kind = "pending"
  BY DEF Pending
<1>2. \A r, s : /\ SettledAs(r, s).kind = "settled" /\ SettledAs(r, s).run = r
               /\ SettledAs(r, s).state = s
  BY DEF SettledAs
<1>3. \A w : RejectedAs(w).kind = "rejected"
  BY DEF RejectedAs
<1>4. /\ Pending \in Outcomes
      /\ \A r \in Runs, s \in TerminalStatus : SettledAs(r, s) \in Outcomes
      /\ \A w \in {"interrupted", "connection", "rpc"} : RejectedAs(w) \in Outcomes
  BY DEF Outcomes
<1> QED
  BY <1>1, <1>2, <1>3, <1>4

\* What a sound item brings: the run followed stays ours.
LEMMA AdoptsOurs ==
  ASSUME FeedInv, NEW item, Sound(log, item), NEW run, Ours(log, run)
  PROVE  Ours(log, Adopt(run, item))
<1>0. log \in Histories /\ log \in Seq(Events) /\ Len(log) \in Nat /\ Len(log) \in 0..Len(log)
  BY LogTyped DEF FeedInv
<1> DEFINE p == ThreadAt(log, item.at)
<1>1. CASE item.kind = "snapshot"
  <2>1. item.at \in 0..Len(log)
    BY <1>0 DEF Sound, FeedItems
  <2>2. \A r \in Took(p) : r \in Took(ThreadAt(log, Len(log)))
    BY <1>0, <2>1, TookStays
  <2>3. \A r \in Took(p) : r \in Runs
    <3> TAKE r \in Took(p)
    <3>1. CASE r \in OurRuns
      BY <3>1, RunsAreNamed
    <3>2. CASE r = LinkAt(log, item.at) /\ r # NoRun
      <4>1. PICK i \in 1..item.at : log[i].type = "message"
        BY <3>2, NoLink
      <4>2. PICK m \in 1..item.at : log[m].type = "message" /\ LinkAt(log, item.at) = log[m].id
        BY <2>1, <4>1, LastLink
      <4>3. log[m] \in Events
        BY <1>0, <2>1
      <4> QED
        BY <3>2, <4>2, <4>3, EventFields
    <3> QED
      BY <3>1, <3>2, TookFields
  <2>4. CASE Took(p) = {}
    BY <1>1, <2>4 DEF Adopt, Seed
  <2>5. CASE Took(p) # {}
    <3>1. Adopt(run, item) \in Took(p)
      BY <1>1, <2>5 DEF Adopt, Seed
    <3> QED
      BY <2>2, <2>3, <3>1 DEF Ours
  <2> QED
    BY <2>4, <2>5
<1>2. CASE item.kind = "event"
  <2>1. item.at \in DOMAIN log /\ log[item.at] \in Events
    BY <1>0, <1>2 DEF Sound
  <2>2. CASE log[item.at].type = "message" \/ (log[item.at].type = "run" /\ log[item.at].id \in OurRuns)
    <3>1. Adopt(run, item) = log[item.at].id
      BY <1>2, <2>2 DEF Adopt, OnEvent
    <3>2. log[item.at].id \in Took(ThreadAt(log, Len(log)))
      BY <1>0, <2>1, <2>2, EventTells
    <3>3. log[item.at].id \in Runs
      BY <2>1, <2>2, EventFields
    <3> QED
      BY <3>1, <3>2, <3>3 DEF Ours
  <2>3. CASE ~(log[item.at].type = "message" \/ (log[item.at].type = "run" /\ log[item.at].id \in OurRuns))
    BY <1>2, <2>3 DEF Adopt, OnEvent
  <2> QED
    BY <2>2, <2>3
<1>3. CASE item.kind \notin {"snapshot", "event"}
  BY <1>3 DEF Adopt
<1> QED
  BY <1>1, <1>2, <1>3

\* The outcome it brings for that run is true, and the item says it.
LEMMA OutcomeIsTrue ==
  ASSUME FeedInv, NEW item, Sound(log, item), NEW run, Ours(log, run),
         NEW outcome, outcome = OutcomeAfter(item, run)
  PROVE  /\ outcome \in Outcomes /\ True(log, outcome)
         /\ outcome # Pending => outcome.kind = "settled" /\ Settling(log, item, outcome)
<1>0. log \in Histories /\ log \in Seq(Events) /\ Len(log) \in Nat /\ Len(log) \in 0..Len(log)
  BY LogTyped DEF FeedInv
<1>1. CASE item.kind = "snapshot" /\ run \in Settled(ThreadAt(log, item.at))
  <2>1. item.at \in 0..Len(log)
    BY <1>0 DEF Sound, FeedItems
  <2>2. PICK s \in TerminalStatus : run \in Runs /\ ThreadAt(log, item.at).runs[run] = s
    BY <1>1 DEF Settled
  <2>3. ThreadAt(log, Len(log)).runs[run] = s
    BY <1>0, <2>1, <2>2, EndedStays
  <2>4. outcome = SettledAs(run, s)
    BY <1>1, <2>2 DEF OutcomeAfter
  <2>5. outcome \in Outcomes /\ outcome.kind = "settled" /\ outcome.run = run /\ outcome.state = s
    BY <2>2, <2>4, OutcomeKinds
  <2>6. run \in Took(ThreadAt(log, Len(log)))
    BY <2>2, RunsAreNamed DEF Ours
  <2>7. Settling(log, item, outcome)
    BY <1>1, <2>2, <2>4, <2>5 DEF Settling
  <2> QED
    BY <2>2, <2>3, <2>5, <2>6, <2>7 DEF True
<1>2. CASE item.kind = "turn-settled" /\ log[item.at].id = run
  <2>1. PICK s \in TerminalStatus : log[item.at].type = "run" /\ log[item.at].status = s
    BY <1>2 DEF Sound
  <2>2. run \in Runs /\ ThreadAt(log, Len(log)).runs[run] = s
    BY <1>0, <1>2, <2>1, EndTells DEF Sound
  <2>4. outcome = SettledAs(run, s)
    BY <1>2, <2>1 DEF OutcomeAfter
  <2>5. outcome \in Outcomes /\ outcome.kind = "settled" /\ outcome.run = run /\ outcome.state = s
    BY <2>2, <2>4, OutcomeKinds
  <2>6. run \in Took(ThreadAt(log, Len(log)))
    BY <2>2, RunsAreNamed DEF Ours
  <2>7. Settling(log, item, outcome)
    BY <1>2, <2>1, <2>4, <2>5 DEF Settling
  <2> QED
    BY <2>2, <2>5, <2>6, <2>7 DEF True
<1>3. CASE /\ ~(item.kind = "snapshot" /\ run \in Settled(ThreadAt(log, item.at)))
           /\ ~(item.kind = "turn-settled" /\ log[item.at].id = run)
  <2>1. outcome = Pending
    BY <1>3 DEF OutcomeAfter
  <2> QED
    BY <2>1, OutcomeKinds DEF True
<1> QED
  BY <1>1, <1>2, <1>3

\* What is true of a log is true of it when it has grown.
LEMMA GrownKeeps ==
  ASSUME FeedInv, Grown
  PROVE  /\ \A run : Ours(log, run) => Ours(log', run)
         /\ \A outcome : True(log, outcome) => True(log', outcome)
         /\ \A item, outcome : Sound(log, item) /\ Settling(log, item, outcome)
                                 => Settling(log', item, outcome)
<1>0. /\ log \in Histories /\ log' \in Histories /\ Len(log) \in 0..Len(log') /\ Len(log') \in 0..Len(log')
      /\ Len(log) \in Nat /\ Len(log) \in 0..Len(log)
      /\ ThreadAt(log', Len(log)) = ThreadAt(log, Len(log))
  BY LogTyped DEF FeedInv, Grown
<1>1. \A r : r \in Took(ThreadAt(log, Len(log))) => r \in Took(ThreadAt(log', Len(log')))
  BY <1>0, TookStays
<1>2. \A r \in Runs : ThreadAt(log, Len(log)).runs[r] \in TerminalStatus
                        => ThreadAt(log', Len(log')).runs[r] = ThreadAt(log, Len(log)).runs[r]
  BY <1>0, EndedStays
<1>3. \A run : Ours(log, run) => Ours(log', run)
  BY <1>1 DEF Ours
<1>4. \A outcome : True(log, outcome) => True(log', outcome)
  BY <1>1, <1>2 DEF True
<1>5. ASSUME NEW item, NEW outcome, Sound(log, item), Settling(log, item, outcome)
      PROVE  Settling(log', item, outcome)
  <2>1. item.at \in 0..Len(log)
    BY <1>0, <1>5 DEF Sound, FeedItems
  <2>2. ThreadAt(log', item.at) = ThreadAt(log, item.at)
    BY <2>1 DEF Grown
  <2>3. item.kind = "turn-settled" => log'[item.at] = log[item.at]
    BY <1>5 DEF Sound, Grown
  <2> QED
    BY <1>5, <2>2, <2>3 DEF Settling
<1> QED
  BY <1>3, <1>4, <1>5

\* A turn stays as it is while its log grows.
LEMMA TurnStays ==
  ASSUME HandleInv, Grown, UNCHANGED <<turn, channels>>
  PROVE  TurnInv'
<1>1. TurnOK(log', turn)
  BY GrownKeeps DEF HandleInv, TurnInv, TurnOK
<1>2. ASSUME NEW c \in Consumers PROVE ServedAs(log', turn, channels[c])
  <2>1. ServedAs(log, turn, channels[c])
    BY DEF HandleInv, TurnInv
  <2>2. Sound(log', channels[c].last) /\ AllSound(log', channels[c].buffer)
    BY <2>1, SoundStays, AllSoundStays DEF ServedAs, HandleInv
  <2> QED
    BY <2>1, <2>2, GrownKeeps DEF ServedAs, HandleInv
<1> QED
  BY <1>1, <1>2 DEF TurnInv, HandleInv

\* A step of the handle that leaves the log alone.
LEMMA TurnSteps ==
  ASSUME HandleInv, FeedInv', UNCHANGED log, TurnOK(log, turn'),
         channels' \in [Consumers -> Channels],
         \A c \in Consumers : ServedAs(log, turn', channels'[c])
  PROVE  HandleInv'
BY DEF HandleInv, TurnInv

LEMMA StartKeeps ==
  ASSUME HandleInv, UNCHANGED log, Start
  PROVE  /\ FeedInv' /\ TurnOK(log, turn')
         /\ turn'.done = turn.done /\ turn'.outcome = turn.outcome
         /\ turn'.watch = "over" <=> turn.watch = "over"
<1>1. CASE turn.watch # "idle"
  BY <1>1, SameLogGrown, FeedStays DEF Start, HandleInv, TurnInv, FeedInv
<1>2. CASE turn.watch = "idle"
  <2>1. turn' = [turn EXCEPT !.watch = "running"] /\ turn \in Turns
    BY <1>2 DEF Start, HandleInv, TurnInv, TurnOK
  <2>2. /\ turn' \in Turns /\ turn'.done = turn.done /\ turn'.outcome = turn.outcome
        /\ turn'.watch = "running" /\ turn'.runId = turn.runId
    BY <2>1 DEF Turns
  <2>3. PICK s \in {"open", "finished"} : feed' = [feed EXCEPT !.state = s]
    BY <1>2 DEF Start
  <2>4. feed' \in FeedStates
    BY <2>3 DEF HandleInv, FeedInv, FeedStates, Endings
  <2>5. FeedInv'
    BY <2>3, <2>4, SameLogGrown, FeedStays DEF HandleInv, FeedInv, FeedStates
  <2> QED
    BY <1>2, <2>2, <2>5 DEF HandleInv, TurnInv, TurnOK
<1> QED
  BY <1>1, <1>2

\* Who is served stays served while only the state of the watch moves on.
LEMMA ServedStays ==
  ASSUME HandleInv, NEW c \in Consumers, turn'.done = turn.done, turn'.outcome = turn.outcome,
         turn'.watch = "over" <=> turn.watch = "over"
  PROVE  ServedAs(log, turn', channels[c])
BY DEF HandleInv, TurnInv, ServedAs

LEMMA ReadCompletionKeeps == ASSUME HandleInv, ReadCompletion PROVE HandleInv'
<1>1. FeedInv' /\ TurnOK(log, turn') /\ UNCHANGED <<log, channels>>
  BY StartKeeps DEF ReadCompletion
<1>2. \A c \in Consumers : ServedAs(log, turn', channels[c])
  BY StartKeeps, ServedStays DEF ReadCompletion
<1> QED
  BY <1>1, <1>2, TurnSteps DEF HandleInv, TurnInv

LEMMA SubscribeKeeps == ASSUME HandleInv, NEW c \in Consumers, Subscribe(c) PROVE HandleInv'
<1>0. channels \in [Consumers -> Channels] /\ channels[c] \in Channels /\ channels[c].state = "none" /\ UNCHANGED log
  BY DEF HandleInv, TurnInv, Subscribe
<1>1. CASE turn.done
  <2>1. channels' = [channels EXCEPT ![c].state = "ended"] /\ UNCHANGED <<turn, feed>>
    BY <1>1 DEF Subscribe
  <2>2. channels' \in [Consumers -> Channels]
    BY <1>0, <2>1 DEF Channels
  <2>3. FeedInv'
    BY <1>0, <2>1, SameLogGrown, FeedStays DEF HandleInv, FeedInv
  <2>4. ASSUME NEW d \in Consumers PROVE ServedAs(log, turn, channels'[d])
    <3>1. CASE d # c
      BY <2>1, <3>1 DEF HandleInv, TurnInv
    <3>2. CASE d = c
      <4>1. /\ channels'[c].state = "ended" /\ channels'[c].early = channels[c].early
            /\ channels'[c].last = channels[c].last /\ channels'[c].buffer = channels[c].buffer
            /\ channels'[c] \in Channels
        BY <1>0, <2>1, <2>2 DEF Channels
      <4>2. /\ Sound(log, channels[c].last) /\ AllSound(log, channels[c].buffer)
            /\ ~channels[c].early
        BY <1>0 DEF HandleInv, TurnInv, ServedAs
      <4> QED
        BY <1>1, <3>2, <4>1, <4>2 DEF ServedAs
    <3> QED
      BY <3>1, <3>2
  <2> QED
    BY <1>0, <2>1, <2>2, <2>3, <2>4, TurnSteps DEF HandleInv, TurnInv
<1>2. CASE ~turn.done
  <2>1. channels' = [channels EXCEPT ![c].state = "open", ![c].early = TRUE] /\ Start
    BY <1>2 DEF Subscribe
  <2>2. channels' \in [Consumers -> Channels]
    BY <1>0, <2>1 DEF Channels
  <2>3. /\ FeedInv' /\ TurnOK(log, turn') /\ turn'.done = turn.done /\ turn'.outcome = turn.outcome
        /\ turn'.watch = "over" <=> turn.watch = "over"
    BY <1>0, <2>1, StartKeeps
  <2>4. ASSUME NEW d \in Consumers PROVE ServedAs(log, turn', channels'[d])
    <3>1. CASE d # c
      <4>1. channels'[d] = channels[d]
        BY <1>0, <2>1, <3>1
      <4>2. ServedAs(log, turn', channels[d])
        BY <2>3, ServedStays
      <4> QED
        BY <4>1, <4>2
    <3>2. CASE d = c
      <4>1. turn.watch # "over" /\ turn.outcome = Pending
        BY <1>2 DEF HandleInv, TurnInv, TurnOK
      <4>2. turn'.watch # "over" /\ turn'.outcome.kind # "settled"
        BY <2>3, <4>1 DEF Pending
      <4>3. /\ channels'[d].state = "open" /\ channels'[d].early
            /\ channels'[d].last = channels[c].last /\ channels'[d].buffer = channels[c].buffer
        BY <1>0, <2>1, <3>2 DEF Channels
      <4>4. Sound(log, channels[c].last) /\ AllSound(log, channels[c].buffer)
        BY DEF HandleInv, TurnInv, ServedAs
      <4> QED
        BY <2>2, <4>2, <4>3, <4>4 DEF ServedAs
    <3> QED
      BY <3>1, <3>2
  <2> QED
    BY <1>0, <2>2, <2>3, <2>4, TurnSteps
<1> QED
  BY <1>1, <1>2

\* A consumer takes an item, or leaves.
LEMMA ConsumerKeeps ==
  ASSUME HandleInv, NEW c \in Consumers, FeedInv', UNCHANGED <<log, turn>>, channels' \in [Consumers -> Channels],
         \A d \in Consumers : d # c => channels'[d] = channels[d],
         channels'[c].early = channels[c].early /\ channels'[c].last = channels[c].last,
         channels'[c].state \in {channels[c].state, "returned"}, AllSound(log, channels'[c].buffer)
  PROVE  HandleInv'
<1>1. ASSUME NEW d \in Consumers PROVE ServedAs(log, turn, channels'[d])
  <2>1. CASE d # c
    BY <2>1 DEF HandleInv, TurnInv
  <2>2. CASE d = c
    BY <2>2 DEF HandleInv, TurnInv, ServedAs
  <2> QED
    BY <2>1, <2>2
<1> QED
  BY <1>1, TurnSteps DEF HandleInv, TurnInv

LEMMA TakeKeeps == ASSUME HandleInv, NEW c \in Consumers, TakeItem(c) \/ Return(c) PROVE HandleInv'
<1> HandleInv /\ UNCHANGED <<log, feed>> /\ FeedInv'
  BY SameLogGrown, FeedStays DEF HandleInv, FeedInv, TakeItem, Return
<1>0. channels \in [Consumers -> Channels] /\ channels[c] \in Channels
  BY DEF HandleInv, TurnInv
<1>1. CASE TakeItem(c)
  <2>1. channels' = [channels EXCEPT ![c].buffer = Tail(@)] /\ channels[c].buffer # <<>>
    BY <1>1 DEF TakeItem
  <2>2. Tail(channels[c].buffer) \in Seq(FeedItems) /\ AllSound(log, Tail(channels[c].buffer))
    BY <1>0, <2>1, QueuedSound DEF Channels, HandleInv, TurnInv, ServedAs
  <2>3. channels' \in [Consumers -> Channels]
    BY <1>0, <2>1, <2>2 DEF Channels
  <2>4. /\ \A d \in Consumers : d # c => channels'[d] = channels[d]
        /\ channels'[c].early = channels[c].early /\ channels'[c].last = channels[c].last
        /\ channels'[c].state = channels[c].state /\ channels'[c].buffer = Tail(channels[c].buffer)
    BY <1>0, <2>1 DEF Channels
  <2>5. UNCHANGED <<log, feed, turn>>
    BY <1>1 DEF TakeItem
  <2> QED
    BY <2>2, <2>3, <2>4, <2>5, ConsumerKeeps
<1>2. CASE Return(c)
  <2>1. channels' = [channels EXCEPT ![c].state = "returned", ![c].buffer = <<>>]
    BY <1>2 DEF Return
  <2>2. channels' \in [Consumers -> Channels]
    BY <1>0, <2>1, EmptySequence DEF Channels
  <2>4. /\ \A d \in Consumers : d # c => channels'[d] = channels[d]
        /\ channels'[c].early = channels[c].early /\ channels'[c].last = channels[c].last
        /\ channels'[c].state = "returned" /\ channels'[c].buffer = <<>>
    BY <1>0, <2>1 DEF Channels
  <2>5. UNCHANGED <<log, feed, turn>>
    BY <1>2 DEF Return
  <2> QED
    BY <2>2, <2>4, <2>5, ConsumerKeeps, NoneSound
<1> QED
  BY <1>1, <1>2

LEMMA PushGives ==
  ASSUME NEW c \in Consumers, channels \in [Consumers -> Channels], NEW item \in FeedItems,
         Sound(log, item), AllSound(log, channels[c].buffer)
  PROVE  /\ Push(item)[c] \in Channels /\ AllSound(log, Push(item)[c].buffer)
         /\ channels[c].state # "open" => Push(item)[c] = channels[c]
         /\ channels[c].state = "open" =>
              Push(item)[c].state = "open" /\ Push(item)[c].early = channels[c].early /\ Push(item)[c].last = item
<1>1. /\ channels[c] \in Channels /\ Append(channels[c].buffer, item) \in Seq(FeedItems)
      /\ AllSound(log, Append(channels[c].buffer, item))
  BY QueuedSound DEF Channels
<1> QED
  BY <1>1 DEF Push, Channels

LEMMA TrackKeeps == ASSUME HandleInv, Track PROVE HandleInv'
<1> DEFINE item == Head(feed.out)
           runId == Adopt(turn.runId, item)
           out == OutcomeAfter(item, runId)
<1>1. feed.out # <<>> /\ feed \in FeedStates /\ feed.out \in Seq(FeedItems) /\ turn \in Turns
  BY DEF Track, HandleInv, FeedInv, FeedStates, TurnInv, TurnOK
<1>2. Sound(log, item) /\ item \in FeedItems
  <2>1. 1 \in DOMAIN feed.out /\ item = feed.out[1]
    BY <1>1
  <2> QED
    BY <2>1 DEF HandleInv, FeedInv, Sound, AllSound
<1>3. Ours(log, runId)
  BY <1>2, AdoptsOurs DEF HandleInv, TurnInv, TurnOK
<1>4. /\ out \in Outcomes /\ True(log, out)
      /\ out # Pending => out.kind = "settled" /\ Settling(log, item, out)
  BY <1>2, <1>3, OutcomeIsTrue DEF HandleInv
<1> HIDE DEF out, runId, item
<1>5. /\ turn' = [turn EXCEPT !.runId = runId, !.done = (out # Pending), !.outcome = out,
                              !.watch = IF out # Pending THEN "leaving" ELSE "running"]
      /\ channels' = Push(item) /\ feed' = [feed EXCEPT !.out = Tail(@)] /\ UNCHANGED log
      /\ turn.watch = "running"
  BY DEF Track, item, runId, out, Pushed
<1>6. FeedInv'
  <2>1. Tail(feed.out) \in Seq(FeedItems)
    BY <1>1
  <2>2. feed' \in FeedStates
    BY <1>1, <1>5, <2>1 DEF FeedStates
  <2> QED
    BY <1>1, <1>5, <2>2, SameLogGrown, FeedStays DEF HandleInv, FeedInv, FeedStates
<1>7. /\ turn' \in Turns /\ turn'.runId = runId /\ turn'.done = (out # Pending) /\ turn'.outcome = out
      /\ turn'.watch = IF out # Pending THEN "leaving" ELSE "running"
  <2>1. runId \in Runs \cup {NoRun}
    BY <1>3 DEF Ours
  <2> QED
    BY <1>1, <1>4, <1>5, <2>1 DEF Turns
<1>8. TurnOK(log, turn')
  BY <1>3, <1>4, <1>7 DEF TurnOK
<1>9. channels \in [Consumers -> Channels]
  BY DEF HandleInv, TurnInv
<1>10. channels' \in [Consumers -> Channels]
  <2>1. \A c \in Consumers : Push(item)[c] \in Channels
    BY <1>2, <1>9, PushGives DEF HandleInv, TurnInv, ServedAs
  <2>2. Push(item) = [c \in Consumers |-> Push(item)[c]]
    BY DEF Push
  <2> QED
    BY <1>5, <2>1, <2>2
<1>11. ASSUME NEW c \in Consumers PROVE ServedAs(log, turn', channels'[c])
  <2>0. ServedAs(log, turn, channels[c]) /\ ~turn.done
    BY <1>5 DEF HandleInv, TurnInv, TurnOK
  <2>1. CASE channels[c].state # "open"
    <3>1. channels'[c] = channels[c] /\ channels[c].state # "ended"
      BY <1>2, <1>5, <1>9, <2>0, <2>1, PushGives DEF ServedAs
    <3> QED
      BY <2>0, <2>1, <3>1 DEF ServedAs
  <2>2. CASE channels[c].state = "open"
    <3>1. /\ channels'[c] \in Channels /\ channels'[c].state = "open" /\ channels'[c].early
          /\ channels'[c].last = item /\ AllSound(log, channels'[c].buffer)
      BY <1>2, <1>5, <1>9, <2>0, <2>2, PushGives DEF ServedAs
    <3>2. turn'.watch # "over" /\ (turn'.outcome.kind = "settled" => Settling(log, item, turn'.outcome))
      BY <1>4, <1>7 DEF Pending
    <3> QED
      BY <1>2, <3>1, <3>2 DEF ServedAs
  <2> QED
    BY <2>1, <2>2
<1> QED
  BY <1>5, <1>6, <1>8, <1>10, <1>11, TurnSteps

LEMMA EndChannelsGives ==
  ASSUME NEW c \in Consumers, channels \in [Consumers -> Channels]
  PROVE  /\ EndChannels[c] \in Channels
         /\ EndChannels[c].early = channels[c].early /\ EndChannels[c].last = channels[c].last
         /\ EndChannels[c].buffer = channels[c].buffer
         /\ EndChannels[c].state = IF channels[c].state = "open" THEN "ended" ELSE channels[c].state
BY DEF EndChannels, Channels

\* The finally block: every channel that is open ends, with what it was given.
LEMMA EndKeeps ==
  ASSUME HandleInv, FeedInv', UNCHANGED log, TurnOK(log, turn'), channels' = EndChannels,
         turn'.watch = "over",
         turn.outcome = turn'.outcome \/ (turn.outcome = Pending /\ turn'.outcome.kind # "settled")
  PROVE  HandleInv'
<1>1. channels \in [Consumers -> Channels]
  BY DEF HandleInv, TurnInv
<1>2. channels' \in [Consumers -> Channels]
  <2>1. \A c \in Consumers : EndChannels[c] \in Channels
    BY <1>1, EndChannelsGives
  <2>2. EndChannels = [c \in Consumers |-> EndChannels[c]]
    BY DEF EndChannels
  <2> QED
    BY <2>1, <2>2
<1>3. ASSUME NEW c \in Consumers PROVE ServedAs(log, turn', channels'[c])
  <2>1. /\ channels'[c] \in Channels
        /\ channels'[c].early = channels[c].early /\ channels'[c].last = channels[c].last
        /\ channels'[c].buffer = channels[c].buffer
        /\ channels'[c].state = IF channels[c].state = "open" THEN "ended" ELSE channels[c].state
    BY <1>1, EndChannelsGives
  <2>2. ServedAs(log, turn, channels[c])
    BY DEF HandleInv, TurnInv
  <2>3. turn'.done
    BY DEF TurnOK
  <2> QED
    BY <2>1, <2>2, <2>3 DEF ServedAs
<1> QED
  BY <1>2, <1>3, TurnSteps

LEMMA LeaveKeeps == ASSUME HandleInv, Leave PROVE HandleInv'
<1>1. turn \in Turns /\ turn' = [turn EXCEPT !.watch = "over"] /\ turn.watch = "leaving" /\ UNCHANGED log
  BY DEF Leave, HandleInv, TurnInv, TurnOK
<1>2. /\ turn' \in Turns /\ turn'.watch = "over" /\ turn'.outcome = turn.outcome
      /\ turn'.done = turn.done /\ turn'.runId = turn.runId
  BY <1>1 DEF Turns
<1>3. TurnOK(log, turn')
  BY <1>1, <1>2 DEF HandleInv, TurnInv, TurnOK
<1>4. FeedInv'
  <2>1. feed' = [feed EXCEPT !.state = "finished", !.out = <<>>] /\ feed \in FeedStates
    BY DEF Leave, HandleInv, FeedInv
  <2>2. feed' \in FeedStates
    BY <2>1, EmptySequence DEF FeedStates, Endings
  <2> QED
    BY <1>1, <2>1, <2>2, SameLogGrown, FeedStays DEF HandleInv, FeedInv, FeedStates
<1> QED
  BY <1>1, <1>2, <1>3, <1>4, EndKeeps DEF Leave

LEMMA WatchStopsKeeps == ASSUME HandleInv, WatchStops PROVE HandleInv'
<1>1. PICK why \in {"interrupted", "connection", "rpc"} :
        turn' = [turn EXCEPT !.watch = "over", !.done = TRUE, !.outcome = RejectedAs(why)]
  BY DEF WatchStops, Endings
<1>2. turn \in Turns /\ turn.watch = "running" /\ UNCHANGED <<log, feed>>
  BY DEF WatchStops, HandleInv, TurnInv, TurnOK
<1>3. RejectedAs(why) \in Outcomes /\ RejectedAs(why) # Pending /\ RejectedAs(why).kind = "rejected"
  BY OutcomeKinds
<1>4. /\ turn' \in Turns /\ turn'.watch = "over" /\ turn'.outcome = RejectedAs(why)
      /\ turn'.done = TRUE /\ turn'.runId = turn.runId
  BY <1>1, <1>2, <1>3 DEF Turns
<1>5. TurnOK(log, turn')
  BY <1>2, <1>3, <1>4 DEF HandleInv, TurnInv, TurnOK, True
<1>6. FeedInv'
  BY <1>2, SameLogGrown, FeedStays DEF HandleInv, FeedInv
<1>7. turn.outcome = Pending
  BY <1>2 DEF HandleInv, TurnInv, TurnOK
<1> QED
  BY <1>2, <1>3, <1>4, <1>5, <1>6, <1>7, EndKeeps DEF WatchStops

LEMMA AbortKeeps == ASSUME HandleInv, Abort PROVE HandleInv'
<1>1. PICK s \in {"idle", "open"} \cup Endings : feed' = [feed EXCEPT !.state = s]
  BY DEF Abort, HandleInv, FeedInv, FeedStates, Endings
<1>2. feed' \in FeedStates /\ UNCHANGED <<log, turn, channels>>
  BY <1>1 DEF HandleInv, FeedInv, FeedStates, Abort
<1>3. FeedInv'
  BY <1>1, <1>2, SameLogGrown, FeedStays DEF HandleInv, FeedInv, FeedStates
<1> QED
  BY <1>2, <1>3, SameLogGrown, TurnStays DEF HandleInv

\* The server writes, or the watch hands over or stops, and the handle is left alone.
LEMMA WorldKeeps == ASSUME HandleInv, UNCHANGED turnVars, Emit \/ FeedStops \/ Feeds PROVE HandleInv'
<1>1. FeedInv' /\ Grown
  <2>1. CASE Emit
    BY <2>1, FeedEmitKeeps DEF HandleInv
  <2>2. CASE FeedStops
    BY <2>2, StopsKeeps, SameLogGrown DEF HandleInv, FeedStops
  <2>3. CASE Feeds
    BY <2>3, FeedsKeep, SameLogGrown DEF HandleInv
  <2> QED
    BY <2>1, <2>2, <2>3
<1> QED
  BY <1>1, TurnStays DEF HandleInv, turnVars

LEMMA HandleStep == ASSUME HandleInv, [TurnNext]_feedAndTurn PROVE HandleInv'
<1>1. CASE World \/ Reads
  BY <1>1, WorldKeeps DEF World, Reads
<1>2. CASE User
  BY <1>2, ReadCompletionKeeps, AbortKeeps, SubscribeKeeps, TakeKeeps DEF User
<1>3. CASE Work
  BY <1>3, TrackKeeps, LeaveKeeps, WatchStopsKeeps DEF Work
<1>4. CASE UNCHANGED feedAndTurn
  BY <1>4, SameLogGrown, FeedStays, TurnStays DEF feedAndTurn, turnVars, HandleInv, FeedInv
<1> QED
  BY <1>1, <1>2, <1>3, <1>4 DEF TurnNext

LEMMA TurnInitInv == ASSUME FeedInv, HandleInit PROVE TurnInv
<1>1. turn = [watch |-> "idle", runId |-> NoRun, done |-> FALSE, outcome |-> Pending]
  BY DEF HandleInit
<1>2. turn \in Turns /\ turn.runId = NoRun /\ ~turn.done /\ turn.outcome = Pending /\ turn.watch = "idle"
  BY <1>1, OutcomeKinds DEF Turns
<1>3. TurnOK(log, turn)
  BY <1>2, OutcomeKinds DEF TurnOK, Ours, True
<1>4. /\ NewChannel \in Channels /\ NewChannel.state = "none" /\ ~NewChannel.early
      /\ NewChannel.last = Item("none", 0) /\ NewChannel.buffer = <<>>
  BY EmptySequence DEF NewChannel, Channels, Item, FeedItems
<1>5. Sound(log, Item("none", 0))
  BY LogTyped DEF Item, Sound, FeedItems, FeedInv
<1>6. ServedAs(log, turn, NewChannel)
  BY <1>4, <1>5, NoneSound DEF ServedAs
<1>7. channels = [c \in Consumers |-> NewChannel]
  BY DEF HandleInit
<1> QED
  BY <1>3, <1>4, <1>6, <1>7 DEF TurnInv

LEMMA NewFeedInv ==
  ASSUME log \in InitialLogs, NEW cursor \in {Off} \cup 0..Len(log), feed = NewFeed(cursor)
  PROVE  FeedInv
<1>1. log \in Histories /\ Len(log) <= MaxEvents /\ Len(log) \in Nat
  BY LogsAssumption, LogTyped
<1>2. /\ feed.out = <<>> /\ ~feed.seeded /\ feed.cursor = cursor /\ feed.projected = 0
      /\ feed \in FeedStates
  BY <1>1 DEF NewFeed, FeedStates, Off
<1> QED
  BY <1>1, <1>2 DEF FeedInv, AllSound

LEMMA HandleStarts == TurnInit => HandleInv
<1> SUFFICES ASSUME TurnInit PROVE HandleInv
  OBVIOUS
<1>1. Len(log) \in {Off} \cup 0..Len(log)
  BY LogsAssumption, LogTyped DEF TurnInit
<1> QED
  BY <1>1, NewFeedInv, TurnInitInv DEF TurnInit, HandleInv

LEMMA HandleInvCorrect == TurnSpec => []HandleInv
<1>1. HandleInv /\ [TurnNext]_feedAndTurn => HandleInv'
  BY HandleStep
<1> QED
  BY <1>1, HandleStarts, PTL DEF TurnSpec

-----------------------------------------------------------------------------
(* Theorems *)

\* A turn follows the run the server linked its message to, and no other, and its outcome
\* is how that run ended (turnAdoption.ts:4-8).
THEOREM FollowsOurRunCorrect == TurnSpec => []FollowsOurRun
<1>1. HandleInv => FollowsOurRun
  BY DEF HandleInv, TurnInv, TurnOK, Ours, True, FollowsOurRun, Thread
<1> QED
  BY <1>1, HandleInvCorrect, PTL

\* Every iteration of events() is released when the turn is over, and one that was there
\* when the run settled was last given the item that says so (turns.ts:155-166, 206-210).
THEOREM ConsumersServedCorrect == TurnSpec => []ConsumersServed
<1>1. ASSUME HandleInv PROVE ConsumersServed
  <2>1. TurnTypeOK
    BY <1>1, FeedTyped DEF HandleInv, TurnInv, TurnOK, Turns, Channels, TurnTypeOK
  <2>2. ConsumersReleased
    BY <1>1 DEF HandleInv, TurnInv, ServedAs, ConsumersReleased
  <2>3. ASSUME NEW c \in Consumers, channels[c].state = "ended", channels[c].early,
               turn.outcome.kind = "settled"
        PROVE  SettlingItem(channels[c].last)
    <3>1. Settling(log, channels[c].last, turn.outcome)
      BY <1>1, <2>3 DEF HandleInv, TurnInv, ServedAs
    <3> QED
      BY <3>1 DEF Settling, SettlingItem, OutcomeAfter
  <2> QED
    BY <2>1, <2>2, <2>3 DEF ConsumersServed, LastItemSettles
<1> QED
  BY <1>1, HandleInvCorrect, PTL

\* The completion promise settles once: no later item, end of the watch or abort changes
\* the outcome (turns.ts:195-203, 229-233).
THEOREM OutcomeIsFinalCorrect == TurnSpec => OutcomeIsFinal
<1>1. ASSUME HandleInv, [TurnNext]_feedAndTurn PROVE [turn.outcome # Pending => turn'.outcome = turn.outcome]_feedAndTurn
  <2>0. turn \in Turns /\ (turn.outcome # Pending => turn.watch \in {"leaving", "over"})
    BY <1>1 DEF HandleInv, TurnInv, TurnOK
  <2>1. CASE World \/ Reads \/ UNCHANGED feedAndTurn
    BY <2>1 DEF World, Reads, turnVars, feedAndTurn
  <2>2. CASE User
    <3>1. turn'.outcome = turn.outcome
      BY <2>0, <2>2 DEF User, ReadCompletion, Abort, Subscribe, TakeItem, Return, Start, Turns
    <3> QED
      BY <3>1
  <2>3. CASE Work
    BY <2>0, <2>3 DEF Work, Track, Leave, WatchStops, Turns
  <2> QED
    BY <1>1, <2>1, <2>2, <2>3 DEF TurnNext
<1> QED
  BY <1>1, HandleInvCorrect, PTL DEF TurnSpec, OutcomeIsFinal

-----------------------------------------------------------------------------
(* What a log says of the runs and the requests the command follows *)

LEMMA TookRuns ==
  ASSUME NEW l \in Histories, NEW n \in 0..Len(l), NEW r \in Took(ThreadAt(l, n))
  PROVE  r \in Runs
<1>0. l \in Seq(Events) /\ n \in Nat
  BY LogTyped
<1>1. CASE r \in OurRuns
  BY <1>1, RunsAreNamed
<1>2. CASE r = LinkAt(l, n) /\ r # NoRun
  <2>1. PICK i \in 1..n : l[i].type = "message"
    BY <1>2, NoLink
  <2>2. PICK m \in 1..n : l[m].type = "message" /\ LinkAt(l, n) = l[m].id
    BY <1>0, <2>1, LastLink
  <2>3. l[m] \in Events
    BY <1>0
  <2> QED
    BY <1>2, <2>2, <2>3, EventFields
<1> QED
  BY <1>1, <1>2, TookFields

\* The event after which a run has taken our message is about that run, and none had before.
LEMMA TakingEvent ==
  ASSUME NEW l \in Histories, NEW i \in DOMAIN l, NEW r \in Took(ThreadAt(l, i)),
         r \notin Took(ThreadAt(l, i - 1))
  PROVE  l[i].id = r /\ Took(ThreadAt(l, i - 1)) = {}
<1>0. /\ l \in Seq(Events) /\ i \in Nat /\ i - 1 \in Nat /\ i \in 0..Len(l) /\ i - 1 \in 0..Len(l)
      /\ i \in 1..i /\ 1..i = 1..(i - 1) \cup {i} /\ MayFollow(ThreadAt(l, i - 1), l[i])
  BY LogTyped DEF Histories
<1>1. CASE r \in OurRuns /\ StatusAt(l, i, "run", r) # "none"
  <2>1. StatusAt(l, i - 1, "run", r) = "none" /\ About(l, i - 1, "run", r) = {}
    BY <1>0, <1>1, RunKnown, TookFields
  <2>2. About(l, i, "run", r) # {}
    BY <1>1, NoStatus
  <2>3. l[i].type = "run" /\ l[i].id = r
    BY <1>0, <2>1, <2>2 DEF About
  <2>4. ThreadAt(l, i - 1).runs[r] = "none"
    BY <1>1, <2>1, ThreadFields, RunsAreNamed
  <2> QED
    BY <1>0, <1>1, <2>3, <2>4 DEF MayFollow
<1>2. CASE r = LinkAt(l, i) /\ r # NoRun
  <2>1. PICK j \in 1..i : l[j].type = "message"
    BY <1>2, NoLink
  <2>2. LinkAt(l, i) = l[j].id
    BY <1>0, <2>1, LinkStays
  <2>3. j # i => LinkAt(l, i - 1) = l[j].id
    BY <1>0, <2>1, LinkStays
  <2>4. j = i
    BY <1>2, <2>2, <2>3, TookFields
  <2> QED
    BY <1>0, <1>2, <2>1, <2>2, <2>4 DEF MayFollow
<1> QED
  BY <1>1, <1>2, TookFields

LEMMA NoneTookYet == ASSUME NEW l PROVE Took(ThreadAt(l, 0)) = {}
<1>1. \A r : StatusAt(l, 0, "run", r) = "none"
  BY NoStatus DEF About
<1>2. LinkAt(l, 0) = NoRun
  BY NoLink
<1> QED
  BY <1>1, <1>2, TookFields

\* One run takes our message.
LEMMA TookOne ==
  ASSUME NEW l \in Histories, NEW n \in 0..Len(l), NEW r \in Took(ThreadAt(l, n)), NEW s \in Took(ThreadAt(l, n))
  PROVE  r = s
<1>0. l \in Seq(Events) /\ n \in Nat /\ Len(l) \in Nat
  BY LogTyped
<1>1. ASSUME NEW t \in Took(ThreadAt(l, n))
      PROVE  \E i \in 1..n : l[i].id = t /\ Took(ThreadAt(l, i - 1)) = {} /\ t \in Took(ThreadAt(l, i))
  <2> DEFINE S == {k \in 0..n : t \in Took(ThreadAt(l, k))}
  <2>1. S \in SUBSET Nat /\ n \in S
    BY <1>0, <1>1
  <2>2. PICK i \in S : \A k \in S : i <= k
    BY <2>1, LeastNatural
  <2>3. i # 0
    BY <2>2, NoneTookYet
  <2>4. i \in 1..n /\ i \in DOMAIN l /\ i - 1 \in 0..n
    BY <1>0, <2>2, <2>3
  <2>5. t \notin Took(ThreadAt(l, i - 1))
    BY <1>0, <2>2, <2>4
  <2> QED
    BY <2>2, <2>4, <2>5, TakingEvent
<1>2. ASSUME NEW i \in 1..n, NEW j \in 1..n, i < j, Took(ThreadAt(l, j - 1)) = {},
             NEW t \in Took(ThreadAt(l, i))
      PROVE  FALSE
  <2>1. i \in 0..(j - 1) /\ j - 1 \in 0..Len(l)
    BY <1>0, <1>2
  <2> QED
    BY <1>2, <2>1, TookStays
<1>3. PICK i \in 1..n : l[i].id = r /\ Took(ThreadAt(l, i - 1)) = {} /\ r \in Took(ThreadAt(l, i))
  BY <1>1
<1>4. PICK j \in 1..n : l[j].id = s /\ Took(ThreadAt(l, j - 1)) = {} /\ s \in Took(ThreadAt(l, j))
  BY <1>1
<1>5. i = j
  BY <1>0, <1>2, <1>3, <1>4
<1> QED
  BY <1>3, <1>4, <1>5

\* The runs that a log speaks of are finitely many.
Bounds(l, b, n) == \A i \in 1..n : l[i].type = "run" => l[i].id <= b

LEMMA RunsBounded ==
  ASSUME NEW l \in Seq(Events)
  PROVE  \E b \in Nat : Bounds(l, b, Len(l))
<1> DEFINE S == {n \in 0..Len(l) : ~(\E b \in Nat : Bounds(l, b, n))}
<1>0. Len(l) \in Nat
  OBVIOUS
<1>1. ASSUME NEW i \in 1..Len(l), l[i].type = "run" PROVE l[i].id \in Nat
  <2>1. l[i] \in Events
    OBVIOUS
  <2>2. l[i].id \in Runs
    BY <1>1, <2>1, EventFields
  <2> QED
    BY <2>2, FeedAssumption
<1>2. ASSUME NEW n \in S PROVE FALSE
  <2>1. S \in SUBSET Nat /\ S # {}
    BY <1>0, <1>2
  <2> HIDE DEF S
  <2>2. PICK m \in S : \A k \in S : m <= k
    BY <2>1, LeastNatural
  <2>3. m \in 0..Len(l) /\ m \in Nat /\ ~(\E b \in Nat : Bounds(l, b, m))
    BY <1>0, <2>2 DEF S
  <2>4. m # 0
    <3>1. Bounds(l, 0, 0)
      BY DEF Bounds
    <3> QED
      BY <2>3, <3>1
  <2>5. m - 1 \in 0..Len(l) /\ ~(m <= m - 1) /\ m \in 1..Len(l)
    BY <1>0, <2>3, <2>4
  <2>6. m - 1 \notin S
    BY <2>2, <2>5
  <2>7. PICK b \in Nat : Bounds(l, b, m - 1)
    BY <2>5, <2>6 DEF S
  <2>8. PICK c \in Nat : c >= b /\ (l[m].type = "run" => l[m].id <= c)
    <3>1. CASE l[m].type = "run"
      <4>1. PICK d : d = l[m].id
        OBVIOUS
      <4>2. d \in Nat
        BY <1>1, <2>5, <3>1, <4>1
      <4>3. b + d \in Nat /\ b + d >= b /\ d <= b + d
        BY <4>2
      <4> QED
        BY <4>1, <4>3
    <3>2. CASE l[m].type # "run"
      BY <3>2
    <3> QED
      BY <3>1, <3>2
  <2>9. ASSUME NEW i \in 1..m, l[i].type = "run" PROVE l[i].id <= c
    <3>1. CASE i = m
      BY <2>8, <2>9, <3>1
    <3>2. CASE i # m
      <4>1. i \in 1..(m - 1) /\ i \in 1..Len(l)
        BY <2>3, <2>5, <3>2
      <4>2. l[i].id <= b /\ l[i].id \in Nat
        BY <1>1, <2>7, <2>9, <4>1 DEF Bounds
      <4> QED
        BY <2>8, <4>2
    <3> QED
      BY <3>1, <3>2
  <2>10. Bounds(l, c, m)
    BY <2>9 DEF Bounds
  <2> QED
    BY <2>3, <2>10
<1> QED
  BY <1>0, <1>2

\* What the log says of a thread is a thread.
Threads == [runs : [Runs -> RunStatus], message : Runs \cup {NoRun},
            requests : [Requests -> {"none", "pending", "resolved"}], items : SUBSET Requests]

LEMMA ThreadTyped ==
  ASSUME NEW l \in Seq(Events), NEW n \in 0..Len(l)
  PROVE  ThreadAt(l, n) \in Threads
<1>0. n \in Nat /\ \A i \in 1..n : l[i] \in Events
  OBVIOUS
<1>1. ASSUME NEW r \in Runs PROVE StatusAt(l, n, "run", r) \in RunStatus
  <2>1. CASE About(l, n, "run", r) = {}
    BY <2>1, NoStatus DEF RunStatus
  <2>2. CASE About(l, n, "run", r) # {}
    <3>1. PICK m \in About(l, n, "run", r) : StatusAt(l, n, "run", r) = l[m].status
      BY <1>0, <2>2, LastStatus
    <3>2. l[m] \in Events /\ l[m].type = "run"
      BY <1>0 DEF About
    <3> QED
      BY <3>1, <3>2, EventFields
  <2> QED
    BY <2>1, <2>2
<1>2. ASSUME NEW q \in Requests PROVE StatusAt(l, n, "request", q) \in {"none", "pending", "resolved"}
  <2>1. CASE About(l, n, "request", q) = {}
    BY <2>1, NoStatus
  <2>2. CASE About(l, n, "request", q) # {}
    <3>1. PICK m \in About(l, n, "request", q) : StatusAt(l, n, "request", q) = l[m].status
      BY <1>0, <2>2, LastStatus
    <3>2. l[m] \in Events /\ l[m].type = "request"
      BY <1>0 DEF About
    <3> QED
      BY <3>1, <3>2, EventFields
  <2> QED
    BY <2>1, <2>2
<1>3. LinkAt(l, n) \in Runs \cup {NoRun}
  <2>1. CASE LinkAt(l, n) # NoRun
    <3>1. PICK i \in 1..n : l[i].type = "message"
      BY <2>1, NoLink
    <3>2. PICK m \in 1..n : l[m].type = "message" /\ LinkAt(l, n) = l[m].id
      BY <1>0, <3>1, LastLink
    <3> QED
      BY <1>0, <3>2, EventFields
  <2> QED
    BY <2>1
<1> QED
  BY <1>1, <1>2, <1>3 DEF ThreadAt, Threads


LEMMA RunStays ==
  ASSUME NEW l \in Seq(Events), NEW n \in 0..Len(l), NEW m \in 0..n, NEW r \in Runs,
         ThreadAt(l, m).runs[r] # "none"
  PROVE  ThreadAt(l, n).runs[r] # "none"
<1>1. StatusAt(l, m, "run", r) # "none" /\ m \in 0..Len(l) /\ 1..m \subseteq 1..n
  BY ThreadFields
<1>2. About(l, m, "run", r) # {}
  BY <1>1, NoStatus
<1>3. About(l, n, "run", r) # {}
  BY <1>1, <1>2 DEF About
<1>4. StatusAt(l, n, "run", r) # "none"
  BY <1>3, RunKnown
<1> QED
  BY <1>4, ThreadFields

\* The item of a request stays known once it was told.
LEMMA ItemKnown ==
  ASSUME NEW l \in Seq(Events), NEW n \in 0..Len(l), NEW q \in Requests
  PROVE  q \in ThreadAt(l, n).items <=> About(l, n, "item", q) # {}
<1>0. n \in Nat /\ (q \in ThreadAt(l, n).items <=> StatusAt(l, n, "item", q) = "known")
  BY DEF ThreadAt
<1>1. ASSUME About(l, n, "item", q) # {} PROVE StatusAt(l, n, "item", q) = "known"
  <2>1. PICK m \in About(l, n, "item", q) : StatusAt(l, n, "item", q) = l[m].status
    BY <1>0, <1>1, LastStatus
  <2>2. l[m] \in Events /\ l[m].type = "item"
    BY DEF About
  <2> QED
    BY <2>1, <2>2, EventFields
<1>2. About(l, n, "item", q) = {} => StatusAt(l, n, "item", q) = "none"
  BY NoStatus
<1> QED
  BY <1>0, <1>1, <1>2

LEMMA ItemStays ==
  ASSUME NEW l \in Seq(Events), NEW n \in 0..Len(l), NEW m \in 0..n
  PROVE  ThreadAt(l, m).items \subseteq ThreadAt(l, n).items
<1>1. ASSUME NEW q \in ThreadAt(l, m).items PROVE q \in ThreadAt(l, n).items
  <2>1. q \in Requests /\ m \in 0..Len(l) /\ 1..m \subseteq 1..n
    BY DEF ThreadAt
  <2>2. About(l, m, "item", q) # {}
    BY <1>1, <2>1, ItemKnown
  <2>3. About(l, n, "item", q) # {}
    BY <2>1, <2>2 DEF About
  <2> QED
    BY <2>1, <2>3, ItemKnown
<1> QED
  BY <1>1

\* An end that a view or a result speaks of is true.
EndIsTrue(l, run, state) ==
  state \in TerminalStatus => run \in Runs /\ ThreadAt(l, Len(l)).runs[run] = state

\* A thread that says nothing which the log l does not say.
Told(l, p) ==
  /\ p \in Threads
  /\ \A r \in Runs : EndIsTrue(l, r, p.runs[r])
  /\ \A r \in Runs : p.runs[r] # "none" => ThreadAt(l, Len(l)).runs[r] # "none"
  /\ p.items \subseteq ThreadAt(l, Len(l)).items

LEMMA SnapshotTold ==
  ASSUME NEW l \in Histories, NEW n \in 0..Len(l)
  PROVE  Told(l, ThreadAt(l, n))
<1>0. l \in Seq(Events) /\ Len(l) \in 0..Len(l)
  BY LogTyped
<1>1. ThreadAt(l, n) \in Threads
  BY <1>0, ThreadTyped
<1>2. \A r \in Runs : EndIsTrue(l, r, ThreadAt(l, n).runs[r])
  BY <1>0, EndedStays DEF EndIsTrue
<1>3. \A r \in Runs : ThreadAt(l, n).runs[r] # "none" => ThreadAt(l, Len(l)).runs[r] # "none"
  BY <1>0, RunStays
<1>4. ThreadAt(l, n).items \subseteq ThreadAt(l, Len(l)).items
  BY <1>0, ItemStays
<1> QED
  BY <1>1, <1>2, <1>3, <1>4 DEF Told

LEMMA EventTold ==
  ASSUME NEW l \in Histories, NEW p, Told(l, p), NEW i \in DOMAIN l
  PROVE  Told(l, ApplyThreadEvent(p, l[i]))
<1>0. /\ l \in Seq(Events) /\ Len(l) \in Nat /\ Len(l) \in 0..Len(l) /\ i \in 1..Len(l)
      /\ l[i] \in Events /\ p \in Threads
  BY LogTyped DEF Told
<1>1. CASE l[i].type = "run"
  <2>1. l[i].id \in Runs /\ l[i].status \in RunStatus /\ l[i].status # "none"
    BY <1>0, <1>1, EventFields
  <2>2. PICK t : t = ApplyThreadEvent(p, l[i])
    OBVIOUS
  <2>3. t = [p EXCEPT !.runs[l[i].id] = l[i].status]
    BY <1>1, <2>2 DEF ApplyThreadEvent
  <2>4. /\ t \in Threads /\ t.items = p.items
        /\ \A r \in Runs : t.runs[r] = IF r = l[i].id THEN l[i].status ELSE p.runs[r]
    BY <1>0, <2>1, <2>3 DEF Threads
  <2>5. EndIsTrue(l, l[i].id, l[i].status)
    BY <1>0, <1>1, EndTells DEF EndIsTrue
  <2>6. About(l, Len(l), "run", l[i].id) # {}
    BY <1>0, <1>1 DEF About
  <2>7. ThreadAt(l, Len(l)).runs[l[i].id] # "none"
    BY <1>0, <2>1, <2>6, RunKnown, ThreadFields
  <2>8. Told(l, t)
    BY <2>4, <2>5, <2>7 DEF Told
  <2> QED
    BY <2>2, <2>8
<1>2. CASE l[i].type = "message"
  <2>1. ApplyThreadEvent(p, l[i]) = [p EXCEPT !.message = l[i].id] /\ l[i].id \in Runs
    BY <1>0, <1>2, EventFields DEF ApplyThreadEvent
  <2> QED
    BY <1>0, <2>1 DEF Told, Threads
<1>3. CASE l[i].type = "request"
  <2>1. /\ ApplyThreadEvent(p, l[i]) = [p EXCEPT !.requests[l[i].id] = l[i].status]
        /\ l[i].id \in Requests /\ l[i].status \in {"pending", "resolved"}
    BY <1>0, <1>3, EventFields DEF ApplyThreadEvent
  <2>2. PICK t : t = ApplyThreadEvent(p, l[i])
    OBVIOUS
  <2>3. t \in Threads /\ t.runs = p.runs /\ t.items = p.items
    <3>1. PICK q \in Requests, s \in {"none", "pending", "resolved"} : t = [p EXCEPT !.requests[q] = s]
      BY <2>1, <2>2
    <3>2. [p.requests EXCEPT ![q] = s] \in [Requests -> {"none", "pending", "resolved"}]
      BY <1>0 DEF Threads
    <3> QED
      BY <1>0, <3>1, <3>2 DEF Threads
  <2>4. Told(l, t)
    BY <2>3 DEF Told
  <2> QED
    BY <2>2, <2>4
<1>4. CASE l[i].type = "item"
  <2>1. /\ ApplyThreadEvent(p, l[i]) = [p EXCEPT !.items = @ \cup {l[i].id}]
        /\ l[i].id \in Requests
    BY <1>0, <1>4, EventFields DEF ApplyThreadEvent
  <2>2. About(l, Len(l), "item", l[i].id) # {}
    BY <1>0, <1>4 DEF About
  <2>3. l[i].id \in ThreadAt(l, Len(l)).items
    BY <1>0, <2>1, <2>2, ItemKnown
  <2> QED
    BY <1>0, <2>1, <2>3 DEF Told, Threads
<1> QED
  BY <1>0, <1>1, <1>2, <1>3, <1>4, EventFields

LEMMA NothingTold == \A l : Told(l, EmptyThread)
<1>1. /\ EmptyThread \in Threads /\ \A r \in Runs : EmptyThread.runs[r] = "none"
      /\ EmptyThread.items = {}
  BY DEF EmptyThread, Threads, RunStatus
<1> QED
  BY <1>1 DEF Told, EndIsTrue, TerminalStatus

\* The active and the latest run of such a thread are runs, if there are any.
LEMMA RunsSelected ==
  ASSUME NEW l \in Histories, NEW p, Told(l, p)
  PROVE  ActiveRun(p) \in Runs \cup {NoRun} /\ LatestRun(p) \in Runs \cup {NoRun}
<1>0. l \in Seq(Events) /\ Len(l) \in Nat /\ Len(l) \in 0..Len(l) /\ Runs \subseteq Nat
  BY LogTyped, FeedAssumption
<1>1. PICK b \in Nat : Bounds(l, b, Len(l))
  BY <1>0, RunsBounded
<1>2. ASSUME NEW r \in Runs, p.runs[r] # "none" PROVE r \in 0..b
  <2>1. StatusAt(l, Len(l), "run", r) # "none"
    BY <1>2, ThreadFields DEF Told
  <2>2. PICK i \in 1..Len(l) : l[i].type = "run" /\ l[i].id = r
    BY <2>1, NoStatus DEF About
  <2> QED
    BY <1>0, <1>1, <2>2 DEF Bounds
<1>3. ASSUME NEW S \in SUBSET {r \in Runs : p.runs[r] # "none"}, S # {} PROVE Max(S) \in Runs
  <2>1. S \in SUBSET (0..b)
    BY <1>2
  <2> QED
    BY <1>3, <2>1, MaxOfNumbers
<1>4. {r \in Runs : p.runs[r] = "running"} \in SUBSET {r \in Runs : p.runs[r] # "none"}
  OBVIOUS
<1> QED
  BY <1>3, <1>4 DEF ActiveRun, LatestRun

\* What is known of the ends of runs goes on being true.
LEMMA EndsStay ==
  ASSUME FeedInv, Grown
  PROVE  /\ \A run, state : EndIsTrue(log, run, state) => EndIsTrue(log', run, state)
         /\ \A p : Told(log, p) => Told(log', p)
         /\ ThreadAt(log, Len(log)).items \subseteq ThreadAt(log', Len(log')).items
<1>0. /\ log \in Histories /\ log' \in Histories /\ Len(log) \in 0..Len(log') /\ Len(log') \in 0..Len(log')
      /\ log' \in Seq(Events) /\ ThreadAt(log', Len(log)) = ThreadAt(log, Len(log))
  BY LogTyped DEF FeedInv, Grown
<1>1. \A r \in Runs : ThreadAt(log, Len(log)).runs[r] \in TerminalStatus
                        => ThreadAt(log', Len(log')).runs[r] = ThreadAt(log, Len(log)).runs[r]
  BY <1>0, EndedStays
<1>2. \A r \in Runs : ThreadAt(log, Len(log)).runs[r] # "none" => ThreadAt(log', Len(log')).runs[r] # "none"
  BY <1>0, RunStays
<1>3. ThreadAt(log, Len(log)).items \subseteq ThreadAt(log', Len(log')).items
  BY <1>0, ItemStays
<1>4. \A run, state : EndIsTrue(log, run, state) => EndIsTrue(log', run, state)
  BY <1>1 DEF EndIsTrue
<1> QED
  BY <1>2, <1>3, <1>4 DEF Told


-----------------------------------------------------------------------------
(* The command: the invariant *)

Winners == {"none", "terminal", "pending", "deadline", "signal", "error"}
PumpStates == {"none", "pulling", "answering", "terminal", "pending", "error", "stopped"}
Exits == {0, 1, 3, 4, 5, 6, 7, 8}
ResultStates == RunStatus \cup {"unknown", "idle"}

Follows == [at : FollowStates, by : {"none", "acquiring", "signal", "deadline"}, winner : Winners,
            why : {0, 1, 4, 8}, stopping : BOOLEAN, completed : BOOLEAN]
Pumps == [at : PumpStates, open : SUBSET Requests, asked : SUBSET Requests]
Views == [known : BOOLEAN, thread : Threads, outcome : {"none"} \cup TerminalStatus, upTo : Int]
Results == [runId : Runs \cup {NoRun}, state : ResultStates, pending : SUBSET Requests,
            exit : Exits \cup {-1}]
Interruptions == [status : {"none", "reading", "sent", "acked", "failed"}, run : Runs \cup {NoRun},
                  by : {"none", "signal", "deadline"}, seen : ResultStates \cup {"none"}, count : 0..1]
PoliciesTried == [onTimeout : OnTimeout, onRequest : {"fail", "wait"}, approve : BOOLEAN]

GivenInv ==
  /\ target \in TargetKinds /\ policy \in PoliciesTried
  /\ answered \subseteq Requests \ UserInputs /\ signalled \in BOOLEAN /\ deadline \in BOOLEAN
  /\ target # "turn" => turn.watch = "idle" /\ turn.runId = NoRun /\ turn.outcome = Pending

SeenInv == seen \in Views /\ Told(log, seen.thread)

\* A result names the run that took the message, and only an end which that run had.
ResultOK(l, kind, r) ==
  /\ r \in Results
  /\ kind # "thread" /\ r.runId # NoRun => r.runId \in Took(ThreadAt(l, Len(l)))
  /\ kind = "run" => r.runId # NoRun
  /\ EndIsTrue(l, r.runId, r.state)

\* Nothing can change what is known of the run before the race is over.
Quiet ==
  /\ pump.at = "pulling" => Buffer = <<>>
  /\ turn.watch = "running" => feed.out = <<>>
  /\ target = "turn" /\ turn.outcome.kind = "settled" => follow.completed

\* Where the command stands while it waits for its run.
RaceInv ==
  /\ follow \in Follows /\ pump \in Pumps
  /\ follow.at = "acquiring" =>
       /\ pump.at = "none" /\ follow.winner = "none" /\ ~Finished(result.state)
       /\ signalled => target = "thread"
  /\ follow.at = "racing" => (signalled <=> follow.winner = "signal")
  /\ follow.at = "racing" /\ follow.winner \in {"none", "deadline"} => ~Finished(result.state)
  /\ follow.at = "racing" /\ follow.winner = "deadline" => policy.onTimeout # "none" /\ Quiet
  /\ follow.winner = "error" =>
       follow.why # 0 /\ (follow.why = 4 => turn.outcome = RejectedAs("interrupted"))

\* Where it stands once the race is over.
AfterInv ==
  /\ follow.at = "reading" => ~signalled
  /\ follow.at = "linking" => signalled
  /\ follow.at = "interrupting" => follow.by # "none"
  /\ follow.at = "grace" => follow.by \in {"signal", "deadline"} /\ interruption.status = "acked"
  /\ follow.at \in {"interrupting", "grace"} => (signalled <=> follow.by # "deadline")
  /\ Over => pump.at \notin {"pulling", "answering"}

InterruptInv ==
  /\ interruption \in Interruptions
  /\ follow.at \in {"acquiring", "racing", "reading"} => interruption.status = "none"
  /\ follow.at \in {"interrupting", "grace"} =>
       /\ interruption.status # "none"
       /\ interruption.by = IF follow.by = "deadline" THEN "deadline" ELSE "signal"
  /\ interruption.status \in {"none", "reading"} => interruption.count = 0 /\ interruption.run = NoRun
  /\ interruption.status # "none" => ~Finished(interruption.seen)
  /\ target # "thread" /\ interruption.by = "signal" /\ interruption.status # "none" =>
       interruption.run # NoRun /\ interruption.run \in Took(ThreadAt(log, Len(log)))

\* Requests that the caller is told of need him.
NeedCaller(l, done, open) ==
  /\ open # {} /\ open \cap done = {} /\ open \subseteq Requests
  /\ open \cap UserInputs \subseteq ThreadAt(l, Len(l)).items

PendingInv ==
  /\ follow.winner = "pending" =>
       pump.at = "pending" /\ policy.onRequest = "fail" /\ NeedCaller(log, answered, result.pending)
  /\ result.exit = 7 => policy.onRequest = "fail" /\ NeedCaller(log, answered, result.pending)

\* The run ended so.
EndedAs(l, run, state) == run \in Runs /\ ThreadAt(l, Len(l)).runs[run] = state

\* What the exit code says of the result r is so.
ExitOK(l, t, signal, int, r, code) ==
  /\ code = 0 => r.state = "idle" \/ EndedAs(l, r.runId, "completed")
  /\ code = 3 => EndedAs(l, r.runId, "failed")
  /\ code = 4 /\ ~signal => t.outcome = RejectedAs("interrupted") \/ EndedAs(l, r.runId, "interrupted")
  /\ signal => code = 4
  /\ code = 6 => int.by = "deadline" /\ int.status = "acked"

ExitInv ==
  /\ Over <=> result.exit # -1
  /\ Over => ExitOK(log, turn, signalled, interruption, result, result.exit)

RunInv ==
  /\ HandleInv /\ GivenInv /\ SeenInv /\ ResultOK(log, target, result)
  /\ RaceInv /\ AfterInv /\ InterruptInv /\ PendingInv /\ ExitInv


-----------------------------------------------------------------------------
(* The command: what its steps do to the handle and the watch *)

\* It closes its iteration of events() and the watch, if that is its own.
LEMMA EndHandle ==
  ASSUME HandleInv, NEW r, NEW code, End(r, code), UNCHANGED <<log, turn>>
  PROVE  HandleInv'
<1>0. /\ channels \in [Consumers -> Channels] /\ Follower \in Consumers
      /\ channels[Follower] \in Channels /\ feed \in FeedStates
  BY FollowAssumption DEF HandleInv, TurnInv, FeedInv
<1>1. FeedInv'
  <2>1. CASE feed' = feed
    BY <2>1, SameLogGrown, FeedStays DEF HandleInv, FeedInv
  <2>2. CASE feed' = [feed EXCEPT !.state = "finished", !.out = <<>>]
    <3>1. feed' \in FeedStates
      BY <1>0, <2>2, EmptySequence DEF FeedStates, Endings
    <3> QED
      BY <1>0, <2>2, <3>1, SameLogGrown, FeedStays DEF HandleInv, FeedInv, FeedStates
  <2> QED
    BY <2>1, <2>2 DEF End
<1>2. PICK s \in {"none", "returned"} :
        /\ channels' = [channels EXCEPT ![Follower].state = s, ![Follower].buffer = <<>>]
        /\ s \in {channels[Follower].state, "returned"}
  BY DEF End
<1>3. channels' \in [Consumers -> Channels]
  BY <1>0, <1>2, EmptySequence DEF Channels
<1>4. /\ \A d \in Consumers : d # Follower => channels'[d] = channels[d]
      /\ channels'[Follower].early = channels[Follower].early
      /\ channels'[Follower].last = channels[Follower].last
      /\ channels'[Follower].state = s /\ channels'[Follower].buffer = <<>>
  BY <1>0, <1>2 DEF Channels
<1> QED
  BY <1>0, <1>1, <1>2, <1>3, <1>4, ConsumerKeeps, NoneSound

\* It takes an item, which is about the log.
LEMMA TakeHandle ==
  ASSUME HandleInv, Buffer # <<>>, Take, UNCHANGED <<log, turn>>
  PROVE  HandleInv' /\ Sound(log, Head(Buffer)) /\ Head(Buffer) \in FeedItems
<1>0. /\ channels \in [Consumers -> Channels] /\ Follower \in Consumers
      /\ channels[Follower] \in Channels /\ feed \in FeedStates
      /\ ServedAs(log, turn, channels[Follower])
  BY FollowAssumption DEF HandleInv, TurnInv, FeedInv
<1>1. CASE target = "turn"
  <2>1. channels' = [channels EXCEPT ![Follower].buffer = Tail(@)] /\ UNCHANGED feed
    BY <1>1 DEF Take
  <2>2. /\ Buffer = channels[Follower].buffer /\ channels[Follower].buffer \in Seq(FeedItems)
        /\ AllSound(log, channels[Follower].buffer) /\ channels[Follower].buffer # <<>>
    BY <1>0, <1>1 DEF Buffer, ServedAs, Channels
  <2>3. /\ Tail(channels[Follower].buffer) \in Seq(FeedItems)
        /\ AllSound(log, Tail(channels[Follower].buffer)) /\ Sound(log, Head(channels[Follower].buffer))
    BY <2>2, QueuedSound
  <2>4. channels' \in [Consumers -> Channels]
    BY <1>0, <2>1, <2>3 DEF Channels
  <2>5. /\ \A d \in Consumers : d # Follower => channels'[d] = channels[d]
        /\ channels'[Follower].early = channels[Follower].early
        /\ channels'[Follower].last = channels[Follower].last
        /\ channels'[Follower].state = channels[Follower].state
        /\ channels'[Follower].buffer = Tail(channels[Follower].buffer)
    BY <1>0, <2>1 DEF Channels
  <2>6. FeedInv'
    BY <2>1, SameLogGrown, FeedStays DEF HandleInv, FeedInv
  <2>7. HandleInv'
    BY <1>0, <2>3, <2>4, <2>5, <2>6, ConsumerKeeps
  <2> QED
    BY <2>2, <2>3, <2>7 DEF Sound
<1>2. CASE target # "turn"
  <2>1. feed' = [feed EXCEPT !.out = Tail(@)] /\ UNCHANGED channels /\ Buffer = feed.out
    BY <1>2 DEF Take, Buffer
  <2>2. feed.out # <<>> /\ feed.out \in Seq(FeedItems) /\ AllSound(log, feed.out)
    BY <1>0, <2>1 DEF FeedStates, HandleInv, FeedInv
  <2>3. Tail(feed.out) \in Seq(FeedItems) /\ Sound(log, Head(feed.out))
    BY <2>2, QueuedSound
  <2>4. feed' \in FeedStates
    BY <1>0, <2>1, <2>3 DEF FeedStates
  <2>5. FeedInv'
    BY <1>0, <2>1, <2>2, <2>4, SameLogGrown, FeedStays DEF HandleInv, FeedInv, FeedStates
  <2>6. HandleInv'
    BY <2>1, <2>5, SameLogGrown, TurnStays DEF HandleInv
  <2> QED
    BY <2>1, <2>3, <2>6 DEF Sound
<1> QED
  BY <1>1, <1>2

LEMMA StartHandle == ASSUME HandleInv, StartWatch PROVE HandleInv' /\ UNCHANGED log
<1>1. CASE target = "turn"
  BY <1>1, SubscribeKeeps, FollowAssumption DEF StartWatch, Subscribe
<1>2. CASE target # "turn"
  <2>1. feed' = [feed EXCEPT !.state = "open"] /\ UNCHANGED <<log, turn, channels>>
    BY <1>2 DEF StartWatch, turnVars
  <2>2. feed' \in FeedStates
    BY <2>1 DEF FeedStates, HandleInv, FeedInv
  <2>3. FeedInv'
    BY <2>1, <2>2, SameLogGrown, FeedStays DEF HandleInv, FeedInv, FeedStates
  <2> QED
    BY <2>1, <2>3, SameLogGrown, TurnStays DEF HandleInv
<1> QED
  BY <1>1, <1>2

LEMMA SameHandle == ASSUME HandleInv, UNCHANGED <<log, feed, turn, channels>> PROVE HandleInv'
BY SameLogGrown, FeedStays, TurnStays DEF HandleInv, FeedInv


-----------------------------------------------------------------------------
(* The command: leaving *)

LEMMA EndGives ==
  ASSUME RunInv, NEW r \in Results, NEW code \in Exits, End(r, code)
  PROVE  /\ follow' \in Follows /\ follow'.at = "over"
         /\ follow'.winner = follow.winner /\ follow'.why = follow.why
         /\ result' \in Results /\ result'.exit = code /\ result'.runId = r.runId
         /\ result'.state = r.state /\ result'.pending = r.pending
         /\ pump' \in Pumps /\ pump'.at \notin {"pulling", "answering"}
         /\ pump.at = "pending" => pump'.at = "pending"
<1>1. follow \in Follows /\ pump \in Pumps
  BY DEF RunInv, RaceInv
<1>2. follow' = [follow EXCEPT !.at = "over"] /\ result' = [r EXCEPT !.exit = code]
  BY DEF End
<1>3. /\ follow' \in Follows /\ follow'.at = "over"
      /\ follow'.winner = follow.winner /\ follow'.why = follow.why
  BY <1>1, <1>2 DEF Follows, FollowStates
<1>4. /\ result' \in Results /\ result'.exit = code /\ result'.runId = r.runId
      /\ result'.state = r.state /\ result'.pending = r.pending
  BY <1>2 DEF Results
<1>5. PICK s \in PumpStates : /\ pump' = [pump EXCEPT !.at = s] /\ s \notin {"pulling", "answering"}
                              /\ (pump.at = "pending" => s = "pending")
  BY <1>1 DEF End, Pumps, PumpStates
<1>6. /\ pump' \in Pumps /\ pump'.at \notin {"pulling", "answering"}
      /\ pump.at = "pending" => pump'.at = "pending"
  BY <1>1, <1>5 DEF Pumps
<1> QED
  BY <1>3, <1>4, <1>6

\* What is left alone by everything that may end the command.
Leaving == UNCHANGED <<log, turn, aborted, given, seen, answered, deadline>>

\* A result with the same end and requests, that another name for its run may replace.
Kept(r) == /\ ResultOK(log, target, r) /\ r.pending = result.pending /\ r.exit = result.exit
           /\ r.state = result.state /\ (result.runId # NoRun => r.runId = result.runId)

\* The command ends, if its exit code is true.
LEMMA ExitKeeps ==
  ASSUME RunInv, ~Over, Leaving, UNCHANGED interruption, signalled' \in BOOLEAN,
         NEW r, Kept(r), NEW code \in Exits, End(r, code),
         ExitOK(log, turn, signalled', interruption, r, code),
         code = 7 => follow.winner = "pending"
  PROVE  RunInv'
<1>1. r \in Results /\ r.pending = result.pending
  BY DEF Kept, ResultOK
<1>2. /\ follow' \in Follows /\ follow'.at = "over"
      /\ follow'.winner = follow.winner /\ follow'.why = follow.why
      /\ result' \in Results /\ result'.exit = code /\ result'.runId = r.runId
      /\ result'.state = r.state /\ result'.pending = r.pending
      /\ pump' \in Pumps /\ pump'.at \notin {"pulling", "answering"}
      /\ pump.at = "pending" => pump'.at = "pending"
  BY <1>1, EndGives
<1>3. HandleInv'
  BY EndHandle DEF RunInv, Leaving
<1>4. GivenInv' /\ SeenInv'
  BY DEF RunInv, GivenInv, SeenInv, Leaving, given
<1>5. ResultOK(log', target', result')
  BY <1>2 DEF Kept, ResultOK, Leaving, given
<1>6. RaceInv'
  BY <1>2 DEF RunInv, RaceInv, Leaving
<1>7. AfterInv'
  BY <1>2 DEF AfterInv, Over
<1>8. InterruptInv'
  BY <1>2 DEF RunInv, InterruptInv, Leaving, given
<1>9. PendingInv'
  BY <1>1, <1>2 DEF RunInv, PendingInv, Leaving, given
<1>10. ExitInv'
  <2>1. ExitOK(log', turn', signalled', interruption', result', code)
    BY <1>2 DEF ExitOK, Leaving
  <2>2. result'.exit = code /\ code # -1
    BY <1>2 DEF Exits
  <2> QED
    BY <1>2, <2>1, <2>2 DEF ExitInv, Over
<1> QED
  BY <1>3, <1>4, <1>5, <1>6, <1>7, <1>8, <1>9, <1>10 DEF RunInv

LEMMA ResultKept == ASSUME RunInv PROVE Kept(result)
BY DEF RunInv, Kept

\* It ends by a signal.
LEMMA SignalEndKeeps ==
  ASSUME RunInv, ~Over, Leaving, UNCHANGED interruption, signalled' = TRUE, NEW r, Kept(r), End(r, 4)
  PROVE  RunInv'
<1>1. 4 \in Exits /\ 4 # 7 /\ signalled' \in BOOLEAN
  BY DEF Exits
<1>2. ExitOK(log, turn, signalled', interruption, r, 4)
  BY DEF ExitOK
<1> QED
  BY <1>1, <1>2, ExitKeeps, Zenon

\* The command stays, with another place and result.
LEMMA StayKeeps ==
  ASSUME RunInv, ~Over, Leaving, Stay, signalled' \in BOOLEAN,
         follow' \in Follows, follow'.winner = follow.winner, follow'.why = follow.why,
         follow'.at \in {"linking", "interrupting", "grace"},
         NEW r, Kept(r), result' = r, AfterInv', InterruptInv'
  PROVE  RunInv'
<1>1. HandleInv'
  BY SameHandle DEF RunInv, Leaving, Stay
<1>2. GivenInv' /\ SeenInv'
  BY DEF RunInv, GivenInv, SeenInv, Leaving, given
<1>3. ResultOK(log', target', result')
  BY DEF Kept, Leaving, given
<1>4. RaceInv'
  BY DEF RunInv, RaceInv, Leaving, Stay
<1>5. PendingInv'
  BY DEF RunInv, PendingInv, Leaving, given, Kept, Stay
<1>6. ExitInv'
  BY DEF RunInv, ExitInv, Over, Kept
<1> QED
  BY <1>1, <1>2, <1>3, <1>4, <1>5, <1>6 DEF RunInv

Asked(run, by, known, n, status) ==
  interruption' = [interruption EXCEPT !.status = status, !.run = run, !.by = by, !.seen = known, !.count = n]

\* interruptRun: the run is interrupted, unless it was before.
LEMMA InterruptKeeps ==
  ASSUME RunInv, ~Over, Leaving, signalled' \in BOOLEAN,
         NEW f \in Follows, f.winner = follow.winner, f.why = follow.why,
         NEW r, Kept(r), NEW by \in {"signal", "deadline"}, InterruptRun(f, r, by),
         signalled' <=> by = "signal",
         by = "signal" /\ target # "thread" => r.runId # NoRun,
         follow.at = "linking" \/ ~Finished(r.state),
         interruption.status # "none" => signalled'
  PROVE  RunInv'
<1>1. CASE ~MayInterrupt
  <2>1. End(r, 4) /\ UNCHANGED interruption /\ signalled' = TRUE
    BY <1>1 DEF InterruptRun, MayInterrupt
  <2> QED
    BY <2>1, SignalEndKeeps
<1>2. CASE MayInterrupt
  <2>1. /\ Ask(r.runId, by, r) /\ follow' = [f EXCEPT !.at = "interrupting", !.by = by]
        /\ result' = r /\ Stay /\ interruption.status = "none"
    BY <1>2 DEF InterruptRun, MayInterrupt
  <2>2. follow' \in Follows /\ follow'.at = "interrupting" /\ follow'.by = by
          /\ follow'.winner = follow.winner /\ follow'.why = follow.why
    BY <2>1 DEF Follows, FollowStates
  <2>3. r \in Results /\ interruption \in Interruptions /\ interruption.count = 0
    BY <2>1 DEF Kept, ResultOK, RunInv, InterruptInv
  <2>4. PICK known \in ResultStates, n \in 0..1, s \in {"reading", "sent"} :
          /\ Asked(r.runId, by, known, n, s)
          /\ ~Finished(known)
          /\ s = "reading" => n = 0 /\ r.runId = NoRun
    <3>1. r.state \in ResultStates /\ "unknown" \in ResultStates /\ ~Finished("unknown")
      BY <2>3 DEF Results, ResultStates, Finished, TerminalStatus
    <3>2. PICK known \in ResultStates :
            known = (IF follow.at = "linking" THEN "unknown" ELSE r.state) /\ ~Finished(known)
      BY <3>1
    <3>3. CASE r.runId = NoRun
      <4>1. Asked(r.runId, by, known, 0, "reading")
        BY <2>1, <2>3, <3>2, <3>3 DEF Ask, Asked, Interruptions
      <4> QED
        BY <3>2, <3>3, <4>1
    <3>4. CASE r.runId # NoRun
      <4>1. Asked(r.runId, by, known, 1, "sent")
        BY <2>1, <2>3, <3>2, <3>4 DEF Ask, Asked, Interruptions
      <4> QED
        BY <3>2, <4>1
    <3> QED
      BY <3>3, <3>4
  <2>5. /\ interruption' \in Interruptions /\ interruption'.status = s /\ interruption'.run = r.runId
        /\ interruption'.by = by /\ interruption'.seen = known /\ interruption'.count = n
    BY <2>3, <2>4 DEF Asked, Interruptions, Results
  <2>6. AfterInv'
    BY <2>2, <2>5 DEF AfterInv, Over
  <2>7. InterruptInv'
    <3>1. by = "signal" /\ target # "thread" => r.runId # NoRun /\ r.runId \in Took(ThreadAt(log, Len(log)))
      BY DEF Kept, ResultOK
    <3> QED
      BY <2>2, <2>4, <2>5, <3>1 DEF InterruptInv, Leaving, given
  <2> QED
    BY <2>1, <2>2, <2>6, <2>7, StayKeeps
<1> QED
  BY <1>1, <1>2

\* interruptForSignal.
LEMMA SignalKeeps ==
  ASSUME RunInv, ~Over, Leaving, signalled' = TRUE,
         NEW f \in Follows, f.winner = follow.winner, f.why = follow.why,
         NEW r, Kept(r), InterruptForSignal(f, r)
  PROVE  RunInv'
<1>1. CASE Finished(r.state)
  <2>1. End(r, 4) /\ UNCHANGED interruption
    BY <1>1 DEF InterruptForSignal
  <2> QED
    BY <2>1, SignalEndKeeps
<1>2. CASE ~Finished(r.state) /\ target = "turn" /\ r.runId = NoRun
  <2>1. /\ follow' = [f EXCEPT !.at = "linking"] /\ result' = r /\ Stay /\ UNCHANGED interruption
    BY <1>2 DEF InterruptForSignal
  <2>2. follow' \in Follows /\ follow'.at = "linking"
          /\ follow'.winner = follow.winner /\ follow'.why = follow.why
    BY <2>1 DEF Follows, FollowStates
  <2>3. AfterInv' /\ InterruptInv'
    BY <2>1, <2>2 DEF AfterInv, Over, RunInv, InterruptInv, Leaving, given
  <2> QED
    BY <2>1, <2>2, <2>3, StayKeeps
<1>3. CASE ~Finished(r.state) /\ ~(target = "turn" /\ r.runId = NoRun)
  <2>1. InterruptRun(f, r, "signal")
    BY <1>3 DEF InterruptForSignal
  <2>2. target # "thread" => r.runId # NoRun
    BY <1>3 DEF Kept, ResultOK, RunInv, GivenInv, TargetKinds
  <2> QED
    BY <1>3, <2>1, <2>2, InterruptKeeps
<1> QED
  BY <1>1, <1>2, <1>3

\* The result that the catch block works with names the run the handle follows.
LEMMA CatchResult ==
  ASSUME RunInv
  PROVE  Kept([result EXCEPT !.runId = IF turn.runId # NoRun THEN turn.runId ELSE @])
<1> DEFINE named == IF turn.runId # NoRun THEN turn.runId ELSE result.runId
<1>0. /\ result \in Results /\ log \in Histories /\ Len(log) \in 0..Len(log) /\ Ours(log, turn.runId)
      /\ ResultOK(log, target, result) /\ target \in TargetKinds
  BY LogTyped DEF RunInv, ResultOK, HandleInv, FeedInv, TurnInv, TurnOK, GivenInv
<1>1. turn.runId # NoRun => /\ turn.runId \in Runs /\ target = "turn"
                            /\ turn.runId \in Took(ThreadAt(log, Len(log)))
  BY <1>0 DEF Ours, RunInv, GivenInv
<1>2. result.runId # NoRun => named = result.runId
  BY <1>0, <1>1, TookOne DEF ResultOK, TargetKinds
<1>3. named \in Runs \cup {NoRun} /\ (target # "thread" /\ named # NoRun => named \in Took(ThreadAt(log, Len(log))))
  BY <1>0, <1>1 DEF ResultOK, Results
<1>4. EndIsTrue(log, named, result.state)
  BY <1>0, <1>2, RunsAreNamed DEF ResultOK, EndIsTrue
<1>5. PICK r : r = [result EXCEPT !.runId = named]
  OBVIOUS
<1> HIDE DEF named
<1>6. /\ r \in Results /\ r.runId = named /\ r.state = result.state /\ r.pending = result.pending
      /\ r.exit = result.exit
  BY <1>0, <1>3, <1>5 DEF Results
<1>7. Kept(r)
  BY <1>0, <1>2, <1>3, <1>4, <1>6 DEF Kept, ResultOK
<1> QED
  BY <1>5, <1>7 DEF named


-----------------------------------------------------------------------------
(* The command: its actions *)

LEMMA BeginKeeps == ASSUME RunInv, Begin PROVE RunInv'
<1>0. /\ follow.at = "acquiring" /\ ~signalled /\ follow \in Follows /\ pump \in Pumps
      /\ follow' = [follow EXCEPT !.at = "racing"] /\ pump' = [pump EXCEPT !.at = "pulling"]
      /\ UNCHANGED <<given, seen, result, answered, interruption, signalled, deadline>>
  BY DEF Begin, RunInv, RaceInv
<1>1. HandleInv' /\ UNCHANGED log
  BY StartHandle DEF RunInv, Begin
<1>2. /\ follow' \in Follows /\ follow'.at = "racing" /\ follow'.winner = follow.winner
      /\ pump' \in Pumps /\ pump'.at = "pulling"
  BY <1>0 DEF Follows, FollowStates, Pumps, PumpStates
<1>3. follow.winner = "none" /\ ~Finished(result.state)
  BY <1>0 DEF RunInv, RaceInv
<1>4. GivenInv'
  <2>1. target # "turn" => UNCHANGED turn
    BY DEF Begin, StartWatch, turnVars
  <2> QED
    BY <1>0, <2>1 DEF RunInv, GivenInv, given
<1>5. SeenInv' /\ ResultOK(log', target', result')
  BY <1>0, <1>1 DEF RunInv, SeenInv, given
<1>6. RaceInv'
  BY <1>0, <1>2, <1>3 DEF RaceInv
<1>7. AfterInv'
  BY <1>2 DEF AfterInv, Over
<1>8. InterruptInv'
  BY <1>0, <1>1, <1>2 DEF RunInv, InterruptInv, given
<1>9. PendingInv'
  BY <1>0, <1>1, <1>2, <1>3 DEF RunInv, PendingInv, given
<1>10. ExitInv'
  BY <1>0, <1>2 DEF RunInv, ExitInv, Over
<1> QED
  BY <1>1, <1>4, <1>5, <1>6, <1>7, <1>8, <1>9, <1>10 DEF RunInv

LEMMA BeginInterruptedKeeps == ASSUME RunInv, BeginInterrupted PROVE RunInv'
<1>0. /\ follow.at = "acquiring" /\ signalled /\ follow \in Follows /\ interruption.status = "none"
      /\ Ask(result.runId, "signal", result) /\ follow' = [follow EXCEPT !.at = "interrupting", !.by = "acquiring"]
      /\ UNCHANGED <<log, feed, turn, channels, given, pump, seen, result, answered, signalled, deadline>>
  BY DEF BeginInterrupted, RunInv, RaceInv, turnVars
<1>1. HandleInv'
  BY <1>0, SameHandle DEF RunInv
<1>2. /\ follow' \in Follows /\ follow'.at = "interrupting" /\ follow'.by = "acquiring"
      /\ follow'.winner = follow.winner
  BY <1>0 DEF Follows, FollowStates
<1>3. /\ follow.winner = "none" /\ ~Finished(result.state) /\ target = "thread" /\ result \in Results
      /\ interruption \in Interruptions /\ interruption.count = 0
  BY <1>0 DEF RunInv, RaceInv, ResultOK, InterruptInv
<1>4. PICK known \in ResultStates, n \in 0..1, s \in {"reading", "sent"} :
        /\ Asked(result.runId, "signal", known, n, s) /\ ~Finished(known)
        /\ s = "reading" => n = 0 /\ result.runId = NoRun
  <2>1. PICK known \in ResultStates : known = result.state
    BY <1>3 DEF Results
  <2>2. CASE result.runId = NoRun
    <3>1. Asked(result.runId, "signal", known, 0, "reading")
      BY <1>0, <1>3, <2>1, <2>2 DEF Ask, Asked, Interruptions
    <3> QED
      BY <1>3, <2>1, <2>2, <3>1
  <2>3. CASE result.runId # NoRun
    <3>1. Asked(result.runId, "signal", known, 1, "sent")
      BY <1>0, <1>3, <2>1, <2>3 DEF Ask, Asked, Interruptions
    <3> QED
      BY <1>3, <2>1, <3>1
  <2> QED
    BY <2>2, <2>3
<1>5. /\ interruption' \in Interruptions /\ interruption'.status = s /\ interruption'.run = result.runId
      /\ interruption'.by = "signal" /\ interruption'.seen = known /\ interruption'.count = n
  BY <1>3, <1>4 DEF Asked, Interruptions, Results
<1>6. GivenInv' /\ SeenInv' /\ ResultOK(log', target', result')
  BY <1>0 DEF RunInv, GivenInv, SeenInv, given
<1>7. RaceInv'
  BY <1>0, <1>2, <1>3 DEF RunInv, RaceInv
<1>8. AfterInv'
  BY <1>0, <1>2 DEF AfterInv, Over
<1>9. InterruptInv'
  BY <1>0, <1>2, <1>3, <1>4, <1>5 DEF InterruptInv, given
<1>10. PendingInv'
  BY <1>0, <1>2, <1>3 DEF RunInv, PendingInv, given
<1>11. ExitInv'
  BY <1>0, <1>2 DEF RunInv, ExitInv, Over
<1> QED
  BY <1>1, <1>6, <1>7, <1>8, <1>9, <1>10, <1>11 DEF RunInv

\* The client cannot be made, or a request of the library fails.
LEMMA FailureKeeps ==
  ASSUME RunInv, ~Over, Leaving, UNCHANGED <<interruption, signalled>>, ~signalled,
         NEW r, Kept(r), NEW code \in {1, 5, 8}, End(r, code)
  PROVE  RunInv'
<1>1. code \in Exits /\ code # 7 /\ signalled' \in BOOLEAN
  BY DEF Exits, RunInv, GivenInv
<1>2. ExitOK(log, turn, signalled', interruption, r, code)
  BY DEF ExitOK
<1> QED
  BY <1>1, <1>2, ExitKeeps

LEMMA ClientFailsKeeps == ASSUME RunInv, ClientFails PROVE RunInv'
<1>1. /\ ~Over /\ Leaving /\ UNCHANGED <<interruption, signalled>> /\ Kept(result)
      /\ End(result, IF signalled THEN 4 ELSE 8) /\ signalled \in BOOLEAN
  BY ResultKept DEF ClientFails, Leaving, Over, RunInv, GivenInv
<1>2. CASE signalled
  BY <1>1, <1>2, SignalEndKeeps
<1>3. CASE ~signalled
  BY <1>1, <1>3, FailureKeeps
<1> QED
  BY <1>2, <1>3

\* The run is over, and the exit code says how.
LEMMA FinishKeeps ==
  ASSUME RunInv, ~Over, Leaving, UNCHANGED <<interruption, signalled>>, ~signalled,
         End(result, ExitCodeForState(result.state))
  PROVE  RunInv'
<1>1. PICK code : code = ExitCodeForState(result.state)
  OBVIOUS
<1>2. code \in Exits /\ code # 7 /\ code # 6
  BY <1>1 DEF ExitCodeForState, Exits
<1>3. EndIsTrue(log, result.runId, result.state)
  BY DEF RunInv, ResultOK
<1>4. ExitOK(log, turn, signalled', interruption, result, code)
  BY <1>1, <1>2, <1>3 DEF ExitOK, EndedAs, ExitCodeForState, EndIsTrue, TerminalStatus
<1> QED
  BY <1>1, <1>2, <1>4, ExitKeeps, ResultKept DEF RunInv, GivenInv

LEMMA ResumeKeeps == ASSUME RunInv, Resume PROVE RunInv'
<1> DEFINE f == [follow EXCEPT !.stopping = TRUE]
<1>0. /\ follow.at = "racing" /\ follow.winner # "none" /\ ~Over /\ Leaving /\ UNCHANGED signalled
      /\ follow \in Follows /\ signalled \in BOOLEAN /\ interruption.status = "none"
      /\ (signalled <=> follow.winner = "signal") /\ Kept(result)
  BY ResultKept DEF Resume, Leaving, Over, RunInv, RaceInv, GivenInv, InterruptInv
<1>1. f \in Follows /\ f.at = "racing" /\ f.winner = follow.winner /\ f.why = follow.why
  BY <1>0 DEF Follows
<1>2. CASE follow.winner = "signal"
  <2>1. InterruptForSignal(f, result)
    BY <1>2 DEF Resume
  <2> QED
    BY <1>0, <1>1, <1>2, <2>1, SignalKeeps
<1>3. CASE follow.winner = "deadline"
  <2>1. ~signalled /\ ~Finished(result.state) /\ policy.onTimeout \in {"detach", "interrupt"}
    BY <1>0, <1>3 DEF RunInv, RaceInv, GivenInv, PoliciesTried, OnTimeout
  <2>2. CASE policy.onTimeout = "interrupt"
    <3>1. InterruptRun(f, result, "deadline")
      BY <1>3, <2>2 DEF Resume
    <3> QED
      BY <1>0, <1>1, <2>1, <3>1, InterruptKeeps
  <2>3. CASE policy.onTimeout = "detach"
    <3>1. End(result, 5) /\ UNCHANGED interruption
      BY <1>3, <2>1, <2>3 DEF Resume, TimeoutExit
    <3> QED
      BY <1>0, <2>1, <3>1, FailureKeeps
  <2> QED
    BY <2>1, <2>2, <2>3
<1>4. CASE follow.winner = "pending"
  <2>1. End(result, 7) /\ UNCHANGED interruption /\ 7 \in Exits
    BY <1>4 DEF Resume, Exits
  <2>2. ExitOK(log, turn, signalled', interruption, result, 7)
    BY <1>0, <1>4 DEF ExitOK
  <2> QED
    BY <1>0, <1>4, <2>1, <2>2, ExitKeeps
<1>5. CASE follow.winner = "error"
  <2>1. PICK r : r = [result EXCEPT !.runId = IF turn.runId # NoRun THEN turn.runId ELSE @]
    OBVIOUS
  <2>2. Kept(r)
    BY <2>1, CatchResult
  <2>3. End(r, follow.why) /\ UNCHANGED interruption
    BY <1>0, <1>5, <2>1 DEF Resume, Catch
  <2>4. /\ follow.why \in {1, 4, 8} /\ follow.why \in Exits
        /\ follow.why = 4 => turn.outcome = RejectedAs("interrupted")
    BY <1>5 DEF RunInv, RaceInv, Follows, Exits
  <2>5. ExitOK(log, turn, signalled', interruption, r, follow.why)
    BY <1>0, <1>5, <2>4 DEF ExitOK
  <2>6. follow.why # 7
    BY <2>4
  <2> QED
    BY <1>0, <2>2, <2>3, <2>4, <2>5, <2>6, ExitKeeps
<1>6. CASE follow.winner = "terminal"
  <2>1. CASE End(result, ExitCodeForState(result.state)) /\ UNCHANGED interruption
    BY <1>0, <1>6, <2>1, FinishKeeps
  <2>2. CASE follow' = [f EXCEPT !.at = "reading"] /\ Stay /\ UNCHANGED <<result, interruption>>
    <3>1. follow' \in Follows /\ follow'.at = "reading" /\ follow'.winner = follow.winner /\ follow'.why = follow.why
      BY <1>1, <2>2 DEF Follows, FollowStates
    <3>2. HandleInv'
      BY <1>0, <2>2, SameHandle DEF RunInv, Stay, Leaving
    <3>3. GivenInv' /\ SeenInv' /\ ResultOK(log', target', result')
      BY <1>0, <2>2 DEF RunInv, GivenInv, SeenInv, given, Leaving
    <3>4. RaceInv'
      BY <1>0, <2>2, <3>1 DEF RunInv, RaceInv, Stay, Leaving
    <3>5. AfterInv'
      BY <1>0, <1>6, <3>1 DEF AfterInv, Over
    <3>6. InterruptInv'
      BY <1>0, <2>2, <3>1 DEF RunInv, InterruptInv, Leaving, given
    <3>7. PendingInv' /\ ExitInv'
      BY <1>0, <1>6, <2>2, <3>1 DEF RunInv, PendingInv, ExitInv, Over, Leaving, given
    <3> QED
      BY <3>2, <3>3, <3>4, <3>5, <3>6, <3>7 DEF RunInv
  <2> QED
    BY <1>6, <2>1, <2>2 DEF Resume
<1> QED
  BY <1>0, <1>2, <1>3, <1>4, <1>5, <1>6 DEF Follows, Winners

LEMMA ReadKeeps == ASSUME RunInv, Read PROVE RunInv'
<1>0. /\ ~Over /\ Leaving /\ UNCHANGED <<interruption, signalled>> /\ ~signalled /\ Kept(result)
  BY ResultKept DEF Read, Leaving, Over, RunInv, AfterInv
<1>1. CASE End(result, ExitCodeForState(result.state))
  BY <1>0, <1>1, FinishKeeps
<1>2. CASE End(result, 8)
  BY <1>0, <1>2, FailureKeeps
<1> QED
  BY <1>1, <1>2 DEF Read

LEMMA LinkedKeeps == ASSUME RunInv, Linked PROVE RunInv'
<1>0. /\ ~Over /\ Leaving /\ UNCHANGED signalled /\ signalled = TRUE /\ Kept(result)
      /\ follow.at = "linking" /\ follow \in Follows
  BY ResultKept DEF Linked, Leaving, Over, RunInv, AfterInv, GivenInv, RaceInv
<1>1. CASE turn.runId # NoRun /\ InterruptRun(follow, [result EXCEPT !.runId = turn.runId], "signal")
  <2>1. PICK r : r = [result EXCEPT !.runId = turn.runId]
    OBVIOUS
  <2>2. Kept(r)
    BY <1>1, <2>1, CatchResult
  <2>3. r.runId # NoRun
    BY <1>1, <2>1 DEF RunInv, ResultOK, Results
  <2> QED
    BY <1>0, <1>1, <2>1, <2>2, <2>3, InterruptKeeps
<1>2. CASE End(result, 4) /\ UNCHANGED interruption
  BY <1>0, <1>2, SignalEndKeeps
<1> QED
  BY <1>1, <1>2 DEF Linked


LEMMA AcknowledgedKeeps == ASSUME RunInv, Acknowledged PROVE RunInv'
<1>0. /\ ~Over /\ Leaving /\ UNCHANGED <<interruption, signalled>> /\ Kept(result)
      /\ follow.at = "interrupting" /\ follow \in Follows /\ interruption.status \in {"acked", "failed"}
      /\ (signalled <=> follow.by # "deadline") /\ follow.by # "none" /\ signalled \in BOOLEAN
  BY ResultKept DEF Acknowledged, Leaving, Over, RunInv, AfterInv, RaceInv, GivenInv
<1>1. CASE follow.by = "acquiring"
  <2>1. End(result, 4) /\ signalled = TRUE
    BY <1>0, <1>1 DEF Acknowledged
  <2> QED
    BY <1>0, <2>1, SignalEndKeeps
<1>2. CASE follow.by # "acquiring" /\ interruption.status = "failed"
  <2>1. PICK r : r = [result EXCEPT !.runId = IF turn.runId # NoRun THEN turn.runId ELSE @]
    OBVIOUS
  <2>2. Kept(r)
    BY <2>1, CatchResult
  <2>3. CASE follow.by = "signal"
    <3>1. End(r, 4) /\ signalled = TRUE
      BY <1>0, <1>2, <2>1, <2>3 DEF Acknowledged
    <3> QED
      BY <1>0, <2>2, <3>1, SignalEndKeeps
  <2>4. CASE follow.by = "deadline"
    <3>1. End(r, 8) /\ ~signalled
      BY <1>0, <1>2, <2>1, <2>4 DEF Acknowledged
    <3> QED
      BY <1>0, <2>2, <3>1, FailureKeeps
  <2> QED
    BY <1>0, <1>2, <2>3, <2>4 DEF Follows
<1>3. CASE follow.by # "acquiring" /\ interruption.status # "failed"
  <2>1. follow' = [follow EXCEPT !.at = "grace"] /\ Stay /\ UNCHANGED result
    BY <1>3 DEF Acknowledged
  <2>2. /\ follow' \in Follows /\ follow'.at = "grace" /\ follow'.by = follow.by
        /\ follow'.winner = follow.winner /\ follow'.why = follow.why
    BY <1>0, <2>1 DEF Follows, FollowStates
  <2>3. follow.by \in {"signal", "deadline"}
    BY <1>0, <1>3 DEF Follows
  <2>4. AfterInv' /\ InterruptInv'
    BY <1>0, <1>3, <2>2, <2>3 DEF AfterInv, Over, RunInv, InterruptInv, Leaving, given
  <2> QED
    BY <1>0, <2>1, <2>2, <2>4, StayKeeps
<1> QED
  BY <1>1, <1>2, <1>3

\* The grace is over: the end of the run is confirmed, or is not waited for any more.
LEMMA GraceKeeps ==
  ASSUME RunInv, Leaving, UNCHANGED <<interruption, signalled>>, follow.at = "grace",
         End(result, IF follow.by = "signal" THEN 4 ELSE TimeoutExit)
  PROVE  RunInv'
<1>0. /\ ~Over /\ Kept(result) /\ interruption.status = "acked" /\ signalled \in BOOLEAN
      /\ (signalled <=> follow.by # "deadline") /\ follow.by \in {"signal", "deadline"}
      /\ interruption.by = IF follow.by = "deadline" THEN "deadline" ELSE "signal"
  BY ResultKept DEF Over, RunInv, AfterInv, InterruptInv, GivenInv
<1>1. CASE follow.by = "signal"
  <2>1. End(result, 4) /\ signalled = TRUE
    BY <1>0, <1>1
  <2> QED
    BY <1>0, <2>1, SignalEndKeeps
<1>2. CASE follow.by = "deadline"
  <2>1. CASE policy.onTimeout = "detach"
    <3>1. End(result, 5) /\ ~signalled
      BY <1>0, <1>2, <2>1 DEF TimeoutExit
    <3> QED
      BY <1>0, <3>1, FailureKeeps
  <2>2. CASE policy.onTimeout # "detach"
    <3>1. End(result, 6) /\ 6 \in Exits /\ 6 # 7
      BY <1>0, <1>2, <2>2 DEF TimeoutExit, Exits
    <3>2. ExitOK(log, turn, signalled', interruption, result, 6)
      BY <1>0, <1>2 DEF ExitOK
    <3> QED
      BY <1>0, <3>1, <3>2, ExitKeeps
  <2> QED
    BY <2>1, <2>2
<1> QED
  BY <1>0, <1>1, <1>2

LEMMA ConfirmedKeeps == ASSUME RunInv, Confirmed \/ GraceEnds PROVE RunInv'
<1>1. /\ Leaving /\ UNCHANGED <<interruption, signalled>> /\ follow.at = "grace"
      /\ End(result, IF follow.by = "signal" THEN 4 ELSE TimeoutExit)
  BY DEF Confirmed, GraceEnds, Leaving
<1> QED
  BY <1>1, GraceKeeps

LEMMA SecondSignalKeeps == ASSUME RunInv, SecondSignal PROVE RunInv'
<1>1. /\ ~Over /\ Leaving /\ UNCHANGED <<interruption, signalled>> /\ signalled = TRUE
      /\ Kept(result) /\ End(result, 4)
  BY ResultKept DEF SecondSignal, Leaving, RunInv, GivenInv
<1> QED
  BY <1>1, SignalEndKeeps

\* The deadline passes when nothing else is at hand.
LEMMA DeadlineKeeps == ASSUME RunInv, DeadlinePasses PROVE RunInv'
<1>0. /\ follow.at = "racing" /\ ~Ready /\ policy.onTimeout # "none" /\ deadline' = TRUE
      /\ follow \in Follows /\ follow' = Wins("deadline", 0)
      /\ UNCHANGED <<log, feed, turn, channels, given, pump, seen, result, answered, interruption, signalled>>
  BY DEF DeadlinePasses, RunInv, RaceInv, turnVars
<1>1. follow.winner = "none"
  BY <1>0 DEF Ready
<1>2. /\ follow' \in Follows /\ follow'.at = "racing" /\ follow'.winner = "deadline"
      /\ follow'.completed = follow.completed
  BY <1>0, <1>1 DEF Follows, Wins, Winner, Winners
<1>3. Quiet
  BY <1>0 DEF Quiet, Ready
<1>4. Quiet'
  BY <1>0, <1>2, <1>3 DEF Quiet, Buffer, given
<1>5. HandleInv'
  BY <1>0, SameHandle DEF RunInv
<1>6. GivenInv' /\ SeenInv' /\ ResultOK(log', target', result')
  BY <1>0 DEF RunInv, GivenInv, SeenInv, given
<1>7. RaceInv'
  BY <1>0, <1>1, <1>2, <1>4 DEF RunInv, RaceInv, given
<1>8. AfterInv'
  BY <1>2 DEF AfterInv, Over
<1>9. InterruptInv'
  BY <1>0, <1>2 DEF RunInv, InterruptInv, given
<1>10. PendingInv' /\ ExitInv'
  BY <1>0, <1>2 DEF RunInv, PendingInv, ExitInv, Over, given
<1> QED
  BY <1>5, <1>6, <1>7, <1>8, <1>9, <1>10 DEF RunInv

LEMMA SignalStepKeeps == ASSUME RunInv, Signal PROVE RunInv'
<1>0. /\ ~Over /\ ~signalled /\ ~Ready /\ signalled' = TRUE /\ Leaving /\ Kept(result)
      /\ follow \in Follows /\ pump \in Pumps
  BY ResultKept DEF Signal, Leaving, RunInv, RaceInv
<1>1. CASE \/ follow.at \in {"interrupting", "grace"} /\ follow.by = "deadline"
           \/ follow.at = "reading"
  <2>1. Catch(follow, 4, TRUE)
    BY <1>1 DEF Signal
  <2>2. PICK r : r = [result EXCEPT !.runId = IF turn.runId # NoRun THEN turn.runId ELSE @]
    OBVIOUS
  <2>3. InterruptForSignal(follow, r) /\ Kept(r)
    BY <2>1, <2>2, CatchResult DEF Catch
  <2> QED
    BY <1>0, <2>3, SignalKeeps
<1>2. CASE follow.at = "racing"
  <2>1. /\ follow' = Wins("signal", 0)
        /\ pump' = [pump EXCEPT !.at = IF @ = "answering" THEN "error" ELSE @]
        /\ UNCHANGED <<result, interruption, channels, feed>>
    BY <1>2 DEF Signal
  <2>2. follow.winner = "none"
    BY <1>0, <1>2 DEF Ready
  <2>3. follow' \in Follows /\ follow'.at = "racing" /\ follow'.winner = "signal"
    BY <1>0, <1>2, <2>1, <2>2 DEF Follows, Wins, Winner, Winners
  <2>4. pump' \in Pumps
    BY <1>0, <2>1 DEF Pumps, PumpStates
  <2>5. HandleInv'
    BY <1>0, <2>1, SameHandle DEF RunInv, Leaving
  <2>6. GivenInv' /\ SeenInv' /\ ResultOK(log', target', result')
    BY <1>0, <2>1 DEF RunInv, GivenInv, SeenInv, given, Leaving
  <2>7. RaceInv'
    BY <1>0, <2>3, <2>4 DEF RaceInv
  <2>8. AfterInv'
    BY <2>3 DEF AfterInv, Over
  <2>9. InterruptInv'
    BY <1>0, <1>2, <2>1, <2>3 DEF RunInv, InterruptInv, Leaving, given
  <2>10. PendingInv' /\ ExitInv'
    BY <1>0, <1>2, <2>1, <2>3 DEF RunInv, PendingInv, ExitInv, Over, Leaving, given
  <2> QED
    BY <2>5, <2>6, <2>7, <2>8, <2>9, <2>10 DEF RunInv
<1>3. CASE follow.at = "acquiring"
  <2>1. Stay /\ UNCHANGED <<follow, result, interruption>> /\ target = "thread"
    BY <1>0, <1>3 DEF Signal, Ready
  <2>2. HandleInv'
    BY <1>0, <2>1, SameHandle DEF RunInv, Leaving, Stay
  <2>3. GivenInv' /\ SeenInv' /\ ResultOK(log', target', result')
    BY <1>0, <2>1 DEF RunInv, GivenInv, SeenInv, given, Leaving
  <2>4. RaceInv'
    BY <1>0, <1>3, <2>1 DEF RunInv, RaceInv, Stay, Leaving, given
  <2>5. AfterInv'
    BY <1>3, <2>1 DEF AfterInv, Over
  <2>6. InterruptInv'
    BY <1>0, <2>1 DEF RunInv, InterruptInv, Leaving, given
  <2>7. PendingInv' /\ ExitInv'
    BY <1>0, <1>3, <2>1 DEF RunInv, PendingInv, ExitInv, Over, Leaving, given, Stay
  <2> QED
    BY <2>2, <2>3, <2>4, <2>5, <2>6, <2>7 DEF RunInv
<1>4. follow.at # "linking" /\ (follow.at \in {"interrupting", "grace"} => follow.by = "deadline")
  BY <1>0 DEF RunInv, AfterInv
<1> QED
  BY <1>0, <1>1, <1>2, <1>3, <1>4 DEF Over, Follows, FollowStates

\* The requests that interrupt the run are answered.
LEMMA RequestKeeps ==
  ASSUME RunInv, ActiveRunRead \/ InterruptAcked \/ InterruptFails
  PROVE  RunInv'
<1>0. /\ UNCHANGED <<log, feed, turn, channels, given, follow, pump, seen, result, answered, signalled, deadline>>
      /\ interruption.status \in {"reading", "sent"} /\ interruption \in Interruptions
  BY DEF ActiveRunRead, InterruptAcked, InterruptFails, turnVars, RunInv, InterruptInv
<1>1. /\ interruption' \in Interruptions /\ interruption'.by = interruption.by
      /\ interruption'.seen = interruption.seen /\ interruption'.status \in {"sent", "acked", "failed"}
      /\ \/ interruption'.run = interruption.run
         \/ interruption.status = "reading"
  <2>1. CASE ActiveRunRead
    <3>1. Told(log, Thread)
      BY LogTyped, SnapshotTold DEF Thread, RunInv, HandleInv, FeedInv
    <3>2. ActiveRun(Thread) \in Runs \cup {NoRun}
      BY <3>1, RunsSelected DEF RunInv, HandleInv, FeedInv
    <3>3. interruption.count = 0 /\ interruption.status = "reading"
      BY <2>1 DEF ActiveRunRead, RunInv, InterruptInv
    <3>4. PICK run \in Runs \cup {NoRun} : run = ActiveRun(Thread)
      BY <3>2
    <3>5. CASE run = NoRun
      <4>1. interruption' = [interruption EXCEPT !.status = "acked", !.run = run]
        BY <1>0, <2>1, <3>4, <3>5 DEF ActiveRunRead, Interruptions
      <4> QED
        BY <1>0, <3>3, <3>4, <4>1 DEF Interruptions
    <3>6. CASE run # NoRun
      <4>1. interruption' = [interruption EXCEPT !.status = "sent", !.run = run, !.count = 1]
        BY <1>0, <2>1, <3>3, <3>4, <3>6 DEF ActiveRunRead, Interruptions
      <4>2. /\ interruption'.status = "sent" /\ interruption'.run = run /\ interruption'.count = 1
            /\ interruption'.by = interruption.by /\ interruption'.seen = interruption.seen
        BY <1>0, <4>1 DEF Interruptions
      <4>3. interruption' \in Interruptions
        <5>1. 1 \in 0..1
          OBVIOUS
        <5> QED
          BY <1>0, <4>1, <5>1 DEF Interruptions
      <4> QED
        BY <3>3, <4>2, <4>3
    <3> QED
      BY <3>5, <3>6
  <2>2. CASE InterruptAcked
    BY <1>0, <2>2 DEF InterruptAcked, Interruptions
  <2>3. CASE InterruptFails
    BY <1>0, <2>3 DEF InterruptFails, Interruptions
  <2> QED
    BY <2>1, <2>2, <2>3
<1>2. HandleInv'
  BY <1>0, SameHandle DEF RunInv
<1>3. GivenInv' /\ SeenInv' /\ ResultOK(log', target', result')
  BY <1>0 DEF RunInv, GivenInv, SeenInv, given
<1>4. Quiet => Quiet'
  BY <1>0 DEF Quiet, Buffer, given
<1>5. RaceInv'
  BY <1>0, <1>4 DEF RunInv, RaceInv, given
<1>6. follow.at # "grace"
  BY <1>0 DEF RunInv, AfterInv
<1>7. AfterInv'
  BY <1>0, <1>6 DEF RunInv, AfterInv, Over
<1>8. InterruptInv'
  BY <1>0, <1>1 DEF RunInv, InterruptInv, given
<1>9. PendingInv'
  BY <1>0 DEF RunInv, PendingInv, given
<1>10. ExitInv'
  BY <1>0, <1>1 DEF RunInv, ExitInv, ExitOK, Over
<1> QED
  BY <1>2, <1>3, <1>5, <1>7, <1>8, <1>9, <1>10 DEF RunInv


\* What the command knows stays true while the log grows.
LEMMA KnownStays ==
  ASSUME RunInv, Grown, UNCHANGED <<turn, mine>>, HandleInv'
  PROVE  /\ GivenInv' /\ SeenInv' /\ ResultOK(log', target', result') /\ AfterInv' /\ InterruptInv'
         /\ PendingInv' /\ ExitInv'
<1>0. FeedInv /\ UNCHANGED <<given, target, policy, follow, pump, seen, result, answered, interruption, signalled, deadline>>
  BY DEF RunInv, HandleInv, mine, given
<1>1. \A run \in Runs \cup {NoRun} : run # NoRun /\ run \in Took(ThreadAt(log, Len(log)))
                                       => run \in Took(ThreadAt(log', Len(log')))
  BY <1>0, GrownKeeps DEF Ours
<1>2. GivenInv'
  BY <1>0 DEF RunInv, GivenInv
<1>3. SeenInv'
  BY <1>0, EndsStay DEF RunInv, SeenInv
<1>4. ResultOK(log', target', result')
  BY <1>0, <1>1, EndsStay DEF RunInv, ResultOK, Results
<1>5. AfterInv'
  BY <1>0 DEF RunInv, AfterInv, Over
<1>6. InterruptInv'
  BY <1>0, <1>1 DEF RunInv, InterruptInv, Interruptions
<1>7. PendingInv'
  <2>1. \A open : NeedCaller(log, answered, open) => NeedCaller(log', answered, open)
    BY <1>0, EndsStay DEF NeedCaller
  <2> QED
    BY <1>0, <2>1 DEF RunInv, PendingInv
<1>8. ExitInv'
  <2>1. \A run, state : state \in TerminalStatus /\ EndedAs(log, run, state) => EndedAs(log', run, state)
    BY <1>0, EndsStay DEF EndedAs, EndIsTrue
  <2>2. \A t, s, int, r, code : ExitOK(log, t, s, int, r, code) => ExitOK(log', t, s, int, r, code)
    BY <2>1 DEF ExitOK, TerminalStatus
  <2> QED
    BY <1>0, <2>2 DEF RunInv, ExitInv, Over
<1> QED
  BY <1>2, <1>3, <1>4, <1>5, <1>6, <1>7, <1>8

\* The server writes, or the watch hands over or stops.
LEMMA WatchKeeps ==
  ASSUME RunInv, Server \/ Stops \/ Loads \/ Snapshots \/ Delivers
  PROVE  RunInv'
<1>1. UNCHANGED <<turn, channels, mine>> /\ (feed' = feed \/ ~Interrupted)
  BY DEF Server, Stops, Loads, Snapshots, Delivers, turnVars, Emit
<1>2. HandleInv'
  BY WorldKeeps DEF RunInv, Server, Stops, Loads, Snapshots, Delivers, Feeds
<1>3. Grown
  <2>1. CASE Emit
    BY <2>1, EmitGrows DEF RunInv, HandleInv
  <2>2. CASE UNCHANGED log
    BY <2>2, SameLogGrown DEF RunInv, HandleInv
  <2> QED
    BY <2>1, <2>2 DEF Server, Stops, Loads, Snapshots, Delivers, FeedStops, FeedLoads, FeedSnapshot, FeedEvent
<1>4. follow.at = "racing" /\ follow.winner = "deadline" => UNCHANGED feed
  BY <1>1 DEF Interrupted
<1>5. UNCHANGED feed /\ Quiet => Quiet'
  BY <1>1 DEF Quiet, Buffer, mine, given
<1>6. RaceInv'
  BY <1>1, <1>4, <1>5 DEF RunInv, RaceInv, mine, given
<1> QED
  BY <1>1, <1>2, <1>3, <1>6, KnownStays DEF RunInv

\* The handle tracks an item, leaves its loop or is told that the watch has ended.
LEMMA HandleStepKeeps == ASSUME RunInv, Handle PROVE RunInv'
<1>0. UNCHANGED <<log, given, follow, pump, seen, result, answered, interruption, signalled, deadline>>
  BY DEF Handle, mine, Track, Leave, WatchStops
<1>1. HandleInv'
  BY TrackKeeps, LeaveKeeps, WatchStopsKeeps DEF RunInv, Handle
<1>2. target = "turn" /\ turn \in Turns /\ channels \in [Consumers -> Channels] /\ Follower \in Consumers
  BY FollowAssumption DEF RunInv, GivenInv, HandleInv, TurnInv, TurnOK, Handle, Track, Leave, WatchStops
<1>3. turn.outcome # Pending => turn'.outcome = turn.outcome
  <2>1. turn.outcome # Pending => turn.watch \in {"leaving", "over"}
    BY DEF RunInv, HandleInv, TurnInv, TurnOK
  <2> QED
    BY <1>2, <2>1 DEF Handle, Track, Leave, WatchStops, Turns
<1>4. RejectedAs("interrupted") # Pending
  BY OutcomeKinds
<1>5. Quiet => Quiet'
  <2>1. CASE Track
    <3>1. turn.watch = "running" /\ feed.out # <<>>
      BY <2>1 DEF Track
    <3> QED
      BY <3>1 DEF Quiet
  <2>2. CASE Leave \/ WatchStops
    <3>1. channels' = EndChannels
      BY <2>2 DEF Leave, WatchStops
    <3>2. EndChannels[Follower].buffer = channels[Follower].buffer
      BY <1>2, EndChannelsGives
    <3>3. Buffer' = Buffer
      BY <1>0, <1>2, <3>1, <3>2 DEF Buffer, given
    <3>4. turn'.watch = "over" /\ (turn'.outcome.kind = "settled" => turn.outcome.kind = "settled")
      <4>1. CASE Leave
        BY <1>2, <4>1 DEF Leave, Turns
      <4>2. CASE WatchStops
        <5>1. PICK why : turn' = [turn EXCEPT !.watch = "over", !.done = TRUE, !.outcome = RejectedAs(why)]
          BY <4>2 DEF WatchStops
        <5> QED
          BY <1>2, <5>1 DEF RejectedAs, Turns
      <4> QED
        BY <2>2, <4>1, <4>2
    <3> QED
      BY <1>0, <3>3, <3>4 DEF Quiet, given
  <2> QED
    BY <2>1, <2>2 DEF Handle
<1>6. RaceInv'
  BY <1>0, <1>3, <1>4, <1>5 DEF RunInv, RaceInv, given
<1>7. GivenInv' /\ SeenInv' /\ ResultOK(log', target', result') /\ AfterInv' /\ InterruptInv' /\ PendingInv'
  BY <1>0, <1>2 DEF RunInv, GivenInv, SeenInv, AfterInv, InterruptInv, PendingInv, Over, given
<1>8. ExitInv'
  <2>1. \A s, int, r, code : ExitOK(log, turn, s, int, r, code) => ExitOK(log, turn', s, int, r, code)
    BY <1>3, <1>4 DEF ExitOK
  <2> QED
    BY <1>0, <2>1 DEF RunInv, ExitInv, Over
<1> QED
  BY <1>1, <1>6, <1>7, <1>8 DEF RunInv


-----------------------------------------------------------------------------
(* The command: the loop over the items *)

\* The run selected took the message, and is the one selected before, if there was one.
RunOK(run) ==
  /\ run \in Runs \cup {NoRun}
  /\ target # "thread" /\ run # NoRun => run \in Took(ThreadAt(log, Len(log)))
  /\ target = "run" => run # NoRun
  /\ result.runId # NoRun => run = result.runId

LEMMA RunFollowed ==
  ASSUME RunInv
  PROVE  /\ target = "turn" /\ turn.runId # NoRun => RunOK(turn.runId)
         /\ RunOK(result.runId)
<1>0. /\ log \in Histories /\ Len(log) \in 0..Len(log) /\ Ours(log, turn.runId)
      /\ ResultOK(log, target, result) /\ result \in Results
  BY LogTyped DEF RunInv, HandleInv, FeedInv, TurnInv, TurnOK, ResultOK
<1>1. RunOK(result.runId)
  BY <1>0 DEF RunOK, ResultOK, Results
<1>2. ASSUME target = "turn", turn.runId # NoRun PROVE RunOK(turn.runId)
  <2>1. turn.runId \in Runs /\ turn.runId \in Took(ThreadAt(log, Len(log)))
    BY <1>0, <1>2 DEF Ours
  <2>2. result.runId # NoRun => turn.runId = result.runId
    BY <1>0, <1>2, <2>1, TookOne DEF ResultOK
  <2> QED
    BY <1>2, <2>1, <2>2 DEF RunOK
<1> QED
  BY <1>1, <1>2

LEMMA SelectsOurs == ASSUME RunInv, NEW p, Told(log, p) PROVE RunOK(SelectedRun(p))
<1>1. CASE target = "turn"
  BY <1>1, RunFollowed DEF SelectedRun
<1>2. CASE target # "turn" /\ result.runId # NoRun
  BY <1>2, RunFollowed DEF SelectedRun
<1>3. CASE target # "turn" /\ result.runId = NoRun
  <2>1. target = "thread"
    BY <1>3 DEF RunInv, GivenInv, TargetKinds, ResultOK
  <2>2. SelectedRun(p) \in Runs \cup {NoRun}
    BY <1>3, RunsSelected DEF SelectedRun, RunInv, HandleInv, FeedInv
  <2> QED
    BY <1>3, <2>1, <2>2 DEF RunOK
<1> QED
  BY <1>1, <1>2, <1>3

LEMMA ViewTold == ASSUME RunInv, NEW item, Sound(log, item) PROVE Told(log, View(item))
<1>0. log \in Histories /\ Len(log) \in Nat /\ Told(log, seen.thread)
  BY LogTyped DEF RunInv, HandleInv, FeedInv, SeenInv
<1>1. CASE item.kind = "snapshot"
  <2>1. item.at \in 0..Len(log)
    BY <1>0 DEF Sound, FeedItems
  <2> QED
    BY <1>0, <1>1, <2>1, SnapshotTold DEF View
<1>2. CASE item.kind = "event" /\ seen.known
  BY <1>0, <1>2, EventTold DEF View, Sound
<1>3. CASE ~(item.kind = "snapshot") /\ ~(item.kind = "event" /\ seen.known)
  BY <1>0, <1>3 DEF View
<1> QED
  BY <1>1, <1>2, <1>3

\* What an item is observed to say is true, and a run that it shows to have ended settles
\* the observation.
LEMMA ObserveKeeps ==
  ASSUME RunInv, NEW item, Sound(log, item), NEW o, o = Observe(item)
  PROVE  /\ o.seen \in Views /\ Told(log, o.seen.thread)
         /\ ResultOK(log, target, o.result) /\ o.result.exit = result.exit
         /\ result.runId # NoRun => o.result.runId = result.runId
         /\ Finished(o.result.state) =>
              o.seen.outcome # "none" \/ o.result.state = "idle" \/ Finished(result.state)
<1> DEFINE known   == seen.known \/ item.kind = "snapshot"
           p       == View(item)
           run     == IF known THEN SelectedRun(p)
                      ELSE IF target = "turn" /\ turn.runId # NoRun THEN turn.runId ELSE result.runId
           found   == known /\ run # NoRun /\ p.runs[run] # "none"
           settles == Settles(item, run)
           state   == CASE settles -> log[item.at].status
                        [] ~settles /\ found -> p.runs[run]
                        [] ~settles /\ known /\ run = NoRun /\ target # "turn" -> "idle"
                        [] OTHER -> result.state
           outcome == CASE settles -> log[item.at].status
                        [] ~settles /\ found -> OutcomeOf(p, run)
                        [] OTHER -> seen.outcome
           upTo    == Max({seen.upTo, item.at})
           pending == IF known THEN OpenRequests(p, run) ELSE result.pending
<1>0. /\ log \in Histories /\ seen \in Views /\ result \in Results /\ ResultOK(log, target, result)
      /\ item.at \in Nat
  BY DEF RunInv, HandleInv, FeedInv, SeenInv, ResultOK, Sound, FeedItems
<1>1. /\ o.seen = [known |-> known, thread |-> p, outcome |-> outcome, upTo |-> upTo]
      /\ o.result = [result EXCEPT !.runId = run, !.state = state, !.pending = pending]
  BY DEF Observe
<1>2. Told(log, p) /\ p \in Threads
  BY ViewTold DEF Told
<1>3. RunOK(run)
  BY <1>2, SelectsOurs, RunFollowed
<1>4. known \in BOOLEAN
  BY <1>0 DEF Views
<1>5. upTo \in Int
  BY <1>0, MaxOfTwo DEF Views
<1>6. pending \subseteq Requests
  BY <1>0 DEF OpenRequests, Results
<1> HIDE DEF known, p, run, pending, upTo
<1>7. settles => /\ log[item.at].status \in TerminalStatus /\ run \in Runs
                 /\ EndIsTrue(log, run, log[item.at].status)
  <2>1. ASSUME settles
        PROVE  /\ log[item.at].status \in TerminalStatus /\ run \in Runs
               /\ EndIsTrue(log, run, log[item.at].status)
    <3>1. /\ item.at \in DOMAIN log /\ log[item.at].type = "run"
          /\ log[item.at].status \in TerminalStatus /\ log[item.at].id = run
      BY <2>1 DEF Settles, Sound
    <3>2. run \in Runs /\ ThreadAt(log, Len(log)).runs[run] = log[item.at].status
      BY <1>0, <3>1, EndTells
    <3> QED
      BY <3>1, <3>2 DEF EndIsTrue
  <2> QED
    BY <2>1
<1>8. found => /\ run \in Runs /\ p.runs[run] \in RunStatus /\ EndIsTrue(log, run, p.runs[run])
               /\ OutcomeOf(p, run) = IF p.runs[run] \in TerminalStatus THEN p.runs[run] ELSE "none"
  BY <1>2, <1>3 DEF Told, Threads, RunOK, OutcomeOf
<1>9. TerminalStatus \subseteq RunStatus /\ "none" \notin TerminalStatus
  BY DEF TerminalStatus, RunStatus
<1> HIDE DEF settles, found
<1>10. state \in ResultStates /\ EndIsTrue(log, run, state)
  <2>1. CASE settles
    BY <1>7, <1>9, <2>1 DEF ResultStates
  <2>2. CASE ~settles /\ found
    <3>1. state = p.runs[run]
      BY <1>8, <2>2, RunsAreNamed
    <3>2. p.runs[run] \in ResultStates /\ EndIsTrue(log, run, p.runs[run])
      BY <1>8, <2>2 DEF ResultStates
    <3> HIDE DEF state
    <3> QED
      BY <3>1, <3>2
  <2>3. CASE ~settles /\ ~found /\ known /\ run = NoRun /\ target # "turn"
    BY <2>3 DEF ResultStates, EndIsTrue, TerminalStatus, found
  <2>4. CASE ~settles /\ ~found /\ ~(known /\ run = NoRun /\ target # "turn")
    <3>1. state = result.state
      BY <2>4
    <3>2. result.runId # NoRun => run = result.runId
      BY <1>3 DEF RunOK
    <3>3. EndIsTrue(log, result.runId, result.state)
      BY <1>0 DEF ResultOK
    <3>4. EndIsTrue(log, run, result.state)
      BY <3>2, <3>3, RunsAreNamed DEF EndIsTrue
    <3> QED
      BY <1>0, <3>1, <3>4 DEF Results
  <2> QED
    BY <2>1, <2>2, <2>3, <2>4
<1>11. outcome \in {"none"} \cup TerminalStatus
  BY <1>0, <1>7, <1>8 DEF Views
<1>12. Finished(state) => outcome # "none" \/ state = "idle" \/ Finished(result.state)
  <2>1. CASE settles
    BY <1>7, <1>9, <2>1
  <2>2. CASE ~settles /\ found
    BY <1>8, <1>9, <2>2 DEF Finished, RunStatus
  <2>3. CASE ~settles /\ ~found
    BY <2>3
  <2> QED
    BY <2>1, <2>2, <2>3
<1> HIDE DEF state, outcome
<1>13. o.seen \in Views /\ o.seen.thread = p /\ o.seen.outcome = outcome
  BY <1>1, <1>2, <1>4, <1>5, <1>11 DEF Views
<1>14. /\ o.result \in Results /\ o.result.runId = run /\ o.result.state = state
       /\ o.result.exit = result.exit
  BY <1>0, <1>1, <1>3, <1>6, <1>10 DEF Results, RunOK
<1>15. ResultOK(log, target, o.result)
  BY <1>3, <1>10, <1>14 DEF ResultOK, RunOK
<1> QED
  BY <1>2, <1>3, <1>12, <1>13, <1>14, <1>15 DEF RunOK


LEMMA WinsGives ==
  ASSUME follow \in Follows, NEW reason \in Winners \ {"none"}, NEW code \in {0, 1, 4, 8}
  PROVE  /\ Wins(reason, code) \in Follows
         /\ Wins(reason, code).at = follow.at /\ Wins(reason, code).by = follow.by
         /\ Wins(reason, code).completed = follow.completed
         /\ Wins(reason, code).winner = IF follow.winner = "none" THEN reason ELSE follow.winner
         /\ Wins(reason, code).why = IF follow.winner = "none" THEN code ELSE follow.why
BY DEF Wins, Winner, Follows

\* The race has the winner it had, or its first.
Raced ==
  /\ follow' \in Follows /\ follow'.at = follow.at /\ follow'.by = follow.by
  /\ \/ follow'.winner = follow.winner /\ follow'.why = follow.why
     \/ /\ follow.winner = "none" /\ follow'.winner \in {"terminal", "pending", "error"}
        /\ follow'.winner = "error" =>
             follow'.why # 0 /\ (follow'.why = 4 => turn.outcome = RejectedAs("interrupted"))

LEMMA RacedOn ==
  ASSUME follow \in Follows, NEW reason \in {"terminal", "pending", "error"}, NEW code \in {0, 1, 4, 8},
         follow' = Wins(reason, code),
         reason = "error" => code # 0 /\ (code = 4 => turn.outcome = RejectedAs("interrupted"))
  PROVE  /\ Raced /\ follow'.winner # "none"
         /\ follow'.winner \in {follow.winner, reason}
BY WinsGives DEF Raced, Winners

\* The step of the loop is done and keeps the invariant, if it keeps these parts.
LEMMA PumpKeeps ==
  ASSUME RunInv, ~Over, follow.at # "acquiring", HandleInv',
         UNCHANGED <<log, turn, given, interruption, signalled, deadline>>,
         seen' \in Views, Told(log, seen'.thread), ResultOK(log, target, result'),
         result'.exit = result.exit, answered' \subseteq Requests \ UserInputs,
         pump' \in Pumps, Raced, PendingInv',
         follow.at = "racing" /\ follow'.winner \in {"none", "deadline"} => ~Finished(result'.state),
         follow.at = "racing" /\ follow'.winner = "deadline" => Quiet'
  PROVE  RunInv'
<1>1. GivenInv' /\ SeenInv' /\ ResultOK(log', target', result')
  BY DEF RunInv, GivenInv, SeenInv, given
<1>2. RaceInv'
  BY DEF RunInv, RaceInv, Raced, given
<1>3. AfterInv'
  BY DEF RunInv, AfterInv, Raced, Over
<1>4. InterruptInv'
  BY DEF RunInv, InterruptInv, Raced, given
<1>5. ExitInv'
  BY DEF RunInv, ExitInv, Raced, Over
<1> QED
  BY <1>1, <1>2, <1>3, <1>4, <1>5 DEF RunInv

\* The loop answers an approval, reports what needs the caller, or goes on.
LEMMA RequestsKeep ==
  ASSUME RunInv, ~Over, follow.at # "acquiring", pump.at \in {"pulling", "answering"}, HandleInv',
         ~(follow.at = "racing" /\ follow.winner = "deadline"),
         UNCHANGED <<log, turn, given, interruption, signalled, deadline>>,
         seen' \in Views, Told(log, seen'.thread),
         NEW r, ResultOK(log, target, r), r.exit = result.exit,
         NEW open \in SUBSET Requests, HandleRequests(r, seen'.thread, open),
         follow.at = "racing" /\ follow.winner = "none" => ~Finished(r.state)
  PROVE  RunInv'
<1>0. /\ follow \in Follows /\ pump \in Pumps /\ answered \subseteq Requests \ UserInputs
      /\ result.exit = -1 /\ follow.winner # "pending" /\ r \in Results
  BY DEF RunInv, RaceInv, GivenInv, ExitInv, PendingInv, ResultOK
<1>1. CASE ToAnswer(open) # {}
  <2>1. PICK q \in ToAnswer(open) :
          /\ answered' = answered \cup {q}
          /\ pump' = [at |-> "answering", open |-> open, asked |-> {q}]
          /\ result' = r /\ UNCHANGED follow
    BY <1>1 DEF HandleRequests
  <2>2. q \in Requests \ UserInputs
    BY DEF ToAnswer
  <2>3. pump' \in Pumps /\ answered' \subseteq Requests \ UserInputs
    BY <1>0, <2>1, <2>2 DEF Pumps, PumpStates
  <2>4. PendingInv'
    BY <1>0, <2>1 DEF PendingInv
  <2>5. Raced
    BY <1>0, <2>1 DEF Raced
  <2> QED
    BY <1>0, <2>1, <2>3, <2>4, <2>5, PumpKeeps
<1>2. CASE ToAnswer(open) = {} /\ Unresolved(open, seen'.thread) # {} /\ policy.onRequest = "fail"
  <2>1. PICK unresolved : unresolved = Unresolved(open, seen'.thread)
    OBVIOUS
  <2>2. /\ UNCHANGED answered /\ result' = [r EXCEPT !.pending = unresolved]
        /\ pump' = [pump EXCEPT !.at = "pending", !.asked = {}] /\ follow' = Wins("pending", 0)
    BY <1>2, <2>1 DEF HandleRequests
  <2>3. /\ unresolved # {} /\ unresolved \subseteq Requests /\ unresolved \cap answered = {}
        /\ unresolved \cap UserInputs \subseteq seen'.thread.items
    BY <1>2, <2>1 DEF Unresolved
  <2>4. NeedCaller(log, answered, unresolved)
    BY <2>3 DEF NeedCaller, Told
  <2>5. /\ result' \in Results /\ result'.runId = r.runId /\ result'.state = r.state
        /\ result'.exit = r.exit /\ result'.pending = unresolved
    BY <1>0, <2>2, <2>3 DEF Results
  <2>6. ResultOK(log, target, result')
    BY <2>5 DEF ResultOK
  <2>7. pump' \in Pumps /\ pump'.at = "pending"
    BY <1>0, <2>2 DEF Pumps, PumpStates
  <2>8. Raced /\ follow'.winner # "none" /\ follow'.winner \in {follow.winner, "pending"}
    BY <1>0, <2>2, RacedOn
  <2>9. PendingInv'
    BY <1>0, <1>2, <2>2, <2>4, <2>5, <2>7 DEF PendingInv, given
  <2> QED
    BY <1>0, <2>2, <2>5, <2>6, <2>7, <2>8, <2>9, PumpKeeps
<1>3. CASE ToAnswer(open) = {} /\ ~(Unresolved(open, seen'.thread) # {} /\ policy.onRequest = "fail")
  <2>1. /\ UNCHANGED <<answered, follow>> /\ result' = r
        /\ pump' = [pump EXCEPT !.at = "pulling", !.asked = {}]
    BY <1>3 DEF HandleRequests
  <2>2. pump' \in Pumps
    BY <1>0, <2>1 DEF Pumps, PumpStates
  <2>3. PendingInv'
    BY <1>0, <2>1 DEF PendingInv
  <2>4. Raced
    BY <1>0, <2>1 DEF Raced
  <2> QED
    BY <1>0, <2>1, <2>2, <2>3, <2>4, PumpKeeps
<1> QED
  BY <1>1, <1>2, <1>3

LEMMA PumpItemKeeps == ASSUME RunInv, PumpItem PROVE RunInv'
<1> DEFINE item == Head(Buffer)
           o == Observe(item)
<1>0. /\ pump.at = "pulling" /\ Buffer # <<>> /\ ~Over /\ follow.at # "acquiring"
      /\ UNCHANGED <<log, turn, given, interruption, signalled, deadline>>
      /\ follow \in Follows /\ pump \in Pumps /\ answered \subseteq Requests \ UserInputs
      /\ result.exit = -1 /\ follow.winner # "pending"
  BY DEF PumpItem, RunInv, RaceInv, AfterInv, GivenInv, ExitInv, PendingInv
<1>1. HandleInv' /\ Sound(log, item)
  BY TakeHandle DEF PumpItem, RunInv
<1>2. ~(follow.at = "racing" /\ follow.winner = "deadline")
  BY <1>0 DEF RunInv, RaceInv, Quiet
<1>3. /\ o.seen \in Views /\ Told(log, o.seen.thread)
      /\ ResultOK(log, target, o.result) /\ o.result.exit = result.exit
      /\ Finished(o.result.state) =>
           o.seen.outcome # "none" \/ o.result.state = "idle" \/ Finished(result.state)
  BY <1>1, ObserveKeeps
<1>4. follow.at = "racing" /\ follow.winner = "none" => ~Finished(result.state)
  BY DEF RunInv, RaceInv
<1> HIDE DEF o
<1>5. CASE item.kind = "decode-error"
  <2>1. /\ pump' = [pump EXCEPT !.at = "error"] /\ follow' = Wins("error", 1)
        /\ UNCHANGED <<seen, result, answered>>
    BY <1>5 DEF PumpItem
  <2>2. pump' \in Pumps
    BY <1>0, <2>1 DEF Pumps, PumpStates
  <2>3. Raced /\ follow'.winner # "none" /\ follow'.winner \in {follow.winner, "error"}
    BY <1>0, <2>1, RacedOn
  <2>4. PendingInv'
    BY <1>0, <2>1, <2>3 DEF PendingInv
  <2> QED
    BY <1>0, <1>1, <1>2, <2>1, <2>2, <2>3, <2>4, PumpKeeps DEF RunInv, SeenInv
<1>6. CASE item.kind # "decode-error" /\ (o.seen.outcome # "none" \/ o.result.state = "idle")
  <2>1. /\ pump' = [pump EXCEPT !.at = "terminal"] /\ follow' = Wins("terminal", 0)
        /\ seen' = o.seen /\ result' = o.result /\ UNCHANGED answered
    BY <1>6 DEF PumpItem, o
  <2>2. pump' \in Pumps
    BY <1>0, <2>1 DEF Pumps, PumpStates
  <2>3. Raced /\ follow'.winner # "none" /\ follow'.winner \in {follow.winner, "terminal"}
    BY <1>0, <2>1, RacedOn
  <2>4. PendingInv'
    BY <1>0, <1>3, <2>1, <2>3 DEF PendingInv
  <2> QED
    BY <1>0, <1>1, <1>2, <1>3, <2>1, <2>2, <2>3, <2>4, PumpKeeps
<1>7. CASE /\ item.kind # "decode-error" /\ o.seen.outcome = "none" /\ o.result.state # "idle"
           /\ follow.stopping
  <2>1. seen' = o.seen /\ result' = o.result /\ UNCHANGED <<pump, follow, answered>>
    BY <1>7 DEF PumpItem, o
  <2>2. Raced
    BY <1>0, <2>1 DEF Raced
  <2>3. PendingInv'
    BY <1>0, <1>3, <2>1 DEF PendingInv
  <2> QED
    BY <1>0, <1>1, <1>2, <1>3, <1>4, <1>7, <2>1, <2>2, <2>3, PumpKeeps
<1>8. CASE /\ item.kind # "decode-error" /\ o.seen.outcome = "none" /\ o.result.state # "idle"
           /\ ~follow.stopping
  <2>1. seen' = o.seen /\ HandleRequests(o.result, o.seen.thread, o.result.pending)
    BY <1>8 DEF PumpItem, o
  <2>2. o.result.pending \in SUBSET Requests
    BY <1>3 DEF ResultOK, Results
  <2>3. follow.at = "racing" /\ follow.winner = "none" => ~Finished(o.result.state)
    BY <1>3, <1>4, <1>8
  <2>4. HandleRequests(o.result, seen'.thread, o.result.pending) /\ pump.at \in {"pulling", "answering"}
    BY <1>0, <2>1
  <2>5. seen' \in Views /\ Told(log, seen'.thread)
    BY <1>3, <2>1
  <2> QED
    BY <1>0, <1>1, <1>2, <1>3, <2>2, <2>3, <2>4, <2>5, RequestsKeep
<1> QED
  BY <1>5, <1>6, <1>7, <1>8

LEMMA PumpEndsKeeps == ASSUME RunInv, PumpEnds PROVE RunInv'
<1>0. /\ pump.at = "pulling" /\ ~Over /\ follow.at # "acquiring"
      /\ UNCHANGED <<log, feed, turn, channels, given, seen, result, answered, interruption, signalled, deadline>>
      /\ follow \in Follows /\ pump \in Pumps /\ answered \subseteq Requests \ UserInputs
      /\ result.exit = -1 /\ follow.winner # "pending"
      /\ ResultOK(log, target, result) /\ seen \in Views /\ Told(log, seen.thread)
  BY DEF PumpEnds, RunInv, RaceInv, AfterInv, GivenInv, ExitInv, PendingInv, SeenInv, turnVars
<1>1. HandleInv'
  BY <1>0, SameHandle DEF RunInv
<1>2. PICK reason \in {"terminal", "error"}, code \in {0, 1, 8} :
        /\ pump' = [pump EXCEPT !.at = reason] /\ follow' = Wins(reason, code)
        /\ reason = "error" => code # 0
  BY DEF PumpEnds
<1>3. pump' \in Pumps /\ pump'.at = reason
  BY <1>0, <1>2 DEF Pumps, PumpStates
<1>4. Raced /\ follow'.winner # "none" /\ follow'.winner \in {follow.winner, reason}
  BY <1>0, <1>2, RacedOn
<1>5. PendingInv'
  BY <1>0, <1>4 DEF PendingInv
<1>6. follow.at = "racing" /\ follow'.winner = "deadline" => ~Finished(result'.state) /\ Quiet'
  <2>1. follow'.winner = "deadline" => follow.winner = "deadline"
    BY <1>4
  <2>2. Quiet => Quiet'
    <3>1. follow'.completed = follow.completed
      BY <1>0, <1>2, WinsGives DEF Winners
    <3> QED
      BY <1>0, <1>2, <1>3, <3>1 DEF Quiet, given
  <2> QED
    BY <1>0, <2>1, <2>2 DEF RunInv, RaceInv
<1> QED
  BY <1>0, <1>1, <1>3, <1>4, <1>5, <1>6, PumpKeeps

LEMMA AnswerKeeps == ASSUME RunInv, Answered \/ AnswerFails, ~Interrupted PROVE RunInv'
<1>0. /\ pump.at = "answering" /\ ~Over /\ follow.at # "acquiring"
      /\ UNCHANGED <<log, feed, turn, channels, given, seen, interruption, signalled, deadline>>
      /\ follow \in Follows /\ pump \in Pumps /\ answered \subseteq Requests \ UserInputs
      /\ result.exit = -1 /\ follow.winner # "pending"
      /\ ResultOK(log, target, result) /\ seen \in Views /\ Told(log, seen.thread)
      /\ ~(follow.at = "racing" /\ follow.winner = "deadline")
  BY DEF Answered, AnswerFails, Interrupted, RunInv, RaceInv, AfterInv, GivenInv, ExitInv, PendingInv,
         SeenInv, turnVars
<1>1. HandleInv'
  BY <1>0, SameHandle DEF RunInv
<1>2. CASE Answered
  <2>1. HandleRequests(result, seen'.thread, pump.open) /\ pump.open \in SUBSET Requests
    BY <1>0, <1>2 DEF Answered, Pumps
  <2>2. follow.at = "racing" /\ follow.winner = "none" => ~Finished(result.state)
    BY DEF RunInv, RaceInv
  <2> QED
    BY <1>0, <1>1, <2>1, <2>2, RequestsKeep
<1>3. CASE AnswerFails
  <2>1. /\ pump' = [pump EXCEPT !.at = "error"] /\ follow' = Wins("error", 1)
        /\ UNCHANGED <<result, answered>>
    BY <1>3 DEF AnswerFails
  <2>2. pump' \in Pumps
    BY <1>0, <2>1 DEF Pumps, PumpStates
  <2>3. Raced /\ follow'.winner # "none" /\ follow'.winner \in {follow.winner, "error"}
    BY <1>0, <2>1, RacedOn
  <2>4. PendingInv'
    BY <1>0, <2>1, <2>3 DEF PendingInv
  <2> QED
    BY <1>0, <1>1, <2>1, <2>2, <2>3, <2>4, PumpKeeps
<1> QED
  BY <1>2, <1>3


\* The completion promise of the handle settles.
LEMMA CompletesKeeps == ASSUME RunInv, Completes PROVE RunInv'
<1>0. /\ target = "turn" /\ ~follow.completed /\ follow.at # "acquiring" /\ turn.outcome.kind # "pending"
      /\ UNCHANGED <<log, feed, turn, channels, given, pump, answered, interruption, signalled, deadline>>
      /\ follow \in Follows /\ pump \in Pumps /\ answered \subseteq Requests \ UserInputs
      /\ ResultOK(log, target, result) /\ result \in Results /\ seen \in Views /\ Told(log, seen.thread)
      /\ turn.outcome \in Outcomes /\ True(log, turn.outcome) /\ log \in Histories
      /\ signalled \in BOOLEAN
  BY DEF Completes, RunInv, RaceInv, GivenInv, SeenInv, turnVars, ResultOK, HandleInv, TurnInv, TurnOK,
         Turns, FeedInv
<1>1. HandleInv'
  BY <1>0, SameHandle DEF RunInv
<1>2. PICK reason \in {"terminal", "error"}, code \in {0, 1, 4, 8} :
        /\ follow' = [Wins(reason, code) EXCEPT !.completed = TRUE]
        /\ reason = "error" <=> turn.outcome.kind # "settled"
        /\ reason = "error" => code # 0 /\ (code = 4 => turn.outcome.state = "interrupted")
  BY DEF Completes
<1>3. reason = "error" /\ code = 4 => turn.outcome = RejectedAs("interrupted")
  <2>1. ASSUME reason = "error", code = 4 PROVE turn.outcome = RejectedAs("interrupted")
    <3>1. PICK why \in {"interrupted", "connection", "rpc"} : turn.outcome = RejectedAs(why)
      BY <1>0, <1>2, <2>1, OutcomeKinds DEF Outcomes
    <3>2. why = "interrupted"
      BY <1>2, <2>1, <3>1 DEF RejectedAs
    <3> QED
      BY <3>1, <3>2
  <2> QED
    BY <2>1
<1>4. /\ Raced /\ follow'.winner # "none" /\ follow'.winner \in {follow.winner, reason}
      /\ follow'.completed
  <2>1. PICK w : w = Wins(reason, code)
    OBVIOUS
  <2>2. /\ w \in Follows /\ w.at = follow.at /\ w.by = follow.by
        /\ w.winner = IF follow.winner = "none" THEN reason ELSE follow.winner
        /\ w.why = IF follow.winner = "none" THEN code ELSE follow.why
    BY <1>0, <2>1, WinsGives DEF Winners
  <2>3. follow' = [w EXCEPT !.completed = TRUE]
    BY <1>2, <2>1
  <2>4. /\ follow' \in Follows /\ follow'.at = w.at /\ follow'.by = w.by /\ follow'.winner = w.winner
        /\ follow'.why = w.why /\ follow'.completed
    BY <2>2, <2>3 DEF Follows
  <2> QED
    BY <1>2, <1>3, <2>2, <2>4 DEF Raced
<1>5. CASE turn.outcome.kind = "settled" /\ ~Over
  <2>1. /\ seen' = [seen EXCEPT !.outcome = turn.outcome.state]
        /\ result' = [result EXCEPT !.runId = turn.outcome.run, !.state = turn.outcome.state]
    BY <1>5 DEF Completes, TakesOutcome
  <2>2. /\ turn.outcome.run \in Runs /\ turn.outcome.run \in Took(ThreadAt(log, Len(log)))
        /\ turn.outcome.state \in TerminalStatus
        /\ turn.outcome.state = ThreadAt(log, Len(log)).runs[turn.outcome.run]
    BY <1>0, <1>5 DEF True
  <2>3. turn.outcome.state \in ResultStates
    BY <2>2 DEF ResultStates, TerminalStatus, RunStatus
  <2>4. seen' \in Views /\ seen'.thread = seen.thread
    BY <1>0, <2>1, <2>2 DEF Views
  <2>5. /\ result' \in Results /\ result'.runId = turn.outcome.run /\ result'.state = turn.outcome.state
        /\ result'.exit = result.exit /\ result'.pending = result.pending
    BY <1>0, <2>1, <2>2, <2>3 DEF Results
  <2>6. ResultOK(log, target, result')
    BY <1>0, <2>2, <2>5, RunsAreNamed DEF ResultOK, EndIsTrue
  <2>7. PendingInv'
    BY <1>0, <1>2, <1>4, <1>5, <2>5 DEF RunInv, PendingInv, given
  <2>8. ~(follow.at = "racing" /\ follow'.winner = "deadline")
    <3>1. follow.at = "racing" => follow.winner # "deadline"
      BY <1>0, <1>5 DEF RunInv, RaceInv, Quiet
    <3> QED
      BY <1>4, <3>1
  <2> QED
    BY <1>0, <1>1, <1>4, <1>5, <2>4, <2>5, <2>6, <2>7, <2>8, PumpKeeps
<1>6. CASE turn.outcome.kind # "settled" /\ ~Over
  <2>1. UNCHANGED <<seen, result>>
    BY <1>6 DEF Completes
  <2>2. PendingInv'
    BY <1>0, <1>2, <1>4, <1>6, <2>1 DEF RunInv, PendingInv, given
  <2>3. follow.at = "racing" /\ follow'.winner = "deadline" => ~Finished(result'.state) /\ Quiet'
    <3>1. follow'.winner = "deadline" => follow.winner = "deadline"
      BY <1>4
    <3>2. Quiet => Quiet'
      BY <1>0, <1>6 DEF Quiet, Buffer, given
    <3> QED
      BY <2>1, <3>1, <3>2 DEF RunInv, RaceInv
  <2> QED
    BY <1>0, <1>1, <1>4, <1>6, <2>1, <2>2, <2>3, PumpKeeps
<1>7. CASE Over
  <2>1. UNCHANGED <<seen, result>>
    BY <1>7 DEF Completes, TakesOutcome
  <2>2. follow'.at = "over" /\ follow' \in Follows
    BY <1>4, <1>7 DEF Raced, Over
  <2>3. GivenInv' /\ SeenInv' /\ ResultOK(log', target', result')
    BY <1>0, <2>1 DEF RunInv, GivenInv, SeenInv, given
  <2>4. RaceInv'
    BY <1>0, <1>4, <2>2 DEF RunInv, RaceInv, Raced
  <2>5. AfterInv' /\ InterruptInv'
    BY <1>0, <1>7, <2>2 DEF RunInv, AfterInv, InterruptInv, Over, given
  <2>6. PendingInv'
    BY <1>0, <1>2, <1>4, <2>1 DEF RunInv, PendingInv, given
  <2>7. ExitInv'
    BY <1>0, <1>7, <2>1, <2>2 DEF RunInv, ExitInv, Over
  <2> QED
    BY <1>1, <2>3, <2>4, <2>5, <2>6, <2>7 DEF RunInv
<1> QED
  BY <1>5, <1>6, <1>7

-----------------------------------------------------------------------------
(* The command: its theorems *)

LEMMA RunStep == ASSUME RunInv, [Next]_vars PROVE RunInv'
<1>1. CASE Server \/ Stops \/ Loads \/ Snapshots \/ Delivers
  BY <1>1, WatchKeeps
<1>2. CASE Handle
  BY <1>2, HandleStepKeeps
<1>3. CASE Main
  BY <1>3, BeginKeeps, BeginInterruptedKeeps, ResumeKeeps, ReadKeeps, LinkedKeeps, AcknowledgedKeeps,
     ConfirmedKeeps DEF Main
<1>4. CASE Pump
  BY <1>4, PumpItemKeeps, PumpEndsKeeps, AnswerKeeps, CompletesKeeps DEF Pump
<1>5. CASE Replies \/ Refusals
  BY <1>5, RequestKeeps, ClientFailsKeeps, AnswerKeeps DEF Replies, Refusals
<1>6. CASE GraceEnds \/ DeadlinePasses \/ Signal \/ SecondSignal
  BY <1>6, ConfirmedKeeps, DeadlineKeeps, SignalStepKeeps, SecondSignalKeeps
<1>7. CASE UNCHANGED vars
  <2>1. /\ UNCHANGED <<turn, mine, log, feed, channels>>
    BY <1>7 DEF vars, mine, turnVars
  <2>2. HandleInv' /\ Grown
    BY <2>1, SameHandle, SameLogGrown DEF RunInv, HandleInv
  <2>3. Quiet => Quiet'
    BY <2>1 DEF Quiet, Buffer, mine, given
  <2>4. RaceInv'
    BY <2>1, <2>3 DEF RunInv, RaceInv, mine, given
  <2> QED
    BY <2>1, <2>2, <2>4, KnownStays DEF RunInv
<1> QED
  BY <1>1, <1>2, <1>3, <1>4, <1>5, <1>6, <1>7 DEF Next

LEMMA RunStarts == Init => RunInv
<1> SUFFICES ASSUME Init PROVE RunInv
  OBVIOUS
<1>0. log \in Histories /\ Len(log) \in Nat /\ Len(log) \in 0..Len(log)
  BY LogsAssumption, LogTyped DEF Init
<1>1. HandleInv
  <2>1. PICK cursor \in {Off} \cup 0..Len(log) : feed = NewFeed(cursor)
    BY <1>0 DEF Init
  <2>2. FeedInv
    BY <2>1, NewFeedInv DEF Init
  <2> QED
    BY <2>2, TurnInitInv DEF Init, HandleInv
<1>2. target \in TargetKinds /\ policy \in PoliciesTried
  BY FollowAssumption DEF Init, PoliciesTried
<1>3. turn.watch = "idle" /\ turn.runId = NoRun /\ turn.outcome = Pending
  BY DEF Init, HandleInit
<1>4. GivenInv
  BY <1>2, <1>3 DEF Init, GivenInv
<1>5. SeenInv
  <2>1. seen = NoView
    BY DEF Init
  <2>2. Told(log, EmptyThread)
    BY NothingTold
  <2>3. EmptyThread \in Threads
    BY <2>2 DEF Told
  <2> QED
    BY <2>1, <2>2, <2>3 DEF SeenInv, NoView, Views
<1>6. PICK run : /\ result = [runId |-> run, state |-> "unknown", pending |-> {}, exit |-> -1]
                 /\ run = IF target = "run" THEN CHOOSE r \in Took(Thread) : TRUE ELSE NoRun
  BY DEF Init
<1>7. /\ run \in Runs \cup {NoRun} /\ (target = "run" <=> run # NoRun)
      /\ run # NoRun => run \in Took(ThreadAt(log, Len(log)))
  <2>1. CASE target = "run"
    <3>1. run \in Took(Thread)
      BY <1>6, <2>1 DEF Init
    <3>2. run \in Runs
      BY <1>0, <3>1, TookRuns DEF Thread
    <3> QED
      BY <2>1, <3>1, <3>2, RunsAreNamed DEF Thread
  <2>2. CASE target # "run"
    BY <1>6, <2>2
  <2> QED
    BY <2>1, <2>2
<1>8. result \in Results /\ result.runId = run /\ result.state = "unknown" /\ result.exit = -1
  BY <1>6, <1>7 DEF Results, ResultStates
<1>9. ResultOK(log, target, result)
  BY <1>7, <1>8 DEF ResultOK, EndIsTrue, TerminalStatus
<1>10. /\ follow \in Follows /\ follow.at = "acquiring" /\ follow.winner = "none"
       /\ pump \in Pumps /\ pump.at = "none" /\ ~signalled
  BY DEF Init, Follows, FollowStates, Winners, Pumps, PumpStates
<1>11. RaceInv /\ AfterInv
  BY <1>8, <1>10 DEF RaceInv, AfterInv, Over, Finished, TerminalStatus
<1>12. interruption \in Interruptions /\ interruption.status = "none" /\ interruption.count = 0 /\ interruption.run = NoRun
  <2>1. 0 \in 0..1
    OBVIOUS
  <2> QED
    BY <2>1 DEF Init, Interruptions
<1>13. InterruptInv
  BY <1>10, <1>12 DEF InterruptInv
<1>14. PendingInv /\ ExitInv
  BY <1>8, <1>10 DEF PendingInv, ExitInv, Over
<1> QED
  BY <1>1, <1>4, <1>5, <1>9, <1>11, <1>13, <1>14 DEF RunInv

LEMMA RunInvCorrect == Spec => []RunInv
<1>1. RunInv /\ [Next]_vars => RunInv'
  BY RunStep
<1> QED
  BY <1>1, RunStarts, PTL DEF Spec

\* A command reports and interrupts the run its message went to: it names no other, interrupts
\* it at most once, and not when it is known to have ended (dispatch.ts:131-132, follow.ts:118-119,
\* policy.md:71-80).
THEOREM OwnRunOnlyCorrect == Spec => []OwnRunOnly
<1>1. ASSUME RunInv PROVE OwnRunOnly
  <2>1. TypeOK
    <3>1. FeedTypeOK
      BY <1>1, FeedTyped DEF RunInv, HandleInv
    <3>2. follow.at \in FollowStates /\ follow.winner \in Winners /\ pump.at \in PumpStates
      BY <1>1 DEF RunInv, RaceInv, Follows, Pumps
    <3>3. /\ result.runId \in Runs \cup {NoRun} /\ result.state \in ResultStates
          /\ result.pending \subseteq Requests /\ result.exit \in Exits \cup {-1}
      BY <1>1 DEF RunInv, ResultOK, Results
    <3>4. answered \subseteq Requests \ UserInputs /\ (Over <=> result.exit # -1)
      BY <1>1 DEF RunInv, GivenInv, ExitInv
    <3>5. /\ interruption.status \in {"none", "reading", "sent", "acked", "failed"}
          /\ interruption.run \in Runs \cup {NoRun} /\ interruption.count \in Nat
      BY <1>1 DEF RunInv, InterruptInv, Interruptions
    <3> QED
      BY <3>1, <3>2, <3>3, <3>4, <3>5 DEF TypeOK, Winners, PumpStates, ResultStates, Exits
  <2>2. ReportsOurRun
    BY <1>1 DEF RunInv, ResultOK, ReportsOurRun, Thread
  <2>3. InterruptedOnce
    BY <1>1 DEF RunInv, InterruptInv, Interruptions, InterruptedOnce
  <2>4. InterruptIsWarranted
    BY <1>1 DEF RunInv, InterruptInv, InterruptIsWarranted
  <2>5. SignalInterruptsOurRun
    <3>1. interruption.status = "none" => interruption.run = NoRun
      BY <1>1 DEF RunInv, InterruptInv
    <3> QED
      BY <1>1, <3>1 DEF RunInv, InterruptInv, SignalInterruptsOurRun, Thread
  <2> QED
    BY <2>1, <2>2, <2>3, <2>4, <2>5 DEF OwnRunOnly, InterruptsAreSound
<1> QED
  BY <1>1, RunInvCorrect, PTL

\* An exit code that speaks of the run's end, of a signal or of a timeout tells the truth,
\* whatever raced with it (policy.md:58-61, 78-82, 96-108, errors.ts:47-61).
THEOREM ExitIsTrueCorrect == Spec => []ExitIsTrue
<1>1. ASSUME RunInv PROVE ExitIsTrue
  <2>1. CASE Over
    <3>1. ExitOK(log, turn, signalled, interruption, result, result.exit)
      BY <1>1, <2>1 DEF RunInv, ExitInv
    <3> QED
      BY <2>1, <3>1, RunsAreNamed
      DEF ExitOK, EndedAs, ExitIsTrue, ExitTellsTheTruth, SignalExits, TimeoutInterrupted, Thread
  <2>2. CASE ~Over
    BY <1>1, <2>2 DEF RunInv, ExitInv, ExitIsTrue, ExitTellsTheTruth, SignalExits, TimeoutInterrupted
  <2> QED
    BY <2>1, <2>2
<1> QED
  BY <1>1, RunInvCorrect, PTL


\* A request is reported as pending only if the command was told to fail on it, did not answer
\* it, and shows its questions (policy.md:86-91).
LEMMA PendingCorrect == Spec => []PendingNeedsCaller
<1>1. ASSUME RunInv PROVE PendingNeedsCaller
  BY <1>1 DEF RunInv, PendingInv, NeedCaller, PendingNeedsCaller, Thread
<1> QED
  BY <1>1, RunInvCorrect, PTL

\* The requests that are asked for, in a step of the loop.
LEMMA AsksNew ==
  ASSUME NEW r, NEW p, NEW open, HandleRequests(r, p, open), NEW q, pump'.asked = {q}, pump.asked # {q},
         pump \in Pumps
  PROVE  q \notin answered
<1>1. CASE ToAnswer(open) # {}
  <2>1. PICK a \in ToAnswer(open) : pump' = [at |-> "answering", open |-> open, asked |-> {a}]
    BY <1>1 DEF HandleRequests
  <2>2. a = q
    BY <2>1
  <2> QED
    BY <2>1, <2>2 DEF ToAnswer
<1>2. CASE ToAnswer(open) = {}
  <2>1. pump'.asked = {}
    BY <1>2 DEF HandleRequests, Pumps
  <2> QED
    BY <2>1
<1> QED
  BY <1>1, <1>2

LEMMA AsksOnce ==
  ASSUME RunInv, [Next]_vars, NEW q \in Requests, pump'.asked = {q}, pump.asked # {q}
  PROVE  q \notin answered
<1>0. pump \in Pumps
  BY DEF RunInv, RaceInv
<1>1. CASE Server \/ Stops \/ Loads \/ Snapshots \/ Delivers \/ Handle \/ UNCHANGED vars
  BY <1>1 DEF Server, Stops, Loads, Snapshots, Delivers, Handle, mine, vars
<1>2. ASSUME NEW r, NEW code, End(r, code) PROVE pump'.asked = pump.asked
  BY <1>0, <1>2 DEF End, Pumps
<1>3. ASSUME NEW f, NEW r, InterruptForSignal(f, r) PROVE pump'.asked = pump.asked
  BY <1>2, <1>3 DEF InterruptForSignal, InterruptRun, Stay
<1>4. ASSUME NEW f, NEW r, NEW by, InterruptRun(f, r, by) PROVE pump'.asked = pump.asked
  BY <1>2, <1>4 DEF InterruptRun, Stay
<1>5. ASSUME NEW f, NEW code, NEW interrupted, Catch(f, code, interrupted) PROVE pump'.asked = pump.asked
  BY <1>2, <1>3, <1>5 DEF Catch
<1>6. CASE Main
  <2>1. CASE Begin \/ BeginInterrupted
    BY <1>0, <2>1 DEF Begin, BeginInterrupted, Pumps
  <2>2. CASE Resume
    <3>1. pump'.asked = pump.asked
      BY <1>2, <1>3, <1>4, <1>5, <2>2 DEF Resume, Stay
    <3> QED
      BY <3>1
  <2>3. CASE Read \/ Linked \/ Acknowledged \/ Confirmed
    <3>1. pump'.asked = pump.asked
      BY <1>2, <1>4, <2>3 DEF Read, Linked, Acknowledged, Confirmed, Stay
    <3> QED
      BY <3>1
  <2> QED
    BY <1>6, <2>1, <2>2, <2>3 DEF Main
<1>7. CASE PumpItem
  <2>1. CASE \E r, p, open : HandleRequests(r, p, open)
    BY <1>0, <2>1, AsksNew
  <2>2. CASE UNCHANGED pump
    BY <2>2
  <2>3. CASE \E s : pump' = [pump EXCEPT !.at = s]
    BY <1>0, <2>3 DEF Pumps
  <2> QED
    BY <1>7, <2>1, <2>2, <2>3 DEF PumpItem
<1>8. CASE Answered
  BY <1>0, <1>8, AsksNew DEF Answered
<1>9. CASE PumpEnds \/ AnswerFails \/ Completes
  BY <1>0, <1>9 DEF PumpEnds, AnswerFails, Completes, Pumps
<1>10. CASE Replies \/ InterruptFails \/ DeadlinePasses
  BY <1>10 DEF Replies, ActiveRunRead, InterruptAcked, InterruptFails, DeadlinePasses
<1>11. CASE ClientFails \/ GraceEnds \/ SecondSignal
  <2>1. pump'.asked = pump.asked
    BY <1>2, <1>11 DEF ClientFails, GraceEnds, SecondSignal
  <2> QED
    BY <2>1
<1>12. CASE Signal
  <2>1. pump'.asked = pump.asked
    BY <1>0, <1>5, <1>12 DEF Signal, Stay, Pumps
  <2> QED
    BY <2>1
<1> QED
  BY <1>1, <1>6, <1>7, <1>8, <1>9, <1>10, <1>11, <1>12 DEF Next, Pump, Refusals

\* Each open request is answered for the caller once, and put to the caller only when the command
\* could not answer it (follow.ts:86-89, policy.md:86-91).
THEOREM RequestsHandledCorrect == Spec => RequestsHandled
<1>1. ASSUME RunInv, [Next]_vars
      PROVE  [\A q \in Requests : pump'.asked = {q} /\ pump.asked # {q} => q \notin answered]_vars
  BY <1>1, AsksOnce
<1> QED
  BY <1>1, PendingCorrect, RunInvCorrect, PTL DEF RequestsHandled, AnsweredOnce, Spec

\* Once the command is over its result stays.
LEMMA OverStays == ASSUME RunInv, [Next]_vars, Over PROVE result' = result
<1>1. pump.at \notin {"pulling", "answering"}
  BY DEF RunInv, AfterInv
<1>2. CASE Server \/ Stops \/ Loads \/ Snapshots \/ Delivers \/ Handle \/ UNCHANGED vars
  BY <1>2 DEF Server, Stops, Loads, Snapshots, Delivers, Handle, mine, vars
<1>3. CASE Main
  BY <1>3 DEF Main, Begin, BeginInterrupted, Resume, Read, Linked, Acknowledged, Confirmed, Over
<1>4. CASE Pump
  BY <1>1, <1>4 DEF Pump, PumpItem, PumpEnds, Answered, Completes, TakesOutcome
<1>5. CASE Replies \/ Refusals
  BY <1>1, <1>5 DEF Replies, Refusals, ActiveRunRead, InterruptAcked, InterruptFails, ClientFails, AnswerFails, Over
<1>6. CASE GraceEnds \/ DeadlinePasses \/ Signal \/ SecondSignal
  BY <1>6 DEF GraceEnds, DeadlinePasses, Signal, SecondSignal, Over
<1> QED
  BY <1>2, <1>3, <1>4, <1>5, <1>6 DEF Next

\* The run that is named stays named.
Fixed == result.runId # NoRun => result'.runId = result.runId

LEMMA EndFixes == ASSUME RunInv, NEW r, Kept(r), NEW code, End(r, code) PROVE Fixed
BY DEF End, Kept, ResultOK, Results, Fixed

LEMMA InterruptFixes ==
  ASSUME RunInv, NEW f, NEW r, Kept(r)
  PROVE  /\ \A by : InterruptRun(f, r, by) => Fixed
         /\ InterruptForSignal(f, r) => Fixed
<1>1. ASSUME result' = r PROVE Fixed
  BY <1>1 DEF Kept, Fixed
<1>2. \A by : InterruptRun(f, r, by) => Fixed
  BY <1>1, EndFixes DEF InterruptRun
<1> QED
  BY <1>1, <1>2, EndFixes DEF InterruptForSignal

LEMMA CatchFixes ==
  ASSUME RunInv, NEW f, NEW code, NEW interrupted, Catch(f, code, interrupted)
  PROVE  Fixed
<1>1. PICK r : r = [result EXCEPT !.runId = IF turn.runId # NoRun THEN turn.runId ELSE @]
  OBVIOUS
<1>2. Kept(r)
  BY <1>1, CatchResult
<1>3. InterruptForSignal(f, r) \/ End(r, code)
  BY <1>1 DEF Catch
<1> QED
  BY <1>2, <1>3, EndFixes, InterruptFixes

LEMMA RequestsFix ==
  ASSUME NEW r \in Results, NEW p, NEW open, HandleRequests(r, p, open)
  PROVE  result'.runId = r.runId
<1>1. result' = r \/ \E u : result' = [r EXCEPT !.pending = u]
  BY DEF HandleRequests
<1> QED
  BY <1>1 DEF Results

LEMMA SelectionStays == ASSUME RunInv, [Next]_vars PROVE Fixed
<1>0. result \in Results /\ Kept(result)
  BY ResultKept DEF RunInv, ResultOK
<1>1. CASE result' = result
  BY <1>1 DEF Fixed
<1>2. CASE Server \/ Stops \/ Loads \/ Snapshots \/ Delivers \/ Handle \/ UNCHANGED vars
  BY <1>1, <1>2 DEF Server, Stops, Loads, Snapshots, Delivers, Handle, mine, vars
<1>3. CASE Begin \/ BeginInterrupted
  BY <1>1, <1>3 DEF Begin, BeginInterrupted
<1>4. CASE Resume
  BY <1>0, <1>1, <1>4, EndFixes, InterruptFixes, CatchFixes DEF Resume
<1>5. CASE Read \/ Confirmed \/ GraceEnds \/ SecondSignal \/ ClientFails
  BY <1>0, <1>5, EndFixes DEF Read, Confirmed, GraceEnds, SecondSignal, ClientFails
<1>6. CASE Linked
  <2>1. PICK r : r = [result EXCEPT !.runId = turn.runId]
    OBVIOUS
  <2>2. turn.runId # NoRun => Kept(r)
    BY <2>1, CatchResult
  <2> QED
    BY <1>0, <1>6, <2>1, <2>2, EndFixes, InterruptFixes DEF Linked
<1>7. CASE Acknowledged
  <2>1. PICK r : r = [result EXCEPT !.runId = IF turn.runId # NoRun THEN turn.runId ELSE @]
    OBVIOUS
  <2>2. Kept(r)
    BY <2>1, CatchResult
  <2>3. result' = result \/ (\E code : End(result, code) \/ End(r, code))
    BY <1>7, <2>1 DEF Acknowledged
  <2> QED
    BY <1>0, <1>1, <2>2, <2>3, EndFixes
<1>8. CASE PumpItem
  <2>1. PICK o : o = Observe(Head(Buffer))
    OBVIOUS
  <2>2. Sound(log, Head(Buffer))
    BY <1>8, TakeHandle DEF PumpItem, RunInv
  <2>3. o.result \in Results /\ (result.runId # NoRun => o.result.runId = result.runId)
    BY <2>1, <2>2, ObserveKeeps DEF ResultOK
  <2>4. \/ result' = result \/ result' = o.result
        \/ HandleRequests(o.result, o.seen.thread, o.result.pending)
    BY <1>8, <2>1 DEF PumpItem
  <2> QED
    BY <2>3, <2>4, RequestsFix DEF Fixed
<1>9. CASE Answered
  BY <1>0, <1>9, RequestsFix DEF Answered, Fixed
<1>10. CASE PumpEnds \/ AnswerFails \/ Replies \/ InterruptFails \/ DeadlinePasses
  BY <1>1, <1>10 DEF PumpEnds, AnswerFails, Replies, ActiveRunRead, InterruptAcked, InterruptFails, DeadlinePasses
<1>11. CASE Completes
  <2>1. CASE result' = [result EXCEPT !.runId = turn.outcome.run, !.state = turn.outcome.state]
             /\ turn.outcome.kind = "settled"
    <3>1. /\ turn.outcome.run \in Took(ThreadAt(log, Len(log))) /\ target = "turn"
          /\ log \in Histories /\ Len(log) \in 0..Len(log)
      BY <1>11, <2>1, LogTyped DEF Completes, RunInv, HandleInv, FeedInv, TurnInv, TurnOK, True
    <3>2. result.runId # NoRun => turn.outcome.run = result.runId
      BY <3>1, TookOne DEF RunInv, ResultOK
    <3> QED
      BY <1>0, <2>1, <3>2 DEF Fixed, Results
  <2> QED
    BY <1>1, <1>11, <2>1 DEF Completes
<1>12. CASE Signal
  BY <1>1, <1>12, CatchFixes DEF Signal, Stay
<1> QED
  BY <1>2, <1>3, <1>4, <1>5, <1>6, <1>7, <1>8, <1>9, <1>10, <1>11, <1>12 DEF Next, Main, Pump, Refusals

\* A result that was returned does not change, and the run that is reported stays the one that
\* was selected first (followErrors.test.ts:158, followObservation.ts:17).
THEOREM ResultStandsCorrect == Spec => ResultStands
<1>1. ASSUME RunInv, [Next]_vars PROVE [Over => result' = result]_vars
  BY <1>1, OverStays
<1>2. ASSUME RunInv, [Next]_vars PROVE [result.runId # NoRun => result'.runId = result.runId]_vars
  BY <1>2, SelectionStays DEF Fixed
<1> QED
  BY <1>1, <1>2, RunInvCorrect, PTL DEF ResultStands, ResultIsFinal, SelectionIsFixed, Spec

=============================================================================

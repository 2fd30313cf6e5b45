------------------------------ MODULE WatchProofs ------------------------------
(***************************************************************************)
(* Proofs about ThreadWatch, the live watches of a thread and of the       *)
(* shell.                                                                  *)
(*                                                                         *)
(* The invariant follows an event along its way.  WireInv: each event the  *)
(* server has sent on the subscription is accounted for, or in the queue,  *)
(* or in hand.  QueueInv, HeldInv: what is on the way is in order, and a   *)
(* snapshot comes first and is not behind the cursor.  ViewInv: what was   *)
(* shown is in order and covers everything up to the cursor.  So a frame   *)
(* that is taken closes the gap between the cursor and itself.  TrackInv:  *)
(* the tracker stands at the cursor or at the last snapshot, whichever is  *)
(* further, and its projection, its requests and its settled runs are what *)
(* the log says of the events it has seen.                                 *)
(***************************************************************************)
EXTENDS ThreadWatch, WellFoundedInduction, TLAPS

LEMMA EmptySequence == \A T : <<>> \in Seq(T) /\ Len(<<>>) = 0
OBVIOUS

\* The natural numbers are well-ordered.
LEMMA LeastNatural ==
  ASSUME NEW S \in SUBSET Nat, S # {}
  PROVE  \E x \in S : \A y \in S : x <= y
<1>1. PICK x \in S : \A y \in S : <<y, x>> \notin OpToRel(<, Nat)
  BY WFMin, NatLessThanWellFounded, Zenon
<1>2. \A m, n \in Nat : m < n => <<m, n>> \in OpToRel(<, Nat)
  BY Zenon DEF OpToRel
<1>3. \A y \in S : ~(y < x)
  BY <1>1, <1>2, Zenon
<1> QED
  BY <1>3

\* Max is what its name says of bounded sets of numbers.
LEMMA MaxOfNumbers ==
  ASSUME NEW k \in Nat, NEW S \in SUBSET (0..k), S # {}
  PROVE  Max(S) \in S /\ \A y \in S : y <= Max(S)
<1> DEFINE T == {n \in 0..k : k - n \in S}
<1>1. T \in SUBSET Nat /\ T # {}
  <2>1. PICK s \in S : TRUE
    OBVIOUS
  <2>2. k - s \in T
    OBVIOUS
  <2> QED
    BY <2>2
<1>2. PICK m \in T : \A y \in T : m <= y
  BY <1>1, LeastNatural
<1>3. \A y \in S : k - y \in T
  OBVIOUS
<1>4. k - m \in S /\ \A y \in S : k - m >= y
  BY <1>2, <1>3
<1>5. \E x \in S : \A y \in S : x >= y
  BY <1>4
<1>6. Max(S) \in S /\ \A y \in S : Max(S) >= y
  BY <1>5 DEF Max
<1> QED
  BY <1>6

LEMMA MaxOfTwo ==
  ASSUME NEW a \in Int, NEW b \in Int
  PROVE  Max({a, b}) = IF a >= b THEN a ELSE b
<1>1. \E x \in {a, b} : \A y \in {a, b} : x >= y
  OBVIOUS
<1>2. Max({a, b}) \in {a, b} /\ \A y \in {a, b} : Max({a, b}) >= y
  BY <1>1 DEF Max
<1> QED
  BY <1>2

-----------------------------------------------------------------------------
(* What a log says of an entity *)

About(l, seen, type, id) == {n \in seen \cap DOMAIN l : l[n].type = type /\ l[n].id = id}

LEMMA EventFields ==
  \A e \in Events :
    \/ e.type = "run" /\ e.id \in Runs /\ e.status \in {"running", "completed"}
    \/ e.type = "request" /\ e.id \in Requests /\ e.status \in {"pending", "resolved"}
    \/ e.type = "item" /\ e.id \in UserInputs /\ e.status = "known"
BY DEF Events, Event

LEMMA NoStatus ==
  ASSUME NEW l, NEW seen, NEW type, NEW id, About(l, seen, type, id) = {}
  PROVE  StatusIn(l, seen, type, id) = "none"
BY DEF StatusIn, About

LEMMA LastStatus ==
  ASSUME NEW l \in Seq(Events), NEW seen, NEW type, NEW id, About(l, seen, type, id) # {}
  PROVE  \E m \in About(l, seen, type, id) :
           /\ \A k \in About(l, seen, type, id) : k <= m
           /\ StatusIn(l, seen, type, id) = l[m].status
<1> DEFINE A == About(l, seen, type, id)
<1>1. A \in SUBSET (0..Len(l)) /\ Len(l) \in Nat
  BY DEF About
<1>2. Max(A) \in A /\ \A k \in A : k <= Max(A)
  BY <1>1, MaxOfNumbers
<1>3. StatusIn(l, seen, type, id) = l[Max(A)].status
  BY DEF StatusIn, About
<1> QED
  BY <1>2, <1>3

\* A greatest event about an entity gives its status.
LEMMA StatusOf ==
  ASSUME NEW l \in Seq(Events), NEW seen, NEW type, NEW id, NEW m,
         m \in About(l, seen, type, id), \A k \in About(l, seen, type, id) : k <= m
  PROVE  StatusIn(l, seen, type, id) = l[m].status
<1>1. PICK x \in About(l, seen, type, id) :
        /\ \A k \in About(l, seen, type, id) : k <= x
        /\ StatusIn(l, seen, type, id) = l[x].status
  BY LastStatus
<1>2. x <= m /\ m <= x /\ x \in Nat /\ m \in Nat
  BY <1>1 DEF About
<1> QED
  BY <1>1, <1>2

LEMMA StatusTyped ==
  ASSUME NEW l \in Seq(Events), NEW seen
  PROVE  /\ \A r : StatusIn(l, seen, "run", r) \in RunStatus
         /\ \A q : StatusIn(l, seen, "request", q) \in RequestStatus
         /\ \A q : StatusIn(l, seen, "item", q) \in {"none", "known"}
<1>1. ASSUME NEW type, NEW id
      PROVE  \/ StatusIn(l, seen, type, id) = "none"
             \/ \E e \in Events : e.type = type /\ StatusIn(l, seen, type, id) = e.status
  <2>1. CASE About(l, seen, type, id) = {}
    BY <2>1, NoStatus
  <2>2. CASE About(l, seen, type, id) # {}
    <3>1. PICK m \in About(l, seen, type, id) : StatusIn(l, seen, type, id) = l[m].status
      BY <2>2, LastStatus
    <3>2. l[m] \in Events /\ l[m].type = type
      BY <3>1 DEF About
    <3> QED
      BY <3>1, <3>2
  <2> QED
    BY <2>1, <2>2
<1> QED
  BY <1>1, EventFields DEF RunStatus, RequestStatus

\* A log that grows says the same of the events it had.
LEMMA StatusAppended ==
  ASSUME NEW l \in Seq(Events), NEW e \in Events, NEW seen \in SUBSET (1..Len(l)),
         NEW type, NEW id
  PROVE  StatusIn(Append(l, e), seen, type, id) = StatusIn(l, seen, type, id)
<1>0. PICK m : m = Append(l, e)
  OBVIOUS
<1>1. /\ m \in Seq(Events) /\ \A n \in 1..Len(l) : m[n] = l[n]
      /\ 1..Len(l) = DOMAIN l /\ 1..Len(l) \subseteq DOMAIN m
  BY <1>0
<1>2. About(m, seen, type, id) = About(l, seen, type, id)
  BY <1>1 DEF About
<1>3. StatusIn(m, seen, type, id) = StatusIn(l, seen, type, id)
  <2>1. CASE About(l, seen, type, id) = {}
    BY <1>2, <2>1, NoStatus
  <2>2. CASE About(l, seen, type, id) # {}
    <3>1. PICK n \in About(l, seen, type, id) :
            (\A k \in About(l, seen, type, id) : k <= n) /\ StatusIn(l, seen, type, id) = l[n].status
      BY <2>2, LastStatus
    <3>2. n \in About(m, seen, type, id) /\ \A k \in About(m, seen, type, id) : k <= n
      BY <1>2, <3>1
    <3>3. StatusIn(m, seen, type, id) = m[n].status
      BY <1>1, <3>2, StatusOf
    <3>4. n \in 1..Len(l)
      BY <3>1 DEF About
    <3> QED
      BY <1>1, <3>1, <3>3, <3>4
  <2> QED
    BY <2>1, <2>2
<1> QED
  BY <1>0, <1>3

OneMore(more, seen, n) == \A k : k \in more <=> k \in seen \/ k = n

\* One event more, past those seen.
LEMMA StatusNext ==
  ASSUME NEW l \in Seq(Events), NEW n \in DOMAIN l, NEW seen \in SUBSET (1..n-1),
         NEW more, OneMore(more, seen, n), NEW type, NEW id
  PROVE  /\ l[n].type = type /\ l[n].id = id => StatusIn(l, more, type, id) = l[n].status
         /\ ~(l[n].type = type /\ l[n].id = id) =>
              StatusIn(l, more, type, id) = StatusIn(l, seen, type, id)
<1>0. n \in Nat /\ DOMAIN l = 1..Len(l) /\ Len(l) \in Nat
  OBVIOUS
<1>1. CASE l[n].type = type /\ l[n].id = id
  <2>1. n \in About(l, more, type, id)
    BY <1>1 DEF About, OneMore
  <2>2. PICK m \in About(l, more, type, id) :
          (\A k \in About(l, more, type, id) : k <= m) /\ StatusIn(l, more, type, id) = l[m].status
    <3>1. About(l, more, type, id) # {}
      BY <2>1
    <3> QED
      BY <3>1, LastStatus
  <2>3. m <= n /\ n <= m /\ m \in Nat
    BY <1>0, <2>1, <2>2 DEF About, OneMore
  <2> QED
    BY <1>0, <1>1, <2>2, <2>3
<1>2. CASE ~(l[n].type = type /\ l[n].id = id)
  <2>1. About(l, more, type, id) = About(l, seen, type, id)
    BY <1>2 DEF About, OneMore
  <2>2. CASE About(l, seen, type, id) = {}
    BY <1>2, <2>1, <2>2, NoStatus
  <2>3. CASE About(l, seen, type, id) # {}
    <3>1. PICK m \in About(l, seen, type, id) :
            (\A k \in About(l, seen, type, id) : k <= m) /\ StatusIn(l, seen, type, id) = l[m].status
      BY <2>3, LastStatus
    <3>2. StatusIn(l, more, type, id) = l[m].status
      BY <2>1, <3>1, StatusOf
    <3> QED
      BY <1>2, <3>1, <3>2
  <2> QED
    BY <2>2, <2>3
<1> QED
  BY <1>1, <1>2

\* Only the events the log has matter.
LEMMA StatusSame ==
  ASSUME NEW l, NEW s1, NEW s2, s1 \cap DOMAIN l = s2 \cap DOMAIN l, NEW type, NEW id
  PROVE  StatusIn(l, s1, type, id) = StatusIn(l, s2, type, id)
<1>1. About(l, s1, type, id) = About(l, s2, type, id)
  BY DEF About
<1> QED
  BY <1>1 DEF StatusIn, About

Projections == [runs : [Runs -> RunStatus], requests : [Requests -> RequestStatus],
                items : SUBSET UserInputs]

LEMMA ProjectionTyped ==
  ASSUME NEW l \in Seq(Events), NEW seen
  PROVE  Projection(l, seen) \in Projections
BY StatusTyped DEF Projection, Projections

LEMMA ProjectionSame ==
  ASSUME NEW l, NEW s1, NEW s2, s1 \cap DOMAIN l = s2 \cap DOMAIN l
  PROVE  Projection(l, s1) = Projection(l, s2)
<1>1. \A type, id : StatusIn(l, s1, type, id) = StatusIn(l, s2, type, id)
  BY StatusSame
<1> QED
  BY <1>1 DEF Projection

LEMMA ProjectionAppended ==
  ASSUME NEW l \in Seq(Events), NEW e \in Events, NEW seen \in SUBSET (1..Len(l))
  PROVE  Projection(Append(l, e), seen) = Projection(l, seen)
<1>1. \A type, id : StatusIn(Append(l, e), seen, type, id) = StatusIn(l, seen, type, id)
  BY StatusAppended
<1> QED
  BY <1>1 DEF Projection

\* applyThreadEvent takes the projection from one event to the next (threadTracker.ts:77).
LEMMA ProjectionNext ==
  ASSUME NEW l \in Seq(Events), NEW n \in DOMAIN l, NEW seen \in SUBSET (1..n-1),
         NEW more, OneMore(more, seen, n)
  PROVE  Projection(l, more) = ApplyThreadEvent(Projection(l, seen), l[n])
<1>0. ASSUME NEW type, NEW id
      PROVE  /\ l[n].type = type /\ l[n].id = id => StatusIn(l, more, type, id) = l[n].status
             /\ ~(l[n].type = type /\ l[n].id = id) =>
                  StatusIn(l, more, type, id) = StatusIn(l, seen, type, id)
  BY StatusNext
<1> DEFINE e == l[n]
           p == Projection(l, seen)
           p2 == ApplyThreadEvent(p, e)
<1>1. \A type, id : StatusIn(l, more, type, id) =
                      IF e.type = type /\ e.id = id THEN e.status ELSE StatusIn(l, seen, type, id)
  BY <1>0
<1>2. e \in Events
  OBVIOUS
<1>3. /\ p = [runs |-> p.runs, requests |-> p.requests, items |-> p.items]
      /\ p.runs = [r \in Runs |-> StatusIn(l, seen, "run", r)]
      /\ p.requests = [q \in Requests |-> StatusIn(l, seen, "request", q)]
      /\ p.items = {q \in UserInputs : StatusIn(l, seen, "item", q) = "known"}
  BY DEF Projection
<1>4. Projection(l, more) =
        [runs     |-> [r \in Runs |-> StatusIn(l, more, "run", r)],
         requests |-> [q \in Requests |-> StatusIn(l, more, "request", q)],
         items    |-> {q \in UserInputs : StatusIn(l, more, "item", q) = "known"}]
  BY DEF Projection
<1> HIDE DEF e, p
<1>5. CASE e.type = "run"
  <2>1. p2 = [p EXCEPT !.runs[e.id] = e.status]
    BY <1>5 DEF ApplyThreadEvent
  <2>2. [r \in Runs |-> StatusIn(l, more, "run", r)] = [p.runs EXCEPT ![e.id] = e.status]
    BY <1>1, <1>3, <1>5
  <2>3. [q \in Requests |-> StatusIn(l, more, "request", q)] = p.requests
    BY <1>1, <1>3, <1>5
  <2>4. {q \in UserInputs : StatusIn(l, more, "item", q) = "known"} = p.items
    BY <1>1, <1>3, <1>5
  <2> QED
    BY <1>3, <1>4, <2>1, <2>2, <2>3, <2>4 DEF e, p
<1>6. CASE e.type = "request"
  <2>1. p2 = [p EXCEPT !.requests[e.id] = e.status]
    BY <1>6 DEF ApplyThreadEvent
  <2>2. [q \in Requests |-> StatusIn(l, more, "request", q)] = [p.requests EXCEPT ![e.id] = e.status]
    BY <1>1, <1>3, <1>6
  <2>3. [r \in Runs |-> StatusIn(l, more, "run", r)] = p.runs
    BY <1>1, <1>3, <1>6
  <2>4. {q \in UserInputs : StatusIn(l, more, "item", q) = "known"} = p.items
    BY <1>1, <1>3, <1>6
  <2> QED
    BY <1>3, <1>4, <2>1, <2>2, <2>3, <2>4 DEF e, p
<1>7. CASE e.type = "item"
  <2>1. p2 = [p EXCEPT !.items = @ \cup {e.id}]
    BY <1>7 DEF ApplyThreadEvent
  <2>2. [q \in Requests |-> StatusIn(l, more, "request", q)] = p.requests
    BY <1>1, <1>3, <1>7
  <2>3. [r \in Runs |-> StatusIn(l, more, "run", r)] = p.runs
    BY <1>1, <1>3, <1>7
  <2>4. {q \in UserInputs : StatusIn(l, more, "item", q) = "known"} = p.items \cup {e.id}
    <3>1. e.id \in UserInputs /\ e.status = "known"
      BY <1>2, <1>7, EventFields
    <3> QED
      BY <1>1, <1>3, <1>7, <3>1
  <2> QED
    BY <1>3, <1>4, <2>1, <2>2, <2>3, <2>4 DEF e, p
<1> QED
  BY <1>2, <1>5, <1>6, <1>7, EventFields

-----------------------------------------------------------------------------
(* Runs stay over, items stay known *)

RunsStayOver(l) ==
  \A m, n \in DOMAIN l :
    (/\ m < n /\ l[m].type = "run" /\ l[n].type = "run" /\ l[m].id = l[n].id
     /\ l[m].status = "completed")
      => l[n].status = "completed"

\* A run that is over for some of a log is over for more of it, and a question that is
\* known stays known.
LEMMA StaysOver ==
  ASSUME NEW l \in Seq(Events), RunsStayOver(l), NEW s1, NEW s2,
         \A k \in s1 \cap DOMAIN l : k \in s2
  PROVE  /\ \A r : StatusIn(l, s1, "run", r) = "completed" => StatusIn(l, s2, "run", r) = "completed"
         /\ \A q : StatusIn(l, s1, "item", q) = "known" => StatusIn(l, s2, "item", q) = "known"
<1>1. ASSUME NEW type, NEW id, StatusIn(l, s1, type, id) # "none"
      PROVE  \E m, n \in DOMAIN l :
               /\ m <= n /\ l[m].type = type /\ l[n].type = type /\ l[m].id = id /\ l[n].id = id
               /\ StatusIn(l, s1, type, id) = l[m].status /\ StatusIn(l, s2, type, id) = l[n].status
  <2>1. About(l, s1, type, id) # {}
    BY <1>1, NoStatus
  <2>2. PICK m \in About(l, s1, type, id) : StatusIn(l, s1, type, id) = l[m].status
    BY <2>1, LastStatus
  <2>3. m \in About(l, s2, type, id)
    BY <2>2 DEF About
  <2>4. About(l, s2, type, id) # {}
    BY <2>3
  <2>5. PICK n \in About(l, s2, type, id) :
          (\A k \in About(l, s2, type, id) : k <= n) /\ StatusIn(l, s2, type, id) = l[n].status
    BY <2>4, LastStatus
  <2>6. m <= n
    BY <2>3, <2>5
  <2>7. /\ m \in DOMAIN l /\ l[m].type = type /\ l[m].id = id
        /\ n \in DOMAIN l /\ l[n].type = type /\ l[n].id = id
    BY <2>2, <2>5 DEF About
  <2> QED
    BY <2>2, <2>5, <2>6, <2>7
<1>2. ASSUME NEW r, StatusIn(l, s1, "run", r) = "completed"
      PROVE  StatusIn(l, s2, "run", r) = "completed"
  <2>1. PICK m, n \in DOMAIN l :
          /\ m <= n /\ l[m].type = "run" /\ l[n].type = "run" /\ l[m].id = r /\ l[n].id = r
          /\ "completed" = l[m].status /\ StatusIn(l, s2, "run", r) = l[n].status
    BY <1>1, <1>2
  <2>2. m = n \/ m < n
    BY <2>1
  <2> QED
    BY <2>1, <2>2 DEF RunsStayOver
<1>3. ASSUME NEW q, StatusIn(l, s1, "item", q) = "known"
      PROVE  StatusIn(l, s2, "item", q) = "known"
  <2>1. PICK n \in DOMAIN l : l[n].type = "item" /\ StatusIn(l, s2, "item", q) = l[n].status
    BY <1>1, <1>3
  <2>2. l[n] \in Events
    BY <2>1
  <2> QED
    BY <2>1, <2>2, EventFields
<1> QED
  BY <1>2, <1>3

\* MayFollow keeps runs over.
LEMMA FollowsOver ==
  ASSUME NEW l \in Seq(Events), RunsStayOver(l), NEW e \in Events, MayFollow(l, e),
         NEW m \in DOMAIN l, l[m].type = "run", e.type = "run", l[m].id = e.id,
         l[m].status = "completed"
  PROVE  e.status = "completed"
<1>1. m \in About(l, DOMAIN l, "run", e.id)
  BY DEF About
<1>2. About(l, DOMAIN l, "run", e.id) # {}
  BY <1>1
<1>3. PICK n \in About(l, DOMAIN l, "run", e.id) :
        /\ \A k \in About(l, DOMAIN l, "run", e.id) : k <= n
        /\ StatusIn(l, DOMAIN l, "run", e.id) = l[n].status
  BY <1>2, LastStatus
<1>4. m <= n /\ n \in DOMAIN l /\ l[n].type = "run" /\ l[n].id = e.id
  BY <1>1, <1>3 DEF About
<1>5. l[n].status = "completed"
  <2>1. m = n \/ m < n
    BY <1>4
  <2> QED
    BY <1>4, <2>1 DEF RunsStayOver
<1>6. StatusIn(l, DOMAIN l, e.type, e.id) = "completed"
  BY <1>3, <1>5
<1> QED
  BY <1>6 DEF MayFollow

LEMMA EmitKeepsOver ==
  ASSUME NEW l \in Seq(Events), RunsStayOver(l), NEW e \in Events, MayFollow(l, e)
  PROVE  RunsStayOver(Append(l, e))
<1>1. ASSUME NEW m \in DOMAIN Append(l, e), NEW n \in DOMAIN Append(l, e), m < n,
             Append(l, e)[m].type = "run", Append(l, e)[n].type = "run",
             Append(l, e)[m].id = Append(l, e)[n].id, Append(l, e)[m].status = "completed"
      PROVE  Append(l, e)[n].status = "completed"
  <2>1. m \in DOMAIN l /\ Append(l, e)[m] = l[m]
    BY <1>1
  <2>2. CASE n \in DOMAIN l
    <3>1. Append(l, e)[n] = l[n]
      BY <2>2
    <3> QED
      BY <1>1, <2>1, <2>2, <3>1 DEF RunsStayOver
  <2>3. CASE n \notin DOMAIN l
    <3>1. Append(l, e)[n] = e
      BY <2>3
    <3> QED
      BY <1>1, <2>1, <3>1, FollowsOver
  <2> QED
    BY <2>2, <2>3
<1> QED
  BY <1>1 DEF RunsStayOver

\* So does a whole log of events each of which may follow those before it.
LEMMA LegalStaysOver ==
  ASSUME NEW l \in Seq(Events), Legal(l)
  PROVE  RunsStayOver(l)
<1> DEFINE Bad(m, n) == /\ m < n /\ l[m].type = "run" /\ l[n].type = "run" /\ l[m].id = l[n].id
                        /\ l[m].status = "completed" /\ l[n].status # "completed"
           B == {n \in DOMAIN l : \E m \in DOMAIN l : Bad(m, n)}
<1>1. SUFFICES ASSUME B # {} PROVE FALSE
  BY DEF RunsStayOver
<1>2. B \in SUBSET Nat
  OBVIOUS
<1>3. PICK n \in B : \A k \in B : n <= k
  BY <1>1, <1>2, LeastNatural
<1>4. PICK m \in DOMAIN l : Bad(m, n)
  BY <1>3
<1>5. PICK l2 : l2 = SubSeq(l, 1, n - 1)
  OBVIOUS
<1>6. /\ l2 \in Seq(Events) /\ DOMAIN l2 = 1..n-1 /\ \A k \in 1..n-1 : l2[k] = l[k]
      /\ m \in DOMAIN l2 /\ l[n] \in Events /\ n \in DOMAIN l /\ 1..n-1 \subseteq DOMAIN l
  <2>1. n \in 1..Len(l) /\ Len(l) \in Nat /\ m \in 1..n-1
    BY <1>3, <1>4
  <2> QED
    BY <1>5, <2>1
<1>7. MayFollow(l2, l[n])
  BY <1>5, <1>6 DEF Legal
<1>8. RunsStayOver(l2)
  <2>1. ASSUME NEW i \in DOMAIN l2, NEW j \in DOMAIN l2, Bad(i, j)
        PROVE  FALSE
    <3>1. j \in B
      BY <1>6, <2>1
    <3>2. n <= j /\ j <= n - 1 /\ n \in Nat /\ j \in Nat
      BY <1>2, <1>3, <1>6, <2>1, <3>1
    <3> QED
      BY <3>2
  <2> QED
    BY <1>6, <2>1 DEF RunsStayOver
<1>9. l[n].status = "completed"
  BY <1>4, <1>6, <1>7, <1>8, FollowsOver
<1> QED
  BY <1>4, <1>9

-----------------------------------------------------------------------------
(* The tracker, and what its consumer was told *)

Trackers == [seeded : BOOLEAN, projection : Projections, sequence : Nat,
             announced : SUBSET Requests, settled : SUBSET Runs]

Views == [shown : Seq(Nat), undecoded : SUBSET Nat, covered : Nat, seededAt : Nat,
          open : SUBSET Requests, settlements : [Runs -> Nat], found : SUBSET Runs,
          reconnects : Nat, tries : Nat, cause : Failures \cup {"none"}]

Open(p) == {q \in Requests : p.requests[q] = "pending"}

SeenBy(t, v) == {n \in Prefix(t.sequence) : n <= v.seededAt \/ n \notin v.undecoded}

\* A seeded tracker knows what the log says of the events it has seen, and the consumer
\* was told of it.
Follows(l, t, v) ==
  /\ t.seeded
  /\ t.projection = Projection(l, SeenBy(t, v))
  /\ t.announced = PendingRequests(t.projection) /\ v.open = t.announced
  /\ t.settled = SettledRuns(t.projection) /\ v.found \subseteq t.settled
  /\ \A r \in Runs : v.settlements[r] = IF r \in t.settled /\ r \notin v.found THEN 1 ELSE 0

\* Nothing was known or told before the first snapshot.
Blank(t, v) ==
  /\ t = NewTracker /\ v.seededAt = 0
  /\ v.open = {} /\ v.found = {} /\ \A r \in Runs : v.settlements[r] = 0

Tracked(l, t, v) == Blank(t, v) \/ Follows(l, t, v)

\* What #reconcileRequests does, of tracker t become u and view v become w.
Reconciled(t, u, v, w) ==
  /\ u.announced = (t.announced \cap Open(u.projection))
                     \cup (PendingRequests(u.projection) \ t.announced)
  /\ w.open = (v.open \ (t.announced \ Open(u.projection)))
                \cup (PendingRequests(u.projection) \ t.announced)

LEMMA NewTrackerTyped == /\ NewTracker \in Trackers /\ ~NewTracker.seeded
                         /\ NewTracker.sequence = 0
                         /\ NewTracker.announced = {} /\ NewTracker.settled = {}
<1>1. Projection(<<>>, {}) \in Projections
  <2>1. PICK l \in Seq(Events) : l = <<>>
    BY EmptySequence
  <2>2. Projection(l, {}) \in Projections
    BY ProjectionTyped
  <2> QED
    BY <2>1, <2>2
<1> QED
  BY <1>1 DEF NewTracker, Trackers

LEMMA Reconciles ==
  ASSUME NEW t \in Trackers, NEW u \in Trackers, NEW v \in Views, NEW w \in Views,
         Reconciled(t, u, v, w), v.open = t.announced,
         t.announced \cap Open(u.projection) \subseteq PendingRequests(u.projection)
  PROVE  u.announced = PendingRequests(u.projection) /\ w.open = u.announced
<1>1. PendingRequests(u.projection) \subseteq Open(u.projection)
  BY DEF PendingRequests, Open
<1> QED
  BY <1>1 DEF Reconciled

\* Tracker t takes a snapshot of the log's first n events.
Seeds(l, t, u, v, w, n) ==
  /\ Reconciled(t, u, v, w)
  /\ u.seeded /\ u.projection = Projection(l, Prefix(n)) /\ u.sequence = n
  /\ u.settled = t.settled \cup SettledRuns(u.projection)
  /\ w.seededAt = n /\ w.settlements = v.settlements
  /\ w.found = v.found \cup {r \in SettledRuns(u.projection) : v.settlements[r] = 0}

LEMMA SeedFollows ==
  ASSUME NEW l \in Seq(Events), RunsStayOver(l), NEW t \in Trackers, NEW u \in Trackers,
         NEW v \in Views, NEW w \in Views, NEW n \in 0..Len(l), t.sequence <= n,
         Tracked(l, t, v), Seeds(l, t, u, v, w, n)
  PROVE  Follows(l, u, w)
<1>1. u.projection = Projection(l, SeenBy(u, w))
  <2>1. SeenBy(u, w) \cap DOMAIN l = Prefix(n) \cap DOMAIN l
    BY DEF SeenBy, Prefix, Seeds
  <2> QED
    BY <2>1, ProjectionSame DEF Seeds
<1>2. ASSUME Follows(l, t, v)
      PROVE  t.settled \subseteq SettledRuns(u.projection) /\ t.projection.items \subseteq u.projection.items
  <2>1. \A k \in SeenBy(t, v) \cap DOMAIN l : k \in Prefix(n)
    BY DEF SeenBy, Prefix, Trackers
  <2>2. /\ \A r : StatusIn(l, SeenBy(t, v), "run", r) = "completed"
                    => StatusIn(l, Prefix(n), "run", r) = "completed"
        /\ \A q : StatusIn(l, SeenBy(t, v), "item", q) = "known"
                    => StatusIn(l, Prefix(n), "item", q) = "known"
    BY <2>1, StaysOver
  <2>3. t.projection = Projection(l, SeenBy(t, v)) /\ u.projection = Projection(l, Prefix(n))
    BY <1>2 DEF Follows, Seeds
  <2>4. SettledRuns(t.projection) \subseteq SettledRuns(u.projection)
    BY <2>2, <2>3 DEF SettledRuns, Projection, IsRunTerminalStatus
  <2> QED
    BY <1>2, <2>2, <2>3, <2>4 DEF Follows, Projection
<1>3. v.open = t.announced /\ t.announced \cap Open(u.projection) \subseteq PendingRequests(u.projection)
  <2>1. CASE Blank(t, v)
    BY <2>1, NewTrackerTyped DEF Blank
  <2>2. CASE Follows(l, t, v)
    BY <1>2, <2>2 DEF Follows, PendingRequests, Open
  <2> QED
    BY <2>1, <2>2 DEF Tracked
<1>4. u.announced = PendingRequests(u.projection) /\ w.open = u.announced
  BY <1>3, Reconciles DEF Seeds
<1>5. /\ u.settled = SettledRuns(u.projection) /\ w.found \subseteq u.settled
      /\ \A r \in Runs : w.settlements[r] = IF r \in u.settled /\ r \notin w.found THEN 1 ELSE 0
  <2>1. CASE Blank(t, v)
    BY <2>1, NewTrackerTyped DEF Blank, Seeds
  <2>2. CASE Follows(l, t, v)
    BY <1>2, <2>2 DEF Follows, Seeds
  <2> QED
    BY <2>1, <2>2 DEF Tracked
<1> QED
  BY <1>1, <1>4, <1>5 DEF Follows, Seeds

\* The runs that event e settles.
Settling(t, e) ==
  IF e.type = "run" /\ IsRunTerminalStatus(e.status) THEN {e.id} \ t.settled ELSE {}

\* Tracker t takes event n, which is past what it has seen.
Applies(l, t, u, v, w, n) ==
  /\ Reconciled(t, u, v, w)
  /\ u.seeded /\ u.projection = ApplyThreadEvent(t.projection, l[n]) /\ u.sequence = n
  /\ w.seededAt = v.seededAt /\ w.undecoded = v.undecoded /\ w.found = v.found
  /\ u.settled = t.settled \cup Settling(t, l[n])
  /\ w.settlements = [r \in Runs |-> IF r \in Settling(t, l[n]) THEN v.settlements[r] + 1
                                                               ELSE v.settlements[r]]

LEMMA ApplyFollows ==
  ASSUME NEW l \in Seq(Events), RunsStayOver(l), NEW t \in Trackers, NEW u \in Trackers,
         NEW v \in Views, NEW w \in Views, NEW n \in DOMAIN l,
         t.sequence < n, v.seededAt <= t.sequence, n \notin v.undecoded,
         \A m \in t.sequence + 1 .. n - 1 : m \in v.undecoded,
         Follows(l, t, v), Applies(l, t, u, v, w, n)
  PROVE  Follows(l, u, w)
<1> DEFINE e == l[n]
<1>0. n \in Nat /\ t.sequence \in Nat /\ v.seededAt \in Nat /\ e \in Events
  BY DEF Trackers, Views
<1>1. PICK seen \in SUBSET (1..n-1) : seen = SeenBy(t, v)
  <2>1. SeenBy(t, v) \subseteq 1..t.sequence
    BY DEF SeenBy, Prefix
  <2>2. 1..t.sequence \subseteq 1..n-1
    BY <1>0
  <2> QED
    BY <2>1, <2>2
<1>2. PICK more : more = SeenBy(u, w)
  OBVIOUS
<1>3. OneMore(more, seen, n)
  <2>1. \A k : k \in more <=> k \in 1..n /\ (k <= v.seededAt \/ k \notin v.undecoded)
    BY <1>2 DEF SeenBy, Prefix, Applies
  <2>2. \A k : k \in seen <=> k \in 1..t.sequence /\ (k <= v.seededAt \/ k \notin v.undecoded)
    BY <1>1 DEF SeenBy, Prefix
  <2>3. ASSUME NEW k \in 1..n PROVE k = n \/ k \in 1..t.sequence \/ k \in t.sequence + 1 .. n - 1
    BY <1>0
  <2>4. \A k \in t.sequence + 1 .. n - 1 : ~(k <= v.seededAt)
    BY <1>0
  <2> QED
    BY <1>0, <2>1, <2>2, <2>3, <2>4 DEF OneMore
<1>4. Projection(l, more) = ApplyThreadEvent(Projection(l, seen), l[n])
  BY <1>3, ProjectionNext
<1>5. u.projection = Projection(l, SeenBy(u, w))
  BY <1>1, <1>2, <1>4 DEF Follows, Applies
<1>6. /\ \A r : StatusIn(l, seen, "run", r) = "completed" => StatusIn(l, more, "run", r) = "completed"
      /\ \A q : StatusIn(l, seen, "item", q) = "known" => StatusIn(l, more, "item", q) = "known"
  <2>1. \A k \in seen \cap DOMAIN l : k \in more
    BY <1>3 DEF OneMore
  <2> QED
    BY <2>1, StaysOver
<1>7. t.projection = Projection(l, seen) /\ u.projection = Projection(l, more)
  BY <1>1, <1>2, <1>5 DEF Follows
<1>8. /\ \A r \in Runs : t.projection.runs[r] = StatusIn(l, seen, "run", r)
      /\ \A r \in Runs : u.projection.runs[r] = StatusIn(l, more, "run", r)
      /\ t.projection.items \subseteq u.projection.items
  BY <1>6, <1>7 DEF Projection
<1>9. u.announced = PendingRequests(u.projection) /\ w.open = u.announced
  <2>1. v.open = t.announced /\ t.announced \cap Open(u.projection) \subseteq PendingRequests(u.projection)
    BY <1>8 DEF Follows, PendingRequests, Open
  <2> QED
    BY <2>1, Reconciles DEF Applies
<1>10. \A r \in Runs : /\ e.type = "run" /\ e.id = r => StatusIn(l, more, "run", r) = e.status
                       /\ ~(e.type = "run" /\ e.id = r) =>
                            StatusIn(l, more, "run", r) = StatusIn(l, seen, "run", r)
  BY <1>3, StatusNext
<1>11. PICK settles : settles = Settling(t, e)
  OBVIOUS
<1>fields. /\ u.settled = t.settled \cup settles
        /\ w.settlements = [r \in Runs |-> IF r \in settles THEN v.settlements[r] + 1
                                                            ELSE v.settlements[r]]
  BY <1>11 DEF Applies
<1>members. \A r : r \in settles <=> /\ e.type = "run" /\ e.id = r /\ IsRunTerminalStatus(e.status)
                                 /\ r \notin t.settled
  BY <1>11 DEF Settling
<1>12. t.settled = {r \in Runs : StatusIn(l, seen, "run", r) = "completed"}
  BY <1>8 DEF Follows, SettledRuns, IsRunTerminalStatus
<1>13. SettledRuns(u.projection) = {r \in Runs : StatusIn(l, more, "run", r) = "completed"}
  BY <1>8 DEF SettledRuns, IsRunTerminalStatus
<1> HIDE DEF e
<1>14. u.settled = SettledRuns(u.projection)
  <2>1. \A r \in Runs : r \in settles =>
                          e.type = "run" /\ e.id = r /\ e.status = "completed" /\ r \notin t.settled
    BY <1>fields, <1>members DEF IsRunTerminalStatus
  <2>2. \A r \in Runs : e.type = "run" /\ e.id = r /\ e.status = "completed" =>
                          r \in t.settled \/ r \in settles
    BY <1>fields, <1>members DEF IsRunTerminalStatus
  <2>3. settles \subseteq Runs
    BY <1>0, <1>fields, <1>members, EventFields
  <2>4. \A r \in Runs : r \in u.settled <=> r \in SettledRuns(u.projection)
    BY <1>6, <1>10, <1>fields, <1>members, <1>12, <1>13, <2>1, <2>2
  <2> QED
    BY <1>fields, <1>members, <1>12, <1>13, <2>3, <2>4
<1>15. /\ w.found \subseteq u.settled
       /\ \A r \in Runs : w.settlements[r] = IF r \in u.settled /\ r \notin w.found THEN 1 ELSE 0
  <2>1. w.found = v.found /\ v.found \subseteq t.settled
    BY DEF Applies, Follows
  <2>2. settles \cap t.settled = {}
    BY <1>fields, <1>members
  <2>3. \A r \in Runs : v.settlements[r] = IF r \in t.settled /\ r \notin v.found THEN 1 ELSE 0
    BY DEF Follows
  <2> QED
    BY <1>fields, <1>members, <2>1, <2>2, <2>3
<1> QED
  BY <1>5, <1>9, <1>14, <1>15 DEF Follows, Applies

-----------------------------------------------------------------------------
(* The invariant, each part over the values it relates *)

IsEvent(f) == f.kind \in {"event", "undecodable"}

Frames == [kind : {"snapshot"}, sequence : Nat, projection : Projections]
            \cup [kind : {"event", "undecodable"}, sequence : Nat] \cup {Marker}

LogOK(l, c) == /\ l \in Seq(Events) /\ Len(l) <= MaxEvents /\ RunsStayOver(l)
               /\ c \in {Off} \cup 0..Len(l)

\* The queue q of a subscription that was sent the log l as far as s: a snapshot comes
\* first and is not behind the cursor c nor the snapshot shown last, of sequence a;
\* events follow in order.
FrameOK(f, l, s, o, c, a) ==
  /\ f \in Frames
  /\ f.kind = "event" => f.sequence \in 1..s /\ f.sequence \notin o
  /\ f.kind = "undecodable" => f.sequence \in 1..s /\ f.sequence \in o
  /\ f.kind = "snapshot" => /\ f.sequence \in 0..Len(l) /\ c <= f.sequence /\ a <= f.sequence
                            /\ f.projection = Projection(l, Prefix(f.sequence))

QueueOK(q, l, s, o, c, a) ==
  /\ q \in Seq(Frames) /\ Len(q) <= MaxQueue /\ s \in 0..Len(l)
  /\ \A i \in DOMAIN q : FrameOK(q[i], l, s, o, c, a) /\ (q[i].kind = "snapshot" => i = 1)
  /\ \A i, j \in DOMAIN q :
       i < j /\ IsEvent(q[i]) /\ IsEvent(q[j]) => q[i].sequence < q[j].sequence

\* The frame h in hand came before all of the queue q.
HeldOK(h, q, s, o) ==
  /\ \A i \in DOMAIN q : q[i].kind # "snapshot"
  /\ \/ h = Marker
     \/ /\ h.kind = "event" /\ h.sequence \in 1..s /\ h.sequence \notin o
        /\ \A i \in DOMAIN q : IsEvent(q[i]) => h.sequence < q[i].sequence

\* Event n is accounted for, or part of a snapshot.
CoveredIn(v, n) ==
  n <= v.covered \/ n \in v.undecoded \/ n \in ToSet(v.shown) \/ n <= v.seededAt

\* Event n is on its way.
ComingIn(q, h, n) ==
  \/ \E i \in DOMAIN q : \/ IsEvent(q[i]) /\ q[i].sequence = n
                         \/ q[i].kind = "snapshot" /\ n <= q[i].sequence
  \/ h.kind = "event" /\ h.sequence = n

WireOK(q, h, v, s) == \A n \in 1..s : CoveredIn(v, n) \/ ComingIn(q, h, n)

\* What the consumer was told, up to the cursor c in a log of length len.
ViewOK(v, len, o, c) ==
  /\ v \in Views
  /\ \A n \in 1..c : CoveredIn(v, n)
  /\ \A i, j \in DOMAIN v.shown : i < j => v.shown[i] < v.shown[j]
  /\ \A i \in DOMAIN v.shown : v.shown[i] \in 1..c /\ v.shown[i] \notin o
  /\ v.undecoded \subseteq o
  /\ v.seededAt \in 0..len
  /\ v.covered = 0 \/ v.covered <= c

\* The tracker is where the cursor or the last snapshot is, whichever is further.
TrackOK(l, t, v, c) ==
  /\ t \in Trackers
  /\ Tracked(l, t, v)
  /\ t.seeded => /\ c <= t.sequence /\ v.seededAt <= t.sequence /\ v.covered <= v.seededAt
                 /\ t.sequence = c \/ t.sequence = v.seededAt

Watches == {"waiting", "busy", "loading", "ended", "failed"}
Streams == {"none", "asked", "live", "finished"} \cup Failures

\* The control state.  A subscription that has not been answered holds nothing; only
\* one that was refused for its size was tried, and nothing came of it.
FlowInv ==
  /\ api \in Apis /\ link \in {"connecting", "open", "closed"} /\ drops \in 0..MaxDrops
  /\ stream \in Streams /\ marked \in BOOLEAN /\ resumed \in BOOLEAN /\ received \in BOOLEAN
  /\ aborted \in BOOLEAN /\ watch \in Watches /\ opaque \subseteq Nat
  /\ stream \in {"none", "asked"} => queue = <<>> /\ (~Over => ~received)
  /\ watch = "loading" => api = "thread" /\ received
  /\ \/ view.tries = 0
     \/ view.tries = 1 /\ (Over \/ (stream = "too_large" /\ ~received /\ queue = <<>>))

LogInv   == LogOK(log, cursor)
QueueInv == QueueOK(queue, log, sent, opaque, cursor, view.seededAt)
HeldInv  == /\ watch # "loading" => held = Nothing
            /\ watch = "loading" => ~tracker.seeded /\ HeldOK(held, queue, sent, opaque)
WireInv  == WireOK(queue, held, view, sent)
ViewInv  == ViewOK(view, Len(log), opaque, cursor)
TrackInv == IF api = "thread" THEN TrackOK(log, tracker, view, cursor) ELSE tracker = NewTracker

IInv == FlowInv /\ LogInv /\ QueueInv /\ HeldInv /\ WireInv /\ ViewInv /\ TrackInv

LEMMA InvImplies ==
  ASSUME ConstantsAssumption, IInv
  PROVE  EachEventOnce /\ TrackerCorrect /\ OversizedTriedOnce
<1>1. NothingMissed /\ ShownInOrder
  BY DEF IInv, ViewInv, ViewOK, NothingMissed, ShownInOrder, Accounted, CoveredIn, Prefix
<1>2. tracker \in Trackers /\ view \in Views /\ cursor \in Int /\ api \in {"thread", "shell"}
  <2>1. tracker \in Trackers
    BY NewTrackerTyped DEF IInv, TrackInv, TrackOK
  <2>2. view \in Views
    BY DEF IInv, ViewInv, ViewOK
  <2>3. cursor \in Int
    BY DEF IInv, LogInv, LogOK, Off
  <2>4. api \in {"thread", "shell"}
    BY DEF IInv, FlowInv, ConstantsAssumption
  <2> QED
    BY <2>1, <2>2, <2>3, <2>4
<1>3. tracker.sequence \in 0..Len(log) /\ (api = "shell" => ~tracker.seeded)
  <2>1. CASE ~tracker.seeded
    <3>1. tracker = NewTracker
      BY <1>2, <2>1 DEF IInv, TrackInv, TrackOK, Tracked, Blank, Follows
    <3> QED
      BY <3>1, NewTrackerTyped DEF IInv, LogInv, LogOK
  <2>2. CASE tracker.seeded
    <3>1. api = "thread" /\ TrackOK(log, tracker, view, cursor)
      BY <1>2, <2>2, NewTrackerTyped DEF IInv, TrackInv
    <3> QED
      BY <1>2, <2>2, <3>1 DEF IInv, TrackOK, LogInv, LogOK, ViewInv, ViewOK, Trackers, Off
  <2> QED
    BY <2>1, <2>2
<1>4. TypeOK
  <2>1. watch = "loading" <=> held # Nothing
    BY DEF IInv, HeldInv, HeldOK, Nothing, Marker
  <2>2. Len(log) <= MaxEvents /\ (\A n \in DOMAIN log : log[n] \in Events) /\ cursor \in {Off} \cup 0..Len(log)
    BY DEF IInv, LogInv, LogOK
  <2>3. Len(queue) <= MaxQueue /\ sent \in Nat
    BY DEF IInv, QueueInv, QueueOK
  <2>4. /\ tracker.projection.runs \in [Runs -> RunStatus]
        /\ tracker.projection.requests \in [Requests -> RequestStatus]
        /\ tracker.announced \subseteq Requests /\ tracker.settled \subseteq Runs
        /\ view.cause \in Failures \cup {"none"}
    BY <1>2 DEF Trackers, Views, Projections
  <2> QED
    BY <1>3, <2>1, <2>2, <2>3, <2>4 DEF IInv, FlowInv, Streams, Watches, TypeOK
<1>5. TrackerCorrect
  <2> SUFFICES ASSUME tracker.seeded
               PROVE  /\ tracker.projection = Projection(log, Seen)
                      /\ view.open = {q \in Requests :
                           /\ StatusIn(log, Seen, "request", q) = "pending"
                           /\ q \in UserInputs => StatusIn(log, Seen, "item", q) = "known"}
                      /\ \A r \in Runs :
                           view.settlements[r] + (IF r \in view.found THEN 1 ELSE 0)
                             = IF StatusIn(log, Seen, "run", r) = "completed" THEN 1 ELSE 0
    BY DEF TrackerCorrect, ProjectionFollowsLog, AnnouncedOnce, RequestsAnnounced, SettledOnce
  <2>1. Follows(log, tracker, view)
    BY <1>2, NewTrackerTyped DEF IInv, TrackInv, TrackOK, Tracked, Blank
  <2>2. Seen = SeenBy(tracker, view)
    BY DEF Seen, SeenBy
  <2>3. tracker.projection = Projection(log, Seen)
    BY <2>1, <2>2 DEF Follows
  <2>4. view.open = {q \in Requests :
                       /\ StatusIn(log, Seen, "request", q) = "pending"
                       /\ q \in UserInputs => StatusIn(log, Seen, "item", q) = "known"}
    BY <2>1, <2>3 DEF Follows, PendingRequests, Projection
  <2>5. SettledRuns(tracker.projection) = {r \in Runs : StatusIn(log, Seen, "run", r) = "completed"}
    BY <2>3 DEF SettledRuns, IsRunTerminalStatus, Projection
  <2>6. \A r \in Runs : /\ view.settlements[r] = IF r \in tracker.settled /\ r \notin view.found THEN 1 ELSE 0
                        /\ r \in view.found => r \in tracker.settled
                        /\ r \in tracker.settled <=> StatusIn(log, Seen, "run", r) = "completed"
    BY <2>1, <2>5 DEF Follows
  <2> QED
    BY <2>3, <2>4, <2>6
<1>6. OversizedTriedOnce
  BY DEF IInv, FlowInv, OversizedTriedOnce
<1> QED
  BY <1>1, <1>4, <1>5, <1>6 DEF EachEventOnce

LEMMA InitInv == ASSUME ConstantsAssumption PROVE Init => IInv
<1> SUFFICES ASSUME Init PROVE IInv
  OBVIOUS
<1>1. /\ cursor \in Int /\ (cursor = Off \/ cursor \in 0..MaxEvents)
      /\ Max({cursor, 0}) = IF cursor = Off THEN 0 ELSE cursor
  <2>1. cursor \in Int /\ (cursor = Off \/ cursor \in 0..MaxEvents)
    BY DEF Init, ConstantsAssumption, Off
  <2>2. Max({cursor, 0}) = IF cursor >= 0 THEN cursor ELSE 0
    BY <2>1, MaxOfTwo
  <2> QED
    BY <2>1, <2>2 DEF Off, ConstantsAssumption
<1>2. PICK k \in 0..MaxEvents : k = Max({cursor, 0}) /\ cursor <= k /\ (cursor = Off \/ cursor = k)
  BY <1>1 DEF ConstantsAssumption, Off
<1>3. log \in [1..k -> Events] /\ Legal(log)
  BY <1>2 DEF Init, Prefix
<1>4. log \in Seq(Events) /\ Len(log) = k
  BY <1>3
<1>5. LogInv
  BY <1>2, <1>3, <1>4, LegalStaysOver DEF LogInv, LogOK, ConstantsAssumption
<1>6. view \in Views /\ view.covered = k /\ view.seededAt = 0 /\ view.shown = <<>> /\ view.undecoded = {}
  <2>1. PICK none \in Seq(Nat) : none = <<>>
    BY EmptySequence
  <2>2. view = [shown |-> none, undecoded |-> {}, covered |-> k, seededAt |-> 0,
                open |-> {}, settlements |-> [r \in Runs |-> 0], found |-> {},
                reconnects |-> 0, tries |-> 0, cause |-> "none"]
    BY <1>2, <2>1 DEF Init
  <2> QED
    BY <2>1, <2>2 DEF Views
<1>7. ViewInv
  BY <1>1, <1>2, <1>4, <1>6 DEF ViewInv, ViewOK, CoveredIn
<1>8. queue = <<>> /\ sent = 0 /\ held = Nothing /\ tracker = NewTracker /\ watch = "waiting"
  BY DEF Init
<1>9. QueueInv
  BY <1>4, <1>8, EmptySequence DEF QueueInv, QueueOK, ConstantsAssumption
<1>10. HeldInv /\ WireInv
  BY <1>8 DEF HeldInv, WireInv, WireOK
<1>11. TrackInv
  <2>1. Blank(tracker, view)
    BY DEF Init, Blank
  <2> QED
    BY <1>8, <2>1, NewTrackerTyped DEF TrackInv, TrackOK, Tracked
<1>12. FlowInv
  <2>1. view.tries = 0
    BY DEF Init
  <2>2. /\ api \in Apis /\ link = "connecting" /\ drops = 0 /\ opaque \in SUBSET Opaque
        /\ stream = "none" /\ queue = <<>> /\ marked = FALSE /\ resumed = FALSE /\ received = FALSE
        /\ watch = "waiting" /\ aborted = FALSE
    BY DEF Init
  <2>3. opaque \subseteq Nat /\ 0 \in 0..MaxDrops
    BY <2>2 DEF ConstantsAssumption
  <2> QED
    BY <2>1, <2>2, <2>3 DEF FlowInv, Streams, Watches
<1> QED
  BY <1>5, <1>7, <1>9, <1>10, <1>11, <1>12 DEF IInv

-----------------------------------------------------------------------------
(* Steps of the server, the socket and the stream *)

\* Views that differ in what the invariant does not read.
Alike(v, w) == /\ w.shown = v.shown /\ w.undecoded = v.undecoded /\ w.covered = v.covered
               /\ w.seededAt = v.seededAt /\ w.open = v.open /\ w.settlements = v.settlements
               /\ w.found = v.found

LEMMA AlikeKeeps ==
  ASSUME NEW v \in Views, NEW w \in Views, Alike(v, w)
  PROVE  /\ \A n : CoveredIn(v, n) <=> CoveredIn(w, n)
         /\ \A len, o, c : ViewOK(v, len, o, c) => ViewOK(w, len, o, c)
         /\ \A l, t, c : TrackOK(l, t, v, c) => TrackOK(l, t, w, c)
         /\ \A q, h, s : WireOK(q, h, v, s) => WireOK(q, h, w, s)
<1>1. \A n : CoveredIn(v, n) <=> CoveredIn(w, n)
  BY DEF Alike, CoveredIn
<1>2. ASSUME NEW len, NEW o, NEW c, ViewOK(v, len, o, c) PROVE ViewOK(w, len, o, c)
  BY <1>1, <1>2 DEF Alike, ViewOK
<1>3. ASSUME NEW l, NEW t, NEW c, TrackOK(l, t, v, c) PROVE TrackOK(l, t, w, c)
  <2>1. SeenBy(t, v) = SeenBy(t, w)
    BY DEF Alike, SeenBy
  <2>2. Tracked(l, t, w)
    BY <1>3, <2>1 DEF Alike, TrackOK, Tracked, Blank, Follows
  <2> QED
    BY <1>3, <2>2 DEF TrackOK, Alike
<1>4. ASSUME NEW q, NEW h, NEW s, WireOK(q, h, v, s) PROVE WireOK(q, h, w, s)
  BY <1>1, <1>4 DEF WireOK
<1> QED
  BY <1>1, <1>2, <1>3, <1>4

\* Steps of the control state alone.
LEMMA FlowKeeps ==
  ASSUME IInv, FlowInv', UNCHANGED <<api, log, opaque, queue, sent, cursor, tracker, held, view>>,
         watch' = watch \/ (watch # "loading" /\ watch' # "loading")
  PROVE  IInv'
<1>1. LogInv' /\ QueueInv' /\ WireInv' /\ ViewInv' /\ TrackInv'
  BY DEF IInv, LogInv, QueueInv, WireInv, ViewInv, TrackInv
<1>2. HeldInv'
  BY DEF IInv, HeldInv
<1> QED
  BY <1>1, <1>2 DEF IInv

LEMMA ControlKeeps ==
  ASSUME ConstantsAssumption, IInv,
         \/ Reconnect \/ Drop \/ CloseForGood \/ ServerStops
         \/ Abort \/ Consume \/ Finishes \/ UNCHANGED vars
  PROVE  IInv'
<1> USE DEF Streams, Watches, Over, Failures, ConnectionErrors, server, socket, wire, client
<1>0. FlowInv
  BY DEF IInv
<1>1. CASE Reconnect
  BY <1>0, <1>1, FlowKeeps DEF Reconnect, FlowInv
<1>2. CASE Drop
  <2>1. drops' \in 0..MaxDrops
    BY <1>0, <1>2 DEF Drop, FlowInv, ConstantsAssumption
  <2>2. PICK why \in {"dropped", "too_large"} : Break(why)
    BY <1>2 DEF Drop
  <2>3. FlowInv'
    BY <1>0, <1>2, <2>1, <2>2 DEF Drop, Break, FlowInv
  <2> QED
    BY <1>2, <2>2, <2>3, FlowKeeps DEF Drop, Break
<1>3. CASE CloseForGood
  BY <1>0, <1>3, FlowKeeps DEF CloseForGood, FlowInv
<1>4. CASE ServerStops
  BY <1>0, <1>4, FlowKeeps DEF ServerStops, Break, FlowInv
<1>5. CASE Abort
  BY <1>0, <1>5, FlowKeeps DEF Abort, FlowInv
<1>6. CASE Consume
  BY <1>0, <1>6, FlowKeeps DEF Consume, FlowInv
<1>7. CASE Finishes
  BY <1>0, <1>7, FlowKeeps DEF Finishes, FlowInv
<1>8. CASE UNCHANGED vars
  BY <1>0, <1>8, FlowKeeps DEF vars, FlowInv
<1> QED
  BY <1>1, <1>2, <1>3, <1>4, <1>5, <1>6, <1>7, <1>8

LEMMA EmitKeeps == ASSUME ConstantsAssumption, IInv, Emit PROVE IInv'
<1>1. PICK e \in Events : MayFollow(log, e) /\ log' = Append(log, e) /\ Len(log) < MaxEvents
  BY DEF Emit
<1>2. UNCHANGED <<api, oversized, opaque, link, drops, stream, queue, sent, marked, cursor, resumed,
                  received, tracker, held, watch, view, aborted>>
  BY DEF Emit, socket, wire, client
<1>3. /\ log \in Seq(Events) /\ log' \in Seq(Events) /\ Len(log') = Len(log) + 1 /\ Len(log) \in Nat
      /\ cursor \in {Off} \cup 0..Len(log)
  BY <1>1 DEF IInv, LogInv, LogOK
<1>4. LogInv'
  <2>1. RunsStayOver(log')
    BY <1>1, <1>3, EmitKeepsOver DEF IInv, LogInv, LogOK
  <2>2. Len(log') <= MaxEvents /\ cursor \in {Off} \cup 0..Len(log')
    BY <1>1, <1>3 DEF IInv, LogInv, LogOK, ConstantsAssumption
  <2> QED
    BY <1>2, <1>3, <2>1, <2>2 DEF LogInv, LogOK
<1>5. ASSUME NEW seen \in SUBSET (1..Len(log))
      PROVE  Projection(log', seen) = Projection(log, seen)
  BY <1>1, <1>3, ProjectionAppended
<1>6. QueueInv'
  <2>1. ASSUME NEW f, FrameOK(f, log, sent, opaque, cursor, view.seededAt)
        PROVE  FrameOK(f, log', sent, opaque, cursor, view.seededAt)
    <3>1. CASE f.kind = "snapshot"
      <4>1. f.sequence \in 0..Len(log')
        BY <1>3, <2>1, <3>1 DEF FrameOK
      <4>2. Prefix(f.sequence) \in SUBSET (1..Len(log))
        BY <1>3, <2>1, <3>1 DEF FrameOK, Prefix
      <4>3. f.projection = Projection(log', Prefix(f.sequence))
        BY <1>5, <2>1, <3>1, <4>2 DEF FrameOK
      <4> QED
        BY <2>1, <3>1, <4>1, <4>3 DEF FrameOK
    <3>2. CASE f.kind # "snapshot"
      BY <2>1, <3>2 DEF FrameOK
    <3> QED
      BY <3>1, <3>2
  <2>2. QueueOK(queue, log', sent, opaque, cursor, view.seededAt)
    BY <1>3, <2>1 DEF IInv, QueueInv, QueueOK
  <2> QED
    BY <1>2, <2>2 DEF QueueInv
<1>7. ViewInv'
  <2>1. ViewOK(view, Len(log'), opaque, cursor)
    BY <1>3 DEF IInv, ViewInv, ViewOK
  <2> QED
    BY <1>2, <2>1 DEF ViewInv
<1>8. TrackInv'
  <2>1. ASSUME TrackOK(log, tracker, view, cursor) PROVE TrackOK(log', tracker, view, cursor)
    <3>1. CASE Blank(tracker, view)
      BY <2>1, <3>1 DEF TrackOK, Tracked
    <3>2. CASE Follows(log, tracker, view)
      <4>1. tracker.sequence \in 0..Len(log)
        BY <1>3, <2>1, <3>2 DEF TrackOK, Follows, IInv, ViewInv, ViewOK, Trackers, Off
      <4>2. SeenBy(tracker, view) \in SUBSET (1..Len(log))
        BY <1>3, <4>1 DEF SeenBy, Prefix
      <4>3. Projection(log', SeenBy(tracker, view)) = Projection(log, SeenBy(tracker, view))
        BY <1>5, <4>2
      <4>4. Follows(log', tracker, view)
        BY <3>2, <4>3 DEF Follows
      <4> QED
        BY <2>1, <4>4 DEF TrackOK, Tracked
    <3> QED
      BY <2>1, <3>1, <3>2 DEF TrackOK, Tracked
  <2> QED
    BY <1>2, <2>1 DEF IInv, TrackInv
<1>9. HeldInv' /\ WireInv' /\ FlowInv'
  BY <1>2 DEF IInv, HeldInv, WireInv, FlowInv, Over
<1> QED
  BY <1>4, <1>6, <1>7, <1>8, <1>9 DEF IInv

LEMMA SubscribeKeeps == ASSUME IInv, Subscribe PROVE IInv'
<1>1. /\ watch = "waiting" /\ stream = "none" /\ stream' = "asked" /\ queue = <<>>
      /\ UNCHANGED <<api, log, oversized, opaque, link, drops, queue, marked, cursor, resumed,
                     received, tracker, held, watch, view, aborted>>
  BY DEF Subscribe, server, socket, client, IInv, FlowInv
<1>2. cursor \in Int /\ (cursor = Off \/ cursor \in 0..Len(log)) /\ Len(log) \in Nat
  BY DEF IInv, LogInv, LogOK, Off
<1>3. sent' \in 0..Len(log) /\ \A n \in 1..sent' : n \in 1..cursor
  <2>1. sent' = IF cursor >= 0 THEN cursor ELSE 0
    BY <1>2, MaxOfTwo DEF Subscribe, ResumeAfter
  <2> QED
    BY <1>2, <2>1 DEF Off
<1>4. QueueInv'
  BY <1>1, <1>3 DEF IInv, QueueInv, QueueOK
<1>5. WireInv'
  BY <1>1, <1>3 DEF IInv, WireInv, WireOK, ViewInv, ViewOK
<1>6. HeldInv' /\ LogInv' /\ ViewInv' /\ TrackInv'
  BY <1>1 DEF IInv, HeldInv, LogInv, ViewInv, TrackInv
<1>7. FlowInv'
  BY <1>1 DEF IInv, FlowInv, Streams, Over
<1> QED
  BY <1>4, <1>5, <1>6, <1>7 DEF IInv

LEMMA AnswerKeeps == ASSUME ConstantsAssumption, IInv, Answer PROVE IInv'
<1>1. /\ ~Over /\ stream = "asked" /\ queue = <<>> /\ ~received /\ marked' = FALSE
      /\ watch # "loading" /\ held = Nothing
      /\ UNCHANGED <<api, log, opaque, drops, cursor, resumed, received, tracker, held, watch, aborted>>
  BY DEF Answer, server, IInv, FlowInv, HeldInv
<1>2. sent \in 0..Len(log) /\ Len(log) \in Nat /\ log \in Seq(Events)
  BY DEF IInv, LogInv, LogOK, QueueInv, QueueOK
<1>3. \A k \in Nat : \A n \in Overlap(k) : n \in 0..k
  <2>1. ASSUME NEW k \in Nat, NEW n \in Overlap(k) PROVE n \in 0..k
    <3>1. Max({k - MaxOverlap, 0}) = IF k - MaxOverlap >= 0 THEN k - MaxOverlap ELSE 0
      BY MaxOfTwo DEF ConstantsAssumption
    <3> QED
      BY <2>1, <3>1 DEF Overlap, ConstantsAssumption
  <2> QED
    BY <2>1
<1>4. HeldInv' /\ LogInv'
  BY <1>1 DEF IInv, HeldInv, LogInv
<1>5. CASE ~oversized /\ stream' = "live" /\ queue' = <<Snapshot(Len(log))>>
           /\ sent' \in Overlap(Len(log)) /\ UNCHANGED <<link, view>>
  <2>1. PICK f : f = Snapshot(Len(log))
    OBVIOUS
  <2>2. /\ f.kind = "snapshot" /\ f.sequence = Len(log)
        /\ f.projection = Projection(log, Prefix(Len(log)))
    BY <2>1 DEF Snapshot
  <2>3. f \in Frames
    <3>1. Projection(log, Prefix(Len(log))) \in Projections
      BY <1>2, ProjectionTyped
    <3> QED
      BY <1>2, <2>1, <3>1 DEF Snapshot, Frames
  <2>4. FrameOK(f, log, sent', opaque, cursor, view.seededAt)
    BY <1>2, <2>2, <2>3 DEF FrameOK, IInv, LogInv, LogOK, ViewInv, ViewOK, Off
  <2>5. queue' \in Seq(Frames) /\ Len(queue') = 1 /\ DOMAIN queue' = {1} /\ queue'[1] = f
    BY <1>5, <2>1, <2>3
  <2>6. sent' \in 0..Len(log)
    BY <1>2, <1>3, <1>5
  <2>7. QueueInv'
    BY <1>1, <1>5, <2>2, <2>4, <2>5, <2>6 DEF QueueInv, QueueOK, ConstantsAssumption, IsEvent
  <2>8. WireInv'
    BY <2>2, <2>5, <2>6 DEF WireInv, WireOK, ComingIn
  <2>9. ViewInv' /\ TrackInv'
    BY <1>1, <1>5 DEF IInv, ViewInv, TrackInv
  <2>10. FlowInv'
    BY <1>1, <1>5 DEF IInv, FlowInv, Streams, Over
  <2> QED
    BY <1>4, <2>7, <2>8, <2>9, <2>10 DEF IInv
<1>6. CASE cursor # Off /\ stream' = "live" /\ sent' \in Overlap(sent) /\ UNCHANGED <<link, queue, view>>
  <2>1. sent' \in 0..sent
    BY <1>2, <1>3, <1>6
  <2>2. QueueInv'
    BY <1>1, <1>2, <1>6, <2>1 DEF IInv, QueueInv, QueueOK
  <2>3. WireInv'
    BY <1>1, <1>2, <1>6, <2>1 DEF IInv, WireInv, WireOK
  <2>4. ViewInv' /\ TrackInv'
    BY <1>1, <1>6 DEF IInv, ViewInv, TrackInv
  <2>5. FlowInv'
    BY <1>1, <1>6 DEF IInv, FlowInv, Streams, Over
  <2> QED
    BY <1>4, <2>2, <2>3, <2>4, <2>5 DEF IInv
<1>7. CASE oversized /\ stream' = "too_large" /\ link' = "connecting"
           /\ view' = [view EXCEPT !.tries = @ + 1] /\ UNCHANGED <<queue, sent>>
  <2>1. view \in Views
    BY DEF IInv, ViewInv, ViewOK
  <2>3. view.tries = 0
    BY <1>1 DEF IInv, FlowInv
  <2>2. view' \in Views /\ Alike(view, view') /\ view'.tries = 1
    <3>1. view' = [view EXCEPT !.tries = 1]
      BY <1>7, <2>3
    <3> QED
      BY <2>1, <3>1 DEF Views, Alike
  <2>4. QueueInv' /\ ViewInv' /\ TrackInv' /\ WireInv'
    <3>1. /\ ViewOK(view', Len(log), opaque, cursor)
          /\ api = "thread" => TrackOK(log, tracker, view', cursor)
          /\ WireOK(queue, held, view', sent)
      BY <2>1, <2>2, AlikeKeeps DEF IInv, ViewInv, TrackInv, WireInv
    <3> QED
      BY <1>1, <1>7, <2>2, <3>1 DEF IInv, QueueInv, ViewInv, TrackInv, WireInv, Alike
  <2>5. FlowInv'
    BY <1>1, <1>7, <2>2, <2>3 DEF IInv, FlowInv, Streams, Over, Failures, ConnectionErrors
  <2> QED
    BY <1>4, <2>4, <2>5 DEF IInv
<1> QED
  BY <1>5, <1>6, <1>7 DEF Answer

LEMMA SendKeeps == ASSUME ConstantsAssumption, IInv, Send PROVE IInv'
<1>1. /\ ~Over /\ stream = "live" /\ Len(queue) < MaxQueue
      /\ UNCHANGED <<api, log, oversized, opaque, link, drops, stream, cursor, resumed, received,
                     tracker, held, watch, view, aborted>>
  BY DEF Send, server, socket, client
<1>2. /\ queue \in Seq(Frames) /\ sent \in 0..Len(log) /\ Len(log) \in Nat
      /\ QueueOK(queue, log, sent, opaque, cursor, view.seededAt)
  BY DEF IInv, QueueInv, QueueOK, LogInv, LogOK
<1>3. PICK f \in Frames : /\ queue' = Append(queue, f) /\ f.kind # "snapshot"
                          /\ \/ f = Marker /\ sent' = sent
                             \/ /\ sent' = sent + 1 /\ sent' <= Len(log) /\ IsEvent(f) /\ f.sequence = sent'
                                /\ f.kind = "event" <=> sent' \notin opaque
                          /\ marked' \in BOOLEAN
  <2>1. CASE sent < Len(log) /\ queue' = Append(queue, EventFrame(sent + 1)) /\ sent' = sent + 1
             /\ UNCHANGED marked
    <3>1. PICK f : f = EventFrame(sent + 1)
      OBVIOUS
    <3>2. /\ f.kind \in {"event", "undecodable"} /\ f.sequence = sent'
          /\ f.kind = "event" <=> sent' \notin opaque
          /\ f \in Frames
      BY <1>2, <2>1, <3>1 DEF EventFrame, Frames
    <3>3. marked' \in BOOLEAN
      BY <2>1 DEF IInv, FlowInv
    <3> QED
      BY <1>2, <2>1, <3>1, <3>2, <3>3 DEF IsEvent
  <2>2. CASE sent = Len(log) /\ queue' = Append(queue, Marker) /\ marked' = TRUE /\ UNCHANGED sent
    BY <2>2 DEF Marker, Frames
  <2> QED
    BY <2>1, <2>2 DEF Send
<1>4. /\ queue' \in Seq(Frames) /\ Len(queue') = Len(queue) + 1 /\ Len(queue) \in Nat
      /\ DOMAIN queue = 1..Len(queue) /\ DOMAIN queue' = 1..Len(queue) + 1
      /\ \A i \in 1..Len(queue) : queue'[i] = queue[i]
      /\ queue'[Len(queue) + 1] = f
  BY <1>2, <1>3
<1>5. /\ sent' \in 0..Len(log) /\ sent <= sent'
      /\ \A n \in 1..sent' : n \in 1..sent \/ (IsEvent(f) /\ f.sequence = n)
      /\ \A n \in 1..sent : n \in 1..sent' /\ (IsEvent(f) => n < f.sequence)
  BY <1>2, <1>3 DEF IsEvent, Marker
<1>6. QueueInv'
  <2>1. \A i \in 1..Len(queue) : FrameOK(queue[i], log, sent', opaque, cursor, view.seededAt)
    BY <1>2, <1>4, <1>5 DEF QueueOK, FrameOK
  <2>2. FrameOK(f, log, sent', opaque, cursor, view.seededAt)
    BY <1>2, <1>3, <1>5 DEF FrameOK, Marker, IsEvent
  <2>3. \A i \in DOMAIN queue' : /\ FrameOK(queue'[i], log, sent', opaque, cursor, view.seededAt)
                                 /\ queue'[i].kind = "snapshot" => i = 1
    BY <1>2, <1>3, <1>4, <2>1, <2>2 DEF QueueOK
  <2>4. \A i \in 1..Len(queue) : IsEvent(queue[i]) => queue[i].sequence \in 1..sent
    BY <1>2, <1>4 DEF QueueOK, FrameOK, IsEvent
  <2>5. ASSUME NEW i \in DOMAIN queue', NEW j \in DOMAIN queue', i < j,
               IsEvent(queue'[i]), IsEvent(queue'[j])
        PROVE  queue'[i].sequence < queue'[j].sequence
    <3>1. i \in 1..Len(queue) /\ queue'[i] = queue[i]
      BY <1>4, <2>5
    <3>2. CASE j \in 1..Len(queue)
      BY <1>2, <1>4, <2>5, <3>1, <3>2 DEF QueueOK
    <3>3. CASE j = Len(queue) + 1
      BY <1>4, <1>5, <2>4, <2>5, <3>1, <3>3
    <3> QED
      BY <1>4, <3>2, <3>3
  <2>6. Len(queue') <= MaxQueue
    BY <1>1, <1>4 DEF ConstantsAssumption
  <2> QED
    BY <1>1, <1>4, <1>5, <2>3, <2>5, <2>6 DEF QueueInv, QueueOK
<1>7. HeldInv'
  <2>1. ASSUME HeldOK(held, queue, sent, opaque) PROVE HeldOK(held, queue', sent', opaque)
    BY <1>3, <1>4, <1>5, <2>1 DEF HeldOK
  <2> QED
    BY <1>1, <2>1 DEF IInv, HeldInv
<1>8. WireInv'
  <2>1. \A n : ComingIn(queue, held, n) => ComingIn(queue', held, n)
    BY <1>4 DEF ComingIn
  <2>2. \A n : IsEvent(f) /\ f.sequence = n => ComingIn(queue', held, n)
    BY <1>4 DEF ComingIn
  <2> QED
    BY <1>1, <1>5, <2>1, <2>2 DEF IInv, WireInv, WireOK
<1>9. LogInv' /\ ViewInv' /\ TrackInv' /\ FlowInv'
  BY <1>1, <1>3 DEF IInv, LogInv, ViewInv, TrackInv, FlowInv, Over
<1> QED
  BY <1>6, <1>7, <1>8, <1>9 DEF IInv

-----------------------------------------------------------------------------
(* What a frame does to the view and the tracker *)

\* What view v accounts for, view w does.
Grows(v, w) == \A m \in Nat : CoveredIn(v, m) => CoveredIn(w, m)

\* An event past the cursor is shown.
LEMMA ViewShows ==
  ASSUME NEW v \in Views, NEW w \in Views, NEW len \in Nat, NEW o, NEW c \in Int, NEW n \in 1..len,
         ViewOK(v, len, o, c), c < n, n \notin o, \A m \in 1..n-1 : CoveredIn(v, m),
         w.shown = Append(v.shown, n), w.undecoded = v.undecoded, w.covered = v.covered,
         w.seededAt = v.seededAt
  PROVE  /\ ViewOK(w, len, o, n) /\ CoveredIn(w, n)
         /\ Grows(v, w)
<1>1. /\ v.shown \in Seq(Nat) /\ Len(v.shown) \in Nat /\ n \in Nat /\ v.covered \in Nat
      /\ DOMAIN v.shown = 1..Len(v.shown)
  BY DEF Views
<1>2. /\ DOMAIN w.shown = 1..Len(v.shown) + 1
      /\ \A i \in 1..Len(v.shown) : w.shown[i] = v.shown[i]
      /\ w.shown[Len(v.shown) + 1] = n
  BY <1>1
<1>3. n \in ToSet(w.shown) /\ ToSet(v.shown) \subseteq ToSet(w.shown)
  <2>1. Len(v.shown) + 1 \in DOMAIN w.shown /\ \A i \in 1..Len(v.shown) : i \in DOMAIN w.shown
    BY <1>1, <1>2
  <2> QED
    BY <1>1, <1>2, <2>1 DEF ToSet
<1>4. CoveredIn(w, n) /\ Grows(v, w)
  BY <1>3 DEF CoveredIn, Grows
<1>5. \A m \in 1..n : CoveredIn(w, m)
  <2>1. \A m \in 1..n : m = n \/ m \in 1..n-1
    BY <1>1
  <2> QED
    BY <1>4, <2>1 DEF Grows
<1>6. \A i \in 1..Len(v.shown) : v.shown[i] \in 1..c /\ v.shown[i] \notin o /\ v.shown[i] < n
  <2>1. \A i \in 1..Len(v.shown) : v.shown[i] \in 1..c /\ v.shown[i] \notin o
    BY <1>1 DEF ViewOK
  <2>2. \A m \in 1..c : m < n
    BY <1>1
  <2> QED
    BY <2>1, <2>2
<1>7. \A i, j \in DOMAIN w.shown : i < j => w.shown[i] < w.shown[j]
  <2>1. ASSUME NEW i \in DOMAIN w.shown, NEW j \in DOMAIN w.shown, i < j
        PROVE  w.shown[i] < w.shown[j]
    <3>1. i \in 1..Len(v.shown)
      BY <1>1, <1>2, <2>1
    <3>2. CASE j \in 1..Len(v.shown)
      BY <1>1, <1>2, <2>1, <3>1, <3>2 DEF ViewOK
    <3>3. CASE j = Len(v.shown) + 1
      BY <1>2, <1>6, <3>1, <3>3
    <3>4. j \in 1..Len(v.shown) \/ j = Len(v.shown) + 1
      BY <1>1, <1>2
    <3> QED
      BY <3>2, <3>3, <3>4
  <2> QED
    BY <2>1
<1>8. \A i \in DOMAIN w.shown : w.shown[i] \in 1..n /\ w.shown[i] \notin o
  <2>1. ASSUME NEW i \in DOMAIN w.shown PROVE w.shown[i] \in 1..n /\ w.shown[i] \notin o
    <3>1. CASE i \in 1..Len(v.shown)
      BY <1>1, <1>2, <1>6, <3>1
    <3>2. CASE i = Len(v.shown) + 1
      BY <1>1, <1>2, <3>2
    <3> QED
      BY <1>1, <1>2, <2>1, <3>1, <3>2
  <2> QED
    BY <2>1
<1>9. w.covered = 0 \/ w.covered <= n
  BY <1>1 DEF ViewOK
<1> QED
  BY <1>4, <1>5, <1>7, <1>8, <1>9 DEF ViewOK

TrackReported(v, w, c) == \A l, t : TrackOK(l, t, v, c) => TrackOK(l, t, w, c)

\* An event that cannot be decoded is reported, and changes nothing the tracker has seen.
LEMMA ViewReports ==
  ASSUME NEW v \in Views, NEW w \in Views, NEW len \in Nat, NEW o, NEW c \in Int, NEW n \in 1..len,
         ViewOK(v, len, o, c), n \in o,
         w.undecoded = v.undecoded \cup {n}, w.shown = v.shown, w.covered = v.covered,
         w.seededAt = v.seededAt, w.open = v.open, w.settlements = v.settlements, w.found = v.found
  PROVE  /\ ViewOK(w, len, o, c) /\ CoveredIn(w, n) /\ Grows(v, w)
         /\ TrackReported(v, w, c)
<1>1. CoveredIn(w, n) /\ Grows(v, w)
  BY DEF CoveredIn, Grows
<1>2. ViewOK(w, len, o, c)
  BY <1>1 DEF ViewOK, Grows
<1>3. ASSUME NEW l, NEW t, TrackOK(l, t, v, c) PROVE TrackOK(l, t, w, c)
  <2>1. CASE Blank(t, v)
    BY <1>3, <2>1 DEF Blank, TrackOK, Tracked
  <2>2. CASE Follows(l, t, v)
    <3>1. ASSUME n \in 1..t.sequence, ~(n <= v.seededAt) PROVE n \in v.undecoded
      <4>1. t.sequence = c /\ n \in 1..c /\ v.covered <= v.seededAt /\ v.covered \in Nat /\ v.seededAt \in Nat
        BY <1>3, <2>2, <3>1 DEF TrackOK, Follows, Views, Trackers
      <4>2. CoveredIn(v, n)
        BY <4>1 DEF ViewOK
      <4>3. n \notin ToSet(v.shown)
        BY DEF ViewOK, ToSet
      <4>4. ~(n <= v.covered)
        BY <3>1, <4>1
      <4> QED
        BY <3>1, <4>2, <4>3, <4>4 DEF CoveredIn
    <3>2. SeenBy(t, w) = SeenBy(t, v)
      BY <3>1 DEF SeenBy, Prefix
    <3>3. Follows(l, t, w)
      BY <2>2, <3>2 DEF Follows
    <3> QED
      BY <1>3, <3>3 DEF TrackOK, Tracked
  <2> QED
    BY <1>3, <2>1, <2>2 DEF TrackOK, Tracked
<1> QED
  BY <1>1, <1>2, <1>3 DEF TrackReported

GrowsTo(v, w, n) == \A m \in Nat : CoveredIn(v, m) \/ m <= n => CoveredIn(w, m)

\* A snapshot that is not behind is shown.
LEMMA ViewSeeds ==
  ASSUME NEW v \in Views, NEW w \in Views, NEW len \in Nat, NEW o, NEW c \in Int, NEW c2 \in Int,
         NEW n \in 0..len, ViewOK(v, len, o, c), c <= n, v.seededAt <= n, c2 = c \/ c2 = n,
         w.shown = v.shown, w.undecoded = {k \in v.undecoded : k > n}, w.seededAt = n,
         v.covered <= w.covered, w.covered = 0 \/ w.covered <= c2
  PROVE  /\ ViewOK(w, len, o, c2)
         /\ GrowsTo(v, w, n)
<1>0. /\ v.shown \in Seq(Nat) /\ v.covered \in Nat /\ w.covered \in Nat /\ v.seededAt \in Nat
      /\ n \in Nat /\ v.undecoded \subseteq Nat
  BY DEF Views
<1>1. ASSUME NEW m \in Nat, CoveredIn(v, m) \/ m <= n PROVE CoveredIn(w, m)
  <2>1. CASE m <= n
    BY <2>1 DEF CoveredIn
  <2>2. CASE m \in v.undecoded /\ ~(m <= n)
    BY <1>0, <2>2 DEF CoveredIn
  <2>3. CASE m <= v.covered \/ m <= v.seededAt
    BY <1>0, <2>3 DEF CoveredIn
  <2>4. CASE m \in ToSet(v.shown)
    BY <2>4 DEF CoveredIn
  <2> QED
    BY <1>1, <2>1, <2>2, <2>3, <2>4 DEF CoveredIn
<1>2. \A m \in 1..c2 : CoveredIn(w, m)
  <2>1. \A m \in 1..c2 : m \in Nat /\ (m \in 1..c \/ m <= n)
    BY <1>0
  <2> QED
    BY <1>1, <2>1 DEF ViewOK
<1>3. \A i \in DOMAIN v.shown : v.shown[i] \in 1..c2
  BY <1>0 DEF ViewOK
<1> QED
  BY <1>1, <1>2, <1>3 DEF ViewOK, GrowsTo

-----------------------------------------------------------------------------
(* What the tracker's own steps come to *)

LEMMA ApplyTyped ==
  ASSUME NEW p \in Projections, NEW e \in Events
  PROVE  ApplyThreadEvent(p, e) \in Projections
<1>1. CASE e.type = "run"
  <2>1. e.id \in Runs /\ e.status \in RunStatus
    BY <1>1, EventFields DEF RunStatus
  <2>2. ApplyThreadEvent(p, e) = [p EXCEPT !.runs[e.id] = e.status]
    BY <1>1 DEF ApplyThreadEvent
  <2> QED
    BY <2>1, <2>2 DEF Projections
<1>2. CASE e.type = "request"
  <2>1. e.id \in Requests /\ e.status \in RequestStatus
    BY <1>2, EventFields DEF RequestStatus
  <2>2. ApplyThreadEvent(p, e) = [p EXCEPT !.requests[e.id] = e.status]
    BY <1>2 DEF ApplyThreadEvent
  <2> QED
    BY <2>1, <2>2 DEF Projections
<1>3. CASE e.type = "item"
  <2>1. e.id \in UserInputs
    BY <1>3, EventFields
  <2>2. ApplyThreadEvent(p, e) = [p EXCEPT !.items = @ \cup {e.id}]
    BY <1>3 DEF ApplyThreadEvent
  <2> QED
    BY <2>1, <2>2 DEF Projections
<1> QED
  BY <1>1, <1>2, <1>3, EventFields

\* #reconcileRequests of a tracker whose projection is in place, and what is told of it.
LEMMA ReconcileFields ==
  ASSUME NEW t \in Trackers, NEW settles, NEW step, step = Reconcile(t, settles)
  PROVE  /\ step.tracker \in Trackers
         /\ step.tracker.projection = t.projection /\ step.tracker.sequence = t.sequence
         /\ step.tracker.settled = t.settled /\ step.tracker.seeded = t.seeded
         /\ step.tracker.announced = (t.announced \cap Open(t.projection))
                                       \cup (PendingRequests(t.projection) \ t.announced)
         /\ step.resolved = t.announced \ Open(t.projection)
         /\ step.requested = PendingRequests(t.projection) \ t.announced
         /\ step.settles = settles
BY DEF Reconcile, Open, Trackers, PendingRequests

LEMMA ToldFields ==
  ASSUME NEW x \in Views, NEW step, NEW w, w = Told(x, step),
         step.requested \subseteq Requests
  PROVE  /\ w \in Views
         /\ w.shown = x.shown /\ w.undecoded = x.undecoded /\ w.covered = x.covered
         /\ w.seededAt = x.seededAt /\ w.found = x.found /\ w.tries = x.tries
         /\ w.open = (x.open \ step.resolved) \cup step.requested
         /\ w.settlements = [r \in Runs |-> IF r \in step.settles THEN x.settlements[r] + 1
                                                                  ELSE x.settlements[r]]
<1>1. PICK a \in SUBSET Requests : a = (x.open \ step.resolved) \cup step.requested
  BY DEF Views
<1>2. PICK b \in [Runs -> Nat] :
        b = [r \in Runs |-> IF r \in step.settles THEN x.settlements[r] + 1 ELSE x.settlements[r]]
  <2>1. \A r \in Runs : x.settlements[r] \in Nat
    BY DEF Views
  <2>2. \A r \in Runs : (IF r \in step.settles THEN x.settlements[r] + 1 ELSE x.settlements[r]) \in Nat
    BY <2>1
  <2> QED
    BY <2>2
<1>3. w = [x EXCEPT !.open = a, !.settlements = b]
  BY <1>1, <1>2 DEF Told
<1>4. w \in Views
  BY <1>3 DEF Views
<1>5. /\ w.shown = x.shown /\ w.undecoded = x.undecoded /\ w.covered = x.covered
      /\ w.seededAt = x.seededAt /\ w.found = x.found /\ w.tries = x.tries
      /\ w.open = a /\ w.settlements = b
  BY <1>3 DEF Views
<1> QED
  BY <1>1, <1>2, <1>4, <1>5

LEMMA ShownFields ==
  ASSUME NEW v \in Views, NEW f, f.sequence \in Nat, NEW x, x = Shown(v, f)
  PROVE  /\ x \in Views /\ x.seededAt = f.sequence /\ x.undecoded = {k \in v.undecoded : k > f.sequence}
         /\ x.found = v.found \cup {r \in SettledRuns(f.projection) : v.settlements[r] = 0}
         /\ x.shown = v.shown /\ x.covered = v.covered /\ x.open = v.open
         /\ x.settlements = v.settlements /\ x.tries = v.tries
<1>1. PICK a \in SUBSET Nat : a = {k \in v.undecoded : k > f.sequence}
  BY DEF Views
<1>2. PICK b \in SUBSET Runs : b = v.found \cup {r \in SettledRuns(f.projection) : v.settlements[r] = 0}
  BY DEF Views, SettledRuns
<1>3. x = [v EXCEPT !.seededAt = f.sequence, !.undecoded = a, !.found = b]
  BY <1>1, <1>2 DEF Shown
<1>4. x \in Views
  BY <1>3 DEF Views
<1>5. /\ x.seededAt = f.sequence /\ x.undecoded = a /\ x.found = b
      /\ x.shown = v.shown /\ x.covered = v.covered /\ x.open = v.open
      /\ x.settlements = v.settlements /\ x.tries = v.tries
  BY <1>3 DEF Views
<1> QED
  BY <1>1, <1>2, <1>4, <1>5

\* What a step of the tracker is, and what is told of it.
Takes(step, l, t, n) == step = Apply(t, n, l[n])
Seeded(step, t, f)   == step = Seed(t, f)
Tells(w, x, step)    == w = Told(x, step)

SnapshotOf(f, l, n) == f.sequence = n /\ f.projection = Projection(l, Prefix(n))

\* View x is v with snapshot f of the first n events shown.
ShowsSeed(x, v, f, n) ==
  /\ x.seededAt = n /\ x.covered <= n /\ x.open = v.open /\ x.settlements = v.settlements
  /\ x.found = v.found \cup {r \in SettledRuns(f.projection) : v.settlements[r] = 0}

\* Seed, of a snapshot of the log's first n events.
LEMMA SeedShows ==
  ASSUME NEW l \in Seq(Events), RunsStayOver(l), NEW t, NEW v \in Views, NEW c \in Int,
         NEW n \in 0..Len(l), c <= n, v.seededAt <= n, TrackOK(l, t, v, c),
         NEW f, SnapshotOf(f, l, n), NEW step, Seeded(step, t, f), NEW x \in Views,
         ShowsSeed(x, v, f, n), NEW w, Tells(w, x, step)
  PROVE  /\ w \in Views /\ TrackOK(l, step.tracker, w, c) /\ TrackOK(l, step.tracker, w, n)
         /\ w.shown = x.shown /\ w.undecoded = x.undecoded /\ w.covered = x.covered
         /\ w.seededAt = n /\ w.tries = x.tries
         /\ step.tracker.seeded
<1> USE DEF SnapshotOf, ShowsSeed
<1>1. t \in Trackers /\ n \in Nat /\ t.sequence \in Nat /\ t.sequence <= n
  BY NewTrackerTyped DEF TrackOK, Tracked, Blank, Follows, Trackers
<1>2. Max({t.sequence, n}) = n
  BY <1>1, MaxOfTwo
<1>3. Projection(l, Prefix(n)) \in Projections
  BY ProjectionTyped
<1>4. PICK t1 : t1 = [t EXCEPT !.seeded = TRUE, !.projection = f.projection, !.sequence = n,
                               !.settled = @ \cup SettledRuns(f.projection)]
  OBVIOUS
<1>5. /\ t1 \in Trackers /\ t1.seeded /\ t1.projection = Projection(l, Prefix(n)) /\ t1.sequence = n
      /\ t1.settled = t.settled \cup SettledRuns(t1.projection) /\ t1.announced = t.announced
  <2>1. PICK p \in Projections : p = f.projection
    BY <1>3
  <2>2. PICK a \in SUBSET Runs : a = t.settled \cup SettledRuns(p)
    BY <1>1 DEF Trackers, SettledRuns
  <2>3. t1 = [t EXCEPT !.seeded = TRUE, !.projection = p, !.sequence = n, !.settled = a]
    BY <1>4, <2>1, <2>2
  <2> QED
    BY <1>1, <2>1, <2>2, <2>3 DEF Trackers
<1>6. step = Reconcile(t1, {})
  BY <1>2, <1>4 DEF Seed, Seeded
<1>7. PICK u : u = step.tracker
  OBVIOUS
<1>8. /\ u \in Trackers /\ u.projection = t1.projection /\ u.sequence = n
      /\ u.settled = t1.settled /\ u.seeded
      /\ u.announced = (t.announced \cap Open(u.projection))
                         \cup (PendingRequests(u.projection) \ t.announced)
      /\ step.resolved = t.announced \ Open(u.projection)
      /\ step.requested = PendingRequests(u.projection) \ t.announced
      /\ step.settles = {}
  BY <1>5, <1>6, <1>7, ReconcileFields
<1>9. step.requested \subseteq Requests
  BY <1>8 DEF PendingRequests
<1>10. /\ w \in Views /\ w.shown = x.shown /\ w.undecoded = x.undecoded /\ w.covered = x.covered
       /\ w.seededAt = n /\ w.found = x.found /\ w.tries = x.tries
       /\ w.open = (v.open \ step.resolved) \cup step.requested
       /\ w.settlements = [r \in Runs |-> IF r \in step.settles THEN x.settlements[r] + 1
                                                                ELSE x.settlements[r]]
  BY <1>9, ToldFields DEF Tells
<1>11. w.settlements = v.settlements
  <2>1. v.settlements \in [Runs -> Nat]
    BY DEF Views
  <2> QED
    BY <1>8, <1>10, <2>1
<1>12. Seeds(l, t, u, v, w, n)
  BY <1>5, <1>8, <1>10, <1>11 DEF Seeds, Reconciled
<1>13. Follows(l, u, w)
  BY <1>1, <1>8, <1>10, <1>12, SeedFollows DEF TrackOK
<1>14. w.covered \in Nat
  BY <1>10 DEF Views
<1> QED
  BY <1>1, <1>7, <1>8, <1>10, <1>13, <1>14 DEF TrackOK, Tracked

\* All events before n are accounted for.
Gapless(v, n) == \A m \in 1..n - 1 : CoveredIn(v, m)

\* View x is v with event n shown.
Lengthens(x, v, n) ==
  /\ x.shown = Append(v.shown, n) /\ x.undecoded = v.undecoded /\ x.covered = v.covered
  /\ x.seededAt = v.seededAt /\ x.open = v.open /\ x.settlements = v.settlements
  /\ x.found = v.found /\ x.tries = v.tries

\* Apply, of an event past the cursor.
LEMMA ApplyShows ==
  ASSUME NEW l \in Seq(Events), RunsStayOver(l), NEW t, NEW v \in Views, NEW c \in Int, NEW o,
         NEW n \in DOMAIN l, c < n, n \notin o, ViewOK(v, Len(l), o, c), TrackOK(l, t, v, c),
         Gapless(v, n), NEW step, Takes(step, l, t, n), NEW x \in Views, Lengthens(x, v, n),
         NEW w, Tells(w, x, step)
  PROVE  /\ w \in Views /\ ViewOK(w, Len(l), o, n) /\ TrackOK(l, step.tracker, w, n)
         /\ CoveredIn(w, n) /\ Grows(v, w)
         /\ w.tries = v.tries /\ w.seededAt = v.seededAt
         /\ step.tracker.seeded = t.seeded
<1> USE DEF Gapless, Lengthens
<1>0. n \in 1..Len(l) /\ Len(l) \in Nat /\ l[n] \in Events
  OBVIOUS
<1>1. t \in Trackers /\ n \in Nat /\ t.sequence \in Nat /\ v.seededAt \in Nat /\ v.covered \in Nat
  BY DEF TrackOK, Trackers, Views
<1>2. PICK u : u = step.tracker
  OBVIOUS
<1>3. CASE ~t.seeded \/ n <= t.sequence
  <2>1. step = Quiet(t)
    BY <1>3 DEF Apply, Takes
  <2>2. u = t /\ step.resolved = {} /\ step.requested = {} /\ step.settles = {}
    BY <1>2, <2>1 DEF Quiet
  <2>3. /\ w \in Views /\ w.shown = x.shown /\ w.undecoded = x.undecoded /\ w.covered = x.covered
        /\ w.seededAt = x.seededAt /\ w.found = x.found /\ w.tries = x.tries
        /\ w.open = (x.open \ step.resolved) \cup step.requested
        /\ w.settlements = [r \in Runs |-> IF r \in step.settles THEN x.settlements[r] + 1
                                                                 ELSE x.settlements[r]]
    <3>1. step.requested \subseteq Requests
      BY <2>2
    <3> QED
      BY <3>1, ToldFields DEF Tells
  <2>4. w.open = v.open /\ w.settlements = v.settlements
    <3>1. v.settlements \in [Runs -> Nat]
      BY DEF Views
    <3> QED
      BY <2>2, <2>3, <3>1
  <2>5. SeenBy(t, w) = SeenBy(t, v)
    BY <2>3 DEF SeenBy
  <2>6. Tracked(l, t, w)
    BY <2>3, <2>4, <2>5 DEF TrackOK, Tracked, Blank, Follows
  <2>7. TrackOK(l, t, w, n)
    <3>1. t.seeded => n <= t.sequence /\ t.sequence = v.seededAt
      BY <1>1, <1>3 DEF TrackOK
    <3> QED
      BY <1>1, <2>3, <2>6, <3>1 DEF TrackOK
  <2>8. /\ ViewOK(w, Len(l), o, n) /\ CoveredIn(w, n)
        /\ Grows(v, w)
    BY <1>0, <2>3, ViewShows
  <2> QED
    BY <1>2, <2>2, <2>3, <2>7, <2>8
<1>4. CASE t.seeded /\ ~(n <= t.sequence)
  <2>0. Follows(l, t, v)
    BY <1>4, NewTrackerTyped DEF TrackOK, Tracked, Blank
  <2>1. PICK settles : settles = IF l[n].type = "run" /\ IsRunTerminalStatus(l[n].status)
                                 THEN {l[n].id} \ t.settled ELSE {}
    OBVIOUS
  <2>2. settles \subseteq Runs
    BY <1>0, <2>1, EventFields
  <2>3. PICK t1 : t1 = [t EXCEPT !.projection = ApplyThreadEvent(@, l[n]), !.sequence = n,
                                 !.settled = @ \cup settles]
    OBVIOUS
  <2>4. /\ t1 \in Trackers /\ t1.seeded /\ t1.projection = ApplyThreadEvent(t.projection, l[n])
        /\ t1.sequence = n /\ t1.settled = t.settled \cup settles /\ t1.announced = t.announced
    <3>1. t.projection \in Projections
      BY <1>1 DEF Trackers
    <3>2. PICK p \in Projections : p = ApplyThreadEvent(t.projection, l[n])
      BY <1>0, <3>1, ApplyTyped
    <3>3. PICK a \in SUBSET Runs : a = t.settled \cup settles
      BY <1>1, <2>2 DEF Trackers
    <3>4. t1 = [t EXCEPT !.projection = p, !.sequence = n, !.settled = a]
      BY <2>3, <3>2, <3>3
    <3> QED
      BY <1>1, <1>4, <3>2, <3>3, <3>4 DEF Trackers
  <2>5. step = Reconcile(t1, settles)
    BY <1>4, <2>1, <2>3 DEF Apply, Takes
  <2>6. /\ u \in Trackers /\ u.projection = t1.projection /\ u.sequence = n
        /\ u.settled = t1.settled /\ u.seeded
        /\ u.announced = (t.announced \cap Open(u.projection))
                           \cup (PendingRequests(u.projection) \ t.announced)
        /\ step.resolved = t.announced \ Open(u.projection)
        /\ step.requested = PendingRequests(u.projection) \ t.announced
        /\ step.settles = settles
    BY <1>2, <2>4, <2>5, ReconcileFields
  <2>7. step.requested \subseteq Requests
    BY <2>6 DEF PendingRequests
  <2>8. /\ w \in Views /\ w.shown = x.shown /\ w.undecoded = x.undecoded /\ w.covered = x.covered
        /\ w.seededAt = x.seededAt /\ w.found = x.found /\ w.tries = x.tries
        /\ w.open = (x.open \ step.resolved) \cup step.requested
        /\ w.settlements = [r \in Runs |-> IF r \in step.settles THEN x.settlements[r] + 1
                                                                 ELSE x.settlements[r]]
    BY <2>7, ToldFields DEF Tells
  <2>9. Applies(l, t, u, v, w, n)
    <3>1. Reconciled(t, u, v, w)
      BY <2>6, <2>8 DEF Reconciled
    <3>2. w.settlements = [r \in Runs |-> IF r \in settles THEN v.settlements[r] + 1
                                                           ELSE v.settlements[r]]
      BY <2>6, <2>8
    <3>3. u.settled = t.settled \cup settles
      BY <2>4, <2>6
    <3>4. /\ u.seeded /\ u.projection = ApplyThreadEvent(t.projection, l[n]) /\ u.sequence = n
          /\ w.seededAt = v.seededAt /\ w.undecoded = v.undecoded /\ w.found = v.found
      BY <2>4, <2>6, <2>8
    <3> QED
      BY <2>1, <3>1, <3>2, <3>3, <3>4 DEF Applies, Settling
  <2>10. v.seededAt <= t.sequence /\ c <= t.sequence /\ v.covered <= v.seededAt
    BY <1>4 DEF TrackOK
  <2>11. ASSUME NEW m \in t.sequence + 1 .. n - 1 PROVE m \in v.undecoded
    <3>0. m \in Nat /\ t.sequence < m /\ m <= n - 1
      BY <1>1, <2>11
    <3>1. m \in 1..n-1 /\ ~(m <= v.seededAt) /\ ~(m <= v.covered)
      BY <1>1, <2>10, <3>0
    <3>3. CoveredIn(v, m)
      BY <3>1
    <3>2. m \notin ToSet(v.shown)
      <4>1. \A i \in DOMAIN v.shown : v.shown[i] \in 1..c
        BY DEF ViewOK
      <4>2. m \notin 1..c
        BY <1>1, <2>10, <2>11
      <4> QED
        BY <4>1, <4>2 DEF ToSet
    <3> QED
      BY <3>1, <3>2, <3>3 DEF CoveredIn
  <2>12. n \notin v.undecoded /\ t.sequence < n
    BY <1>1, <1>4 DEF ViewOK
  <2>13. Follows(l, u, w)
    BY <1>1, <2>0, <2>6, <2>8, <2>9, <2>10, <2>11, <2>12, ApplyFollows
  <2>14. TrackOK(l, u, w, n)
    BY <1>1, <2>6, <2>8, <2>10, <2>12, <2>13 DEF TrackOK, Tracked
  <2>15. /\ ViewOK(w, Len(l), o, n) /\ CoveredIn(w, n)
         /\ Grows(v, w)
    BY <1>0, <2>8, ViewShows
  <2> QED
    BY <1>2, <1>4, <2>6, <2>8, <2>14, <2>15
<1> QED
  BY <1>3, <1>4

-----------------------------------------------------------------------------
(* Steps of the watch *)

\* The frame f that the watch takes from its queue, leaving rest.
InFront(f, rest) ==
  /\ f = Head(queue) /\ rest = Tail(queue)
  /\ FrameOK(f, log, sent, opaque, cursor, view.seededAt)
  /\ \A c, a : QueueOK(rest, log, sent, opaque, c, a)
  /\ \A i \in DOMAIN rest : /\ rest[i].kind # "snapshot"
                            /\ IsEvent(f) /\ IsEvent(rest[i]) => f.sequence < rest[i].sequence
  /\ IsEvent(f) => \A m \in 1..f.sequence - 1 : CoveredIn(view, m)
  /\ \A n \in 1..sent : \/ CoveredIn(view, n) \/ ComingIn(rest, Nothing, n)
                        \/ IsEvent(f) /\ f.sequence = n
                        \/ f.kind = "snapshot" /\ n <= f.sequence

LEMMA FrontOfQueue ==
  ASSUME IInv, watch = "waiting", queue # <<>>
  PROVE  \E f, rest : InFront(f, rest)
<1>1. PICK f, rest : f = Head(queue) /\ rest = Tail(queue)
  OBVIOUS
<1>2. /\ queue \in Seq(Frames) /\ Len(queue) \in Nat /\ Len(queue) <= MaxQueue /\ sent \in 0..Len(log)
      /\ Len(log) \in Nat /\ held = Nothing
      /\ \A i \in DOMAIN queue : FrameOK(queue[i], log, sent, opaque, cursor, view.seededAt)
      /\ \A i \in DOMAIN queue : queue[i].kind = "snapshot" => i = 1
      /\ \A i, j \in DOMAIN queue :
           i < j /\ IsEvent(queue[i]) /\ IsEvent(queue[j]) => queue[i].sequence < queue[j].sequence
  BY DEF IInv, QueueInv, QueueOK, HeldInv, LogInv, LogOK
<1>3. /\ rest \in Seq(Frames) /\ Len(rest) = Len(queue) - 1 /\ f = queue[1] /\ f \in Frames
      /\ \A i \in DOMAIN rest : i + 1 \in DOMAIN queue /\ rest[i] = queue[i + 1] /\ i \in Nat \ {0}
      /\ DOMAIN rest = 1..Len(queue) - 1 /\ DOMAIN queue = 1..Len(queue) /\ 1 \in DOMAIN queue
  BY <1>1, <1>2
<1>4. \A i \in DOMAIN rest : rest[i].kind # "snapshot"
  BY <1>2, <1>3
<1>5. ASSUME IsEvent(f), NEW i \in DOMAIN rest, IsEvent(rest[i])
      PROVE  f.sequence < rest[i].sequence
  <2>1. 1 < i + 1
    BY <1>3
  <2> QED
    BY <1>2, <1>3, <1>5, <2>1
<1>6. \A c, a : QueueOK(rest, log, sent, opaque, c, a)
  <2>1. \A c, a : \A i \in DOMAIN rest : FrameOK(rest[i], log, sent, opaque, c, a)
    BY <1>2, <1>3, <1>4 DEF FrameOK
  <2>2. ASSUME NEW i \in DOMAIN rest, NEW j \in DOMAIN rest, i < j, IsEvent(rest[i]), IsEvent(rest[j])
        PROVE  rest[i].sequence < rest[j].sequence
    <3>1. i + 1 < j + 1
      BY <1>3, <2>2
    <3> QED
      BY <1>2, <1>3, <2>2, <3>1
  <2>3. Len(rest) <= MaxQueue
    BY <1>2, <1>3, ConstantsAssumption DEF ConstantsAssumption
  <2> QED
    BY <1>2, <1>3, <1>4, <2>1, <2>2, <2>3 DEF QueueOK
<1>7. \A i \in DOMAIN queue : i = 1 \/ (i - 1 \in DOMAIN rest /\ queue[i] = rest[i - 1])
  BY <1>2, <1>3
<1>8. ASSUME NEW n \in 1..sent
      PROVE  \/ CoveredIn(view, n) \/ ComingIn(rest, Nothing, n)
             \/ IsEvent(f) /\ f.sequence = n
             \/ f.kind = "snapshot" /\ n <= f.sequence
  <2>1. CoveredIn(view, n) \/ ComingIn(queue, held, n)
    BY DEF IInv, WireInv, WireOK
  <2>2. ASSUME NEW i \in DOMAIN queue, \/ IsEvent(queue[i]) /\ queue[i].sequence = n
                                       \/ queue[i].kind = "snapshot" /\ n <= queue[i].sequence
        PROVE  \/ ComingIn(rest, Nothing, n)
               \/ IsEvent(f) /\ f.sequence = n
               \/ f.kind = "snapshot" /\ n <= f.sequence
    BY <1>3, <1>7, <2>2 DEF ComingIn
  <2> QED
    BY <1>2, <2>1, <2>2 DEF ComingIn, Nothing
<1>9. ASSUME IsEvent(f), NEW m \in 1..f.sequence - 1
      PROVE  CoveredIn(view, m)
  <2>1. f.sequence \in 1..sent /\ m \in 1..sent /\ m < f.sequence /\ f.kind # "snapshot"
    BY <1>2, <1>3, <1>9 DEF FrameOK, IsEvent
  <2>2. ~ComingIn(rest, Nothing, m)
    <3>1. ASSUME NEW i \in DOMAIN rest, IsEvent(rest[i]) PROVE rest[i].sequence # m
      <4>1. f.sequence < rest[i].sequence /\ rest[i].sequence \in 1..sent
        BY <1>2, <1>3, <1>5, <1>9, <3>1 DEF FrameOK, IsEvent
      <4> QED
        BY <1>2, <2>1, <4>1
    <3> QED
      BY <1>4, <3>1 DEF ComingIn, Nothing
  <2> QED
    BY <1>8, <2>1, <2>2
<1>10. FrameOK(f, log, sent, opaque, cursor, view.seededAt)
  BY <1>2, <1>3
<1> QED
  BY <1>1, <1>4, <1>5, <1>6, <1>8, <1>9, <1>10 DEF InFront

\* A frame that is taken and leaves the watch where it can take the next.
LEMMA PulledKeeps ==
  ASSUME IInv, NEW f, NEW rest, InFront(f, rest), watch = "waiting", queue # <<>>,
         queue' = rest, received' = TRUE,
         UNCHANGED <<api, log, oversized, opaque, link, drops, stream, sent, marked, resumed, held,
                     aborted>>,
         watch' \in {"waiting", "busy"}, view'.tries = view.tries,
         ViewOK(view', Len(log), opaque, cursor'), TrackInv', cursor' \in {Off} \cup 0..Len(log),
         Grows(view, view'),
         IsEvent(f) => CoveredIn(view', f.sequence),
         f.kind = "snapshot" => \A n \in 1..sent : n <= f.sequence => CoveredIn(view', n)
  PROVE  IInv'
<1>1. LogInv' /\ ViewInv'
  BY DEF IInv, LogInv, LogOK, ViewInv
<1>2. QueueInv'
  BY DEF InFront, QueueInv
<1>3. held = Nothing /\ HeldInv'
  BY DEF IInv, HeldInv
<1>4. WireInv'
  BY <1>3 DEF InFront, WireInv, WireOK, Grows
<1>5. FlowInv'
  <2>1. view.tries = 0 /\ stream \notin {"none", "asked"}
    BY DEF IInv, FlowInv, Over
  <2> QED
    BY <2>1 DEF IInv, FlowInv, Watches
<1> QED
  BY <1>1, <1>2, <1>3, <1>4, <1>5 DEF IInv

\* The reconnections that are counted.
LEMMA CountedView ==
  ASSUME ViewInv, NEW v, v = IF resumed /\ ~received THEN [view EXCEPT !.reconnects = @ + 1] ELSE view
  PROVE  /\ v \in Views /\ v.tries = view.tries /\ v.seededAt = view.seededAt
         /\ ViewOK(v, Len(log), opaque, cursor)
         /\ Grows(view, v)
         /\ TrackOK(log, tracker, view, cursor) => TrackOK(log, tracker, v, cursor)
<1>1. view \in Views
  BY DEF ViewInv, ViewOK
<1>2. v \in Views /\ Alike(view, v) /\ v.tries = view.tries
  <2>1. CASE resumed /\ ~received
    <3>1. PICK k \in Nat : k = view.reconnects + 1
      BY <1>1 DEF Views
    <3>2. v = [view EXCEPT !.reconnects = k]
      BY <2>1, <3>1
    <3> QED
      BY <1>1, <3>2 DEF Views, Alike
  <2>2. CASE ~(resumed /\ ~received)
    BY <1>1, <2>2 DEF Alike
  <2> QED
    BY <2>1, <2>2
<1>3. ViewOK(view, Len(log), opaque, cursor)
  BY DEF ViewInv
<1>4. /\ ViewOK(v, Len(log), opaque, cursor)
      /\ Grows(view, v)
      /\ TrackOK(log, tracker, view, cursor) => TrackOK(log, tracker, v, cursor)
  BY <1>1, <1>2, <1>3, AlikeKeeps DEF Grows
<1> QED
  BY <1>2, <1>4 DEF Alike

\* An event frame or a marker that is accepted.
LEMMA AcceptShows ==
  ASSUME LogInv, NEW f, NEW t, NEW v \in Views, Accept(f, t, v), AfterYield \in {"waiting", "busy"},
         f = Marker \/ (f.kind = "event" /\ f.sequence \in 1..Len(log) /\ f.sequence \notin opaque
                        /\ Gapless(v, f.sequence)),
         ViewOK(v, Len(log), opaque, cursor), TrackOK(log, t, v, cursor)
  PROVE  /\ ViewOK(view', Len(log), opaque, cursor') /\ TrackOK(log, tracker', view', cursor')
         /\ Grows(v, view')
         /\ f.kind = "event" => CoveredIn(view', f.sequence)
         /\ cursor' \in {Off} \cup 0..Len(log) /\ view'.tries = v.tries /\ watch' \in {"waiting", "busy"}
<1>1. /\ log \in Seq(Events) /\ Len(log) \in Nat /\ RunsStayOver(log)
      /\ cursor \in Int /\ cursor \in {Off} \cup 0..Len(log)
  BY DEF LogInv, LogOK, Off
<1>2. CASE f.kind = "synchronized"
  <2>1. tracker' = t /\ view' = v /\ watch' = AfterYield /\ cursor' = cursor
    BY <1>2 DEF Accept
  <2> QED
    BY <1>1, <1>2, <2>1 DEF Grows
<1>3. CASE f.kind = "event" /\ f.sequence <= cursor
  <2>1. tracker' = t /\ view' = v /\ watch' \in {"waiting", "busy"} /\ cursor' = cursor
    BY <1>3 DEF Accept, IsOverlap
  <2>2. f.sequence \in 1..cursor
    BY <1>1, <1>3 DEF Marker
  <2>3. CoveredIn(v, f.sequence)
    BY <2>2 DEF ViewOK
  <2> QED
    BY <1>1, <2>1, <2>3 DEF Grows
<1>4. CASE f.kind = "event" /\ ~(f.sequence <= cursor)
  <2>1. PICK n \in 1..Len(log) : n = f.sequence
    BY <1>4 DEF Marker
  <2>2. /\ n \notin opaque /\ n \in DOMAIN log /\ cursor < n /\ n \in Nat
        /\ Gapless(v, n)
    BY <1>1, <1>4, <2>1 DEF Marker
  <2>3. PICK step : Takes(step, log, t, n)
    BY DEF Takes
  <2>4. PICK x : x = [v EXCEPT !.shown = Append(@, n)]
    OBVIOUS
  <2>5. /\ x \in Views /\ x.shown = Append(v.shown, n) /\ x.undecoded = v.undecoded
        /\ x.covered = v.covered /\ x.seededAt = v.seededAt /\ x.open = v.open
        /\ x.settlements = v.settlements /\ x.found = v.found /\ x.tries = v.tries
    <3>1. Append(v.shown, n) \in Seq(Nat)
      BY <2>2 DEF Views
    <3> QED
      BY <2>4, <3>1 DEF Views
  <2>6. /\ cursor' = n /\ tracker' = step.tracker /\ view' = Told(x, step) /\ watch' = AfterYield
    BY <1>4, <2>1, <2>3, <2>4 DEF Accept, IsOverlap, Takes
  <2>7. PICK w : Tells(w, x, step)
    BY DEF Tells
  <2>8. /\ w \in Views /\ ViewOK(w, Len(log), opaque, n) /\ TrackOK(log, step.tracker, w, n)
        /\ CoveredIn(w, n) /\ Grows(v, w)
        /\ w.tries = v.tries
    <3>1. Lengthens(x, v, n)
      BY <2>5 DEF Lengthens
    <3>2. PICK c \in Int : c < n /\ ViewOK(v, Len(log), opaque, c) /\ TrackOK(log, t, v, c)
      BY <1>1, <2>2
    <3>3. /\ log \in Seq(Events) /\ RunsStayOver(log) /\ n \in DOMAIN log /\ n \notin opaque
          /\ Gapless(v, n) /\ Takes(step, log, t, n) /\ x \in Views /\ Lengthens(x, v, n)
          /\ Tells(w, x, step)
      BY <1>1, <2>2, <2>3, <2>5, <2>7, <3>1
    <3> QED
      BY <3>2, <3>3, ApplyShows
  <2>9. n \in {Off} \cup 0..Len(log)
    OBVIOUS
  <2> QED
    BY <2>1, <2>6, <2>7, <2>8, <2>9 DEF Tells
<1> QED
  BY <1>2, <1>3, <1>4 DEF Marker

LEMMA YieldsTo == AfterYield \in {"waiting", "busy"}
BY DEF AfterYield

LEMMA PullKeeps == ASSUME ConstantsAssumption, IInv, Pull PROVE IInv'
<1>1. /\ api = "thread" /\ watch = "waiting" /\ queue # <<>> /\ received' = TRUE
      /\ UNCHANGED <<api, log, oversized, opaque, link, drops, stream, sent, marked, resumed, aborted>>
  BY DEF Pull, server, socket
<1>2. PICK f, rest : InFront(f, rest)
  BY <1>1, FrontOfQueue
<1>3. f = Head(queue) /\ rest = Tail(queue) /\ queue' = rest
  BY <1>2 DEF Pull, InFront
<1>4. PICK v : v = IF resumed /\ ~received THEN [view EXCEPT !.reconnects = @ + 1] ELSE view
  OBVIOUS
<1>5. /\ log \in Seq(Events) /\ RunsStayOver(log) /\ Len(log) \in Nat /\ sent \in 0..Len(log)
      /\ cursor \in Int /\ cursor \in {Off} \cup 0..Len(log) /\ LogInv /\ ViewInv /\ view \in Views
      /\ TrackOK(log, tracker, view, cursor) /\ held = Nothing
      /\ FrameOK(f, log, sent, opaque, cursor, view.seededAt) /\ f \in Frames
  BY <1>1, <1>2 DEF IInv, LogInv, LogOK, Off, QueueInv, QueueOK, ViewInv, ViewOK, TrackInv, HeldInv,
     InFront, FrameOK
<1>6. /\ v \in Views /\ v.tries = view.tries /\ v.seededAt = view.seededAt
      /\ ViewOK(v, Len(log), opaque, cursor) /\ Grows(view, v)
      /\ TrackOK(log, tracker, v, cursor)
  BY <1>4, <1>5, CountedView
<1> DEFINE Kept(w, u, c) ==
      /\ ViewOK(w, Len(log), opaque, c) /\ TrackOK(log, u, w, c) /\ c \in {Off} \cup 0..Len(log)
      /\ Grows(v, w) /\ w.tries = v.tries
      /\ IsEvent(f) => CoveredIn(w, f.sequence)
      /\ f.kind = "snapshot" => \A n \in 1..sent : n <= f.sequence => CoveredIn(w, n)
<1>7. ASSUME Kept(view', tracker', cursor'), held' = held, watch' \in {"waiting", "busy"} PROVE IInv'
  <2>1. Grows(view, view')
    BY <1>6, <1>7 DEF Grows
  <2>2. TrackInv'
    BY <1>1, <1>7 DEF TrackInv
  <2> QED
    BY <1>1, <1>2, <1>3, <1>6, <1>7, <2>1, <2>2, PulledKeeps
<1>8. CASE /\ f.kind = "undecodable" /\ view' = [v EXCEPT !.undecoded = @ \cup {f.sequence}]
           /\ watch' = AfterYield /\ UNCHANGED <<cursor, tracker, held>>
  <2>1. PICK n \in 1..Len(log) : n = f.sequence /\ n \in opaque
    BY <1>5, <1>8 DEF FrameOK
  <2>2. PICK w : w = [v EXCEPT !.undecoded = @ \cup {n}]
    OBVIOUS
  <2>more. PICK b \in SUBSET Nat : b = v.undecoded \cup {n}
    <3>1. n \in Nat /\ v.undecoded \subseteq Nat
      BY <1>5, <1>6, <2>1 DEF Views
    <3> QED
      BY <3>1
  <2>3. /\ w \in Views /\ w.undecoded = v.undecoded \cup {n} /\ w.shown = v.shown
        /\ w.covered = v.covered /\ w.seededAt = v.seededAt /\ w.open = v.open
        /\ w.settlements = v.settlements /\ w.found = v.found /\ w.tries = v.tries
    <3>1. w = [v EXCEPT !.undecoded = b]
      BY <2>2, <2>more
    <3> QED
      BY <1>6, <2>more, <3>1 DEF Views
  <2>4. /\ ViewOK(w, Len(log), opaque, cursor) /\ CoveredIn(w, n) /\ Grows(v, w)
        /\ TrackReported(v, w, cursor)
    BY <1>5, <1>6, <2>1, <2>3, ViewReports
  <2>5. Kept(w, tracker, cursor)
    BY <1>5, <1>6, <1>8, <2>1, <2>3, <2>4 DEF TrackReported
  <2>6. view' = w
    BY <1>8, <2>1, <2>2
  <2> QED
    BY <1>7, <1>8, <2>5, <2>6, YieldsTo
<1>9. CASE /\ f.kind = "snapshot" /\ cursor' = Max({cursor, f.sequence})
           /\ tracker' = Seed(tracker, f).tracker
           /\ view' = Told([Shown(v, f) EXCEPT !.covered = Max({@, f.sequence})], Seed(tracker, f))
           /\ watch' = AfterYield /\ UNCHANGED held
  <2>1. PICK n \in 0..Len(log) : /\ n = f.sequence /\ cursor <= n /\ view.seededAt <= n
                                 /\ f.projection = Projection(log, Prefix(n))
    BY <1>5, <1>9 DEF FrameOK
  <2>2. cursor' = n
    BY <1>5, <1>9, <2>1, MaxOfTwo
  <2>3. PICK y : y = Shown(v, f)
    OBVIOUS
  <2>4. /\ y \in Views /\ y.seededAt = n /\ y.undecoded = {k \in v.undecoded : k > n}
        /\ y.found = v.found \cup {r \in SettledRuns(f.projection) : v.settlements[r] = 0}
        /\ y.shown = v.shown /\ y.covered = v.covered /\ y.open = v.open
        /\ y.settlements = v.settlements /\ y.tries = v.tries
    BY <1>6, <2>1, <2>3, ShownFields
  <2>5. Max({y.covered, n}) = n /\ v.covered <= n /\ n \in Nat
    <3>1. v.covered \in Nat /\ v.covered <= n
      BY <1>5, <1>6, <2>1 DEF Views, ViewOK
    <3> QED
      BY <2>4, <3>1, MaxOfTwo
  <2>6. PICK x : x = [y EXCEPT !.covered = n]
    OBVIOUS
  <2>7. /\ x \in Views /\ x.seededAt = n /\ x.undecoded = {k \in v.undecoded : k > n}
        /\ x.found = v.found \cup {r \in SettledRuns(f.projection) : v.settlements[r] = 0}
        /\ x.shown = v.shown /\ x.covered = n /\ x.open = v.open
        /\ x.settlements = v.settlements /\ x.tries = v.tries
    BY <2>4, <2>5, <2>6 DEF Views
  <2>8. PICK step : Seeded(step, tracker, f)
    BY DEF Seeded
  <2>9. PICK w : Tells(w, x, step)
    BY DEF Tells
  <2>10. /\ w \in Views /\ TrackOK(log, step.tracker, w, n)
         /\ w.shown = x.shown /\ w.undecoded = x.undecoded /\ w.covered = x.covered
         /\ w.seededAt = n /\ w.tries = x.tries
    <3>1. PICK c \in Int : c <= n /\ TrackOK(log, tracker, v, c)
      BY <1>5, <1>6, <2>1
    <3>2. /\ v.seededAt <= n /\ SnapshotOf(f, log, n) /\ ShowsSeed(x, v, f, n)
          /\ x \in Views /\ v \in Views /\ log \in Seq(Events) /\ RunsStayOver(log)
      BY <1>5, <1>6, <2>1, <2>5, <2>7 DEF SnapshotOf, ShowsSeed
    <3> QED
      BY <2>8, <2>9, <3>1, <3>2, SeedShows
  <2>11. ViewOK(w, Len(log), opaque, n) /\ GrowsTo(v, w, n)
    <3>1. PICK c \in Int : c <= n /\ ViewOK(v, Len(log), opaque, c)
      BY <1>5, <1>6, <2>1
    <3>2. /\ v.seededAt <= n /\ w.shown = v.shown /\ w.undecoded = {k \in v.undecoded : k > n}
          /\ w.covered = n
      BY <1>6, <2>1, <2>7, <2>10
    <3>3. /\ v \in Views /\ w \in Views /\ Len(log) \in Nat /\ n \in 0..Len(log) /\ n \in Int
          /\ v.covered <= w.covered /\ w.seededAt = n /\ w.covered <= n
      BY <1>5, <1>6, <2>1, <2>5, <2>10, <3>2
    <3> QED
      BY <3>1, <3>2, <3>3, ViewSeeds
  <2>12. Grows(v, w)
    BY <2>11 DEF Grows, GrowsTo
  <2>13. Kept(w, step.tracker, n)
    <3>1. \A m \in 1..sent : m <= n => CoveredIn(w, m)
      BY <1>5, <2>11 DEF GrowsTo
    <3> QED
      BY <1>9, <2>1, <2>7, <2>10, <2>11, <2>12, <3>1 DEF IsEvent
  <2>14. view' = w /\ tracker' = step.tracker
    BY <1>9, <2>1, <2>3, <2>5, <2>6, <2>8, <2>9 DEF Tells, Seeded
  <2> QED
    BY <1>7, <1>9, <2>2, <2>13, <2>14, YieldsTo
<1>10. CASE /\ f.kind \in {"event", "synchronized"} /\ ~tracker.seeded
            /\ held' = f /\ watch' = "loading" /\ view' = v /\ UNCHANGED <<cursor, tracker>>
  <2>1. LogInv' /\ ViewInv' /\ TrackInv'
    BY <1>1, <1>5, <1>6, <1>10 DEF LogInv, ViewInv, TrackInv
  <2>2. QueueInv'
    BY <1>1, <1>2, <1>3 DEF InFront, QueueInv
  <2>3. f = Marker \/ f.kind = "event"
    BY <1>5, <1>10 DEF Frames, Marker
  <2>4. HeldOK(f, rest, sent, opaque)
    BY <1>2, <1>5, <2>3 DEF InFront, HeldOK, FrameOK, IsEvent
  <2>5. HeldInv'
    BY <1>1, <1>3, <1>10, <2>4 DEF HeldInv
  <2>6. WireInv'
    <3>1. ASSUME NEW n \in 1..sent PROVE CoveredIn(v, n) \/ ComingIn(rest, f, n)
      <4>1. \/ CoveredIn(view, n) \/ ComingIn(rest, Nothing, n) \/ (IsEvent(f) /\ f.sequence = n)
        BY <1>2, <1>10 DEF InFront
      <4> QED
        BY <1>6, <1>10, <4>1 DEF Grows, ComingIn, Nothing, IsEvent
    <3> QED
      BY <1>1, <1>3, <1>10, <3>1 DEF WireInv, WireOK
  <2>7. FlowInv'
    <3>1. view.tries = 0 /\ stream \notin {"none", "asked"}
      BY <1>1 DEF IInv, FlowInv, Over
    <3> QED
      BY <1>1, <1>6, <1>10, <3>1 DEF IInv, FlowInv, Watches
  <2> QED
    BY <2>1, <2>2, <2>5, <2>6, <2>7 DEF IInv
<1>11. CASE f.kind \in {"event", "synchronized"} /\ Accept(f, tracker, v) /\ UNCHANGED held
  <2>1. f = Marker \/ (/\ f.kind = "event" /\ f.sequence \in 1..Len(log) /\ f.sequence \notin opaque
                       /\ Gapless(v, f.sequence))
    <3>1. f = Marker \/ f.kind = "event"
      BY <1>5, <1>11 DEF Frames, Marker
    <3>2. ASSUME f.kind = "event"
          PROVE  f.sequence \in 1..Len(log) /\ f.sequence \notin opaque
      BY <1>5, <3>2 DEF FrameOK
    <3>3. ASSUME f.kind = "event" PROVE Gapless(v, f.sequence)
      BY <1>2, <1>6, <3>3 DEF InFront, Gapless, Grows, IsEvent
    <3> QED
      BY <3>1, <3>2, <3>3
  <2>2. /\ ViewOK(view', Len(log), opaque, cursor') /\ TrackOK(log, tracker', view', cursor')
        /\ Grows(v, view')
        /\ f.kind = "event" => CoveredIn(view', f.sequence)
        /\ cursor' \in {Off} \cup 0..Len(log) /\ view'.tries = v.tries /\ watch' \in {"waiting", "busy"}
    BY <1>5, <1>6, <1>11, <2>1, YieldsTo, AcceptShows
  <2>3. Kept(view', tracker', cursor')
    BY <1>11, <2>2 DEF IsEvent
  <2> QED
    BY <1>7, <1>11, <2>2, <2>3
<1> QED
  <2>1. \/ /\ f.kind = "undecodable" /\ view' = [v EXCEPT !.undecoded = @ \cup {f.sequence}]
           /\ watch' = AfterYield /\ UNCHANGED <<cursor, tracker, held>>
        \/ /\ f.kind = "snapshot" /\ cursor' = Max({cursor, f.sequence})
           /\ tracker' = Seed(tracker, f).tracker
           /\ view' = Told([Shown(v, f) EXCEPT !.covered = Max({@, f.sequence})], Seed(tracker, f))
           /\ watch' = AfterYield /\ UNCHANGED held
        \/ /\ f.kind \in {"event", "synchronized"} /\ ~tracker.seeded
           /\ held' = f /\ watch' = "loading" /\ view' = v /\ UNCHANGED <<cursor, tracker>>
        \/ f.kind \in {"event", "synchronized"} /\ Accept(f, tracker, v) /\ UNCHANGED held
    BY <1>3, <1>4 DEF Pull
  <2> QED
    BY <1>8, <1>9, <1>10, <1>11, <2>1

LEMMA ShellPullKeeps == ASSUME ConstantsAssumption, IInv, ShellPull PROVE IInv'
<1>1. /\ api = "shell" /\ watch = "waiting" /\ queue # <<>> /\ received' = TRUE
      /\ UNCHANGED <<api, log, oversized, opaque, link, drops, stream, sent, marked, resumed, aborted,
                     tracker, held>>
  BY DEF ShellPull, server, socket
<1>2. PICK f, rest : InFront(f, rest)
  BY <1>1, FrontOfQueue
<1>3. f = Head(queue) /\ rest = Tail(queue) /\ queue' = rest
  BY <1>2 DEF ShellPull, InFront
<1>4. PICK v : v = IF resumed /\ ~received THEN [view EXCEPT !.reconnects = @ + 1] ELSE view
  OBVIOUS
<1>5. /\ Len(log) \in Nat /\ sent \in 0..Len(log)
      /\ cursor \in Int /\ cursor \in {Off} \cup 0..Len(log) /\ ViewInv /\ view \in Views
      /\ FrameOK(f, log, sent, opaque, cursor, view.seededAt) /\ f \in Frames
  BY <1>1, <1>2 DEF IInv, LogInv, LogOK, Off, QueueInv, QueueOK, ViewInv, ViewOK, InFront, FrameOK
<1>6. /\ v \in Views /\ v.tries = view.tries /\ v.seededAt = view.seededAt
      /\ ViewOK(v, Len(log), opaque, cursor) /\ Grows(view, v)
  BY <1>4, <1>5, CountedView
<1> DEFINE Kept(w, c) ==
      /\ ViewOK(w, Len(log), opaque, c) /\ c \in {Off} \cup 0..Len(log)
      /\ Grows(v, w) /\ w.tries = v.tries
      /\ IsEvent(f) => CoveredIn(w, f.sequence)
      /\ f.kind = "snapshot" => \A n \in 1..sent : n <= f.sequence => CoveredIn(w, n)
<1>7. ASSUME Kept(view', cursor'), watch' \in {"waiting", "busy"} PROVE IInv'
  <2>1. Grows(view, view')
    BY <1>6, <1>7 DEF Grows
  <2>2. TrackInv'
    BY <1>1 DEF IInv, TrackInv
  <2> QED
    BY <1>1, <1>2, <1>3, <1>6, <1>7, <2>1, <2>2, PulledKeeps
<1>8. CASE /\ f.kind = "undecodable" /\ view' = [v EXCEPT !.undecoded = @ \cup {f.sequence}]
           /\ watch' = AfterYield /\ UNCHANGED cursor
  <2>1. PICK n \in 1..Len(log) : n = f.sequence /\ n \in opaque
    BY <1>5, <1>8 DEF FrameOK
  <2>2. PICK b \in SUBSET Nat : b = v.undecoded \cup {n}
    <3>1. n \in Nat /\ v.undecoded \subseteq Nat
      BY <1>5, <1>6, <2>1 DEF Views
    <3> QED
      BY <3>1
  <2>3. PICK w : w = [v EXCEPT !.undecoded = b]
    OBVIOUS
  <2>4. /\ w \in Views /\ w.undecoded = v.undecoded \cup {n} /\ w.shown = v.shown
        /\ w.covered = v.covered /\ w.seededAt = v.seededAt /\ w.open = v.open
        /\ w.settlements = v.settlements /\ w.found = v.found /\ w.tries = v.tries
    BY <1>6, <2>2, <2>3 DEF Views
  <2>5. ViewOK(w, Len(log), opaque, cursor) /\ CoveredIn(w, n) /\ Grows(v, w)
    BY <1>5, <1>6, <2>1, <2>4, ViewReports
  <2>6. Kept(w, cursor)
    BY <1>5, <1>6, <1>8, <2>1, <2>4, <2>5
  <2>7. view' = w
    BY <1>8, <2>1, <2>2, <2>3
  <2> QED
    BY <1>7, <1>8, <2>6, <2>7, YieldsTo
<1>9. CASE /\ f.kind = "snapshot" /\ cursor' = Max({cursor, f.sequence})
           /\ view' = [Shown(v, f) EXCEPT !.covered = Max({@, f.sequence})]
           /\ watch' = AfterYield
  <2>1. PICK n \in 0..Len(log) : n = f.sequence /\ cursor <= n /\ view.seededAt <= n
    BY <1>5, <1>9 DEF FrameOK
  <2>2. cursor' = n
    BY <1>5, <1>9, <2>1, MaxOfTwo
  <2>3. PICK y : y = Shown(v, f)
    OBVIOUS
  <2>4. /\ y \in Views /\ y.seededAt = n /\ y.undecoded = {k \in v.undecoded : k > n}
        /\ y.shown = v.shown /\ y.covered = v.covered /\ y.tries = v.tries
    BY <1>6, <2>1, <2>3, ShownFields
  <2>5. Max({y.covered, n}) = n /\ v.covered <= n /\ n \in Nat
    <3>1. v.covered \in Nat /\ v.covered <= n
      BY <1>5, <1>6, <2>1 DEF Views, ViewOK
    <3> QED
      BY <2>4, <3>1, MaxOfTwo
  <2>6. PICK w : w = [y EXCEPT !.covered = n]
    OBVIOUS
  <2>7. /\ w \in Views /\ w.seededAt = n /\ w.undecoded = {k \in v.undecoded : k > n}
        /\ w.shown = v.shown /\ w.covered = n /\ w.tries = v.tries
    BY <2>4, <2>5, <2>6 DEF Views
  <2>8. ViewOK(w, Len(log), opaque, n) /\ GrowsTo(v, w, n)
    <3>1. PICK c \in Int : c <= n /\ ViewOK(v, Len(log), opaque, c)
      BY <1>5, <1>6, <2>1
    <3>2. v.seededAt <= n
      BY <1>6, <2>1
    <3> QED
      BY <1>5, <1>6, <2>1, <2>5, <2>7, <3>1, <3>2, ViewSeeds
  <2>9. Grows(v, w)
    BY <2>8 DEF Grows, GrowsTo
  <2>10. Kept(w, n)
    <3>1. \A m \in 1..sent : m <= n => CoveredIn(w, m)
      BY <1>5, <2>8 DEF GrowsTo
    <3> QED
      BY <1>9, <2>1, <2>7, <2>8, <2>9, <3>1 DEF IsEvent
  <2>11. view' = w
    BY <1>9, <2>1, <2>3, <2>5, <2>6
  <2> QED
    BY <1>7, <1>9, <2>2, <2>10, <2>11, YieldsTo
<1>10. CASE /\ f.kind = "event" /\ f.sequence <= cursor /\ view' = v
            /\ watch' \in {"waiting", "busy"} /\ UNCHANGED cursor
  <2>1. f.sequence \in 1..cursor
    BY <1>5, <1>10 DEF FrameOK
  <2>2. CoveredIn(v, f.sequence)
    BY <1>6, <2>1 DEF ViewOK
  <2>3. Kept(view', cursor')
    BY <1>5, <1>6, <1>10, <2>2 DEF Grows
  <2> QED
    BY <1>7, <1>10, <2>3
<1>11. CASE f.kind = "synchronized" /\ UNCHANGED cursor /\ view' = v /\ watch' = AfterYield
  <2>1. Kept(view', cursor')
    BY <1>5, <1>6, <1>11 DEF Grows, IsEvent
  <2> QED
    BY <1>7, <1>11, <2>1, YieldsTo
<1>12. CASE /\ f.kind = "event" /\ ~(f.sequence <= cursor) /\ cursor' = f.sequence
            /\ view' = [v EXCEPT !.shown = Append(@, f.sequence)] /\ watch' = AfterYield
  <2>1. PICK n \in 1..Len(log) : n = f.sequence /\ n \notin opaque /\ cursor < n
    BY <1>5, <1>12 DEF FrameOK
  <2>2. \A m \in 1..n - 1 : CoveredIn(v, m)
    BY <1>2, <1>6, <1>12, <2>1 DEF InFront, Grows, IsEvent
  <2>3. PICK b \in Seq(Nat) : b = Append(v.shown, n)
    <3>1. n \in Nat /\ v.shown \in Seq(Nat)
      BY <1>5, <1>6, <2>1 DEF Views
    <3>2. Append(v.shown, n) \in Seq(Nat)
      BY <3>1
    <3> QED
      BY <3>2
  <2>4. PICK w : w = [v EXCEPT !.shown = b]
    OBVIOUS
  <2>5. /\ w \in Views /\ w.shown = Append(v.shown, n) /\ w.undecoded = v.undecoded
        /\ w.covered = v.covered /\ w.seededAt = v.seededAt /\ w.tries = v.tries
    BY <1>6, <2>3, <2>4 DEF Views
  <2>6. ViewOK(w, Len(log), opaque, n) /\ CoveredIn(w, n) /\ Grows(v, w)
    BY <1>5, <1>6, <2>1, <2>2, <2>5, ViewShows
  <2>7. Kept(w, n)
    BY <1>5, <1>12, <2>1, <2>5, <2>6
  <2>8. view' = w /\ cursor' = n
    BY <1>12, <2>1, <2>3, <2>4
  <2> QED
    BY <1>7, <1>12, <2>7, <2>8, YieldsTo
<1> QED
  <2>1. \/ /\ f.kind = "undecodable" /\ view' = [v EXCEPT !.undecoded = @ \cup {f.sequence}]
           /\ watch' = AfterYield /\ UNCHANGED cursor
        \/ /\ f.kind = "snapshot" /\ cursor' = Max({cursor, f.sequence})
           /\ view' = [Shown(v, f) EXCEPT !.covered = Max({@, f.sequence})]
           /\ watch' = AfterYield
        \/ /\ f.kind = "event" /\ ~ShellPasses(f)
           /\ view' = v /\ watch' = (IF v = view THEN "waiting" ELSE AfterYield)
           /\ UNCHANGED cursor
        \/ /\ ShellPasses(f)
           /\ cursor' = (IF f.kind = "event" THEN f.sequence ELSE cursor)
           /\ view' = (IF f.kind = "event" THEN [v EXCEPT !.shown = Append(@, f.sequence)] ELSE v)
           /\ watch' = AfterYield
    BY <1>3, <1>4 DEF ShellPull
  <2>2. ASSUME f.kind = "event", ~ShellPasses(f), view' = v, UNCHANGED cursor,
               watch' = (IF v = view THEN "waiting" ELSE AfterYield)
        PROVE  IInv'
    BY <1>10, <2>2, YieldsTo DEF ShellPasses, IsOverlap
  <2>3. ASSUME ShellPasses(f), watch' = AfterYield,
               cursor' = (IF f.kind = "event" THEN f.sequence ELSE cursor),
               view' = (IF f.kind = "event" THEN [v EXCEPT !.shown = Append(@, f.sequence)] ELSE v)
        PROVE  IInv'
    BY <1>11, <1>12, <2>3 DEF ShellPasses, IsOverlap
  <2> QED
    BY <1>8, <1>9, <2>1, <2>2, <2>3

\* The snapshot that the loader brings, and the frame in hand after it.
LEMMA LoadedKeeps == ASSUME ConstantsAssumption, IInv, Loaded PROVE IInv'
<1>1. /\ watch = "loading" /\ held' = Nothing
      /\ UNCHANGED <<api, log, oversized, opaque, link, drops, stream, queue, sent, marked, resumed,
                     received, aborted>>
  BY DEF Loaded, server, socket, wire
<1>2. /\ log \in Seq(Events) /\ RunsStayOver(log) /\ Len(log) \in Nat /\ sent \in 0..Len(log)
      /\ cursor \in Int /\ cursor \in {Off} \cup 0..Len(log) /\ LogInv
      /\ view \in Views /\ ViewOK(view, Len(log), opaque, cursor)
      /\ api = "thread" /\ received /\ TrackOK(log, tracker, view, cursor)
      /\ ~tracker.seeded /\ HeldOK(held, queue, sent, opaque)
      /\ view.seededAt = 0
  <2>1. api = "thread" /\ received /\ ~tracker.seeded /\ HeldOK(held, queue, sent, opaque)
    BY <1>1 DEF IInv, FlowInv, HeldInv
  <2>2. TrackOK(log, tracker, view, cursor)
    BY <2>1 DEF IInv, TrackInv
  <2>3. view.seededAt = 0
    BY <2>1, <2>2 DEF TrackOK, Tracked, Blank, Follows
  <2> QED
    BY <2>1, <2>2, <2>3 DEF IInv, LogInv, LogOK, Off, QueueInv, QueueOK, ViewInv, ViewOK
<1>3. PICK n \in Max({cursor, 0})..Len(log) :
        Accept(held, Seed(tracker, Snapshot(n)).tracker,
               Told(Shown(view, Snapshot(n)), Seed(tracker, Snapshot(n))))
  BY DEF Loaded
<1>4. n \in 0..Len(log) /\ cursor <= n /\ n \in Nat
  <2>1. Max({cursor, 0}) = IF cursor >= 0 THEN cursor ELSE 0
    BY <1>2, MaxOfTwo
  <2> QED
    BY <1>2, <2>1
<1>5. PICK f : f = Snapshot(n)
  OBVIOUS
<1>6. SnapshotOf(f, log, n) /\ f.sequence = n
  BY <1>5 DEF Snapshot, SnapshotOf
<1>7. PICK x : x = Shown(view, f)
  OBVIOUS
<1>8. /\ x \in Views /\ x.seededAt = n /\ x.undecoded = {k \in view.undecoded : k > n}
      /\ x.found = view.found \cup {r \in SettledRuns(f.projection) : view.settlements[r] = 0}
      /\ x.shown = view.shown /\ x.covered = view.covered /\ x.open = view.open
      /\ x.settlements = view.settlements /\ x.tries = view.tries
  BY <1>2, <1>4, <1>6, <1>7, ShownFields
<1>9. view.covered \in Nat /\ view.covered <= n
  BY <1>2, <1>4 DEF Views, ViewOK
<1>10. PICK step : Seeded(step, tracker, f)
  BY DEF Seeded
<1>11. PICK w : Tells(w, x, step)
  BY DEF Tells
<1>12. PICK c \in Int : c = cursor
  BY <1>2
<1>13. /\ w \in Views /\ TrackOK(log, step.tracker, w, c)
       /\ w.shown = x.shown /\ w.undecoded = x.undecoded /\ w.covered = x.covered
       /\ w.seededAt = n /\ w.tries = x.tries
  <2>1. ShowsSeed(x, view, f, n)
    BY <1>8, <1>9 DEF ShowsSeed
  <2>2. /\ view.seededAt <= n /\ x \in Views /\ view \in Views /\ log \in Seq(Events) /\ RunsStayOver(log)
        /\ n \in 0..Len(log) /\ c <= n /\ TrackOK(log, tracker, view, c)
    BY <1>2, <1>4, <1>8, <1>12
  <2> QED
    BY <1>6, <1>10, <1>11, <2>1, <2>2, SeedShows
<1>14. ViewOK(w, Len(log), opaque, c) /\ GrowsTo(view, w, n)
  <2>1. /\ view.seededAt <= n /\ w.shown = view.shown /\ w.undecoded = {k \in view.undecoded : k > n}
        /\ w.covered = view.covered
    BY <1>2, <1>4, <1>8, <1>13
  <2>2. c <= n /\ ViewOK(view, Len(log), opaque, c) /\ (w.covered = 0 \/ w.covered <= c)
    BY <1>2, <1>4, <1>12, <2>1 DEF ViewOK
  <2>3. /\ view \in Views /\ w \in Views /\ Len(log) \in Nat /\ n \in 0..Len(log)
        /\ view.covered <= w.covered /\ w.seededAt = n
    BY <1>2, <1>4, <1>9, <1>13, <2>1
  <2> QED
    BY <2>1, <2>2, <2>3, ViewSeeds
<1>15. Grows(view, w)
  BY <1>14 DEF Grows, GrowsTo
<1>16. Accept(held, step.tracker, w)
  BY <1>3, <1>5, <1>7, <1>10, <1>11 DEF Seeded, Tells
<1>17. held = Marker \/ (/\ held.kind = "event" /\ held.sequence \in 1..Len(log)
                         /\ held.sequence \notin opaque /\ Gapless(w, held.sequence))
  <2>1. CASE held = Marker
    BY <2>1
  <2>2. CASE /\ held.kind = "event" /\ held.sequence \in 1..sent /\ held.sequence \notin opaque
             /\ \A i \in DOMAIN queue : IsEvent(queue[i]) => held.sequence < queue[i].sequence
    <3>1. ASSUME NEW m \in 1..held.sequence - 1 PROVE CoveredIn(w, m)
      <4>1. m \in 1..sent /\ m < held.sequence
        BY <1>2, <2>2
      <4>2. \A i \in DOMAIN queue : /\ queue[i].kind # "snapshot"
                                    /\ IsEvent(queue[i]) => queue[i].sequence # m
        <5>1. \A i \in DOMAIN queue : IsEvent(queue[i]) => queue[i].sequence \in 1..sent
          BY DEF IInv, QueueInv, QueueOK, FrameOK, IsEvent
        <5> QED
          BY <1>2, <2>2, <4>1, <5>1 DEF HeldOK
      <4>3. ~ComingIn(queue, held, m)
        BY <2>2, <4>1, <4>2 DEF ComingIn
      <4> QED
        BY <1>15, <4>1, <4>3 DEF IInv, WireInv, WireOK, Grows
    <3> QED
      BY <1>2, <2>2, <3>1 DEF Gapless
  <2> QED
    BY <1>2, <2>1, <2>2 DEF HeldOK
<1>18. /\ ViewOK(view', Len(log), opaque, cursor') /\ TrackOK(log, tracker', view', cursor')
       /\ Grows(w, view')
       /\ held.kind = "event" => CoveredIn(view', held.sequence)
       /\ cursor' \in {Off} \cup 0..Len(log) /\ view'.tries = w.tries /\ watch' \in {"waiting", "busy"}
  BY <1>2, <1>12, <1>13, <1>14, <1>16, <1>17, YieldsTo, AcceptShows
<1>19. LogInv' /\ ViewInv' /\ TrackInv'
  BY <1>1, <1>2, <1>18 DEF LogInv, LogOK, ViewInv, TrackInv
<1>20. QueueInv'
  <2>1. \A i \in DOMAIN queue : FrameOK(queue[i], log, sent, opaque, cursor', view'.seededAt)
    BY <1>2 DEF IInv, QueueInv, QueueOK, FrameOK, HeldOK
  <2> QED
    BY <1>1, <2>1 DEF IInv, QueueInv, QueueOK
<1>21. HeldInv'
  BY <1>1, <1>18 DEF HeldInv
<1>22. WireInv'
  <2>1. ASSUME NEW m \in 1..sent PROVE CoveredIn(view', m) \/ ComingIn(queue, Nothing, m)
    <3>1. CoveredIn(view, m) \/ ComingIn(queue, held, m)
      BY DEF IInv, WireInv, WireOK
    <3> QED
      BY <1>15, <1>18, <2>1, <3>1 DEF Grows, ComingIn, Nothing
  <2> QED
    BY <1>1, <2>1 DEF WireInv, WireOK
<1>23. FlowInv'
  <2>1. view.tries = 0 /\ stream \notin {"none", "asked"}
    BY <1>1, <1>2 DEF IInv, FlowInv, Over
  <2> QED
    BY <1>1, <1>8, <1>13, <1>18, <2>1 DEF IInv, FlowInv, Watches
<1> QED
  BY <1>19, <1>20, <1>21, <1>22, <1>23 DEF IInv

\* The catch block, of an error that is not the refusal of a subscription that had
\* delivered nothing.
LEMMA CatchKeeps ==
  ASSUME ConstantsAssumption, IInv, NEW error \in Failures, Catch(error),
         watch \in {"waiting", "loading"},
         view.tries = 0 \/ (error = "too_large" /\ ~received),
         UNCHANGED <<api, log, oversized, opaque, link, drops, aborted>>
  PROVE  IInv'
<1>1. /\ stream' = "none" /\ queue' = <<>> /\ sent' = 0 /\ marked' = FALSE /\ held' = Nothing
      /\ UNCHANGED <<cursor, tracker>>
  BY DEF Catch, LeaveStream
<1>2. watch' \in {"ended", "waiting", "failed"}
  BY DEF Catch
<1>3. /\ received' \in BOOLEAN /\ resumed' \in BOOLEAN
      /\ watch' = "waiting" => ~received' /\ (received \/ error # "too_large")
  BY DEF IInv, FlowInv, Catch, ShouldResubscribe
<1>4. view \in Views /\ Len(log) \in Nat
  BY DEF IInv, ViewInv, ViewOK, LogInv, LogOK
<1>5. view' \in Views /\ Alike(view, view') /\ view'.tries = view.tries
  <2>1. view' = view \/ view' = [view EXCEPT !.cause = error]
    BY DEF Catch
  <2>2. CASE view' = view
    BY <1>4, <2>2 DEF Alike
  <2>3. CASE view' = [view EXCEPT !.cause = error]
    BY <1>4, <2>3 DEF Alike, Views
  <2> QED
    BY <2>1, <2>2, <2>3
<1>6. LogInv'
  BY <1>1 DEF IInv, LogInv
<1>7. ViewInv' /\ TrackInv'
  BY <1>1, <1>4, <1>5, AlikeKeeps DEF IInv, ViewInv, TrackInv
<1>8. QueueInv'
  BY <1>1, <1>4, EmptySequence DEF QueueInv, QueueOK, ConstantsAssumption
<1>9. HeldInv' /\ WireInv'
  BY <1>1, <1>2 DEF HeldInv, WireInv, WireOK
<1>10. FlowInv'
  <2>1. view.tries = 0 \/ view.tries = 1
    BY DEF IInv, FlowInv
  <2> QED
    BY <1>1, <1>2, <1>3, <1>5, <2>1 DEF IInv, FlowInv, Watches, Streams, Over
<1> QED
  BY <1>6, <1>7, <1>8, <1>9, <1>10 DEF IInv

LEMMA FailsKeeps == ASSUME ConstantsAssumption, IInv, Fails \/ LoadFails PROVE IInv'
<1>1. CASE Fails
  <2>1. /\ watch = "waiting" /\ Catch(stream) /\ stream \notin {"none", "asked", "live", "finished"}
        /\ UNCHANGED <<api, log, oversized, opaque, link, drops, aborted>>
    BY <1>1 DEF Fails, server, socket
  <2>2. stream \in Failures
    BY <2>1 DEF IInv, FlowInv, Streams
  <2>3. view.tries = 0 \/ (stream = "too_large" /\ ~received)
    BY <2>1 DEF IInv, FlowInv, Over
  <2> QED
    BY <2>1, <2>2, <2>3, CatchKeeps
<1>2. CASE LoadFails
  <2>1. PICK error \in {"load_connection", "load_error"} : Catch(error)
    BY <1>2 DEF LoadFails
  <2>2. watch = "loading" /\ UNCHANGED <<api, log, oversized, opaque, link, drops, aborted>>
    BY <1>2 DEF LoadFails, server, socket
  <2>3. error \in Failures
    BY DEF Failures, ConnectionErrors
  <2>4. view.tries = 0
    BY <2>2 DEF IInv, FlowInv, Over
  <2> QED
    BY <2>1, <2>2, <2>3, <2>4, CatchKeeps
<1> QED
  BY <1>1, <1>2

LEMMA StepInv == ASSUME ConstantsAssumption, IInv, [Next]_vars PROVE IInv'
<1>1. CASE Emit \/ Subscribe \/ Answer \/ Send
  BY <1>1, EmitKeeps, SubscribeKeeps, AnswerKeeps, SendKeeps
<1>2. CASE Pull \/ ShellPull \/ Loaded \/ Fails \/ LoadFails
  BY <1>2, PullKeeps, ShellPullKeeps, LoadedKeeps, FailsKeeps
<1>3. CASE \/ Reconnect \/ Drop \/ CloseForGood \/ ServerStops
           \/ Abort \/ Consume \/ Finishes \/ UNCHANGED vars
  BY <1>3, ControlKeeps
<1> QED
  BY <1>1, <1>2, <1>3 DEF Next, World, Work

LEMMA InvCorrect == Spec => []IInv
<1>1. Init => IInv
  BY ConstantsAssumption, InitInv
<1>2. IInv /\ [Next]_vars => IInv'
  BY ConstantsAssumption, StepInv
<1> QED
  BY <1>1, <1>2, PTL DEF Spec

-----------------------------------------------------------------------------
(* What a watch promises *)

\* Over any number of drops, replays, overlaps and late snapshots, the consumer of either
\* watch is shown events in the server's order and at most once, and skips none up to the
\* cursor it resumes from (threadWatch.ts:75-136, shell.ts:129-170).
THEOREM EachEventOnceCorrect == Spec => []EachEventOnce
<1>1. IInv => EachEventOnce
  BY ConstantsAssumption, InvImplies
<1> QED
  BY <1>1, InvCorrect, PTL

\* The projection the tracker builds event by event is the server's, and the open requests
\* and settled runs the consumer was told of are those the server has then, each told once
\* (threadTracker.ts:59-148).
THEOREM TrackerIsCorrect == Spec => []TrackerCorrect
<1>1. IInv => TrackerCorrect
  BY ConstantsAssumption, InvImplies
<1> QED
  BY <1>1, InvCorrect, PTL

\* A subscription that is refused because its snapshot is too large is not repeated
\* (watchRetry.ts:3-13).
THEOREM OversizedOnce == Spec => []OversizedTriedOnce
<1>1. IInv => OversizedTriedOnce
  BY ConstantsAssumption, InvImplies
<1> QED
  BY <1>1, InvCorrect, PTL

\* Of a watch that waits for its next frame whenever it is not over: a stream that was
\* dropped is left before the socket is open again.
DropInv ==
  /\ link \in {"connecting", "open", "closed"}
  /\ watch \in {"waiting", "ended", "failed"}
  /\ ~Over /\ stream = "dropped" => link # "open"
  /\ view.cause = "dropped" => Over /\ link = "closed"

SameCause(v, w) == "cause" \in DOMAIN v /\ DOMAIN w = DOMAIN v /\ w.cause = v.cause

LEMMA DropStep ==
  ASSUME ~HasLoader, ~SlowConsumer, view \in Views, DropInv, [Next]_vars
  PROVE  DropInv'
<1> USE DEF DropInv, Over
<1>1. CASE Emit
  BY <1>1 DEF Emit, socket, wire, client
<1>2. CASE Drop
  BY <1>2 DEF Drop, Break, client
<1>3. CASE CloseForGood
  BY <1>3 DEF CloseForGood, client
<1>4. CASE ServerStops
  BY <1>4 DEF ServerStops, Break, client, socket
<1>5. CASE Abort
  BY <1>5 DEF Abort, client, socket
<1>6. CASE Reconnect
  BY <1>6 DEF Reconnect, client, wire
<1>7. CASE Answer
  <2>1. view'.cause = view.cause
    BY <1>7 DEF Answer, Views
  <2> QED
    BY <1>7, <2>1 DEF Answer
<1>8. CASE Send
  BY <1>8 DEF Send, client, socket
<1>9. CASE Subscribe
  BY <1>9 DEF Subscribe, client, socket
<1>10. CASE Pull \/ ShellPull
  <2>1. watch' = "waiting" /\ UNCHANGED <<link, stream>>
    BY <1>10 DEF Pull, ShellPull, Accept, AfterYield, socket
  <2>2. view'.cause = view.cause
    <3>1. PICK f, v : /\ f = Head(queue)
                      /\ v = IF resumed /\ ~received THEN [view EXCEPT !.reconnects = @ + 1] ELSE view
      OBVIOUS
    <3>2. SameCause(view, v)
      BY <3>1 DEF SameCause, Views
    <3>3. CASE Pull
      <4>1. PICK step : step = Seed(tracker, f)
        OBVIOUS
      <4>2. PICK next : next = Apply(tracker, f.sequence, log[f.sequence])
        OBVIOUS
      <4>3. \/ view' = v
            \/ view' = [v EXCEPT !.undecoded = @ \cup {f.sequence}]
            \/ view' = Told([Shown(v, f) EXCEPT !.covered = Max({@, f.sequence})], step)
            \/ view' = Told([v EXCEPT !.shown = Append(@, f.sequence)], next)
        BY <3>1, <3>3, <4>1, <4>2 DEF Pull, Accept
      <4> QED
        BY <3>2, <4>3 DEF SameCause, Told, Shown
    <3>4. CASE ShellPull
      <4>1. \/ view' = v
            \/ view' = [v EXCEPT !.undecoded = @ \cup {f.sequence}]
            \/ view' = [Shown(v, f) EXCEPT !.covered = Max({@, f.sequence})]
            \/ view' = [v EXCEPT !.shown = Append(@, f.sequence)]
        BY <3>1, <3>4 DEF ShellPull
      <4> QED
        BY <3>2, <4>1 DEF SameCause, Shown
    <3> QED
      BY <1>10, <3>3, <3>4
  <2> QED
    BY <1>10, <2>1, <2>2 DEF Pull, ShellPull
<1>11. CASE Consume \/ Loaded \/ LoadFails
  BY <1>11 DEF Consume, Loaded, LoadFails
<1>12. CASE Fails
  <2>1. /\ watch = "waiting" /\ Catch(stream) /\ link' = link
    BY <1>12 DEF Fails, socket
  <2>2. watch' \in {"waiting", "ended", "failed"} /\ stream' = "none"
    BY <2>1 DEF Catch, LeaveStream
  <2>3. ASSUME view'.cause = "dropped" PROVE Over' /\ link' = "closed"
    <3>1. watch' = "failed" /\ view' = [view EXCEPT !.cause = stream]
      BY <2>1, <2>3 DEF Catch
    <3>3. stream = "dropped"
      BY <2>1, <2>3, <3>1
    <3>4. link # "connecting"
      BY <2>1, <3>1, <3>3 DEF Catch, ShouldResubscribe, ConnectionErrors
    <3> QED
      BY <2>1, <3>1, <3>3, <3>4
  <2> QED
    BY <2>1, <2>2, <2>3
<1>13. CASE Finishes \/ UNCHANGED vars
  BY <1>13 DEF Finishes, vars, client, socket, wire
<1> QED
  BY <1>1, <1>2, <1>3, <1>4, <1>5, <1>6, <1>7, <1>8, <1>9, <1>10, <1>11, <1>12, <1>13
     DEF Next, World, Work

\* A drop does not end a watch that keeps up with its stream: unless the client is closed,
\* the watch finds the transport reconnecting and subscribes again (threadWatch.ts:129-136,
\* socket.ts:253-284).
THEOREM DropsAreSurvived ==
  ASSUME ~HasLoader, ~SlowConsumer
  PROVE  Spec => []SurvivesDrops
<1>1. Init => DropInv
  BY DEF Init, DropInv
<1>2. IInv => view \in Views
  BY DEF IInv, ViewInv, ViewOK
<1>4. IInv /\ DropInv /\ [Next]_vars => DropInv'
  BY <1>2, DropStep
<1>3. DropInv => SurvivesDrops
  BY DEF DropInv, SurvivesDrops
<1> QED
  BY <1>1, <1>3, <1>4, InvCorrect, PTL DEF Spec
===============================================================================

---------------------------- MODULE EventBusProofs ----------------------------
(***************************************************************************)
(* Proof that the event bus model stays well typed (EventBus!TypeOK) for   *)
(* every set of publishers, listeners and service names and every bound.   *)
(***************************************************************************)
EXTENDS EventBus, TLAPS

\* TypeOK with what makes it inductive: the log stays within its bound, a
\* goroutine is inside PublishEvent's fan-out exactly when it holds
\* eventListeners.mu, and a fan-out always has the event it is sending
\* (the last one of the log).
IInv ==
    /\ TypeOK
    /\ Len(log) <= MaxEvents
    /\ \A p \in Publishers : (ppc[p] = "fanout") = (holder = p)
    /\ \A p \in Publishers : ppc[p] = "fanout" => Len(log) >= 1

LEMMA InitIInv == Init => IInv
  BY EventBusAssumption DEF Init, IInv, TypeOK, LStates

LEMMA AddIInv ==
  ASSUME IInv, NEW l \in Listeners, AddEventListener(l)
  PROVE  IInv'
  <1>1. Len(log) \in 0..MaxEvents
    BY EventBusAssumption DEF IInv, TypeOK
  <1> QED
    BY <1>1 DEF IInv, TypeOK, AddEventListener, LStates

LEMMA PublishStartIInv ==
  ASSUME IInv, NEW p \in Publishers, NEW n \in PubNames[p], PublishStart(p, n)
  PROVE  IInv'
  <1> DEFINE e == [svc |-> n, id |-> Len(log) + 1]
  <1>1. e \in Events
    <2>1. n \in Names
      BY DEF Names
    <2>2. Len(log) + 1 \in 1..MaxEvents
      BY EventBusAssumption DEF PublishStart, IInv, TypeOK
    <2> QED
      BY <2>1, <2>2 DEF Events
  <1>2. log' = Append(log, e) /\ Len(log') = Len(log) + 1
    BY DEF PublishStart, IInv, TypeOK
  <1>3. \A q \in Publishers : ppc[q] = "idle"
    \* The mutex is free, so no fan-out is under way.
    <2> SUFFICES ASSUME NEW q \in Publishers PROVE ppc[q] = "idle"
      OBVIOUS
    <2>1. holder # q
      BY EventBusAssumption DEF PublishStart
    <2>2. ppc[q] # "fanout"
      BY <2>1 DEF IInv
    <2> QED
      BY <2>2 DEF IInv, TypeOK
  <1>4. Len(log') <= MaxEvents
    BY <1>2, EventBusAssumption DEF PublishStart, IInv, TypeOK
  <1>5. TypeOK'
    BY <1>1, <1>2, EventBusAssumption DEF PublishStart, IInv, TypeOK
  <1>6. ASSUME NEW q \in Publishers
        PROVE  /\ (ppc'[q] = "fanout") = (holder' = q)
               /\ ppc'[q] = "fanout" => Len(log') >= 1
    <2>1. CASE q = p
      BY <2>1, <1>2 DEF PublishStart, IInv, TypeOK
    <2>2. CASE q # p
      BY <2>2, <1>3 DEF PublishStart, IInv, TypeOK
    <2> QED
      BY <2>1, <2>2
  <1> QED
    BY <1>4, <1>5, <1>6 DEF IInv

LEMMA PublishNextIInv ==
  ASSUME IInv, NEW p \in Publishers, NEW l \in Listeners, PublishNext(p, l)
  PROVE  IInv'
  BY DEF PublishNext, IInv, TypeOK

LEMMA DeliverIInv ==
  ASSUME IInv, NEW p \in Publishers, Deliver(p)
  PROVE  IInv'
  <1>1. target[p] \in Listeners
    BY DEF Deliver, IInv, TypeOK
  <1>2. log[Len(log)] \in Events
    BY DEF Deliver, IInv, TypeOK
  <1> QED
    BY <1>1, <1>2 DEF Deliver, IInv, TypeOK, LStates

LEMMA PublishEndIInv ==
  ASSUME IInv, NEW p \in Publishers, PublishEnd(p)
  PROVE  IInv'
  BY EventBusAssumption DEF PublishEnd, IInv, TypeOK

LEMMA NextIInv == IInv /\ [Next]_vars => IInv'
  <1> SUFFICES ASSUME IInv, [Next]_vars PROVE IInv'
    OBVIOUS
  <1>1. ASSUME NEW l \in Listeners, AddEventListener(l) PROVE IInv'
    BY <1>1, AddIInv
  <1>2. ASSUME NEW l \in Listeners, Handled(l) PROVE IInv'
    BY <1>2 DEF Handled, IInv, TypeOK, LStates
  <1>3. ASSUME NEW l \in Listeners, Leave(l) PROVE IInv'
    BY <1>3 DEF Leave, IInv, TypeOK, LStates
  <1>4. ASSUME NEW l \in Listeners, RemoveEventListener(l) PROVE IInv'
    BY <1>4 DEF RemoveEventListener, IInv, TypeOK, LStates
  <1>5. ASSUME NEW p \in Publishers, NEW n \in PubNames[p], PublishStart(p, n)
        PROVE IInv'
    BY <1>5, PublishStartIInv
  <1>6. ASSUME NEW p \in Publishers, NEW l \in Listeners, PublishNext(p, l)
        PROVE IInv'
    BY <1>6, PublishNextIInv
  <1>7. ASSUME NEW p \in Publishers, Deliver(p) PROVE IInv'
    BY <1>7, DeliverIInv
  <1>8. ASSUME NEW p \in Publishers, PublishEnd(p) PROVE IInv'
    BY <1>8, PublishEndIInv
  <1>9. CASE UNCHANGED vars
    BY <1>9 DEF vars, IInv, TypeOK
  <1> QED
    BY <1>1, <1>2, <1>3, <1>4, <1>5, <1>6, <1>7, <1>8, <1>9 DEF Next

\* Every reachable state of the bus is well typed, whatever the number of
\* publishers and subscribers and however PublishEvent's fan-out, the
\* rendezvous sends and Add/RemoveEventListener interleave: in particular a
\* fan-out only ever sends the event its own PublishEvent appended, because
\* it holds eventListeners.mu from start to end (catch.go PublishEvent).
THEOREM TypeCorrect == Spec => []TypeOK
  <1>1. IInv => TypeOK
    BY DEF IInv
  <1> QED
    BY InitIInv, NextIInv, <1>1, PTL DEF Spec

-----------------------------------------------------------------------------
(* Delivery by position.  The facts below about one subscriber's received  *)
(* sequence D, the log lg and its registration point a are stated once and  *)
(* cited for every step that extends the log or a subscriber's sequence.   *)

\* D holds an event published at position k.
HasId(D, k) == \E j \in 1..Len(D) : D[j].id = k

\* Every event of the log sits at its own position.
IdsOK(lg) == \A k \in 1..Len(lg) : lg[k].id = k

\* The first three conjuncts of DeliveredByPosition for one subscriber.
PrefixOK(D, lg, a, l) ==
    /\ \A i \in 1..Len(D) :
          D[i].id \in a + 1 .. Len(lg) /\ D[i] = lg[D[i].id] /\ Passes(l, D[i])
    /\ \A i, j \in 1..Len(D) : i < j => D[i].id < D[j].id
    /\ \A i \in 1..Len(D), k \in a + 1 .. Len(lg) :
          k < D[i].id /\ Passes(l, lg[k]) => HasId(D, k)

LEMMA HasIdAppend ==
  ASSUME NEW D \in Seq(Events), NEW e \in Events, NEW k
  PROVE  HasId(Append(D, e), k) <=> (HasId(D, k) \/ e.id = k)
  <1> DEFINE D2 == Append(D, e)
  <1>1. Len(D2) = Len(D) + 1 /\ D2[Len(D) + 1] = e
        /\ \A j \in 1..Len(D) : D2[j] = D[j]
    OBVIOUS
  <1>2. HasId(D2, k) => (HasId(D, k) \/ e.id = k)
    <2> SUFFICES ASSUME NEW j \in 1..Len(D2), D2[j].id = k
                 PROVE  HasId(D, k) \/ e.id = k
      BY DEF HasId
    <2>1. CASE j \in 1..Len(D)
      BY <2>1, <1>1 DEF HasId
    <2>2. CASE j = Len(D) + 1
      BY <2>2, <1>1
    <2> QED
      BY <1>1, <2>1, <2>2
  <1>3. HasId(D, k) => HasId(D2, k)
    BY <1>1 DEF HasId
  <1>4. e.id = k => HasId(D2, k)
    BY <1>1 DEF HasId
  <1> QED
    BY <1>2, <1>3, <1>4

\* A publication leaves what a subscriber has received a prefix of the
\* longer log.
LEMMA PrefixPublish ==
  ASSUME NEW D \in Seq(Events), NEW lg \in Seq(Events), NEW a \in Nat,
         NEW l \in Listeners, NEW e \in Events,
         PrefixOK(D, lg, a, l)
  PROVE  PrefixOK(D, Append(lg, e), a, l)
  <1>1. \A i \in 1..Len(D) : D[i].id \in a + 1 .. Len(lg)
    BY DEF PrefixOK
  <1>2. \A k \in 1..Len(lg) : Append(lg, e)[k] = lg[k]
    OBVIOUS
  <1>3. \A i \in 1..Len(D) : D[i] = Append(lg, e)[D[i].id] /\ D[i].id \in a + 1 .. Len(Append(lg, e))
    BY <1>1, <1>2 DEF PrefixOK
  <1>4. \A i \in 1..Len(D), k \in a + 1 .. Len(Append(lg, e)) :
          k < D[i].id /\ Passes(l, Append(lg, e)[k]) => HasId(D, k)
    BY <1>1, <1>2 DEF PrefixOK
  <1> QED
    BY <1>3, <1>4 DEF PrefixOK

\* The fan-out hands the last event of the log to a subscriber that has not
\* had it, whose filter takes it, and that has had every earlier one its
\* filter takes.
LEMMA PrefixDeliver ==
  ASSUME NEW D \in Seq(Events), NEW lg \in Seq(Events), NEW a \in Nat,
         NEW l \in Listeners,
         PrefixOK(D, lg, a, l), IdsOK(lg),
         a < Len(lg), ~HasId(D, Len(lg)), Passes(l, lg[Len(lg)]),
         \A k \in a + 1 .. Len(lg) - 1 : Passes(l, lg[k]) => HasId(D, k)
  PROVE  PrefixOK(Append(D, lg[Len(lg)]), lg, a, l)
  <1> DEFINE n == Len(lg)
  <1> DEFINE D2 == Append(D, lg[n])
  <1>1. lg[n] \in Events /\ lg[n].id = n
    BY DEF IdsOK
  <1>2. \A i \in 1..Len(D) : D[i].id \in a + 1 .. n /\ D[i].id # n
    BY DEF PrefixOK, HasId
  <1>3. \A i \in 1..Len(D2) :
          D2[i].id \in a + 1 .. n /\ D2[i] = lg[D2[i].id] /\ Passes(l, D2[i])
    BY <1>1 DEF PrefixOK
  <1>4. \A i, j \in 1..Len(D2) : i < j => D2[i].id < D2[j].id
    <2> SUFFICES ASSUME NEW i \in 1..Len(D2), NEW j \in 1..Len(D2), i < j
                 PROVE  D2[i].id < D2[j].id
      OBVIOUS
    <2>1. i \in 1..Len(D) /\ D2[i] = D[i]
      OBVIOUS
    <2>2. CASE j \in 1..Len(D)
      BY <2>1, <2>2 DEF PrefixOK
    <2>3. CASE j = Len(D) + 1
      BY <2>1, <2>3, <1>1, <1>2
    <2>4. j \in 1..Len(D) \/ j = Len(D) + 1
      OBVIOUS
    <2> QED
      BY <2>2, <2>3, <2>4
  <1>5. \A k : HasId(D, k) => HasId(D2, k)
    BY <1>1, HasIdAppend
  <1>6. \A i \in 1..Len(D2), k \in a + 1 .. n :
          k < D2[i].id /\ Passes(l, lg[k]) => HasId(D2, k)
    <2> SUFFICES ASSUME NEW i \in 1..Len(D2), NEW k \in a + 1 .. n,
                        k < D2[i].id, Passes(l, lg[k])
                 PROVE  HasId(D2, k)
      OBVIOUS
    <2>1. CASE i \in 1..Len(D)
      BY <2>1, <1>5 DEF PrefixOK
    <2>2. CASE i = Len(D) + 1
      BY <2>2, <1>1, <1>5
    <2> QED
      BY <2>1, <2>2
  <1> QED
    BY <1>3, <1>4, <1>6 DEF PrefixOK

\* The position of the event being fanned out.
Cur == Len(log)

\* Publisher p's fan-out has dealt with listener l for the current event.
Visited(p, l) == l \notin pending[p] /\ target[p] # l

LogIds == IdsOK(log)

\* A listener is in the HandleSet exactly from AddEventListener to
\* RemoveEventListener.
RegLive ==
    \A l \in Listeners : (l \in registered) = (lstate[l] \in {"loop", "busy", "leaving"})

NewEmpty == \A l \in Listeners : lstate[l] = "new" => delivered[l] = <<>>

AddedBound == \A l \in Listeners : addedAt[l] <= Len(log)

\* A fan-out ranges over listeners registered when it took the mutex, and
\* sends only to one whose filter takes the current event.
FanoutShape ==
    \A p \in Publishers :
        /\ ppc[p] = "idle" => target[p] = NoOne
        /\ ppc[p] = "fanout" =>
              /\ pending[p] \subseteq registered
              /\ target[p] \in registered \cup {NoOne}
              /\ target[p] \notin pending[p]
              /\ target[p] # NoOne => Passes(target[p], log[Cur])

\* With the mutex free, every registered listener has had every event since
\* its registration that its filter takes.
QuietComplete ==
    holder = NoOne =>
        \A l \in registered : \A k \in addedAt[l] + 1 .. Cur :
            Passes(l, log[k]) => HasId(delivered[l], k)

\* During a fan-out, a registered listener has had every earlier event, and
\* the current one exactly when the fan-out has visited it and its filter
\* takes the event.
FanoutComplete ==
    \A p \in Publishers : holder = p =>
        \A l \in registered :
            /\ addedAt[l] < Cur
            /\ \A k \in addedAt[l] + 1 .. Cur - 1 :
                  Passes(l, log[k]) => HasId(delivered[l], k)
            /\ HasId(delivered[l], Cur) <=> (Visited(p, l) /\ Passes(l, log[Cur]))

Prefixes ==
    \A l \in Listeners :
        lstate[l] # "new" => PrefixOK(delivered[l], log, addedAt[l], l)

DRest ==
    /\ LogIds /\ RegLive /\ NewEmpty /\ AddedBound /\ FanoutShape
    /\ QuietComplete /\ FanoutComplete /\ Prefixes

\* With the mutex free no fan-out is under way.
LEMMA QuietIdle ==
  ASSUME IInv, holder = NoOne
  PROVE  \A q \in Publishers : ppc[q] = "idle"
  <1> SUFFICES ASSUME NEW q \in Publishers PROVE ppc[q] = "idle"
    OBVIOUS
  <1>1. holder # q
    BY EventBusAssumption
  <1>2. ppc[q] # "fanout"
    BY <1>1 DEF IInv
  <1> QED
    BY <1>2 DEF IInv, TypeOK

\* Handled and Leave move a registered listener between its live states.
LEMMA LiveStepDRest ==
  ASSUME IInv, DRest, NEW l0 \in Listeners,
         lstate[l0] \in {"loop", "busy", "leaving"},
         NEW st \in {"loop", "busy", "leaving"},
         lstate' = [lstate EXCEPT ![l0] = st],
         UNCHANGED <<holder, registered, ppc, pending, target, log, addedAt, delivered>>
  PROVE  DRest'
  <1>1. \A l \in Listeners : (lstate'[l] = "new") = (lstate[l] = "new")
    BY DEF IInv, TypeOK
  <1>2. RegLive'
    BY DEF RegLive, DRest, IInv, TypeOK
  <1>3. (NewEmpty /\ Prefixes)'
    BY <1>1 DEF NewEmpty, Prefixes, DRest
  <1>4. (LogIds /\ AddedBound /\ FanoutShape /\ QuietComplete /\ FanoutComplete)'
    BY DEF DRest, LogIds, AddedBound, FanoutShape, QuietComplete, FanoutComplete,
           Cur, Visited
  <1> QED
    BY <1>2, <1>3, <1>4 DEF DRest

LEMMA AddDRest ==
  ASSUME IInv, DRest, NEW l0 \in Listeners, AddEventListener(l0)
  PROVE  DRest'
  <1>1. \A q \in Publishers : ppc[q] = "idle"
    BY QuietIdle DEF AddEventListener
  <1>2. l0 \notin registered /\ delivered[l0] = <<>>
    BY DEF AddEventListener, DRest, RegLive, NewEmpty
  <1>3. RegLive'
    BY DEF AddEventListener, DRest, RegLive, IInv, TypeOK
  <1>4. NewEmpty'
    BY DEF AddEventListener, DRest, NewEmpty, IInv, TypeOK
  <1>5. (LogIds /\ AddedBound)'
    BY DEF AddEventListener, DRest, LogIds, AddedBound, IInv, TypeOK
  <1>6. FanoutShape'
    BY <1>1 DEF AddEventListener, DRest, FanoutShape
  <1>7. QuietComplete'
    <2> SUFFICES ASSUME NEW l \in registered', NEW k \in addedAt'[l] + 1 .. Cur',
                        Passes(l, log'[k])
                 PROVE  HasId(delivered'[l], k)
      BY DEF QuietComplete
    <2>1. l # l0
      BY DEF AddEventListener, Cur, IInv, TypeOK
    <2>2. l \in registered
      BY <2>1 DEF AddEventListener
    <2> QED
      BY <2>1, <2>2 DEF AddEventListener, DRest, QuietComplete, Cur, IInv, TypeOK
  <1>8. FanoutComplete'
    BY EventBusAssumption DEF AddEventListener, FanoutComplete
  <1>9. Prefixes'
    <2> SUFFICES ASSUME NEW l \in Listeners, lstate'[l] # "new"
                 PROVE  PrefixOK(delivered'[l], log', addedAt'[l], l)
      BY DEF Prefixes
    <2>1. CASE l = l0
      BY <2>1, <1>2 DEF AddEventListener, PrefixOK, IInv, TypeOK
    <2>2. CASE l # l0
      BY <2>2 DEF AddEventListener, DRest, Prefixes, IInv, TypeOK
    <2> QED
      BY <2>1, <2>2
  <1> QED
    BY <1>3, <1>4, <1>5, <1>6, <1>7, <1>8, <1>9 DEF DRest

LEMMA RemoveDRest ==
  ASSUME IInv, DRest, NEW l0 \in Listeners, RemoveEventListener(l0)
  PROVE  DRest'
  <1>1. \A q \in Publishers : ppc[q] = "idle"
    BY QuietIdle DEF RemoveEventListener
  <1>2. RegLive'
    BY DEF RemoveEventListener, DRest, RegLive, IInv, TypeOK
  <1>3. (NewEmpty /\ Prefixes)'
    <2>1. \A l \in Listeners : (lstate'[l] = "new") = (lstate[l] = "new")
      BY DEF RemoveEventListener, IInv, TypeOK
    <2> QED
      BY <2>1 DEF RemoveEventListener, DRest, NewEmpty, Prefixes
  <1>4. (LogIds /\ AddedBound)'
    BY DEF RemoveEventListener, DRest, LogIds, AddedBound
  <1>5. FanoutShape'
    BY <1>1 DEF RemoveEventListener, DRest, FanoutShape
  <1>6. QuietComplete'
    BY DEF RemoveEventListener, DRest, QuietComplete, Cur
  <1>7. FanoutComplete'
    BY EventBusAssumption DEF RemoveEventListener, FanoutComplete
  <1> QED
    BY <1>2, <1>3, <1>4, <1>5, <1>6, <1>7 DEF DRest

LEMMA PublishStartDRest ==
  ASSUME IInv, DRest, NEW p \in Publishers, NEW n \in PubNames[p], PublishStart(p, n)
  PROVE  DRest'
  <1> DEFINE e == [svc |-> n, id |-> Len(log) + 1]
  <1>1. e \in Events /\ log' = Append(log, e) /\ log \in Seq(Events)
    <2>1. n \in Names
      BY DEF Names
    <2>2. Len(log) + 1 \in 1..MaxEvents
      BY EventBusAssumption DEF PublishStart, IInv, TypeOK
    <2> QED
      BY <2>1, <2>2 DEF Events, PublishStart, IInv, TypeOK
  <1>2. \A q \in Publishers : ppc[q] = "idle"
    BY QuietIdle DEF PublishStart
  <1>3. /\ Cur' = Cur + 1
        /\ \A k \in 1..Cur : log'[k] = log[k]
        /\ log'[Cur'] = e
    BY <1>1 DEF Cur
  <1>4. LogIds'
    BY <1>1, <1>3 DEF DRest, LogIds, IdsOK, Cur
  <1>5. (RegLive /\ NewEmpty)'
    BY DEF PublishStart, DRest, RegLive, NewEmpty
  <1>6. AddedBound'
    BY <1>3 DEF PublishStart, DRest, AddedBound, Cur, IInv, TypeOK
  <1>7. FanoutShape'
    <2> SUFFICES ASSUME NEW q \in Publishers
                 PROVE  /\ ppc'[q] = "idle" => target'[q] = NoOne
                        /\ ppc'[q] = "fanout" =>
                              /\ pending'[q] \subseteq registered'
                              /\ target'[q] \in registered' \cup {NoOne}
                              /\ target'[q] \notin pending'[q]
                              /\ target'[q] # NoOne => Passes(target'[q], log'[Cur'])
      BY DEF FanoutShape
    <2>1. target[q] = NoOne
      BY <1>2 DEF DRest, FanoutShape
    <2>2. CASE q = p
      BY <2>1, <2>2, EventBusAssumption DEF PublishStart, IInv, TypeOK
    <2>3. CASE q # p
      BY <2>1, <2>3, <1>2 DEF PublishStart
    <2> QED
      BY <2>2, <2>3
  <1>8. QuietComplete'
    BY EventBusAssumption DEF PublishStart, QuietComplete
  <1>9. FanoutComplete'
    <2> SUFFICES ASSUME NEW q \in Publishers, holder' = q, NEW l \in registered'
                 PROVE  /\ addedAt'[l] < Cur'
                        /\ \A k \in addedAt'[l] + 1 .. Cur' - 1 :
                              Passes(l, log'[k]) => HasId(delivered'[l], k)
                        /\ HasId(delivered'[l], Cur') <=>
                              (Visited(q, l)' /\ Passes(l, log'[Cur']))
      BY DEF FanoutComplete
    <2>1. q = p /\ l \in registered /\ l \in Listeners
      BY DEF PublishStart, IInv, TypeOK
    <2>2. addedAt'[l] < Cur'
      BY <2>1, <1>3 DEF PublishStart, DRest, AddedBound, Cur, IInv, TypeOK
    <2>3. \A k \in addedAt'[l] + 1 .. Cur' - 1 :
             Passes(l, log'[k]) => HasId(delivered'[l], k)
      <3> SUFFICES ASSUME NEW k \in addedAt'[l] + 1 .. Cur' - 1, Passes(l, log'[k])
                   PROVE  HasId(delivered'[l], k)
        OBVIOUS
      <3>1. k \in addedAt[l] + 1 .. Cur /\ k \in 1..Cur
        BY <1>3, <2>1 DEF PublishStart, DRest, AddedBound, IInv, TypeOK, Cur
      <3>2. Passes(l, log[k])
        BY <3>1, <1>3
      <3>3. HasId(delivered[l], k)
        BY <3>1, <3>2, <2>1 DEF PublishStart, DRest, QuietComplete
      <3> QED
        BY <3>3 DEF PublishStart
    <2>4. ~HasId(delivered[l], Cur + 1)
      <3>1. lstate[l] # "new"
        BY <2>1 DEF DRest, RegLive
      <3>2. PrefixOK(delivered[l], log, addedAt[l], l)
        BY <3>1, <2>1 DEF DRest, Prefixes
      <3> QED
        BY <3>2 DEF PrefixOK, HasId, Cur
    <2>5. ~Visited(q, l)'
      BY <2>1 DEF PublishStart, Visited, IInv, TypeOK
    <2> QED
      BY <2>2, <2>3, <2>4, <2>5, <1>3 DEF PublishStart
  <1>10. Prefixes'
    <2> SUFFICES ASSUME NEW l \in Listeners, lstate'[l] # "new"
                 PROVE  PrefixOK(delivered'[l], log', addedAt'[l], l)
      BY DEF Prefixes
    <2>1. PrefixOK(delivered[l], log, addedAt[l], l)
      BY DEF PublishStart, DRest, Prefixes
    <2>2. delivered[l] \in Seq(Events) /\ addedAt[l] \in Nat
      BY DEF IInv, TypeOK
    <2> QED
      BY <2>1, <2>2, <1>1, PrefixPublish DEF PublishStart
  <1> QED
    BY <1>4, <1>5, <1>6, <1>7, <1>8, <1>9, <1>10 DEF DRest

\* During a fan-out the publisher holds the mutex and is the only one in
\* PublishEvent.
LEMMA FanoutHolder ==
  ASSUME IInv, NEW p \in Publishers, ppc[p] = "fanout"
  PROVE  /\ holder = p
         /\ \A q \in Publishers \ {p} : ppc[q] = "idle"
  <1>1. holder = p
    BY DEF IInv
  <1>2. ASSUME NEW q \in Publishers \ {p} PROVE ppc[q] = "idle"
    <2>1. ppc[q] # "fanout"
      BY <1>1 DEF IInv
    <2> QED
      BY <2>1 DEF IInv, TypeOK
  <1> QED
    BY <1>1, <1>2

LEMMA PublishNextDRest ==
  ASSUME IInv, DRest, NEW p \in Publishers, NEW l0 \in Listeners, PublishNext(p, l0)
  PROVE  DRest'
  <1>1. holder = p /\ \A q \in Publishers \ {p} : ppc[q] = "idle"
    BY FanoutHolder DEF PublishNext
  <1>2. /\ target[p] = NoOne /\ l0 \in pending[p] /\ l0 \in registered
        /\ pending \in [Publishers -> SUBSET Listeners]
        /\ target \in [Publishers -> Listeners \cup {NoOne}]
    BY DEF PublishNext, DRest, FanoutShape, IInv, TypeOK
  <1>3. (LogIds /\ RegLive /\ NewEmpty /\ AddedBound /\ QuietComplete /\ Prefixes)'
    BY DEF PublishNext, DRest, LogIds, RegLive, NewEmpty, AddedBound,
           QuietComplete, Prefixes, Cur
  <1>4. FanoutShape'
    <2> SUFFICES ASSUME NEW q \in Publishers
                 PROVE  /\ ppc'[q] = "idle" => target'[q] = NoOne
                        /\ ppc'[q] = "fanout" =>
                              /\ pending'[q] \subseteq registered'
                              /\ target'[q] \in registered' \cup {NoOne}
                              /\ target'[q] \notin pending'[q]
                              /\ target'[q] # NoOne => Passes(target'[q], log'[Cur'])
      BY DEF FanoutShape
    <2>1. CASE q = p
      BY <2>1, <1>2, EventBusAssumption DEF PublishNext, DRest, FanoutShape, Cur
    <2>2. CASE q # p
      BY <2>2, <1>2 DEF PublishNext, DRest, FanoutShape, Cur
    <2> QED
      BY <2>1, <2>2
  <1>5. FanoutComplete'
    <2> SUFFICES ASSUME NEW q \in Publishers, holder' = q, NEW l \in registered'
                 PROVE  /\ addedAt'[l] < Cur'
                        /\ \A k \in addedAt'[l] + 1 .. Cur' - 1 :
                              Passes(l, log'[k]) => HasId(delivered'[l], k)
                        /\ HasId(delivered'[l], Cur') <=>
                              (Visited(q, l)' /\ Passes(l, log'[Cur']))
      BY DEF FanoutComplete
    <2>1. q = p /\ l \in registered
      BY <1>1 DEF PublishNext
    <2>2. /\ addedAt[l] < Cur
          /\ \A k \in addedAt[l] + 1 .. Cur - 1 :
                Passes(l, log[k]) => HasId(delivered[l], k)
          /\ HasId(delivered[l], Cur) <=> (Visited(p, l) /\ Passes(l, log[Cur]))
      BY <2>1, <1>1 DEF DRest, FanoutComplete
    <2>3. CASE l = l0
      <3>1. ~HasId(delivered[l], Cur)
        BY <2>2, <2>3, <1>2 DEF Visited
      <3>2. Visited(q, l)' <=> ~Passes(l, log[Cur])
        BY <2>1, <2>3, <1>2, EventBusAssumption DEF PublishNext, Visited, Cur
      <3> QED
        BY <2>2, <3>1, <3>2 DEF PublishNext, Cur
    <2>4. CASE l # l0
      <3>1. Visited(q, l)' <=> Visited(p, l)
        <4>1. l # NoOne
          BY <2>1, EventBusAssumption DEF IInv, TypeOK
        <4>2. (l \in pending'[p]) <=> (l \in pending[p])
          BY <2>4, <1>2 DEF PublishNext
        <4>3. target'[p] # l /\ target[p] # l
          BY <2>4, <4>1, <1>2 DEF PublishNext
        <4> QED
          BY <2>1, <4>2, <4>3 DEF Visited
      <3> QED
        BY <2>2, <3>1 DEF PublishNext, Cur
    <2> QED
      BY <2>3, <2>4
  <1> QED
    BY <1>3, <1>4, <1>5 DEF DRest

LEMMA DeliverDRest ==
  ASSUME IInv, DRest, NEW p \in Publishers, Deliver(p)
  PROVE  DRest'
  <1> DEFINE l0 == target[p]
  <1>1. holder = p /\ \A q \in Publishers \ {p} : ppc[q] = "idle"
    BY FanoutHolder DEF Deliver
  <1>2. /\ l0 \in registered /\ l0 \in Listeners /\ l0 \notin pending[p]
        /\ Passes(l0, log[Cur]) /\ lstate[l0] = "loop"
    BY DEF Deliver, DRest, FanoutShape, IInv, TypeOK
  <1>3. /\ addedAt[l0] < Cur
        /\ \A k \in addedAt[l0] + 1 .. Cur - 1 :
              Passes(l0, log[k]) => HasId(delivered[l0], k)
        /\ ~HasId(delivered[l0], Cur)
    BY <1>1, <1>2 DEF DRest, FanoutComplete, Visited
  <1>4. /\ delivered[l0] \in Seq(Events) /\ log \in Seq(Events) /\ Cur \in 1..Len(log)
        /\ log[Cur] \in Events
        /\ delivered' = [delivered EXCEPT ![l0] = Append(delivered[l0], log[Cur])]
    BY <1>2 DEF Deliver, IInv, TypeOK, Cur
  <1>11. delivered'[l0] = Append(delivered[l0], log[Cur])
    BY <1>2, <1>4 DEF IInv, TypeOK
  <1>5. \A k : HasId(delivered'[l0], k) <=> (HasId(delivered[l0], k) \/ k = Cur)
    <2>1. log[Cur].id = Cur
      BY <1>4 DEF DRest, LogIds, IdsOK
    <2>2. ASSUME NEW k
          PROVE  HasId(Append(delivered[l0], log[Cur]), k)
                   <=> (HasId(delivered[l0], k) \/ log[Cur].id = k)
      BY <1>4, HasIdAppend
    <2> QED
      BY <1>11, <2>1, <2>2
  <1>6. (LogIds /\ AddedBound /\ QuietComplete)'
    BY <1>1, EventBusAssumption DEF Deliver, DRest, LogIds, AddedBound, QuietComplete
  <1>7. (RegLive /\ NewEmpty)'
    BY <1>2 DEF Deliver, DRest, RegLive, NewEmpty, IInv, TypeOK
  <1>8. FanoutShape'
    <2> SUFFICES ASSUME NEW q \in Publishers
                 PROVE  /\ ppc'[q] = "idle" => target'[q] = NoOne
                        /\ ppc'[q] = "fanout" =>
                              /\ pending'[q] \subseteq registered'
                              /\ target'[q] \in registered' \cup {NoOne}
                              /\ target'[q] \notin pending'[q]
                              /\ target'[q] # NoOne => Passes(target'[q], log'[Cur'])
      BY DEF FanoutShape
    <2>1. CASE q = p
      BY <2>1, EventBusAssumption DEF Deliver, DRest, FanoutShape, IInv, TypeOK
    <2>2. CASE q # p
      BY <2>2 DEF Deliver, DRest, FanoutShape, Cur, IInv, TypeOK
    <2> QED
      BY <2>1, <2>2
  <1>9. FanoutComplete'
    <2> SUFFICES ASSUME NEW q \in Publishers, holder' = q, NEW l \in registered'
                 PROVE  /\ addedAt'[l] < Cur'
                        /\ \A k \in addedAt'[l] + 1 .. Cur' - 1 :
                              Passes(l, log'[k]) => HasId(delivered'[l], k)
                        /\ HasId(delivered'[l], Cur') <=>
                              (Visited(q, l)' /\ Passes(l, log'[Cur']))
      BY DEF FanoutComplete
    <2>1. q = p /\ l \in registered /\ l \in Listeners
      BY <1>1 DEF Deliver, IInv, TypeOK
    <2>2. /\ addedAt[l] < Cur
          /\ \A k \in addedAt[l] + 1 .. Cur - 1 :
                Passes(l, log[k]) => HasId(delivered[l], k)
          /\ HasId(delivered[l], Cur) <=> (Visited(p, l) /\ Passes(l, log[Cur]))
      BY <2>1, <1>1 DEF DRest, FanoutComplete
    <2>3. CASE l = l0
      <3>1. Visited(q, l)'
        BY <2>1, <2>3, <1>2, EventBusAssumption DEF Deliver, Visited, IInv, TypeOK
      <3> QED
        BY <2>2, <2>3, <3>1, <1>2, <1>5 DEF Deliver, Cur
    <2>4. CASE l # l0
      <3>1. Visited(q, l)' <=> Visited(p, l)
        <4>1. l # NoOne
          BY <2>1, EventBusAssumption
        <4> QED
          BY <2>1, <2>4, <4>1 DEF Deliver, Visited, IInv, TypeOK
      <3>2. delivered'[l] = delivered[l]
        BY <2>1, <2>4, <1>4
      <3> QED
        BY <2>2, <3>1, <3>2 DEF Deliver, Cur
    <2> QED
      BY <2>3, <2>4
  <1>10. Prefixes'
    <2> SUFFICES ASSUME NEW l \in Listeners, lstate'[l] # "new"
                 PROVE  PrefixOK(delivered'[l], log', addedAt'[l], l)
      BY DEF Prefixes
    <2>1. CASE l = l0
      <3>1. PrefixOK(delivered[l0], log, addedAt[l0], l0)
        BY <1>2 DEF DRest, Prefixes
      <3>2. addedAt[l0] \in Nat /\ IdsOK(log)
        BY <1>2 DEF IInv, TypeOK, DRest, LogIds
      <3>3. PrefixOK(Append(delivered[l0], log[Len(log)]), log, addedAt[l0], l0)
        BY <1>2, <1>3, <1>4, <3>1, <3>2, PrefixDeliver DEF Cur
      <3> QED
        BY <2>1, <3>3, <1>11 DEF Deliver, Cur
    <2>2. CASE l # l0
      <3>1. lstate[l] # "new" /\ delivered'[l] = delivered[l]
        BY <2>2, <1>4 DEF Deliver, IInv, TypeOK
      <3> QED
        BY <3>1 DEF Deliver, DRest, Prefixes
    <2> QED
      BY <2>1, <2>2
  <1> QED
    BY <1>6, <1>7, <1>8, <1>9, <1>10 DEF DRest

LEMMA PublishEndDRest ==
  ASSUME IInv, DRest, NEW p \in Publishers, PublishEnd(p)
  PROVE  DRest'
  <1>1. holder = p /\ \A q \in Publishers \ {p} : ppc[q] = "idle"
    BY FanoutHolder DEF PublishEnd
  <1>2. (LogIds /\ RegLive /\ NewEmpty /\ AddedBound /\ Prefixes)'
    BY DEF PublishEnd, DRest, LogIds, RegLive, NewEmpty, AddedBound, Prefixes
  <1>3. FanoutShape'
    <2> SUFFICES ASSUME NEW q \in Publishers
                 PROVE  /\ ppc'[q] = "idle" => target'[q] = NoOne
                        /\ ppc'[q] = "fanout" =>
                              /\ pending'[q] \subseteq registered'
                              /\ target'[q] \in registered' \cup {NoOne}
                              /\ target'[q] \notin pending'[q]
                              /\ target'[q] # NoOne => Passes(target'[q], log'[Cur'])
      BY DEF FanoutShape
    <2>1. CASE q = p
      BY <2>1 DEF PublishEnd, IInv, TypeOK
    <2>2. CASE q # p
      BY <2>2, <1>1 DEF PublishEnd, DRest, FanoutShape, IInv, TypeOK
    <2> QED
      BY <2>1, <2>2
  <1>4. QuietComplete'
    <2> SUFFICES ASSUME NEW l \in registered, NEW k \in addedAt[l] + 1 .. Cur,
                        Passes(l, log[k])
                 PROVE  HasId(delivered[l], k)
      BY DEF PublishEnd, QuietComplete, Cur
    <2>1. /\ addedAt[l] < Cur
          /\ \A j \in addedAt[l] + 1 .. Cur - 1 :
                Passes(l, log[j]) => HasId(delivered[l], j)
          /\ HasId(delivered[l], Cur) <=> (Visited(p, l) /\ Passes(l, log[Cur]))
      BY <1>1 DEF DRest, FanoutComplete
    <2>2. Visited(p, l)
      BY EventBusAssumption DEF PublishEnd, Visited, IInv, TypeOK
    <2>3. k \in addedAt[l] + 1 .. Cur - 1 \/ k = Cur
      BY DEF IInv, TypeOK, Cur
    <2> QED
      BY <2>1, <2>2, <2>3
  <1>5. FanoutComplete'
    BY EventBusAssumption DEF PublishEnd, FanoutComplete
  <1> QED
    BY <1>2, <1>3, <1>4, <1>5 DEF DRest

LEMMA InitDRest == Init => DRest
  BY EventBusAssumption
  DEF Init, DRest, LogIds, IdsOK, RegLive, NewEmpty, AddedBound, FanoutShape,
      QuietComplete, FanoutComplete, Prefixes

LEMMA NextDRest == IInv /\ DRest /\ [Next]_vars => DRest'
  <1> SUFFICES ASSUME IInv, DRest, [Next]_vars PROVE DRest'
    OBVIOUS
  <1>1. ASSUME NEW l \in Listeners, AddEventListener(l) PROVE DRest'
    BY <1>1, AddDRest
  <1>2. ASSUME NEW l \in Listeners, Handled(l) PROVE DRest'
    BY <1>2, LiveStepDRest DEF Handled
  <1>3. ASSUME NEW l \in Listeners, Leave(l) PROVE DRest'
    BY <1>3, LiveStepDRest DEF Leave
  <1>4. ASSUME NEW l \in Listeners, RemoveEventListener(l) PROVE DRest'
    BY <1>4, RemoveDRest
  <1>5. ASSUME NEW p \in Publishers, NEW n \in PubNames[p], PublishStart(p, n)
        PROVE DRest'
    BY <1>5, PublishStartDRest
  <1>6. ASSUME NEW p \in Publishers, NEW l \in Listeners, PublishNext(p, l)
        PROVE DRest'
    BY <1>6, PublishNextDRest
  <1>7. ASSUME NEW p \in Publishers, Deliver(p) PROVE DRest'
    BY <1>7, DeliverDRest
  <1>8. ASSUME NEW p \in Publishers, PublishEnd(p) PROVE DRest'
    BY <1>8, PublishEndDRest
  <1>9. CASE UNCHANGED vars
    BY <1>9 DEF vars, DRest, LogIds, IdsOK, RegLive, NewEmpty, AddedBound,
           FanoutShape, QuietComplete, FanoutComplete, Prefixes, Cur, Visited
  <1> QED
    BY <1>1, <1>2, <1>3, <1>4, <1>5, <1>6, <1>7, <1>8, <1>9 DEF Next

LEMMA DRestDelivered == DRest => DeliveredByPosition
  <1> SUFFICES ASSUME DRest, NEW l \in Listeners, lstate[l] # "new"
               PROVE  LET D == delivered[l]
                          Since == addedAt[l] + 1 .. Len(log)
                      IN
                      /\ \A i \in 1..Len(D) :
                            D[i].id \in Since /\ D[i] = log[D[i].id] /\ Passes(l, D[i])
                      /\ \A i, j \in 1..Len(D) : i < j => D[i].id < D[j].id
                      /\ \A i \in 1..Len(D), k \in Since :
                            k < D[i].id /\ Passes(l, log[k]) => Got(l, k)
                      /\ (holder = NoOne /\ l \in registered) =>
                            \A k \in Since : Passes(l, log[k]) => Got(l, k)
    BY DEF DeliveredByPosition
  <1>1. \A k : Got(l, k) = HasId(delivered[l], k)
    BY DEF Got, HasId
  <1>2. PrefixOK(delivered[l], log, addedAt[l], l)
    BY DEF DRest, Prefixes
  <1>3. (holder = NoOne /\ l \in registered) =>
           \A k \in addedAt[l] + 1 .. Len(log) : Passes(l, log[k]) => HasId(delivered[l], k)
    BY DEF DRest, QuietComplete, Cur
  <1> QED
    BY <1>1, <1>2, <1>3 DEF PrefixOK

\* Every subscriber of the event bus has received, in publication order and
\* once each, exactly the events its filter accepts that were published
\* after its AddEventListener, with none skipped; and once no PublishEvent
\* holds eventListeners.mu, every such event (catch.go PublishEvent's
\* fan-out under the mutex, the unbuffered send, the select of the events
\* command and of handleEvents).  For every number of publishers,
\* subscribers and service names.
THEOREM DeliveredByPositionHolds == Spec => []DeliveredByPosition
  <1>1. Init => IInv /\ DRest
    BY InitIInv, InitDRest
  <1>2. IInv /\ DRest /\ [Next]_vars => (IInv /\ DRest)'
    BY NextIInv, NextDRest
  <1>3. IInv /\ DRest => DeliveredByPosition
    BY DRestDelivered
  <1> QED
    BY <1>1, <1>2, <1>3, PTL DEF Spec

=============================================================================

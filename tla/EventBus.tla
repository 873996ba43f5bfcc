------------------------------ MODULE EventBus ------------------------------
(***************************************************************************)
(* The catch daemon's in-process event bus (catch.go PublishEvent,        *)
(* AddEventListener, RemoveEventListener) with its publishers and its     *)
(* subscribers.                                                           *)
(*                                                                         *)
(* Publishers are the heartbeat goroutine (catch.go heartbeat, events of   *)
(* the pseudo-service "sys") and sessions that remove a service           *)
(* (RemoveService publishes ServiceDeleted).  Subscribers are the         *)
(* "events" SSH command (tty.go eventsCmdFunc) and the /api/v0/events      *)
(* WebSocket handler (api handleEvents).  Each subscriber makes an         *)
(* unbuffered channel, registers it, loops on a select between receiving   *)
(* from it and its context being done, and removes the registration in a  *)
(* deferred call when it leaves the loop.                                  *)
(*                                                                         *)
(* PublishEvent holds the listener mutex for the whole fan-out and, in map *)
(* order, sends the event to each listener whose filter accepts it; each   *)
(* send is a rendezvous with that listener's select.                       *)
(***************************************************************************)
EXTENDS Naturals, Sequences

CONSTANTS
    Publishers,   \* goroutines that call PublishEvent
    PubNames,     \* PubNames[p]: service names publisher p publishes for
    Listeners,    \* subscriber goroutines
    Filter,       \* Filter[l]: All, or the one service name l accepts
    All,          \* the filter of "events --all" and of handleEvents
    NoOne,        \* no goroutine
    MaxEvents     \* bound on the number of publications (model bound)

Names == UNION {PubNames[p] : p \in Publishers}

ASSUME EventBusAssumption ==
    /\ MaxEvents \in Nat
    /\ PubNames \in [Publishers -> SUBSET Names]
    /\ Filter \in [Listeners -> Names \cup {All}]
    /\ All \notin Names
    /\ NoOne \notin Publishers \cup Listeners

\* An event, abstracted to its service name and its place in publication
\* order (Time and Type are not told apart by any property).
Events == [svc : Names, id : 1..MaxEvents]

\* The listener's filter function.
Passes(l, e) == Filter[l] = All \/ Filter[l] = e.svc

VARIABLES
    holder,      \* goroutine holding eventListeners.mu, or NoOne
    registered,  \* the HandleSet of listeners
    ppc,         \* ppc[p]: "idle" or "fanout" (inside PublishEvent)
    pending,     \* pending[p]: listeners the fan-out has still to visit
    target,      \* target[p]: listener p is blocked sending to, or NoOne
    lstate,      \* lstate[l]: "new", "loop", "busy", "leaving" or "done"
    log,         \* every event published so far, in publication order
    addedAt,     \* addedAt[l]: Len(log) when l was registered
    delivered    \* delivered[l]: events l has received, in order

vars == <<holder, registered, ppc, pending, target, lstate, log, addedAt, delivered>>

LStates == {"new", "loop", "busy", "leaving", "done"}

TypeOK ==
    /\ holder \in Publishers \cup {NoOne}
    /\ registered \subseteq Listeners
    /\ ppc \in [Publishers -> {"idle", "fanout"}]
    /\ pending \in [Publishers -> SUBSET Listeners]
    /\ target \in [Publishers -> Listeners \cup {NoOne}]
    /\ lstate \in [Listeners -> LStates]
    /\ log \in Seq(Events)
    /\ addedAt \in [Listeners -> 0..MaxEvents]
    /\ delivered \in [Listeners -> Seq(Events)]

Init ==
    /\ holder = NoOne
    /\ registered = {}
    /\ ppc = [p \in Publishers |-> "idle"]
    /\ pending = [p \in Publishers |-> {}]
    /\ target = [p \in Publishers |-> NoOne]
    /\ lstate = [l \in Listeners |-> "new"]
    /\ log = <<>>
    /\ addedAt = [l \in Listeners |-> 0]
    /\ delivered = [l \in Listeners |-> <<>>]

\* AddEventListener: under the mutex, add the listener to the set; the
\* subscriber then enters its select loop.
AddEventListener(l) ==
    /\ lstate[l] = "new"
    /\ holder = NoOne
    /\ registered' = registered \cup {l}
    /\ addedAt' = [addedAt EXCEPT ![l] = Len(log)]
    /\ lstate' = [lstate EXCEPT ![l] = "loop"]
    /\ UNCHANGED <<holder, ppc, pending, target, log, delivered>>

\* PublishEvent: take the mutex and start ranging over the listener set.
PublishStart(p, n) ==
    LET e == [svc |-> n, id |-> Len(log) + 1] IN
    /\ ppc[p] = "idle"
    /\ holder = NoOne
    /\ Len(log) < MaxEvents
    /\ holder' = p
    /\ log' = Append(log, e)
    /\ pending' = [pending EXCEPT ![p] = registered]
    /\ ppc' = [ppc EXCEPT ![p] = "fanout"]
    /\ UNCHANGED <<registered, target, lstate, addedAt, delivered>>

\* Mutant: the listener's filter is not consulted.
PublishNext_NoFilter(p, l) ==
    /\ ppc[p] = "fanout"
    /\ target[p] = NoOne
    /\ l \in pending[p]
    /\ pending' = [pending EXCEPT ![p] = @ \ {l}]
    /\ target' = [target EXCEPT ![p] = l]
    /\ UNCHANGED <<holder, registered, ppc, lstate, log, addedAt, delivered>>

\* PublishEvent: the range loop takes its next listener; one the filter
\* rejects is skipped, for the others the send on el.ch begins.
PublishNext(p, l) ==
    /\ ppc[p] = "fanout"
    /\ target[p] = NoOne
    /\ l \in pending[p]
    /\ pending' = [pending EXCEPT ![p] = @ \ {l}]
    /\ target' = [target EXCEPT ![p] = IF Passes(l, log[Len(log)]) THEN l ELSE NoOne]
    /\ UNCHANGED <<holder, registered, ppc, lstate, log, addedAt, delivered>>

\* The unbuffered send completes when the listener's select takes the
\* receive case; the listener then handles the event (printf, WriteJSON).
Deliver(p) ==
    LET l == target[p] IN
    /\ ppc[p] = "fanout"
    /\ l # NoOne
    /\ lstate[l] = "loop"
    /\ delivered' = [delivered EXCEPT ![l] = Append(@, log[Len(log)])]
    /\ lstate' = [lstate EXCEPT ![l] = "busy"]
    /\ target' = [target EXCEPT ![p] = NoOne]
    /\ UNCHANGED <<holder, registered, ppc, pending, log, addedAt>>

\* PublishEvent returns: the range is exhausted and the mutex released.
PublishEnd(p) ==
    /\ ppc[p] = "fanout"
    /\ target[p] = NoOne
    /\ pending[p] = {}
    /\ holder' = NoOne
    /\ ppc' = [ppc EXCEPT ![p] = "idle"]
    /\ UNCHANGED <<registered, pending, target, lstate, log, addedAt, delivered>>

\* The subscriber has written the event out and is back in its select.
Handled(l) ==
    /\ lstate[l] = "busy"
    /\ lstate' = [lstate EXCEPT ![l] = "loop"]
    /\ UNCHANGED <<holder, registered, ppc, pending, target, log, addedAt, delivered>>

\* The select takes the ctx.Done case (session closed, request cancelled):
\* the loop returns and the deferred RemoveEventListener runs.
Leave(l) ==
    /\ lstate[l] = "loop"
    /\ lstate' = [lstate EXCEPT ![l] = "leaving"]
    /\ UNCHANGED <<holder, registered, ppc, pending, target, log, addedAt, delivered>>

\* RemoveEventListener: under the mutex, delete the handle.
RemoveEventListener(l) ==
    /\ lstate[l] = "leaving"
    /\ holder = NoOne
    /\ registered' = registered \ {l}
    /\ lstate' = [lstate EXCEPT ![l] = "done"]
    /\ UNCHANGED <<holder, ppc, pending, target, log, addedAt, delivered>>

Next ==
    \/ \E l \in Listeners :
          AddEventListener(l) \/ Handled(l) \/ Leave(l) \/ RemoveEventListener(l)
    \/ \E p \in Publishers :
          \/ \E n \in PubNames[p] : PublishStart(p, n)
          \/ \E l \in Listeners : PublishNext(p, l)
          \/ Deliver(p)
          \/ PublishEnd(p)

\* The Go scheduler runs every runnable goroutine and a blocked channel
\* operation completes once its partner is ready; whether a subscriber's
\* context ends (Leave) is up to its client, so Leave has no fairness.
Fairness ==
    /\ \A l \in Listeners :
          WF_vars(AddEventListener(l)) /\ WF_vars(Handled(l))
          /\ WF_vars(RemoveEventListener(l))
    /\ \A p \in Publishers :
          /\ \A l \in Listeners : WF_vars(PublishNext(p, l))
          /\ WF_vars(Deliver(p)) /\ WF_vars(PublishEnd(p))

Spec == Init /\ [][Next]_vars

FairSpec == Spec /\ Fairness

-----------------------------------------------------------------------------
(* Properties.                                                              *)

\* The events of the log published since l registered that l's filter takes.
Expected(l) ==
    SelectSeq(SubSeq(log, addedAt[l] + 1, Len(log)), LAMBDA e : Passes(l, e))

\* Every subscriber receives exactly the events its filter accepts that were
\* published while it was registered, once each and in publication order
\* (so in per-service order): what it has received is always a prefix of
\* that sequence, and all of it whenever no PublishEvent is under way.
ExactlyOnceInOrder ==
    \A l \in Listeners :
        lstate[l] # "new" =>
            /\ Len(delivered[l]) <= Len(Expected(l))
            /\ delivered[l] = SubSeq(Expected(l), 1, Len(delivered[l]))
            /\ (holder = NoOne /\ l \in registered) => delivered[l] = Expected(l)

\* Listener l has received the event published at position k of the log.
Got(l, k) == \E j \in 1..Len(delivered[l]) : delivered[l][j].id = k

\* ExactlyOnceInOrder stated by positions in the log: every event a
\* subscriber received was published after AddEventListener and passes its
\* filter, it received them in publication order, an event its filter
\* accepts is never skipped before one it received, and once no
\* PublishEvent is under way it has received every such event.
DeliveredByPosition ==
    \A l \in Listeners :
        lstate[l] # "new" =>
            LET D == delivered[l]
                Since == addedAt[l] + 1 .. Len(log)
            IN
            /\ \A i \in 1..Len(D) :
                  D[i].id \in Since /\ D[i] = log[D[i].id] /\ Passes(l, D[i])
            /\ \A i, j \in 1..Len(D) : i < j => D[i].id < D[j].id
            /\ \A i \in 1..Len(D), k \in Since :
                  k < D[i].id /\ Passes(l, log[k]) => Got(l, k)
            /\ (holder = NoOne /\ l \in registered) =>
                  \A k \in Since : Passes(l, log[k]) => Got(l, k)

\* Every PublishEvent call returns: the heartbeat and RemoveService are
\* never blocked for good by the subscribers (spec: the bus never blocks
\* the publisher).
PublishCompletes ==
    \A p \in Publishers : ppc[p] = "fanout" ~> ppc[p] = "idle"

=============================================================================

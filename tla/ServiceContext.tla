---------------------------- MODULE ServiceContext ----------------------------
(***************************************************************************)
(* The web UI's view of the services (web/context/ServiceContext.js).     *)
(* On mount the ServiceProvider opens the /api/v0/events WebSocket         *)
(* (connectWebSocket) and fetches the service list once ("status" through *)
(* /api/v0/run-command); the fetched list replaces the reducer's services *)
(* (InitializeServices) and every event the socket delivers is applied to *)
(* them.  A socket that closes or fails schedules connectWebSocket again   *)
(* with setTimeout (handleReconnect); connectWebSocket closes the socket   *)
(* in wsRef before it opens a new one.                                     *)
(*                                                                         *)
(* The daemon's side is abstracted to which services exist and the         *)
(* events it publishes to every open events socket: RemoveService          *)
(* publishes ServiceDeleted, and no code path publishes ServiceCreated, so *)
(* a service that appears is not announced.  Sockets live in a fixed pool of slots; the browser      *)
(* discards what arrives on a socket once close() has been called on it.  *)
(* Backoff delays are time and are left out: a timer fires at some later  *)
(* step.                                                                   *)
(***************************************************************************)
EXTENDS Naturals, Sequences

CONSTANTS
    Services,     \* service names
    Slots,        \* WebSocket objects the page may hold at once (model bound)
    NoSock,       \* wsRef.current = null
    MaxChanges,   \* bound on the daemon's service creations and deletions
    MaxFaults,    \* bound on network failures and drops
    MaxTimers     \* bound on pending reconnect timers

ASSUME ServiceContextAssumption ==
    /\ NoSock \notin Slots
    /\ MaxChanges \in Nat /\ MaxFaults \in Nat /\ MaxTimers \in Nat

Events == [kind : {"created", "deleted"}, svc : Services]

SockStates == {"free", "connecting", "open", "closing"}

VARIABLES
    srv,       \* srv[s]: service s exists on the daemon
    changes,   \* service creations and deletions so far
    faults,    \* network failures and drops so far
    sock,      \* sock[i]: state of the WebSocket in slot i ("free": none, or its close event has fired)
    q,         \* q[i]: events the daemon has sent on socket i, not yet dispatched
    cur,       \* wsRef.current
    timers,    \* pending handleReconnect timeouts
    fetchSt,   \* the initial status fetch: "pending", "served", "done"
    snap,      \* the service list the daemon answered the fetch with
    ui         \* ui[s]: the reducer's state.services has an entry for s

vars == <<srv, changes, faults, sock, q, cur, timers, fetchSt, snap, ui>>

Live(i) == sock[i] \in {"connecting", "open"}

TypeOK ==
    /\ srv \in [Services -> BOOLEAN] /\ ui \in [Services -> BOOLEAN]
    /\ snap \in [Services -> BOOLEAN]
    /\ sock \in [Slots -> SockStates] /\ q \in [Slots -> Seq(Events)]
    /\ cur \in Slots \cup {NoSock}
    /\ changes \in 0..MaxChanges /\ faults \in 0..MaxFaults
    /\ timers \in 0..MaxTimers
    /\ fetchSt \in {"pending", "served", "done"}

\* The effect has run: connectWebSocket opened the first socket and the
\* fetch is on its way.  The daemon may already have services.
Init ==
    /\ srv \in [Services -> BOOLEAN]
    /\ changes = 0 /\ faults = 0
    /\ \E i \in Slots :
          /\ sock = [j \in Slots |-> IF j = i THEN "connecting" ELSE "free"]
          /\ cur = i
    /\ q = [i \in Slots |-> <<>>]
    /\ timers = 0
    /\ fetchSt = "pending"
    /\ snap = [s \in Services |-> FALSE]
    /\ ui = [s \in Services |-> FALSE]

\* PublishEvent: the event goes to the listener of every open events socket.
Publish(e) == q' = [i \in Slots |-> IF sock[i] = "open" THEN Append(q[i], e) ELSE q[i]]

\* A service s is created (an install) or removed (RemoveService, which
\* publishes ServiceDeleted once the store entry is gone); a creation
\* publishes nothing.
ServerChange(s) ==
    /\ changes < MaxChanges
    /\ srv' = [srv EXCEPT ![s] = ~srv[s]]
    /\ changes' = changes + 1
    /\ IF srv[s] THEN Publish([kind |-> "deleted", svc |-> s]) ELSE UNCHANGED q
    /\ UNCHANGED <<faults, sock, cur, timers, fetchSt, snap, ui>>

\* The daemon accepts the socket and subscribes it (onopen).
Accept(i) ==
    /\ sock[i] = "connecting"
    /\ sock' = [sock EXCEPT ![i] = "open"]
    /\ UNCHANGED <<srv, changes, faults, q, cur, timers, fetchSt, snap, ui>>

\* handleReconnect: one more setTimeout(connectWebSocket).
Reconnect == timers' = timers + 1

\* The socket fails (connection refused, network gone): onerror calls
\* ws.close() and handleReconnect; the close event follows later.
Fail(i) ==
    /\ Live(i)
    /\ faults < MaxFaults /\ timers < MaxTimers
    /\ faults' = faults + 1
    /\ sock' = [sock EXCEPT ![i] = "closing"]
    /\ q' = [q EXCEPT ![i] = <<>>]
    /\ Reconnect
    /\ UNCHANGED <<srv, changes, cur, fetchSt, snap, ui>>

\* The daemon or the network closes an open socket cleanly.
Drop(i) ==
    /\ sock[i] = "open"
    /\ faults < MaxFaults
    /\ faults' = faults + 1
    /\ sock' = [sock EXCEPT ![i] = "closing"]
    /\ q' = [q EXCEPT ![i] = <<>>]
    /\ UNCHANGED <<srv, changes, cur, timers, fetchSt, snap, ui>>

\* Mutant: onclose is not set, only onerror reconnects.
CloseEvent_NoReconnect(i) ==
    /\ sock[i] = "closing"
    /\ sock' = [sock EXCEPT ![i] = "free"]
    /\ UNCHANGED <<srv, changes, faults, q, cur, timers, fetchSt, snap, ui>>

\* The close event of a closing socket fires: onclose is handleReconnect.
CloseEvent(i) ==
    /\ sock[i] = "closing"
    /\ timers < MaxTimers
    /\ sock' = [sock EXCEPT ![i] = "free"]
    /\ Reconnect
    /\ UNCHANGED <<srv, changes, faults, q, cur, fetchSt, snap, ui>>

\* serviceReducer on a ServiceCreated or ServiceDeleted event.
Apply(e) == ui' = [ui EXCEPT ![e.svc] = (e.kind = "created")]

\* onmessage: the next event of an open socket is dispatched.
Deliver(i) ==
    /\ sock[i] = "open"
    /\ q[i] # <<>>
    /\ Apply(Head(q[i]))
    /\ q' = [q EXCEPT ![i] = Tail(q[i])]
    /\ UNCHANGED <<srv, changes, faults, sock, cur, timers, fetchSt, snap>>

\* Mutant: connectWebSocket forgets to close the socket in wsRef.
TimerFire_NoClose ==
    /\ timers > 0
    /\ timers' = timers - 1
    /\ \E j \in Slots :
          /\ sock[j] = "free"
          /\ sock' = [sock EXCEPT ![j] = "connecting"]
          /\ q' = [q EXCEPT ![j] = <<>>]
          /\ cur' = j
    /\ UNCHANGED <<srv, changes, faults, fetchSt, snap, ui>>

\* A reconnect timeout fires and runs connectWebSocket: wsRef.current is
\* closed (close() on a socket already closing or closed does nothing) and
\* a new socket takes its place.
TimerFire ==
    /\ timers > 0
    /\ timers' = timers - 1
    /\ LET closed == IF cur # NoSock /\ Live(cur)
                     THEN [sock EXCEPT ![cur] = "closing"] ELSE sock
       IN \E j \in Slots :
             /\ closed[j] = "free"
             /\ sock' = [closed EXCEPT ![j] = "connecting"]
             /\ q' = [q EXCEPT ![j] = <<>>]
             /\ cur' = j
    /\ UNCHANGED <<srv, changes, faults, fetchSt, snap, ui>>

\* The daemon runs the status command for the fetch.
FetchServe ==
    /\ fetchSt = "pending"
    /\ fetchSt' = "served"
    /\ snap' = srv
    /\ UNCHANGED <<srv, changes, faults, sock, q, cur, timers, ui>>

\* The response arrives: InitializeServices replaces the services.
FetchDeliver ==
    /\ fetchSt = "served"
    /\ fetchSt' = "done"
    /\ ui' = snap
    /\ UNCHANGED <<srv, changes, faults, sock, q, cur, timers, snap>>

Next ==
    \/ \E s \in Services : ServerChange(s)
    \/ \E i \in Slots : Accept(i) \/ Fail(i) \/ Drop(i) \/ CloseEvent(i) \/ Deliver(i)
    \/ TimerFire
    \/ FetchServe \/ FetchDeliver

\* The browser's event loop runs every callback that is due, the daemon
\* accepts connections and answers the fetch; service changes and network
\* faults are not forced.
Fairness ==
    /\ \A i \in Slots : WF_vars(Accept(i)) /\ WF_vars(CloseEvent(i)) /\ WF_vars(Deliver(i))
    /\ WF_vars(TimerFire)
    /\ WF_vars(FetchServe) /\ WF_vars(FetchDeliver)

Spec == Init /\ [][Next]_vars

FairSpec == Spec /\ Fairness

-----------------------------------------------------------------------------
(* Properties.                                                              *)

\* The page holds at most one connecting or open events socket:
\* connectWebSocket closes the one in wsRef before it opens the next, so a
\* reconnect never leaves two subscriptions delivering events.
AtMostOneLiveSocket ==
    \A i, j \in Slots : i # j => ~(Live(i) /\ Live(j))

\* Whenever the page has no live socket, it gets one again: every close,
\* clean or failed, schedules a reconnect.
AlwaysReconnects ==
    (\A i \in Slots : ~Live(i)) ~> (\E i \in Slots : Live(i))

\* Once the network stops failing, reconnecting stops: eventually no
\* reconnect timer is pending and no socket is being closed.
ReconnectSettles ==
    <>[](timers = 0 /\ \A i \in Slots : sock[i] # "closing")

\* Once the daemon's services stop changing, the page eventually shows
\* exactly the services that exist.
UIConverges ==
    <>[](ui = srv)

=============================================================================

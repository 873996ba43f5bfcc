------------------------- MODULE ServiceContextProofs -------------------------
(***************************************************************************)
(* Proof that the web UI never holds two live events sockets               *)
(* (ServiceContext!AtMostOneLiveSocket), for every number of socket slots, *)
(* services and bounds.                                                    *)
(***************************************************************************)
EXTENDS ServiceContext, TLAPS

\* The socket bookkeeping is well formed, and a live socket is always the
\* one wsRef.current holds: connectWebSocket closes wsRef.current before
\* it stores the new socket there, and nothing else makes a socket live.
IInv ==
    /\ sock \in [Slots -> SockStates]
    /\ cur \in Slots \cup {NoSock}
    /\ \A i \in Slots : Live(i) => i = cur

LEMMA InitIInv == Init => IInv
  BY DEF Init, IInv, Live, SockStates

\* Steps that do not touch sock or cur.
LEMMA FrameIInv ==
  ASSUME IInv, UNCHANGED <<sock, cur>>
  PROVE  IInv'
  BY DEF IInv, Live

\* Steps that only take a socket out of the live states.
LEMMA EndIInv ==
  ASSUME IInv, NEW k \in Slots, NEW st \in {"closing", "free"},
         sock' = [sock EXCEPT ![k] = st], UNCHANGED cur
  PROVE  IInv'
  BY DEF IInv, Live, SockStates

LEMMA AcceptIInv ==
  ASSUME IInv, NEW i \in Slots, Accept(i)
  PROVE  IInv'
  BY DEF IInv, Accept, Live, SockStates

LEMMA TimerFireIInv ==
  ASSUME IInv, TimerFire
  PROVE  IInv'
  <1> DEFINE closed == IF cur # NoSock /\ Live(cur)
                       THEN [sock EXCEPT ![cur] = "closing"] ELSE sock
  <1>1. closed \in [Slots -> SockStates] /\ \A i \in Slots : closed[i] \notin {"connecting", "open"}
    <2>1. CASE cur # NoSock /\ Live(cur)
      BY <2>1 DEF IInv, Live, SockStates
    <2>2. CASE ~(cur # NoSock /\ Live(cur))
      \* wsRef.current is empty or already closing: no socket is live.
      BY <2>2, ServiceContextAssumption DEF IInv, Live, SockStates
    <2> QED
      BY <2>1, <2>2
  <1>2. PICK j \in Slots : /\ closed[j] = "free"
                           /\ sock' = [closed EXCEPT ![j] = "connecting"]
                           /\ cur' = j
    BY DEF TimerFire
  <1> QED
    BY <1>1, <1>2 DEF IInv, Live, SockStates

\* The page holds at most one connecting or open events socket, whatever
\* the interleaving of socket events, failures, drops and reconnect timers
\* (connectWebSocket's close of wsRef.current, ServiceContext.js:127-130).
THEOREM AtMostOneLiveSocketHolds == Spec => []AtMostOneLiveSocket
  <1>1. Init => IInv
    BY InitIInv
  <1>2. IInv /\ [Next]_vars => IInv'
    <2> SUFFICES ASSUME IInv, [Next]_vars PROVE IInv'
      OBVIOUS
    <2>1. CASE \E s \in Services : ServerChange(s)
      BY <2>1, FrameIInv DEF ServerChange
    <2>2. ASSUME NEW i \in Slots, Accept(i) PROVE IInv'
      BY <2>2, AcceptIInv
    <2>3. ASSUME NEW i \in Slots, Fail(i) PROVE IInv'
      BY <2>3, EndIInv DEF Fail
    <2>4. ASSUME NEW i \in Slots, Drop(i) PROVE IInv'
      BY <2>4, EndIInv DEF Drop
    <2>5. ASSUME NEW i \in Slots, CloseEvent(i) PROVE IInv'
      BY <2>5, EndIInv DEF CloseEvent
    <2>6. ASSUME NEW i \in Slots, Deliver(i) PROVE IInv'
      BY <2>6, FrameIInv DEF Deliver
    <2>7. CASE TimerFire
      BY <2>7, TimerFireIInv
    <2>8. CASE FetchServe \/ FetchDeliver
      BY <2>8, FrameIInv DEF FetchServe, FetchDeliver
    <2>9. CASE UNCHANGED vars
      BY <2>9, FrameIInv DEF vars
    <2> QED
      BY <2>1, <2>2, <2>3, <2>4, <2>5, <2>6, <2>7, <2>8, <2>9 DEF Next
  <1>3. IInv => AtMostOneLiveSocket
    BY DEF IInv, AtMostOneLiveSocket
  <1> QED
    BY <1>1, <1>2, <1>3, PTL DEF Spec

=============================================================================

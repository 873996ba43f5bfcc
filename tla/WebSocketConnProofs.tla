------------------------- MODULE WebSocketConnProofs -------------------------
(***************************************************************************)
(* Proof that the exec terminal model stays well typed                     *)
(* (WebSocketConn!TypeOK), in particular that readCh never holds more than *)
(* its capacity, for every capacity and every bound on the messages.       *)
(***************************************************************************)
EXTENDS WebSocketConn, TLAPS

\* TypeOK split into the messages and control states, and the flags.
DataOK ==
    /\ sent \in Seq(Msgs) /\ inbox \in Seq(Msgs)
    /\ readCh \in Seq(Msgs) /\ Len(readCh) <= ReadChCap
    /\ input \in Seq(Msgs) /\ rdata \in Msgs
    /\ rpc \in {"read", "dispatch", "send", "exited", "panicked"}
    /\ spc \in {"run", "eof", "closed", "returned"}

FlagsOK ==
    /\ peerClosed \in BOOLEAN /\ connClosed \in BOOLEAN /\ chClosed \in BOOLEAN
    /\ ctxDone \in BOOLEAN /\ doneClosed \in BOOLEAN /\ handlerSet \in BOOLEAN

TypeW == DataOK /\ FlagsOK

LEMMA TypeWIsTypeOK == TypeW => TypeOK
  BY Zenon DEF TypeW, DataOK, FlagsOK, TypeOK

LEMMA InitTypeW == Init => TypeW
  <1> SUFFICES ASSUME Init PROVE TypeW
    OBVIOUS
  <1>1. [kind |-> "key", id |-> 1] \in Msgs
    BY WebSocketAssumption DEF Msgs
  <1>2. sent \in Seq(Msgs) /\ inbox \in Seq(Msgs) /\ readCh \in Seq(Msgs) /\ input \in Seq(Msgs)
    BY DEF Init
  <1>3. Len(readCh) <= ReadChCap
    BY WebSocketAssumption DEF Init
  <1>4. rdata \in Msgs
    BY <1>1 DEF Init
  <1>5. /\ rpc \in {"read", "dispatch", "send", "exited", "panicked"}
        /\ spc \in {"run", "eof", "closed", "returned"}
    BY DEF Init
  <1>6. /\ peerClosed \in BOOLEAN /\ connClosed \in BOOLEAN /\ chClosed \in BOOLEAN
        /\ ctxDone \in BOOLEAN /\ doneClosed \in BOOLEAN /\ handlerSet \in BOOLEAN
    BY DEF Init
  <1> QED
    BY <1>2, <1>3, <1>4, <1>5, <1>6 DEF TypeW, DataOK, FlagsOK

LEMMA PeerSendTypeW ==
  ASSUME TypeW, NEW k \in {"key", "resize"}, PeerSend(k)
  PROVE  TypeW'
  <1>1. [kind |-> k, id |-> Len(sent) + 1] \in Msgs
    BY WebSocketAssumption DEF PeerSend, TypeW, DataOK, Msgs
  <1> QED
    BY <1>1 DEF PeerSend, TypeW, DataOK, FlagsOK

LEMMA ReadMessageTypeW ==
  ASSUME TypeW, ReadMessage
  PROVE  TypeW'
  <1>1. DataOK'
    <2>1. CASE inbox' = Tail(inbox) /\ rdata' = Head(inbox) /\ rpc' = "dispatch"
               /\ inbox # <<>>
      BY <2>1 DEF ReadMessage, TypeW, DataOK
    <2>2. CASE UNCHANGED <<inbox, rdata>> /\ rpc' = "exited"
      BY <2>2 DEF ReadMessage, TypeW, DataOK
    <2> QED
      BY <2>1, <2>2, Zenon DEF ReadMessage
  <1>2. FlagsOK'
    BY Zenon DEF ReadMessage, TypeW, FlagsOK
  <1> QED
    BY <1>1, <1>2 DEF TypeW

LEMMA SendToReadChTypeW ==
  ASSUME TypeW, SendToReadCh
  PROVE  TypeW'
  <1>1. DataOK'
    <2>1. CASE readCh' = Append(readCh, rdata) /\ Len(readCh) < ReadChCap
               /\ rpc' = "read"
      BY <2>1, WebSocketAssumption DEF SendToReadCh, TypeW, DataOK
    <2>2. CASE UNCHANGED readCh /\ rpc' \in {"panicked", "read"}
      BY <2>2 DEF SendToReadCh, TypeW, DataOK
    <2> QED
      BY <2>1, <2>2, Zenon DEF SendToReadCh
  <1>2. FlagsOK'
    BY Zenon DEF SendToReadCh, TypeW, FlagsOK
  <1> QED
    BY <1>1, <1>2 DEF TypeW

LEMMA ReadTypeW ==
  ASSUME TypeW, Read
  PROVE  TypeW'
  <1>1. DataOK'
    <2>1. CASE input' = Append(input, Head(readCh)) /\ readCh' = Tail(readCh)
               /\ readCh # <<>> /\ spc' = spc
      BY <2>1, WebSocketAssumption DEF Read, TypeW, DataOK
    <2>2. CASE UNCHANGED <<readCh, input>> /\ spc' = "eof"
      BY <2>2 DEF Read, TypeW, DataOK
    <2> QED
      BY <2>1, <2>2, Zenon DEF Read
  <1>2. FlagsOK'
    BY Zenon DEF Read, TypeW, FlagsOK
  <1> QED
    BY <1>1, <1>2 DEF TypeW

LEMMA NextTypeW == TypeW /\ [Next]_vars => TypeW'
  <1> SUFFICES ASSUME TypeW, [Next]_vars PROVE TypeW'
    OBVIOUS
  <1>1. ASSUME NEW k \in {"key", "resize"}, PeerSend(k) PROVE TypeW'
    BY <1>1, PeerSendTypeW
  <1>2. CASE ReadMessage
    BY <1>2, ReadMessageTypeW
  <1>3. CASE SendToReadCh
    BY <1>3, SendToReadChTypeW
  <1>4. CASE Read
    BY <1>4, ReadTypeW
  <1>5. CASE PeerClose \/ Dispatch \/ SetReadHandler \/ Write \/ Close \/ Return
    \* Steps that set flags or control states only.
    <2>1. DataOK'
      BY <1>5 DEF PeerClose, Dispatch, SetReadHandler, Write, Close, Return, TypeW, DataOK
    <2>2. FlagsOK'
      BY <1>5, Zenon DEF PeerClose, Dispatch, SetReadHandler, Write, Close, Return, TypeW, FlagsOK
    <2> QED
      BY <2>1, <2>2 DEF TypeW
  <1>6. CASE UNCHANGED vars
    BY <1>6 DEF vars, TypeW, DataOK, FlagsOK
  <1> QED
    BY <1>1, <1>2, <1>3, <1>4, <1>5, <1>6 DEF Next

\* Every reachable state of the exec terminal is well typed, whatever the
\* interleaving of the browser, the handleReads pump, the session's Read
\* and Write and the deferred Close: in particular the readCh buffer never
\* holds more than its capacity (make(chan, 16) in NewConnReadWriteCloser,
\* the select's send case of handleReads).
THEOREM TypeCorrect == Spec => []TypeOK
  BY InitTypeW, NextTypeW, TypeWIsTypeOK, PTL DEF Spec

-----------------------------------------------------------------------------
(* KeystrokesByPosition.  Messages travel in sending order from the socket *)
(* (inbox, a suffix of sent) through the one handleReads holds (rdata)     *)
(* into readCh and on to input; a resize may be swallowed by the handler,  *)
(* and a message is dropped by the select only once rw.ctx is done, which  *)
(* happens when handleReads has exited or the session has returned.        *)

\* Number of messages handleReads has taken off the socket.
Front == Len(sent) - Len(inbox)

\* handleReads holds the message it read last.
Held == rpc \in {"dispatch", "send"}

\* Sequence s holds the message sent at position k.
Has(s, k) == \E j \in 1..Len(s) : s[j].id = k

\* s holds messages of sn, each the one sent at its position, in order.
StreamOK(s, sn) ==
    /\ \A i \in 1..Len(s) : s[i].id \in 1..Len(sn) /\ s[i] = sn[s[i].id]
    /\ \A i, j \in 1..Len(s) : i < j => s[i].id < s[j].id

SentIds == \A k \in 1..Len(sent) : sent[k].id = k

InboxTail ==
    /\ Len(inbox) <= Len(sent)
    /\ \A i \in 1..Len(inbox) : inbox[i] = sent[Front + i]

HeldMsg == Held => Front \in 1..Len(sent) /\ rdata = sent[Front]

Streams ==
    /\ StreamOK(input, sent) /\ StreamOK(readCh, sent)
    /\ \A i \in 1..Len(input), j \in 1..Len(readCh) : input[i].id < readCh[j].id

BelowFront ==
    /\ \A i \in 1..Len(input) : input[i].id <= Front /\ (Held => input[i].id < Front)
    /\ \A j \in 1..Len(readCh) : readCh[j].id <= Front /\ (Held => readCh[j].id < Front)

\* rw.ctx ends only through handleReads' deferred cancel or handleExec's
\* return; readCh is closed only by Close.
CtxDoneWhy == ctxDone => rpc \in {"exited", "panicked"} \/ spc = "returned"

ChClosedWhy == chClosed => spc \in {"closed", "returned"}

\* While the session reads, every keystroke taken off the socket is read,
\* buffered, or held by handleReads.
KeysOnTheWay ==
    spc = "run" =>
        \A k \in 1..Front : sent[k].kind = "key" =>
            Has(input, k) \/ Has(readCh, k) \/ (Held /\ k = Front)

NoKeyLost ==
    \A i \in 1..Len(input), k \in 1..Len(sent) :
        k < input[i].id /\ sent[k].kind = "key" => Has(input, k)

WInv ==
    /\ SentIds /\ InboxTail /\ HeldMsg /\ Streams /\ BelowFront
    /\ CtxDoneWhy /\ ChClosedWhy /\ KeysOnTheWay /\ NoKeyLost

LEMMA InitWInv == Init => WInv
  BY DEF Init, WInv, SentIds, InboxTail, HeldMsg, Streams, StreamOK, BelowFront,
         CtxDoneWhy, ChClosedWhy, KeysOnTheWay, NoKeyLost, Front, Held, Has

LEMMA StreamExtend ==
  ASSUME NEW s \in Seq(Msgs), NEW sn \in Seq(Msgs), NEW m, StreamOK(s, sn)
  PROVE  StreamOK(s, Append(sn, m))
  BY DEF StreamOK

LEMMA PeerSendWInv ==
  ASSUME TypeW, WInv, NEW c \in {"key", "resize"}, PeerSend(c)
  PROVE  WInv'
  <1> DEFINE m == [kind |-> c, id |-> Len(sent) + 1]
  <1>1. sent' = Append(sent, m) /\ inbox' = Append(inbox, m)
    BY DEF PeerSend
  <1>2. Front' = Front
    BY <1>1 DEF TypeW, DataOK, Front
  <1>3. UNCHANGED <<rpc, rdata, readCh, input, spc, ctxDone, chClosed>>
    BY DEF PeerSend
  <1>4. SentIds'
    BY <1>1 DEF WInv, SentIds, TypeW, DataOK
  <1>10. /\ Len(sent') = Len(sent) + 1 /\ sent'[Len(sent) + 1] = m
         /\ \A i \in 1..Len(sent) : sent'[i] = sent[i]
    BY <1>1 DEF TypeW, DataOK
  <1>5. InboxTail'
    <2>1. Len(inbox') <= Len(sent')
      BY <1>1 DEF WInv, InboxTail, TypeW, DataOK
    <2>2. SUFFICES ASSUME NEW i \in 1..Len(inbox') PROVE inbox'[i] = sent'[Front + i]
      BY <2>1, <1>2 DEF InboxTail
    <2>3. CASE i \in 1..Len(inbox)
      BY <2>3, <1>1, <1>10 DEF WInv, InboxTail, TypeW, DataOK, Front
    <2>4. CASE i = Len(inbox) + 1
      BY <2>4, <1>1, <1>10 DEF WInv, InboxTail, TypeW, DataOK, Front
    <2>5. Len(inbox') = Len(inbox) + 1
      BY <1>1 DEF TypeW, DataOK
    <2> QED
      BY <2>3, <2>4, <2>5 DEF TypeW, DataOK
  <1>6. Streams'
    BY <1>1, <1>3, StreamExtend DEF WInv, Streams, TypeW, DataOK
  <1>7. HeldMsg' /\ BelowFront' /\ CtxDoneWhy' /\ ChClosedWhy'
    BY <1>2, <1>3, <1>10 DEF WInv, HeldMsg, BelowFront, CtxDoneWhy, ChClosedWhy,
                           Held, TypeW, DataOK
  <1>8. KeysOnTheWay'
    <2> SUFFICES ASSUME spc' = "run", NEW k \in 1..Front', sent'[k].kind = "key"
                 PROVE  Has(input, k) \/ Has(readCh, k) \/ (Held /\ k = Front)
      BY <1>2, <1>3 DEF KeysOnTheWay, Has, Held
    <2>1. k \in 1..Len(sent) /\ k \in 1..Front
      BY <1>2 DEF WInv, InboxTail, Front, TypeW, DataOK
    <2> QED
      BY <2>1, <1>10, <1>3 DEF WInv, KeysOnTheWay
  <1>9. NoKeyLost'
    <2> SUFFICES ASSUME NEW i \in 1..Len(input), NEW k \in 1..Len(sent'),
                        k < input[i].id, sent'[k].kind = "key"
                 PROVE  Has(input, k)
      BY <1>3 DEF NoKeyLost, Has
    <2>1. k \in 1..Len(sent)
      BY DEF WInv, Streams, StreamOK, TypeW, DataOK
    <2> QED
      BY <2>1, <1>10 DEF WInv, NoKeyLost
  <1> QED
    BY <1>4, <1>5, <1>6, <1>7, <1>8, <1>9 DEF WInv

\* ReadMessage takes the next message off the socket.
LEMMA ReadMessageTakeWInv ==
  ASSUME TypeW, WInv, rpc = "read", inbox # <<>>,
         rdata' = Head(inbox), inbox' = Tail(inbox), rpc' = "dispatch",
         UNCHANGED <<sent, readCh, input, spc, ctxDone, chClosed>>
  PROVE  WInv'
  <1>1. Front' = Front + 1 /\ Front \in Nat /\ Front + 1 \in 1..Len(sent)
    BY DEF TypeW, DataOK, WInv, InboxTail, Front
  <1>2. ~Held /\ Held'
    BY DEF Held
  <1>3. InboxTail'
    <2>1. Len(inbox') <= Len(sent')
      BY DEF TypeW, DataOK, WInv, InboxTail
    <2>2. SUFFICES ASSUME NEW i \in 1..Len(inbox') PROVE inbox'[i] = sent'[Front' + i]
      BY <2>1 DEF InboxTail
    <2>3. inbox'[i] = inbox[i + 1] /\ i + 1 \in 1..Len(inbox)
      BY DEF TypeW, DataOK
    <2> QED
      BY <2>3, <1>1 DEF WInv, InboxTail
  <1>4. HeldMsg'
    BY <1>1 DEF WInv, InboxTail, HeldMsg, Held, TypeW, DataOK
  <1>5. Streams' /\ SentIds' /\ NoKeyLost' /\ ChClosedWhy'
    BY DEF WInv, Streams, SentIds, NoKeyLost, ChClosedWhy, Has
  <1>6. BelowFront'
    BY <1>1, <1>2 DEF WInv, BelowFront, Streams, StreamOK
  <1>7. CtxDoneWhy'
    BY DEF WInv, CtxDoneWhy
  <1>8. KeysOnTheWay'
    <2> SUFFICES ASSUME spc = "run", NEW k \in 1..Front', sent[k].kind = "key"
                 PROVE  Has(input, k) \/ Has(readCh, k) \/ (Held' /\ k = Front')
      BY DEF KeysOnTheWay, Has
    <2>1. CASE k = Front + 1
      BY <2>1, <1>1, <1>2
    <2>2. CASE k \in 1..Front
      BY <2>2, <1>2 DEF WInv, KeysOnTheWay
    <2> QED
      BY <2>1, <2>2, <1>1
  <1> QED
    BY <1>3, <1>4, <1>5, <1>6, <1>7, <1>8 DEF WInv

\* ReadMessage fails: handleReads exits and cancels rw.ctx.
LEMMA ReadMessageExitWInv ==
  ASSUME TypeW, WInv, rpc = "read", rpc' = "exited", ctxDone' = TRUE,
         UNCHANGED <<sent, inbox, rdata, readCh, input, spc, chClosed>>
  PROVE  WInv'
  <1>1. ~Held /\ ~Held' /\ Front' = Front
    BY DEF Held, Front
  <1>2. SentIds' /\ InboxTail' /\ HeldMsg' /\ Streams' /\ NoKeyLost' /\ ChClosedWhy'
    BY <1>1 DEF WInv, SentIds, InboxTail, HeldMsg, Streams, NoKeyLost, ChClosedWhy, Has
  <1>3. BelowFront' /\ CtxDoneWhy'
    BY <1>1 DEF WInv, BelowFront, CtxDoneWhy
  <1>4. KeysOnTheWay'
    BY <1>1 DEF WInv, KeysOnTheWay, Has
  <1> QED
    BY <1>2, <1>3, <1>4 DEF WInv

LEMMA ReadMessageWInv ==
  ASSUME TypeW, WInv, ReadMessage
  PROVE  WInv'
  <1>1. CASE ~connClosed /\ inbox # <<>> /\ rdata' = Head(inbox) /\ inbox' = Tail(inbox)
             /\ rpc' = "dispatch" /\ UNCHANGED <<ctxDone, doneClosed>>
    BY <1>1, ReadMessageTakeWInv DEF ReadMessage
  <1>2. CASE (connClosed \/ (peerClosed /\ inbox = <<>>)) /\ rpc' = "exited"
             /\ doneClosed' = TRUE /\ ctxDone' = TRUE /\ UNCHANGED <<inbox, rdata>>
    BY <1>2, ReadMessageExitWInv DEF ReadMessage
  <1> QED
    BY <1>1, <1>2 DEF ReadMessage

LEMMA StreamAppend ==
  ASSUME NEW s \in Seq(Msgs), NEW sn \in Seq(Msgs), StreamOK(s, sn),
         NEW n \in 1..Len(sn), sn[n].id = n,
         \A i \in 1..Len(s) : s[i].id < n
  PROVE  StreamOK(Append(s, sn[n]), sn)
  <1>1. \A i \in 1..Len(s) + 1 : Append(s, sn[n])[i] = IF i = Len(s) + 1 THEN sn[n] ELSE s[i]
    OBVIOUS
  <1>2. \A i \in 1..Len(s) + 1 :
           Append(s, sn[n])[i].id \in 1..Len(sn)
           /\ Append(s, sn[n])[i] = sn[Append(s, sn[n])[i].id]
    BY <1>1 DEF StreamOK
  <1>3. \A i, j \in 1..Len(s) + 1 : i < j => Append(s, sn[n])[i].id < Append(s, sn[n])[j].id
    BY <1>1 DEF StreamOK
  <1> QED
    BY <1>2, <1>3 DEF StreamOK

LEMMA DispatchWInv ==
  ASSUME TypeW, WInv, Dispatch
  PROVE  WInv'
  <1>1. UNCHANGED <<sent, inbox, rdata, readCh, input, spc, ctxDone, chClosed>> /\ Held
        /\ Front' = Front
    BY DEF Dispatch, Held, Front
  <1>2. CtxDoneWhy => (ctxDone => spc = "returned")
    BY DEF Dispatch, CtxDoneWhy
  <1>3. SentIds' /\ InboxTail' /\ Streams' /\ NoKeyLost' /\ ChClosedWhy'
    BY <1>1 DEF WInv, SentIds, InboxTail, Streams, NoKeyLost, ChClosedWhy, Has
  <1>4. CASE handlerSet /\ rdata.kind = "resize"
    <2>1. rpc' = "read" /\ ~Held'
      BY <1>4 DEF Dispatch, Held
    <2>2. HeldMsg' /\ CtxDoneWhy'
      BY <2>1, <1>1, <1>2 DEF WInv, HeldMsg, CtxDoneWhy
    <2>3. BelowFront'
      BY <2>1, <1>1 DEF WInv, BelowFront, Streams, StreamOK
    <2>4. KeysOnTheWay'
      BY <2>1, <1>1, <1>4 DEF WInv, KeysOnTheWay, HeldMsg, Has
    <2> QED
      BY <1>3, <2>2, <2>3, <2>4 DEF WInv
  <1>5. CASE ~(handlerSet /\ rdata.kind = "resize")
    <2>1. rpc' = "send" /\ Held'
      BY <1>5 DEF Dispatch, Held
    <2>2. HeldMsg' /\ CtxDoneWhy' /\ BelowFront' /\ KeysOnTheWay'
      BY <2>1, <1>1, <1>2 DEF WInv, HeldMsg, CtxDoneWhy, BelowFront, KeysOnTheWay, Has
    <2> QED
      BY <1>3, <2>2 DEF WInv
  <1> QED
    BY <1>4, <1>5

\* The select sends the held message into readCh.
LEMMA SendAppendWInv ==
  ASSUME TypeW, WInv, rpc = "send", readCh' = Append(readCh, rdata), rpc' = "read",
         UNCHANGED <<sent, inbox, rdata, input, spc, ctxDone, chClosed>>
  PROVE  WInv'
  <1>1. Held /\ ~Held' /\ Front' = Front
    BY DEF Held, Front
  <1>2. Front \in 1..Len(sent) /\ rdata = sent[Front] /\ sent[Front].id = Front
    BY <1>1 DEF WInv, HeldMsg, SentIds
  <1>3. StreamOK(readCh', sent')
    BY <1>1, <1>2, StreamAppend DEF WInv, Streams, BelowFront, TypeW, DataOK
  <1>4. \A i \in 1..Len(input), j \in 1..Len(readCh') : input'[i].id < readCh'[j].id
    BY <1>1, <1>2 DEF WInv, Streams, BelowFront, TypeW, DataOK
  <1>5. Streams'
    BY <1>3, <1>4 DEF WInv, Streams
  <1>6. BelowFront'
    BY <1>1, <1>2 DEF WInv, BelowFront, Streams, StreamOK, TypeW, DataOK
  <1>7. Has(readCh', Front)
    BY <1>2 DEF Has, TypeW, DataOK
  <1>8. \A k : Has(readCh, k) => Has(readCh', k)
    BY DEF Has, TypeW, DataOK
  <1>9. KeysOnTheWay'
    BY <1>1, <1>7, <1>8 DEF WInv, KeysOnTheWay, Has
  <1>10. SentIds' /\ InboxTail' /\ HeldMsg' /\ NoKeyLost' /\ ChClosedWhy' /\ CtxDoneWhy'
    BY <1>1 DEF WInv, SentIds, InboxTail, HeldMsg, NoKeyLost, ChClosedWhy, CtxDoneWhy, Has
  <1> QED
    BY <1>5, <1>6, <1>9, <1>10 DEF WInv

\* The select panics on the closed readCh or gives up on the done rw.ctx:
\* the session has stopped reading in both cases.
LEMMA SendDropWInv ==
  ASSUME TypeW, WInv, rpc = "send", chClosed \/ ctxDone, rpc' \in {"read", "panicked"},
         UNCHANGED <<sent, inbox, rdata, readCh, input, spc, ctxDone, chClosed>>
  PROVE  WInv'
  <1>1. Held /\ ~Held' /\ Front' = Front
    BY DEF Held, Front
  <1>2. spc # "run" /\ spc \in {"closed", "returned"}
    BY DEF WInv, ChClosedWhy, CtxDoneWhy
  <1>3. SentIds' /\ InboxTail' /\ HeldMsg' /\ Streams' /\ NoKeyLost' /\ ChClosedWhy'
    BY <1>1 DEF WInv, SentIds, InboxTail, HeldMsg, Streams, NoKeyLost, ChClosedWhy, Has
  <1>4. BelowFront'
    BY <1>1 DEF WInv, BelowFront
  <1>5. CtxDoneWhy'
    BY DEF WInv, CtxDoneWhy
  <1>6. KeysOnTheWay'
    BY <1>2 DEF KeysOnTheWay
  <1> QED
    BY <1>3, <1>4, <1>5, <1>6 DEF WInv

LEMMA SendToReadChWInv ==
  ASSUME TypeW, WInv, SendToReadCh
  PROVE  WInv'
  <1>1. CASE chClosed /\ rpc' = "panicked" /\ UNCHANGED readCh
    BY <1>1, SendDropWInv DEF SendToReadCh
  <1>2. CASE ~chClosed /\ readCh' = Append(readCh, rdata) /\ rpc' = "read"
    BY <1>2, SendAppendWInv DEF SendToReadCh
  <1>3. CASE ctxDone /\ rpc' = "read" /\ UNCHANGED readCh /\ ~chClosed
    BY <1>3, SendDropWInv DEF SendToReadCh
  <1>4. CASE ctxDone /\ rpc' = "read" /\ UNCHANGED readCh /\ chClosed
    \* Go may pick the ctx.Done case when the send case would panic too.
    BY <1>4, SendDropWInv DEF SendToReadCh
  <1> QED
    BY <1>1, <1>2, <1>3, <1>4 DEF SendToReadCh

LEMMA StreamTail ==
  ASSUME NEW s \in Seq(Msgs), NEW sn \in Seq(Msgs), StreamOK(s, sn), s # <<>>
  PROVE  StreamOK(Tail(s), sn)
  BY DEF StreamOK

\* The session's Read returns the first buffered message.
LEMMA ReadTakeWInv ==
  ASSUME TypeW, WInv, spc = "run", readCh # <<>>,
         input' = Append(input, Head(readCh)), readCh' = Tail(readCh),
         UNCHANGED <<sent, inbox, rdata, rpc, spc, ctxDone, chClosed>>
  PROVE  WInv'
  <1> DEFINE n == readCh[1].id
  <1>1. Held' = Held /\ Front' = Front
    BY DEF Held, Front
  <1>2. n \in 1..Len(sent) /\ Head(readCh) = sent[n] /\ sent[n].id = n
    BY DEF WInv, Streams, StreamOK, SentIds, TypeW, DataOK
  <1>3. \A i \in 1..Len(input) : input[i].id < n
    <2>1. 1 \in 1..Len(readCh)
      BY DEF TypeW, DataOK
    <2>2. \A i \in 1..Len(input), j \in 1..Len(readCh) : input[i].id < readCh[j].id
      BY DEF WInv, Streams
    <2> QED
      BY <2>1, <2>2
  <1>4. \A j \in 2..Len(readCh) : n < readCh[j].id
    <2> SUFFICES ASSUME NEW j \in 2..Len(readCh) PROVE n < readCh[j].id
      OBVIOUS
    <2>1. 1 \in 1..Len(readCh) /\ j \in 1..Len(readCh) /\ 1 < j
      BY DEF TypeW, DataOK
    <2>2. \A a, b \in 1..Len(readCh) : a < b => readCh[a].id < readCh[b].id
      BY DEF WInv, Streams, StreamOK
    <2> QED
      BY <2>1, <2>2
  <1>5. StreamOK(input', sent')
    BY <1>2, <1>3, StreamAppend DEF WInv, Streams, TypeW, DataOK
  <1>6. StreamOK(readCh', sent')
    BY StreamTail DEF WInv, Streams, TypeW, DataOK
  <1>7. \A i \in 1..Len(input'), j \in 1..Len(readCh') : input'[i].id < readCh'[j].id
    BY <1>4 DEF WInv, Streams, TypeW, DataOK
  <1>8. Streams'
    BY <1>5, <1>6, <1>7 DEF Streams
  <1>9. BelowFront'
    BY <1>1, <1>2 DEF WInv, BelowFront, TypeW, DataOK
  <1>10. \A k : Has(input, k) \/ Has(readCh, k) => Has(input', k) \/ Has(readCh', k)
    <2> SUFFICES ASSUME NEW k, Has(input, k) \/ Has(readCh, k)
                 PROVE  Has(input', k) \/ Has(readCh', k)
      OBVIOUS
    <2>1. CASE Has(input, k)
      BY <2>1 DEF Has, TypeW, DataOK
    <2>2. CASE \E j \in 2..Len(readCh) : readCh[j].id = k
      <3>1. PICK j \in 2..Len(readCh) : readCh[j].id = k
        BY <2>2
      <3>2. j - 1 \in 1..Len(readCh') /\ readCh'[j - 1] = readCh[j]
        BY DEF TypeW, DataOK
      <3> QED
        BY <3>1, <3>2 DEF Has
    <2>3. CASE readCh[1].id = k
      BY <2>3 DEF Has, TypeW, DataOK
    <2> QED
      BY <2>1, <2>2, <2>3 DEF Has, TypeW, DataOK
  <1>11. KeysOnTheWay'
    BY <1>1, <1>10 DEF WInv, KeysOnTheWay
  <1>12. NoKeyLost'
    <2> SUFFICES ASSUME NEW i \in 1..Len(input'), NEW k \in 1..Len(sent),
                        k < input'[i].id, sent[k].kind = "key"
                 PROVE  Has(input', k)
      BY DEF NoKeyLost
    <2>1. CASE i \in 1..Len(input)
      BY <2>1 DEF WInv, NoKeyLost, Has, TypeW, DataOK
    <2>2. CASE i = Len(input) + 1
      <3>1. k < n /\ n <= Front /\ (Held => n < Front)
        BY <2>2 DEF WInv, BelowFront, TypeW, DataOK
      <3>2. Has(input, k) \/ Has(readCh, k) \/ (Held /\ k = Front)
        <4>1. k \in 1..Front
          BY <3>1, <1>2 DEF Front, TypeW, DataOK
        <4> QED
          BY <4>1 DEF WInv, KeysOnTheWay
      <3>3. ~Has(readCh, k)
        <4> SUFFICES ASSUME NEW j \in 1..Len(readCh), readCh[j].id = k PROVE FALSE
          BY DEF Has
        <4>1. CASE j = 1
          BY <4>1, <3>1
        <4>2. CASE j \in 2..Len(readCh)
          BY <4>2, <3>1, <1>2, <1>4
        <4> QED
          BY <4>1, <4>2
      <3>4. ~(Held /\ k = Front)
        BY <3>1, <1>2
      <3>4a. Has(input, k)
        BY <3>2, <3>3, <3>4
      <3> QED
        BY <3>4a DEF Has, TypeW, DataOK
    <2> QED
      BY <2>1, <2>2 DEF TypeW, DataOK
  <1>13. SentIds' /\ InboxTail' /\ HeldMsg' /\ ChClosedWhy' /\ CtxDoneWhy'
    BY <1>1 DEF WInv, SentIds, InboxTail, HeldMsg, ChClosedWhy, CtxDoneWhy
  <1> QED
    BY <1>8, <1>9, <1>11, <1>12, <1>13 DEF WInv

LEMMA ReadWInv ==
  ASSUME TypeW, WInv, Read
  PROVE  WInv'
  <1>1. CASE readCh # <<>> /\ input' = Append(input, Head(readCh)) /\ readCh' = Tail(readCh)
             /\ UNCHANGED spc
    BY <1>1, ReadTakeWInv DEF Read
  <1>2. CASE ctxDone /\ spc' = "eof" /\ UNCHANGED <<readCh, input>>
    BY <1>2 DEF Read, WInv, SentIds, InboxTail, HeldMsg, Streams, BelowFront, CtxDoneWhy,
                ChClosedWhy, KeysOnTheWay, NoKeyLost, Front, Held, Has
  <1> QED
    BY <1>1, <1>2 DEF Read

\* Steps that set flags, or end the session: Close and Return stop Read
\* for good, and Close runs before the request context ends.
LEMMA OtherWInv ==
  ASSUME WInv, PeerClose \/ SetReadHandler \/ Write \/ Close \/ Return
  PROVE  WInv'
  <1> USE DEF WInv, SentIds, InboxTail, HeldMsg, Streams, BelowFront, CtxDoneWhy,
              ChClosedWhy, KeysOnTheWay, NoKeyLost, Front, Held, Has
  <1>1. CASE PeerClose
    BY <1>1 DEF PeerClose
  <1>4. CASE SetReadHandler
    BY <1>4 DEF SetReadHandler
  <1>5. CASE Write
    BY <1>5 DEF Write
  <1>2. CASE Close
    BY <1>2 DEF Close
  <1>3. CASE Return
    BY <1>3 DEF Return
  <1> QED
    BY <1>1, <1>2, <1>3, <1>4, <1>5

LEMMA NextWInv == TypeW /\ WInv /\ [Next]_vars => WInv'
  <1> SUFFICES ASSUME TypeW, WInv, [Next]_vars PROVE WInv'
    OBVIOUS
  <1>1. ASSUME NEW k \in {"key", "resize"}, PeerSend(k) PROVE WInv'
    BY <1>1, PeerSendWInv
  <1>2. CASE ReadMessage
    BY <1>2, ReadMessageWInv
  <1>3. CASE Dispatch
    BY <1>3, DispatchWInv
  <1>4. CASE SendToReadCh
    BY <1>4, SendToReadChWInv
  <1>5. CASE Read
    BY <1>5, ReadWInv
  <1>6. CASE PeerClose \/ SetReadHandler \/ Write \/ Close \/ Return
    BY <1>6, OtherWInv
  <1>7. CASE UNCHANGED vars
    BY <1>7 DEF vars, WInv, SentIds, InboxTail, HeldMsg, Streams, BelowFront,
                CtxDoneWhy, ChClosedWhy, KeysOnTheWay, NoKeyLost, Front, Held, Has
  <1> QED
    BY <1>1, <1>2, <1>3, <1>4, <1>5, <1>6, <1>7 DEF Next

LEMMA WInvKeys == WInv => KeystrokesByPosition
  BY DEF WInv, Streams, StreamOK, NoKeyLost, KeystrokesByPosition, ReadAt, Has

\* The command reads the browser's keystrokes in the order they were typed,
\* once each, and none is lost before one it read, for every readCh
\* capacity and message bound: handleReads forwards messages in socket
\* order, its select drops one only once rw.ctx is done (after it exited
\* or handleExec returned, when Read is over), and Read takes readCh in
\* order (websocketutil.go handleReads and Read).
THEOREM KeystrokesByPositionHolds == Spec => []KeystrokesByPosition
  <1>1. Init => TypeW /\ WInv
    BY InitTypeW, InitWInv
  <1>2. TypeW /\ WInv /\ [Next]_vars => (TypeW /\ WInv)'
    BY NextTypeW, NextWInv
  <1> QED
    BY <1>1, <1>2, WInvKeys, PTL DEF Spec

=============================================================================

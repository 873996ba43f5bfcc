---------------------------- MODULE WebSocketConn ----------------------------
(***************************************************************************)
(* websocketutil.ConnReadWriter as the /api/v0/exec terminal handler uses  *)
(* it (api handleExec, tty mode): the handleReads goroutine pumps          *)
(* messages from the WebSocket into the buffered channel readCh, the       *)
(* command session reads its stdin from readCh (Read) and writes its      *)
(* output to the socket (Write), a read handler installed after the pump  *)
(* has started swallows terminal-resize messages, and when the command    *)
(* ends the deferred Close closes the socket and readCh.  The browser     *)
(* sends keystrokes and resize messages and may close the socket.         *)
(***************************************************************************)
EXTENDS Naturals, Sequences

CONSTANTS
    ReadChCap,   \* capacity of readCh (16 in the code)
    MaxMsgs      \* bound on the messages the browser sends (model bound)

\* At least one message, so that the placeholder rdata of Init (handleReads
\* has read nothing yet) is a message.
ASSUME WebSocketAssumption == ReadChCap \in Nat \ {0} /\ MaxMsgs \in Nat \ {0}

\* A browser message: a keystroke or a resize request, numbered in sending
\* order.
Msgs == [kind : {"key", "resize"}, id : 1..MaxMsgs]

VARIABLES
    sent,         \* every message the browser sent, in order
    inbox,        \* messages on the socket not yet returned by ReadMessage
    peerClosed,   \* the browser closed the socket
    connClosed,   \* Close has closed the socket on our side
    rpc,          \* handleReads: "read", "dispatch", "send", "exited", "panicked"
    rdata,        \* the message handleReads holds between ReadMessage and the send
    readCh,       \* contents of the readCh buffer
    chClosed,     \* readCh has been closed
    ctxDone,      \* rw.ctx is cancelled
    doneClosed,   \* DoneCh has been closed (doneOnce fired)
    handlerSet,   \* SetReadHandler has installed the resize handler
    spc,          \* the session: "run", "eof" (Read returned io.EOF), "closed", "returned"
    input         \* what the session's Read calls returned, in order

vars == <<sent, inbox, peerClosed, connClosed, rpc, rdata, readCh, chClosed,
          ctxDone, doneClosed, handlerSet, spc, input>>

TypeOK ==
    /\ sent \in Seq(Msgs) /\ inbox \in Seq(Msgs)
    /\ readCh \in Seq(Msgs) /\ Len(readCh) <= ReadChCap
    /\ input \in Seq(Msgs) /\ rdata \in Msgs
    /\ rpc \in {"read", "dispatch", "send", "exited", "panicked"}
    /\ spc \in {"run", "eof", "closed", "returned"}
    /\ {peerClosed, connClosed, chClosed, ctxDone, doneClosed, handlerSet} \subseteq BOOLEAN

\* NewConnReadWriteCloser has started handleReads.
Init ==
    /\ sent = <<>> /\ inbox = <<>>
    /\ peerClosed = FALSE /\ connClosed = FALSE
    /\ rpc = "read" /\ rdata = [kind |-> "key", id |-> 1]
    /\ readCh = <<>> /\ chClosed = FALSE
    /\ ctxDone = FALSE /\ doneClosed = FALSE
    /\ handlerSet = FALSE
    /\ spc = "run" /\ input = <<>>

\* The browser sends a keystroke or a resize request.
PeerSend(k) ==
    /\ ~peerClosed
    /\ Len(sent) < MaxMsgs
    /\ LET m == [kind |-> k, id |-> Len(sent) + 1] IN
       /\ sent' = Append(sent, m)
       /\ inbox' = Append(inbox, m)
    /\ UNCHANGED <<peerClosed, connClosed, rpc, rdata, readCh, chClosed, ctxDone,
                   doneClosed, handlerSet, spc, input>>

\* The browser closes the socket (tab closed, network gone).
PeerClose ==
    /\ ~peerClosed
    /\ peerClosed' = TRUE
    /\ UNCHANGED <<sent, inbox, connClosed, rpc, rdata, readCh, chClosed, ctxDone,
                   doneClosed, handlerSet, spc, input>>

\* Mutant: handleReads returns without its deferred cancel.
ReadMessage_NoCancel ==
    /\ rpc = "read"
    /\ \/ /\ ~connClosed
          /\ inbox # <<>>
          /\ rdata' = Head(inbox)
          /\ inbox' = Tail(inbox)
          /\ rpc' = "dispatch"
          /\ UNCHANGED <<ctxDone, doneClosed>>
       \/ /\ connClosed \/ (peerClosed /\ inbox = <<>>)
          /\ rpc' = "exited"
          /\ doneClosed' = TRUE
          /\ UNCHANGED <<inbox, rdata, ctxDone>>
    /\ UNCHANGED <<sent, peerClosed, connClosed, readCh, chClosed, handlerSet, spc, input>>

\* Mutant: a message is returned without being taken off the socket.
ReadMessage_NoAdvance ==
    /\ rpc = "read"
    /\ \/ /\ ~connClosed
          /\ inbox # <<>>
          /\ rdata' = Head(inbox)
          /\ rpc' = "dispatch"
          /\ UNCHANGED <<inbox, ctxDone, doneClosed>>
       \/ /\ connClosed \/ (peerClosed /\ inbox = <<>>)
          /\ rpc' = "exited"
          /\ doneClosed' = TRUE
          /\ ctxDone' = TRUE
          /\ UNCHANGED <<inbox, rdata>>
    /\ UNCHANGED <<sent, peerClosed, connClosed, readCh, chClosed, handlerSet, spc, input>>

\* handleReads: ReadMessage returns the next message, or fails once the
\* socket is closed here or the browser's close is reached; on failure
\* doneOnce sends the error on DoneCh and closes it, and the deferred
\* cancel ends rw.ctx.
ReadMessage ==
    /\ rpc = "read"
    /\ \/ /\ ~connClosed
          /\ inbox # <<>>
          /\ rdata' = Head(inbox)
          /\ inbox' = Tail(inbox)
          /\ rpc' = "dispatch"
          /\ UNCHANGED <<ctxDone, doneClosed>>
       \/ /\ connClosed \/ (peerClosed /\ inbox = <<>>)
          /\ rpc' = "exited"
          /\ doneClosed' = TRUE
          /\ ctxDone' = TRUE
          /\ UNCHANGED <<inbox, rdata>>
    /\ UNCHANGED <<sent, peerClosed, connClosed, readCh, chClosed, handlerSet, spc, input>>

\* handleReads: the read handler, read without handlerMu, swallows a
\* resize message once it is installed.
Dispatch ==
    /\ rpc = "dispatch"
    /\ rpc' = IF handlerSet /\ rdata.kind = "resize" THEN "read" ELSE "send"
    /\ UNCHANGED <<sent, inbox, peerClosed, connClosed, rdata, readCh, chClosed,
                   ctxDone, doneClosed, handlerSet, spc, input>>

\* handleReads: select between sending on readCh and rw.ctx being done.
\* A send on the closed readCh panics: Go picks it whenever it is one of
\* the ready cases, ctx.Done or not.
SendToReadCh ==
    /\ rpc = "send"
    /\ \/ /\ chClosed
          /\ rpc' = "panicked"
          /\ UNCHANGED readCh
       \/ /\ ~chClosed
          /\ Len(readCh) < ReadChCap
          /\ readCh' = Append(readCh, rdata)
          /\ rpc' = "read"
       \/ /\ ctxDone
          /\ rpc' = "read"
          /\ UNCHANGED readCh
    /\ UNCHANGED <<sent, inbox, peerClosed, connClosed, rdata, chClosed, ctxDone,
                   doneClosed, handlerSet, spc, input>>

\* handleExec installs the resize handler after the pump has started.
SetReadHandler ==
    /\ ~handlerSet
    /\ handlerSet' = TRUE
    /\ UNCHANGED <<sent, inbox, peerClosed, connClosed, rpc, rdata, readCh, chClosed,
                   ctxDone, doneClosed, spc, input>>

\* Read: io.EOF once rw.ctx is done, else the next buffered message.
Read ==
    /\ spc = "run"
    /\ \/ /\ ctxDone
          /\ spc' = "eof"
          /\ UNCHANGED <<readCh, input>>
       \/ /\ readCh # <<>>
          /\ input' = Append(input, Head(readCh))
          /\ readCh' = Tail(readCh)
          /\ UNCHANGED spc
    /\ UNCHANGED <<sent, inbox, peerClosed, connClosed, rpc, rdata, chClosed, ctxDone,
                   doneClosed, handlerSet>>

\* Write: the command's output; WriteMessage fails on a closed socket and
\* doneOnce closes DoneCh, on which handleExec cancels the session.
Write ==
    /\ spc \in {"run", "eof"}
    /\ ~ctxDone
    /\ connClosed \/ peerClosed
    /\ ~doneClosed
    /\ doneClosed' = TRUE
    /\ UNCHANGED <<sent, inbox, peerClosed, connClosed, rpc, rdata, readCh, chClosed,
                   ctxDone, handlerSet, spc, input>>

\* The command ends (it exited, its stdin reached EOF, or its context was
\* cancelled through DoneCh) and the deferred Close runs: conn.Close, then
\* close(readCh).
Close ==
    /\ spc \in {"run", "eof"}
    /\ connClosed' = TRUE
    /\ chClosed' = TRUE
    /\ spc' = "closed"
    /\ UNCHANGED <<sent, inbox, peerClosed, rpc, rdata, readCh, ctxDone, doneClosed,
                   handlerSet, input>>

\* handleExec returns and the request context, rw.ctx's parent, ends.
Return ==
    /\ spc = "closed"
    /\ spc' = "returned"
    /\ ctxDone' = TRUE
    /\ UNCHANGED <<sent, inbox, peerClosed, connClosed, rpc, rdata, readCh, chClosed,
                   doneClosed, handlerSet, input>>

Next ==
    \/ \E k \in {"key", "resize"} : PeerSend(k)
    \/ PeerClose
    \/ ReadMessage \/ Dispatch \/ SendToReadCh
    \/ SetReadHandler \/ Read \/ Write \/ Close \/ Return

\* Every goroutine that can run does (the Go scheduler); the command's
\* exit, its output and the browser's actions are not forced.
Fairness ==
    /\ WF_vars(ReadMessage) /\ WF_vars(Dispatch) /\ WF_vars(SendToReadCh)
    /\ WF_vars(SetReadHandler) /\ WF_vars(Read) /\ WF_vars(Return)

Spec == Init /\ [][Next]_vars

FairSpec == Spec /\ Fairness

-----------------------------------------------------------------------------
(* Properties.                                                              *)

Keys(s) == SelectSeq(s, LAMBDA m : m.kind = "key")

\* The command reads the browser's keystrokes exactly once each and in the
\* order they were typed: the keystrokes it has read are a prefix of those
\* sent, whatever the buffering, the dropped sends and the handler race.
KeystrokesInOrder ==
    LET k == Keys(input) IN
    /\ Len(k) <= Len(Keys(sent))
    /\ k = SubSeq(Keys(sent), 1, Len(k))

\* The session has read the message sent at position k.
ReadAt(k) == \E j \in 1..Len(input) : input[j].id = k

\* KeystrokesInOrder stated by positions in what the browser sent: every
\* message the command read is the one sent at its position, they come in
\* sending order, once each, and no keystroke sent before one it read was
\* lost on the way (dropped by handleReads' select or by the pump).
KeystrokesByPosition ==
    /\ \A i \in 1..Len(input) :
          input[i].id \in 1..Len(sent) /\ input[i] = sent[input[i].id]
    /\ \A i, j \in 1..Len(input) : i < j => input[i].id < input[j].id
    /\ \A i \in 1..Len(input), k \in 1..Len(sent) :
          k < input[i].id /\ sent[k].kind = "key" => ReadAt(k)

\* Closing the browser tab ends the command's input: once the browser has
\* closed the socket, the session's Read returns io.EOF (or the session
\* has already ended).
PeerCloseEndsInput ==
    peerClosed ~> spc # "run"

\* handleReads never sends on the closed readCh (a panic in that goroutine
\* ends the whole catch process).
NoSendOnClosedChannel ==
    rpc # "panicked"

\* A resize request never reaches the command as terminal input.
ResizeNeverInput ==
    \A i \in 1..Len(input) : input[i].kind = "key"
=============================================================================

--------------------------- MODULE WebsocketProxy ---------------------------
(***************************************************************************)
(* One upgraded connection of the REST proxy: upgradeToWebSocketProxy.     *)
(*                                                                         *)
(* Five goroutines and the handler itself, tied together by one context    *)
(* that each of them cancels when it ends: the read loop takes messages    *)
(* off the socket into a channel of capacity 1, the forward loop writes    *)
(* them into the request pipe, the backend (grpc-gateway) reads them there *)
(* and writes its responses into the response pipe, the handler scans that *)
(* pipe and writes to the socket, and the closer waits for the context and *)
(* closes both pipes. The ping loop only acts on the socket's deadlines: a *)
(* read has one from the start, a write only after the first pong.         *)
(*                                                                         *)
(* An io.Pipe has no buffer: a write waits for its reader. The scanner has *)
(* one of MaxWsMsgSize bytes: what it has read it still returns after the  *)
(* pipe was closed, and a response that does not fit ends the write loop.  *)
(*                                                                         *)
(* Messages are counted, not kept. Client, socket and backend are outside  *)
(* this code. A client that stalls never reads again: one that does, in    *)
(* time, is a slow one.                                                    *)
(***************************************************************************)
EXTENDS Naturals

CONSTANTS
  PingPong,          \* pingPongEnabled: reads of the socket have a deadline
  MaxMessages,       \* bound: messages the client sends
  MaxResponses       \* bound: responses of the backend

ASSUME ProxyAssumption ==
  /\ PingPong \in BOOLEAN
  /\ MaxMessages \in Nat /\ MaxResponses \in Nat

VARIABLES
  clientStreaming,     \* the URI is one of clientStreamingURIs
  clientSent, inbox,   \* messages the client sent, and those not read yet
  clientQuit,          \* the client closed the connection or went away
  clientStalled,       \* it reads nothing more and the socket's buffer is full
  ponged,              \* a pong came: writes to the socket have a deadline too
  readDead,            \* no pong in time: the socket's deadline passed
  socketClosed,        \* the deferred conn.Close() ran
  ctxDone,             \* the request's context is canceled
  reader,              \* read loop
  payloads, payloadsClosed,   \* payloadChannel
  forwarder,           \* forward loop
  requestClosed,       \* requestForwarder.CloseWriter() was called
  backend,             \* p.backend.ServeHTTP
  received,            \* messages it read
  serverQuit,          \* it ended a live request by itself
  produced, pending,   \* responses, and the one it is writing
  oversized,           \* that one is longer than the scanner's buffer
  responseClosed,      \* responseForwarder.Close() was called
  scanned,             \* the response in the scanner's buffer
  handler,             \* write loop and deferred calls of the handler
  writeTimed,          \* the write to the socket that goes on has a deadline
  delivered,           \* responses written to the socket
  closer

client == <<clientStreaming, clientSent, inbox, clientQuit, clientStalled,
            ponged, readDead>>
reading == <<reader, payloads, payloadsClosed>>
request == <<forwarder, requestClosed, received>>
serving == <<backend, serverQuit, produced, pending, oversized>>
writing == <<scanned, handler, writeTimed, delivered, socketClosed>>
closing == <<closer, responseClosed>>
vars == <<client, reading, request, serving, writing, closing, ctxDone>>

Init ==
  /\ clientStreaming \in BOOLEAN
  /\ clientSent = 0 /\ inbox = 0 /\ clientQuit = FALSE /\ readDead = FALSE
  /\ clientStalled = FALSE /\ ponged = FALSE
  /\ reader = "top" /\ payloads = 0 /\ payloadsClosed = FALSE
  /\ forwarder = "waiting" /\ requestClosed = FALSE /\ received = 0
  /\ backend \in IF clientStreaming THEN {"serving"} ELSE {"reading", "serving"}
  /\ serverQuit = FALSE /\ produced = 0 /\ pending = 0 /\ oversized = FALSE
  /\ scanned = 0 /\ handler = "scanning" /\ writeTimed = FALSE /\ delivered = 0
  /\ socketClosed = FALSE
  /\ closer = "waiting" /\ responseClosed = FALSE
  /\ ctxDone = FALSE

-----------------------------------------------------------------------------
(* The client and its connection. *)

ClientSends ==
  /\ ~clientQuit /\ ~socketClosed
  /\ clientSent < MaxMessages
  /\ clientSent' = clientSent + 1
  /\ inbox' = inbox + 1
  /\ UNCHANGED <<clientStreaming, clientQuit, clientStalled, ponged, readDead,
                 reading, request, serving, writing, closing, ctxDone>>

ClientQuits ==
  /\ ~clientQuit /\ ~socketClosed
  /\ clientQuit' = TRUE
  /\ UNCHANGED <<clientStreaming, clientSent, inbox, clientStalled, ponged,
                 readDead, reading, request, serving, writing, closing, ctxDone>>

ClientStalls ==
  /\ ~clientQuit /\ ~clientStalled /\ ~socketClosed
  /\ clientStalled' = TRUE
  /\ UNCHANGED <<clientStreaming, clientSent, inbox, clientQuit, ponged,
                 readDead, reading, request, serving, writing, closing, ctxDone>>

\* The pong handler runs inside the read loop's ReadMessage, and puts off the
\* deadline of reads and that of writes.
PongArrives ==
  /\ PingPong /\ reader = "reading"
  /\ ~clientQuit /\ ~readDead /\ ~socketClosed
  /\ ponged' = TRUE
  /\ UNCHANGED <<clientStreaming, clientSent, inbox, clientQuit, clientStalled,
                 readDead, reading, request, serving, writing, closing, ctxDone>>

\* No pong for the ping interval and the wait: reads of the socket fail from now
\* on, and writes as well, if they have a deadline.
PongMissing ==
  /\ PingPong /\ ~readDead /\ ~socketClosed
  /\ readDead' = TRUE
  /\ UNCHANGED <<clientStreaming, clientSent, inbox, clientQuit, clientStalled,
                 ponged, reading, request, serving, writing, closing, ctxDone>>

-----------------------------------------------------------------------------
(* Read loop. Its two deferred calls close the channel, then cancel.        *)

ReaderGoesOn ==
  /\ reader = "top"
  /\ reader' = IF ctxDone THEN "closing" ELSE "reading"
  /\ UNCHANGED <<client, payloads, payloadsClosed, request, serving, writing,
                 closing, ctxDone>>

ReadMessage ==
  /\ reader = "reading"
  /\ inbox > 0 /\ ~readDead /\ ~socketClosed
  /\ inbox' = inbox - 1
  /\ reader' = "putting"
  /\ UNCHANGED <<clientStreaming, clientSent, clientQuit, clientStalled, ponged,
                 readDead, payloads, payloadsClosed, request, serving, writing,
                 closing, ctxDone>>

ReadFails ==
  /\ reader = "reading"
  /\ clientQuit \/ readDead \/ socketClosed
  /\ reader' = "closing"
  /\ UNCHANGED <<client, payloads, payloadsClosed, request, serving, writing,
                 closing, ctxDone>>

\* Mutant: a message that finds the channel full is dropped.
PutPayloadOrDrop ==
  /\ reader = "putting"
  /\ payloads' = 1 /\ reader' = "top"
  /\ UNCHANGED <<client, payloadsClosed, request, serving, writing, closing,
                 ctxDone>>

\* Mutant: the read loop is over when it has read one message.
PutPayloadOnce ==
  /\ reader = "putting"
  /\ payloads = 0 /\ payloads' = 1 /\ reader' = "closing"
  /\ UNCHANGED <<client, payloadsClosed, request, serving, writing, closing,
                 ctxDone>>

PutPayload ==
  /\ reader = "putting"
  /\ \/ payloads = 0 /\ payloads' = 1 /\ reader' = "top"
     \/ ctxDone /\ reader' = "closing" /\ UNCHANGED payloads
  /\ UNCHANGED <<client, payloadsClosed, request, serving, writing, closing,
                 ctxDone>>

ReaderEnds ==
  /\ reader = "closing"
  /\ IF payloadsClosed
     THEN reader' = "done" /\ ctxDone' = TRUE /\ UNCHANGED payloadsClosed
     ELSE payloadsClosed' = TRUE /\ UNCHANGED <<reader, ctxDone>>
  /\ UNCHANGED <<client, payloads, request, serving, writing, closing>>

Reader == ReaderGoesOn \/ ReadMessage \/ ReadFails \/ PutPayload \/ ReaderEnds

-----------------------------------------------------------------------------
(* Forward loop. *)

TakePayload ==
  /\ forwarder = "waiting"
  /\ payloads = 1
  /\ payloads' = 0
  /\ forwarder' = "writing"
  /\ UNCHANGED <<client, reader, payloadsClosed, requestClosed, received,
                 serving, writing, closing, ctxDone>>

ForwarderEnds ==
  /\ \/ forwarder = "waiting" /\ (ctxDone \/ (payloadsClosed /\ payloads = 0))
     \/ forwarder = "writing" /\ requestClosed
  /\ forwarder' = "done"
  /\ ctxDone' = TRUE
  /\ UNCHANGED <<client, reading, requestClosed, received, serving, writing,
                 closing>>

\* A backend that serves reads on only what a client streams. One that serves
\* from the start has a method without a body, and never reads.
ReadsBody == backend = "reading" \/ (backend = "serving" /\ clientStreaming)

\* Mutant: the pipe stays open after the single message.
WriteRequestLeavesOpen ==
  /\ forwarder = "writing" /\ ~requestClosed
  /\ ReadsBody
  /\ received' = received + 1
  /\ forwarder' = "waiting"
  /\ UNCHANGED <<client, reading, requestClosed, serving, writing, closing,
                 ctxDone>>

\* The backend reads what the forward loop writes. Unless the client streams,
\* the end of the body follows.
WriteRequest ==
  /\ forwarder = "writing" /\ ~requestClosed
  /\ ReadsBody
  /\ received' = received + 1
  /\ forwarder' = "waiting"
  /\ requestClosed' = ~clientStreaming
  /\ UNCHANGED <<client, reading, serving, writing, closing, ctxDone>>

Forwarder == TakePayload \/ ForwarderEnds \/ WriteRequest

-----------------------------------------------------------------------------
(* The backend: grpc-gateway in front of the RPC.                           *)

\* A body that does not stream is read to its end before the RPC is called.
BodyRead ==
  /\ backend = "reading" /\ requestClosed
  /\ backend' = "serving"
  /\ UNCHANGED <<client, reading, request, serverQuit, produced, pending,
                 oversized, writing, closing, ctxDone>>

Respond ==
  /\ backend = "serving" /\ pending = 0
  /\ produced < MaxResponses
  /\ produced' = produced + 1
  /\ pending' = 1
  /\ oversized' = oversized \/ oversized' = TRUE
  /\ UNCHANGED <<client, reading, request, backend, serverQuit, writing,
                 closing, ctxDone>>

\* ServeHTTP returns, because the RPC is over or its context is, or a write
\* failed on the closed pipe; the deferred cancelFn runs.
BackendReturns ==
  /\ \/ backend = "serving" /\ pending = 0
     \/ backend = "reading" /\ ctxDone
     \/ pending = 1 /\ responseClosed
  /\ backend # "returned"
  /\ backend' = "returned"
  /\ serverQuit' = ~ctxDone
  /\ ctxDone' = TRUE
  /\ UNCHANGED <<client, reading, request, produced, pending, oversized,
                 writing, closing>>

Backend == BodyRead \/ Respond \/ BackendReturns

-----------------------------------------------------------------------------
(* Write loop and the handler's end. *)

\* The scanner has nothing to return and reads: the backend's write is done.
ScannerReads ==
  /\ handler = "scanning" /\ scanned = 0
  /\ pending = 1 /\ ~oversized /\ ~responseClosed
  /\ pending' = 0
  /\ scanned' = 1
  /\ UNCHANGED <<client, reading, request, backend, serverQuit, produced,
                 oversized, handler, writeTimed, delivered, socketClosed,
                 closing, ctxDone>>

\* The response fills the scanner's buffer: Scan returns false. The backend's
\* write waits on, unless the response just fits and only its end is missing.
ScanTooLong ==
  /\ handler = "scanning" /\ scanned = 0
  /\ pending = 1 /\ oversized /\ ~responseClosed
  /\ handler' = "returning"
  /\ pending' \in {0, 1}
  /\ UNCHANGED <<client, reading, request, backend, serverQuit, produced,
                 oversized, scanned, writeTimed, delivered, socketClosed,
                 closing, ctxDone>>

\* A write has the deadline that the last pong has set. If the client does not
\* read, a ping may have failed before, and then the write fails at once.
WriteStarts ==
  /\ handler = "scanning" /\ scanned = 1
  /\ handler' = "writing"
  /\ \/ writeTimed' = ponged
     \/ PingPong /\ clientStalled /\ writeTimed' = TRUE
  /\ UNCHANGED <<client, reading, request, serving, scanned, delivered,
                 socketClosed, closing, ctxDone>>

\* The client is gone, or it took longer than the write had.
WriteFails ==
  /\ handler = "writing"
  /\ clientQuit \/ (writeTimed /\ (clientStalled \/ readDead))
  /\ handler' = "returning" /\ writeTimed' = FALSE
  /\ UNCHANGED <<client, reading, request, serving, scanned, delivered,
                 socketClosed, closing, ctxDone>>

\* Mutant: like every other loop, this one looks at the context first.
WriteMessageUnlessDone ==
  /\ handler = "writing" /\ ~clientStalled
  /\ IF ctxDone
     THEN handler' = "returning" /\ UNCHANGED <<scanned, delivered>>
     ELSE handler' = "scanning" /\ scanned' = 0 /\ delivered' = delivered + 1
  /\ writeTimed' = FALSE
  /\ UNCHANGED <<client, reading, request, serving, socketClosed, closing,
                 ctxDone>>

\* A write to a client that has quit may still succeed.
WriteMessage ==
  /\ handler = "writing" /\ ~clientStalled
  /\ handler' = "scanning" /\ writeTimed' = FALSE
  /\ scanned' = 0
  /\ delivered' = delivered + 1
  /\ UNCHANGED <<client, reading, request, serving, socketClosed, closing,
                 ctxDone>>

ScanEnds ==
  /\ handler = "scanning" /\ scanned = 0 /\ responseClosed
  /\ handler' = "returning"
  /\ UNCHANGED <<client, reading, request, serving, scanned, writeTimed,
                 delivered, socketClosed, closing, ctxDone>>

\* cancelFn, then conn.Close(): the reverse of their order in the code.
HandlerReturns ==
  /\ handler = "returning"
  /\ IF ctxDone
     THEN handler' = "returned" /\ socketClosed' = TRUE /\ UNCHANGED ctxDone
     ELSE ctxDone' = TRUE /\ UNCHANGED <<handler, socketClosed>>
  /\ UNCHANGED <<client, reading, request, serving, scanned, writeTimed,
                 delivered, closing>>

Handler ==
  \/ ScannerReads \/ ScanTooLong \/ ScanEnds
  \/ WriteStarts \/ WriteMessage \/ WriteFails
  \/ HandlerReturns

-----------------------------------------------------------------------------
(* The goroutine that waits for the context closes both pipes.              *)

\* Mutant: the request pipe is not closed.
ClosePipesResponseOnly ==
  /\ closer = "waiting" /\ ctxDone
  /\ responseClosed' = TRUE /\ closer' = "done"
  /\ UNCHANGED <<client, reading, request, serving, writing, ctxDone>>

ClosePipes ==
  /\ \/ /\ closer = "waiting" /\ ctxDone
        /\ responseClosed' = TRUE /\ closer' = "closing"
        /\ UNCHANGED requestClosed
     \/ /\ closer = "closing"
        /\ requestClosed' = TRUE /\ closer' = "done"
        /\ UNCHANGED responseClosed
  /\ UNCHANGED <<client, reading, forwarder, received, serving, writing,
                 ctxDone>>

-----------------------------------------------------------------------------
Next ==
  \/ ClientSends \/ ClientQuits \/ ClientStalls \/ PongArrives \/ PongMissing
  \/ Reader \/ Forwarder \/ Backend \/ Handler \/ ClosePipes

Spec == Init /\ [][Next]_vars

\* Every goroutine goes on when it can, and a backend returns when its context
\* is canceled. It owes nothing else, not even to read what it is sent.
Fairness ==
  /\ WF_vars(Reader) /\ WF_vars(TakePayload \/ ForwarderEnds)
  /\ WF_vars(Handler) /\ WF_vars(ClosePipes)
  /\ WF_vars(ctxDone /\ BackendReturns)

FairSpec == Spec /\ Fairness

-----------------------------------------------------------------------------
TypeOK ==
  /\ clientStreaming \in BOOLEAN
  /\ clientSent \in 0..MaxMessages /\ inbox \in 0..clientSent
  /\ clientQuit \in BOOLEAN /\ readDead \in BOOLEAN /\ socketClosed \in BOOLEAN
  /\ clientStalled \in BOOLEAN /\ ponged \in BOOLEAN
  /\ oversized \in BOOLEAN /\ writeTimed \in BOOLEAN
  /\ ctxDone \in BOOLEAN /\ serverQuit \in BOOLEAN
  /\ reader \in {"top", "reading", "putting", "closing", "done"}
  /\ payloads \in {0, 1} /\ payloadsClosed \in BOOLEAN
  /\ forwarder \in {"waiting", "writing", "done"}
  /\ requestClosed \in BOOLEAN /\ responseClosed \in BOOLEAN
  /\ backend \in {"reading", "serving", "returned"}
  /\ received \in 0..(IF clientStreaming THEN MaxMessages ELSE 1)
  /\ produced \in 0..MaxResponses /\ pending \in {0, 1}
  /\ scanned \in {0, 1} /\ delivered \in 0..MaxResponses
  /\ handler \in {"scanning", "writing", "returning", "returned"}
  /\ closer \in {"waiting", "closing", "done"}

\* The client does not take its responses: it is gone, or it does not read, or it
\* has answered pings, so that writes have a deadline, and has stopped to.
ClientAway == clientQuit \/ clientStalled \/ (ponged /\ readDead)

\* No response is lost at the end of a call: when the RPC ends by itself, the
\* client is still there and no response was too long, the handler does not
\* return before it has written every one of them, although the context is
\* canceled and both pipes are closed under it. A client that never answered a
\* ping gets them too: only reads of its socket have a deadline.
AllResponsesDelivered ==
  serverQuit /\ handler = "returned" /\ ~ClientAway /\ ~oversized =>
    delivered = produced

\* A message is in one place: what the client sent is unread, in the hands of
\* one of the loops, or with the backend, as long as nobody has given up.
NoMessageLost ==
  ~ctxDone /\ ~payloadsClosed =>
    clientSent = inbox + (IF reader = "putting" THEN 1 ELSE 0) + payloads
                   + (IF forwarder = "writing" THEN 1 ELSE 0) + received

\* A live call is only canceled because one side quit, because the client does
\* not answer or does not read, because it sent a second message to a method
\* that does not stream from the client, or because of a response that is too
\* long.
CancelExplained ==
  ctxDone => \/ clientQuit \/ readDead \/ clientStalled
             \/ serverQuit \/ oversized
             \/ ~clientStreaming /\ clientSent > 1

\* The proxy takes nothing away from a call that both sides still want.
CallIntact == AllResponsesDelivered /\ NoMessageLost /\ CancelExplained

\* The comment of upgradeToWebSocketProxy: it "streams all responses until
\* either the client or server quit the connection".
StreamsUntilOneQuits ==
  ctxDone => clientQuit \/ readDead \/ clientStalled \/ serverQuit

\* A write that started before the first pong has no deadline, and nothing but
\* the end of its client ends it.
Stuck == handler = "writing" /\ clientStalled /\ ~writeTimed /\ ~clientQuit

\* After a call is canceled or a client is gone nothing is left behind: no
\* goroutine stays blocked on a pipe, the channel or the socket, whether or not
\* the backend reads. The exception is the write to a client that does not read,
\* before the first pong: it keeps the socket open. One message waits in the pipe
\* and one in the channel; a third would keep the read loop from noticing that
\* the client is gone.
EverythingEnds ==
  ctxDone \/ ((clientQuit \/ readDead) /\ clientSent <= 2) ~>
    /\ forwarder = "done" /\ backend = "returned" /\ closer = "done"
    /\ (reader = "done" /\ handler = "returned") \/ Stuck

=============================================================================

----------------------------- MODULE AbciSocket -----------------------------
(***************************************************************************)
(* One ABCI connection: socketClient (abci/client/socket_client.go) with   *)
(* its ReqRes objects and its ThrottleTimer (tmlibs/common), and the three *)
(* goroutines SocketServer (abci/server/socket_server.go) runs for a       *)
(* connection.                                                             *)
(*                                                                         *)
(* A request is a member of Txs, a member of Flushes, or AutoFlush for the *)
(* flushes the send routine makes up when the timer fires.  Requests and   *)
(* responses travel in order; what a bufio.Writer holds is not yet on the  *)
(* wire.  The response to a request is named by the request.               *)
(***************************************************************************)
EXTENDS Naturals, Sequences, Functions, FiniteSets

CONSTANTS Callers,     \* goroutines that use the client
          Txs, Flushes, AutoFlush,
          QueueSize,   \* reqQueueSize, 256 in the code
          Listened,    \* the requests somebody may set a callback on
          MayFail,     \* may the connection break and the user stop the client?
          Nil

ASSUME AbciAssumption ==
    /\ Txs \cap Flushes = {} /\ AutoFlush \notin Txs \cup Flushes
    /\ Nil \notin Txs \cup Flushes \cup {AutoFlush} /\ QueueSize \in Nat \ {0}
    /\ Listened \subseteq Txs

Reqs == Txs \cup Flushes
IsFlush(r) == r \in Flushes \cup {AutoFlush}
Stoppers == {"user", "send", "recv"}

VARIABLES
    reqQueue, reqSent, err, conn,
    doneCount, response,    \* of a ReqRes: WaitGroup.Done calls, Response
    cbSet, cbRan,           \* the ReqRes whose callback is set, has run
    isSet, armed, firing,   \* flushTimer: flag, time.Timer, fireRoutine started
    stopped, quit, stop,    \* BaseService flags, and where each stopper is
    pc, req, tx,            \* of a caller: place, request at hand, request of a Sync call
    send, sending,          \* sendRequestsRoutine and the request it holds
    w, c2s,                 \* the client's bufio.Writer, and the wire
    responses, bufWriter, s2c, \* the server's channel, writer, and the wire
    svrGone                 \* the server's end is closed

reqres == <<doneCount, response, cbSet, cbRan>>
flushTimer == <<isSet, armed, firing>>
service == <<err, conn, stopped, quit, stop>>
caller == <<pc, req, tx>>
server == <<responses, bufWriter, s2c, svrGone>>
sender == <<send, sending, w, c2s>>
vars == <<reqQueue, reqSent, reqres, flushTimer, service, caller, sender, server>>

NewSocketClient ==
    /\ reqQueue = <<>> /\ reqSent = <<>> /\ err = FALSE /\ conn = TRUE
    /\ doneCount = [r \in Reqs |-> 0] /\ response = [r \in Reqs |-> Nil]
    /\ cbSet = {} /\ cbRan = {}
    /\ isSet = FALSE /\ armed = FALSE /\ firing = FALSE
    /\ stopped = FALSE /\ quit = FALSE /\ stop = [x \in Stoppers |-> "none"]
    /\ pc = [t \in Callers |-> "idle"] /\ req = [t \in Callers |-> Nil] /\ tx = [t \in Callers |-> Nil]
    /\ send = "select" /\ sending = Nil /\ w = <<>> /\ c2s = <<>>
    /\ responses = <<>> /\ bufWriter = <<>> /\ s2c = <<>> /\ svrGone = FALSE

mtxFree == \A x \in Stoppers : stop[x] # "drain"
Used == {req[t] : t \in Callers} \cup {tx[t] : t \in Callers} \cup Range(reqQueue) \cup Range(reqSent)
        \cup {sending} \cup {r \in Reqs : doneCount[r] > 0}
Unused(S) == S \ Used

-----------------------------------------------------------------------------
(* The caller's side: queueRequest, the Async and the Sync methods *)

Queue(t, r) == /\ req' = [req EXCEPT ![t] = r]
               /\ pc' = [pc EXCEPT ![t] = "queue"]

Async(t) ==
    /\ pc[t] = "idle"
    /\ \E r \in Unused(Txs) : Queue(t, r)
    /\ UNCHANGED <<reqQueue, reqSent, reqres, flushTimer, service, tx, sender, server>>

\* EchoSync and the like queue their request, then call FlushSync.
Sync(t) ==
    /\ pc[t] = "idle"
    /\ \E r \in Unused(Txs) : Queue(t, r) /\ tx' = [tx EXCEPT ![t] = r]
    /\ UNCHANGED <<reqQueue, reqSent, reqres, flushTimer, service, sender, server>>

FlushSync(t) ==
    /\ pc[t] = "idle" \/ pc[t] = "flush"
    /\ \E f \in Unused(Flushes) : Queue(t, f)
    /\ UNCHANGED <<reqQueue, reqSent, reqres, flushTimer, service, tx, sender, server>>

\* Mutant: does not wait for room.
queueRequest_NoBlock(t) ==
    /\ pc[t] = "queue"
    /\ reqQueue' = Append(reqQueue, req[t])
    /\ pc' = [pc EXCEPT ![t] = "timer"]
    /\ UNCHANGED <<reqSent, reqres, flushTimer, service, req, tx, sender, server>>

\* The send on reqQueue blocks while it is full.
queueRequest(t) ==
    /\ pc[t] = "queue" /\ Len(reqQueue) < QueueSize
    /\ reqQueue' = Append(reqQueue, req[t])
    /\ pc' = [pc EXCEPT ![t] = "timer"]
    /\ UNCHANGED <<reqSent, reqres, flushTimer, service, req, tx, sender, server>>

Set == /\ isSet' = TRUE
       /\ armed' = (armed \/ ~isSet)

Unset == /\ isSet' = FALSE
         /\ armed' = FALSE

\* Auto-flush on, or off after a flush; an Async method then returns.
queueRequestTimer(t) ==
    /\ pc[t] = "timer"
    /\ IF req[t] \in Flushes THEN Unset ELSE Set
    /\ pc' = [pc EXCEPT ![t] = IF req[t] \in Flushes THEN "error" ELSE IF tx[t] # Nil THEN "flush" ELSE "idle"]
    /\ UNCHANGED <<reqQueue, reqSent, reqres, firing, service, req, tx, sender, server>>

\* Mutant: returns without waiting.
FlushSyncError_NoWait(t) ==
    /\ pc[t] = "error" /\ mtxFree
    /\ pc' = [pc EXCEPT ![t] = "return"]
    /\ UNCHANGED <<reqQueue, reqSent, reqres, flushTimer, service, req, tx, sender, server>>

FlushSyncError(t) ==
    /\ pc[t] = "error" /\ mtxFree
    /\ pc' = [pc EXCEPT ![t] = IF err THEN "return" ELSE "wait"]
    /\ UNCHANGED <<reqQueue, reqSent, reqres, flushTimer, service, req, tx, sender, server>>

FlushSyncWait(t) ==
    /\ pc[t] = "wait" /\ doneCount[req[t]] > 0
    /\ pc' = [pc EXCEPT ![t] = "return"]
    /\ UNCHANGED <<reqQueue, reqSent, reqres, flushTimer, service, req, tx, sender, server>>

Return(t) ==
    /\ pc[t] = "return" /\ mtxFree
    /\ pc' = [pc EXCEPT ![t] = "idle"]
    /\ tx' = [tx EXCEPT ![t] = Nil]
    /\ UNCHANGED <<reqQueue, reqSent, reqres, flushTimer, service, req, sender, server>>

\* ReqRes.SetCallback on what an Async method returned.  Its test of done never
\* holds: nothing in this client calls SetDone.
SetCallback(t) ==
    /\ pc[t] = "idle" /\ req[t] \in Listened \ cbSet
    /\ cbSet' = cbSet \cup {req[t]}
    /\ UNCHANGED <<reqQueue, reqSent, doneCount, response, cbRan, flushTimer, service, caller, sender, server>>

-----------------------------------------------------------------------------
(* ThrottleTimer *)

\* The runtime starts fireRoutine.
Expire ==
    /\ armed /\ ~firing
    /\ armed' = FALSE /\ firing' = TRUE
    /\ UNCHANGED <<reqQueue, reqSent, reqres, isSet, service, caller, sender, server>>

\* Ch has no buffer: the send succeeds if the send routine is in its select,
\* otherwise the timer starts again.
fireRoutine ==
    /\ firing
    /\ firing' = FALSE
    /\ IF send = "select" THEN /\ isSet' = FALSE
                               /\ send' = "autoflush"
                               /\ armed' = armed
       ELSE /\ armed' = TRUE
            /\ UNCHANGED <<isSet, send>>
    /\ UNCHANGED <<reqQueue, reqSent, reqres, service, caller, sending, w, c2s, server>>

-----------------------------------------------------------------------------
(* sendRequestsRoutine *)

\* A full queue drops the automatic flush.
sendAutoFlush ==
    /\ send = "autoflush"
    /\ reqQueue' = IF Len(reqQueue) < QueueSize THEN Append(reqQueue, AutoFlush) ELSE reqQueue
    /\ send' = "select"
    /\ UNCHANGED <<reqSent, reqres, flushTimer, service, caller, sending, w, c2s, server>>

sendQuit ==
    /\ send = "select" /\ quit
    /\ send' = "exit"
    /\ UNCHANGED <<reqQueue, reqSent, reqres, flushTimer, service, caller, sending, w, c2s, server>>

sendTake ==
    /\ send = "select" /\ reqQueue # <<>>
    /\ reqQueue' = Tail(reqQueue)
    /\ sending' = Head(reqQueue)
    /\ send' = "will"
    /\ UNCHANGED <<reqSent, reqres, flushTimer, service, caller, w, c2s, server>>

\* Mutant: registers at the front.
willSendReq_PushFront ==
    /\ send = "will" /\ mtxFree
    /\ reqSent' = <<sending>> \o reqSent
    /\ send' = "write"
    /\ UNCHANGED <<reqQueue, reqres, flushTimer, service, caller, sending, w, c2s, server>>

willSendReq ==
    /\ send = "will" /\ mtxFree
    /\ reqSent' = Append(reqSent, sending)
    /\ send' = "write"
    /\ UNCHANGED <<reqQueue, reqres, flushTimer, service, caller, sending, w, c2s, server>>

\* WriteMessage, and Flush after a flush request.  The writer may spill what it
\* holds at any message.
sendWrite ==
    /\ send = "write"
    /\ \/ /\ \/ ~IsFlush(sending) /\ w' = Append(w, sending) /\ c2s' = c2s
             \/ w' = <<>> /\ c2s' = IF conn /\ ~svrGone THEN c2s \o Append(w, sending) ELSE c2s
          /\ send' = "select"
          /\ UNCHANGED stop
       \/ /\ ~conn \/ svrGone
          /\ send' = "exit"
          /\ stop' = [stop EXCEPT !["send"] = "check"]
          /\ UNCHANGED <<w, c2s>>
    /\ sending' = Nil
    /\ UNCHANGED <<reqQueue, reqSent, reqres, flushTimer, err, conn, stopped, quit, caller, server>>

-----------------------------------------------------------------------------
(* recvResponseRoutine *)

resMatchesReq(r, s) == IsFlush(r) = IsFlush(s)

\* One response: release the waiter of the first request and run its callback;
\* or stop for an unexpected one.
didRecvResponse ==
    /\ stop["recv"] = "none" /\ s2c # <<>> /\ mtxFree
    /\ s2c' = Tail(s2c)
    /\ IF reqSent # <<>> /\ resMatchesReq(Head(reqSent), Head(s2c))
       THEN LET r == Head(reqSent)
            IN  /\ reqSent' = Tail(reqSent)
                /\ doneCount' = [q \in Reqs |-> IF q = r THEN doneCount[q] + 1 ELSE doneCount[q]]
                /\ response' = [q \in Reqs |-> IF q = r THEN Head(s2c) ELSE response[q]]
                /\ cbRan' = cbRan \cup ({r} \cap cbSet)
                /\ UNCHANGED stop
       ELSE /\ stop' = [stop EXCEPT !["recv"] = "check"]
            /\ UNCHANGED <<reqSent, doneCount, response, cbRan>>
    /\ UNCHANGED <<reqQueue, cbSet, flushTimer, err, conn, stopped, quit, caller, sender, responses, bufWriter, svrGone>>

recvError ==
    /\ stop["recv"] = "none"
    /\ ~conn \/ (svrGone /\ s2c = <<>>)
    /\ stop' = [stop EXCEPT !["recv"] = "check"]
    /\ UNCHANGED <<reqQueue, reqSent, reqres, flushTimer, err, conn, stopped, quit, caller, sender, server>>

-----------------------------------------------------------------------------
(* Stop, and StopForError by the two routines *)

Stop ==
    /\ MayFail /\ stop["user"] = "none"
    /\ stop' = [stop EXCEPT !["user"] = "cas"]
    /\ UNCHANGED <<reqQueue, reqSent, reqres, flushTimer, err, conn, stopped, quit, caller, sender, server>>

\* Returns at once when the client no longer runs, else sets err.
StopForError(x) ==
    /\ \/ /\ stop[x] = "check"
          /\ stop' = [stop EXCEPT ![x] = IF stopped THEN "done" ELSE "err"]
          /\ err' = err
       \/ /\ stop[x] = "err" /\ mtxFree
          /\ err' = TRUE
          /\ stop' = [stop EXCEPT ![x] = "cas"]
    /\ UNCHANGED <<reqQueue, reqSent, reqres, flushTimer, conn, stopped, quit, caller, sender, server>>

\* BaseService.Stop: only one stopper gets past the compare-and-swap.
ServiceStop(x) ==
    /\ stop[x] = "cas"
    /\ stop' = [stop EXCEPT ![x] = IF stopped THEN "done" ELSE "onstop"]
    /\ stopped' = TRUE
    /\ UNCHANGED <<reqQueue, reqSent, reqres, flushTimer, err, conn, quit, caller, sender, server>>

OnStop(x) ==
    /\ stop[x] = "onstop" /\ mtxFree
    /\ conn' = FALSE
    /\ stop' = [stop EXCEPT ![x] = "drain"]
    /\ UNCHANGED <<reqQueue, reqSent, reqres, flushTimer, err, stopped, quit, caller, sender, server>>

\* Mutant: also releases the requests already sent.
flushQueue_SentToo(x) ==
    LET all == reqQueue \o reqSent
    IN  /\ stop[x] = "drain"
        /\ doneCount' = [r \in Reqs |-> IF r \in Range(all) THEN doneCount[r] + 1 ELSE doneCount[r]]
        /\ reqQueue' = <<>>
        /\ stop' = [stop EXCEPT ![x] = "close"]
        /\ UNCHANGED <<reqSent, response, cbSet, cbRan, flushTimer, err, conn, stopped, quit, caller, sender, server>>

\* One round: release the waiter of a queued request, or end.
flushQueue(x) ==
    /\ stop[x] = "drain"
    /\ IF reqQueue # <<>>
       THEN /\ doneCount' = [r \in Reqs |-> IF r = Head(reqQueue) THEN doneCount[r] + 1 ELSE doneCount[r]]
            /\ reqQueue' = Tail(reqQueue)
            /\ stop' = stop
       ELSE /\ stop' = [stop EXCEPT ![x] = "close"]
            /\ UNCHANGED <<doneCount, reqQueue>>
    /\ UNCHANGED <<reqSent, response, cbSet, cbRan, flushTimer, err, conn, stopped, quit, caller, sender, server>>

\* close(bs.quit).
CloseQuit(x) ==
    /\ stop[x] = "close"
    /\ quit' = TRUE
    /\ stop' = [stop EXCEPT ![x] = "done"]
    /\ UNCHANGED <<reqQueue, reqSent, reqres, flushTimer, err, conn, stopped, caller, sender, server>>

-----------------------------------------------------------------------------
(* The server's goroutines for this connection *)

handleRequests ==
    /\ c2s # <<>> /\ ~svrGone
    /\ responses' = Append(responses, Head(c2s))
    /\ c2s' = Tail(c2s)
    /\ UNCHANGED <<reqQueue, reqSent, reqres, flushTimer, service, caller, send, sending, w, bufWriter, s2c, svrGone>>

\* Mutant: never flushes its writer.
handleResponses_NoFlush ==
    /\ responses # <<>> /\ ~svrGone
    /\ responses' = Tail(responses)
    /\ bufWriter' = Append(bufWriter, Head(responses))
    /\ UNCHANGED <<reqQueue, reqSent, reqres, flushTimer, service, caller, sender, s2c, svrGone>>

handleResponses ==
    /\ responses # <<>> /\ ~svrGone
    /\ responses' = Tail(responses)
    /\ \/ /\ ~IsFlush(Head(responses))
          /\ bufWriter' = Append(bufWriter, Head(responses))
          /\ s2c' = s2c
       \/ /\ bufWriter' = <<>>
          /\ s2c' = IF conn THEN s2c \o Append(bufWriter, Head(responses)) ELSE s2c
    /\ UNCHANGED <<reqQueue, reqSent, reqres, flushTimer, service, caller, sender, svrGone>>

\* A closed or failed connection, which also kills the server's process.
waitForClose ==
    /\ MayFail /\ ~svrGone
    /\ svrGone' = TRUE
    /\ UNCHANGED <<reqQueue, reqSent, reqres, flushTimer, service, caller, sender, responses, bufWriter, s2c>>

-----------------------------------------------------------------------------
CallerStep(t) ==
    \/ queueRequest(t) \/ queueRequestTimer(t) \/ FlushSyncError(t) \/ FlushSyncWait(t) \/ Return(t)
    \/ (pc[t] = "flush" /\ FlushSync(t))
Timer == Expire \/ fireRoutine
Sender == sendAutoFlush \/ sendQuit \/ sendTake \/ willSendReq \/ sendWrite
Receiver == didRecvResponse \/ recvError
Stopping(x) == StopForError(x) \/ ServiceStop(x) \/ OnStop(x) \/ flushQueue(x) \/ CloseQuit(x)
Server == handleRequests \/ handleResponses

Next ==
    \/ \E t \in Callers : CallerStep(t) \/ Async(t) \/ Sync(t) \/ (pc[t] = "idle" /\ FlushSync(t)) \/ SetCallback(t)
    \/ \E x \in Stoppers : Stopping(x)
    \/ Timer \/ Sender \/ Receiver \/ Stop \/ Server \/ waitForClose

Spec == NewSocketClient /\ [][Next]_vars

\* Every goroutine keeps running; sendTake is a branch of a select that is
\* ready again and again.
FairSpec ==
    /\ Spec
    /\ \A t \in Callers : WF_vars(CallerStep(t)) /\ SF_vars(queueRequest(t))
    /\ WF_vars(Expire) /\ SF_vars(fireRoutine /\ send = "select") /\ WF_vars(fireRoutine)
    /\ WF_vars(Sender) /\ SF_vars(sendTake) /\ WF_vars(Receiver)
    /\ WF_vars(handleRequests) /\ WF_vars(handleResponses)
    /\ \A x \in Stoppers : WF_vars(Stopping(x))

-----------------------------------------------------------------------------
(* Properties *)

\* Type invariant.
TypeOK ==
    /\ {reqQueue, reqSent, w, c2s, responses, bufWriter, s2c} \subseteq Seq(Reqs \cup {AutoFlush})
    /\ Len(reqQueue) <= QueueSize
    /\ {err, conn, isSet, armed, firing, stopped, quit, svrGone} \subseteq BOOLEAN
    /\ doneCount \in [Reqs -> Nat] /\ response \in [Reqs -> Reqs \cup {AutoFlush, Nil}]
    /\ cbSet \subseteq Txs /\ cbRan \subseteq cbSet
    /\ stop \in [Stoppers -> {"none", "check", "err", "cas", "onstop", "drain", "close", "done"}]
    /\ pc \in [Callers -> {"idle", "queue", "timer", "flush", "error", "wait", "return"}]
    /\ req \in [Callers -> Reqs \cup {Nil}] /\ tx \in [Callers -> Txs \cup {Nil}]
    /\ send \in {"select", "autoflush", "will", "write", "exit"} /\ sending \in Reqs \cup {AutoFlush, Nil}

\* Responses carry no identity; matched by order, each request gets its own.
Correlated == \A r \in Reqs : response[r] \in {Nil, r}

\* No request is released twice, which would panic its WaitGroup: the receive
\* routine and flushQueue never both have it.
DoneOnce == \A r \in Reqs : doneCount[r] <= 1

\* TypeOK: the queue keeps within reqQueueSize, and each goroutine in its code.
ReleasedOnce == TypeOK /\ DoneOnce

\* A Sync method that returns has its response, or the client was stopped.
SyncAnswered ==
    \A t \in Callers : pc[t] = "return" /\ tx[t] # Nil => response[tx[t]] = tx[t] \/ stopped \/ err

\* Every request is answered in the end, flushed by its caller or by the timer.
RequestsAnswered == \A r \in Reqs : r \in Range(reqQueue) ~> doneCount[r] > 0

\* A callback set on a ReqRes runs, at once when the response is already there.
CallbackRuns == \A r \in cbSet : response[r] # Nil => r \in cbRan
=============================================================================

----------------------------- MODULE AbciServer -----------------------------
(***************************************************************************)
(* abci/server/socket_server.go: the accept loop, the three goroutines of  *)
(* every connection, the watchdog on requests, and OnStop.  A request is   *)
(* "flush" or "call" (any other kind: each of them ends in one response).  *)
(* killBcchain ends the process: nothing moves once killed is TRUE.        *)
(***************************************************************************)
EXTENDS Naturals, Sequences, FiniteSets

CONSTANTS Conns,     \* the connections that clients may open
          Hosts,     \* the addresses they come from
          MaxConns,  \* connections served at once (3 in the code)
          Talkers,   \* bound: the connections on which requests are sent
          MaxReqs    \* bound: requests a client sends on one of them

VARIABLES running,   \* BaseService.IsRunning
          stopped,   \* OnStop has emptied the table and returned
          accept,    \* the accept loop: where it is, and the connection in hand
          remoteIp,  \* the host of the first connection ("" before it)
          conns,     \* s.conns
          sock,      \* the state of each socket
          host,      \* the host of each socket
          sent,      \* requests the client has sent
          reader,    \* handleRequests: "off", "read", "tick", "call", "done"
          got,       \* the requests read so far
          responses, \* the channel of responses
          writer,    \* handleResponses: "off", "run", "done"
          buf,       \* the bufio.Writer: responses not flushed
          wire,      \* responses the client has
          closeq,    \* closeConn: the number of errors in the channel
          waiter,    \* waitForClose: "off", "wait", "rm", "kill"
          killed,    \* the process has killed itself
          late       \* history: the connection in hand when OnStop emptied the table

vars == <<running, stopped, accept, remoteIp, conns, sock, host, sent, reader,
          got, responses, writer, buf, wire, closeq, waiter, killed, late>>

io == <<sent, reader, got, responses, writer, buf, wire, closeq, waiter>>
NoConn == "none"
CloseBuffer == 5

OnStart ==
  /\ running = TRUE /\ stopped = FALSE /\ accept = [at |-> "accept", conn |-> NoConn]
  /\ remoteIp = "" /\ conns = {} /\ killed = FALSE /\ late = {}
  /\ sock = [c \in Conns |-> "none"] /\ host \in [Conns -> Hosts]
  /\ sent = [c \in Conns |-> <<>>] /\ got = [c \in Conns |-> <<>>]
  /\ reader = [c \in Conns |-> "off"] /\ writer = [c \in Conns |-> "off"]
  /\ waiter = [c \in Conns |-> "off"] /\ closeq = [c \in Conns |-> 0]
  /\ responses = [c \in Conns |-> <<>>] /\ buf = [c \in Conns |-> <<>>]
  /\ wire = [c \in Conns |-> <<>>]

-----------------------------------------------------------------------------
(* The clients: connect, send, close. *)

Connect(c) ==
  /\ ~killed /\ running /\ sock[c] = "none"
  /\ sock' = [sock EXCEPT ![c] = "backlog"]
  /\ UNCHANGED <<running, stopped, accept, remoteIp, conns, host, killed, late, io>>

Send(c, kind) ==
  /\ ~killed /\ c \in Talkers /\ sock[c] = "open" /\ Len(sent[c]) < MaxReqs
  /\ sent' = [sent EXCEPT ![c] = Append(@, kind)]
  /\ UNCHANGED <<running, stopped, accept, remoteIp, conns, sock, host, reader, got,
                 responses, writer, buf, wire, closeq, waiter, killed, late>>

PeerClose(c) ==
  /\ ~killed /\ sock[c] = "open"
  /\ sock' = [sock EXCEPT ![c] = "eof"]
  /\ UNCHANGED <<running, stopped, accept, remoteIp, conns, host, killed, late, io>>

-----------------------------------------------------------------------------
(* acceptConnectionsRoutine.  A refused host is closed at once; the table   *)
(* is read without connsMtx, a step before addConn takes it.               *)

Accept(c) ==
  /\ ~killed /\ accept.at = "accept" /\ sock[c] = "backlog"
  /\ IF remoteIp \in {"", host[c]}
       THEN /\ remoteIp' = host[c] /\ sock' = [sock EXCEPT ![c] = "open"]
            /\ accept' = [at |-> "count", conn |-> c]
       ELSE /\ sock' = [sock EXCEPT ![c] = "closed"] /\ UNCHANGED <<remoteIp, accept>>
  /\ UNCHANGED <<running, stopped, conns, host, killed, late, io>>

\* The listener is closed before the flag is seen to be false, or Accept failed.
AcceptError ==
  /\ ~killed /\ accept.at = "accept" /\ ~running
  /\ accept' = [accept EXCEPT !.at = "done"]
  /\ UNCHANGED <<running, stopped, remoteIp, conns, sock, host, killed, late, io>>

\* Mutant: the limit is tested with the wrong number.
CountConns_OffByOne ==
  /\ ~killed /\ accept.at = "count"
  /\ IF Cardinality(conns) = MaxConns + 1
       THEN killed' = TRUE /\ accept' = [accept EXCEPT !.at = "done"]
       ELSE accept' = [accept EXCEPT !.at = "add"] /\ UNCHANGED killed
  /\ UNCHANGED <<running, stopped, remoteIp, conns, sock, host, late, io>>

CountConns ==
  /\ ~killed /\ accept.at = "count"
  /\ IF Cardinality(conns) = MaxConns
       THEN killed' = TRUE /\ accept' = [accept EXCEPT !.at = "done"]
       ELSE accept' = [accept EXCEPT !.at = "add"] /\ UNCHANGED killed
  /\ UNCHANGED <<running, stopped, remoteIp, conns, sock, host, late, io>>

addConn ==
  LET c == accept.conn IN
  /\ ~killed /\ accept.at = "add"
  /\ conns' = conns \cup {c}
  /\ reader' = [reader EXCEPT ![c] = "read"]
  /\ writer' = [writer EXCEPT ![c] = "run"]
  /\ waiter' = [waiter EXCEPT ![c] = "wait"]
  /\ accept' = [at |-> "accept", conn |-> NoConn]
  /\ UNCHANGED <<running, stopped, remoteIp, sock, host, sent, got, responses, buf,
                 wire, closeq, killed, late>>

-----------------------------------------------------------------------------
(* handleRequests, handleResponses and waitForClose of connection c. *)

Readable(c) == Len(got[c]) < Len(sent[c])

\* A read gives the next request, or an error once the peer has closed and
\* everything sent was read, or as soon as the server has closed the socket.
ReadMessage(c) ==
  /\ ~killed /\ reader[c] = "read"
  /\ \/ /\ sock[c] \in {"open", "eof"} /\ Readable(c)
        /\ got' = [got EXCEPT ![c] = Append(@, sent[c][Len(@) + 1])]
        /\ reader' = [reader EXCEPT ![c] = "tick"]
        /\ UNCHANGED closeq
     \/ /\ sock[c] = "closed" \/ (sock[c] = "eof" /\ ~Readable(c))
        /\ closeq[c] < CloseBuffer
        /\ closeq' = [closeq EXCEPT ![c] = @ + 1]
        /\ reader' = [reader EXCEPT ![c] = "done"]
        /\ UNCHANGED got
  /\ UNCHANGED <<running, stopped, accept, remoteIp, conns, sock, host, sent,
                 responses, writer, buf, wire, waiter, killed, late>>

\* dataChan <- true: checkReqTimeOutInfo takes it and resets its timer.
TimerReset(c) ==
  /\ ~killed /\ reader[c] = "tick"
  /\ reader' = [reader EXCEPT ![c] = "call"]
  /\ UNCHANGED <<running, stopped, accept, remoteIp, conns, sock, host, sent, got,
                 responses, writer, buf, wire, closeq, waiter, killed, late>>

handleRequest(c) ==
  /\ ~killed /\ reader[c] = "call"
  /\ responses' = [responses EXCEPT ![c] = Append(@, got[c][Len(got[c])])]
  /\ reader' = [reader EXCEPT ![c] = "read"]
  /\ UNCHANGED <<running, stopped, accept, remoteIp, conns, sock, host, sent, got,
                 writer, buf, wire, closeq, waiter, killed, late>>

\* Mutant: a response is written past the buffer, ahead of those that wait in it.
WriteMessage_Unbuffered(c) ==
  /\ ~killed /\ writer[c] = "run" /\ responses[c] # <<>>
  /\ responses' = [responses EXCEPT ![c] = Tail(@)]
  /\ IF Head(responses[c]) = "flush"
       THEN wire' = [wire EXCEPT ![c] = <<"flush">> \o @] /\ UNCHANGED buf
       ELSE buf' = [buf EXCEPT ![c] = Append(@, "call")] /\ UNCHANGED wire
  /\ UNCHANGED <<running, stopped, accept, remoteIp, conns, sock, host, sent, reader,
                 got, writer, closeq, waiter, killed, late>>

\* A flush response is written and flushed; any other stays in the buffer,
\* or overflows it.  On a closed socket whatever reaches it fails.
WriteMessage(c) ==
  LET res == Head(responses[c])
      all == Append(buf[c], res) IN
  /\ ~killed /\ writer[c] = "run" /\ responses[c] # <<>>
  /\ responses' = [responses EXCEPT ![c] = Tail(@)]
  /\ \/ /\ res # "flush"
        /\ buf' = [buf EXCEPT ![c] = all]
        /\ UNCHANGED <<wire, writer, closeq>>
     \/ /\ sock[c] = "open"
        /\ wire' = [wire EXCEPT ![c] = @ \o all]
        /\ buf' = [buf EXCEPT ![c] = <<>>]
        /\ UNCHANGED <<writer, closeq>>
     \/ /\ sock[c] # "open" /\ closeq[c] < CloseBuffer
        /\ closeq' = [closeq EXCEPT ![c] = @ + 1]
        /\ writer' = [writer EXCEPT ![c] = "done"]
        /\ UNCHANGED <<buf, wire>>
  /\ UNCHANGED <<running, stopped, accept, remoteIp, conns, sock, host, sent, reader,
                 got, waiter, killed, late>>

waitForClose(c) ==
  /\ ~killed /\ waiter[c] = "wait" /\ closeq[c] > 0
  /\ closeq' = [closeq EXCEPT ![c] = @ - 1]
  /\ waiter' = [waiter EXCEPT ![c] = "rm"]
  /\ UNCHANGED <<running, stopped, accept, remoteIp, conns, sock, host, sent, reader,
                 got, responses, writer, buf, wire, killed, late>>

\* An unknown connection is an error, and the error is only logged.
rmConn(c) ==
  /\ ~killed /\ waiter[c] = "rm"
  /\ waiter' = [waiter EXCEPT ![c] = "kill"]
  /\ conns' = conns \ {c}
  /\ sock' = IF c \in conns THEN [sock EXCEPT ![c] = "closed"] ELSE sock
  /\ UNCHANGED <<running, stopped, accept, remoteIp, host, sent, reader, got,
                 responses, writer, buf, wire, closeq, killed, late>>

killBcchain(c) ==
  /\ ~killed /\ waiter[c] = "kill" /\ killed' = TRUE
  /\ UNCHANGED <<running, stopped, accept, remoteIp, conns, sock, host, late, io>>

\* checkReqTimeOutInfo: started by the first connection, it outlives OnStop.
RequestTimeout ==
  /\ ~killed /\ remoteIp # "" /\ killed' = TRUE
  /\ UNCHANGED <<running, stopped, accept, remoteIp, conns, sock, host, late, io>>

-----------------------------------------------------------------------------
\* Stop sets the flag; OnStop closes the listener, which empties its backlog.
StopListen ==
  /\ ~killed /\ running /\ running' = FALSE
  /\ sock' = [c \in Conns |-> IF sock[c] = "backlog" THEN "closed" ELSE sock[c]]
  /\ UNCHANGED <<stopped, accept, remoteIp, conns, host, killed, late, io>>

\* Mutant: the connections leave the table and are not closed.
StopConns_LeavesOpen ==
  /\ ~killed /\ ~running /\ ~stopped /\ stopped' = TRUE
  /\ conns' = {} /\ late' = {accept.conn} \cap Conns
  /\ UNCHANGED <<running, accept, remoteIp, sock, host, killed, io>>

StopConns ==
  /\ ~killed /\ ~running /\ ~stopped /\ stopped' = TRUE
  /\ conns' = {} /\ late' = {accept.conn} \cap Conns
  /\ sock' = [c \in Conns |-> IF c \in conns THEN "closed" ELSE sock[c]]
  /\ UNCHANGED <<running, accept, remoteIp, host, killed, io>>

Rest == (killed \/ (stopped /\ remoteIp = "")) /\ UNCHANGED vars

Next ==
  \/ \E c \in Conns :
       \/ Connect(c) \/ \E k \in {"flush", "call"} : Send(c, k)
       \/ PeerClose(c) \/ Accept(c) \/ ReadMessage(c) \/ TimerReset(c)
       \/ handleRequest(c) \/ WriteMessage(c) \/ waitForClose(c)
       \/ rmConn(c) \/ killBcchain(c)
  \/ AcceptError \/ CountConns \/ addConn
  \/ RequestTimeout \/ StopListen \/ StopConns \/ Rest

Spec == OnStart /\ [][Next]_vars

-----------------------------------------------------------------------------
TypeOK ==
  /\ conns \subseteq Conns /\ remoteIp \in Hosts \cup {""}
  /\ sock \in [Conns -> {"none", "backlog", "open", "eof", "closed"}]
  /\ accept.at \in {"accept", "count", "add", "done"}
  /\ \A c \in Conns : closeq[c] <= CloseBuffer

\* The limit holds although the table is counted without its mutex: only
\* the accept loop adds to it.
ThreeAtMost == Cardinality(conns) <= MaxConns

\* A connection that is still open after OnStop and the accept loop have
\* ended was in the hands of the accept loop when OnStop emptied the table:
\* nothing closes that one, and there is one at most.
OneOutlivesStop ==
  stopped /\ accept.at = "done" =>
    {c \in Conns : sock[c] \in {"open", "eof"}} \subseteq late

\* The client has the responses to its requests in their order, and every
\* response it has was written with, or before, one that fitted no buffer or
\* was a flush; what it lacks is in the buffer, in the channel, or in hand.
ResponsesInOrder ==
  \A c \in Conns :
    LET out == wire[c] \o buf[c] \o responses[c]
        answered == SubSeq(got[c], 1, Len(got[c]) -
                      (IF reader[c] \in {"tick", "call"} THEN 1 ELSE 0)) IN
    writer[c] = "run" => out = answered

\* Neither goroutine of a connection is ever held up by closeConn.
CloseNeverBlocks == \A c \in Conns : closeq[c] < CloseBuffer

\* The ABCI server: ThreeAtMost, OneOutlivesStop, ResponsesInOrder and
\* CloseNeverBlocks (acceptConnectionsRoutine, handleRequests, OnStop).
ServerSafe == ThreeAtMost /\ OneOutlivesStop /\ ResponsesInOrder /\ CloseNeverBlocks
=============================================================================

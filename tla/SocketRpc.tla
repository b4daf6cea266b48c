------------------------------ MODULE SocketRpc ------------------------------
(***************************************************************************)
(* One connection of the RPC in socket/: Client (client.go) and Server     *)
(* (server.go) over TCP, framed by types.go.                               *)
(*                                                                         *)
(* Each member of Calls is one Client.Call.  Its entry in reqSent, its     *)
(* request, the server goroutine handling it and the client goroutine      *)
(* didRecvResponse delivering the answer are all named by the call.        *)
(*                                                                         *)
(* reqSent is a container/list that didRecvResponse, sendCloseChan and     *)
(* removeReq walk without its lock.  A walker standing on an element that  *)
(* is removed under it finds no next element: Advance.                     *)
(***************************************************************************)
EXTENDS Naturals, Sequences, Functions, FiniteSets, TLC

CONSTANTS Calls,
          MaxUint64,   \* bound: the modulus of index()
          Start, Nil   \* cursor before the first, and after the last element

\* A client makes fewer calls than there are indices.
ASSUME CallAssumption ==
    /\ Start \notin Calls /\ Nil \notin Calls /\ Start # Nil
    /\ IsFiniteSet(Calls) /\ MaxUint64 \in Nat /\ Cardinality(Calls) < MaxUint64

\* The calls are interchangeable.
Symmetry == Permutations(Calls)

VARIABLES
    reqSent, counter, isRunning,
    keepAlive,                  \* ~disablekeepAlive
    pc, idx, cur, out,          \* of a call: place, index, removeReq's cursor, outcome
    respChan, closeChan, closed, \* buffered answer, buffered error, channels closed
    recv,                       \* recvResponseRoutine
    did,                        \* didRecvResponse, one per answer
    c2s, s2c, cliOpen, svrOpen, broken,
    svr, handler,               \* readRequest, and handleRequest per request
    crashed, svrCrashed,        \* a goroutine panic ended the process
    timedOut,                   \* history: the calls that gave up waiting
    overlapped                  \* history: has one call begun inside another?

client == <<reqSent, counter, isRunning, pc, idx, cur, out, respChan, closeChan, closed, recv, did, crashed, timedOut,
            keepAlive, overlapped>>
net == <<c2s, s2c, cliOpen, svrOpen, broken>>
server == <<svr, handler, svrCrashed>>
vars == <<client, net, server>>
fixed == <<keepAlive, overlapped>>

Places == {"idle", "registered", "waiting", "remove", "unlink", "done"}
Outcomes == {"none", "ok", "error", "timeout", "panic"}

Init ==
    /\ reqSent = <<>> /\ counter = 0 /\ isRunning = TRUE
    /\ keepAlive \in BOOLEAN /\ overlapped = FALSE
    /\ pc = [c \in Calls |-> "idle"] /\ idx = [c \in Calls |-> 0]
    /\ cur = [c \in Calls |-> Start] /\ out = [c \in Calls |-> [res |-> "none", of |-> Nil]]
    /\ respChan = [c \in Calls |-> Nil] /\ closeChan = {} /\ closed = {}
    /\ recv = [at |-> "read", cur |-> Start, count |-> IF keepAlive THEN 0 ELSE 1]
    /\ did = [c \in Calls |-> [at |-> "none", cur |-> Start, res |-> "none"]]
    /\ c2s = <<>> /\ s2c = <<>> /\ cliOpen = TRUE /\ svrOpen = TRUE /\ broken = FALSE
    /\ svr = "accept" /\ handler = [c \in Calls |-> "none"]
    /\ crashed = FALSE /\ svrCrashed = FALSE /\ timedOut = {}

\* Mutant: the walk stops one element early.
Advance_MissesLast(e) ==
    IF e = Start THEN IF Len(reqSent) < 2 THEN Nil ELSE Head(reqSent) ELSE Nil

\* The element a walk of reqSent reaches from cursor e.
Advance(e) ==
    LET at == {i \in 1..Len(reqSent) - 1 : reqSent[i] = e}
    IN  IF e = Start THEN IF reqSent = <<>> THEN Nil ELSE Head(reqSent)
        ELSE IF at = {} THEN Nil ELSE reqSent[1 + CHOOSE i \in at : TRUE]

\* list.Remove: an element that is no longer in the list is left alone.
Remove(s, e) ==
    LET k == CHOOSE i \in 1..Len(s) : s[i] = e
    IN  IF e \in Range(s) THEN SubSeq(s, 1, k - 1) \o SubSeq(s, k + 1, Len(s)) ELSE s

-----------------------------------------------------------------------------
(* Client.Call *)

\* Mutant: two calls in a row share an index.
index_CountsPairs(n) == ((n + 1) \div 2) % MaxUint64

index(n) == n % MaxUint64

\* Lines 72-86: index and sentReq.  A client that is not running panics at once.
Call(c) ==
    /\ ~crashed /\ pc[c] = "idle"
    /\ overlapped' = (overlapped \/ \E d \in Calls : pc[d] \notin {"idle", "done"})
    /\ IF isRunning
       THEN /\ counter' = counter + 1
            /\ idx' = [idx EXCEPT ![c] = index(counter + 1)]
            /\ reqSent' = Append(reqSent, c)
            /\ pc' = [pc EXCEPT ![c] = "registered"]
            /\ out' = out
       ELSE /\ pc' = [pc EXCEPT ![c] = "done"]
            /\ out' = [out EXCEPT ![c].res = "panic"]
            /\ UNCHANGED <<counter, idx, reqSent>>
    /\ UNCHANGED <<isRunning, cur, respChan, closeChan, closed, recv, did, crashed, timedOut, keepAlive,
                   net, server>>

\* Lines 89-102: writeMessage and Flush under mtx; an error panics.
Write(c) ==
    /\ ~crashed /\ pc[c] = "registered"
    /\ \/ /\ cliOpen
          /\ c2s' = IF svrOpen /\ ~broken THEN Append(c2s, c) ELSE c2s
          /\ pc' = [pc EXCEPT ![c] = "waiting"]
          /\ out' = out
       \/ /\ ~cliOpen \/ ~svrOpen \/ broken
          /\ pc' = [pc EXCEPT ![c] = "remove"]
          /\ out' = [out EXCEPT ![c].res = "panic"]
          /\ c2s' = c2s
    /\ UNCHANGED <<reqSent, counter, isRunning, idx, cur, respChan, closeChan, closed, recv, did,
                   crashed, timedOut, fixed, s2c, cliOpen, svrOpen, broken, server>>

\* Lines 105-121: the select, any ready branch.
Select(c) ==
    /\ ~crashed /\ pc[c] = "waiting"
    /\ \/ /\ out' = [out EXCEPT ![c].res = "timeout"]
          /\ timedOut' = timedOut \cup {c}
       \/ /\ respChan[c] # Nil
          /\ out' = [out EXCEPT ![c] = respChan[c]]
          /\ timedOut' = timedOut
       \/ /\ c \in closeChan
          /\ out' = [out EXCEPT ![c].res = "panic"]
          /\ timedOut' = timedOut
    /\ pc' = [pc EXCEPT ![c] = "remove"]
    /\ UNCHANGED <<reqSent, counter, isRunning, idx, cur, respChan, closeChan, closed, recv, did,
                   crashed, fixed, net, server>>

\* Mutant: unlinks whatever the walk ended on.
removeReq_NoNilCheck(c) ==
    LET e == Advance(cur[c])
    IN  /\ ~crashed /\ pc[c] = "remove"
        /\ cur' = [cur EXCEPT ![c] = e]
        /\ pc' = [pc EXCEPT ![c] = IF e = Nil \/ idx[e] = idx[c] THEN "unlink" ELSE "remove"]
        /\ closed' = IF e # Nil /\ idx[e] = idx[c] THEN closed \cup {e} ELSE closed
        /\ UNCHANGED <<reqSent, counter, isRunning, idx, out, respChan, closeChan, recv, did,
                       crashed, timedOut, fixed, net, server>>

\* The deferred removeReq walks to the entry and closes both channels ...
removeReq(c) ==
    LET e == Advance(cur[c])
    IN  /\ ~crashed /\ pc[c] = "remove"
        /\ cur' = [cur EXCEPT ![c] = e]
        /\ pc' = [pc EXCEPT ![c] = IF e = Nil THEN "done" ELSE IF idx[e] = idx[c] THEN "unlink" ELSE "remove"]
        /\ closed' = IF e # Nil /\ idx[e] = idx[c] THEN closed \cup {e} ELSE closed
        /\ cliOpen' = (cliOpen /\ (keepAlive \/ e # Nil))
        /\ UNCHANGED <<reqSent, counter, isRunning, idx, out, respChan, closeChan, recv, did,
                       crashed, timedOut, fixed, c2s, s2c, svrOpen, broken, server>>

\* Mutant: closes the channels and leaves the entry.
removeReqUnlink_KeepsEntry(c) ==
    /\ ~crashed /\ pc[c] = "unlink"
    /\ pc' = [pc EXCEPT ![c] = "done"]
    /\ cliOpen' = (cliOpen /\ keepAlive)
    /\ UNCHANGED <<reqSent, counter, isRunning, idx, cur, out, respChan, closeChan, closed, recv, did,
                   crashed, timedOut, fixed, c2s, s2c, svrOpen, broken, server>>

\* ... then unlinks it under queueMtx; the deferred conn.Close comes last.
removeReqUnlink(c) ==
    /\ ~crashed /\ pc[c] = "unlink"
    /\ reqSent' = Remove(reqSent, cur[c])
    /\ pc' = [pc EXCEPT ![c] = "done"]
    /\ cliOpen' = (cliOpen /\ keepAlive)
    /\ UNCHANGED <<counter, isRunning, idx, cur, out, respChan, closeChan, closed, recv, did,
                   crashed, timedOut, fixed, c2s, s2c, svrOpen, broken, server>>

\* Client.Close, by the owner of the client.
Close ==
    /\ ~crashed /\ cliOpen
    /\ cliOpen' = FALSE
    /\ UNCHANGED <<client, c2s, s2c, svrOpen, broken, server>>

-----------------------------------------------------------------------------
(* The client's receiving goroutines *)

recvResponse ==
    /\ ~crashed /\ recv.at = "read" /\ cliOpen /\ s2c # <<>>
    /\ did' = [did EXCEPT ![Head(s2c).of] = [at |-> "walk", cur |-> Start, res |-> Head(s2c).res]]
    /\ s2c' = Tail(s2c)
    /\ recv' = IF recv.count = 1 THEN [recv EXCEPT !.at = "stopped"] ELSE recv
    /\ UNCHANGED <<reqSent, counter, isRunning, pc, idx, cur, out, respChan, closeChan, closed,
                   crashed, timedOut, fixed, c2s, cliOpen, svrOpen, broken, server>>

recvError ==
    /\ ~crashed /\ recv.at = "read"
    /\ ~cliOpen \/ broken \/ (~svrOpen /\ s2c = <<>>)
    /\ isRunning' = FALSE
    /\ recv' = [recv EXCEPT !.at = "close"]
    /\ UNCHANGED <<reqSent, counter, pc, idx, cur, out, respChan, closeChan, closed, did,
                   crashed, timedOut, fixed, net, server>>

\* One round of the loop in sendCloseChan: a send on a closed channel panics.
sendCloseChan ==
    LET e == Advance(recv.cur)
    IN  /\ ~crashed /\ recv.at = "close"
        /\ recv' = [recv EXCEPT !.cur = e, !.at = IF e = Nil THEN "stopped" ELSE "close"]
        /\ crashed' = (e \in closed)
        /\ cliOpen' = (cliOpen /\ ~crashed')
        /\ closeChan' = closeChan \cup ({e} \ (closed \cup {Nil}))
        /\ UNCHANGED <<reqSent, counter, isRunning, pc, idx, cur, out, respChan, closed, did,
                       timedOut, fixed, c2s, s2c, svrOpen, broken, server>>

\* Mutant: hands the answer to the oldest request.
didWalk_NoIndex(r) ==
    LET e == Advance(did[r].cur)
    IN  /\ ~crashed /\ did[r].at = "walk"
        /\ did' = [did EXCEPT ![r].cur = e, ![r].at = IF e = Nil THEN "dropped" ELSE "send"]
        /\ UNCHANGED <<reqSent, counter, isRunning, pc, idx, cur, out, respChan, closeChan, closed, recv,
                       crashed, timedOut, fixed, net, server>>

\* didRecvResponse for the answer to request r: walk by index, then send.
didWalk(r) ==
    LET e == Advance(did[r].cur)
    IN  /\ ~crashed /\ did[r].at = "walk"
        /\ did' = [did EXCEPT ![r].cur = e,
                              ![r].at = IF e = Nil THEN "dropped"
                                        ELSE IF idx[e] = idx[r] THEN "send" ELSE "walk"]
        /\ UNCHANGED <<reqSent, counter, isRunning, pc, idx, cur, out, respChan, closeChan, closed, recv,
                       crashed, timedOut, fixed, net, server>>

didSend(r) ==
    LET e == did[r].cur
    IN  /\ ~crashed /\ did[r].at = "send"
        /\ e \in closed \/ respChan[e] = Nil
        /\ crashed' = (e \in closed)
        /\ cliOpen' = (cliOpen /\ ~crashed')
        /\ respChan' = IF e \in closed THEN respChan ELSE [respChan EXCEPT ![e] = [res |-> did[r].res, of |-> r]]
        /\ did' = [did EXCEPT ![r].at = "sent"]
        /\ UNCHANGED <<reqSent, counter, isRunning, pc, idx, cur, out, closeChan, closed, recv,
                       timedOut, fixed, c2s, s2c, svrOpen, broken, server>>

-----------------------------------------------------------------------------
(* The server *)

Accept ==
    /\ ~svrCrashed /\ svr = "accept"
    /\ svr' = "read"
    /\ UNCHANGED <<client, net, handler, svrCrashed>>

readRequest ==
    /\ ~svrCrashed /\ svr = "read" /\ c2s # <<>> /\ ~broken
    /\ c2s' = Tail(c2s)
    /\ handler' = [handler EXCEPT ![Head(c2s)] = "started"]
    /\ UNCHANGED <<client, s2c, cliOpen, svrOpen, broken, svr, svrCrashed>>

\* Mutant: an idle connection is taken for a closed one.
readError_WhenIdle ==
    /\ ~svrCrashed /\ svr = "read"
    /\ broken \/ c2s = <<>>
    /\ svr' = "closed" /\ svrOpen' = FALSE
    /\ UNCHANGED <<client, c2s, s2c, cliOpen, broken, handler, svrCrashed>>

\* The read fails: the deferred close drops the connection from connList.
readError ==
    /\ ~svrCrashed /\ svr = "read"
    /\ broken \/ (~cliOpen /\ c2s = <<>>)
    /\ svr' = "closed" /\ svrOpen' = FALSE
    /\ UNCHANGED <<client, c2s, s2c, cliOpen, broken, handler, svrCrashed>>

\* Lines 106-123: look the method up, which panics if it is unknown, and run it.
handleRequest(r) ==
    /\ ~svrCrashed /\ handler[r] = "started"
    /\ \E res \in {"ok", "error", "unknown"} : handler' = [handler EXCEPT ![r] = res]
    /\ svrCrashed' = (handler'[r] = "unknown")
    /\ svrOpen' = (svrOpen /\ ~svrCrashed')
    /\ UNCHANGED <<client, c2s, s2c, cliOpen, broken, svr>>

\* Lines 125-135: write and flush under the connection's mutex; an error
\* panics, and a write to a peer that is gone may or may not report one.
writeResponse(r) ==
    /\ ~svrCrashed /\ handler[r] \in {"ok", "error"}
    /\ handler' = [handler EXCEPT ![r] = "written"]
    /\ \/ /\ svrOpen
          /\ s2c' = IF cliOpen /\ ~broken THEN Append(s2c, [res |-> handler[r], of |-> r]) ELSE s2c
          /\ UNCHANGED <<svrCrashed, svrOpen>>
       \/ /\ ~svrOpen \/ ~cliOpen \/ broken
          /\ svrCrashed' = TRUE /\ svrOpen' = FALSE
          /\ s2c' = s2c
    /\ UNCHANGED <<client, c2s, cliOpen, broken, svr>>

\* The network drops the connection.
Break ==
    /\ ~broken
    /\ broken' = TRUE
    /\ UNCHANGED <<client, c2s, s2c, cliOpen, svrOpen, server>>

-----------------------------------------------------------------------------
CallStep(c) == Write(c) \/ Select(c) \/ removeReq(c) \/ removeReqUnlink(c)
Receive == recvResponse \/ recvError \/ sendCloseChan
Deliver(r) == didWalk(r) \/ didSend(r)
Serve == Accept \/ readRequest \/ readError
Handle(r) == handleRequest(r) \/ writeResponse(r)

Next ==
    \/ Receive \/ Serve \/ Close \/ Break
    \/ \E c \in Calls : Call(c) \/ CallStep(c) \/ Deliver(c) \/ Handle(c)

Spec == Init /\ [][Next]_vars

-----------------------------------------------------------------------------
(* Properties *)

\* Type invariant.
TypeOK ==
    /\ reqSent \in Seq(Calls) /\ counter \in Nat /\ isRunning \in BOOLEAN
    /\ pc \in [Calls -> Places] /\ idx \in [Calls -> 0..MaxUint64 - 1]
    /\ cur \in [Calls -> Calls \cup {Start, Nil}]
    /\ \A c \in Calls : pc[c] = "unlink" => cur[c] \in Calls
    /\ out \in [Calls -> [res : Outcomes, of : Calls \cup {Nil}]]
    /\ respChan \in [Calls -> [res : {"ok", "error"}, of : Calls] \cup {Nil}]
    /\ closeChan \subseteq Calls /\ closed \subseteq Calls /\ timedOut \subseteq Calls
    /\ recv \in [at : {"read", "close", "stopped"}, cur : Calls \cup {Start, Nil}, count : {0, 1}]
    /\ did \in [Calls -> [at : {"none", "walk", "send", "sent", "dropped"},
                          cur : Calls \cup {Start, Nil}, res : {"none", "ok", "error"}]]
    /\ c2s \in Seq(Calls) /\ s2c \in Seq([res : {"ok", "error"}, of : Calls])
    /\ {cliOpen, svrOpen, broken, crashed, svrCrashed, keepAlive, overlapped} \subseteq BOOLEAN
    /\ svr \in {"accept", "read", "closed"}
    /\ handler \in [Calls -> {"none", "started", "ok", "error", "unknown", "written"}]

\* Call returns the answer to its own request, although the server answers in
\* any order and late answers to calls that timed out are still under way.
Correlated == \A c \in Calls : out[c].of \in {Nil, c}

\* No didRecvResponse goroutine is ever stuck on a full channel.
SendNeverBlocks ==
    \A r \in Calls : did[r].at = "send" => did[r].cur \in closed \/ respChan[did[r].cur] = Nil

\* Neither process dies without a fault. The client dies of a send on a closed
\* channel only after a call timed out or the connection was lost, the server
\* of an unknown method, or of an answer it could not write because the
\* client's end was gone.
CrashNeedsFault ==
    /\ crashed => timedOut # {} \/ ~isRunning
    /\ svrCrashed => ~cliOpen \/ broken \/ \E r \in Calls : handler[r] = "unknown"

\* An answer that arrives is dropped only when its call has stopped waiting,
\* on a client used by one call at a time as the pool hands it out.
AnswerReachesCall ==
    ~overlapped => \A r \in Calls : did[r].at = "dropped" => pc[r] \notin {"registered", "waiting"}

\* A call that returned has left reqSent, under the same use.
NoLeakedRequest == ~overlapped => \A c \in Calls : pc[c] = "done" => c \notin Range(reqSent)

\* The goroutines of client and server do not block each other, and no order
\* of answers, timeouts and closes alone ends a process.
CallsSafe == TypeOK /\ SendNeverBlocks /\ CrashNeedsFault

\* reqSent, walked without its lock: no answer misses a call that waits, and
\* no call leaves its entry behind.
EntriesMatch == AnswerReachesCall /\ NoLeakedRequest
=============================================================================

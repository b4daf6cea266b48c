------------------------------ MODULE WSClient ------------------------------
(***************************************************************************)
(* The websocket client of rpc/lib/client/ws_client.go after OnStart: the  *)
(* read, write and reconnect routines, Send, and Stop called by the user   *)
(* and by the reconnect routine.                                           *)
(*                                                                         *)
(* A connection is up, cut by the network (a write may still succeed and be*)
(* lost) or closed by a routine of the client.  A read error is one that   *)
(* IsUnexpectedCloseError tells from a normal closure, or not.             *)
(***************************************************************************)
EXTENDS Naturals, FiniteSets

CONSTANTS Reqs,        \* the requests users send, each once
          MaxAttempts, \* maxReconnectAttempts
          MaxCuts,     \* bound: how often the network cuts a connection
          Nil

ASSUME WSClientAssumption ==
    MaxAttempts \in Nat /\ MaxCuts \in Nat /\ Nil \notin Reqs

VARIABLES
    conn, answers,      \* the connection, the responses on their way on it
    reader, got,        \* readRoutine: place, response in hand
    writer, req,        \* writeRoutine: place, request in hand
    readQuit,           \* is readRoutineQuit closed?
    rec, attempt, resend, \* reconnectRoutine: place, attempts, request it writes again
    reconnectAfter, backlog, \* errors buffered, request buffered
    user,               \* the user's Stop
    stopped,            \* BaseService: stopped, and quit closed
    respClosed,         \* is ResponsesCh closed?
    accepted, written,  \* history: requests that Send returned for, that a write succeeded for
    cuts,
    pings, listening    \* pingPeriod > 0; does the user receive from ResponsesCh?

net == <<conn, answers, cuts>>
usage == <<pings, listening>>
reading == <<reader, got, readQuit>>
writing == <<writer, req>>
reconnecting == <<rec, attempt, resend>>
stopping == <<user, stopped, respClosed>>
vars == <<net, reading, writing, reconnecting, reconnectAfter, backlog, stopping, accepted, written,
          usage>>

\* OnStart has dialled and started the three routines.
OnStart ==
    /\ conn = "up" /\ answers = {} /\ cuts = 0
    /\ reader = "read" /\ got = Nil /\ readQuit = FALSE
    /\ writer = "select" /\ req = Nil
    /\ rec = "select" /\ attempt = 0 /\ resend = Nil
    /\ reconnectAfter = 0 /\ backlog = Nil
    /\ user = "none" /\ stopped = FALSE /\ respClosed = FALSE
    /\ accepted = {} /\ written = {}
    /\ pings \in BOOLEAN /\ listening \in BOOLEAN

\* wg.Wait() returns: neither routine runs.
wgDone == reader = "off" /\ writer = "off"

\* Mutant: a buffer of two.
pushError_TwoSlots == reconnectAfter < 2 /\ reconnectAfter' = reconnectAfter + 1

\* reconnectAfter <- err, into a buffer of one.
pushError == reconnectAfter < 1 /\ reconnectAfter' = reconnectAfter + 1

-----------------------------------------------------------------------------
(* writeRoutine *)

\* Send meets the select of the write routine; there is no buffer between them.
Send(r) ==
    /\ writer = "select" /\ r \notin accepted
    /\ accepted' = accepted \cup {r}
    /\ req' = r
    /\ writer' = "write"
    /\ UNCHANGED <<net, reading, reconnecting, reconnectAfter, backlog, stopping, written, usage>>

\* The outcomes of WriteJSON.
WriteOK(r) == /\ conn # "closed"
              /\ written' = written \cup {r}
              /\ answers' = IF conn = "up" THEN answers \cup {r} ELSE answers
WriteFails == conn # "up" /\ UNCHANGED <<written, answers>>

writeRequest ==
    /\ writer = "write"
    /\ \/ WriteOK(req) /\ writer' = "select" /\ req' = Nil
       \/ WriteFails /\ writer' = "error" /\ UNCHANGED req
    /\ UNCHANGED <<conn, cuts, reading, reconnecting, reconnectAfter, backlog, stopping, accepted, usage>>

\* The deferred c.conn.Close() and wg.Done().
endWriter == writer' = "off" /\ req' = Nil /\ conn' = "closed" /\ UNCHANGED <<answers, cuts>>

\* The ticker fires and the ping cannot be written.
writePing ==
    /\ writer = "select" /\ pings /\ conn # "up"
    /\ writer' = "error"
    /\ UNCHANGED <<net, reading, req, reconnecting, reconnectAfter, backlog, stopping, accepted, written, usage>>

writeError ==
    /\ writer = "error" /\ pushError
    /\ writer' = "backlog"
    /\ UNCHANGED <<net, reading, req, reconnecting, backlog, stopping, accepted, written, usage>>

\* Mutant: the request is not kept.
writeBacklog_Drops ==
    /\ writer = "backlog"
    /\ UNCHANGED backlog
    /\ endWriter
    /\ UNCHANGED <<reading, reconnecting, reconnectAfter, stopping, accepted, written, usage>>

\* A request, not a ping, goes to the backlog.
writeBacklog ==
    /\ writer = "backlog"
    /\ IF req = Nil THEN UNCHANGED backlog ELSE backlog = Nil /\ backlog' = req
    /\ endWriter
    /\ UNCHANGED <<reading, reconnecting, reconnectAfter, stopping, accepted, written, usage>>

\* readRoutineQuit or Quit is closed.
writeQuit ==
    /\ writer = "select" /\ (readQuit \/ stopped)
    /\ endWriter
    /\ UNCHANGED <<reading, reconnecting, reconnectAfter, backlog, stopping, accepted, written, usage>>

-----------------------------------------------------------------------------
(* readRoutine *)

readResponse ==
    /\ reader = "read" /\ conn = "up"
    /\ \E r \in answers : got' = r /\ answers' = answers \ {r}
    /\ reader' = "deliver"
    /\ UNCHANGED <<conn, cuts, readQuit, writing, reconnecting, reconnectAfter, backlog, stopping, accepted, written, usage>>

\* Mutant: sends to ResponsesCh only.
deliver_NoQuit ==
    /\ reader = "deliver" /\ listening
    /\ reader' = "read" /\ got' = Nil
    /\ UNCHANGED <<net, readQuit, writing, reconnecting, reconnectAfter, backlog, stopping, accepted, written, usage>>

\* The user receives the response, or Quit is closed.
deliver ==
    /\ reader = "deliver" /\ (listening \/ stopped)
    /\ reader' = "read" /\ got' = Nil
    /\ UNCHANGED <<net, readQuit, writing, reconnecting, reconnectAfter, backlog, stopping, accepted, written, usage>>

\* Any other error than an unexpected closure ends the routine at once.
readEnds ==
    /\ reader = "read" /\ conn # "up"
    /\ reader' = "off" /\ conn' = "closed"
    /\ UNCHANGED <<answers, cuts, got, readQuit, writing, reconnecting, reconnectAfter, backlog, stopping, accepted, written, usage>>

readFails ==
    /\ reader = "read" /\ conn = "cut"
    /\ readQuit' = TRUE
    /\ reader' = "error"
    /\ UNCHANGED <<net, got, writing, reconnecting, reconnectAfter, backlog, stopping, accepted, written, usage>>

readError ==
    /\ reader = "error" /\ pushError
    /\ reader' = "off" /\ conn' = "closed"
    /\ UNCHANGED <<answers, cuts, got, readQuit, writing, reconnecting, backlog, stopping, accepted, written, usage>>

-----------------------------------------------------------------------------
(* reconnectRoutine *)

recTake ==
    /\ rec = "select" /\ reconnectAfter > 0
    /\ reconnectAfter' = reconnectAfter - 1
    /\ rec' = "wait"
    /\ UNCHANGED <<net, reading, writing, attempt, resend, backlog, stopping, accepted, written, usage>>

recQuit ==
    /\ rec = "select" /\ stopped
    /\ rec' = "done"
    /\ UNCHANGED <<net, reading, writing, attempt, resend, reconnectAfter, backlog, stopping, accepted, written, usage>>

\* Mutant: reconnects while a routine still runs.
recWait_NoWait ==
    /\ rec = "wait"
    /\ rec' = "dial" /\ attempt' = 0
    /\ UNCHANGED <<net, reading, writing, resend, reconnectAfter, backlog, stopping, accepted, written, usage>>

recWait ==
    /\ rec = "wait" /\ wgDone
    /\ rec' = "dial" /\ attempt' = 0
    /\ UNCHANGED <<net, reading, writing, resend, reconnectAfter, backlog, stopping, accepted, written, usage>>

\* One attempt of reconnect.
reconnect ==
    /\ rec = "dial"
    /\ \/ rec' = "drain" /\ conn' = "up" /\ answers' = {} /\ UNCHANGED attempt
       \/ /\ attempt' = attempt + 1
          /\ rec' = IF attempt' > MaxAttempts THEN "stop" ELSE "dial"
          /\ UNCHANGED <<conn, answers>>
    /\ UNCHANGED <<cuts, reading, writing, resend, reconnectAfter, backlog, stopping, accepted, written, usage>>

\* Mutant: does not drain.
recDrain_Keeps ==
    /\ rec = "drain"
    /\ rec' = "process"
    /\ UNCHANGED <<net, reading, writing, attempt, resend, reconnectAfter, backlog, stopping, accepted, written, usage>>

recDrain ==
    /\ rec = "drain"
    /\ reconnectAfter' = 0
    /\ rec' = "process"
    /\ UNCHANGED <<net, reading, writing, attempt, resend, backlog, stopping, accepted, written, usage>>

\* Mutant: a request that cannot be written again is dropped.
processBacklog_Drops ==
    /\ rec = "process"
    /\ backlog' = Nil /\ rec' = "start"
    /\ \/ backlog = Nil /\ UNCHANGED <<written, answers>>
       \/ backlog # Nil /\ (WriteOK(backlog) \/ WriteFails)
    /\ UNCHANGED <<conn, cuts, reading, writing, attempt, resend, reconnectAfter, stopping, accepted, usage>>

processBacklog ==
    /\ rec = "process"
    /\ backlog' = Nil
    /\ \/ backlog = Nil /\ rec' = "start" /\ UNCHANGED <<written, answers, resend>>
       \/ backlog # Nil /\ WriteOK(backlog) /\ rec' = "start" /\ UNCHANGED resend
       \/ backlog # Nil /\ WriteFails /\ rec' = "error" /\ resend' = backlog
    /\ UNCHANGED <<conn, cuts, reading, writing, attempt, reconnectAfter, stopping, accepted, usage>>

processError ==
    /\ rec = "error" /\ pushError
    /\ rec' = "requeue"
    /\ UNCHANGED <<net, reading, writing, attempt, resend, backlog, stopping, accepted, written, usage>>

processRequeue ==
    /\ rec = "requeue" /\ backlog = Nil
    /\ backlog' = resend /\ resend' = Nil
    /\ rec' = "select"
    /\ UNCHANGED <<net, reading, writing, attempt, reconnectAfter, stopping, accepted, written, usage>>

startReadWriteRoutines ==
    /\ rec = "start"
    /\ reader' = "read" /\ got' = Nil /\ readQuit' = FALSE
    /\ writer' = "select" /\ req' = Nil
    /\ rec' = "select"
    /\ UNCHANGED <<net, attempt, resend, reconnectAfter, backlog, stopping, accepted, written, usage>>

-----------------------------------------------------------------------------
(* Stop *)

\* Stop of the user: a stopped service returns ErrAlreadyStopped.
Stop ==
    /\ user = "none" /\ ~stopped
    /\ stopped' = TRUE
    /\ user' = "wait"
    /\ UNCHANGED <<net, reading, writing, reconnecting, reconnectAfter, backlog, respClosed, accepted, written, usage>>

\* Stop of the reconnect routine, which has run out of attempts.
recStop ==
    /\ rec = "stop"
    /\ rec' = IF stopped THEN "done" ELSE "stopwait"
    /\ stopped' = TRUE
    /\ UNCHANGED <<net, reading, writing, attempt, resend, reconnectAfter, backlog, user, respClosed, accepted, written, usage>>

\* wg.Wait() and close(c.ResponsesCh).
StopWait ==
    /\ wgDone
    /\ \/ user = "wait" /\ user' = "done" /\ UNCHANGED rec
       \/ rec = "stopwait" /\ rec' = "done" /\ UNCHANGED user
    /\ respClosed' = TRUE
    /\ UNCHANGED <<net, reading, writing, attempt, resend, reconnectAfter, backlog, stopped, accepted, written, usage>>

\* The network.
Cut ==
    /\ conn = "up" /\ cuts < MaxCuts
    /\ conn' = "cut" /\ answers' = {} /\ cuts' = cuts + 1
    /\ UNCHANGED <<reading, writing, reconnecting, reconnectAfter, backlog, stopping, accepted, written, usage>>

-----------------------------------------------------------------------------
writeRoutine == writeRequest \/ writeError \/ writeBacklog \/ writeQuit
readRoutine == readResponse \/ deliver \/ readEnds \/ readFails \/ readError
reconnectRoutine ==
    \/ recTake \/ recQuit \/ recWait \/ reconnect \/ recDrain
    \/ processBacklog \/ processError \/ processRequeue \/ startReadWriteRoutines \/ recStop

Next ==
    \/ \E r \in Reqs : Send(r)
    \/ writeRoutine \/ writePing \/ readRoutine \/ reconnectRoutine
    \/ Stop \/ StopWait \/ Cut

Spec == OnStart /\ [][Next]_vars

\* The goroutines keep running, and the ticker keeps firing.
FairSpec == /\ Spec /\ WF_vars(writeRoutine) /\ WF_vars(writePing) /\ WF_vars(readRoutine)
            /\ WF_vars(reconnectRoutine) /\ WF_vars(StopWait)

-----------------------------------------------------------------------------
(* Properties *)

\* Type invariant.
TypeOK ==
    /\ conn \in {"up", "cut", "closed"} /\ answers \subseteq Reqs /\ cuts \in 0..MaxCuts
    /\ reader \in {"read", "deliver", "error", "off"} /\ got \in Reqs \cup {Nil}
    /\ writer \in {"select", "write", "error", "backlog", "off"} /\ req \in Reqs \cup {Nil}
    /\ rec \in {"select", "wait", "dial", "drain", "process", "error", "requeue", "start", "stop",
                "stopwait", "done"}
    /\ attempt \in 0..(MaxAttempts + 1) /\ resend \in Reqs \cup {Nil}
    /\ reconnectAfter \in 0..1 /\ backlog \in Reqs \cup {Nil}
    /\ user \in {"none", "wait", "done"} /\ {readQuit, stopped, respClosed} \subseteq BOOLEAN
    /\ written \subseteq accepted /\ accepted \subseteq Reqs

\* From the dial to the start of new routines the old ones are gone: at most
\* one goroutine reads from, and one writes to, a connection, also while the
\* reconnect routine writes the backlog.
OneWriter == rec \in {"dial", "drain", "process", "error", "requeue", "start", "stopwait"} => wgDone

\* The reconnect routine, the only receiver of reconnectAfter, never blocks
\* when it sends to it, nor on the backlog; nor does the write routine.
BuffersSuffice ==
    /\ rec = "error" => reconnectAfter = 0
    /\ rec = "requeue" => backlog = Nil
    /\ writer = "backlog" => req = Nil \/ backlog = Nil

\* A request that Send has returned for was written to a connection, or is in
\* exactly one hand that will write it or keep it.
NotLost ==
    \A r \in accepted \ written :
        Cardinality({h \in {"writer", "backlog", "rec"} :
            r = CASE h = "writer" -> req [] h = "backlog" -> backlog [] h = "rec" -> resend}) = 1

\* The requests that Send has returned for are written, unless the client
\* stops, when it sends no pings and its user receives: the request whose
\* write failed survives the reconnection, and one that fails again.  There
\* are finitely many requests, so all are written again and again.
Resent == ~pings /\ listening => []<>(accepted \subseteq written \/ stopped)

\* On a connection that holds Stop returns, though nobody receives responses.
CalmStopReturns == [](cuts = 0) => (user = "wait" ~> user = "done")

\* A routine that starts after Stop has closed ResponsesCh, and may send to
\* it, needs a reconnection: on a connection that held there is none.
LateStartNeedsCut == respClosed /\ ~wgDone => cuts > 0

\* One goroutine writes to a connection, no send of the reconnect routine
\* blocks, and ResponsesCh is closed under a reader only by a reconnection.
RoutinesApart == TypeOK /\ OneWriter /\ BuffersSuffice /\ LateStartNeedsCut

\* ws_client.go:178 "only close user-facing channels when we can't write to
\* them": whatever the connection does.
ClosedWhenUnused == respClosed => reader = "off"

\* Stop returns, whatever the connection does.
StopReturns == user = "wait" ~> user = "done"
=============================================================================

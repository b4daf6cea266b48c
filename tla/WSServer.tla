------------------------------- MODULE WSServer -------------------------------
(***************************************************************************)
(* rpc/lib/server: how a JSON-RPC request is answered, over HTTP and over  *)
(* a websocket, and the two routines of a wsConnection with the            *)
(* subscriptions made through it.                                          *)
(*                                                                         *)
(* A request has an id ("" for a notification), or is not JSON; it names a *)
(* function, or none that is known; its params are absent, an object, an   *)
(* object with a value that does not decode, an array with as many values  *)
(* as the function has arguments, an array with another number, or         *)
(* something else.                                                         *)
(***************************************************************************)
EXTENDS Integers, Sequences, SequencesExt, FiniteSets, TLC

CONSTANTS Requests,    \* what the client may send: [json, id, method, params]
          MaxSent, MaxEvents, MaxPings, \* bounds: requests, events, pings either way
          ChanCap      \* writeChanCapacity

-----------------------------------------------------------------------------
\* Functions: whether for websockets only, and how many arguments are named.
\* The websocket functions also take the context.
funcMap == [status |-> [ws |-> FALSE, names |-> 0], block |-> [ws |-> FALSE, names |-> 1],
            subscribe |-> [ws |-> TRUE, names |-> 1], unsubscribe |-> [ws |-> TRUE, names |-> 0]]
Known(r) == r.method \in DOMAIN funcMap
NumIn(f) == f.names + IF f.ws THEN 1 ELSE 0

\* A missing value of an object is the zero value.
mapParamsToArgs(f, r) == IF r.params = "badmap" /\ f.names > 0 THEN -1 ELSE f.names
arrayParamsToArgs(f, r) == IF r.params = "array" THEN f.names ELSE -1

\* The number of arguments, or -1 for an error.
jsonParamsToArgs(f, r) ==
    CASE r.params \in {"map", "badmap"} -> mapParamsToArgs(f, r)
      [] r.params \in {"array", "wrongarray"} -> arrayParamsToArgs(f, r)
      [] OTHER -> -1

\* Without params there are no arguments, not even the context.
argsRPC(f, r) == IF r.params = "absent" THEN 0 ELSE jsonParamsToArgs(f, r)
argsWS(f, r) ==
    CASE r.params = "absent" -> 0
      [] r.params # "absent" /\ jsonParamsToArgs(f, r) = -1 -> -1
      [] OTHER -> jsonParamsToArgs(f, r) + IF f.ws THEN 1 ELSE 0

\* f.Call panics, with a string, unless the number of arguments is right;
\* otherwise the function decides.  "panic" is one with an error.
Panics == {"panic", "panic string"}
Does == {"result", "error"} \cup Panics
Outcomes(f, n) == IF n = NumIn(f) THEN Does ELSE {"panic string"}
Answer(kind, id) == [kind |-> kind, id |-> id]
NoAnswer == Answer("none", "")

\* makeJSONRPCHandler, given what the function does if it is called.  A panic
\* is answered by RecoverAndLogHandler if its value is an error; otherwise
\* e.(error) panics again, and net/http drops the connection.
HTTPAnswer(r, does) ==
    LET f == funcMap[r.method]
    IN  CASE ~r.json -> Answer("parse error", "")
          [] r.json /\ r.id = "" -> NoAnswer
          [] r.json /\ r.id # "" /\ (~Known(r) \/ f.ws) -> Answer("method not found", r.id)
          [] r.json /\ r.id # "" /\ Known(r) /\ ~f.ws /\ argsRPC(f, r) = -1 -> Answer("invalid params", r.id)
          [] OTHER -> CASE does = "panic" -> Answer("internal error", "")
                        [] does = "panic string" -> Answer("dropped", "")
                        [] OTHER -> Answer(does, r.id)

\* The rest of readRoutine's loop, after ReadMessage.
WSCalls(r) == r.json /\ r.id # "" /\ Known(r) /\ argsWS(funcMap[r.method], r) # -1

\* Mutant: a request is answered with the id of none when its params are bad.
WSAnswer_NoId(r, does) ==
    CASE ~r.json -> Answer("parse error", "")
      [] r.json /\ r.id = "" -> NoAnswer
      [] r.json /\ r.id # "" /\ ~Known(r) -> Answer("method not found", r.id)
      [] r.json /\ r.id # "" /\ Known(r) /\ ~WSCalls(r) -> Answer("internal error", "")
      [] OTHER -> IF does \in Panics THEN Answer("internal error", "unknown") ELSE Answer(does, r.id)

WSAnswer(r, does) ==
    CASE ~r.json -> Answer("parse error", "")
      [] r.json /\ r.id = "" -> NoAnswer
      [] r.json /\ r.id # "" /\ ~Known(r) -> Answer("method not found", r.id)
      [] r.json /\ r.id # "" /\ Known(r) /\ ~WSCalls(r) -> Answer("internal error", r.id)
      [] OTHER -> IF does \in Panics THEN Answer("internal error", "unknown") ELSE Answer(does, r.id)

-----------------------------------------------------------------------------
VARIABLES conn,      \* the socket: open, or closed by the client or the server
          inbox,     \* requests sent and not read
          reader,    \* readRoutine
          writer,    \* writeRoutine
          writeChan, pongs, stopped, quit,
          subs,      \* whether the address has a subscription
          wire,      \* the answers written to the socket
          asked,     \* history: requests read, with what their function did
          dropped,   \* history: answers WriteRPCResponse gave up
          late,      \* history: a function subscribed after UnsubscribeAll
          sent, events, pings
wvars == <<conn, inbox, reader, writer, writeChan, pongs, stopped, quit, subs, wire, asked, dropped,
           late, sent, events, pings>>

Event == Answer("event", "")
InitWS == /\ conn = "open" /\ inbox = <<>>
          /\ reader = [at |-> "check"] /\ writer = [at |-> "select"]
          /\ writeChan = <<>> /\ pongs = 0 /\ stopped = FALSE /\ quit = FALSE /\ subs = FALSE
          /\ wire = <<>> /\ asked = <<>> /\ dropped = 0 /\ late = FALSE
          /\ sent = 0 /\ events = 0 /\ pings = 0

\* The client.
ClientSends == /\ conn = "open" /\ sent < MaxSent
               /\ \E r \in Requests : inbox' = Append(inbox, r)
               /\ sent' = sent + 1
               /\ UNCHANGED <<conn, reader, writer, writeChan, pongs, stopped, quit, subs, wire, asked,
                              dropped, late, events, pings>>
ClientCloses == /\ conn = "open" /\ conn' = "closed"
                /\ UNCHANGED <<inbox, reader, writer, writeChan, pongs, stopped, quit, subs, wire, asked,
                               dropped, late, sent, events, pings>>

\* Stop: OnStop unsubscribes, then quit is closed.  `then` is where the
\* routine goes on.
StopBegins(routine, then) ==
    IF stopped THEN [routine EXCEPT !.at = then] ELSE [at |-> "stop", then |-> then]
StopEnds(routine) == [at |-> routine.then]

\* readRoutine: select on quit, else read.
Check == /\ reader.at = "check"
         /\ reader' = [at |-> IF quit THEN "close" ELSE "read"]
         /\ UNCHANGED <<conn, inbox, writer, writeChan, pongs, stopped, quit, subs, wire, asked, dropped,
                        late, sent, events, pings>>
\* What was received is read before the end of the connection is noticed;
\* once this side has closed it nothing is read.
ReadMessage ==
    /\ reader.at = "read" /\ inbox # <<>> /\ conn # "shut"
    /\ inbox' = Tail(inbox)
    /\ reader' = IF WSCalls(Head(inbox)) THEN [at |-> "call", r |-> Head(inbox)]
                 ELSE [at |-> "answer", a |-> WSAnswer(Head(inbox), "")]
    /\ asked' = IF WSCalls(Head(inbox)) THEN asked ELSE Append(asked, WSAnswer(Head(inbox), ""))
    /\ UNCHANGED <<conn, writer, writeChan, pongs, stopped, quit, subs, wire, dropped, late, sent,
                   events, pings>>
\* The client is gone, sends nothing for readWait, or this side closed.
ReadFails ==
    /\ reader.at = "read" /\ (inbox = <<>> \/ conn = "shut")
    /\ reader' = StopBegins(reader, "close") /\ stopped' = TRUE
    /\ UNCHANGED <<conn, inbox, writer, writeChan, pongs, quit, subs, wire, asked, dropped, late, sent,
                   events, pings>>
\* The ping handler, called by ReadMessage: a second pong is dropped.
ReadPing == /\ reader.at = "read" /\ conn = "open" /\ pings < MaxPings
            /\ pongs' = 1 /\ pings' = pings + 1
            /\ UNCHANGED <<conn, inbox, reader, writer, writeChan, stopped, quit, subs, wire, asked,
                           dropped, late, sent, events>>

Subscribes(r) == r.method = "subscribe"
Call ==
    /\ reader.at = "call"
    /\ \E does \in Outcomes(funcMap[reader.r.method], argsWS(funcMap[reader.r.method], reader.r)) :
          /\ reader' = [at |-> "answer", a |-> WSAnswer(reader.r, does)]
          /\ asked' = Append(asked, WSAnswer(reader.r, does))
          /\ subs' = IF does = "result" /\ reader.r.method = "unsubscribe" THEN FALSE
                     ELSE subs \/ (does = "result" /\ Subscribes(reader.r))
          /\ late' = (late \/ (does = "result" /\ Subscribes(reader.r) /\ stopped))
    /\ UNCHANGED <<conn, inbox, writer, writeChan, pongs, stopped, quit, wire, dropped, sent, events, pings>>

\* WriteRPCResponse: either case of the select that is ready.  After a panic
\* it is the deferred function that answers, and then starts readRoutine anew.
WriteRPCResponse ==
    /\ reader.at = "answer"
    /\ \/ /\ reader.a = NoAnswer /\ UNCHANGED <<writeChan, dropped>>
       \/ /\ reader.a # NoAnswer /\ Len(writeChan) < ChanCap
          /\ writeChan' = Append(writeChan, reader.a) /\ UNCHANGED dropped
       \/ /\ reader.a # NoAnswer /\ quit
          /\ dropped' = dropped + 1 /\ UNCHANGED writeChan
    /\ reader' = [at |-> "check"]
    /\ UNCHANGED <<conn, inbox, writer, pongs, stopped, quit, subs, wire, asked, late, sent, events, pings>>

ReaderStops == /\ reader.at = "stop"
               /\ reader' = StopEnds(reader) /\ subs' = FALSE /\ quit' = TRUE
               /\ UNCHANGED <<conn, inbox, writer, writeChan, pongs, stopped, wire, asked, dropped, late,
                              sent, events, pings>>
ReaderCloses == /\ reader.at = "close"
                /\ reader' = [at |-> "ended"] /\ conn' = "shut"
                /\ UNCHANGED <<inbox, writer, writeChan, pongs, stopped, quit, subs, wire, asked, dropped,
                               late, sent, events, pings>>

\* An event of a subscription: TryWriteRPCResponse.
Publish == /\ subs /\ events < MaxEvents /\ events' = events + 1
           /\ \/ Len(writeChan) < ChanCap /\ writeChan' = Append(writeChan, Event)
              \/ (quit \/ Len(writeChan) = ChanCap) /\ UNCHANGED writeChan
           /\ UNCHANGED <<conn, inbox, reader, writer, pongs, stopped, quit, subs, wire, asked, dropped,
                          late, sent, pings>>

\* writeRoutine.  A write succeeds at most while the connection is open and
\* may time out; one to write a pong may fail without consequence.
WritePong == /\ writer.at = "select" /\ pongs = 1 /\ pongs' = 0
             /\ UNCHANGED <<conn, inbox, reader, writer, writeChan, stopped, quit, subs, wire, asked,
                            dropped, late, sent, events, pings>>
WriteOk(a) == conn = "open" /\ wire' = (IF a = Event THEN wire ELSE Append(wire, a))
              /\ UNCHANGED <<writer, stopped>>
WriteFails == writer' = StopBegins(writer, "close") /\ stopped' = TRUE /\ UNCHANGED wire
WritePing == /\ writer.at = "select" /\ pings < MaxPings /\ pings' = pings + 1
             /\ (conn = "open" /\ UNCHANGED <<writer, stopped, wire>>) \/ WriteFails
             /\ UNCHANGED <<conn, inbox, reader, writeChan, pongs, quit, subs, asked, dropped, late, sent,
                            events>>
WriteMessage == /\ writer.at = "select" /\ writeChan # <<>>
                /\ writeChan' = Tail(writeChan)
                /\ WriteOk(Head(writeChan)) \/ WriteFails
                /\ UNCHANGED <<conn, inbox, reader, pongs, quit, subs, asked, dropped, late, sent, events,
                               pings>>
WriterQuits == /\ writer.at = "select" /\ quit /\ writer' = [at |-> "close"]
               /\ UNCHANGED <<conn, inbox, reader, writeChan, pongs, stopped, quit, subs, wire, asked,
                              dropped, late, sent, events, pings>>
WriterStops == /\ writer.at = "stop"
               /\ writer' = StopEnds(writer) /\ subs' = FALSE /\ quit' = TRUE
               /\ UNCHANGED <<conn, inbox, reader, writeChan, pongs, stopped, wire, asked, dropped, late,
                              sent, events, pings>>
WriterCloses == /\ writer.at = "close"
                /\ writer' = [at |-> "ended"] /\ conn' = "shut"
                /\ UNCHANGED <<inbox, reader, writeChan, pongs, stopped, quit, subs, wire, asked, dropped,
                               late, sent, events, pings>>

Reader == Check \/ ReadMessage \/ ReadFails \/ Call \/ WriteRPCResponse \/ ReaderStops \/ ReaderCloses
Writer == WritePong \/ WritePing \/ WriteMessage \/ WriterQuits \/ WriterStops \/ WriterCloses
NextWS == ClientSends \/ ClientCloses \/ Reader \/ ReadPing \/ Writer \/ Publish

\* Goroutines are scheduled, functions return, reads time out, and a select
\* that is again and again ready takes the case.
FairWS == WF_wvars(Reader) /\ WF_wvars(Writer)
SpecWS == InitWS /\ [][NextWS]_wvars /\ FairWS

-----------------------------------------------------------------------------
Ended == reader.at = "ended" /\ writer.at = "ended"

\* The answers, on the wire and then in writeChan, are those to the requests
\* read, each once and in order; WriteRPCResponse gives up one only after
\* quit, and what is left in the end was not written because the connection
\* ended.  Nothing is written for a notification.
AnswersInOrder ==
    LET due == SelectSeq(asked, LAMBDA a : a # NoAnswer)
        out == wire \o SelectSeq(writeChan, LAMBDA a : a # Event)
    IN  /\ Len(out) <= Len(due)
        /\ ~stopped =>
              out = IF reader.at = "answer" /\ reader.a # NoAnswer THEN Front(due) ELSE due
        /\ IsPrefix(wire, due) \/ stopped
        /\ dropped > 0 => quit

\* An answer has the id of its request, unless the function panicked, which
\* it does whenever there are no params where it needs some; HTTP and the
\* websocket agree on the requests both serve.
AnswersMatch ==
    \A r \in Requests : \A does \in Does :
        LET f == funcMap[r.method]
            a == WSAnswer(r, does)
        IN  /\ r.json /\ a.kind # "none" => a.id = r.id \/ (WSCalls(r) /\ does \in Panics /\ a.id = "unknown")
            /\ Known(r) /\ ~f.ws => /\ (a.kind = "none") <=> (HTTPAnswer(r, does).kind = "none")
                                    /\ (a.kind = "result") <=> (HTTPAnswer(r, does).kind = "result")
            /\ Known(r) /\ r.params \in {"map", "array"} => argsWS(f, r) = NumIn(f)

\* When both routines have ended nothing of the connection is left: no
\* subscription, unless a function that was running subscribed after Stop
\* had unsubscribed.
LeftoverNeedsOverlap == Ended => /\ conn = "shut" /\ stopped
                                 /\ subs => late

\* A websocket connection: AnswersInOrder, AnswersMatch and
\* LeftoverNeedsOverlap (readRoutine, writeRoutine, OnStop).
WSServerSafe == AnswersInOrder /\ AnswersMatch /\ LeftoverNeedsOverlap

\* Once the client is gone both routines end.
WSServerEnds == (conn # "open") ~> Ended

\* "If the inner function panics, the outer function recovers, logs, sends an
\* HTTP 500 error response" (http_server.go).
PanicsAnswered ==
    \A r \in Requests : Known(r) /\ ~funcMap[r.method].ws =>
        \A does \in Outcomes(funcMap[r.method], argsRPC(funcMap[r.method], r)) :
            HTTPAnswer(r, does).kind # "dropped"

\* "unsubscribing remoteAddr from all subscriptions" (handlers.go): a
\* connection that has ended has no subscription.
NoSubscriptionLeft == Ended => ~subs
=============================================================================

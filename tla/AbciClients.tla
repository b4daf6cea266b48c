----------------------------- MODULE AbciClients -----------------------------
(***************************************************************************)
(* The two ABCI clients that do without a queue: grpcClient                *)
(* (abci/client/grpc_client.go), which makes a blocking remote call and    *)
(* finishes it in a goroutine, and localClient (local_client.go), which    *)
(* calls the application in the caller's goroutine.                        *)
(*                                                                         *)
(* The methods differ in their name only, so three stand for all of them:  *)
(* "DeliverTx" for those that are alike, "Rollback" and "Flush" for the    *)
(* two that are not.  A response is named by the call that got it.         *)
(***************************************************************************)
EXTENDS Integers, Sequences, SequencesExt, FiniteSets

CONSTANTS Callers,   \* goroutines that share the client
          MaxCalls

Methods == {"DeliverTx", "Rollback", "Flush"}
Free == "free"
NoResponse == 0

VARIABLES cli,      \* the client: transport, service flags, err, mtx, resCb
          caller,   \* where each caller is, and the number of its call
          calls,    \* the calls made so far, with their ReqRes
          applied   \* the calls in the order the application has run them
avars == <<cli, caller, calls, applied>>

IsRunning == cli.at = "running" /\ ~cli.stopped

\* NewGRPCClient and NewLocalClient.  The local client needs no connection,
\* and its mtx argument is not used.
NewClient ==
    /\ \E tr \in {"grpc", "local"} :
          cli = [transport |-> tr, stopped |-> FALSE, err |-> FALSE,
                 at |-> IF tr = "grpc" THEN "dial" ELSE "running", mtx |-> Free, resCb |-> FALSE]
    /\ caller = [t \in Callers |-> [at |-> "idle", id |-> 0]]
    /\ calls = <<>> /\ applied = <<>>

\* OnStart dials, only once if mustConnect, and then sends an echo until it is
\* answered.
OnStart ==
    /\ \/ cli.at = "dial" /\ cli' = [cli EXCEPT !.at = "failed"]
       \/ cli.at = "dial" /\ cli' = [cli EXCEPT !.at = "echo"]
       \/ cli.at = "echo" /\ cli' = [cli EXCEPT !.at = "running"]
    /\ UNCHANGED <<caller, calls, applied>>

-----------------------------------------------------------------------------
(* A call.                                                                 *)

At(t, at) == caller' = [caller EXCEPT ![t].at = at]
Return(t) == caller' = [caller EXCEPT ![t] = [at |-> "idle", id |-> 0]]
call(t) == calls[caller[t].id]
Update(t, f, x) == calls' = [calls EXCEPT ![caller[t].id][f] = x]

\* RollbackSync calls GetGenesisAsync.
RemoteMethod(m, sync) == IF m = "Rollback" /\ sync /\ cli.transport = "grpc" THEN "GetGenesis" ELSE m

\* The request and its new ReqRes.
NewReqRes(t, m, sync) ==
    [t |-> t, asAsked |-> RemoteMethod(m, sync) = m, sync |-> sync,
     res |-> NoResponse, failed |-> FALSE, ok |-> FALSE, done |-> FALSE, released |-> FALSE,
     cb |-> 0, listener |-> "none"]

\* XxxAsync and XxxSync.  Neither FlushSync does anything.
Call(t) ==
    /\ cli.at = "running" /\ caller[t].at = "idle" /\ Len(calls) < MaxCalls
    /\ \E m \in Methods, sync \in BOOLEAN :
          /\ ~(m = "Flush" /\ sync)
          /\ calls' = Append(calls, NewReqRes(t, m, sync))
          /\ caller' = [caller EXCEPT ![t] =
                 [id |-> Len(calls) + 1,
                  at |-> IF m = "Flush" /\ cli.transport = "local" THEN "newLocalReqRes" ELSE "app"]]
    /\ UNCHANGED <<cli, applied>>

\* The application runs the request (external), and its response arrives.
Answered(t) ==
    /\ caller[t].at = "app"
    /\ Update(t, "res", caller[t].id)
    /\ applied' = Append(applied, caller[t].id)
    /\ At(t, CASE cli.transport = "grpc" -> "finishAsyncCall"
               [] cli.transport = "local" /\ call(t).sync -> "returnLocal"
               [] OTHER -> "callback")
    /\ UNCHANGED cli

\* The remote call fails, after the application ran the request or without.
Failed(t) ==
    /\ cli.transport = "grpc" /\ caller[t].at = "app"
    /\ Update(t, "failed", TRUE)
    /\ applied' \in {applied, Append(applied, caller[t].id)}
    /\ At(t, "StopForError")
    /\ UNCHANGED cli

\* Mutant: the error is not remembered.
StopForError_NoErr(t) ==
    /\ caller[t].at = "StopForError" /\ cli.mtx = Free
    /\ IF ~IsRunning THEN cli' = [cli EXCEPT !.mtx = t] /\ At(t, "finishAsyncCall")
       ELSE At(t, "Stop") /\ UNCHANGED cli
    /\ UNCHANGED <<calls, applied>>

\* A client that no longer runs returns with mtx locked.
StopForError(t) ==
    /\ caller[t].at = "StopForError" /\ cli.mtx = Free
    /\ IF ~IsRunning THEN cli' = [cli EXCEPT !.mtx = t] /\ At(t, "finishAsyncCall")
       ELSE cli' = [cli EXCEPT !.err = TRUE] /\ At(t, "Stop")
    /\ UNCHANGED <<calls, applied>>

\* BaseService.Stop: the first one runs OnStop, which takes mtx and lets it go.
Stop(t) ==
    /\ caller[t].at = "Stop"
    /\ At(t, IF cli.stopped THEN "finishAsyncCall" ELSE "OnStop")
    /\ cli' = [cli EXCEPT !.stopped = TRUE]
    /\ UNCHANGED <<calls, applied>>
OnStop(t) ==
    /\ caller[t].at = "OnStop" /\ cli.mtx = Free
    /\ At(t, "finishAsyncCall")
    /\ UNCHANGED <<cli, calls, applied>>

\* The owner of the client stops it.
UserStops ==
    /\ cli.at = "running" /\ cli.mtx = Free /\ ~cli.stopped
    /\ cli' = [cli EXCEPT !.stopped = TRUE]
    /\ UNCHANGED <<caller, calls, applied>>

\* Mutant: the goroutine starts before the ReqRes is done.
finishAsyncCall_NotDone(t) ==
    /\ caller[t].at = "finishAsyncCall"
    /\ calls' = [calls EXCEPT ![caller[t].id] = [@ EXCEPT !.released = TRUE, !.listener = "goroutine"]]
    /\ IF call(t).sync THEN At(t, "Error") ELSE At(t, "listen")
    /\ UNCHANGED <<cli, applied>>

\* The response is set, its waiters are released, and a goroutine is started
\* for the callbacks.
finishAsyncCall(t) ==
    /\ caller[t].at = "finishAsyncCall"
    /\ calls' = [calls EXCEPT ![caller[t].id] =
                    [@ EXCEPT !.released = TRUE, !.done = TRUE, !.listener = "goroutine"]]
    /\ IF call(t).sync THEN At(t, "Error") ELSE At(t, "listen")
    /\ UNCHANGED <<cli, applied>>

\* The Sync methods ask the client, not the call, whether there was an error.
Error(t) ==
    /\ caller[t].at = "Error" /\ cli.mtx = Free
    /\ Update(t, "ok", ~cli.err)
    /\ Return(t)
    /\ UNCHANGED <<cli, applied>>

\* The goroutine: GetCallback finds nothing, as the ReqRes was done before
\* anybody could call SetCallback; resCb is read without mtx.
GetCallback(i) ==
    /\ calls[i].listener = "goroutine"
    /\ calls' = [calls EXCEPT ![i].listener = "resCb", ![i].cb = IF calls[i].cb = -1 THEN 1 ELSE @]
    /\ UNCHANGED <<cli, caller, applied>>
ResCb(i) ==
    /\ calls[i].listener = "resCb"
    /\ calls' = [calls EXCEPT ![i].listener = IF cli.resCb THEN "notified" ELSE "ended"]
    /\ UNCHANGED <<cli, caller, applied>>

\* SetCallback runs the callback at once when the ReqRes is done, and keeps
\* it (-1) otherwise; the caller may also do without.
SetCallback(t) ==
    /\ caller[t].at = "listen"
    /\ \/ Update(t, "cb", IF call(t).done THEN call(t).cb + 1 ELSE -1)
       \/ UNCHANGED calls
    /\ Return(t)
    /\ UNCHANGED <<cli, applied>>

\* SetResponseCallback: the local client has no mtx.
SetResponseCallback ==
    /\ cli.at # "failed" /\ ~cli.resCb /\ (cli.transport = "local" \/ cli.mtx = Free)
    /\ cli' = [cli EXCEPT !.resCb = TRUE]
    /\ UNCHANGED <<caller, calls, applied>>

-----------------------------------------------------------------------------
(* The rest of a local call.                                               *)

\* callback: a call of the function that was set, or of nil.
callback(t) ==
    /\ caller[t].at = "callback"
    /\ IF cli.resCb THEN Update(t, "listener", "notified") /\ At(t, "newLocalReqRes")
       ELSE At(t, "panicked") /\ UNCHANGED calls
    /\ UNCHANGED <<cli, applied>>

\* newLocalReqRes sets the response and done; the WaitGroup keeps its one.
newLocalReqRes(t) ==
    /\ caller[t].at = "newLocalReqRes"
    /\ Update(t, "done", TRUE)
    /\ At(t, "listen")
    /\ UNCHANGED <<cli, applied>>

\* The Sync methods return the application's response and no error.
returnLocal(t) ==
    /\ caller[t].at = "returnLocal"
    /\ Update(t, "ok", TRUE)
    /\ Return(t)
    /\ UNCHANGED <<cli, applied>>

Caller(t) == Call(t) \/ Answered(t) \/ Failed(t) \/ StopForError(t) \/ Stop(t) \/ OnStop(t)
             \/ finishAsyncCall(t) \/ Error(t) \/ SetCallback(t)
             \/ callback(t) \/ newLocalReqRes(t) \/ returnLocal(t)
Listener(i) == GetCallback(i) \/ ResCb(i)
NextClients == OnStart \/ UserStops \/ SetResponseCallback
               \/ (\E t \in Callers : Caller(t)) \/ (\E i \in 1 .. Len(calls) : Listener(i))

\* Started calls go on and end, and goroutines are scheduled.
FairClients == /\ \A t \in Callers : WF_avars(Caller(t) /\ caller[t].at # "idle")
               /\ \A i \in 1 .. MaxCalls : WF_avars(i \in 1 .. Len(calls) /\ Listener(i))
SpecClients == NewClient /\ [][NextClients]_avars /\ FairClients

-----------------------------------------------------------------------------
Leaked == cli.mtx # Free

\* A Sync call returns no error only with the application's response to that
\* very request: a remote call that failed never looks like one that
\* succeeded, however other calls, their failures and Stop interleave.
OkMeansAnswered ==
    \A i \in 1 .. Len(calls) :
        calls[i].ok => calls[i].res = i /\ ~calls[i].failed /\ Contains(applied, i)

\* The callback set on a ReqRes runs once, in the goroutine that set it, and
\* no request reaches the application twice.
CallbacksOnce ==
    /\ \A i \in 1 .. Len(calls) : calls[i].cb \in {0, 1}
    /\ IsInjective(applied)

\* The lock StopForError keeps is held for good, and only after a call
\* failed on a client that had already been stopped.
LeakNeedsStop == Leaked => cli.stopped /\ \E i \in 1 .. Len(calls) : calls[i].failed

\* The two clients: OkMeansAnswered, CallbacksOnce and LeakNeedsStop, and the
\* response callback is called with a response only once it is set.
ClientsSafe ==
    /\ OkMeansAnswered /\ CallbacksOnce /\ LeakNeedsStop
    /\ \A i \in 1 .. Len(calls) :
          calls[i].listener = "notified" => cli.resCb /\ (calls[i].res = i \/ calls[i].failed)

\* "All `Sync` methods return the appropriate protobuf ResponseXxx struct and
\* an error."  Not when StopForError has kept mtx: the Sync call then waits
\* for it in Error().
SyncReturns == \A t \in Callers : caller[t].at = "Error" ~> caller[t].at = "idle"

\* "Not set atomically, so be sure to use WaitGroup."  The WaitGroup of a
\* local ReqRes is never released.
DoneMeansReleased == \A i \in 1 .. Len(calls) : calls[i].done => calls[i].released

\* The response callback sees the responses in the order of the requests.
\* Each grpc call has a goroutine of its own for it.
ListenedInOrder ==
    \A i, j \in 1 .. Len(calls) :
        i < j /\ calls[i].t = calls[j].t /\ calls[j].listener = "notified" =>
            calls[i].listener \notin {"goroutine", "resCb"}

\* RollbackSync has the application roll back.
AsksWhatIsCalled == \A i \in 1 .. Len(calls) : calls[i].asAsked
==============================================================================

--------------------------- MODULE MCSubscriptions ----------------------------
(***************************************************************************)
(* The websocket client, through which events are subscribed to, and the   *)
(* publish/subscribe server behind them.  A behaviour is about one of      *)
(* them; the client is module WSClient.                                    *)
(***************************************************************************)
EXTENDS WSClient, Sequences

CONSTANTS Threads, Clients, Queries, Chans, Maps, Msgs, CmdsCap, ChanCap

VARIABLE part  \* the component this behaviour is about
VARIABLES cmds, subscriptions, maps, state, loop, sending, todo, pc, cmd, ref,
          used, content, closed, read, stop, serverStopped, restarts,
          published, panicked

Server == INSTANCE PubSub WITH stopped <- serverStopped, MaxRestarts <- 1,
                               SharedQueries <- FALSE, Readers <- Chans

\* A component that a behaviour is not about stays as it is.
ServerVars == <<cmds, subscriptions, maps, state, loop, sending, todo, pc, cmd,
                ref, used, content, closed, read, stop, serverStopped,
                restarts, published, panicked>>
ServerOff == cmds = 0 /\ subscriptions = 0 /\ maps = 0 /\ state = 0 /\
  loop = 0 /\ sending = 0 /\ todo = 0 /\ pc = 0 /\ cmd = 0 /\ ref = 0 /\
  used = 0 /\ content = 0 /\ closed = 0 /\ read = 0 /\ stop = 0 /\
  serverStopped = 0 /\ restarts = 0 /\ published = 0 /\ panicked = 0

MCvars == <<part, vars, ServerVars>>

MCInit ==
  \/ part = "Client" /\ OnStart /\ ServerOff
  \/ part = "Server" /\ Server!NewServer /\ OnStart

MCNext ==
  \/ part = "Client" /\ Next /\ UNCHANGED <<part, ServerVars>>
  \/ part = "Server" /\ Server!Next /\ UNCHANGED <<part, vars>>

\* The goroutines keep running, the ticker keeps firing, contexts end and
\* subscribers read.
MCFairness ==
    /\ WF_vars(part = "Client" /\ writeRoutine) /\ WF_vars(part = "Client" /\ writePing)
    /\ WF_vars(part = "Client" /\ readRoutine) /\ WF_vars(part = "Client" /\ reconnectRoutine)
    /\ WF_vars(part = "Client" /\ StopWait)
    /\ WF_ServerVars(part = "Server" /\ Server!Loop) /\ SF_ServerVars(part = "Server" /\ Server!OnStop)
    /\ \A t \in Threads : /\ WF_ServerVars(part = "Server" /\ Server!Update(t))
                          /\ WF_ServerVars(part = "Server" /\ Server!Send(t))
    /\ \A h \in Chans : WF_ServerVars(part = "Server" /\ Server!Read(h))
MCSpec == MCInit /\ [][MCNext]_MCvars /\ MCFairness

\* When no call is under way the API's view of the subscriptions and the
\* loop's are the same, until the server is stopped (pubsub.go Subscribe,
\* Unsubscribe, UnsubscribeAll).
ViewsAgree == part = "Server" => Server!ViewsAgree

\* Stop of the pubsub server ends its loop when the subscribers read.
StopEnds == (part = "Server" /\ serverStopped) ~> (part = "Server" /\ loop = "stopped")
===============================================================================

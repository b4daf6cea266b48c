------------------------------ MODULE MCRoutines ------------------------------
(***************************************************************************)
(* Services, timers, tasks and connections, which must come to an end.  A  *)
(* behaviour is about one of them; the service is module BaseService.      *)
(***************************************************************************)
EXTENDS BaseService, Integers, Sequences, TLC

VARIABLE part  \* the component this behaviour is about
VARIABLES logical, now, gen, ticker, timerQuit, ready, src, last, tick, fire,
          hand, out, panic
VARIABLES task, outcome, ch, doneCh, numPanics, main, results
VARIABLES conn, inbox, reader, writer, writeChan, pongs, wSStopped, wSQuit,
          subs, wire, asked, dropped, late, sent, events, pings

\* Requests of each kind that readRoutine tells apart.
Request(json, id, method, params) == [json |-> json, id |-> id, method |-> method, params |-> params]
WSRequests ==
    {Request(FALSE, "1", "status", "absent"), Request(TRUE, "", "status", "map"),
     Request(TRUE, "1", "nosuch", "map"), Request(TRUE, "1", "block", "badmap"),
     Request(TRUE, "1", "block", "absent"), Request(TRUE, "1", "subscribe", "map"),
     Request(TRUE, "1", "unsubscribe", "map")}

Timer == INSTANCE RepeatTimer WITH quit <- timerQuit, MaxGen <- 2,
                                   MaxTime <- 5, Dur <- 2
Tasks == INSTANCE Parallel WITH NTasks <- 3
WS == INSTANCE WSServer WITH stopped <- wSStopped, quit <- wSQuit,
                             Requests <- WSRequests, MaxSent <- 2,
                             MaxEvents <- 1, MaxPings <- 1, ChanCap <- 1

\* A component that a behaviour is not about stays as it is.
TimerVars == <<logical, now, gen, ticker, timerQuit, ready, src, last, tick,
               fire, hand, out, panic>>
TimerOff == logical = 0 /\ now = 0 /\ gen = 0 /\ ticker = 0 /\ timerQuit = 0 /\
  ready = 0 /\ src = 0 /\ last = 0 /\ tick = 0 /\ fire = 0 /\ hand = 0 /\
  out = 0 /\ panic = 0
TasksVars == <<task, outcome, ch, doneCh, numPanics, main, results>>
TasksOff == task = 0 /\ outcome = 0 /\ ch = 0 /\ doneCh = 0 /\ numPanics = 0 /\
  main = 0 /\ results = 0
WSVars == <<conn, inbox, reader, writer, writeChan, pongs, wSStopped, wSQuit,
            subs, wire, asked, dropped, late, sent, events, pings>>
WSOff == conn = 0 /\ inbox = 0 /\ reader = 0 /\ writer = 0 /\ writeChan = 0 /\
  pongs = 0 /\ wSStopped = 0 /\ wSQuit = 0 /\ subs = 0 /\ wire = 0 /\
  asked = 0 /\ dropped = 0 /\ late = 0 /\ sent = 0 /\ events = 0 /\ pings = 0

MCvars == <<part, vars, TimerVars, TasksVars, WSVars>>

MCInit ==
  \/ part = "Service" /\ NewBaseService /\ TimerOff /\ TasksOff /\ WSOff
  \/ part = "Timer" /\ Timer!NewRepeatTimer /\ NewBaseService /\ TasksOff /\
     WSOff
  \/ part = "Tasks" /\ Tasks!Init /\ NewBaseService /\ TimerOff /\ WSOff
  \/ part = "WS" /\ WS!InitWS /\ NewBaseService /\ TimerOff /\ TasksOff

MCNext ==
  \/ part = "Service" /\ Next /\ UNCHANGED <<part, TimerVars, TasksVars, WSVars>>
  \/ part = "Timer" /\ Timer!Next /\ UNCHANGED <<part, vars, TasksVars, WSVars>>
  \/ part = "Tasks" /\ Tasks!Next /\ UNCHANGED <<part, vars, TimerVars, WSVars>>
  \/ part = "WS" /\ WS!NextWS /\ UNCHANGED <<part, vars, TimerVars, TasksVars>>

\* Goroutines are scheduled, OnStart, OnStop and tasks end,
\* t.Chan() has a receiver, and a select that is again and again
\* ready takes the case.
MCFairness ==
    /\ \A t \in Threads : WF_vars(part = "Service" /\ Step(t))
    /\ \A g \in Timer!Gens : /\ WF_TimerVars(part = "Timer" /\ Timer!LogicalQuit(g))
                             /\ WF_TimerVars(part = "Timer" /\ Timer!TakeTick(g))
                             /\ WF_TimerVars(part = "Timer" /\ Timer!SendTick(g))
                             /\ SF_TimerVars(part = "Timer" /\ Timer!FireQuit(g))
    /\ \A t \in Tasks!Tasks : WF_TasksVars(part = "Tasks" /\ Tasks!Step(t))
    /\ WF_TasksVars(part = "Tasks" /\ Tasks!Caller)
    /\ WF_WSVars(part = "WS" /\ WS!Reader) /\ WF_WSVars(part = "WS" /\ WS!Writer)
MCSpec == MCInit /\ [][MCNext]_MCvars /\ MCFairness

\* The repeat timer has one routine at a time and ticks a period apart,
\* Parallel returns the results of its tasks, and a websocket connection
\* answers each request once, in order, and leaves nothing behind.
RoutinesSafe ==
    /\ part = "Timer" => Timer!TimerSafe
    /\ part = "Tasks" => Tasks!ParallelSafe
    /\ part = "WS" => WS!WSServerSafe

\* The routine of a timer that was stopped ends (stop), Parallel and Wait
\* return whichever task aborts, and both routines of a websocket connection
\* end once the client is gone.
RoutinesEnd ==
    /\ \A g \in Timer!Gens :
          (part = "Timer" /\ timerQuit[g]) ~> (part = "Timer" /\ fire[g] = "done" /\ src[g] = "done")
    /\ <>(part = "Tasks" => Tasks!AllEnded)
    /\ (part = "WS" /\ conn # "open") ~> (part = "WS" /\ WS!Ended)
===============================================================================

----------------------------- MODULE BaseService -----------------------------
(***************************************************************************)
(* The life cycle of a service, tmlibs/common/service.go: Start, Stop and  *)
(* Reset of BaseService, atomic step by atomic step, and Wait.  OnStart and*)
(* OnStop of the service are steps that end at any later time.             *)
(*                                                                         *)
(* Excluded holds the sets of operations that callers never overlap; a     *)
(* singleton excludes two calls of one operation.  The documentation asks  *)
(* for {"start", "stop"} only.                                             *)
(***************************************************************************)
EXTENDS Naturals, FiniteSets

CONSTANTS Threads,
          MaxResets, \* bound: the number of calls of Reset that succeed
          Excluded

Ops == {"start", "stop", "reset"}

ASSUME BaseServiceAssumption == MaxResets \in Nat /\ Excluded \subseteq SUBSET Ops

\* Callers that overlap neither Start and Stop nor Reset and anything.
Disciplined ==
    {{"start", "stop"}, {"start", "reset"}, {"stop", "reset"}, {"reset"}} \subseteq Excluded

VARIABLES
    started, stopped, \* the atomic flags, as Booleans
    quit, closed,     \* the channel of bs.quit, the channels that are closed
    pc, wait,         \* of a thread: its place, the channel it waits for
    onStarts, onStops,\* history: calls of OnStart without an error, and of OnStop, since Reset
    panicked          \* history: a closed channel was closed again

vars == <<started, stopped, quit, closed, pc, wait, onStarts, onStops, panicked>>

Running(op) == CASE op = "start" -> {"load", "onstart"}
                 [] op = "stop" -> {"onstop", "close"}
                 [] op = "reset" -> {"resetstarted", "resetquit"}
In(t, op) == pc[t] \in Running(op)
Quiet(op) == \A t \in Threads : ~In(t, op)
MayCall(op) == \A other \in Ops : {op, other} \in Excluded => Quiet(other)
Goto(t, place) == pc' = [pc EXCEPT ![t] = place]

NewBaseService ==
    /\ started = FALSE /\ stopped = FALSE /\ quit = 0 /\ closed = {}
    /\ pc = [t \in Threads |-> "idle"] /\ wait = [t \in Threads |-> 0]
    /\ onStarts = 0 /\ onStops = 0 /\ panicked = FALSE

-----------------------------------------------------------------------------
(* Start *)

\* Mutant: reads the flag and does not swap it.
Start_NoSwap(t) ==
    /\ pc[t] = "idle" /\ MayCall("start") /\ ~started
    /\ Goto(t, "load")
    /\ UNCHANGED <<started, stopped, quit, closed, wait, onStarts, onStops, panicked>>

\* The swap; a service already started returns ErrAlreadyStarted.
Start(t) ==
    /\ pc[t] = "idle" /\ MayCall("start") /\ ~started
    /\ started' = TRUE
    /\ Goto(t, "load")
    /\ UNCHANGED <<stopped, quit, closed, wait, onStarts, onStops, panicked>>

\* Mutant: starts a stopped service.
StartLoad_NoTest(t) ==
    /\ pc[t] = "load"
    /\ Goto(t, "onstart") /\ onStarts' = onStarts + 1
    /\ UNCHANGED <<started, stopped, quit, closed, wait, onStops, panicked>>

\* A stopped service returns ErrAlreadyStopped, and stays marked as started.
StartLoad(t) ==
    /\ pc[t] = "load"
    /\ \/ stopped /\ Goto(t, "idle") /\ UNCHANGED onStarts
       \/ ~stopped /\ Goto(t, "onstart") /\ onStarts' = onStarts + 1
    /\ UNCHANGED <<started, stopped, quit, closed, wait, onStops, panicked>>

OnStart(t) ==
    /\ pc[t] = "onstart"
    /\ Goto(t, "idle")
    /\ UNCHANGED <<started, stopped, quit, closed, wait, onStarts, onStops, panicked>>

\* OnStart returns an error: the flag is reverted.
OnStartError(t) ==
    /\ pc[t] = "onstart"
    /\ started' = FALSE
    /\ onStarts' = onStarts - 1
    /\ Goto(t, "idle")
    /\ UNCHANGED <<stopped, quit, closed, wait, onStops, panicked>>

-----------------------------------------------------------------------------
(* Stop *)

\* The swap, after which OnStop is called.
Stop(t) ==
    /\ pc[t] = "idle" /\ MayCall("stop") /\ ~stopped
    /\ stopped' = TRUE
    /\ onStops' = onStops + 1
    /\ Goto(t, "onstop")
    /\ UNCHANGED <<started, quit, closed, wait, onStarts, panicked>>

OnStop(t) ==
    /\ pc[t] = "onstop"
    /\ Goto(t, "close")
    /\ UNCHANGED <<started, stopped, quit, closed, wait, onStarts, onStops, panicked>>

\* Mutant: returns without closing quit.
CloseQuit_Forgets(t) ==
    /\ pc[t] = "close"
    /\ Goto(t, "idle")
    /\ UNCHANGED <<started, stopped, quit, closed, wait, onStarts, onStops, panicked>>

CloseQuit(t) ==
    /\ pc[t] = "close"
    /\ panicked' = (panicked \/ quit \in closed)
    /\ closed' = closed \cup {quit}
    /\ Goto(t, "idle")
    /\ UNCHANGED <<started, stopped, quit, wait, onStarts, onStops>>

-----------------------------------------------------------------------------
(* Reset *)

Reset(t) ==
    /\ pc[t] = "idle" /\ MayCall("reset") /\ stopped /\ quit < MaxResets
    /\ stopped' = FALSE
    /\ Goto(t, "resetstarted")
    /\ UNCHANGED <<started, quit, closed, wait, onStarts, onStops, panicked>>

ResetStarted(t) ==
    /\ pc[t] = "resetstarted"
    /\ started' = FALSE
    /\ Goto(t, "resetquit")
    /\ UNCHANGED <<stopped, quit, closed, wait, onStarts, onStops, panicked>>

\* Mutant: keeps the old channel.
ResetQuit_Keeps(t) ==
    /\ pc[t] = "resetquit"
    /\ onStarts' = 0 /\ onStops' = 0
    /\ Goto(t, "idle")
    /\ UNCHANGED <<started, stopped, quit, closed, wait, panicked>>

\* A new channel, and OnReset.
ResetQuit(t) ==
    /\ pc[t] = "resetquit"
    /\ quit' = quit + 1
    /\ onStarts' = 0 /\ onStops' = 0
    /\ Goto(t, "idle")
    /\ UNCHANGED <<started, stopped, closed, wait, panicked>>

-----------------------------------------------------------------------------
(* Wait *)

Wait(t) ==
    /\ pc[t] = "idle"
    /\ wait' = [wait EXCEPT ![t] = quit]
    /\ Goto(t, "wait")
    /\ UNCHANGED <<started, stopped, quit, closed, onStarts, onStops, panicked>>

WaitReturn(t) ==
    /\ pc[t] = "wait" /\ wait[t] \in closed
    /\ wait' = [wait EXCEPT ![t] = 0]
    /\ Goto(t, "idle")
    /\ UNCHANGED <<started, stopped, quit, closed, onStarts, onStops, panicked>>

-----------------------------------------------------------------------------
\* The rest of a call that has begun.
Step(t) == \/ StartLoad(t) \/ OnStart(t) \/ OnStartError(t)
           \/ OnStop(t) \/ CloseQuit(t)
           \/ ResetStarted(t) \/ ResetQuit(t) \/ WaitReturn(t)

Next == \E t \in Threads : Start(t) \/ Stop(t) \/ Reset(t) \/ Wait(t) \/ Step(t)

Spec == NewBaseService /\ [][Next]_vars

\* The goroutines run on, and OnStart and OnStop return.
FairSpec == Spec /\ \A t \in Threads : WF_vars(Step(t))

-----------------------------------------------------------------------------
(* Properties *)

\* Type invariant.
TypeOK ==
    /\ started \in BOOLEAN /\ stopped \in BOOLEAN /\ panicked \in BOOLEAN
    /\ quit \in Nat /\ closed \subseteq 0..quit
    /\ pc \in [Threads -> {"idle", "wait", "load", "onstart", "onstop", "close", "resetstarted", "resetquit"}]
    /\ wait \in [Threads -> 0..quit]
    /\ onStarts \in Nat /\ onStops \in Nat

\* Stop never closes a quit channel that is closed already.
NoPanic == ~panicked

\* Without errors OnStart and OnStop are called at most once, until Reset.
AtMostOnce == onStarts <= 1 /\ onStops <= 1

\* OnStart is never under way in a service that has been stopped: Start tests
\* the flag that Stop sets before OnStop.
NoStartAfterStop == \A t \in Threads : pc[t] = "onstart" => ~stopped /\ onStops = 0

\* Between calls of Stop and Reset, the channel that Quit returns is closed
\* exactly when the service is stopped.
QuitTellsStopped == Quiet("stop") /\ Quiet("reset") => (quit \in closed <=> stopped)

\* What callers with discipline keep true at every atomic step: operations
\* that exclude each other do not overlap; at most one thread is inside Start,
\* inside Stop or inside Reset; and the flags, the channel and the counters
\* are those of the operations under way.
Inv ==
    /\ TypeOK
    /\ \A op \in Ops : \A t, u \in Threads : In(t, op) /\ In(u, op) => t = u
    /\ Quiet("start") \/ Quiet("stop")
    /\ Quiet("reset") \/ (Quiet("start") /\ Quiet("stop"))
    /\ \A t \in Threads :
        /\ pc[t] = "load" => onStarts = 0
        /\ pc[t] = "onstart" => onStarts = 1 /\ ~stopped
        /\ In(t, "start") => started
        /\ In(t, "stop") => stopped /\ quit \notin closed
        /\ In(t, "reset") => ~stopped
    /\ Quiet("reset") => /\ ~started => onStarts = 0
                         /\ onStops = IF stopped THEN 1 ELSE 0
    /\ QuitTellsStopped /\ AtMostOnce /\ NoPanic

\* A Wait returns once the service has been stopped.
WaitEnds == \A t \in Threads : (pc[t] = "wait" /\ stopped) ~> pc[t] # "wait"
=============================================================================

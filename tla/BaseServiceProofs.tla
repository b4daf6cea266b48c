-------------------------- MODULE BaseServiceProofs --------------------------
(***************************************************************************)
(* For every set of threads and every number of resets: callers that keep  *)
(* to the discipline get at most one OnStart and one OnStop, a quit channel*)
(* that tells whether the service is stopped, and no double close.         *)
(***************************************************************************)
EXTENDS BaseService, TLAPS

USE DEF In, Quiet, Running, Ops

\* A call that may begin finds the operations it excludes quiet.
LEMMA CallsExclude ==
    ASSUME Disciplined
    PROVE  /\ MayCall("start") => Quiet("stop") /\ Quiet("reset")
           /\ MayCall("stop") => Quiet("start") /\ Quiet("reset")
           /\ MayCall("reset") => Quiet("start") /\ Quiet("stop") /\ Quiet("reset")
<1>1. {"start", "reset"} = {"reset", "start"} /\ {"stop", "reset"} = {"reset", "stop"}
      /\ {"start", "stop"} = {"stop", "start"} /\ {"reset", "reset"} = {"reset"}
  OBVIOUS
<1>2. QED
  BY <1>1 DEF Disciplined, MayCall

\* A new service satisfies the invariant.
LEMMA InitInv == NewBaseService => Inv
<1>1. SUFFICES ASSUME NewBaseService PROVE Inv
  OBVIOUS
<1>2. TypeOK
  <2>1. wait \in [Threads -> 0..quit] /\ quit \in Nat /\ closed \subseteq 0..quit
        /\ onStarts \in Nat /\ onStops \in Nat
    BY <1>1 DEF NewBaseService
  <2>2. started \in BOOLEAN /\ stopped \in BOOLEAN /\ panicked \in BOOLEAN
    BY <1>1, Zenon DEF NewBaseService
  <2>3. QED
    BY <1>1, <2>1, <2>2 DEF NewBaseService, TypeOK
<1>3. \A t \in Threads : pc[t] = "idle"
  BY <1>1 DEF NewBaseService
<1>4. QED
  <2>1. quit \notin closed /\ ~stopped /\ ~started /\ ~panicked /\ onStarts = 0 /\ onStops = 0
    BY <1>1 DEF NewBaseService
  <2>2. QED
    BY <1>2, <1>3, <2>1 DEF Inv, QuitTellsStopped, AtMostOnce, NoPanic

\* Start, up to its return, preserves the invariant.
LEMMA StartInv ==
    ASSUME Disciplined, Inv, NEW t \in Threads,
           Start(t) \/ StartLoad(t) \/ OnStart(t) \/ OnStartError(t)
    PROVE  Inv'
<1>1. CASE Start(t)
  BY <1>1, CallsExclude DEF Start, Goto, Inv, TypeOK, QuitTellsStopped, AtMostOnce, NoPanic
<1>2. CASE StartLoad(t)
  BY <1>2 DEF StartLoad, Goto, Inv, TypeOK, QuitTellsStopped, AtMostOnce, NoPanic
<1>3. CASE OnStart(t)
  BY <1>3 DEF OnStart, Goto, Inv, TypeOK, QuitTellsStopped, AtMostOnce, NoPanic
<1>4. CASE OnStartError(t)
  <2>0. onStarts = 1 /\ onStarts' = 0
    BY <1>4 DEF OnStartError, Inv
  <2>1. TypeOK'
    BY <1>4, <2>0, Zenon DEF OnStartError, Goto, Inv, TypeOK
  <2>2. QED
    BY <1>4, <2>0, <2>1 DEF OnStartError, Goto, Inv, TypeOK, QuitTellsStopped, AtMostOnce, NoPanic
<1>5. QED
  BY <1>1, <1>2, <1>3, <1>4

\* Stop, up to its return, preserves the invariant.
LEMMA StopInv ==
    ASSUME Disciplined, Inv, NEW t \in Threads, Stop(t) \/ OnStop(t) \/ CloseQuit(t)
    PROVE  Inv'
<1>1. CASE Stop(t)
  BY <1>1, CallsExclude DEF Stop, Goto, Inv, TypeOK, QuitTellsStopped, AtMostOnce, NoPanic
<1>2. CASE OnStop(t)
  BY <1>2 DEF OnStop, Goto, Inv, TypeOK, QuitTellsStopped, AtMostOnce, NoPanic
<1>3. CASE CloseQuit(t)
  BY <1>3 DEF CloseQuit, Goto, Inv, TypeOK, QuitTellsStopped, AtMostOnce, NoPanic
<1>4. QED
  BY <1>1, <1>2, <1>3

\* Reset, up to its return, preserves the invariant.
LEMMA ResetInv ==
    ASSUME Disciplined, Inv, NEW t \in Threads, Reset(t) \/ ResetStarted(t) \/ ResetQuit(t)
    PROVE  Inv'
<1>1. CASE Reset(t)
  <2>1. TypeOK'
    BY <1>1, Zenon DEF Reset, Goto, Inv, TypeOK
  <2>2. QED
    BY <1>1, <2>1, CallsExclude DEF Reset, Goto, Inv, TypeOK, QuitTellsStopped, AtMostOnce, NoPanic
<1>2. CASE ResetStarted(t)
  <2>1. TypeOK'
    BY <1>2, Zenon DEF ResetStarted, Goto, Inv, TypeOK
  <2>2. QED
    BY <1>2, <2>1 DEF ResetStarted, Goto, Inv, TypeOK, QuitTellsStopped, AtMostOnce, NoPanic
<1>3. CASE ResetQuit(t)
  BY <1>3 DEF ResetQuit, Goto, Inv, TypeOK, QuitTellsStopped, AtMostOnce, NoPanic
<1>4. QED
  BY <1>1, <1>2, <1>3

\* Wait preserves the invariant: it is inside no operation.
LEMMA WaitInv ==
    ASSUME Inv, NEW t \in Threads, Wait(t) \/ WaitReturn(t)
    PROVE  Inv'
  BY DEF Wait, WaitReturn, Goto, Inv, TypeOK, QuitTellsStopped, AtMostOnce, NoPanic

\* The invariant of service.go under discipline.
THEOREM Invariance == Disciplined => (Spec => []Inv)
<1>1. SUFFICES ASSUME Disciplined PROVE Spec => []Inv
  OBVIOUS
<1>2. Inv /\ [Next]_vars => Inv'
  <2>1. SUFFICES ASSUME Inv, [Next]_vars PROVE Inv'
    OBVIOUS
  <2>2. CASE UNCHANGED vars
    BY <2>1, <2>2 DEF vars, Inv, TypeOK, QuitTellsStopped, AtMostOnce, NoPanic
  <2>3. CASE Next
    BY <1>1, <2>1, <2>3, StartInv, StopInv, ResetInv, WaitInv DEF Next, Step
  <2>4. QED
    BY <2>1, <2>2, <2>3
<1>3. QED
  BY <1>2, InitInv, PTL DEF Spec

\* service.go's promise that OnStart and OnStop are called at most once, and
\* that quit is closed once and tells whether the service is stopped.
THEOREM CalledAtMostOnce == Disciplined => (Spec => []AtMostOnce)
<1>1. Inv => AtMostOnce
  BY DEF Inv
<1>2. QED
  BY <1>1, Invariance, PTL

\* Stop never closes quit twice, and between calls quit is closed exactly
\* when the service is stopped.
THEOREM QuitIsSound == Disciplined => (Spec => [](NoPanic /\ QuitTellsStopped))
<1>1. Inv => NoPanic /\ QuitTellsStopped
  BY DEF Inv
<1>2. QED
  BY <1>1, Invariance, PTL

\* OnStart is never under way in a stopped service.
THEOREM NoLateStart == Disciplined => (Spec => []NoStartAfterStop)
<1>1. Inv => NoStartAfterStop
  BY DEF Inv, NoStartAfterStop
<1>2. QED
  BY <1>1, Invariance, PTL
=============================================================================

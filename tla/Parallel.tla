------------------------------- MODULE Parallel -------------------------------
(***************************************************************************)
(* tendermint/tmlibs/common/async.go: Parallel starts a goroutine for each *)
(* task, waits until all are done or one of them aborts, and returns the   *)
(* TaskResultSet, on which the caller then calls Reap or Wait.             *)
(***************************************************************************)
EXTENDS Integers, Sequences, FiniteSets, SequencesExt

CONSTANTS NTasks

Tasks == 1 .. NTasks
Outcomes == {"value", "error", "abort", "panic"}

VARIABLES task,      \* the goroutine of each task
          outcome,   \* how the task ended
          ch,        \* taskResultCh: its content and whether it is closed
          doneCh,    \* taskDoneCh
          numPanics,
          main,      \* Parallel and then its caller
          results    \* trs.results: "none" or the outcome written there
pvars == <<task, outcome, ch, doneCh, numPanics, main, results>>

NoResult == "none"

Init == /\ task = [t \in Tasks |-> "running"]
        /\ outcome = [t \in Tasks |-> NoResult]
        /\ ch = [t \in Tasks |-> [buf |-> <<>>, closed |-> FALSE]]
        /\ doneCh = <<>> /\ numPanics = 0
        /\ main = [at |-> "loop", i |-> 0, ok |-> TRUE]
        /\ results = [t \in Tasks |-> NoResult]

\* The task returns, or panics and is recovered.
Run(t) ==
    /\ task[t] = "running"
    /\ \E o \in Outcomes :
          /\ outcome' = [outcome EXCEPT ![t] = o]
          /\ numPanics' = IF o = "panic" THEN numPanics + 1 ELSE numPanics
    /\ task' = [task EXCEPT ![t] = "send"]
    /\ UNCHANGED <<ch, doneCh, main, results>>
SendResult(t) ==
    /\ task[t] = "send"
    /\ ch' = [ch EXCEPT ![t].buf = Append(@, outcome[t])]
    /\ task' = [task EXCEPT ![t] = "close"]
    /\ UNCHANGED <<outcome, doneCh, numPanics, main, results>>
CloseResult(t) ==
    /\ task[t] = "close"
    /\ ch' = [ch EXCEPT ![t].closed = TRUE]
    /\ task' = [task EXCEPT ![t] = "done"]
    /\ UNCHANGED <<outcome, doneCh, numPanics, main, results>>

\* Mutant: taskDoneCh has room for one.
SendDone_OneSlot(t) ==
    /\ task[t] = "done" /\ Len(doneCh) < 1
    /\ doneCh' = Append(doneCh, outcome[t] = "abort")
    /\ task' = [task EXCEPT ![t] = "ended"]
    /\ UNCHANGED <<outcome, ch, numPanics, main, results>>

SendDone(t) ==
    /\ task[t] = "done" /\ Len(doneCh) < NTasks
    /\ doneCh' = Append(doneCh, outcome[t] = "abort")
    /\ task' = [task EXCEPT ![t] = "ended"]
    /\ UNCHANGED <<outcome, ch, numPanics, main, results>>

\* Mutant: a task that failed is forgotten when another aborted later.
DoneLoop_Overwrites ==
    /\ main.at = "loop"
    /\ IF main.i = NTasks THEN main' = [main EXCEPT !.at = "panics"] /\ UNCHANGED doneCh
       ELSE /\ doneCh # <<>>
            /\ main' = [main EXCEPT !.i = @ + 1, !.ok = ~Head(doneCh)]
            /\ doneCh' = Tail(doneCh)
    /\ UNCHANGED <<task, outcome, ch, numPanics, results>>

DoneLoop ==
    /\ main.at = "loop"
    /\ IF main.i = NTasks THEN main' = [main EXCEPT !.at = "panics"] /\ UNCHANGED doneCh
       ELSE /\ doneCh # <<>>
            /\ main' = IF Head(doneCh) THEN [main EXCEPT !.at = "panics", !.ok = FALSE]
                       ELSE [main EXCEPT !.i = @ + 1]
            /\ doneCh' = Tail(doneCh)
    /\ UNCHANGED <<task, outcome, ch, numPanics, results>>

CheckPanics ==
    /\ main.at = "panics"
    /\ main' = [at |-> "reap", i |-> 1, ok |-> main.ok /\ numPanics = 0]
    /\ UNCHANGED <<task, outcome, ch, doneCh, numPanics, results>>

\* A result is written once: a closed channel gives nothing more.
Take(t) == IF ch[t].buf = <<>> THEN UNCHANGED <<ch, results>>
           ELSE /\ ch' = [ch EXCEPT ![t].buf = Tail(@)]
                /\ results' = [results EXCEPT ![t] = Head(ch[t].buf)]

Reap ==
    /\ main.at = "reap"
    /\ IF main.i > NTasks THEN main' = [main EXCEPT !.at = "returned"] /\ UNCHANGED <<ch, results>>
       ELSE main' = [main EXCEPT !.i = @ + 1] /\ Take(main.i)
    /\ UNCHANGED <<task, outcome, doneCh, numPanics>>

\* The caller may wait for the rest.
CallWait == main.at = "returned" /\ main' = [main EXCEPT !.at = "wait", !.i = 1]
            /\ UNCHANGED <<task, outcome, ch, doneCh, numPanics, results>>
Wait ==
    /\ main.at = "wait"
    /\ IF main.i > NTasks THEN main' = [main EXCEPT !.at = "waited"] /\ UNCHANGED <<ch, results>>
       ELSE /\ ch[main.i].buf # <<>> \/ ch[main.i].closed
            /\ main' = [main EXCEPT !.i = @ + 1] /\ Take(main.i)
    /\ UNCHANGED <<task, outcome, doneCh, numPanics>>

Step(t) == Run(t) \/ SendResult(t) \/ CloseResult(t) \/ SendDone(t)
Caller == DoneLoop \/ CheckPanics \/ Reap \/ CallWait \/ Wait
Next == (\E t \in Tasks : Step(t)) \/ Caller

\* Tasks end, and their goroutines and the caller are scheduled.
Fairness == (\A t \in Tasks : WF_pvars(Step(t))) /\ WF_pvars(Caller)
Spec == Init /\ [][Next]_pvars /\ Fairness

-----------------------------------------------------------------------------
\* FirstError, for the caller: the first result with an error.
FirstError == SelectInSeq([t \in 1 .. NTasks |-> results[t]], LAMBDA r : r \in {"error", "panic"})

\* Once Parallel has returned, ok says whether no task aborted or panicked of
\* those that had ended; with ok all results are there, without Wait.  A
\* result is never taken twice and never that of another task, and after
\* Wait none is missing, so FirstError is the error of the first task that
\* has one.
ParallelSafe ==
    /\ \A t \in Tasks : results[t] \in {NoResult, outcome[t]} /\ Len(ch[t].buf) <= 1
    /\ main.at \in {"returned", "wait", "waited"} =>
          /\ main.ok => \A t \in Tasks : outcome[t] \in {"value", "error"} /\ results[t] = outcome[t]
          /\ ~main.ok => \E t \in Tasks : outcome[t] \in {"abort", "panic"}
    /\ main.at = "waited" =>
          /\ results = outcome
          /\ \A t \in Tasks : FirstError = t => \A u \in 1 .. t - 1 : outcome[u] \notin {"error", "panic"}

\* Parallel returns, and so does Wait: neither channel has a goroutine wait
\* for room, whoever stopped reading it.
AllEnded == main.at = "waited" /\ \A t \in Tasks : task[t] = "ended"
ParallelReturns == <>AllEnded

\* "Returns ok=false iff any of the tasks returned abort=true."
OkIffNoAbort == main.at = "returned" => (~main.ok <=> \E t \in Tasks : outcome[t] = "abort")
=============================================================================

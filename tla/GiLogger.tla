------------------------------ MODULE GiLogger ------------------------------
(***************************************************************************)
(* The file logger of log/logger.go: synchronous writing under a mutex, or *)
(* asynchronous through the channel cf and the goroutine asyncRun.         *)
(*                                                                         *)
(* Actors are the goroutines that use the logger and the successive        *)
(* asyncRun goroutines.  All of them write through flush, but asyncRun     *)
(* without the mutex, so flush is taken apart where another actor can see  *)
(* the file closed or replaced.  A message is one unit of file size; a     *)
(* file is the sequence of the units in it and is named by the second in   *)
(* which newLogFile opened it.                                             *)
(***************************************************************************)
EXTENDS Naturals, Sequences, Functions, TLC

CONSTANTS Threads,
          Controllers,  \* the threads that call SetOutput*, Flush
          MaxLogs,      \* bound: messages
          MaxSessions,  \* bound: times SetOutputAsync(true) starts asyncRun
          MaxSeconds,   \* bound: the clock
          MaxRemovals,  \* bound: log files deleted by somebody else
          MaxSets,      \* bound: calls of SetOutputToFile, SetOutputToScreen
          CfCap,        \* capacity of cf, 10000 in the code
          MaxFileSize,  \* maxFileSize
          Nil

Runs == 1..MaxSessions
Actors == Threads \cup Runs
Msgs == 1..MaxLogs
Names == 1..MaxSeconds

ASSUME LogAssumption ==
    /\ Controllers \subseteq Threads /\ Threads \cap Runs = {}
    /\ {MaxLogs, MaxSessions, MaxRemovals, MaxSets} \subseteq Nat
    /\ {MaxSeconds, CfCap, MaxFileSize} \subseteq Nat \ {0}

\* The threads with the same duties are interchangeable.
Symmetry == Permutations(Controllers)

VARIABLES
    isOutputAsync, isOutputToFile, isOutputToScreen,
    cf, caStop, caStopped,
    pc, buf,      \* of an actor: its place, the text it has to write
    then,         \* of a thread: where SetOutputAsync(false) returns to
    logFile,      \* [name, pos, open], or Nil
    curFileSize,
    files,        \* name -> content, the files that exist
    now, sessions, removals, sets,
    logged,       \* the messages so far, named by their number
    fate,         \* history: what flush did with a message
    due,          \* history: what cf held at the last SetOutputAsync(false)
    overlapped,   \* history: has asyncRun written while a thread did?
    reused        \* history: has newLogFile opened a file that was there?

channels == <<isOutputAsync, cf, caStop, caStopped>>
disk == <<logFile, curFileSize, files, removals, reused>>
config == <<isOutputToFile, isOutputToScreen, sets>>
vars == <<channels, disk, config, pc, buf, then, now, sessions, logged, fate, due, overlapped>>

Flushing == {"open", "write", "size", "rotate"}

NewGiLogger ==
    /\ isOutputAsync = FALSE /\ isOutputToFile = TRUE /\ isOutputToScreen = FALSE
    /\ cf = <<>> /\ caStop = 0 /\ caStopped = 0
    /\ pc = [a \in Actors |-> IF a \in Threads THEN "idle" ELSE "none"]
    /\ buf = [a \in Actors |-> <<>>] /\ then = [t \in Threads |-> "idle"]
    /\ logFile = Nil /\ curFileSize = 0 /\ files = [n \in {} |-> <<>>]
    /\ now = 1 /\ sessions = 0 /\ removals = 0 /\ sets = 0
    /\ logged = 0 /\ fate = [m \in Msgs |-> "pending"] /\ due = {}
    /\ overlapped = FALSE /\ reused = FALSE

-----------------------------------------------------------------------------
(* flush *)

mutexFree == \A t \in Threads : pc[t] \notin Flushing

\* flushMutex locks, then runs flush.
flushMutex(t) ==
    /\ pc[t] = "lock" /\ mutexFree
    /\ pc' = [pc EXCEPT ![t] = "open"]
    /\ UNCHANGED <<channels, disk, config, buf, then, now, sessions, logged, fate, due, overlapped>>

\* Where an actor goes when flush returns.
Done(a) == /\ pc' = [pc EXCEPT ![a] = IF a \in Threads THEN "idle" ELSE "loop"]
           /\ buf' = [buf EXCEPT ![a] = <<>>]

Mark(b, what) == fate' = [m \in Msgs |-> IF m \in Range(b) THEN what ELSE fate[m]]

\* The name is the current second; O_CREATE without O_TRUNC or O_EXCL takes a
\* file that is there as it is.  The open may fail.
newLogFile ==
    /\ \/ /\ logFile' = [name |-> now, pos |-> 0, open |-> TRUE]
          /\ files' = IF now \in DOMAIN files THEN files
                      ELSE [n \in DOMAIN files \cup {now} |-> IF n = now THEN <<>> ELSE files[n]]
          /\ reused' = (reused \/ (now \in DOMAIN files /\ Len(files[now]) > 0))
       \/ /\ logFile' = Nil
          /\ UNCHANGED <<files, reused>>
    /\ curFileSize' = 0

Others(a) == {b \in Actors \ {a} : pc[b] \in Flushing}

\* Lines 313-333 and 342-347: the screen, and a file to write to.
flushOpen(a) ==
    /\ pc[a] = "open"
    /\ overlapped' = (overlapped \/ Others(a) # {})
    /\ IF isOutputToFile
       THEN /\ IF logFile = Nil \/ logFile.name \notin DOMAIN files
               THEN newLogFile
               ELSE UNCHANGED <<logFile, files, reused, curFileSize>>
            /\ IF logFile' = Nil
               THEN Mark(buf[a], "shown") /\ Done(a)
               ELSE /\ pc' = [pc EXCEPT ![a] = "write"]
                    /\ UNCHANGED <<fate, buf>>
       ELSE /\ logFile' = Nil
            /\ curFileSize' = IF logFile = Nil THEN curFileSize ELSE 0
            /\ Mark(buf[a], IF isOutputToScreen THEN "shown" ELSE "off")
            /\ Done(a)
            /\ UNCHANGED <<files, reused>>
    /\ UNCHANGED <<channels, config, removals, then, now, sessions, logged, due>>

\* Mutant: every write starts at the beginning of the file.
WriteAt_Start(s, pos, b) == b \o SubSeq(s, Len(b) + 1, Len(s))

\* Overwrite from pos on, as a write at the handle's offset does.
WriteAt(s, pos, b) == SubSeq(s, 1, pos) \o b \o SubSeq(s, pos + Len(b) + 1, Len(s))

\* Lines 334-335: the error of a write to a closed file is ignored.  A file
\* deleted after the check takes the text with it.
flushWrite(a) ==
    /\ pc[a] = "write"
    /\ IF logFile = Nil \/ ~logFile.open
       THEN /\ Mark(buf[a], "lost")
            /\ UNCHANGED <<logFile, files>>
       ELSE /\ logFile' = [logFile EXCEPT !.pos = @ + Len(buf[a])]
            /\ IF logFile.name \in DOMAIN files
               THEN /\ files' = [files EXCEPT ![logFile.name] = WriteAt(@, logFile.pos, buf[a])]
                    /\ Mark(buf[a], "written")
               ELSE /\ Mark(buf[a], "deleted")
                    /\ files' = files
    /\ pc' = [pc EXCEPT ![a] = "size"]
    /\ UNCHANGED <<channels, config, curFileSize, removals, reused, buf, then, now, sessions,
                   logged, due, overlapped>>

\* Mutant: closes the full file and goes on with it.
flushSize_NoReopen(a) ==
    /\ pc[a] = "size"
    /\ curFileSize' = curFileSize + Len(buf[a])
    /\ logFile' = IF curFileSize' >= MaxFileSize /\ logFile # Nil
                  THEN [logFile EXCEPT !.open = FALSE] ELSE logFile
    /\ Done(a)
    /\ UNCHANGED <<channels, config, files, removals, reused, then, now, sessions, logged, fate,
                   due, overlapped>>

\* Lines 338-339: the addition is not atomic and may be lost to another actor's.
flushSize(a) ==
    /\ pc[a] = "size"
    /\ \E n \in {Len(buf[a])} \cup (IF Others(a) = {} THEN {} ELSE {0}) :
        LET full == curFileSize + n >= MaxFileSize
        IN  /\ curFileSize' = curFileSize + n
            /\ logFile' = IF full /\ logFile # Nil THEN [logFile EXCEPT !.open = FALSE] ELSE logFile
            /\ IF full THEN /\ pc' = [pc EXCEPT ![a] = "rotate"]
                            /\ buf' = buf
               ELSE Done(a)
    /\ UNCHANGED <<channels, config, files, removals, reused, then, now, sessions, logged, fate,
                   due, overlapped>>

\* Line 340.
flushRotate(a) ==
    /\ pc[a] = "rotate"
    /\ newLogFile
    /\ Done(a)
    /\ UNCHANGED <<channels, config, removals, then, now, sessions, logged, fate, due, overlapped>>

flush(a) == flushOpen(a) \/ flushWrite(a) \/ flushSize(a) \/ flushRotate(a)

-----------------------------------------------------------------------------
(* Log, and LogEx alike *)

\* Trace to Fatal return at once when there is no output; the level mask, fixed
\* per message, is left out.
isOutput == isOutputToFile \/ isOutputToScreen

Log(t) ==
    /\ pc[t] = "idle" /\ logged < MaxLogs
    /\ isOutput
    /\ logged' = logged + 1
    /\ buf' = [buf EXCEPT ![t] = <<logged'>>]
    /\ pc' = [pc EXCEPT ![t] = IF isOutputAsync THEN "enqueue" ELSE "lock"]
    /\ UNCHANGED <<channels, disk, config, then, now, sessions, fate, due, overlapped>>

\* The send on cf, which blocks while it is full.
LogEnqueue(t) ==
    /\ pc[t] = "enqueue" /\ Len(cf) < CfCap
    /\ cf' = cf \o buf[t]
    /\ Done(t)
    /\ UNCHANGED <<isOutputAsync, caStop, caStopped, disk, config, then, now, sessions, logged,
                   fate, due, overlapped>>

-----------------------------------------------------------------------------
(* asyncRun *)

\* Mutant: looks at caStop before cf.
asyncRun_StopsFirst(r) ==
    /\ pc[r] = "loop" /\ (cf # <<>> \/ caStop = 1)
    /\ pc' = [pc EXCEPT ![r] = IF caStop = 1 THEN "stopped" ELSE "receive"]
    /\ UNCHANGED <<channels, disk, config, buf, then, now, sessions, logged, fate, due, overlapped>>

\* It sleeps while cf is empty and nobody asked it to stop.
asyncRun(r) ==
    /\ pc[r] = "loop" /\ (cf # <<>> \/ caStop = 1)
    /\ pc' = [pc EXCEPT ![r] = IF cf # <<>> THEN "receive" ELSE "stopped"]
    /\ UNCHANGED <<channels, disk, config, buf, then, now, sessions, logged, fate, due, overlapped>>

\* Receive from cf, by asyncRun and by Flush; another receiver may have been
\* faster than the test of len(cf).
Receive(a, next) ==
    /\ cf # <<>>
    /\ cf' = Tail(cf)
    /\ buf' = [buf EXCEPT ![a] = Append(@, Head(cf))]
    /\ pc' = [pc EXCEPT ![a] = next]
    /\ UNCHANGED <<isOutputAsync, caStop, caStopped, disk, config, then, now, sessions, logged,
                   fate, due, overlapped>>

asyncRunReceive(r) == pc[r] = "receive" /\ Receive(r, "open")

asyncRunStopped(r) ==
    /\ pc[r] = "stopped" /\ caStopped = 0
    /\ caStopped' = 1
    /\ pc' = [pc EXCEPT ![r] = "exit"]
    /\ UNCHANGED <<isOutputAsync, cf, caStop, disk, config, buf, then, now, sessions, logged,
                   fate, due, overlapped>>

-----------------------------------------------------------------------------
(* SetOutputAsync, Flush and the other settings *)

AsyncOn(t) ==
    /\ t \in Controllers /\ pc[t] = "idle" /\ ~isOutputAsync /\ sessions < MaxSessions
    /\ isOutputAsync' = TRUE
    /\ sessions' = sessions + 1
    /\ pc' = [pc EXCEPT ![sessions'] = "loop"]
    /\ UNCHANGED <<cf, caStop, caStopped, disk, config, buf, then, now, logged, fate, due, overlapped>>

\* SetOutputAsync(false), on its own (next = "idle") or from Flush ("drain").
AsyncOff(t, next) ==
    /\ isOutputAsync
    /\ isOutputAsync' = FALSE
    /\ due' = Range(cf)
    /\ pc' = [pc EXCEPT ![t] = "stop"]
    /\ then' = [then EXCEPT ![t] = next]
    /\ UNCHANGED <<cf, caStop, caStopped, disk, config, buf, now, sessions, logged, fate, overlapped>>

SetOutputAsync(t) ==
    AsyncOn(t) \/ (t \in Controllers /\ pc[t] = "idle" /\ AsyncOff(t, "idle"))

\* caStop <- true; nothing ever receives from caStop.
stopSend(t) ==
    /\ pc[t] = "stop" /\ caStop = 0
    /\ caStop' = 1
    /\ pc' = [pc EXCEPT ![t] = "stopwait"]
    /\ UNCHANGED <<isOutputAsync, cf, caStopped, disk, config, buf, then, now, sessions, logged,
                   fate, due, overlapped>>

stopWait(t) ==
    /\ pc[t] = "stopwait" /\ caStopped = 1
    /\ caStopped' = 0
    /\ pc' = [pc EXCEPT ![t] = then[t]]
    /\ UNCHANGED <<isOutputAsync, cf, caStop, disk, config, buf, then, now, sessions, logged,
                   fate, due, overlapped>>

Flush(t) ==
    /\ t \in Controllers /\ pc[t] = "idle"
    /\ \/ AsyncOff(t, "drain")
       \/ /\ ~isOutputAsync /\ cf # <<>>
          /\ pc' = [pc EXCEPT ![t] = "drain"]
          /\ UNCHANGED <<channels, disk, config, buf, then, now, sessions, logged, fate, due, overlapped>>

\* The loop of Flush: gather all of cf, then write it in one go.
FlushDrain(t) ==
    \/ /\ pc[t] = "drain"
       /\ pc' = [pc EXCEPT ![t] = IF cf # <<>> THEN "gather" ELSE IF buf[t] # <<>> THEN "lock" ELSE "idle"]
       /\ UNCHANGED <<channels, disk, config, buf, then, now, sessions, logged, fate, due, overlapped>>
    \/ pc[t] = "gather" /\ Receive(t, "drain")

SetOutput(t) ==
    /\ t \in Controllers /\ pc[t] = "idle" /\ sets < MaxSets
    /\ sets' = sets + 1
    /\ \/ isOutputToFile' = ~isOutputToFile /\ UNCHANGED isOutputToScreen
       \/ isOutputToScreen' = ~isOutputToScreen /\ UNCHANGED isOutputToFile
    /\ UNCHANGED <<channels, disk, pc, buf, then, now, sessions, logged, fate, due, overlapped>>

-----------------------------------------------------------------------------
(* The environment *)

Tick == /\ now < MaxSeconds
        /\ now' = now + 1
        /\ UNCHANGED <<channels, disk, config, pc, buf, then, sessions, logged, fate, due, overlapped>>

RemoveFile ==
    /\ removals < MaxRemovals
    /\ removals' = removals + 1
    /\ \E n \in DOMAIN files :
        /\ files' = [k \in DOMAIN files \ {n} |-> files[k]]
        /\ Mark(files[n], "deleted")
    /\ UNCHANGED <<channels, logFile, curFileSize, reused, config, pc, buf, then, now, sessions,
                   logged, due, overlapped>>

-----------------------------------------------------------------------------
ThreadStep(t) ==
    flushMutex(t) \/ flush(t) \/ LogEnqueue(t) \/ stopSend(t) \/ stopWait(t) \/ FlushDrain(t)
RunStep(r) == flush(r) \/ asyncRun(r) \/ asyncRunReceive(r) \/ asyncRunStopped(r)

Next ==
    \/ \E t \in Threads : ThreadStep(t) \/ Log(t) \/ SetOutputAsync(t) \/ Flush(t) \/ SetOutput(t)
    \/ \E r \in Runs : RunStep(r)
    \/ Tick \/ RemoveFile

Spec == NewGiLogger /\ [][Next]_vars

\* Goroutines inside a call, and asyncRun, keep running.
FairSpec ==
    /\ Spec
    /\ \A t \in Threads : SF_vars(flushMutex(t)) /\ WF_vars(ThreadStep(t))
    /\ \A r \in Runs : WF_vars(RunStep(r))

-----------------------------------------------------------------------------
(* Properties *)

\* Type invariant.
TypeOK ==
    /\ isOutputAsync \in BOOLEAN /\ isOutputToFile \in BOOLEAN /\ isOutputToScreen \in BOOLEAN
    /\ cf \in Seq(Msgs) /\ Len(cf) <= CfCap /\ caStop \in {0, 1} /\ caStopped \in {0, 1}
    /\ pc \in [Actors -> Flushing \cup {"none", "idle", "lock", "enqueue", "loop", "receive", "stopped",
                                        "exit", "stop", "stopwait", "drain", "gather"}]
    /\ buf \in [Actors -> Seq(Msgs)] /\ then \in [Threads -> {"idle", "drain"}]
    /\ logFile \in [name : Names, pos : Nat, open : BOOLEAN] \cup {Nil}
    /\ curFileSize \in Nat /\ DOMAIN files \subseteq Names
    /\ \A n \in DOMAIN files : files[n] \in Seq(Msgs)
    /\ fate \in [Msgs -> {"pending", "written", "shown", "off", "lost", "deleted"}]

\* Until asyncRun and a thread write at the same time, which only happens while
\* SetOutputAsync(false) waits, no text is written to a closed file.
LossNeedsOverlap == \A m \in Msgs : fate[m] = "lost" => overlapped

\* What flush wrote stays in a log file through rotations, deletions of other
\* files and changes of mode, unless newLogFile reopened a file of the same
\* second.
WrittenKept ==
    \A m \in Msgs : fate[m] = "written" => reused \/ \E n \in DOMAIN files : m \in Range(files[n])

\* When asyncRun has signalled that it stopped, every message that was in cf
\* when SetOutputAsync(false) began is dealt with, or a Flush has hold of it.
StopDrains ==
    caStopped = 1 => \A m \in due : fate[m] # "pending" \/ \E t \in Threads : m \in Range(buf[t])

\* SetOutputAsync(false) returns when asyncRun has stopped, in every session.
StopReturns == \A t \in Threads : pc[t] = "stop" ~> pc[t] # "stop" /\ pc[t] # "stopwait"

\* newLogFile creates a new file: the file it opens is empty.
NewLogFileIsNew == ~reused
=============================================================================

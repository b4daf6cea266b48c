--------------------------- MODULE GiLoggerProofs ---------------------------
(***************************************************************************)
(* For any number of threads, messages, settings and log files: the logger *)
(* writes to a closed file only after asyncRun and a thread wrote at the   *)
(* same time, what it wrote stays in a file, and in the first asynchronous *)
(* session SetOutputAsync(false) leaves nothing behind in cf.              *)
(***************************************************************************)
EXTENDS GiLogger, SequenceTheorems, TLAPS

Places == Flushing \cup {"none", "idle", "lock", "enqueue", "loop", "receive", "stopped", "exit", "stop", "stopwait",
                         "drain", "gather"}
Fates == {"pending", "written", "shown", "off", "lost", "deleted"}
Handle == [name : Names, pos : Nat, open : BOOLEAN]

ActorTypes ==
    /\ pc \in [Actors -> Places] /\ buf \in [Actors -> Seq(Msgs)] /\ then \in [Threads -> {"idle", "drain"}]

ChanTypes ==
    /\ isOutputAsync \in BOOLEAN /\ isOutputToFile \in BOOLEAN /\ isOutputToScreen \in BOOLEAN
    /\ cf \in Seq(Msgs) /\ caStop \in {0, 1} /\ caStopped \in {0, 1}

DiskTypes ==
    /\ logFile \in Handle \cup {Nil} /\ curFileSize \in Nat /\ now \in Names
    /\ DOMAIN files \subseteq Names /\ files \in [DOMAIN files -> Seq(Msgs)]

PastTypes ==
    /\ sessions \in Nat /\ logged \in Nat /\ due \subseteq Msgs /\ fate \in [Msgs -> Fates]
    /\ overlapped \in BOOLEAN /\ reused \in BOOLEAN

Types == ActorTypes /\ ChanTypes /\ DiskTypes /\ PastTypes

\* Until writers overlap, one actor at a time is past the check of the file in
\* flush, and the file is only closed while that actor rotates it.
Busy == {"write", "size", "rotate"}

Turns ==
    ~overlapped =>
        /\ \A a, b \in Actors : pc[a] \in Busy /\ pc[b] \in Busy => a = b
        /\ \A a \in Actors : pc[a] = "write" => logFile # Nil
        /\ logFile # Nil /\ ~logFile.open => \E a \in Actors : pc[a] = "rotate"

\* The handle's offset is in its file, and at the end of one that was new.
Offset ==
    logFile # Nil /\ logFile.name \in DOMAIN files =>
        /\ logFile.pos <= Len(files[logFile.name])
        /\ ~reused => logFile.pos = Len(files[logFile.name])

\* An actor outside a call holds no text, and text that flush is done with has
\* a fate.
Resting == {"none", "idle", "loop", "receive", "stopped", "exit", "stop", "stopwait"}

Hand(a) ==
    /\ pc[a] \in Resting => buf[a] = <<>>
    /\ pc[a] \in {"size", "rotate"} => \A m \in Range(buf[a]) : fate[m] # "pending"

Hands == \A a \in Actors : Hand(a)

\* A message on its way to cf is new to it.
Sending(t) ==
    pc[t] = "enqueue" =>
        /\ Len(buf[t]) = 1
        /\ \A m \in Range(buf[t]) : m \notin due /\ m \notin Range(cf)
        /\ \A u \in Threads \ {t} : pc[u] = "enqueue" => Range(buf[u]) \cap Range(buf[t]) = {}

Fresh ==
    /\ \A m \in due \cup Range(cf) : m <= logged
    /\ \A a \in Actors : \A m \in Range(buf[a]) : m <= logged
    /\ \A t \in Threads : Sending(t)
    /\ Len(cf) <= CfCap

\* The messages that cf held at SetOutputAsync(false) are not lost on the way,
\* and, once asyncRun has stopped, out of cf.
Held == \A m \in due : fate[m] # "pending" \/ m \in Range(cf) \/ \E a \in Actors : m \in Range(buf[a])
Settled == \A m \in due : fate[m] # "pending" \/ \E t \in Threads : m \in Range(buf[t])

Session ==
    /\ isOutputAsync => sessions > 0
    /\ \A r \in Runs : r > sessions => pc[r] = "none"
    /\ caStopped = 1 => \E r \in Runs : pc[r] = "exit"
    /\ sessions <= 1 =>
        /\ isOutputAsync \/ sessions = 0 => /\ caStop = 0 /\ \A t \in Threads : pc[t] # "stop"
                                            /\ \A r \in Runs : pc[r] \notin {"stopped", "exit"}
        /\ \A r \in Runs : pc[r] \in {"stopped", "exit"} => Settled

IInv ==
    /\ Types /\ Turns /\ LossNeedsOverlap /\ Offset /\ WrittenKept
    /\ Hands /\ Fresh /\ Held /\ Session

-----------------------------------------------------------------------------
(* Sequences and files *)

LEMMA RangeLaw ==
    /\ Range(<<>>) = {}
    /\ \A m : Range(<<m>>) = {m} /\ Len(<<m>>) = 1
    /\ \A s \in Seq(Msgs) : Range(s) \subseteq Msgs
<1>1. Range(<<>>) = {} /\ \A m : Range(<<m>>) = {m} /\ Len(<<m>>) = 1
  BY DEF Range
<1>2. \A s \in Seq(Msgs) : Range(s) \subseteq Msgs
  BY RangeOfSeq
<1>3. QED
  BY <1>1, <1>2

\* The first message of cf goes to the end of a receiver's text.
LEMMA ReceiveLaw ==
    ASSUME NEW s \in Seq(Msgs), s # <<>>, NEW b \in Seq(Msgs)
    PROVE  /\ Tail(s) \in Seq(Msgs) /\ Append(b, Head(s)) \in Seq(Msgs) /\ Len(Tail(s)) < Len(s)
           /\ Range(Tail(s)) \subseteq Range(s) /\ Range(b) \subseteq Range(Append(b, Head(s)))
           /\ Range(s) \subseteq Range(Tail(s)) \cup Range(Append(b, Head(s)))
           /\ Range(Append(b, Head(s))) \subseteq Range(b) \cup Range(s)
<1>1. /\ Len(s) \in Nat /\ Len(s) > 0 /\ Tail(s) \in Seq(Msgs) /\ Len(Tail(s)) = Len(s) - 1
      /\ Head(s) = s[1] /\ Head(s) \in Msgs /\ \A i \in 1..Len(Tail(s)) : Tail(s)[i] = s[i + 1]
  OBVIOUS
<1>2. /\ Len(b) \in Nat /\ Append(b, Head(s)) \in Seq(Msgs) /\ Len(Append(b, Head(s))) = Len(b) + 1
      /\ \A i \in 1..Len(b) : Append(b, Head(s))[i] = b[i] /\ i \in 1..Len(Append(b, Head(s)))
      /\ Append(b, Head(s))[Len(b) + 1] = s[1] /\ Len(b) + 1 \in 1..Len(Append(b, Head(s)))
  BY <1>1
<1>3. /\ Range(s) = {s[i] : i \in 1..Len(s)} /\ Range(Tail(s)) = {Tail(s)[i] : i \in 1..Len(Tail(s))}
      /\ Range(b) = {b[i] : i \in 1..Len(b)}
      /\ Range(Append(b, Head(s))) = {Append(b, Head(s))[i] : i \in 1..Len(Append(b, Head(s)))}
  <2>1. \A q \in Seq(Msgs) : Range(q) = {q[i] : i \in 1..Len(q)}
    BY RangeEquality
  <2>2. QED
    BY <1>1, <1>2, <2>1, Zenon
<1>4. \A i \in 1..Len(Tail(s)) : i + 1 \in 1..Len(s)
  BY <1>1
<1>5. \A i \in 1..Len(s) : i = 1 \/ (i - 1 \in 1..Len(Tail(s)) /\ Tail(s)[i - 1] = s[i])
  BY <1>1
<1>6. \A i \in 1..Len(Append(b, Head(s))) : i \in 1..Len(b) \/ i = Len(b) + 1
  BY <1>2
<1>7. Range(Tail(s)) \subseteq Range(s)
  BY <1>1, <1>3, <1>4
<1>8. Range(b) \subseteq Range(Append(b, Head(s))) /\ s[1] \in Range(Append(b, Head(s)))
  BY <1>2, <1>3
<1>9. Range(s) \subseteq Range(Tail(s)) \cup Range(Append(b, Head(s)))
  BY <1>3, <1>5, <1>8
<1>10. s[1] \in Range(s)
  BY <1>1, <1>3
<1>11. Range(Append(b, Head(s))) \subseteq Range(b) \cup Range(s)
  BY <1>2, <1>3, <1>6, <1>10
<1>12. QED
  BY <1>1, <1>2, <1>7, <1>8, <1>9, <1>11

\* A write at an offset inside the file, and at its end.
LEMMA WriteLaw ==
    ASSUME NEW s \in Seq(Msgs), NEW b \in Seq(Msgs), NEW pos \in Nat, pos <= Len(s)
    PROVE  /\ WriteAt(s, pos, b) \in Seq(Msgs) /\ pos + Len(b) <= Len(WriteAt(s, pos, b))
           /\ pos = Len(s) => /\ Len(WriteAt(s, pos, b)) = pos + Len(b)
                              /\ Range(WriteAt(s, pos, b)) = Range(s) \cup Range(b)
<1>1. Len(s) \in Nat /\ Len(b) \in Nat /\ \A i \in 1..Len(s) : s[i] \in Msgs
  OBVIOUS
<1>2. PICK u : u = SubSeq(s, 1, pos)
  BY Zenon
<1>3. PICK v : v = SubSeq(s, pos + Len(b) + 1, Len(s))
  BY Zenon
<1>4. u \in Seq(Msgs) /\ Len(u) = pos
  <2>1. \A i \in 1..pos : s[i] \in Msgs
    BY <1>1
  <2>2. u \in Seq(Msgs) /\ Len(u) = IF 1 <= pos THEN pos - 1 + 1 ELSE 0
    BY <1>2, <2>1, SubSeqProperties
  <2>3. QED
    BY <2>2
<1>5. v \in Seq(Msgs) /\ Len(v) \in Nat /\ (pos = Len(s) => v = <<>>)
  <2>1. \A i \in (pos + Len(b) + 1)..Len(s) : s[i] \in Msgs
    BY <1>1
  <2>2. v \in Seq(Msgs)
    BY <1>1, <1>3, <2>1, SubSeqProperties
  <2>3. pos = Len(s) => v = <<>>
    BY <1>1, <1>3, SubSeqEmpty
  <2>4. QED
    BY <2>2, <2>3
<1>6. WriteAt(s, pos, b) = (u \o b) \o v
  BY <1>2, <1>3, Zenon DEF WriteAt
<1>7. u \o b \in Seq(Msgs) /\ Len(u \o b) = pos + Len(b)
  BY <1>4, ConcatProperties, Zenon
<1>8. WriteAt(s, pos, b) \in Seq(Msgs) /\ Len(WriteAt(s, pos, b)) = (pos + Len(b)) + Len(v)
  <2>1. PICK w : w = u \o b
    BY Zenon
  <2>2. w \in Seq(Msgs) /\ Len(w) = pos + Len(b)
    BY <1>7, <2>1, Zenon
  <2>3. w \o v \in Seq(Msgs) /\ Len(w \o v) = Len(w) + Len(v)
    <3>1. w \in Seq(Msgs) /\ v \in Seq(Msgs)
      BY <1>5, <2>2, Zenon
    <3>2. QED
      BY <3>1, ConcatProperties, Zenon
  <2>4. QED
    BY <1>6, <2>1, <2>2, <2>3, Zenon
<1>9. pos + Len(b) <= Len(WriteAt(s, pos, b))
  BY <1>1, <1>5, <1>8
<1>10. ASSUME pos = Len(s)
       PROVE  Len(WriteAt(s, pos, b)) = pos + Len(b) /\ Range(WriteAt(s, pos, b)) = Range(s) \cup Range(b)
  <2>1. u = s
    BY <1>2, <1>10, SubSeqFull
  <2>2. WriteAt(s, pos, b) = s \o b
    BY <1>5, <1>6, <1>7, <1>10, <2>1, ConcatEmptySeq
  <2>3. QED
    BY <1>7, <2>1, <2>2, RangeConcatenation
<1>11. QED
  BY <1>8, <1>9, <1>10

-----------------------------------------------------------------------------
(* What the parts of flush do *)

\* One actor moves, one actor's text changes.
LEMMA MoveLaw ==
    ASSUME ActorTypes, NEW a \in Actors, NEW p, pc' = [pc EXCEPT ![a] = p]
    PROVE  pc'[a] = p /\ (\A b \in Actors : b # a => pc'[b] = pc[b]) /\ (p \in Places => pc' \in [Actors -> Places])
BY DEF ActorTypes

LEMMA FillLaw ==
    ASSUME ActorTypes, NEW a \in Actors, NEW s, buf' = [buf EXCEPT ![a] = s]
    PROVE  /\ buf'[a] = s /\ \A b \in Actors : b # a => buf'[b] = buf[b]
           /\ s \in Seq(Msgs) => buf' \in [Actors -> Seq(Msgs)]
BY DEF ActorTypes

LEMMA DoneLaw ==
    ASSUME ActorTypes, NEW a \in Actors, Done(a)
    PROVE  /\ pc'[a] \in {"idle", "loop"} /\ buf'[a] = <<>>
           /\ \A b \in Actors : b # a => pc'[b] = pc[b] /\ buf'[b] = buf[b]
           /\ pc' \in [Actors -> Places] /\ buf' \in [Actors -> Seq(Msgs)]
<1>1. PICK p \in {"idle", "loop"} : pc' = [pc EXCEPT ![a] = p]
  BY Zenon DEF Done
<1>2. buf' = [buf EXCEPT ![a] = <<>>] /\ <<>> \in Seq(Msgs) /\ p \in Places
  BY <1>1 DEF Done, Places
<1>3. QED
  BY <1>1, <1>2, MoveLaw, FillLaw, Zenon

LEMMA MarkLaw ==
    ASSUME PastTypes, NEW b, NEW what \in Fates \ {"pending"}, Mark(b, what)
    PROVE  /\ fate' \in [Msgs -> Fates]
           /\ \A m \in Msgs : fate'[m] = IF m \in Range(b) THEN what ELSE fate[m]
BY DEF Mark, PastTypes

LEMMA NewFileLaw ==
    ASSUME DiskTypes, PastTypes, newLogFile
    PROVE  /\ logFile' \in Handle \cup {Nil} /\ curFileSize' \in Nat /\ reused' \in BOOLEAN
           /\ DOMAIN files' \subseteq Names /\ files' \in [DOMAIN files' -> Seq(Msgs)]
           /\ logFile' = Nil \/ logFile'.open
           /\ reused => reused'
           /\ \A n \in DOMAIN files : n \in DOMAIN files' /\ files'[n] = files[n]
           /\ Offset'
<1>1. /\ curFileSize' = 0 /\ now \in Names /\ DOMAIN files \subseteq Names /\ files \in [DOMAIN files -> Seq(Msgs)]
      /\ reused \in BOOLEAN /\ \A n \in DOMAIN files : Len(files[n]) \in Nat
  BY DEF newLogFile, DiskTypes, PastTypes
<1>2. CASE logFile' = Nil /\ UNCHANGED <<files, reused>>
  BY <1>1, <1>2 DEF Offset
<1>3. CASE /\ logFile' = [name |-> now, pos |-> 0, open |-> TRUE]
           /\ files' = IF now \in DOMAIN files THEN files
                       ELSE [n \in DOMAIN files \cup {now} |-> IF n = now THEN <<>> ELSE files[n]]
           /\ reused' = (reused \/ (now \in DOMAIN files /\ Len(files[now]) > 0))
  <2>1. logFile' \in Handle /\ logFile'.name = now /\ logFile'.pos = 0 /\ logFile'.open
    BY <1>1, <1>3 DEF Handle
  <2>2. reused' \in BOOLEAN /\ (reused => reused')
    BY <1>1, <1>3
  <2>3. /\ DOMAIN files' \subseteq Names /\ files' \in [DOMAIN files' -> Seq(Msgs)]
        /\ \A n \in DOMAIN files : n \in DOMAIN files' /\ files'[n] = files[n]
        /\ now \in DOMAIN files \/ files'[now] = <<>>
    <3>1. CASE now \in DOMAIN files
      BY <1>1, <1>3, <3>1
    <3>2. CASE now \notin DOMAIN files
      <4>1. files' = [n \in DOMAIN files \cup {now} |-> IF n = now THEN <<>> ELSE files[n]]
        BY <1>3, <3>2
      <4>2. <<>> \in Seq(Msgs)
        OBVIOUS
      <4>3. QED
        BY <1>1, <3>2, <4>1, <4>2
    <3>3. QED
      BY <3>1, <3>2
  <2>4. Offset'
    <3>1. CASE now \in DOMAIN files
      <4>1. Len(files[now]) \in Nat /\ files'[now] = files[now] /\ (~reused' => ~(Len(files[now]) > 0))
        BY <1>1, <1>3, <2>3, <3>1, Zenon
      <4>2. Len(files'[now]) \in Nat /\ (~reused' => Len(files'[now]) = 0)
        BY <4>1
      <4>3. QED
        BY <2>1, <4>2 DEF Offset
    <3>2. CASE now \notin DOMAIN files
      BY <2>1, <2>3, <3>2 DEF Offset
    <3>3. QED
      BY <3>1, <3>2
  <2>5. QED
    BY <1>1, <2>1, <2>2, <2>3, <2>4
<1>4. QED
  BY <1>2, <1>3, Zenon DEF newLogFile

Kept == UNCHANGED <<isOutputAsync, isOutputToFile, isOutputToScreen, cf, caStop, caStopped, then, now, sessions,
                    logged, due>>

LEMMA OpenLaw ==
    ASSUME Types, NEW a \in Actors, flushOpen(a)
    PROVE  /\ pc[a] = "open" /\ Kept /\ overlapped' = (overlapped \/ Others(a) # {})
           /\ \/ newLogFile
              \/ UNCHANGED <<logFile, files, reused, curFileSize>>
              \/ logFile' = Nil /\ curFileSize' \in Nat /\ UNCHANGED <<files, reused>>
           /\ \/ pc' = [pc EXCEPT ![a] = "write"] /\ logFile' # Nil /\ UNCHANGED <<fate, buf>>
              \/ Done(a) /\ \E what \in {"shown", "off"} : Mark(buf[a], what)
<1>1. pc[a] = "open" /\ Kept /\ overlapped' = (overlapped \/ Others(a) # {})
  BY Zenon DEF flushOpen, channels, config, Kept
<1>2. CASE isOutputToFile
  <2>1. newLogFile \/ UNCHANGED <<logFile, files, reused, curFileSize>>
    BY <1>2, Zenon DEF flushOpen
  <2>2. \/ logFile' = Nil /\ Mark(buf[a], "shown") /\ Done(a)
        \/ logFile' # Nil /\ pc' = [pc EXCEPT ![a] = "write"] /\ UNCHANGED <<fate, buf>>
    BY <1>2, Zenon DEF flushOpen
  <2>3. QED
    BY <1>1, <2>1, <2>2, Zenon
<1>3. CASE ~isOutputToFile
  <2>1. /\ logFile' = Nil /\ curFileSize' = (IF logFile = Nil THEN curFileSize ELSE 0) /\ Done(a)
        /\ Mark(buf[a], IF isOutputToScreen THEN "shown" ELSE "off") /\ UNCHANGED <<files, reused>>
    BY <1>3, Zenon DEF flushOpen
  <2>2. curFileSize' \in Nat
    BY <2>1 DEF Types, DiskTypes
  <2>3. \E what \in {"shown", "off"} : Mark(buf[a], what)
    BY <2>1, Zenon
  <2>4. QED
    BY <1>1, <2>1, <2>2, <2>3, Zenon
<1>4. QED
  BY <1>2, <1>3

LEMMA WriteStepLaw ==
    ASSUME Types, NEW a \in Actors, flushWrite(a)
    PROVE  /\ pc[a] = "write" /\ pc' = [pc EXCEPT ![a] = "size"] /\ Kept
           /\ UNCHANGED <<buf, curFileSize, reused, overlapped>>
           /\ \/ /\ logFile = Nil \/ ~logFile.open
                 /\ Mark(buf[a], "lost") /\ UNCHANGED <<logFile, files>>
              \/ /\ logFile # Nil /\ logFile.open /\ logFile' = [logFile EXCEPT !.pos = @ + Len(buf[a])]
                 /\ logFile.name \notin DOMAIN files /\ Mark(buf[a], "deleted") /\ files' = files
              \/ /\ logFile # Nil /\ logFile.open /\ logFile' = [logFile EXCEPT !.pos = @ + Len(buf[a])]
                 /\ logFile.name \in DOMAIN files /\ Mark(buf[a], "written")
                 /\ files' = [files EXCEPT ![logFile.name] = WriteAt(@, logFile.pos, buf[a])]
<1>1. pc[a] = "write" /\ pc' = [pc EXCEPT ![a] = "size"] /\ Kept /\ UNCHANGED <<buf, curFileSize, reused, overlapped>>
  BY Zenon DEF flushWrite, channels, config, Kept
<1>2. QED
  BY <1>1, Zenon DEF flushWrite

LEMMA SizeLaw ==
    ASSUME Types, NEW a \in Actors, flushSize(a)
    PROVE  /\ pc[a] = "size" /\ Kept /\ UNCHANGED <<files, reused, fate, overlapped>> /\ curFileSize' \in Nat
           /\ \/ Done(a) /\ logFile' = logFile
              \/ /\ pc' = [pc EXCEPT ![a] = "rotate"] /\ buf' = buf
                 /\ logFile' = IF logFile # Nil THEN [logFile EXCEPT !.open = FALSE] ELSE logFile
<1>1. pc[a] = "size" /\ Kept /\ UNCHANGED <<files, reused, fate, overlapped>>
  BY Zenon DEF flushSize, channels, config, Kept
<1>2. PICK n \in {Len(buf[a])} \cup (IF Others(a) = {} THEN {} ELSE {0}) :
        /\ curFileSize' = curFileSize + n
        /\ logFile' = IF curFileSize + n >= MaxFileSize /\ logFile # Nil
                      THEN [logFile EXCEPT !.open = FALSE] ELSE logFile
        /\ IF curFileSize + n >= MaxFileSize THEN pc' = [pc EXCEPT ![a] = "rotate"] /\ buf' = buf ELSE Done(a)
  BY Zenon DEF flushSize
<1>3. n \in Nat /\ curFileSize \in Nat
  BY DEF Types, ActorTypes, DiskTypes
<1>4. curFileSize' \in Nat
  BY <1>2, <1>3
<1>5. CASE curFileSize + n >= MaxFileSize
  BY <1>1, <1>2, <1>4, <1>5, Zenon
<1>6. CASE ~(curFileSize + n >= MaxFileSize)
  BY <1>1, <1>2, <1>4, <1>6, Zenon
<1>7. QED
  BY <1>5, <1>6

LEMMA RotateLaw ==
    ASSUME NEW a \in Actors, flushRotate(a)
    PROVE  pc[a] = "rotate" /\ Kept /\ UNCHANGED <<fate, overlapped>> /\ newLogFile /\ Done(a)
BY Zenon DEF flushRotate, channels, config, Kept

\* What flush does to the texts and their fates, whatever part of it runs.
LEMMA FlushLaw ==
    ASSUME Types, Hands, NEW a \in Actors, flush(a)
    PROVE  /\ Kept /\ pc[a] \in Flushing
           /\ \A b \in Actors : b # a => pc'[b] = pc[b] /\ buf'[b] = buf[b]
           /\ (buf'[a] = buf[a] /\ pc'[a] \in Busy) \/ (buf'[a] = <<>> /\ pc'[a] \in {"idle", "loop"})
           /\ \A m \in Msgs : fate'[m] = "pending" => fate[m] = "pending" /\ (m \in Range(buf[a]) => pc'[a] = "write")
           /\ pc' \in [Actors -> Places] /\ buf' \in [Actors -> Seq(Msgs)] /\ fate' \in [Msgs -> Fates]
           /\ overlapped' \in BOOLEAN
<1>0. /\ ActorTypes /\ PastTypes
      /\ buf \in [Actors -> Seq(Msgs)] /\ fate \in [Msgs -> Fates] /\ overlapped \in BOOLEAN
      /\ Hand(a) /\ {"write", "size", "rotate"} \subseteq Places
  BY Zenon DEF Types, ActorTypes, PastTypes, Hands, Places, Flushing
<1>1. CASE flushOpen(a)
  <2>1. CASE pc' = [pc EXCEPT ![a] = "write"] /\ UNCHANGED <<fate, buf>>
    <3>1. pc'[a] = "write" /\ (\A b \in Actors : b # a => pc'[b] = pc[b]) /\ pc' \in [Actors -> Places]
      BY <1>0, <2>1, MoveLaw, Zenon
    <3>2. overlapped' \in BOOLEAN
      BY <1>0, <1>1, OpenLaw, Zenon
    <3>3. QED
      BY <1>0, <1>1, <2>1, <3>1, <3>2, OpenLaw, Zenon DEF Flushing, Busy
  <2>2. ASSUME Done(a), NEW what \in {"shown", "off"}, Mark(buf[a], what)
        PROVE  /\ \A b \in Actors : b # a => pc'[b] = pc[b] /\ buf'[b] = buf[b]
               /\ buf'[a] = <<>> /\ pc'[a] \in {"idle", "loop"}
               /\ \A m \in Msgs : fate'[m] = "pending" => fate[m] = "pending" /\ m \notin Range(buf[a])
               /\ pc' \in [Actors -> Places] /\ buf' \in [Actors -> Seq(Msgs)] /\ fate' \in [Msgs -> Fates]
    <3>1. what \in Fates \ {"pending"} /\ what # "pending"
      BY <2>2 DEF Fates
    <3>2. /\ fate' \in [Msgs -> Fates]
          /\ \A m \in Msgs : fate'[m] = IF m \in Range(buf[a]) THEN what ELSE fate[m]
      BY <1>0, <2>2, <3>1, MarkLaw, Zenon
    <3>3. QED
      BY <1>0, <2>2, <3>1, <3>2, DoneLaw, Zenon
  <2>3. overlapped' \in BOOLEAN
    BY <1>0, <1>1, OpenLaw, Zenon
  <2>4. QED
    BY <1>1, <2>1, <2>2, <2>3, OpenLaw, Zenon DEF Flushing
<1>2. CASE flushWrite(a)
  <2>1. pc[a] = "write" /\ pc' = [pc EXCEPT ![a] = "size"] /\ Kept /\ buf' = buf /\ overlapped' = overlapped
    BY <1>2, WriteStepLaw, Zenon
  <2>2. pc'[a] = "size" /\ (\A b \in Actors : b # a => pc'[b] = pc[b]) /\ pc' \in [Actors -> Places]
    BY <1>0, <2>1, MoveLaw, Zenon
  <2>3. \E what \in {"lost", "deleted", "written"} : Mark(buf[a], what)
    BY <1>2, WriteStepLaw, Zenon
  <2>4. PICK what \in Fates \ {"pending"} : Mark(buf[a], what)
    BY <2>3 DEF Fates
  <2>5. /\ fate' \in [Msgs -> Fates]
        /\ \A m \in Msgs : fate'[m] = IF m \in Range(buf[a]) THEN what ELSE fate[m]
    BY <1>0, <2>4, MarkLaw, Zenon
  <2>6. \A m \in Msgs : fate'[m] = "pending" => fate[m] = "pending" /\ m \notin Range(buf[a])
    BY <2>4, <2>5, Zenon
  <2>7. QED
    BY <1>0, <2>1, <2>2, <2>5, <2>6, Zenon DEF Flushing, Busy
<1>3. CASE flushSize(a)
  <2>1. pc[a] = "size" /\ Kept /\ fate' = fate /\ overlapped' = overlapped
    BY <1>3, SizeLaw, Zenon
  <2>2. \A m \in Range(buf[a]) : fate[m] # "pending"
    BY <1>0, <2>1, Zenon DEF Hand
  <2>3. CASE Done(a)
    BY <1>0, <2>1, <2>2, <2>3, DoneLaw, Zenon DEF Flushing
  <2>4. CASE pc' = [pc EXCEPT ![a] = "rotate"] /\ buf' = buf
    <3>1. pc'[a] = "rotate" /\ (\A b \in Actors : b # a => pc'[b] = pc[b]) /\ pc' \in [Actors -> Places]
      BY <1>0, <2>4, MoveLaw, Zenon
    <3>2. QED
      BY <1>0, <2>1, <2>2, <2>4, <3>1, Zenon DEF Flushing, Busy
  <2>5. QED
    BY <1>3, <2>3, <2>4, SizeLaw, Zenon
<1>4. CASE flushRotate(a)
  <2>1. pc[a] = "rotate" /\ Kept /\ fate' = fate /\ overlapped' = overlapped /\ Done(a)
    BY <1>4, RotateLaw, Zenon
  <2>2. \A m \in Range(buf[a]) : fate[m] # "pending"
    BY <1>0, <2>1, Zenon DEF Hand
  <2>3. QED
    BY <1>0, <2>1, <2>2, DoneLaw, Zenon DEF Flushing
<1>5. QED
  BY <1>1, <1>2, <1>3, <1>4, Zenon DEF flush

-----------------------------------------------------------------------------
(* The kinds of steps *)

Same == UNCHANGED <<logFile, curFileSize, files, reused, fate, overlapped>>

\* An actor moves on with the text it has.
Passing(a) ==
    /\ \E p \in Places \ (Busy \cup {"enqueue"}) : pc' = [pc EXCEPT ![a] = p] /\ (p \in Resting => buf[a] = <<>>)
    /\ pc[a] \notin Busy \cup {"enqueue"}
    /\ UNCHANGED <<buf, cf, due, logged>>

\* A receiver takes a message off cf.
Taking(a) == (pc[a] = "receive" /\ Receive(a, "open")) \/ (pc[a] = "gather" /\ Receive(a, "drain"))

\* A thread begins SetOutputAsync(false).
Stopping(t) == pc[t] = "idle" /\ \E next \in {"idle", "drain"} : AsyncOff(t, next)

LEMMA PassLaw ==
    ASSUME NEW a \in Actors, Hand(a), NEW p \in Places \ (Busy \cup {"enqueue"}), pc' = [pc EXCEPT ![a] = p],
           pc[a] \in Resting \cup {"lock", "drain"}, p \in Resting => pc[a] \in Resting \/ buf[a] = <<>>,
           UNCHANGED <<buf, cf, due, logged>>
    PROVE  Passing(a)
<1>1. pc[a] \notin Busy \cup {"enqueue"}
  BY DEF Resting, Busy
<1>2. p \in Resting => buf[a] = <<>>
  BY Zenon DEF Hand
<1>3. QED
  BY <1>1, <1>2, Zenon DEF Passing

LEMMA Kinds ==
    ASSUME Types, Hands, Session, [Next]_vars
    PROVE  \/ \E a \in Actors : flush(a)
           \/ RemoveFile
           \/ Same /\ \E a \in Actors : Passing(a)
           \/ Same /\ \E t \in Threads : Log(t) \/ LogEnqueue(t) \/ Stopping(t)
           \/ Same /\ \E a \in Actors : Taking(a)
           \/ Same /\ UNCHANGED <<pc, buf, cf, due, logged>>
<1>0. /\ Threads \subseteq Actors /\ Runs \subseteq Actors /\ \A a \in Actors : Hand(a)
      /\ {"receive", "stopped", "exit", "loop", "stopwait", "idle", "drain", "open", "lock", "gather"}
         \subseteq Places \ (Busy \cup {"enqueue"})
  BY DEF Actors, Hands, Places, Busy, Flushing, Resting
<1>1. ASSUME NEW t \in Threads,
             flushMutex(t) \/ stopSend(t) \/ stopWait(t) \/ AsyncOn(t)
             \/ (Flush(t) /\ ~isOutputAsync) \/ (FlushDrain(t) /\ pc[t] = "drain")
      PROVE  Same /\ \E a \in Actors : Passing(a)
  <2>1. Same
    BY <1>1, Zenon DEF flushMutex, stopSend, stopWait, AsyncOn, Flush, AsyncOff, FlushDrain, Receive, disk, Same
  <2>2. UNCHANGED <<buf, cf, due, logged>>
    BY <1>1, Zenon DEF flushMutex, stopSend, stopWait, AsyncOn, Flush, AsyncOff, FlushDrain, Receive, channels
  <2>3. CASE flushMutex(t)
    <3>1. pc[t] = "lock" /\ pc' = [pc EXCEPT ![t] = "open"] /\ "open" \notin Resting
      BY <2>3 DEF flushMutex, Resting
    <3>2. QED
      BY <1>0, <2>1, <2>2, <3>1, PassLaw, Zenon
  <2>4. CASE stopSend(t)
    <3>1. pc[t] = "stop" /\ pc' = [pc EXCEPT ![t] = "stopwait"]
      BY <2>4, Zenon DEF stopSend
    <3>2. pc[t] \in Resting
      BY <3>1 DEF Resting
    <3>3. QED
      BY <1>0, <2>1, <2>2, <3>1, <3>2, PassLaw, Zenon
  <2>5. CASE stopWait(t)
    <3>1. pc[t] = "stopwait" /\ pc' = [pc EXCEPT ![t] = then[t]]
      BY <2>5, Zenon DEF stopWait
    <3>2. pc[t] \in Resting /\ then[t] \in Places \ (Busy \cup {"enqueue"})
      BY <1>0, <3>1 DEF Resting, Types, ActorTypes
    <3>3. QED
      BY <1>0, <2>1, <2>2, <3>1, <3>2, PassLaw, Zenon
  <2>6. CASE AsyncOn(t)
    <3>1. PICK r : r = sessions + 1 /\ sessions < MaxSessions /\ pc' = [pc EXCEPT ![r] = "loop"]
      BY <2>6, Zenon DEF AsyncOn
    <3>2. r \in Runs /\ r > sessions
      BY <3>1, LogAssumption DEF Runs, Types, PastTypes
    <3>3. pc[r] \in Resting /\ r \in Actors
      BY <1>0, <3>2 DEF Session, Resting
    <3>4. QED
      BY <1>0, <2>1, <2>2, <3>1, <3>3, PassLaw, Zenon
  <2>7. CASE Flush(t) /\ ~isOutputAsync
    <3>1. pc[t] = "idle" /\ pc' = [pc EXCEPT ![t] = "drain"]
      BY <2>7, Zenon DEF Flush, AsyncOff
    <3>2. pc[t] \in Resting
      BY <3>1 DEF Resting
    <3>3. QED
      BY <1>0, <2>1, <2>2, <3>1, <3>2, PassLaw, Zenon
  <2>8. CASE FlushDrain(t) /\ pc[t] = "drain"
    <3>1. PICK p : /\ pc' = [pc EXCEPT ![t] = p]
                   /\ p = IF cf # <<>> THEN "gather" ELSE IF buf[t] # <<>> THEN "lock" ELSE "idle"
      BY <2>8 DEF FlushDrain
    <3>2. p \in Places \ (Busy \cup {"enqueue"}) /\ (p \in Resting => buf[t] = <<>>)
      BY <1>0, <3>1 DEF Resting
    <3>3. QED
      BY <1>0, <2>1, <2>2, <2>8, <3>1, <3>2, PassLaw, Zenon
  <2>9. QED
    BY <1>1, <2>3, <2>4, <2>5, <2>6, <2>7, <2>8, Zenon
<1>2. ASSUME NEW r \in Runs, asyncRun(r) \/ asyncRunStopped(r)
      PROVE  Same /\ \E a \in Actors : Passing(a)
  <2>1. Same /\ UNCHANGED <<buf, cf, due, logged>>
    BY <1>2, Zenon DEF asyncRun, asyncRunStopped, disk, Same, channels
  <2>2. PICK p : /\ pc' = [pc EXCEPT ![r] = p] /\ p \in {"receive", "stopped", "exit"}
                 /\ pc[r] \in {"loop", "stopped"}
    BY <1>2 DEF asyncRun, asyncRunStopped
  <2>3. p \in Places \ (Busy \cup {"enqueue"}) /\ pc[r] \in Resting
    BY <1>0, <2>2 DEF Resting
  <2>4. QED
    BY <1>0, <2>1, <2>2, <2>3, PassLaw, Zenon
<1>3. ASSUME NEW t \in Threads,
             Log(t) \/ LogEnqueue(t) \/ (Flush(t) /\ isOutputAsync)
             \/ (t \in Controllers /\ pc[t] = "idle" /\ AsyncOff(t, "idle"))
      PROVE  Same /\ (Log(t) \/ LogEnqueue(t) \/ Stopping(t))
  <2>1. Same
    BY <1>3, Zenon DEF Log, LogEnqueue, AsyncOff, Flush, disk, Same
  <2>2. QED
    BY <1>3, <2>1, Zenon DEF Flush, Stopping
<1>4. ASSUME NEW a \in Actors, asyncRunReceive(a) \/ (FlushDrain(a) /\ pc[a] # "drain")
      PROVE  Same /\ Taking(a)
  <2>1. Taking(a)
    BY <1>4, Zenon DEF asyncRunReceive, FlushDrain, Taking
  <2>2. QED
    BY <2>1, Zenon DEF Taking, Receive, disk, Same
<1>5. ASSUME Tick \/ UNCHANGED vars \/ \E t \in Threads : SetOutput(t)
      PROVE  Same /\ UNCHANGED <<pc, buf, cf, due, logged>>
  BY <1>5, Zenon DEF Tick, vars, SetOutput, channels, disk, Same
<1>6. QED
  <2>1. ASSUME NEW t \in Threads, ThreadStep(t) \/ Log(t) \/ SetOutputAsync(t) \/ Flush(t)
        PROVE  \/ flush(t)
               \/ Same /\ \E a \in Actors : Passing(a)
               \/ Same /\ (Log(t) \/ LogEnqueue(t) \/ Stopping(t))
               \/ Same /\ Taking(t)
    BY <1>0, <1>1, <1>3, <1>4, <2>1, Zenon DEF ThreadStep, SetOutputAsync
  <2>2. ASSUME NEW r \in Runs, RunStep(r)
        PROVE  flush(r) \/ (Same /\ \E a \in Actors : Passing(a)) \/ (Same /\ Taking(r))
    BY <1>0, <1>2, <1>4, <2>2, Zenon DEF RunStep
  <2>3. QED
    BY <1>0, <1>5, <2>1, <2>2, Zenon DEF Next

-----------------------------------------------------------------------------
(* The log files *)

LEMMA HandleLaw ==
    ASSUME NEW h \in Handle, NEW n \in Nat
    PROVE  /\ h.name \in Names /\ h.pos \in Nat /\ h.open \in BOOLEAN
           /\ [h EXCEPT !.pos = @ + n] \in Handle /\ [h EXCEPT !.pos = @ + n].name = h.name
           /\ [h EXCEPT !.pos = @ + n].pos = h.pos + n /\ [h EXCEPT !.pos = @ + n].open = h.open
           /\ [h EXCEPT !.open = FALSE] \in Handle /\ [h EXCEPT !.open = FALSE].name = h.name
           /\ [h EXCEPT !.open = FALSE].pos = h.pos
<1>1. h \in [name : Names, pos : Nat, open : BOOLEAN]
  BY DEF Handle
<1>2. /\ h.name \in Names /\ h.pos \in Nat /\ h.open \in BOOLEAN
      /\ [h EXCEPT !.pos = @ + n].name = h.name
      /\ [h EXCEPT !.pos = @ + n].pos = h.pos + n /\ [h EXCEPT !.pos = @ + n].open = h.open
      /\ [h EXCEPT !.open = FALSE].name = h.name /\ [h EXCEPT !.open = FALSE].pos = h.pos
  BY <1>1
<1>3. [h EXCEPT !.pos = @ + n] \in Handle /\ [h EXCEPT !.open = FALSE] \in Handle
  <2>1. PICK q : q = h.pos + n /\ q \in Nat
    BY <1>2
  <2>2. [h EXCEPT !.pos = q] \in [name : Names, pos : Nat, open : BOOLEAN]
    BY <1>1, <2>1
  <2>3. [h EXCEPT !.open = FALSE] \in [name : Names, pos : Nat, open : BOOLEAN]
    BY <1>1, Zenon
  <2>4. QED
    BY <2>1, <2>2, <2>3, Zenon DEF Handle
<1>4. QED
  BY <1>2, <1>3, Zenon

\* The write to a file that is there.
LEMMA AppendLaw ==
    ASSUME DiskTypes, Offset, NEW b \in Seq(Msgs), logFile # Nil, logFile.name \in DOMAIN files,
           logFile' = [logFile EXCEPT !.pos = @ + Len(b)], reused' = reused,
           files' = [files EXCEPT ![logFile.name] = WriteAt(@, logFile.pos, b)]
    PROVE  /\ logFile' \in Handle /\ DOMAIN files' = DOMAIN files /\ files' \in [DOMAIN files' -> Seq(Msgs)]
           /\ Offset'
           /\ ~reused => /\ \A n \in DOMAIN files : Range(files[n]) \subseteq Range(files'[n])
                         /\ Range(b) \subseteq Range(files'[logFile.name])
<1>1. PICK n, q, s : n = logFile.name /\ q = logFile.pos /\ s = files[n]
  OBVIOUS
<1>2. logFile \in Handle /\ Len(b) \in Nat /\ files \in [DOMAIN files -> Seq(Msgs)]
  BY DEF DiskTypes
<1>3. logFile' \in Handle /\ logFile'.name = n /\ logFile'.pos = q + Len(b) /\ q \in Nat
  BY <1>1, <1>2, HandleLaw, Zenon
<1>4. s \in Seq(Msgs) /\ q <= Len(s) /\ (~reused => q = Len(s)) /\ n \in DOMAIN files
  BY <1>1, <1>2 DEF Offset
<1>5. PICK w : w = WriteAt(s, q, b)
  OBVIOUS
<1>6. /\ w \in Seq(Msgs) /\ q + Len(b) <= Len(w)
      /\ q = Len(s) => Len(w) = q + Len(b) /\ Range(w) = Range(s) \cup Range(b)
  BY <1>3, <1>4, <1>5, WriteLaw, Zenon
<1>7. files' = [files EXCEPT ![n] = w]
  BY <1>1, <1>5
<1>8. /\ DOMAIN files' = DOMAIN files /\ files' \in [DOMAIN files -> Seq(Msgs)] /\ files'[n] = w
      /\ \A k \in DOMAIN files : k # n => files'[k] = files[k]
  BY <1>2, <1>4, <1>6, <1>7
<1>9. Offset'
  BY <1>3, <1>4, <1>6, <1>8 DEF Offset
<1>10. ASSUME ~reused
       PROVE  /\ \A k \in DOMAIN files : Range(files[k]) \subseteq Range(files'[k])
              /\ Range(b) \subseteq Range(files'[n])
  <2>1. Range(w) = Range(s) \cup Range(b)
    BY <1>4, <1>6, <1>10
  <2>2. QED
    BY <1>1, <1>8, <2>1, Zenon
<1>11. QED
  BY <1>1, <1>3, <1>8, <1>9, <1>10, Zenon

\* What flush wrote stays where it is while other files come and grow.
LEMMA KeepLaw ==
    ASSUME WrittenKept, reused => reused', \A m \in Msgs : fate'[m] = "written" => fate[m] = "written",
           \A n \in DOMAIN files : n \in DOMAIN files' /\ (reused' \/ Range(files[n]) \subseteq Range(files'[n]))
    PROVE  WrittenKept'
BY Zenon DEF WrittenKept

LEMMA DiskFlush ==
    ASSUME Types, Offset, WrittenKept, NEW a \in Actors, flush(a)
    PROVE  /\ logFile' \in Handle \cup {Nil} /\ curFileSize' \in Nat /\ reused' \in BOOLEAN
           /\ DOMAIN files' \subseteq Names /\ files' \in [DOMAIN files' -> Seq(Msgs)]
           /\ Offset' /\ WrittenKept'
<1>0. /\ DiskTypes /\ PastTypes /\ logFile \in Handle \cup {Nil} /\ curFileSize \in Nat /\ reused \in BOOLEAN
      /\ DOMAIN files \subseteq Names /\ files \in [DOMAIN files -> Seq(Msgs)] /\ buf[a] \in Seq(Msgs)
  BY DEF Types, DiskTypes, PastTypes, ActorTypes
<1>1. CASE flushOpen(a)
  <2>1. \A m \in Msgs : fate'[m] = "written" => fate[m] = "written"
    <3>1. ASSUME NEW what \in {"shown", "off"}, Mark(buf[a], what)
          PROVE  \A m \in Msgs : fate'[m] = "written" => fate[m] = "written"
      <4>1. what \in Fates \ {"pending"} /\ what # "written"
        BY <3>1 DEF Fates
      <4>2. \A m \in Msgs : fate'[m] = IF m \in Range(buf[a]) THEN what ELSE fate[m]
        BY <1>0, <3>1, <4>1, MarkLaw, Zenon
      <4>3. QED
        BY <4>1, <4>2, Zenon
    <3>2. QED
      BY <1>1, <3>1, OpenLaw, Zenon
  <2>2. CASE newLogFile
    <3>1. WrittenKept'
      BY <1>0, <2>1, <2>2, NewFileLaw, KeepLaw, Zenon
    <3>2. QED
      BY <1>0, <2>2, <3>1, NewFileLaw, Zenon
  <2>3. CASE UNCHANGED <<logFile, files, reused, curFileSize>>
    <3>1. WrittenKept'
      BY <2>1, <2>3, KeepLaw, Zenon
    <3>2. QED
      BY <1>0, <2>3, <3>1 DEF Offset
  <2>4. CASE logFile' = Nil /\ curFileSize' \in Nat /\ UNCHANGED <<files, reused>>
    <3>1. WrittenKept'
      BY <2>1, <2>4, KeepLaw, Zenon
    <3>2. QED
      BY <1>0, <2>4, <3>1 DEF Offset
  <2>5. QED
    BY <1>1, <2>2, <2>3, <2>4, OpenLaw, Zenon
<1>2. CASE flushWrite(a)
  <2>1. curFileSize' = curFileSize /\ reused' = reused
    BY <1>2, WriteStepLaw, Zenon
  <2>2. ASSUME NEW what \in {"lost", "deleted"}, Mark(buf[a], what), files' = files
        PROVE  WrittenKept'
    <3>1. what \in Fates \ {"pending"} /\ what # "written"
      BY <2>2 DEF Fates
    <3>2. \A m \in Msgs : fate'[m] = IF m \in Range(buf[a]) THEN what ELSE fate[m]
      BY <1>0, <2>2, <3>1, MarkLaw, Zenon
    <3>3. \A m \in Msgs : fate'[m] = "written" => fate[m] = "written"
      BY <3>1, <3>2, Zenon
    <3>4. QED
      BY <2>1, <2>2, <3>3, KeepLaw, Zenon
  <2>3. CASE Mark(buf[a], "lost") /\ UNCHANGED <<logFile, files>>
    <3>1. WrittenKept'
      BY <2>2, <2>3, Zenon
    <3>2. QED
      BY <1>0, <2>1, <2>3, <3>1 DEF Offset
  <2>4. CASE /\ logFile # Nil /\ logFile.name \notin DOMAIN files /\ Mark(buf[a], "deleted") /\ files' = files
             /\ logFile' = [logFile EXCEPT !.pos = @ + Len(buf[a])]
    <3>1. WrittenKept'
      BY <2>2, <2>4, Zenon
    <3>2. logFile \in Handle /\ Len(buf[a]) \in Nat
      BY <1>0, <2>4
    <3>3. logFile' \in Handle /\ logFile'.name = logFile.name
      BY <2>4, <3>2, HandleLaw, Zenon
    <3>4. QED
      BY <1>0, <2>1, <2>4, <3>1, <3>3 DEF Offset
  <2>5. CASE /\ logFile # Nil /\ logFile.name \in DOMAIN files /\ Mark(buf[a], "written")
             /\ logFile' = [logFile EXCEPT !.pos = @ + Len(buf[a])]
             /\ files' = [files EXCEPT ![logFile.name] = WriteAt(@, logFile.pos, buf[a])]
    <3>1. /\ logFile' \in Handle /\ DOMAIN files' = DOMAIN files /\ files' \in [DOMAIN files' -> Seq(Msgs)] /\ Offset'
          /\ ~reused => /\ \A n \in DOMAIN files : Range(files[n]) \subseteq Range(files'[n])
                        /\ Range(buf[a]) \subseteq Range(files'[logFile.name])
      BY <1>0, <2>1, <2>5, AppendLaw, Zenon
    <3>2. "written" \in Fates \ {"pending"}
      BY DEF Fates
    <3>3. \A m \in Msgs : fate'[m] = IF m \in Range(buf[a]) THEN "written" ELSE fate[m]
      BY <1>0, <2>5, <3>2, MarkLaw, Zenon
    <3>4. WrittenKept'
      BY <2>1, <2>5, <3>1, <3>3, Zenon DEF WrittenKept
    <3>5. QED
      BY <1>0, <2>1, <3>1, <3>4, Zenon
  <2>6. QED
    BY <1>2, <2>3, <2>4, <2>5, WriteStepLaw, Zenon
<1>3. CASE flushSize(a)
  <2>1. UNCHANGED <<files, reused, fate>> /\ curFileSize' \in Nat
    BY <1>3, SizeLaw, Zenon
  <2>2. WrittenKept'
    BY <2>1, KeepLaw, Zenon
  <2>3. logFile' = logFile \/ (logFile \in Handle /\ logFile # Nil /\ logFile' = [logFile EXCEPT !.open = FALSE])
    BY <1>0, <1>3, SizeLaw, Zenon
  <2>4. \/ logFile' = logFile
        \/ logFile # Nil /\ logFile' \in Handle /\ logFile'.name = logFile.name /\ logFile'.pos = logFile.pos
    BY <2>3, HandleLaw, Zenon
  <2>5. QED
    BY <1>0, <2>1, <2>2, <2>4 DEF Offset
<1>4. CASE flushRotate(a)
  <2>1. newLogFile /\ fate' = fate
    BY <1>4, RotateLaw, Zenon
  <2>2. WrittenKept'
    BY <1>0, <2>1, NewFileLaw, KeepLaw, Zenon
  <2>3. QED
    BY <1>0, <2>1, <2>2, NewFileLaw, Zenon
<1>5. QED
  BY <1>1, <1>2, <1>3, <1>4, Zenon DEF flush

LEMMA RemoveLaw ==
    ASSUME Types, Offset, WrittenKept, RemoveFile
    PROVE  /\ Kept /\ UNCHANGED <<logFile, curFileSize, reused, overlapped, pc, buf>>
           /\ DOMAIN files' \subseteq Names /\ files' \in [DOMAIN files' -> Seq(Msgs)]
           /\ fate' \in [Msgs -> Fates]
           /\ \A m \in Msgs : fate'[m] = fate[m] \/ fate'[m] = "deleted"
           /\ Offset' /\ WrittenKept'
<1>0. PastTypes /\ DOMAIN files \subseteq Names /\ files \in [DOMAIN files -> Seq(Msgs)]
  BY DEF Types, DiskTypes
<1>1. Kept /\ UNCHANGED <<logFile, curFileSize, reused, overlapped, pc, buf>>
  BY Zenon DEF RemoveFile, channels, config, Kept
<1>2. PICK n \in DOMAIN files : files' = [k \in DOMAIN files \ {n} |-> files[k]] /\ Mark(files[n], "deleted")
  BY Zenon DEF RemoveFile
<1>3. /\ DOMAIN files' = DOMAIN files \ {n} /\ files' \in [DOMAIN files' -> Seq(Msgs)]
      /\ \A k \in DOMAIN files' : files'[k] = files[k]
  BY <1>0, <1>2
<1>4. "deleted" \in Fates \ {"pending"}
  BY DEF Fates
<1>5. /\ fate' \in [Msgs -> Fates]
      /\ \A m \in Msgs : fate'[m] = IF m \in Range(files[n]) THEN "deleted" ELSE fate[m]
  BY <1>0, <1>2, <1>4, MarkLaw, Zenon
<1>6. Offset'
  BY <1>1, <1>3, Zenon DEF Offset
<1>7. ASSUME NEW m \in Msgs, fate'[m] = "written"
      PROVE  reused' \/ \E k \in DOMAIN files' : m \in Range(files'[k])
  <2>1. m \notin Range(files[n]) /\ fate[m] = "written"
    BY <1>5, <1>7
  <2>2. reused \/ \E k \in DOMAIN files : m \in Range(files[k])
    BY <2>1, Zenon DEF WrittenKept
  <2>3. QED
    BY <1>1, <1>3, <2>1, <2>2
<1>8. WrittenKept'
  BY <1>7, Zenon DEF WrittenKept
<1>9. DOMAIN files' \subseteq Names /\ \A m \in Msgs : fate'[m] = fate[m] \/ fate'[m] = "deleted"
  BY <1>0, <1>3, <1>5
<1>10. QED
  BY <1>1, <1>3, <1>5, <1>6, <1>8, <1>9, Zenon

-----------------------------------------------------------------------------
(* Taking turns *)

\* Until writers overlap, the actor that is past the check is alone there.
LEMMA AloneLaw ==
    ASSUME Turns, ~overlapped, NEW a \in Actors, pc[a] \in Busy
    PROVE  /\ \A b \in Actors : b # a => pc[b] \notin Busy
           /\ logFile # Nil /\ ~logFile.open => pc[a] = "rotate"
           /\ pc[a] = "write" => logFile # Nil
BY Zenon DEF Turns, Busy

LEMMA TurnsLaw ==
    ASSUME NEW a \in Actors, \A b \in Actors : b # a => pc[b] \notin Busy /\ pc'[b] = pc[b],
           pc'[a] = "write" => logFile' # Nil,
           logFile' # Nil /\ ~logFile'.open => pc'[a] = "rotate"
    PROVE  Turns'
<1>1. \A b \in Actors : pc'[b] \in Busy => b = a
  BY Zenon
<1>2. \A b, c \in Actors : pc'[b] \in Busy /\ pc'[c] \in Busy => b = c
  BY <1>1, Zenon
<1>3. \A b \in Actors : pc'[b] = "write" => logFile' # Nil
  BY <1>1 DEF Busy
<1>4. QED
  BY <1>2, <1>3, Zenon DEF Turns, Busy

LEMMA TurnsFlush ==
    ASSUME Types, Turns, Hands, NEW a \in Actors, flush(a), ~overlapped'
    PROVE  /\ ~overlapped /\ Turns'
           /\ \A m \in Msgs : fate'[m] = "lost" => fate[m] = "lost"
<1>0. /\ ActorTypes /\ DiskTypes /\ PastTypes /\ \A b \in Actors : b # a => pc'[b] = pc[b]
      /\ (pc'[a] \in Busy) \/ (pc'[a] \in {"idle", "loop"})
  BY FlushLaw, Zenon DEF Types
<1>1. CASE flushOpen(a)
  <2>1. ~overlapped /\ Others(a) = {} /\ pc[a] = "open"
    BY <1>1, OpenLaw, Zenon
  <2>2. \A b \in Actors : b # a => pc[b] \notin Busy
    BY <2>1 DEF Others, Busy, Flushing
  <2>3. logFile # Nil => logFile.open
    <3>1. \A b \in Actors : pc[b] # "rotate"
      BY <2>1, <2>2 DEF Busy
    <3>2. QED
      BY <2>1, <3>1, Zenon DEF Turns
  <2>4. logFile' # Nil => logFile'.open
    BY <1>0, <1>1, <2>3, OpenLaw, NewFileLaw, Zenon
  <2>5. pc'[a] = "write" => logFile' # Nil
    <3>1. Done(a) => pc'[a] \in {"idle", "loop"}
      BY <1>0, DoneLaw, Zenon
    <3>2. Done(a) => pc'[a] # "write"
      BY <3>1
    <3>3. QED
      BY <1>1, <3>2, OpenLaw, Zenon
  <2>6. Turns'
    BY <1>0, <2>2, <2>4, <2>5, TurnsLaw, Zenon
  <2>7. ASSUME NEW what \in {"shown", "off"}, Mark(buf[a], what)
        PROVE  \A m \in Msgs : fate'[m] = "lost" => fate[m] = "lost"
    <3>1. what \in Fates \ {"pending"} /\ what # "lost"
      BY <2>7 DEF Fates
    <3>2. \A m \in Msgs : fate'[m] = IF m \in Range(buf[a]) THEN what ELSE fate[m]
      BY <1>0, <2>7, <3>1, MarkLaw, Zenon
    <3>3. QED
      BY <3>1, <3>2, Zenon
  <2>8. \A m \in Msgs : fate'[m] = "lost" => fate[m] = "lost"
    BY <1>1, <2>7, OpenLaw, Zenon
  <2>9. QED
    BY <2>1, <2>6, <2>8
<1>2. CASE flushWrite(a)
  <2>1. ~overlapped /\ pc[a] = "write" /\ pc' = [pc EXCEPT ![a] = "size"] /\ buf' = buf
    BY <1>2, WriteStepLaw, Zenon
  <2>2. (\A b \in Actors : b # a => pc[b] \notin Busy) /\ logFile # Nil /\ logFile.open
    <3>1. pc[a] \in Busy /\ pc[a] # "rotate"
      BY <2>1 DEF Busy
    <3>2. QED
      BY <2>1, <3>1, AloneLaw, Zenon
  <2>3. logFile \in Handle /\ Len(buf[a]) \in Nat
    BY <1>0, <2>2 DEF DiskTypes, ActorTypes
  <2>4. logFile' = [logFile EXCEPT !.pos = @ + Len(buf[a])]
    BY <1>2, <2>2, WriteStepLaw, Zenon
  <2>5. logFile'.open
    BY <2>2, <2>3, <2>4, HandleLaw
  <2>6. pc'[a] = "size"
    BY <1>0, <2>1, MoveLaw, Zenon
  <2>7. Turns'
    BY <1>0, <2>2, <2>5, <2>6, TurnsLaw, Zenon
  <2>8. ASSUME NEW what \in {"written", "deleted"}, Mark(buf[a], what)
        PROVE  \A m \in Msgs : fate'[m] = "lost" => fate[m] = "lost"
    <3>1. what \in Fates \ {"pending"} /\ what # "lost"
      BY <2>8 DEF Fates
    <3>2. \A m \in Msgs : fate'[m] = IF m \in Range(buf[a]) THEN what ELSE fate[m]
      BY <1>0, <2>8, <3>1, MarkLaw, Zenon
    <3>3. QED
      BY <3>1, <3>2, Zenon
  <2>9. \A m \in Msgs : fate'[m] = "lost" => fate[m] = "lost"
    BY <1>2, <2>2, <2>8, WriteStepLaw, Zenon
  <2>10. QED
    BY <2>1, <2>7, <2>9
<1>3. CASE flushSize(a)
  <2>1. ~overlapped /\ pc[a] = "size" /\ fate' = fate
    BY <1>3, SizeLaw, Zenon
  <2>2. (\A b \in Actors : b # a => pc[b] \notin Busy) /\ (logFile # Nil => logFile.open)
    <3>1. pc[a] \in Busy /\ pc[a] # "rotate"
      BY <2>1 DEF Busy
    <3>2. QED
      BY <2>1, <3>1, AloneLaw, Zenon
  <2>3. CASE Done(a) /\ logFile' = logFile
    <3>1. pc'[a] # "write"
      BY <1>0, <2>3, DoneLaw
    <3>2. QED
      BY <1>0, <2>1, <2>2, <2>3, <3>1, TurnsLaw, Zenon
  <2>4. CASE pc' = [pc EXCEPT ![a] = "rotate"]
    <3>1. pc'[a] = "rotate"
      BY <1>0, <2>4, MoveLaw, Zenon
    <3>2. pc'[a] # "write"
      BY <3>1
    <3>3. QED
      BY <1>0, <2>1, <2>2, <3>1, <3>2, TurnsLaw, Zenon
  <2>5. QED
    BY <1>3, <2>3, <2>4, SizeLaw, Zenon
<1>4. CASE flushRotate(a)
  <2>1. ~overlapped /\ pc[a] = "rotate" /\ fate' = fate /\ newLogFile /\ Done(a)
    BY <1>4, RotateLaw, Zenon
  <2>2. \A b \in Actors : b # a => pc[b] \notin Busy
    <3>1. pc[a] \in Busy
      BY <2>1 DEF Busy
    <3>2. QED
      BY <2>1, <3>1, AloneLaw, Zenon
  <2>3. pc'[a] # "write"
    BY <1>0, <2>1, DoneLaw
  <2>4. logFile' # Nil => logFile'.open
    BY <1>0, <2>1, NewFileLaw, Zenon
  <2>5. QED
    BY <1>0, <2>1, <2>2, <2>3, <2>4, TurnsLaw, Zenon
<1>5. QED
  BY <1>1, <1>2, <1>3, <1>4, Zenon DEF flush

-----------------------------------------------------------------------------
(* The texts, and the messages in cf *)

\* What a step does to the texts and to cf, but for the settings.
Good == /\ pc' \in [Actors -> Places] /\ buf' \in [Actors -> Seq(Msgs)] /\ cf' \in Seq(Msgs)
        /\ due' \subseteq Msgs /\ logged' \in Nat
        /\ Hands' /\ Fresh' /\ Held'

\* Nobody goes past the check of the file in flush, or leaves it.
Calm == \A b \in Actors : pc'[b] = pc[b] \/ (pc[b] \notin Busy /\ pc'[b] \notin Busy)

LEMMA FreshLaw ==
    ASSUME \A m \in due' \cup Range(cf') : m <= logged', \A a \in Actors : \A m \in Range(buf'[a]) : m <= logged',
           Len(cf') <= CfCap,
           \A t \in Threads : pc'[t] = "enqueue" =>
               /\ Len(buf'[t]) = 1
               /\ \A m \in Range(buf'[t]) : m \notin due' /\ m \notin Range(cf')
               /\ \A u \in Threads \ {t} : pc'[u] = "enqueue" => Range(buf'[u]) \cap Range(buf'[t]) = {}
    PROVE  Fresh'
BY Zenon DEF Fresh, Sending

\* One actor's place and text change, and neither before nor after is it about
\* to send.
LEMMA SendLaw ==
    ASSUME Types, Fresh, NEW a \in Actors, \A b \in Actors : b # a => pc'[b] = pc[b] /\ buf'[b] = buf[b],
           pc'[a] # "enqueue", logged' = logged, Range(cf') \subseteq Range(cf), due' \subseteq due \cup Range(cf),
           Len(cf') <= CfCap, \A m \in Range(buf'[a]) : m <= logged
    PROVE  Fresh'
<1>1. Threads \subseteq Actors
  BY DEF Actors
<1>2. \A t \in Threads : pc'[t] = "enqueue" => t # a /\ pc[t] = "enqueue" /\ buf'[t] = buf[t]
  BY <1>1, Zenon
<1>3. \A m \in due' \cup Range(cf') : m <= logged'
  BY Zenon DEF Fresh
<1>4. \A b \in Actors : \A m \in Range(buf'[b]) : m <= logged'
  BY Zenon DEF Fresh
<1>5. ASSUME NEW t \in Threads, pc'[t] = "enqueue"
      PROVE  /\ Len(buf'[t]) = 1
             /\ \A m \in Range(buf'[t]) : m \notin due' /\ m \notin Range(cf')
             /\ \A u \in Threads \ {t} : pc'[u] = "enqueue" => Range(buf'[u]) \cap Range(buf'[t]) = {}
  <2>1. Sending(t) /\ pc[t] = "enqueue" /\ buf'[t] = buf[t]
    BY <1>2, <1>5, Zenon DEF Fresh
  <2>2. /\ Len(buf[t]) = 1 /\ \A m \in Range(buf[t]) : m \notin due /\ m \notin Range(cf)
        /\ \A u \in Threads \ {t} : pc[u] = "enqueue" => Range(buf[u]) \cap Range(buf[t]) = {}
    BY <2>1, Zenon DEF Sending
  <2>3. QED
    BY <1>2, <2>1, <2>2, Zenon
<1>6. QED
  BY <1>3, <1>4, <1>5, FreshLaw, Zenon

LEMMA PassStep ==
    ASSUME Types, Hands, Fresh, Held, NEW a \in Actors, Passing(a), fate' = fate
    PROVE  Good /\ Calm
<1>0. /\ ActorTypes /\ buf \in [Actors -> Seq(Msgs)] /\ cf \in Seq(Msgs) /\ due \subseteq Msgs /\ logged \in Nat
      /\ Len(cf) <= CfCap
  BY Zenon DEF Types, ActorTypes, ChanTypes, PastTypes, Fresh
<1>1. PICK p \in Places \ (Busy \cup {"enqueue"}) : pc' = [pc EXCEPT ![a] = p] /\ (p \in Resting => buf[a] = <<>>)
  BY Zenon DEF Passing
<1>2. pc[a] \notin Busy /\ UNCHANGED <<buf, cf, due, logged>>
  BY Zenon DEF Passing
<1>3. pc'[a] = p /\ (\A b \in Actors : b # a => pc'[b] = pc[b]) /\ pc' \in [Actors -> Places]
  BY <1>0, <1>1, MoveLaw, Zenon
<1>4. p \notin Busy /\ p # "enqueue" /\ p \notin {"size", "rotate"}
  BY <1>1 DEF Busy
<1>5. Fresh'
  <2>1. \A m \in Range(buf'[a]) : m <= logged
    BY <1>2, Zenon DEF Fresh
  <2>2. QED
    BY <1>0, <1>2, <1>3, <1>4, <2>1, SendLaw, Zenon
<1>6. Hands'
  <2>1. ASSUME NEW b \in Actors
        PROVE  Hand(b)'
    BY <1>1, <1>2, <1>3, <1>4, Zenon DEF Hands, Hand
  <2>2. QED
    BY <2>1, Zenon DEF Hands
<1>7. Held'
  BY <1>2, Zenon DEF Held
<1>8. QED
  BY <1>0, <1>2, <1>3, <1>4, <1>5, <1>6, <1>7, Zenon DEF Good, Calm

LEMMA TakeStep ==
    ASSUME Types, Hands, Fresh, Held, NEW a \in Actors, Taking(a), fate' = fate
    PROVE  Good /\ Calm
<1>0. /\ ActorTypes /\ buf[a] \in Seq(Msgs) /\ cf \in Seq(Msgs) /\ due \subseteq Msgs /\ logged \in Nat
      /\ Len(cf) <= CfCap
  BY Zenon DEF Types, ActorTypes, ChanTypes, PastTypes, Fresh
<1>1. PICK p \in {"open", "drain"} : Receive(a, p)
  BY Zenon DEF Taking
<1>2. pc[a] \in {"receive", "gather"}
  BY DEF Taking
<1>3. /\ cf # <<>> /\ cf' = Tail(cf) /\ buf' = [buf EXCEPT ![a] = Append(@, Head(cf))] /\ pc' = [pc EXCEPT ![a] = p]
      /\ UNCHANGED <<due, logged>>
  BY <1>1, Zenon DEF Receive
<1>4. /\ p \in Places /\ p \notin Busy /\ p # "enqueue" /\ p \notin {"size", "rotate"} /\ p \notin Resting
      /\ pc[a] \notin Busy
  BY <1>1, <1>2 DEF Places, Flushing, Busy, Resting
<1>5. pc'[a] = p /\ (\A b \in Actors : b # a => pc'[b] = pc[b]) /\ pc' \in [Actors -> Places]
  BY <1>0, <1>3, <1>4, MoveLaw, Zenon
<1>6. PICK s : s = Append(buf[a], Head(cf))
  BY Zenon
<1>7. /\ cf' \in Seq(Msgs) /\ s \in Seq(Msgs) /\ Len(cf') < Len(cf)
      /\ Range(cf') \subseteq Range(cf) /\ Range(buf[a]) \subseteq Range(s)
      /\ Range(cf) \subseteq Range(cf') \cup Range(s) /\ Range(s) \subseteq Range(buf[a]) \cup Range(cf)
  BY <1>0, <1>3, <1>6, ReceiveLaw, Zenon
<1>8. /\ buf'[a] = s /\ (\A b \in Actors : b # a => buf'[b] = buf[b]) /\ buf' \in [Actors -> Seq(Msgs)]
  <2>1. buf' = [buf EXCEPT ![a] = s]
    BY <1>3, <1>6, Zenon
  <2>2. QED
    BY <1>0, <1>7, <2>1, FillLaw, Zenon
<1>9. Fresh'
  <2>1. \A m \in Range(buf'[a]) : m <= logged
    BY <1>7, <1>8, Zenon DEF Fresh
  <2>2. Len(cf') <= CfCap
    BY <1>0, <1>7, LogAssumption
  <2>3. QED
    BY <1>3, <1>4, <1>5, <1>7, <1>8, <2>1, <2>2, SendLaw, Zenon
<1>10. Hands'
  <2>1. ASSUME NEW b \in Actors
        PROVE  Hand(b)'
    BY <1>4, <1>5, <1>8, Zenon DEF Hands, Hand
  <2>2. QED
    BY <2>1, Zenon DEF Hands
<1>11. Held'
  <2>1. ASSUME NEW m \in due, fate[m] = "pending"
        PROVE  m \in Range(cf') \/ \E b \in Actors : m \in Range(buf'[b])
    <3>1. m \in Range(cf) \/ \E b \in Actors : m \in Range(buf[b])
      BY <2>1, Zenon DEF Held
    <3>2. QED
      BY <1>7, <1>8, <3>1, Zenon
  <2>2. QED
    BY <1>3, <2>1, Zenon DEF Held
<1>12. QED
  BY <1>0, <1>3, <1>4, <1>5, <1>7, <1>8, <1>9, <1>10, <1>11, Zenon DEF Good, Calm

\* The new message is not in cf, nor in anybody's text.
LEMMA LogStep ==
    ASSUME Types, Hands, Fresh, Held, NEW t \in Threads, Log(t), fate' = fate
    PROVE  Good /\ Calm
<1>0. /\ t \in Actors /\ ActorTypes /\ cf \in Seq(Msgs) /\ due \subseteq Msgs /\ logged \in Nat
      /\ Len(cf) <= CfCap /\ Threads \subseteq Actors
  BY DEF Actors, Types, ChanTypes, PastTypes, Fresh
<1>1. /\ pc[t] = "idle" /\ logged < MaxLogs /\ logged' = logged + 1 /\ buf' = [buf EXCEPT ![t] = <<logged'>>]
      /\ pc' = [pc EXCEPT ![t] = IF isOutputAsync THEN "enqueue" ELSE "lock"] /\ UNCHANGED <<cf, due>>
  BY Zenon DEF Log, channels
<1>2. PICK p \in {"enqueue", "lock"} : pc' = [pc EXCEPT ![t] = p]
  BY <1>1, Zenon
<1>3. /\ p \in Places /\ p \notin Busy /\ p \notin {"size", "rotate"} /\ p \notin Resting
      /\ pc[t] \notin Busy /\ pc[t] \in Resting
  BY <1>1, <1>2 DEF Places, Busy, Resting
<1>4. pc'[t] = p /\ (\A b \in Actors : b # t => pc'[b] = pc[b]) /\ pc' \in [Actors -> Places]
  BY <1>0, <1>2, <1>3, MoveLaw, Zenon
<1>5. PICK n : n = logged' /\ n \in Nat /\ n > logged /\ n \in Msgs
  BY <1>0, <1>1, LogAssumption DEF Msgs
<1>6. /\ buf'[t] = <<n>> /\ (\A b \in Actors : b # t => buf'[b] = buf[b]) /\ buf' \in [Actors -> Seq(Msgs)]
  <2>1. <<n>> \in Seq(Msgs)
    BY <1>5
  <2>2. QED
    BY <1>0, <1>1, <1>5, <2>1, FillLaw, Zenon
<1>7. Range(<<n>>) = {n} /\ Len(<<n>>) = 1
  BY RangeLaw, Zenon
<1>8. /\ \A m \in due \cup Range(cf) : m <= logged
      /\ \A a \in Actors : \A m \in Range(buf[a]) : m <= logged
  BY Zenon DEF Fresh
<1>9. /\ \A m \in due \cup Range(cf) : m # n /\ m <= n
      /\ \A a \in Actors : \A m \in Range(buf[a]) : m # n /\ m <= n
  <2>1. /\ Range(cf) \subseteq Msgs /\ \A a \in Actors : Range(buf[a]) \subseteq Msgs
    BY <1>0, RangeLaw, Zenon DEF ActorTypes
  <2>2. \A m \in Msgs : m <= logged => m # n /\ m <= n
    BY <1>0, <1>5 DEF Msgs
  <2>3. QED
    BY <1>0, <1>8, <2>1, <2>2, Zenon
<1>10. Fresh'
  <2>1. \A m \in due' \cup Range(cf') : m <= logged'
    BY <1>1, <1>5, <1>9, Zenon
  <2>2. ASSUME NEW a \in Actors, NEW m \in Range(buf'[a])
        PROVE  m <= logged'
    <3>1. CASE a = t
      <4>1. m = n /\ n <= n
        BY <1>5, <1>6, <1>7, <2>2, <3>1
      <4>2. QED
        BY <1>5, <4>1, Zenon
    <3>2. CASE a # t
      BY <1>5, <1>6, <1>9, <2>2, <3>2, Zenon
    <3>3. QED
      BY <3>1, <3>2
  <2>3. ASSUME NEW u \in Threads, pc'[u] = "enqueue"
        PROVE  /\ Len(buf'[u]) = 1
               /\ \A m \in Range(buf'[u]) : m \notin due' /\ m \notin Range(cf')
               /\ \A v \in Threads \ {u} : pc'[v] = "enqueue" => Range(buf'[v]) \cap Range(buf'[u]) = {}
    <3>1. CASE u = t
      <4>1. /\ Len(buf'[u]) = 1 /\ \A m \in Range(buf'[u]) : m \notin due' /\ m \notin Range(cf')
        BY <1>1, <1>6, <1>7, <1>9, <3>1, Zenon
      <4>2. ASSUME NEW v \in Threads \ {u}
            PROVE  Range(buf'[v]) \cap Range(buf'[u]) = {}
        <5>1. buf'[v] = buf[v] /\ v \in Actors
          BY <1>0, <1>6, <3>1, <4>2, Zenon
        <5>2. n \notin Range(buf[v])
          BY <1>9, <5>1, Zenon
        <5>3. Range(buf'[v]) = Range(buf[v]) /\ Range(buf'[u]) = {n}
          BY <1>6, <1>7, <3>1, <5>1, Zenon
        <5>4. QED
          BY <5>2, <5>3
      <4>3. QED
        BY <4>1, <4>2, Zenon
    <3>2. CASE u # t
      <4>1. u \in Actors /\ pc[u] = "enqueue" /\ buf'[u] = buf[u] /\ Sending(u)
        BY <1>0, <1>4, <1>6, <2>3, <3>2, Zenon DEF Fresh
      <4>2. /\ Len(buf[u]) = 1 /\ \A m \in Range(buf[u]) : m \notin due /\ m \notin Range(cf)
            /\ \A v \in Threads \ {u} : pc[v] = "enqueue" => Range(buf[v]) \cap Range(buf[u]) = {}
        BY <4>1, Zenon DEF Sending
      <4>3. ASSUME NEW v \in Threads \ {u}, pc'[v] = "enqueue"
            PROVE  Range(buf'[v]) \cap Range(buf'[u]) = {}
        <5>1. CASE v = t
          <6>1. n \notin Range(buf[u])
            BY <1>9, <4>1, Zenon
          <6>2. Range(buf'[v]) = {n} /\ Range(buf'[u]) = Range(buf[u])
            BY <1>6, <1>7, <4>1, <5>1, Zenon
          <6>3. QED
            BY <6>1, <6>2
        <5>2. CASE v # t
          BY <1>0, <1>4, <1>6, <4>1, <4>2, <4>3, <5>2, Zenon
        <5>3. QED
          BY <5>1, <5>2
      <4>4. QED
        BY <1>1, <4>1, <4>2, <4>3, Zenon
    <3>3. QED
      BY <3>1, <3>2
  <2>4. QED
    BY <1>0, <1>1, <2>1, <2>2, <2>3, FreshLaw, Zenon
<1>11. Hands'
  <2>1. ASSUME NEW b \in Actors
        PROVE  Hand(b)'
    BY <1>3, <1>4, <1>6, Zenon DEF Hands, Hand
  <2>2. QED
    BY <2>1, Zenon DEF Hands
<1>12. Held'
  <2>1. Range(buf[t]) = {}
    BY <1>0, <1>3, RangeLaw, Zenon DEF Hands, Hand
  <2>2. QED
    BY <1>1, <1>6, <2>1, Zenon DEF Held
<1>13. QED
  BY <1>0, <1>1, <1>3, <1>4, <1>5, <1>6, <1>10, <1>11, <1>12, Zenon DEF Good, Calm

LEMMA EnqueueStep ==
    ASSUME Types, Hands, Fresh, Held, NEW t \in Threads, LogEnqueue(t), fate' = fate
    PROVE  Good /\ Calm
<1>0. /\ t \in Actors /\ ActorTypes
      /\ buf[t] \in Seq(Msgs) /\ cf \in Seq(Msgs) /\ due \subseteq Msgs /\ logged \in Nat
      /\ Len(cf) <= CfCap /\ Threads \subseteq Actors /\ Sending(t)
  BY DEF Actors, Types, ActorTypes, ChanTypes, PastTypes, Fresh
<1>1. pc[t] = "enqueue" /\ Len(cf) < CfCap /\ cf' = cf \o buf[t] /\ Done(t) /\ UNCHANGED <<due, logged>>
  BY Zenon DEF LogEnqueue
<1>2. /\ pc'[t] \in {"idle", "loop"} /\ buf'[t] = <<>>
      /\ \A b \in Actors : b # t => pc'[b] = pc[b] /\ buf'[b] = buf[b]
      /\ pc' \in [Actors -> Places] /\ buf' \in [Actors -> Seq(Msgs)]
  BY <1>0, <1>1, DoneLaw, Zenon
<1>3. pc'[t] \notin Busy /\ pc'[t] # "enqueue" /\ pc'[t] \notin {"size", "rotate"} /\ pc[t] \notin Busy
  BY <1>1, <1>2 DEF Busy
<1>4. /\ Len(buf[t]) = 1 /\ \A m \in Range(buf[t]) : m \notin due /\ m \notin Range(cf)
      /\ \A u \in Threads \ {t} : pc[u] = "enqueue" => Range(buf[u]) \cap Range(buf[t]) = {}
  BY <1>0, <1>1, Zenon DEF Sending
<1>5. cf' \in Seq(Msgs) /\ Len(cf') = Len(cf) + Len(buf[t]) /\ Range(cf') = Range(cf) \cup Range(buf[t])
  <2>1. PICK b : b = buf[t] /\ b \in Seq(Msgs)
    BY <1>0, Zenon
  <2>2. cf \o b \in Seq(Msgs) /\ Len(cf \o b) = Len(cf) + Len(b)
    BY <1>0, <2>1, ConcatProperties, Zenon
  <2>3. Range(cf \o b) = Range(cf) \cup Range(b)
    <3>1. cf \in Seq(Msgs) /\ b \in Seq(Msgs)
      BY <1>0, <2>1, Zenon
    <3>2. QED
      BY <3>1, RangeConcatenation
  <2>4. QED
    BY <1>1, <2>1, <2>2, <2>3, Zenon
<1>6. Len(cf') <= CfCap
  BY <1>0, <1>1, <1>4, <1>5, LogAssumption
<1>7. Range(buf'[t]) = {}
  BY <1>2, RangeLaw, Zenon
<1>8. Fresh'
  <2>1. \A m \in due' \cup Range(cf') : m <= logged'
    BY <1>0, <1>1, <1>5, Zenon DEF Fresh
  <2>2. \A a \in Actors : \A m \in Range(buf'[a]) : m <= logged'
    BY <1>1, <1>2, <1>7, Zenon DEF Fresh
  <2>3. ASSUME NEW u \in Threads, pc'[u] = "enqueue"
        PROVE  /\ Len(buf'[u]) = 1
               /\ \A m \in Range(buf'[u]) : m \notin due' /\ m \notin Range(cf')
               /\ \A v \in Threads \ {u} : pc'[v] = "enqueue" => Range(buf'[v]) \cap Range(buf'[u]) = {}
    <3>1. u # t /\ u \in Actors /\ pc[u] = "enqueue" /\ buf'[u] = buf[u] /\ Sending(u)
      BY <1>0, <1>2, <1>3, <2>3, Zenon DEF Fresh
    <3>2. /\ Len(buf[u]) = 1 /\ \A m \in Range(buf[u]) : m \notin due /\ m \notin Range(cf)
          /\ \A v \in Threads \ {u} : pc[v] = "enqueue" => Range(buf[v]) \cap Range(buf[u]) = {}
      BY <3>1, Zenon DEF Sending
    <3>3. Range(buf[u]) \cap Range(buf[t]) = {}
      BY <1>4, <3>1, Zenon
    <3>4. \A m \in Range(buf'[u]) : m \notin due' /\ m \notin Range(cf')
      BY <1>1, <1>5, <3>1, <3>2, <3>3, Zenon
    <3>5. \A v \in Threads \ {u} : pc'[v] = "enqueue" => Range(buf'[v]) \cap Range(buf'[u]) = {}
      BY <1>0, <1>2, <1>3, <3>1, <3>2, Zenon
    <3>6. QED
      BY <3>1, <3>2, <3>4, <3>5, Zenon
  <2>4. QED
    BY <1>6, <2>1, <2>2, <2>3, FreshLaw, Zenon
<1>9. Hands'
  <2>1. ASSUME NEW b \in Actors
        PROVE  Hand(b)'
    BY <1>2, <1>3, Zenon DEF Hands, Hand
  <2>2. QED
    BY <2>1, Zenon DEF Hands
<1>10. Held'
  BY <1>1, <1>2, <1>5, Zenon DEF Held
<1>11. QED
  BY <1>0, <1>1, <1>2, <1>3, <1>5, <1>8, <1>9, <1>10, Zenon DEF Good, Calm

LEMMA StoppingStep ==
    ASSUME Types, Hands, Fresh, Held, NEW t \in Threads, Stopping(t), fate' = fate
    PROVE  Good /\ Calm
<1>0. /\ t \in Actors /\ ActorTypes /\ buf \in [Actors -> Seq(Msgs)] /\ cf \in Seq(Msgs) /\ logged \in Nat
      /\ Len(cf) <= CfCap
  BY DEF Actors, Types, ActorTypes, ChanTypes, PastTypes, Fresh
<1>1. pc[t] = "idle" /\ due' = Range(cf) /\ pc' = [pc EXCEPT ![t] = "stop"] /\ UNCHANGED <<cf, buf, logged>>
  BY Zenon DEF Stopping, AsyncOff
<1>2. "stop" \in Places /\ "stop" \notin Busy /\ pc[t] \notin Busy /\ pc[t] \in Resting
  BY <1>1 DEF Places, Busy, Resting
<1>3. pc'[t] = "stop" /\ (\A b \in Actors : b # t => pc'[b] = pc[b]) /\ pc' \in [Actors -> Places]
  BY <1>0, <1>1, <1>2, MoveLaw, Zenon
<1>4. pc'[t] # "enqueue" /\ pc'[t] \notin {"size", "rotate"}
  BY <1>3
<1>5. Fresh'
  <2>1. \A m \in Range(buf'[t]) : m <= logged
    BY <1>0, <1>1, Zenon DEF Fresh
  <2>2. Range(cf') \subseteq Range(cf) /\ due' \subseteq due \cup Range(cf)
    BY <1>1, Zenon
  <2>3. QED
    BY <1>0, <1>1, <1>3, <1>4, <2>1, <2>2, SendLaw, Zenon
<1>6. Hands'
  <2>1. ASSUME NEW b \in Actors
        PROVE  Hand(b)'
    BY <1>1, <1>2, <1>3, <1>4, Zenon DEF Hands, Hand
  <2>2. QED
    BY <2>1, Zenon DEF Hands
<1>7. Held'
  BY <1>1, Zenon DEF Held
<1>8. due' \subseteq Msgs
  BY <1>0, <1>1, RangeLaw, Zenon
<1>9. QED
  BY <1>0, <1>1, <1>2, <1>3, <1>5, <1>6, <1>7, <1>8, Zenon DEF Good, Calm

LEMMA FlushStep ==
    ASSUME Types, Hands, Fresh, Held, NEW a \in Actors, flush(a)
    PROVE  Good
<1>0. /\ ActorTypes /\ cf \in Seq(Msgs) /\ due \subseteq Msgs /\ logged \in Nat /\ Len(cf) <= CfCap
      /\ \A b \in Actors : Range(buf[b]) \subseteq Msgs
  BY RangeLaw, Zenon DEF Types, ActorTypes, ChanTypes, PastTypes, Fresh
<1>1. /\ UNCHANGED <<cf, due, logged>>
      /\ \A b \in Actors : b # a => pc'[b] = pc[b] /\ buf'[b] = buf[b]
      /\ (buf'[a] = buf[a] /\ pc'[a] \in Busy) \/ (buf'[a] = <<>> /\ pc'[a] \in {"idle", "loop"})
      /\ \A m \in Msgs : fate'[m] = "pending" => fate[m] = "pending" /\ (m \in Range(buf[a]) => pc'[a] = "write")
      /\ pc' \in [Actors -> Places] /\ buf' \in [Actors -> Seq(Msgs)]
  BY FlushLaw, Zenon DEF Kept
<1>2. /\ pc'[a] # "enqueue" /\ (pc'[a] \in Resting => buf'[a] = <<>>)
      /\ (pc'[a] = "write" => buf'[a] = buf[a])
      /\ (pc'[a] \in {"size", "rotate"} => pc'[a] # "write")
  BY <1>1 DEF Busy, Resting
<1>3. Range(buf'[a]) \subseteq Range(buf[a])
  BY <1>1, RangeLaw
<1>4. Fresh'
  <2>1. \A m \in Range(buf'[a]) : m <= logged
    BY <1>3, Zenon DEF Fresh
  <2>2. QED
    BY <1>0, <1>1, <1>2, <2>1, SendLaw, Zenon
<1>5. Hands'
  <2>1. Hand(a)'
    <3>1. ASSUME pc'[a] \in {"size", "rotate"}, NEW m \in Range(buf'[a])
          PROVE  fate'[m] # "pending"
      <4>1. m \in Range(buf[a]) /\ m \in Msgs
        BY <1>0, <1>3, <3>1, Zenon
      <4>2. QED
        BY <1>1, <1>2, <3>1, <4>1, Zenon
    <3>2. QED
      BY <1>2, <3>1, Zenon DEF Hand
  <2>2. ASSUME NEW b \in Actors, b # a
        PROVE  Hand(b)'
    BY <1>0, <1>1, <2>2, Zenon DEF Hands, Hand
  <2>3. QED
    BY <2>1, <2>2, Zenon DEF Hands
<1>6. Held'
  <2>1. ASSUME NEW m \in due, fate'[m] = "pending"
        PROVE  m \in Range(cf) \/ \E b \in Actors : m \in Range(buf'[b])
    <3>1. fate[m] = "pending" /\ (m \in Range(buf[a]) => m \in Range(buf'[a]))
      BY <1>0, <1>1, <1>2, <2>1, Zenon
    <3>2. QED
      BY <1>1, <3>1, Zenon DEF Held
  <2>2. QED
    BY <1>1, <2>1, Zenon DEF Held
<1>7. QED
  BY <1>0, <1>1, <1>4, <1>5, <1>6, Zenon DEF Good

LEMMA RemoveStep ==
    ASSUME Types, Offset, WrittenKept, Hands, Fresh, Held, RemoveFile
    PROVE  Good
<1>0. /\ pc \in [Actors -> Places] /\ buf \in [Actors -> Seq(Msgs)] /\ cf \in Seq(Msgs) /\ due \subseteq Msgs
      /\ logged \in Nat
      /\ \A b \in Actors : Range(buf[b]) \subseteq Msgs
  BY RangeLaw, Zenon DEF Types, ActorTypes, ChanTypes, PastTypes
<1>1. UNCHANGED <<pc, buf, cf, due, logged>> /\ \A m \in Msgs : fate'[m] = fate[m] \/ fate'[m] = "deleted"
  BY RemoveLaw, Zenon DEF Kept
<1>2. \A m \in Msgs : fate'[m] = "pending" => fate[m] = "pending"
  BY <1>1
<1>3. Fresh'
  BY <1>1, Zenon DEF Fresh, Sending
<1>4. Hands'
  BY <1>0, <1>1, <1>2, Zenon DEF Hands, Hand
<1>5. Held'
  BY <1>0, <1>1, <1>2, Zenon DEF Held
<1>6. QED
  BY <1>0, <1>1, <1>3, <1>4, <1>5, Zenon DEF Good

-----------------------------------------------------------------------------
(* Sessions *)

\* A message that is dealt with, or in a thread's text, stays so.
LEMMA SettledStep ==
    ASSUME Types, Offset, WrittenKept, Hands, Fresh, Session, Settled, [Next]_vars
    PROVE  Settled' \/ \E t \in Threads : Stopping(t)
<1>0. /\ ActorTypes /\ Threads \subseteq Actors
      /\ due \subseteq Msgs /\ cf \in Seq(Msgs) /\ buf \in [Actors -> Seq(Msgs)]
  BY DEF Types, ActorTypes, PastTypes, ChanTypes, Actors
<1>1. ASSUME due' = due, \A m \in Msgs : fate'[m] = "pending" => fate[m] = "pending",
             \A t \in Threads : \A m \in due : fate'[m] = "pending" /\ m \in Range(buf[t]) => m \in Range(buf'[t])
      PROVE  Settled'
  BY <1>0, <1>1, Zenon DEF Settled
<1>2. ASSUME NEW a \in Actors, flush(a)
      PROVE  Settled'
  <2>1. /\ due' = due
        /\ \A b \in Actors : b # a => buf'[b] = buf[b]
        /\ (buf'[a] = buf[a] /\ pc'[a] \in Busy) \/ (buf'[a] = <<>> /\ pc'[a] \in {"idle", "loop"})
        /\ \A m \in Msgs : fate'[m] = "pending" => fate[m] = "pending" /\ (m \in Range(buf[a]) => pc'[a] = "write")
    BY <1>2, FlushLaw, Zenon DEF Kept
  <2>2. pc'[a] = "write" => buf'[a] = buf[a]
    BY <2>1
  <2>3. \A t \in Threads : \A m \in due : fate'[m] = "pending" /\ m \in Range(buf[t]) => m \in Range(buf'[t])
    BY <1>0, <2>1, <2>2, Zenon
  <2>4. QED
    BY <1>1, <2>1, <2>3, Zenon
<1>3. ASSUME RemoveFile
      PROVE  Settled'
  <2>1. due' = due /\ buf' = buf /\ \A m \in Msgs : fate'[m] = fate[m] \/ fate'[m] = "deleted"
    BY <1>3, RemoveLaw, Zenon DEF Kept
  <2>2. \A m \in Msgs : fate'[m] = "pending" => fate[m] = "pending"
    BY <2>1
  <2>3. QED
    BY <1>1, <2>1, <2>2, Zenon
<1>4. ASSUME Same, UNCHANGED <<buf, due>>
      PROVE  Settled'
  BY <1>4, Zenon DEF Same, Settled
<1>5. ASSUME NEW t \in Threads, Same, Log(t)
      PROVE  Settled'
  <2>1. pc[t] = "idle" /\ buf' = [buf EXCEPT ![t] = <<logged'>>] /\ due' = due /\ fate' = fate /\ t \in Actors
    BY <1>0, <1>5, Zenon DEF Log
  <2>2. pc[t] \in Resting
    BY <2>1 DEF Resting
  <2>3. Range(buf[t]) = {}
    BY <2>1, <2>2, RangeLaw, Zenon DEF Hands, Hand
  <2>4. \A b \in Actors : b # t => buf'[b] = buf[b]
    BY <1>0, <2>1, FillLaw, Zenon
  <2>5. QED
    BY <1>0, <1>1, <2>1, <2>3, <2>4, Zenon
<1>6. ASSUME NEW t \in Threads, Same, LogEnqueue(t)
      PROVE  Settled'
  <2>1. pc[t] = "enqueue" /\ Done(t) /\ due' = due /\ fate' = fate /\ t \in Actors /\ Sending(t)
    BY <1>0, <1>6, Zenon DEF LogEnqueue, Fresh
  <2>2. \A m \in Range(buf[t]) : m \notin due
    BY <2>1, Zenon DEF Sending
  <2>3. \A b \in Actors : b # t => buf'[b] = buf[b]
    BY <1>0, <2>1, DoneLaw, Zenon
  <2>4. QED
    BY <1>0, <1>1, <2>1, <2>2, <2>3, Zenon
<1>7. ASSUME NEW a \in Actors, Same, Taking(a)
      PROVE  Settled'
  <2>1. cf # <<>> /\ buf' = [buf EXCEPT ![a] = Append(@, Head(cf))] /\ due' = due /\ fate' = fate
    BY <1>7, Zenon DEF Taking, Receive
  <2>2. PICK s : s = Append(buf[a], Head(cf))
    BY Zenon
  <2>3. Range(buf[a]) \subseteq Range(s)
    <3>1. buf[a] \in Seq(Msgs)
      BY <1>0, Zenon
    <3>2. QED
      BY <1>0, <2>1, <2>2, <3>1, ReceiveLaw, Zenon
  <2>4. buf'[a] = s /\ \A b \in Actors : b # a => buf'[b] = buf[b]
    BY <1>0, <2>1, <2>2, FillLaw, Zenon
  <2>5. QED
    BY <1>0, <1>1, <2>1, <2>3, <2>4, Zenon
<1>8. QED
  BY <1>2, <1>3, <1>4, <1>5, <1>6, <1>7, Kinds, Zenon DEF Passing

\* The steps that no session begins or ends with.
Ends == {"none", "stopped", "exit"}
Steady ==
    /\ UNCHANGED <<isOutputAsync, sessions, caStop, caStopped>>
    /\ \A r \in Runs : pc'[r] = pc[r] \/ (pc[r] \notin Ends /\ pc'[r] \notin Ends)
    /\ \A t \in Threads : pc'[t] = "stop" => pc[t] = "stop"

LEMMA SteadyLaw ==
    ASSUME NEW a \in Actors, UNCHANGED <<isOutputAsync, sessions, caStop, caStopped>>,
           \A b \in Actors : b # a => pc'[b] = pc[b],
           a \in Runs => pc[a] \notin Ends /\ pc'[a] \notin Ends, pc'[a] # "stop"
    PROVE  Steady
<1>1. Threads \subseteq Actors /\ Runs \subseteq Actors
  BY DEF Actors
<1>2. QED
  BY <1>1, Zenon DEF Steady

LEMMA SessionKinds ==
    ASSUME Types, Offset, WrittenKept, Hands, [Next]_vars
    PROVE  \/ Steady
           \/ \E t \in Threads : AsyncOn(t) \/ Stopping(t) \/ stopSend(t) \/ stopWait(t)
           \/ \E r \in Runs : (asyncRun(r) /\ cf = <<>>) \/ asyncRunStopped(r)
<1>0. ActorTypes /\ Threads \subseteq Actors /\ Runs \subseteq Actors /\ \A t \in Threads : t \notin Runs
  BY LogAssumption DEF Types, Actors
<1>1. ASSUME NEW a \in Actors, flush(a)
      PROVE  Steady
  <2>1. /\ UNCHANGED <<isOutputAsync, sessions, caStop, caStopped>> /\ pc[a] \in Flushing
        /\ \A b \in Actors : b # a => pc'[b] = pc[b]
        /\ pc'[a] \in Busy \/ pc'[a] \in {"idle", "loop"}
    BY <1>1, FlushLaw, Zenon DEF Kept
  <2>2. pc[a] \notin Ends /\ pc'[a] \notin Ends /\ pc'[a] # "stop"
    BY <2>1 DEF Ends, Flushing, Busy
  <2>3. QED
    BY <2>1, <2>2, SteadyLaw, Zenon
<1>2. ASSUME NEW t \in Threads, NEW p, p # "stop", pc' = [pc EXCEPT ![t] = p],
             UNCHANGED <<isOutputAsync, sessions, caStop, caStopped>>
      PROVE  Steady
  <2>1. t \in Actors /\ pc'[t] = p /\ \A b \in Actors : b # t => pc'[b] = pc[b]
    BY <1>0, <1>2, MoveLaw, Zenon
  <2>2. QED
    BY <1>0, <1>2, <2>1, SteadyLaw, Zenon
<1>3. ASSUME NEW t \in Threads, LogEnqueue(t)
      PROVE  Steady
  <2>1. Done(t) /\ UNCHANGED <<isOutputAsync, sessions, caStop, caStopped>>
    BY <1>3, Zenon DEF LogEnqueue
  <2>2. t \in Actors /\ pc'[t] \in {"idle", "loop"} /\ \A b \in Actors : b # t => pc'[b] = pc[b]
    BY <1>0, <2>1, DoneLaw, Zenon
  <2>3. pc'[t] # "stop"
    BY <2>2
  <2>4. QED
    BY <1>0, <2>1, <2>2, <2>3, SteadyLaw, Zenon
<1>4. ASSUME NEW t \in Threads, flushMutex(t) \/ FlushDrain(t) \/ Log(t) \/ (Flush(t) /\ ~isOutputAsync)
      PROVE  Steady
  <2>1. UNCHANGED <<isOutputAsync, sessions, caStop, caStopped>>
    BY <1>4, Zenon DEF flushMutex, FlushDrain, Receive, Log, Flush, AsyncOff, channels
  <2>2. \E p \in {"open", "gather", "lock", "idle", "drain", "enqueue"} : pc' = [pc EXCEPT ![t] = p]
    BY <1>4, Zenon DEF flushMutex, FlushDrain, Receive, Log, Flush, AsyncOff
  <2>3. PICK p : p # "stop" /\ pc' = [pc EXCEPT ![t] = p]
    BY <2>2, Zenon
  <2>4. QED
    BY <1>2, <2>1, <2>3, Zenon
<1>5. ASSUME NEW r \in Runs, (asyncRun(r) /\ cf # <<>>) \/ asyncRunReceive(r)
      PROVE  Steady
  <2>1. UNCHANGED <<isOutputAsync, sessions, caStop, caStopped>> /\ r \in Actors
    BY <1>0, <1>5, Zenon DEF asyncRun, asyncRunReceive, Receive, channels
  <2>2. pc[r] \in {"loop", "receive"} /\ \E q \in {"receive", "open"} : pc' = [pc EXCEPT ![r] = q]
    BY <1>5, Zenon DEF asyncRun, asyncRunReceive, Receive
  <2>3. PICK p \in {"receive", "open"} : pc' = [pc EXCEPT ![r] = p]
    BY <2>2, Zenon
  <2>4. pc'[r] = p /\ \A b \in Actors : b # r => pc'[b] = pc[b]
    BY <1>0, <2>1, <2>3, MoveLaw, Zenon
  <2>5. pc[r] \notin Ends /\ pc'[r] \notin Ends /\ pc'[r] # "stop"
    BY <2>2, <2>3, <2>4 DEF Ends
  <2>6. QED
    BY <2>1, <2>4, <2>5, SteadyLaw, Zenon
<1>6. ASSUME Tick \/ RemoveFile \/ UNCHANGED vars \/ \E t \in Threads : SetOutput(t)
      PROVE  Steady
  BY <1>6, Zenon DEF Tick, RemoveFile, vars, SetOutput, channels, Steady
<1>7. ASSUME NEW t \in Threads, Flush(t) /\ isOutputAsync
      PROVE  Stopping(t)
  BY <1>7, Zenon DEF Flush, Stopping
<1>8. ASSUME NEW t \in Threads, SetOutputAsync(t)
      PROVE  AsyncOn(t) \/ Stopping(t)
  BY <1>8, Zenon DEF SetOutputAsync, Stopping
<1>9. ASSUME NEW t \in Threads, ThreadStep(t) \/ Log(t) \/ Flush(t)
      PROVE  Steady \/ Stopping(t) \/ stopSend(t) \/ stopWait(t)
  BY <1>0, <1>1, <1>3, <1>4, <1>7, <1>9, Zenon DEF ThreadStep
<1>10. ASSUME NEW r \in Runs, RunStep(r)
       PROVE  Steady \/ (asyncRun(r) /\ cf = <<>>) \/ asyncRunStopped(r)
  BY <1>0, <1>1, <1>5, <1>10, Zenon DEF RunStep
<1>11. QED
  BY <1>6, <1>8, <1>9, <1>10, Zenon DEF Next

LEMMA SessionStep ==
    ASSUME Types, Offset, WrittenKept, Hands, Fresh, Held, Session, [Next]_vars
    PROVE  Session'
<1>0. /\ ActorTypes /\ Threads \subseteq Actors /\ Runs \subseteq Actors /\ (\A t \in Threads : t \notin Runs)
      /\ sessions \in Nat /\ Runs \subseteq Nat \ {0}
  BY LogAssumption DEF Types, PastTypes, Actors, Runs
<1>1. /\ isOutputAsync => sessions > 0
      /\ \A r \in Runs : r > sessions => pc[r] = "none"
      /\ caStopped = 1 => \E r \in Runs : pc[r] = "exit"
      /\ sessions <= 1 /\ (isOutputAsync \/ sessions = 0) =>
            /\ caStop = 0 /\ \A t \in Threads : pc[t] # "stop"
            /\ \A r \in Runs : pc[r] \notin {"stopped", "exit"}
      /\ sessions <= 1 => \A r \in Runs : pc[r] \in {"stopped", "exit"} => Settled
  BY Zenon DEF Session
<1>2. ASSUME NEW t \in Threads, NEW p, pc' = [pc EXCEPT ![t] = p]
      PROVE  /\ pc'[t] = p /\ \A r \in Runs : pc'[r] = pc[r]
             /\ \A u \in Threads : u # t => pc'[u] = pc[u]
  BY <1>0, <1>2, MoveLaw, Zenon
<1>3. CASE Steady
  <2>1. UNCHANGED <<isOutputAsync, sessions, caStop, caStopped>>
    BY <1>3, Zenon DEF Steady
  <2>2. \A r \in Runs : \A e \in {"none", "stopped", "exit"} : pc[r] = e <=> pc'[r] = e
    BY <1>3, Zenon DEF Steady, Ends
  <2>3. \A t \in Threads : pc[t] # "stop" => pc'[t] # "stop"
    BY <1>3, Zenon DEF Steady
  <2>4. CASE Settled => Settled'
    BY <1>1, <2>1, <2>2, <2>3, <2>4, Zenon DEF Session
  <2>5. CASE \E t \in Threads : Stopping(t)
    <3>1. isOutputAsync /\ ~isOutputAsync'
      BY <2>5, Zenon DEF Stopping, AsyncOff
    <3>2. QED
      BY <2>1, <3>1
  <2>6. QED
    BY <2>4, <2>5, SettledStep, Zenon
<1>4. ASSUME NEW t \in Threads, AsyncOn(t)
      PROVE  Session'
  <2>1. /\ sessions < MaxSessions /\ isOutputAsync' = TRUE /\ sessions' = sessions + 1
        /\ UNCHANGED <<caStop, caStopped>> /\ pc' = [pc EXCEPT ![sessions'] = "loop"]
    BY <1>4, Zenon DEF AsyncOn
  <2>2. PICK s : s = sessions' /\ s \in Runs /\ s > sessions /\ s > 0
    BY <1>0, <2>1, LogAssumption DEF Runs
  <2>3. pc'[s] = "loop" /\ \A b \in Actors : b # s => pc'[b] = pc[b]
    BY <1>0, <2>1, <2>2, MoveLaw, Zenon
  <2>4. \A u \in Threads : pc'[u] = pc[u]
    BY <1>0, <2>2, <2>3, Zenon
  <2>5. pc[s] = "none"
    BY <1>1, <2>2, Zenon
  <2>6. ASSUME NEW r \in Runs, r > sessions'
        PROVE  pc'[r] = "none"
    <3>1. r > sessions /\ r # s
      BY <1>0, <2>1, <2>2, <2>6
    <3>2. QED
      BY <1>0, <1>1, <2>3, <3>1, Zenon
  <2>7. caStopped' = 1 => \E r \in Runs : pc'[r] = "exit"
    BY <1>0, <1>1, <2>1, <2>3, <2>5, Zenon
  <2>8. ASSUME sessions' <= 1
        PROVE  /\ caStop' = 0 /\ \A u \in Threads : pc'[u] # "stop"
               /\ \A r \in Runs : pc'[r] \notin {"stopped", "exit"}
    <3>1. sessions = 0 /\ sessions <= 1
      BY <1>0, <2>1, <2>8
    <3>2. /\ caStop = 0 /\ \A u \in Threads : pc[u] # "stop"
          /\ \A r \in Runs : pc[r] \notin {"stopped", "exit"}
      BY <1>1, <3>1, Zenon
    <3>3. pc'[s] \notin {"stopped", "exit"}
      BY <2>3
    <3>4. QED
      BY <1>0, <2>1, <2>3, <2>4, <3>2, <3>3, Zenon
  <2>9. QED
    BY <2>2, <2>6, <2>7, <2>8, Zenon DEF Session
<1>5. ASSUME NEW t \in Threads, Stopping(t)
      PROVE  Session'
  <2>1. /\ isOutputAsync /\ isOutputAsync' = FALSE /\ pc' = [pc EXCEPT ![t] = "stop"]
        /\ UNCHANGED <<caStop, caStopped, sessions>>
    BY <1>5, Zenon DEF Stopping, AsyncOff
  <2>2. \A r \in Runs : pc'[r] = pc[r]
    BY <1>2, <2>1, Zenon
  <2>3. sessions' # 0
    BY <1>0, <1>1, <2>1
  <2>4. QED
    BY <1>1, <2>1, <2>2, <2>3, Zenon DEF Session
<1>6. ASSUME NEW t \in Threads, stopSend(t)
      PROVE  Session'
  <2>1. pc[t] = "stop" /\ pc' = [pc EXCEPT ![t] = "stopwait"] /\ UNCHANGED <<isOutputAsync, caStopped, sessions, due>>
    BY <1>6, Zenon DEF stopSend
  <2>2. \A r \in Runs : pc'[r] = pc[r]
    BY <1>2, <2>1, Zenon
  <2>3. Settled => Settled'
    BY <1>6, Zenon DEF stopSend, Settled
  <2>4. ~(sessions <= 1 /\ (isOutputAsync \/ sessions = 0))
    BY <1>1, <2>1, Zenon
  <2>5. QED
    BY <1>1, <2>1, <2>2, <2>3, <2>4, Zenon DEF Session
<1>7. ASSUME NEW t \in Threads, stopWait(t)
      PROVE  Session'
  <2>1. /\ caStopped' = 0 /\ pc' = [pc EXCEPT ![t] = then[t]] /\ UNCHANGED <<isOutputAsync, caStop, sessions>>
        /\ then[t] # "stop"
    <3>1. then[t] \in {"idle", "drain"}
      BY <1>0 DEF ActorTypes
    <3>2. then[t] # "stop"
      BY <3>1
    <3>3. QED
      BY <1>7, <3>2, Zenon DEF stopWait
  <2>2. (\A r \in Runs : pc'[r] = pc[r]) /\ \A u \in Threads : pc[u] # "stop" => pc'[u] # "stop"
    BY <1>2, <2>1, Zenon
  <2>3. Settled => Settled'
    BY <1>7, Zenon DEF stopWait, Settled
  <2>4. caStopped' # 1
    BY <2>1
  <2>5. QED
    BY <1>1, <2>1, <2>2, <2>3, <2>4, Zenon DEF Session
<1>8. ASSUME NEW r \in Runs, asyncRun(r), cf = <<>>
      PROVE  Session'
  <2>1. /\ pc[r] = "loop" /\ caStop = 1 /\ pc' = [pc EXCEPT ![r] = "stopped"]
        /\ UNCHANGED <<isOutputAsync, caStop, caStopped, sessions>> /\ UNCHANGED <<buf, fate, due>>
    BY <1>8, Zenon DEF asyncRun, channels
  <2>2. pc'[r] = "stopped" /\ \A b \in Actors : b # r => pc'[b] = pc[b]
    BY <1>0, <2>1, MoveLaw, Zenon
  <2>3. (\A u \in Threads : pc'[u] = pc[u]) /\ \A q \in Runs : q # r => pc'[q] = pc[q]
    BY <1>0, <2>2, Zenon
  <2>4. caStop # 0 /\ pc[r] # "none" /\ pc[r] # "exit"
    BY <2>1
  <2>5. ~(sessions <= 1 /\ (isOutputAsync \/ sessions = 0))
    BY <1>1, <2>4, Zenon
  <2>6. ASSUME sessions <= 1
        PROVE  Settled'
    <3>1. ASSUME NEW q \in Runs
          PROVE  Range(buf[q]) = {}
      <4>1. q > sessions \/ q = r
        <5>1. ~(r > sessions)
          BY <1>1, <2>4, Zenon
        <5>2. QED
          BY <1>0, <2>6, <5>1
      <4>2. pc[q] = "none" \/ pc[q] = "loop"
        BY <1>1, <2>1, <4>1, Zenon
      <4>3. pc[q] \in Resting /\ q \in Actors
        BY <1>0, <4>2 DEF Resting
      <4>4. QED
        BY <4>3, RangeLaw, Zenon DEF Hands, Hand
    <3>2. Range(cf) = {}
      BY <1>8, RangeLaw, Zenon
    <3>3. ASSUME NEW m \in due, fate[m] = "pending"
          PROVE  \E t \in Threads : m \in Range(buf[t])
      <4>1. PICK a \in Actors : m \in Range(buf[a])
        BY <3>2, <3>3, Zenon DEF Held
      <4>2. a \in Threads
        BY <3>1, <4>1, Zenon DEF Actors
      <4>3. QED
        BY <4>1, <4>2, Zenon
    <3>4. QED
      BY <2>1, <3>3, Zenon DEF Settled
  <2>7. \A q \in Runs : q > sessions' => pc'[q] = "none"
    BY <1>1, <2>1, <2>3, <2>4, Zenon
  <2>8. caStopped' = 1 => \E q \in Runs : pc'[q] = "exit"
    BY <1>1, <2>1, <2>3, <2>4, Zenon
  <2>9. QED
    BY <1>1, <2>1, <2>5, <2>6, <2>7, <2>8, Zenon DEF Session
<1>9. ASSUME NEW r \in Runs, asyncRunStopped(r)
      PROVE  Session'
  <2>1. /\ pc[r] = "stopped" /\ pc' = [pc EXCEPT ![r] = "exit"]
        /\ UNCHANGED <<isOutputAsync, caStop, sessions>> /\ UNCHANGED <<buf, fate, due>>
    BY <1>9, Zenon DEF asyncRunStopped
  <2>2. pc'[r] = "exit" /\ \A b \in Actors : b # r => pc'[b] = pc[b]
    BY <1>0, <2>1, MoveLaw, Zenon
  <2>3. (\A u \in Threads : pc'[u] = pc[u]) /\ \A q \in Runs : q # r => pc'[q] = pc[q]
    BY <1>0, <2>2, Zenon
  <2>4. pc[r] \in {"stopped", "exit"} /\ pc[r] # "none"
    BY <2>1
  <2>5. ~(sessions <= 1 /\ (isOutputAsync \/ sessions = 0))
    BY <1>1, <2>4, Zenon
  <2>6. sessions <= 1 => Settled'
    BY <1>1, <2>1, <2>4, Zenon DEF Settled
  <2>7. \A q \in Runs : q > sessions' => pc'[q] = "none"
    BY <1>1, <2>1, <2>3, <2>4, Zenon
  <2>8. \E q \in Runs : pc'[q] = "exit"
    BY <2>2, Zenon
  <2>9. QED
    BY <1>1, <2>1, <2>5, <2>6, <2>7, <2>8, Zenon DEF Session
<1>10. QED
  BY <1>3, <1>4, <1>5, <1>6, <1>7, <1>8, <1>9, SessionKinds, Zenon

-----------------------------------------------------------------------------
(* The invariant *)

Settings ==
    /\ isOutputAsync \in BOOLEAN /\ isOutputToFile \in BOOLEAN /\ isOutputToScreen \in BOOLEAN
    /\ caStop \in {0, 1} /\ caStopped \in {0, 1} /\ then \in [Threads -> {"idle", "drain"}]
    /\ now \in Names /\ sessions \in Nat

LEMMA SettingsStep ==
    ASSUME Types, Offset, WrittenKept, Hands, [Next]_vars
    PROVE  Settings'
<1>1. Settings
  BY DEF Types, ActorTypes, ChanTypes, DiskTypes, PastTypes, Settings
<1>2. ASSUME UNCHANGED <<isOutputAsync, isOutputToFile, isOutputToScreen, caStop, caStopped, then, now, sessions>>
      PROVE  Settings'
  BY <1>1, <1>2, Zenon DEF Settings
<1>3. ASSUME NEW a \in Actors, flush(a)
      PROVE  Settings'
  BY <1>2, <1>3, FlushLaw, Zenon DEF Kept
<1>4. ASSUME RemoveFile
      PROVE  Settings'
  BY <1>2, <1>4, RemoveLaw, Zenon DEF Kept
<1>5. ASSUME NEW t \in Threads,
             flushMutex(t) \/ LogEnqueue(t) \/ FlushDrain(t) \/ Log(t) \/ (Flush(t) /\ ~isOutputAsync)
      PROVE  Settings'
  <2>1. UNCHANGED <<isOutputAsync, isOutputToFile, isOutputToScreen, caStop, caStopped, then, now, sessions>>
    BY <1>5, Zenon DEF flushMutex, LogEnqueue, FlushDrain, Receive, Log, Flush, AsyncOff, channels, config
  <2>2. QED
    BY <1>2, <2>1, Zenon
<1>6. ASSUME NEW t \in Threads, Stopping(t)
      PROVE  Settings'
  <2>1. PICK p \in {"idle", "drain"} : AsyncOff(t, p)
    BY <1>6, Zenon DEF Stopping
  <2>2. /\ isOutputAsync' = FALSE /\ then' = [then EXCEPT ![t] = p]
        /\ UNCHANGED <<isOutputToFile, isOutputToScreen, caStop, caStopped, now, sessions>>
    BY <2>1, Zenon DEF AsyncOff, config
  <2>3. QED
    BY <1>1, <2>2, Zenon DEF Settings
<1>7. ASSUME NEW t \in Threads, AsyncOn(t) \/ stopSend(t) \/ stopWait(t)
      PROVE  Settings'
  <2>1. UNCHANGED <<isOutputToFile, isOutputToScreen, then, now>>
    BY <1>7, Zenon DEF AsyncOn, stopSend, stopWait, config
  <2>2. isOutputAsync' = isOutputAsync \/ isOutputAsync' = TRUE
    BY <1>7, Zenon DEF AsyncOn, stopSend, stopWait
  <2>3. /\ caStop' = caStop \/ caStop' = 1
        /\ caStopped' = caStopped \/ caStopped' = 0
        /\ sessions' = sessions \/ sessions' = sessions + 1
    BY <1>7, Zenon DEF AsyncOn, stopSend, stopWait
  <2>4. isOutputAsync' \in BOOLEAN
    BY <1>1, <2>2, Zenon DEF Settings
  <2>5. caStop' \in {0, 1} /\ caStopped' \in {0, 1} /\ sessions' \in Nat
    BY <1>1, <2>3 DEF Settings
  <2>6. QED
    BY <1>1, <2>1, <2>4, <2>5, Zenon DEF Settings
<1>8. ASSUME NEW r \in Runs, asyncRun(r) \/ asyncRunReceive(r) \/ asyncRunStopped(r)
      PROVE  Settings'
  <2>1. UNCHANGED <<isOutputAsync, isOutputToFile, isOutputToScreen, caStop, then, now, sessions>>
    BY <1>8, Zenon DEF asyncRun, asyncRunReceive, Receive, asyncRunStopped, channels, config
  <2>2. caStopped' \in {caStopped, 1}
    BY <1>8, Zenon DEF asyncRun, asyncRunReceive, Receive, asyncRunStopped, channels
  <2>3. QED
    BY <1>1, <2>1, <2>2 DEF Settings
<1>9. ASSUME Tick
      PROVE  Settings'
  <2>1. now < MaxSeconds /\ now' = now + 1
        /\ UNCHANGED <<isOutputAsync, isOutputToFile, isOutputToScreen, caStop, caStopped, then, sessions>>
    BY <1>9, Zenon DEF Tick, channels, config
  <2>2. now' \in Names
    BY <1>1, <2>1, LogAssumption DEF Settings, Names
  <2>3. QED
    BY <1>1, <2>1, <2>2, Zenon DEF Settings
<1>10. ASSUME NEW t \in Threads, SetOutput(t)
       PROVE  Settings'
  <2>1. /\ UNCHANGED <<isOutputAsync, caStop, caStopped, then, now, sessions>>
        /\ isOutputToFile' \in {isOutputToFile, ~isOutputToFile}
        /\ isOutputToScreen' \in {isOutputToScreen, ~isOutputToScreen}
    BY <1>10, Zenon DEF SetOutput, channels
  <2>2. QED
    BY <1>1, <2>1, Zenon DEF Settings
<1>11. ASSUME UNCHANGED vars
       PROVE  Settings'
  BY <1>2, <1>11, Zenon DEF vars, channels, config
<1>12. Threads \subseteq Actors /\ Runs \subseteq Actors
  BY DEF Actors
<1>13. ASSUME NEW t \in Threads, ThreadStep(t) \/ Log(t) \/ SetOutputAsync(t) \/ Flush(t) \/ SetOutput(t)
       PROVE  Settings'
  <2>1. Flush(t) => Stopping(t) \/ (Flush(t) /\ ~isOutputAsync)
    BY <1>13, Zenon DEF Flush, Stopping
  <2>2. SetOutputAsync(t) => AsyncOn(t) \/ Stopping(t)
    BY <1>13, Zenon DEF SetOutputAsync, Stopping
  <2>3. QED
    BY <1>3, <1>5, <1>6, <1>7, <1>10, <1>12, <1>13, <2>1, <2>2, Zenon DEF ThreadStep
<1>14. ASSUME NEW r \in Runs, RunStep(r)
       PROVE  Settings'
  BY <1>3, <1>8, <1>12, <1>14, Zenon DEF RunStep
<1>15. QED
  BY <1>4, <1>9, <1>11, <1>13, <1>14, Zenon DEF Next

LEMMA InitInv == NewGiLogger => IInv
<1>1. SUFFICES ASSUME NewGiLogger
               PROVE  IInv
  OBVIOUS
<1>2. /\ isOutputAsync = FALSE /\ isOutputToFile = TRUE /\ isOutputToScreen = FALSE
      /\ cf = <<>> /\ caStop = 0 /\ caStopped = 0
      /\ pc = [a \in Actors |-> IF a \in Threads THEN "idle" ELSE "none"]
      /\ buf = [a \in Actors |-> <<>>] /\ then = [t \in Threads |-> "idle"]
      /\ logFile = Nil /\ curFileSize = 0 /\ files = [n \in {} |-> <<>>]
      /\ now = 1 /\ sessions = 0
      /\ logged = 0 /\ fate = [m \in Msgs |-> "pending"] /\ due = {}
      /\ overlapped = FALSE /\ reused = FALSE
  BY <1>1, Zenon DEF NewGiLogger
<1>3. \A a \in Actors : pc[a] \in {"idle", "none"} /\ buf[a] = <<>> /\ Range(buf[a]) = {}
  BY <1>2, RangeLaw
<1>4. \A a \in Actors : pc[a] \in Places /\ pc[a] \notin Busy /\ pc[a] \notin {"size", "rotate"} /\ pc[a] # "enqueue"
                        /\ pc[a] # "write"
  BY <1>3 DEF Places, Busy
<1>5. ActorTypes
  <2>1. pc \in [Actors -> Places] /\ then \in [Threads -> {"idle", "drain"}]
    BY <1>2, <1>4, Zenon
  <2>2. buf \in [Actors -> Seq(Msgs)]
    BY <1>2
  <2>3. QED
    BY <2>1, <2>2, Zenon DEF ActorTypes
<1>6. ChanTypes
  <2>1. isOutputAsync \in BOOLEAN /\ isOutputToFile \in BOOLEAN /\ isOutputToScreen \in BOOLEAN
    BY <1>2, Zenon
  <2>2. cf \in Seq(Msgs) /\ caStop \in {0, 1} /\ caStopped \in {0, 1}
    BY <1>2
  <2>3. QED
    BY <2>1, <2>2, Zenon DEF ChanTypes
<1>7. DiskTypes
  <2>1. 1 \in Names
    BY LogAssumption DEF Names
  <2>2. DOMAIN files = {} /\ files \in [DOMAIN files -> Seq(Msgs)]
    BY <1>2
  <2>3. QED
    BY <1>2, <2>1, <2>2 DEF DiskTypes
<1>8. PastTypes
  BY <1>2, Zenon DEF PastTypes, Fates
<1>9. Turns
  BY <1>2, <1>4, Zenon DEF Turns
<1>10. \A m \in Msgs : fate[m] = "pending"
  BY <1>2, Zenon
<1>11. LossNeedsOverlap /\ WrittenKept
  BY <1>10 DEF LossNeedsOverlap, WrittenKept
<1>12. Offset
  BY <1>2, Zenon DEF Offset
<1>13. Hands
  BY <1>3, <1>4, Zenon DEF Hands, Hand
<1>14. Fresh
  <2>1. \A t \in Threads : t \in Actors
    BY DEF Actors
  <2>2. Len(cf) <= CfCap /\ Range(cf) = {}
    BY <1>2, LogAssumption, RangeLaw
  <2>3. QED
    BY <1>2, <1>3, <1>4, <2>1, <2>2, Zenon DEF Fresh, Sending
<1>15. Held
  BY <1>2, Zenon DEF Held
<1>16. Session
  <2>1. \A t \in Threads : pc[t] # "stop"
    BY <1>3 DEF Actors
  <2>2. \A r \in Runs : pc[r] = "none" /\ pc[r] \notin {"stopped", "exit"}
    BY <1>2, LogAssumption DEF Actors
  <2>3. caStopped # 1
    BY <1>2
  <2>4. QED
    BY <1>2, <2>1, <2>2, <2>3, Zenon DEF Session
<1>17. QED
  BY <1>5, <1>6, <1>7, <1>8, <1>9, <1>11, <1>12, <1>13, <1>14, <1>15, <1>16, Zenon DEF IInv, Types

\* Outside flush and deletions the files stay as they are.
LEMMA SameStep ==
    ASSUME Types, Turns, LossNeedsOverlap, Offset, WrittenKept, Same, Calm
    PROVE  /\ Turns' /\ LossNeedsOverlap' /\ Offset' /\ WrittenKept'
<1>1. LossNeedsOverlap' /\ Offset' /\ WrittenKept'
  BY Zenon DEF Same, LossNeedsOverlap, Offset, WrittenKept
<1>2. \A b \in Actors : \A p \in Busy : pc[b] = p <=> pc'[b] = p
  BY Zenon DEF Calm
<1>3. "write" \in Busy /\ "rotate" \in Busy
  BY DEF Busy
<1>4. Turns'
  BY <1>2, <1>3, Zenon DEF Same, Turns
<1>5. QED
  BY <1>1, <1>4

LEMMA StepInv ==
    ASSUME IInv, [Next]_vars
    PROVE  IInv'
<1>0. /\ Types /\ Turns /\ LossNeedsOverlap /\ Offset /\ WrittenKept /\ Hands /\ Fresh /\ Held /\ Session
      /\ DiskTypes /\ PastTypes
  BY Zenon DEF IInv, Types
<1>1. Settings' /\ Session'
  BY <1>0, SettingsStep, SessionStep, Zenon
<1>2. ASSUME Good, curFileSize' \in Nat, logFile' \in Handle \cup {Nil}, DOMAIN files' \subseteq Names,
             files' \in [DOMAIN files' -> Seq(Msgs)], fate' \in [Msgs -> Fates],
             overlapped' \in BOOLEAN, reused' \in BOOLEAN,
             Turns', LossNeedsOverlap', Offset', WrittenKept'
      PROVE  IInv'
  BY <1>1, <1>2, Zenon DEF Good, Settings, IInv, Types, ActorTypes, ChanTypes, DiskTypes, PastTypes
<1>3. ASSUME Same, Good, Calm
      PROVE  IInv'
  <2>1. /\ curFileSize' \in Nat /\ logFile' \in Handle \cup {Nil} /\ DOMAIN files' \subseteq Names
        /\ files' \in [DOMAIN files' -> Seq(Msgs)] /\ fate' \in [Msgs -> Fates]
    BY <1>0, <1>3, Zenon DEF Same, DiskTypes, PastTypes
  <2>2. overlapped' \in BOOLEAN /\ reused' \in BOOLEAN
    BY <1>0, <1>3 DEF Same, PastTypes
  <2>3. QED
    BY <1>0, <1>2, <1>3, <2>1, <2>2, SameStep, Zenon
<1>4. ASSUME NEW a \in Actors, flush(a)
      PROVE  IInv'
  <2>1. /\ logFile' \in Handle \cup {Nil} /\ curFileSize' \in Nat /\ reused' \in BOOLEAN
        /\ DOMAIN files' \subseteq Names /\ files' \in [DOMAIN files' -> Seq(Msgs)]
        /\ Offset' /\ WrittenKept'
    BY <1>0, <1>4, DiskFlush, Zenon
  <2>2. fate' \in [Msgs -> Fates] /\ overlapped' \in BOOLEAN
    BY <1>0, <1>4, FlushLaw, Zenon
  <2>3. Good
    BY <1>0, <1>4, FlushStep, Zenon
  <2>4. Turns' /\ LossNeedsOverlap'
    <3>1. CASE overlapped'
      BY <3>1, Zenon DEF Turns, LossNeedsOverlap
    <3>2. CASE ~overlapped'
      BY <1>0, <1>4, <3>2, TurnsFlush, Zenon DEF LossNeedsOverlap
    <3>3. QED
      BY <3>1, <3>2
  <2>5. QED
    BY <1>2, <2>1, <2>2, <2>3, <2>4, Zenon
<1>5. ASSUME RemoveFile
      PROVE  IInv'
  <2>1. /\ UNCHANGED <<logFile, curFileSize, reused, overlapped, pc>>
        /\ DOMAIN files' \subseteq Names /\ files' \in [DOMAIN files' -> Seq(Msgs)] /\ fate' \in [Msgs -> Fates]
        /\ Offset' /\ WrittenKept' /\ \A m \in Msgs : fate'[m] = fate[m] \/ fate'[m] = "deleted"
    BY <1>0, <1>5, RemoveLaw, Zenon
  <2>2. logFile' \in Handle \cup {Nil} /\ curFileSize' \in Nat
    BY <1>0, <2>1, Zenon DEF DiskTypes
  <2>3. overlapped' \in BOOLEAN /\ reused' \in BOOLEAN
    BY <1>0, <2>1 DEF PastTypes
  <2>4. Turns'
    BY <1>0, <2>1, Zenon DEF Turns
  <2>5. LossNeedsOverlap'
    BY <1>0, <2>1 DEF LossNeedsOverlap
  <2>6. Good
    BY <1>0, <1>5, RemoveStep, Zenon
  <2>7. QED
    BY <1>2, <2>1, <2>2, <2>3, <2>4, <2>5, <2>6, Zenon
<1>6. ASSUME Same, UNCHANGED <<pc, buf, cf, due, logged>>
      PROVE  IInv'
  <2>1. Calm
    BY <1>6, Zenon DEF Calm
  <2>2. Hands' /\ Fresh' /\ Held'
    BY <1>0, <1>6, Zenon DEF Same, Hands, Hand, Fresh, Sending, Held
  <2>3. Good
    BY <1>0, <1>6, <2>2, Zenon DEF Good, Types, ActorTypes, ChanTypes, PastTypes
  <2>4. QED
    BY <1>3, <1>6, <2>1, <2>3, Zenon
<1>7. Same => fate' = fate
  BY Zenon DEF Same
<1>8. QED
  BY <1>0, <1>3, <1>4, <1>5, <1>6, <1>7, Kinds, PassStep, LogStep, EnqueueStep, StoppingStep, TakeStep, Zenon

LEMMA Invariance == Spec => []IInv
BY InitInv, StepInv, PTL DEF Spec

-----------------------------------------------------------------------------
\* Every variable of the logger keeps its type, and cf its capacity.
THEOREM LoggerTypes == Spec => []TypeOK
<1>1. IInv => TypeOK
  <2>1. SUFFICES ASSUME IInv
                 PROVE  TypeOK
    OBVIOUS
  <2>2. Types /\ Len(cf) <= CfCap
    BY <2>1, Zenon DEF IInv, Fresh
  <2>3. \A n \in DOMAIN files : files[n] \in Seq(Msgs)
    BY <2>2, Zenon DEF Types, DiskTypes
  <2>4. QED
    BY <2>2, <2>3, Zenon DEF TypeOK, Types, ActorTypes, ChanTypes, DiskTypes, PastTypes, Places, Handle, Fates
<1>2. QED
  BY <1>1, Invariance, PTL

\* flush (lines 313-347) writes to a file that flush itself closed only after
\* an asyncRun and a thread, or two asyncRuns, were in flush at the same time:
\* flushMutex keeps the threads apart, nothing keeps asyncRun apart from them.
THEOREM LossFromOverlap == Spec => []LossNeedsOverlap
<1>1. IInv => LossNeedsOverlap
  BY Zenon DEF IInv
<1>2. QED
  BY <1>1, Invariance, PTL

\* A message that flush wrote is in a log file ever after, whatever is rotated,
\* deleted or reopened, as long as newLogFile opens no file that has text.
THEOREM WrittenStays == Spec => []WrittenKept
<1>1. IInv => WrittenKept
  BY Zenon DEF IInv
<1>2. QED
  BY <1>1, Invariance, PTL

\* In the first asynchronous session, asyncRun signals that it stopped only
\* when every message that cf held at SetOutputAsync(false) has been dealt
\* with, or a thread's Flush holds it.  In a later session the true that the
\* first one left in caStop stops asyncRun before SetOutputAsync(false).
THEOREM FirstStopDrains == Spec => [](sessions <= 1 => StopDrains)
<1>1. IInv => (sessions <= 1 => StopDrains)
  <2>1. SUFFICES ASSUME Session, sessions <= 1, caStopped = 1
                 PROVE  Settled
    BY Zenon DEF IInv, StopDrains, Settled
  <2>2. PICK r \in Runs : pc[r] = "exit"
    BY <2>1, Zenon DEF Session
  <2>3. pc[r] \in {"stopped", "exit"}
    BY <2>2
  <2>4. QED
    BY <2>1, <2>3, Zenon DEF Session
<1>2. QED
  BY <1>1, Invariance, PTL
=============================================================================

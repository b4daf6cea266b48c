-------------------------- MODULE AbciSocketProofs --------------------------
(***************************************************************************)
(* For any callers, requests and queue size, with any failures: the client *)
(* of abci/client/socket_client.go gives each request its own response and *)
(* releases no request twice, and a Sync method returns with its response  *)
(* unless the client was stopped.                                          *)
(***************************************************************************)
EXTENDS AbciSocket, SequenceTheorems, TLAPS

Request == Reqs \cup {AutoFlush}

(* Sequences of requests *)

In(s, r) == \E i \in 1..Len(s) : s[i] = r

\* No request but the automatic flush is there twice.
Distinct(s) == \A i, j \in 1..Len(s) : s[i] = s[j] /\ s[i] # AutoFlush => i = j

\* Wherever both are, p is ahead of q.
Before(s, p, q) == \A i, j \in 1..Len(s) : s[i] = p /\ s[j] = q => i < j

\* The first element of a sequence, taken off.
LEMMA TakeHead ==
    ASSUME NEW S, NEW s \in Seq(S), s # <<>>
    PROVE  Head(s) \in S /\ Tail(s) \in Seq(S) /\ s = <<Head(s)>> \o Tail(s)
OBVIOUS

\* What comes first in a concatenation.
LEMMA HeadOfConcat ==
    ASSUME NEW S, NEW s \in Seq(S), NEW r \in Seq(S), s # <<>>
    PROVE  s \o r # <<>> /\ Head(s \o r) = Head(s) /\ Tail(s \o r) = Tail(s) \o r
<1>1. s \o r \in Seq(S) /\ Len(s \o r) = Len(s) + Len(r) /\ Len(s) \in Nat /\ Len(s) > 0 /\ Len(r) \in Nat
      /\ \A i \in 1..Len(s) : (s \o r)[i] = s[i]
  BY ConcatProperties
<1>2. s \o r # <<>> /\ Head(s \o r) = Head(s)
  BY <1>1
<1>3. Head(s) \in S /\ Tail(s) \in Seq(S) /\ s = <<Head(s)>> \o Tail(s) /\ <<Head(s)>> \in Seq(S)
  BY TakeHead
<1>4. s \o r = <<Head(s)>> \o (Tail(s) \o r) /\ Tail(s) \o r \in Seq(S)
  BY <1>3, ConcatAssociative, ConcatProperties
<1>5. s \o r = <<Head(s)>> \o Tail(s \o r) /\ Tail(s \o r) \in Seq(S)
  BY <1>1, <1>2, TakeHead
<1>6. QED
  BY <1>2, <1>3, <1>4, <1>5, ConcatSimplifications

\* Membership, distinctness and order in a concatenation.
LEMMA ConcatIndex ==
    ASSUME NEW S, NEW s \in Seq(S), NEW t \in Seq(S)
    PROVE  /\ Len(s) \in Nat /\ Len(t) \in Nat /\ Len(s \o t) = Len(s) + Len(t)
           /\ \A i \in 1..Len(s) : i \in 1..Len(s \o t) /\ (s \o t)[i] = s[i]
           /\ \A j \in 1..Len(t) : Len(s) + j \in 1..Len(s \o t) /\ (s \o t)[Len(s) + j] = t[j]
           /\ \A k \in 1..Len(s \o t) : k \in 1..Len(s) \/ \E j \in 1..Len(t) : k = Len(s) + j
<1>1. /\ Len(s) \in Nat /\ Len(t) \in Nat /\ Len(s \o t) = Len(s) + Len(t)
      /\ \A i \in 1..Len(s) + Len(t) : (s \o t)[i] = IF i <= Len(s) THEN s[i] ELSE t[i - Len(s)]
  BY ConcatProperties
<1>2. ASSUME NEW j \in 1..Len(t)
      PROVE  Len(s) + j \in 1..Len(s) + Len(t) /\ ~(Len(s) + j <= Len(s)) /\ (Len(s) + j) - Len(s) = j
  BY <1>1
<1>3. \A j \in 1..Len(t) : Len(s) + j \in 1..Len(s \o t) /\ (s \o t)[Len(s) + j] = t[j]
  BY <1>1, <1>2
<1>4. \A i \in 1..Len(s) : i \in 1..Len(s \o t) /\ (s \o t)[i] = s[i]
  BY <1>1
<1>5. ASSUME NEW k \in 1..Len(s \o t), k \notin 1..Len(s) PROVE \E j \in 1..Len(t) : k = Len(s) + j
  <2>1. k - Len(s) \in 1..Len(t) /\ k = Len(s) + (k - Len(s))
    BY <1>1, <1>5
  <2>2. QED
    BY <2>1, Zenon
<1>6. QED
  BY <1>1, <1>3, <1>4, <1>5

LEMMA InConcat ==
    ASSUME NEW S, NEW s \in Seq(S), NEW t \in Seq(S), NEW r
    PROVE  In(s \o t, r) <=> In(s, r) \/ In(t, r)
<1>0. /\ Len(s) \in Nat /\ Len(t) \in Nat /\ Len(s \o t) = Len(s) + Len(t)
      /\ \A i \in 1..Len(s) : i \in 1..Len(s \o t) /\ (s \o t)[i] = s[i]
      /\ \A j \in 1..Len(t) : Len(s) + j \in 1..Len(s \o t) /\ (s \o t)[Len(s) + j] = t[j]
      /\ \A k \in 1..Len(s \o t) : k \in 1..Len(s) \/ \E j \in 1..Len(t) : k = Len(s) + j
  BY ConcatIndex
<1>1. ASSUME In(s \o t, r) PROVE In(s, r) \/ In(t, r)
  <2>1. PICK k \in 1..Len(s \o t) : (s \o t)[k] = r
    BY <1>1 DEF In
  <2>2. CASE k \in 1..Len(s)
    BY <1>0, <2>1, <2>2 DEF In
  <2>3. CASE \E j \in 1..Len(t) : k = Len(s) + j
    BY <1>0, <2>1, <2>3 DEF In
  <2>4. QED
    BY <1>0, <2>2, <2>3
<1>2. In(s, r) => In(s \o t, r)
  BY <1>0 DEF In
<1>3. In(t, r) => In(s \o t, r)
  BY <1>0, Zenon DEF In
<1>4. QED
  BY <1>1, <1>2, <1>3

LEMMA DistinctConcat ==
    ASSUME NEW S, NEW s \in Seq(S), NEW t \in Seq(S)
    PROVE  Distinct(s \o t) <=> Distinct(s) /\ Distinct(t) /\ \A r : In(s, r) /\ In(t, r) => r = AutoFlush
<1>0. /\ Len(s) \in Nat /\ Len(t) \in Nat /\ Len(s \o t) = Len(s) + Len(t)
      /\ \A i \in 1..Len(s) : i \in 1..Len(s \o t) /\ (s \o t)[i] = s[i]
      /\ \A j \in 1..Len(t) : Len(s) + j \in 1..Len(s \o t) /\ (s \o t)[Len(s) + j] = t[j]
      /\ \A k \in 1..Len(s \o t) : k \in 1..Len(s) \/ \E j \in 1..Len(t) : k = Len(s) + j
  BY ConcatIndex
<1>1. Distinct(s \o t) => Distinct(s)
  BY <1>0, Zenon DEF Distinct
<1>2. ASSUME Distinct(s \o t), NEW i \in 1..Len(t), NEW j \in 1..Len(t), t[i] = t[j], t[i] # AutoFlush
      PROVE  i = j
  <2>1. Len(s) + i = Len(s) + j
    BY <1>0, <1>2, Zenon DEF Distinct
  <2>2. QED
    BY <1>0, <2>1
<1>3. ASSUME Distinct(s \o t), NEW r, In(s, r), In(t, r) PROVE r = AutoFlush
  <2>1. PICK i \in 1..Len(s) : s[i] = r
    BY <1>3 DEF In
  <2>2. PICK j \in 1..Len(t) : t[j] = r
    BY <1>3 DEF In
  <2>3. (s \o t)[i] = r /\ (s \o t)[Len(s) + j] = r /\ i # Len(s) + j
    BY <1>0, <2>1, <2>2
  <2>4. QED
    BY <1>0, <1>3, <2>3, Zenon DEF Distinct
<1>4. ASSUME Distinct(s), Distinct(t), \A r : In(s, r) /\ In(t, r) => r = AutoFlush,
             NEW i \in 1..Len(s \o t), NEW j \in 1..Len(s \o t), (s \o t)[i] = (s \o t)[j], (s \o t)[i] # AutoFlush
      PROVE  i = j
  <2>1. CASE i \in 1..Len(s) /\ j \in 1..Len(s)
    <3>1. s[i] = s[j] /\ s[i] # AutoFlush
      BY <1>0, <1>4, <2>1, Zenon
    <3>2. QED
      BY <1>4, <2>1, <3>1, Zenon DEF Distinct
  <2>2. ASSUME NEW k \in 1..Len(s), NEW l \in 1..Len(t), s[k] = t[l] PROVE s[k] = AutoFlush
    <3>1. In(s, s[k]) /\ In(t, s[k])
      BY <2>2 DEF In
    <3>2. QED
      BY <1>4, <3>1
  <2>3. CASE i \in 1..Len(s) /\ \E k \in 1..Len(t) : j = Len(s) + k
    <3>1. PICK k \in 1..Len(t) : j = Len(s) + k
      BY <2>3
    <3>2. s[i] = t[k] /\ s[i] # AutoFlush
      BY <1>0, <1>4, <2>3, <3>1, Zenon
    <3>3. QED
      BY <2>2, <2>3, <3>2, Zenon
  <2>4. CASE j \in 1..Len(s) /\ \E k \in 1..Len(t) : i = Len(s) + k
    <3>1. PICK k \in 1..Len(t) : i = Len(s) + k
      BY <2>4
    <3>2. s[j] = t[k] /\ s[j] # AutoFlush
      BY <1>0, <1>4, <2>4, <3>1, Zenon
    <3>3. QED
      BY <2>2, <2>4, <3>2, Zenon
  <2>5. CASE (\E k \in 1..Len(t) : i = Len(s) + k) /\ (\E k \in 1..Len(t) : j = Len(s) + k)
    <3>1. PICK k \in 1..Len(t), l \in 1..Len(t) : i = Len(s) + k /\ j = Len(s) + l
      BY <2>5
    <3>2. t[k] = t[l] /\ t[k] # AutoFlush
      BY <1>0, <1>4, <3>1, Zenon
    <3>3. QED
      BY <1>4, <3>1, <3>2, Zenon DEF Distinct
  <2>6. QED
    BY <1>0, <2>1, <2>3, <2>4, <2>5
<1>5. QED
  BY <1>1, <1>2, <1>3, <1>4, Zenon DEF Distinct

LEMMA BeforeConcat ==
    ASSUME NEW S, NEW s \in Seq(S), NEW t \in Seq(S), NEW p, NEW q
    PROVE  Before(s \o t, p, q) <=> Before(s, p, q) /\ Before(t, p, q) /\ ~(In(s, q) /\ In(t, p))
<1>0. /\ Len(s) \in Nat /\ Len(t) \in Nat /\ Len(s \o t) = Len(s) + Len(t)
      /\ \A i \in 1..Len(s) : i \in 1..Len(s \o t) /\ (s \o t)[i] = s[i]
      /\ \A j \in 1..Len(t) : Len(s) + j \in 1..Len(s \o t) /\ (s \o t)[Len(s) + j] = t[j]
      /\ \A k \in 1..Len(s \o t) : k \in 1..Len(s) \/ \E j \in 1..Len(t) : k = Len(s) + j
  BY ConcatIndex
<1>1. Before(s \o t, p, q) => Before(s, p, q)
  BY <1>0 DEF Before
<1>2. ASSUME Before(s \o t, p, q), NEW i \in 1..Len(t), NEW j \in 1..Len(t), t[i] = p, t[j] = q
      PROVE  i < j
  <2>1. Len(s) + i < Len(s) + j
    BY <1>0, <1>2, Zenon DEF Before
  <2>2. QED
    BY <1>0, <2>1
<1>3. ASSUME Before(s \o t, p, q), NEW j \in 1..Len(s), s[j] = q, NEW i \in 1..Len(t), t[i] = p PROVE FALSE
  <2>1. Len(s) + i < j
    BY <1>0, <1>3, Zenon DEF Before
  <2>2. QED
    BY <1>0, <2>1
<1>4. ASSUME Before(s, p, q), Before(t, p, q), ~(In(s, q) /\ In(t, p)),
             NEW i \in 1..Len(s \o t), NEW j \in 1..Len(s \o t), (s \o t)[i] = p, (s \o t)[j] = q
      PROVE  i < j
  <2>1. CASE i \in 1..Len(s) /\ j \in 1..Len(s)
    BY <1>0, <1>4, <2>1 DEF Before
  <2>2. CASE i \in 1..Len(s) /\ \E k \in 1..Len(t) : j = Len(s) + k
    BY <1>0, <2>2
  <2>3. CASE j \in 1..Len(s) /\ \E k \in 1..Len(t) : i = Len(s) + k
    <3>1. PICK k \in 1..Len(t) : i = Len(s) + k
      BY <2>3
    <3>2. s[j] = q /\ t[k] = p
      BY <1>0, <1>4, <2>3, <3>1
    <3>3. QED
      BY <1>4, <2>3, <3>2 DEF In
  <2>4. CASE (\E k \in 1..Len(t) : i = Len(s) + k) /\ (\E k \in 1..Len(t) : j = Len(s) + k)
    <3>1. PICK k \in 1..Len(t), l \in 1..Len(t) : i = Len(s) + k /\ j = Len(s) + l
      BY <2>4
    <3>2. t[k] = p /\ t[l] = q
      BY <1>0, <1>4, <3>1
    <3>3. k < l
      BY <1>4, <3>2 DEF Before
    <3>4. QED
      BY <1>0, <3>1, <3>3
  <2>5. QED
    BY <1>0, <2>1, <2>2, <2>3, <2>4
<1>5. QED
  BY <1>1, <1>2, <1>3, <1>4, Zenon DEF Before, In

\* Sequences of requests by their laws: the proofs below use no other fact
\* about concatenation.
IsLine(s) == s \in Seq(Request)
Empty == <<>>
One(x) == <<x>>
Cat(s, t) == s \o t

LEMMA EmptyLaw == IsLine(Empty)
BY DEF IsLine, Empty

LEMMA OneLaw ==
    ASSUME NEW s, IsLine(s), NEW x \in Request
    PROVE  IsLine(One(x)) /\ Append(s, x) = Cat(s, One(x))
<1>1. IsLine(One(x))
  BY DEF IsLine, One
<1>2. Append(s, x) = Cat(s, One(x))
  BY AppendIsConcat, Zenon DEF IsLine, One, Cat
<1>3. QED
  BY <1>1, <1>2

LEMMA CatLaw ==
    ASSUME NEW s, NEW t, IsLine(s), IsLine(t)
    PROVE  IsLine(Cat(s, t))
BY ConcatProperties DEF IsLine, Cat

LEMMA UnitLaw ==
    ASSUME NEW s, IsLine(s)
    PROVE  Cat(s, Empty) = s /\ Cat(Empty, s) = s
BY ConcatEmptySeq DEF IsLine, Cat, Empty

LEMMA AssocLaw ==
    ASSUME NEW s, NEW t, NEW u, IsLine(s), IsLine(t), IsLine(u)
    PROVE  Cat(Cat(s, t), u) = Cat(s, Cat(t, u))
BY DEF Cat

LEMMA HeadLaw ==
    ASSUME NEW s, IsLine(s), s # Empty
    PROVE  Head(s) \in Request /\ IsLine(Tail(s)) /\ s = Cat(One(Head(s)), Tail(s))
BY TakeHead DEF IsLine, Empty, One, Cat

LEMMA TailLaw ==
    ASSUME NEW s, NEW t, IsLine(s), IsLine(t), s # Empty
    PROVE  Cat(s, t) # Empty /\ Head(Cat(s, t)) = Head(s) /\ Tail(Cat(s, t)) = Cat(Tail(s), t)
BY HeadOfConcat DEF IsLine, Empty, Cat

LEMMA InLaw ==
    ASSUME NEW s, NEW t, IsLine(s), IsLine(t), NEW r
    PROVE  In(Cat(s, t), r) <=> In(s, r) \/ In(t, r)
BY InConcat DEF IsLine, Cat

LEMMA DistinctLaw ==
    ASSUME NEW s, NEW t, IsLine(s), IsLine(t)
    PROVE  Distinct(Cat(s, t)) <=> Distinct(s) /\ Distinct(t) /\ \A r : In(s, r) /\ In(t, r) => r = AutoFlush
<1>1. s \in Seq(Request) /\ t \in Seq(Request)
  BY DEF IsLine
<1>2. Distinct(s \o t) <=> Distinct(s) /\ Distinct(t) /\ \A r : In(s, r) /\ In(t, r) => r = AutoFlush
  BY <1>1, DistinctConcat
<1>3. QED
  BY <1>2 DEF Cat

LEMMA BeforeLaw ==
    ASSUME NEW s, NEW t, IsLine(s), IsLine(t), NEW p, NEW q
    PROVE  Before(Cat(s, t), p, q) <=> Before(s, p, q) /\ Before(t, p, q) /\ ~(In(s, q) /\ In(t, p))
BY BeforeConcat DEF IsLine, Cat

LEMMA SmallLaw ==
    ASSUME NEW x
    PROVE  /\ Distinct(One(x)) /\ \A r : In(One(x), r) <=> r = x
           /\ Distinct(Empty) /\ \A r : ~In(Empty, r)
           /\ \A r, q : r # q => Before(One(x), r, q) /\ Before(Empty, r, q)
<1>1. Len(One(x)) = 1 /\ One(x)[1] = x /\ Len(Empty) = 0 /\ 1..1 = {1} /\ 1..0 = {}
  BY DEF One, Empty
<1>2. Distinct(One(x)) /\ Distinct(Empty)
  BY <1>1 DEF Distinct
<1>3. \A r : (In(One(x), r) <=> r = x) /\ ~In(Empty, r)
  BY <1>1, Zenon DEF In
<1>4. \A r, q : r # q => Before(One(x), r, q) /\ Before(Empty, r, q)
  BY <1>1, Zenon DEF Before
<1>5. QED
  BY <1>2, <1>3, <1>4

-----------------------------------------------------------------------------
(* Types *)

LEMMA Names ==
    /\ Txs \subseteq Reqs /\ Flushes \subseteq Reqs /\ Txs \cap Flushes = {}
    /\ AutoFlush \notin Reqs /\ Nil \notin Reqs /\ Nil # AutoFlush
<1>1. Txs \cap Flushes = {} /\ AutoFlush \notin Txs \cup Flushes /\ Nil \notin Txs \cup Flushes \cup {AutoFlush}
  BY AbciAssumption
<1>2. QED
  BY <1>1 DEF Reqs

NetTypes ==
    /\ reqQueue \in Seq(Request) /\ Len(reqQueue) <= QueueSize /\ reqSent \in Seq(Request)
    /\ w \in Seq(Request) /\ c2s \in Seq(Request) /\ responses \in Seq(Request)
    /\ bufWriter \in Seq(Request) /\ s2c \in Seq(Request)
    /\ send \in {"select", "autoflush", "will", "write", "exit"} /\ sending \in Request \cup {Nil}
    /\ send \in {"will", "write"} => sending \in Request

ResTypes ==
    /\ doneCount \in [Reqs -> Nat] /\ response \in [Reqs -> Request \cup {Nil}]
    /\ cbSet \subseteq Txs /\ cbRan \subseteq cbSet

CallerTypes ==
    /\ pc \in [Callers -> {"idle", "queue", "timer", "flush", "error", "wait", "return"}]
    /\ req \in [Callers -> Reqs \cup {Nil}] /\ tx \in [Callers -> Txs \cup {Nil}]
    /\ \A t \in Callers : pc[t] = "queue" => req[t] \in Reqs

FlagTypes ==
    /\ err \in BOOLEAN /\ conn \in BOOLEAN /\ isSet \in BOOLEAN /\ armed \in BOOLEAN /\ firing \in BOOLEAN
    /\ stopped \in BOOLEAN /\ quit \in BOOLEAN /\ svrGone \in BOOLEAN
    /\ stop \in [Stoppers -> {"none", "check", "err", "cas", "onstop", "drain", "close", "done"}]

Types == NetTypes /\ ResTypes /\ CallerTypes /\ FlagTypes

LEMMA TypesTypeOK == Types => TypeOK
<1>1. SUFFICES ASSUME Types PROVE TypeOK
  OBVIOUS
<1>2. {reqQueue, reqSent, w, c2s, responses, bufWriter, s2c} \subseteq Seq(Reqs \cup {AutoFlush})
      /\ Len(reqQueue) <= QueueSize
  BY <1>1 DEF Types, NetTypes, Request
<1>3. {err, conn, isSet, armed, firing, stopped, quit, svrGone} \subseteq BOOLEAN
  BY <1>1, Zenon DEF Types, FlagTypes
<1>4. Request \cup {Nil} = Reqs \cup {AutoFlush, Nil}
  BY DEF Request
<1>5. /\ doneCount \in [Reqs -> Nat] /\ response \in [Reqs -> Reqs \cup {AutoFlush, Nil}]
      /\ send \in {"select", "autoflush", "will", "write", "exit"} /\ sending \in Reqs \cup {AutoFlush, Nil}
  BY <1>1, <1>4, Zenon DEF Types, NetTypes, ResTypes
<1>6. QED
  BY <1>1, <1>2, <1>3, <1>5, Zenon DEF TypeOK, Types, ResTypes, CallerTypes, FlagTypes

\* The steps that leave the queues, the wires and the answers alone.
CallerMove(t) ==
    \/ Async(t) \/ Sync(t) \/ FlushSync(t) \/ queueRequestTimer(t) \/ FlushSyncError(t) \/ FlushSyncWait(t)
    \/ Return(t) \/ SetCallback(t)
StopMove(x) == StopForError(x) \/ ServiceStop(x) \/ OnStop(x) \/ CloseQuit(x)
Quiet ==
    \/ \E t \in Callers : CallerMove(t)
    \/ \E x \in Stoppers : StopMove(x)
    \/ Stop \/ recvError \/ Expire \/ waitForClose \/ UNCHANGED vars

LEMMA Moves ==
    [Next]_vars <=> \/ Quiet \/ (\E t \in Callers : queueRequest(t)) \/ (\E x \in Stoppers : flushQueue(x))
                    \/ fireRoutine \/ Sender \/ didRecvResponse \/ handleRequests \/ handleResponses
<1>1. (\E t \in Callers : CallerStep(t) \/ Async(t) \/ Sync(t) \/ (pc[t] = "idle" /\ FlushSync(t)) \/ SetCallback(t))
      <=> (\E t \in Callers : CallerMove(t)) \/ (\E t \in Callers : queueRequest(t))
  <2>1. \A t \in Callers : FlushSync(t) => pc[t] = "idle" \/ pc[t] = "flush"
    BY DEF FlushSync
  <2>2. QED
    BY <2>1, Zenon DEF CallerStep, CallerMove
<1>2. (\E x \in Stoppers : Stopping(x)) <=> (\E x \in Stoppers : StopMove(x)) \/ (\E x \in Stoppers : flushQueue(x))
  BY Zenon DEF Stopping, StopMove
<1>3. QED
  BY <1>1, <1>2, Zenon DEF Next, Quiet, Timer, Receiver, Server

LEMMA QuietFrame ==
    ASSUME Quiet
    PROVE  UNCHANGED <<reqQueue, reqSent, doneCount, response, send, sending, w, c2s, responses, bufWriter, s2c>>
<1> USE DEF reqres, flushTimer, service, caller, server, sender
<1>1. ASSUME NEW t \in Callers, CallerMove(t)
      PROVE  UNCHANGED <<reqQueue, reqSent, doneCount, response, send, sending, w, c2s, responses, bufWriter, s2c>>
  BY <1>1, Zenon
     DEF CallerMove, Async, Sync, FlushSync, queueRequestTimer, FlushSyncError, FlushSyncWait, Return,
         SetCallback
<1>2. ASSUME NEW x \in Stoppers, StopMove(x)
      PROVE  UNCHANGED <<reqQueue, reqSent, doneCount, response, send, sending, w, c2s, responses, bufWriter, s2c>>
  BY <1>2, Zenon DEF StopMove, StopForError, ServiceStop, OnStop, CloseQuit
<1>3. QED
  BY <1>1, <1>2, Zenon DEF Quiet, Stop, recvError, Expire, waitForClose, vars

LEMMA NetTypesStep ==
    ASSUME NetTypes, CallerTypes, [Next]_vars
    PROVE  NetTypes'
<1> USE DEF sender, server
<1>0. QueueSize \in Nat /\ <<>> \in Seq(Request)
  BY AbciAssumption
<1>1. CASE Quiet
  BY <1>1, QuietFrame DEF NetTypes
<1>2. ASSUME NEW t \in Callers, queueRequest(t) PROVE NetTypes'
  <2>1. req[t] \in Request /\ reqQueue \in Seq(Request)
    BY <1>2, Zenon DEF queueRequest, CallerTypes, Request, NetTypes
  <2>2. reqQueue' \in Seq(Request) /\ Len(reqQueue') <= QueueSize
    BY <1>0, <1>2, <2>1 DEF queueRequest
  <2>3. UNCHANGED <<reqSent, w, c2s, responses, bufWriter, s2c, send, sending>>
    BY <1>2 DEF queueRequest
  <2>4. QED
    BY <2>2, <2>3 DEF NetTypes
<1>3. ASSUME NEW x \in Stoppers, flushQueue(x) PROVE NetTypes'
  <2>1. UNCHANGED <<reqSent, w, c2s, responses, bufWriter, s2c, send, sending>>
    BY <1>3 DEF flushQueue
  <2>2. reqQueue' = reqQueue \/ (reqQueue # <<>> /\ reqQueue' = Tail(reqQueue))
    BY <1>3 DEF flushQueue
  <2>3. reqQueue \in Seq(Request) /\ Len(reqQueue) <= QueueSize
    BY DEF NetTypes
  <2>4. reqQueue' \in Seq(Request) /\ Len(reqQueue') <= QueueSize
    BY <1>0, <2>2, <2>3
  <2>5. QED
    BY <2>1, <2>4 DEF NetTypes
<1>4. CASE fireRoutine
  BY <1>4 DEF fireRoutine, NetTypes
<1>5. CASE sendAutoFlush
  <2>1. UNCHANGED <<reqSent, w, c2s, responses, bufWriter, s2c, sending>> /\ send' = "select"
    BY <1>5 DEF sendAutoFlush
  <2>2. reqQueue \in Seq(Request) /\ Len(reqQueue) <= QueueSize /\ AutoFlush \in Request
    BY DEF NetTypes, Request
  <2>3. reqQueue' \in Seq(Request) /\ Len(reqQueue') <= QueueSize
    <3>1. reqQueue' = reqQueue \/ (Len(reqQueue) < QueueSize /\ reqQueue' = Append(reqQueue, AutoFlush))
      BY <1>5, Zenon DEF sendAutoFlush
    <3>2. Append(reqQueue, AutoFlush) \in Seq(Request) /\ Len(Append(reqQueue, AutoFlush)) = Len(reqQueue) + 1
          /\ Len(reqQueue) \in Nat
      BY <2>2
    <3>3. QED
      BY <1>0, <2>2, <3>1, <3>2
  <2>4. QED
    BY <2>1, <2>3 DEF NetTypes
<1>6. CASE sendQuit
  BY <1>6 DEF sendQuit, NetTypes
<1>7. CASE sendTake
  <2>1. /\ UNCHANGED <<reqSent, w, c2s, responses, bufWriter, s2c>> /\ send' = "will" /\ reqQueue # <<>>
        /\ reqQueue' = Tail(reqQueue) /\ sending' = Head(reqQueue)
    BY <1>7 DEF sendTake
  <2>2. reqQueue \in Seq(Request) /\ Len(reqQueue) <= QueueSize
    BY DEF NetTypes
  <2>3. reqQueue' \in Seq(Request) /\ Len(reqQueue') <= QueueSize /\ sending' \in Request
    BY <1>0, <2>1, <2>2
  <2>4. QED
    BY <2>1, <2>3 DEF NetTypes
<1>8. CASE willSendReq
  BY <1>8 DEF willSendReq, NetTypes
<1>9. CASE sendWrite
  <2>1. Append(w, sending) \in Seq(Request) /\ c2s \in Seq(Request)
    BY <1>9 DEF sendWrite, NetTypes
  <2>2. c2s \o Append(w, sending) \in Seq(Request)
    BY <2>1, ConcatProperties
  <2>3. (w' = w \/ w' = Append(w, sending) \/ w' = <<>>) /\ (c2s' = c2s \/ c2s' = c2s \o Append(w, sending))
    BY <1>9 DEF sendWrite
  <2>4. UNCHANGED <<reqQueue, reqSent, responses, bufWriter, s2c>> /\ send' \in {"select", "exit"} /\ sending' = Nil
    BY <1>9 DEF sendWrite
  <2>5. w' \in Seq(Request) /\ c2s' \in Seq(Request)
    BY <1>0, <2>1, <2>2, <2>3, Zenon DEF NetTypes
  <2>6. QED
    BY <2>4, <2>5 DEF NetTypes
<1>10. CASE didRecvResponse
  <2>1. UNCHANGED <<reqQueue, w, c2s, responses, bufWriter, send, sending>> /\ s2c # <<>> /\ s2c' = Tail(s2c)
    BY <1>10 DEF didRecvResponse
  <2>2. reqSent' = reqSent \/ (reqSent # <<>> /\ reqSent' = Tail(reqSent))
    BY <1>10 DEF didRecvResponse
  <2>3. s2c \in Seq(Request) /\ reqSent \in Seq(Request)
    BY DEF NetTypes
  <2>4. s2c' \in Seq(Request) /\ reqSent' \in Seq(Request)
    BY <2>1, <2>2, <2>3
  <2>5. QED
    BY <2>1, <2>4 DEF NetTypes
<1>11. CASE handleRequests
  <2>1. /\ UNCHANGED <<reqQueue, reqSent, w, bufWriter, s2c, send, sending>> /\ c2s # <<>>
        /\ responses' = Append(responses, Head(c2s)) /\ c2s' = Tail(c2s)
    BY <1>11 DEF handleRequests
  <2>2. responses' \in Seq(Request) /\ c2s' \in Seq(Request)
    BY <2>1 DEF NetTypes
  <2>3. QED
    BY <2>1, <2>2 DEF NetTypes
<1>12. CASE handleResponses
  <2>1. Append(bufWriter, Head(responses)) \in Seq(Request) /\ Tail(responses) \in Seq(Request)
        /\ s2c \in Seq(Request)
    BY <1>12 DEF handleResponses, NetTypes
  <2>2. s2c \o Append(bufWriter, Head(responses)) \in Seq(Request)
    BY <2>1, ConcatProperties
  <2>3. UNCHANGED <<reqQueue, reqSent, w, c2s, send, sending>> /\ responses' = Tail(responses)
    BY <1>12 DEF handleResponses
  <2>4. /\ bufWriter' = <<>> \/ bufWriter' = Append(bufWriter, Head(responses))
        /\ s2c' = s2c \/ s2c' = s2c \o Append(bufWriter, Head(responses))
    BY <1>12, Zenon DEF handleResponses
  <2>5. bufWriter' \in Seq(Request) /\ s2c' \in Seq(Request)
    BY <1>0, <2>1, <2>2, <2>4, Zenon
  <2>6. QED
    BY <2>1, <2>3, <2>5 DEF NetTypes
<1>13. QED
  BY <1>1, <1>2, <1>3, <1>4, <1>5, <1>6, <1>7, <1>8, <1>9, <1>10, <1>11, <1>12, Moves, Zenon DEF Sender

\* The caller's steps, and the steps of the others that leave callers alone.
LEMMA CallerFrame ==
    ASSUME [Next]_vars
    PROVE  (\E t \in Callers : CallerMove(t) \/ queueRequest(t)) \/ UNCHANGED <<pc, req, tx, cbSet>>
<1> USE DEF reqres, caller
<1>1. ASSUME NEW x \in Stoppers, StopMove(x) \/ flushQueue(x) PROVE UNCHANGED <<pc, req, tx, cbSet>>
  BY <1>1, Zenon DEF StopMove, StopForError, ServiceStop, OnStop, CloseQuit, flushQueue
<1>2. CASE Sender \/ fireRoutine
  BY <1>2, Zenon DEF fireRoutine, Sender, sendAutoFlush, sendQuit, sendTake, willSendReq, sendWrite
<1>3. CASE didRecvResponse \/ handleRequests \/ handleResponses
  BY <1>3, Zenon DEF didRecvResponse, handleRequests, handleResponses
<1>4. CASE Stop \/ recvError \/ Expire \/ waitForClose \/ UNCHANGED vars
  BY <1>4, Zenon DEF Stop, recvError, Expire, waitForClose, vars
<1>5. QED
  BY <1>1, <1>2, <1>3, <1>4, Moves, Zenon DEF Quiet

LEMMA CallerTypesStep ==
    ASSUME CallerTypes, [Next]_vars
    PROVE  CallerTypes'
<1> USE DEF CallerTypes, caller
<1>1. CASE UNCHANGED <<pc, req, tx>>
  BY <1>1
<1>2. ASSUME NEW t \in Callers, CallerMove(t) \/ queueRequest(t) PROVE CallerTypes'
  <2>1. CASE Async(t)
    BY <2>1 DEF Async, Queue, Unused, Reqs
  <2>2. CASE Sync(t)
    BY <2>2 DEF Sync, Queue, Unused, Reqs
  <2>3. CASE FlushSync(t)
    BY <2>3 DEF FlushSync, Queue, Unused, Reqs
  <2>4. CASE queueRequestTimer(t)
    BY <2>4 DEF queueRequestTimer
  <2>5. CASE FlushSyncError(t) \/ FlushSyncWait(t)
    BY <2>5 DEF FlushSyncError, FlushSyncWait
  <2>6. CASE Return(t)
    BY <2>6 DEF Return
  <2>7. CASE SetCallback(t)
    BY <2>7 DEF SetCallback
  <2>8. CASE queueRequest(t)
    BY <2>8 DEF queueRequest
  <2>9. QED
    BY <1>2, <2>1, <2>2, <2>3, <2>4, <2>5, <2>6, <2>7, <2>8, Zenon DEF CallerMove
<1>3. QED
  BY <1>1, <1>2, CallerFrame, Zenon

\* Who answers: the receive routine and flushQueue.
LEMMA ResFrame ==
    ASSUME [Next]_vars
    PROVE  didRecvResponse \/ (\E x \in Stoppers : flushQueue(x)) \/ UNCHANGED <<doneCount, response, cbRan>>
<1> USE DEF reqres
<1>1. ASSUME NEW x \in Stoppers, StopMove(x) PROVE UNCHANGED <<doneCount, response, cbRan>>
  BY <1>1, Zenon DEF StopMove, StopForError, ServiceStop, OnStop, CloseQuit
<1>2. ASSUME NEW t \in Callers, CallerMove(t) \/ queueRequest(t) PROVE UNCHANGED <<doneCount, response, cbRan>>
  BY <1>2, Zenon
     DEF CallerMove, Async, Sync, FlushSync, queueRequest, queueRequestTimer, FlushSyncError, FlushSyncWait,
         Return, SetCallback
<1>3. CASE Sender \/ fireRoutine \/ handleRequests \/ handleResponses
  BY <1>3, Zenon
     DEF fireRoutine, Sender, sendAutoFlush, sendQuit, sendTake, willSendReq, sendWrite, handleRequests,
         handleResponses
<1>4. CASE Stop \/ recvError \/ Expire \/ waitForClose \/ UNCHANGED vars
  BY <1>4, Zenon DEF Stop, recvError, Expire, waitForClose, vars
<1>5. QED
  BY <1>1, <1>2, <1>3, <1>4, Moves, Zenon DEF Quiet

LEMMA ResTypesStep ==
    ASSUME ResTypes, NetTypes, [Next]_vars
    PROVE  ResTypes'
<1>1. cbSet' \subseteq Txs /\ cbSet \subseteq cbSet'
  <2>1. CASE UNCHANGED cbSet
    BY <2>1 DEF ResTypes
  <2>2. ASSUME NEW t \in Callers, CallerMove(t) \/ queueRequest(t)
        PROVE  cbSet' \subseteq Txs /\ cbSet \subseteq cbSet'
    <3>1. CASE SetCallback(t)
      BY <3>1, AbciAssumption DEF SetCallback, ResTypes
    <3>2. CASE ~SetCallback(t)
      <4>1. UNCHANGED cbSet
        BY <2>2, <3>2, Zenon
           DEF CallerMove, Async, Sync, FlushSync, queueRequest, queueRequestTimer, FlushSyncError,
               FlushSyncWait, Return, reqres
      <4>2. QED
        BY <4>1 DEF ResTypes
    <3>3. QED
      BY <3>1, <3>2
  <2>3. QED
    BY <2>1, <2>2, CallerFrame, Zenon
<1>2. CASE UNCHANGED <<doneCount, response, cbRan>>
  BY <1>1, <1>2 DEF ResTypes
<1>3. CASE didRecvResponse
  <2>1. Head(s2c) \in Request
    BY <1>3 DEF didRecvResponse, NetTypes
  <2>2. CASE UNCHANGED <<doneCount, response, cbRan>>
    BY <1>2, <2>2
  <2>3. CASE \E r : /\ doneCount' = [q \in Reqs |-> IF q = r THEN doneCount[q] + 1 ELSE doneCount[q]]
                    /\ response' = [q \in Reqs |-> IF q = r THEN Head(s2c) ELSE response[q]]
                    /\ cbRan' = cbRan \cup ({r} \cap cbSet)
    BY <1>1, <2>1, <2>3 DEF ResTypes
  <2>4. QED
    BY <1>3, <2>2, <2>3, Zenon DEF didRecvResponse
<1>4. ASSUME NEW x \in Stoppers, flushQueue(x) PROVE ResTypes'
  <2>1. UNCHANGED <<response, cbRan>>
    BY <1>4 DEF flushQueue
  <2>2. doneCount' \in [Reqs -> Nat]
    BY <1>4 DEF flushQueue, ResTypes
  <2>3. QED
    BY <1>1, <2>1, <2>2 DEF ResTypes
<1>5. QED
  BY <1>2, <1>3, <1>4, ResFrame, Zenon

\* The flags: who writes which.
LEMMA FlagFrame ==
    ASSUME [Next]_vars
    PROVE  /\ UNCHANGED <<err, conn, stopped, quit>> \/ \E x \in Stoppers : StopMove(x)
           /\ UNCHANGED <<isSet, armed, firing>> \/ Expire \/ fireRoutine \/ \E t \in Callers : queueRequestTimer(t)
           /\ UNCHANGED svrGone \/ waitForClose
<1> USE DEF flushTimer, service, server
<1>1. ASSUME NEW t \in Callers, CallerMove(t) \/ queueRequest(t)
      PROVE  /\ UNCHANGED <<err, conn, stopped, quit, svrGone>>
             /\ UNCHANGED <<isSet, armed, firing>> \/ queueRequestTimer(t)
  BY <1>1, Zenon
     DEF CallerMove, Async, Sync, FlushSync, queueRequest, queueRequestTimer, FlushSyncError, FlushSyncWait,
         Return, SetCallback
<1>2. ASSUME NEW x \in Stoppers, flushQueue(x)
      PROVE  UNCHANGED <<err, conn, stopped, quit, svrGone, isSet, armed, firing>>
  BY <1>2, Zenon DEF flushQueue
<1>3. ASSUME NEW x \in Stoppers, StopMove(x) PROVE UNCHANGED <<svrGone, isSet, armed, firing>>
  BY <1>3, Zenon DEF StopMove, StopForError, ServiceStop, OnStop, CloseQuit
<1>4. CASE Sender \/ didRecvResponse \/ handleRequests \/ handleResponses
  BY <1>4, Zenon
     DEF Sender, sendAutoFlush, sendQuit, sendTake, willSendReq, sendWrite, didRecvResponse, handleRequests,
         handleResponses
<1>5. CASE Stop \/ recvError \/ Expire \/ fireRoutine \/ waitForClose \/ UNCHANGED vars
  BY <1>5, Zenon DEF Stop, recvError, Expire, fireRoutine, waitForClose, vars
<1>6. QED
  BY <1>1, <1>2, <1>3, <1>4, <1>5, Moves, Zenon DEF Quiet

\* Only the goroutine that got past the compare-and-swap runs OnStop.
Stops == \A x \in Stoppers : stop[x] \in {"onstop", "drain", "close"} => stopped

LEMMA StopStep ==
    ASSUME FlagTypes, Stops, [Next]_vars
    PROVE  /\ stop' \in [Stoppers -> {"none", "check", "err", "cas", "onstop", "drain", "close", "done"}]
           /\ stopped' \in BOOLEAN /\ err' \in BOOLEAN
           /\ Stops' /\ (stopped => stopped') /\ (err => err')
<1>0. {"user", "send", "recv"} = Stoppers
  BY DEF Stoppers
<1> USE DEF FlagTypes, Stops
<1>1. ASSUME NEW x \in Stoppers, StopMove(x)
      PROVE  /\ stop' \in [Stoppers -> {"none", "check", "err", "cas", "onstop", "drain", "close", "done"}]
             /\ stopped' \in BOOLEAN /\ err' \in BOOLEAN
             /\ Stops' /\ (stopped => stopped') /\ (err => err')
  <2>1. CASE StopForError(x)
    BY <2>1, Zenon DEF StopForError
  <2>2. CASE ServiceStop(x)
    BY <2>2 DEF ServiceStop
  <2>3. CASE OnStop(x)
    BY <2>3 DEF OnStop
  <2>4. CASE CloseQuit(x)
    BY <2>4 DEF CloseQuit
  <2>5. QED
    BY <1>1, <2>1, <2>2, <2>3, <2>4, Zenon DEF StopMove
<1>2. ASSUME UNCHANGED <<err, conn, stopped, quit>>,
             \/ UNCHANGED stop \/ (\E x \in Stoppers, v \in {"check", "cas"} : stop' = [stop EXCEPT ![x] = v])
             \/ \E x \in Stoppers : stop[x] = "drain" /\ stop' = [stop EXCEPT ![x] = "close"]
      PROVE  /\ stop' \in [Stoppers -> {"none", "check", "err", "cas", "onstop", "drain", "close", "done"}]
             /\ stopped' \in BOOLEAN /\ err' \in BOOLEAN
             /\ Stops' /\ (stopped => stopped') /\ (err => err')
  BY <1>2
<1> HIDE DEF FlagTypes, Stops
<1>3. UNCHANGED <<err, conn, stopped, quit>> \/ \E x \in Stoppers : StopMove(x)
  BY FlagFrame
<1>4. \/ \E x \in Stoppers : StopMove(x)
      \/ UNCHANGED stop \/ (\E x \in Stoppers, v \in {"check", "cas"} : stop' = [stop EXCEPT ![x] = v])
      \/ \E x \in Stoppers : stop[x] = "drain" /\ stop' = [stop EXCEPT ![x] = "close"]
  <2> USE DEF service
  <2>1. ASSUME NEW t \in Callers, CallerMove(t) \/ queueRequest(t) PROVE UNCHANGED stop
    BY <2>1, Zenon
       DEF CallerMove, Async, Sync, FlushSync, queueRequest, queueRequestTimer, FlushSyncError, FlushSyncWait,
           Return, SetCallback
  <2>2. ASSUME NEW x \in Stoppers, flushQueue(x)
        PROVE  UNCHANGED stop \/ (stop[x] = "drain" /\ stop' = [stop EXCEPT ![x] = "close"])
    BY <2>2, Zenon DEF flushQueue
  <2>3. CASE sendAutoFlush \/ sendQuit \/ sendTake \/ willSendReq \/ handleRequests \/ handleResponses \/ fireRoutine
    BY <2>3, Zenon
       DEF sendAutoFlush, sendQuit, sendTake, willSendReq, handleRequests, handleResponses, fireRoutine
  <2>4. CASE sendWrite
    BY <1>0, <2>4 DEF sendWrite
  <2>5. CASE didRecvResponse
    BY <1>0, <2>5 DEF didRecvResponse
  <2>6. CASE Stop \/ recvError
    BY <1>0, <2>6 DEF Stop, recvError
  <2>7. CASE Expire \/ waitForClose \/ UNCHANGED vars
    BY <2>7, Zenon DEF Expire, waitForClose, vars
  <2>8. QED
    BY <2>1, <2>2, <2>3, <2>4, <2>5, <2>6, <2>7, Moves, Zenon DEF Quiet, Sender
<1>5. QED
  BY <1>1, <1>2, <1>3, <1>4, Zenon

LEMMA FlagTypesStep ==
    ASSUME FlagTypes, Stops, [Next]_vars
    PROVE  FlagTypes'
<1>1. conn' \in BOOLEAN /\ quit' \in BOOLEAN
  <2>1. ASSUME NEW x \in Stoppers, StopMove(x) PROVE conn' \in BOOLEAN /\ quit' \in BOOLEAN
    BY <2>1, Zenon DEF StopMove, StopForError, ServiceStop, OnStop, CloseQuit, FlagTypes
  <2>2. QED
    BY <2>1, FlagFrame, Zenon DEF FlagTypes
<1>2. isSet' \in BOOLEAN /\ armed' \in BOOLEAN /\ firing' \in BOOLEAN
  <2>1. CASE Expire \/ fireRoutine
    BY <2>1, Zenon DEF Expire, fireRoutine, FlagTypes
  <2>2. ASSUME NEW t \in Callers, queueRequestTimer(t)
        PROVE  isSet' \in BOOLEAN /\ armed' \in BOOLEAN /\ firing' \in BOOLEAN
    BY <2>2, Zenon DEF queueRequestTimer, Set, Unset, FlagTypes
  <2>3. QED
    BY <2>1, <2>2, FlagFrame, Zenon DEF FlagTypes
<1>3. svrGone' \in BOOLEAN
  BY FlagFrame, Zenon DEF waitForClose, FlagTypes
<1>4. QED
  BY <1>1, <1>2, <1>3, StopStep, Zenon DEF FlagTypes

-----------------------------------------------------------------------------
(* Responses come in the order of reqSent *)

Alive == conn /\ ~svrGone

\* What the send routine has registered and not yet written.
Held == IF send = "write" THEN One(sending) ELSE Empty

\* What is between the send routine and the wire back, first come first.
Wire == Cat(Cat(Cat(bufWriter, responses), Cat(c2s, w)), Held)

\* The responses under way are to the first of the requests sent, and those to
\* the others follow in order while the connection lasts.
Flow == \E rest : IsLine(rest) /\ reqSent = Cat(s2c, rest) /\ (Alive => rest = Wire)

\* A connection does not come back.
LEMMA AliveStep ==
    ASSUME [Next]_vars, Alive' PROVE Alive
<1>1. ASSUME NEW x \in Stoppers, StopMove(x), conn' PROVE conn
  BY <1>1, Zenon DEF StopMove, StopForError, ServiceStop, OnStop, CloseQuit
<1>2. conn
  BY <1>1, FlagFrame, Zenon DEF Alive
<1>3. ~svrGone
  BY FlagFrame, Zenon DEF Alive, waitForClose
<1>4. QED
  BY <1>2, <1>3 DEF Alive

LEMMA Lines ==
    ASSUME NetTypes
    PROVE  /\ IsLine(reqQueue) /\ IsLine(reqSent) /\ IsLine(w) /\ IsLine(c2s) /\ IsLine(responses)
           /\ IsLine(bufWriter) /\ IsLine(s2c) /\ (send \in {"will", "write"} => sending \in Request)
BY DEF NetTypes, IsLine

\* Nothing moves on the connection.
LEMMA FlowStill ==
    ASSUME Flow, [Next]_vars, UNCHANGED <<reqSent, s2c, bufWriter, responses, c2s, w>>, Held' = Held
    PROVE  Flow'
<1>1. PICK rest : IsLine(rest) /\ reqSent = Cat(s2c, rest) /\ (Alive => rest = Wire)
  BY DEF Flow
<1>2. Wire' = Wire
  BY DEF Wire
<1>3. reqSent' = Cat(s2c', rest) /\ (Alive' => rest = Wire')
  BY <1>1, <1>2, AliveStep
<1>4. QED
  BY <1>1, <1>3 DEF Flow

LEMMA FlowWill ==
    ASSUME Flow, NetTypes, willSendReq, [Next]_vars
    PROVE  Flow'
<1>1. PICK rest : IsLine(rest) /\ reqSent = Cat(s2c, rest) /\ (Alive => rest = Wire)
  BY DEF Flow
<1>2. /\ UNCHANGED <<s2c, bufWriter, responses, c2s, w>> /\ send = "will" /\ send' = "write" /\ sending' = sending
      /\ reqSent' = Append(reqSent, sending)
  BY DEF willSendReq, sender, server
<1>3. Held = Empty /\ Held' = One(sending) /\ sending \in Request /\ IsLine(One(sending))
      /\ reqSent' = Cat(reqSent, One(sending))
  BY <1>2, Lines, OneLaw, Zenon DEF Held
<1>4. IsLine(Cat(Cat(bufWriter, responses), Cat(c2s, w)))
  BY Lines, CatLaw
<1>5. Wire' = Cat(Wire, One(sending))
  BY <1>2, <1>3, <1>4, UnitLaw DEF Wire
<1>6. IsLine(Cat(rest, One(sending))) /\ reqSent' = Cat(s2c', Cat(rest, One(sending)))
  BY <1>1, <1>2, <1>3, Lines, CatLaw, AssocLaw
<1>7. Alive' => Cat(rest, One(sending)) = Wire'
  BY <1>1, <1>5, AliveStep
<1>8. QED
  BY <1>6, <1>7 DEF Flow

LEMMA FlowWrite ==
    ASSUME Flow, NetTypes, sendWrite, [Next]_vars
    PROVE  Flow'
<1>1. PICK rest : IsLine(rest) /\ reqSent = Cat(s2c, rest) /\ (Alive => rest = Wire)
  BY DEF Flow
<1>2. /\ UNCHANGED <<reqSent, s2c, bufWriter, responses>> /\ send = "write" /\ send' # "write"
  BY DEF sendWrite, server
<1>3. /\ Held = One(sending) /\ Held' = Empty /\ sending \in Request /\ IsLine(One(sending))
      /\ Append(w, sending) = Cat(w, One(sending))
  BY <1>2, Lines, OneLaw DEF Held
<1>4. Alive => \/ w' = Append(w, sending) /\ c2s' = c2s
               \/ w' = Empty /\ c2s' = Cat(c2s, Append(w, sending))
  BY Zenon DEF sendWrite, Alive, Empty, Cat
<1>5. Alive => Cat(c2s', w') = Cat(Cat(c2s, w), One(sending))
  BY <1>3, <1>4, Lines, CatLaw, AssocLaw, UnitLaw
<1>6. Alive => Wire' = Cat(Cat(Cat(bufWriter, responses), Cat(Cat(c2s, w), One(sending))), Empty)
  BY <1>2, <1>3, <1>5 DEF Wire
<1>7. Alive => Wire' = Wire
  BY <1>3, <1>6, Lines, CatLaw, AssocLaw, UnitLaw DEF Wire
<1>8. Alive' => rest = Wire'
  BY <1>1, <1>7, AliveStep
<1>9. QED
  BY <1>1, <1>2, <1>8 DEF Flow

LEMMA FlowRequests ==
    ASSUME Flow, NetTypes, handleRequests, [Next]_vars
    PROVE  Flow'
<1>1. PICK rest : IsLine(rest) /\ reqSent = Cat(s2c, rest) /\ (Alive => rest = Wire)
  BY DEF Flow
<1>2. /\ UNCHANGED <<reqSent, s2c, bufWriter, w, send, sending>> /\ c2s # Empty
      /\ responses' = Append(responses, Head(c2s)) /\ c2s' = Tail(c2s)
  BY DEF handleRequests, Empty
<1>3. Head(c2s) \in Request /\ IsLine(Tail(c2s)) /\ c2s = Cat(One(Head(c2s)), Tail(c2s))
  BY <1>2, Lines, HeadLaw
<1>4. PICK h, t : IsLine(h) /\ IsLine(t) /\ c2s = Cat(h, t) /\ c2s' = t /\ responses' = Cat(responses, h)
  BY <1>2, <1>3, Lines, OneLaw, Zenon
<1>5. Cat(Cat(bufWriter, responses'), Cat(c2s', w)) = Cat(Cat(bufWriter, responses), Cat(c2s, w))
  BY <1>4, Lines, CatLaw, AssocLaw
<1>6. Wire' = Wire
  BY <1>2, <1>5 DEF Wire, Held
<1>7. QED
  BY <1>1, <1>2, <1>6, AliveStep DEF Flow

LEMMA FlowResponses ==
    ASSUME Flow, NetTypes, handleResponses, [Next]_vars
    PROVE  Flow'
<1>1. PICK rest : IsLine(rest) /\ reqSent = Cat(s2c, rest) /\ (Alive => rest = Wire)
  BY DEF Flow
<1> DEFINE h == Head(responses)
<1>2. UNCHANGED <<reqSent, c2s, w, send, sending>> /\ responses # Empty /\ responses' = Tail(responses) /\ ~svrGone
  BY DEF handleResponses, Empty, sender
<1>a. \/ bufWriter' = Append(bufWriter, h) /\ s2c' = s2c
      \/ ~conn /\ s2c' = s2c
      \/ conn /\ bufWriter' = Empty /\ s2c' = Cat(s2c, Append(bufWriter, h))
  BY Zenon DEF handleResponses, Empty, Cat
<1> HIDE DEF h
<1>3. h \in Request /\ IsLine(Tail(responses)) /\ responses = Cat(One(h), Tail(responses))
  BY <1>2, Lines, HeadLaw DEF h
<1>4. IsLine(One(h)) /\ Append(bufWriter, h) = Cat(bufWriter, One(h))
  BY <1>3, Lines, OneLaw
<1>5. Held' = Held
  BY <1>2 DEF Held
<1>6. CASE bufWriter' = Append(bufWriter, h) /\ s2c' = s2c
  <2>1. Cat(bufWriter', responses') = Cat(bufWriter, responses)
    BY <1>2, <1>3, <1>4, <1>6, Lines, AssocLaw
  <2>2. Wire' = Wire
    BY <1>2, <1>5, <2>1 DEF Wire
  <2>3. QED
    BY <1>1, <1>2, <1>6, <2>2, AliveStep DEF Flow
<1>7. CASE ~conn /\ s2c' = s2c
  <2>1. ~Alive'
    BY <1>7, AliveStep DEF Alive
  <2>2. QED
    BY <1>1, <1>2, <1>7, <2>1 DEF Flow
<1>8. CASE conn /\ bufWriter' = Empty /\ s2c' = Cat(s2c, Append(bufWriter, h))
  <2>1. rest = Wire
    BY <1>1, <1>2, <1>8 DEF Alive
  <2>2. IsLine(Held)
    BY Lines, OneLaw, EmptyLaw DEF Held
  <2>3. IsLine(Wire') /\ Wire' = Cat(Cat(Tail(responses), Cat(c2s, w)), Held)
    BY <1>2, <1>3, <1>5, <1>8, <2>2, Lines, CatLaw, UnitLaw DEF Wire
  <2>4. Wire = Cat(Cat(bufWriter, One(h)), Wire')
    BY <1>3, <1>4, <2>2, <2>3, Lines, CatLaw, AssocLaw DEF Wire
  <2>5. reqSent' = Cat(s2c', Wire')
    BY <1>1, <1>2, <1>4, <1>8, <2>1, <2>3, <2>4, Lines, CatLaw, AssocLaw
  <2>6. QED
    BY <2>3, <2>5 DEF Flow
<1>9. QED
  BY <1>a, <1>6, <1>7, <1>8

\* The receive routine finds the response to the first request it waits for.
LEMMA Expected ==
    ASSUME Flow, NetTypes, s2c # <<>>
    PROVE  reqSent # <<>> /\ Head(reqSent) = Head(s2c)
<1>1. PICK rest : IsLine(rest) /\ reqSent = Cat(s2c, rest)
  BY DEF Flow
<1>2. QED
  BY <1>1, Lines, TailLaw DEF Empty

LEMMA FlowReceive ==
    ASSUME Flow, NetTypes, didRecvResponse, [Next]_vars
    PROVE  Flow'
<1>1. PICK rest : IsLine(rest) /\ reqSent = Cat(s2c, rest) /\ (Alive => rest = Wire)
  BY DEF Flow
<1>2. s2c # <<>> /\ s2c' = Tail(s2c) /\ UNCHANGED <<send, sending, w, c2s, responses, bufWriter>>
  BY DEF didRecvResponse, sender
<1>3. reqSent' = Tail(reqSent)
  BY <1>2, Expected DEF didRecvResponse, resMatchesReq
<1>4. reqSent' = Cat(s2c', rest)
  BY <1>1, <1>2, <1>3, Lines, TailLaw DEF Empty
<1>5. Wire' = Wire
  BY <1>2 DEF Wire, Held
<1>6. QED
  BY <1>1, <1>4, <1>5, AliveStep DEF Flow

LEMMA FlowStep ==
    ASSUME Flow, NetTypes, [Next]_vars
    PROVE  Flow'
<1> USE DEF sender, server
<1>1. CASE Quiet
  BY <1>1, QuietFrame, FlowStill DEF Held
<1>2. ASSUME NEW t \in Callers, queueRequest(t) PROVE Flow'
  BY <1>2, FlowStill DEF queueRequest, Held
<1>3. ASSUME NEW x \in Stoppers, flushQueue(x) PROVE Flow'
  BY <1>3, FlowStill DEF flushQueue, Held
<1>4. CASE fireRoutine \/ sendAutoFlush \/ sendQuit \/ sendTake
  <2>1. UNCHANGED <<reqSent, s2c, bufWriter, responses, c2s, w>>
    BY <1>4, Zenon DEF fireRoutine, sendAutoFlush, sendQuit, sendTake
  <2>2. Held' = Held
    <3>1. CASE fireRoutine
      BY <3>1 DEF fireRoutine, Held
    <3>2. CASE sendAutoFlush \/ sendQuit \/ sendTake
      BY <3>2 DEF sendAutoFlush, sendQuit, sendTake, Held
    <3>3. QED
      BY <1>4, <3>1, <3>2
  <2>3. QED
    BY <2>1, <2>2, FlowStill
<1>5. QED
  BY <1>1, <1>2, <1>3, <1>4, FlowWill, FlowWrite, FlowRequests, FlowResponses, FlowReceive, Moves, Zenon
     DEF Sender

\* The answer goes to the request it is for.
LEMMA CorrelatedStep ==
    ASSUME Correlated, Flow, NetTypes, ResTypes, [Next]_vars
    PROVE  Correlated'
<1>1. CASE UNCHANGED response
  BY <1>1 DEF Correlated
<1>2. CASE didRecvResponse
  <2>1. s2c # <<>>
    BY <1>2 DEF didRecvResponse
  <2>2. response' = [q \in Reqs |-> IF q = Head(reqSent) THEN Head(s2c) ELSE response[q]]
    BY <1>2, <2>1, Expected DEF didRecvResponse, resMatchesReq
  <2>3. QED
    BY <2>1, <2>2, Expected DEF Correlated
<1>3. ASSUME NEW x \in Stoppers, flushQueue(x) PROVE UNCHANGED response
  BY <1>3 DEF flushQueue
<1>4. QED
  BY <1>1, <1>2, <1>3, ResFrame, Zenon

-----------------------------------------------------------------------------
(* A request is released once, and after those ahead of it *)

Mid == IF send = "will" THEN One(sending) ELSE Empty

\* The requests that wait for an answer, in the order they were queued.
Line == Cat(reqSent, Cat(Mid, reqQueue))

LEMMA LineTypes ==
    ASSUME NetTypes
    PROVE  IsLine(Mid) /\ IsLine(Cat(Mid, reqQueue)) /\ IsLine(Line)
<1>1. IsLine(Mid)
  BY Lines, OneLaw, EmptyLaw DEF Mid
<1>2. QED
  BY <1>1, Lines, CatLaw DEF Line

\* Nothing joins or leaves the line.
LEMMA LineStill ==
    ASSUME NetTypes,
           \/ Quiet \/ fireRoutine \/ sendQuit \/ sendTake \/ willSendReq \/ sendWrite
           \/ handleRequests \/ handleResponses
    PROVE  Line' = Line
<1> USE DEF sender, server
<1>1. CASE Quiet
  BY <1>1, QuietFrame DEF Line, Mid
<1>2. CASE fireRoutine
  BY <1>2 DEF fireRoutine, Line, Mid
<1>3. CASE sendQuit \/ sendWrite
  BY <1>3 DEF sendQuit, sendWrite, Line, Mid
<1>4. CASE sendTake
  <2>1. /\ reqQueue # Empty /\ reqSent' = reqSent /\ reqQueue' = Tail(reqQueue) /\ send = "select" /\ send' = "will"
        /\ sending' = Head(reqQueue)
    BY <1>4 DEF sendTake, Empty
  <2>2. Mid = Empty /\ Mid' = One(Head(reqQueue))
    BY <2>1 DEF Mid
  <2>3. Cat(Mid, reqQueue) = reqQueue /\ Cat(Mid', reqQueue') = reqQueue
    BY <2>1, <2>2, Lines, HeadLaw, UnitLaw
  <2>4. QED
    BY <2>1, <2>3 DEF Line
<1>5. CASE willSendReq
  <2>1. reqQueue' = reqQueue /\ reqSent' = Append(reqSent, sending) /\ send = "will" /\ send' = "write"
    BY <1>5 DEF willSendReq
  <2>2. Mid = One(sending) /\ Mid' = Empty /\ IsLine(Mid) /\ reqSent' = Cat(reqSent, Mid)
    BY <2>1, Lines, OneLaw DEF Mid
  <2>3. Line = Cat(Cat(reqSent, Mid), reqQueue)
    BY <2>2, Lines, AssocLaw DEF Line
  <2>4. QED
    BY <2>1, <2>2, <2>3, Lines, UnitLaw DEF Line
<1>6. CASE handleRequests \/ handleResponses
  BY <1>6 DEF handleRequests, handleResponses, Line, Mid
<1>7. QED
  BY <1>1, <1>2, <1>3, <1>4, <1>5, <1>6

\* A request joins at the end.
LEMMA LineQueue ==
    ASSUME NetTypes, NEW r \in Request, reqQueue' = Append(reqQueue, r), reqSent' = reqSent, Mid' = Mid
    PROVE  Line' = Cat(Line, One(r)) /\ IsLine(One(r))
<1>1. reqQueue' = Cat(reqQueue, One(r)) /\ IsLine(One(r))
  BY Lines, OneLaw
<1>2. Line' = Cat(reqSent, Cat(Mid, Cat(reqQueue, One(r))))
  BY <1>1 DEF Line
<1>3. QED
  BY <1>1, <1>2, Lines, LineTypes, CatLaw, AssocLaw DEF Line

\* The receive routine takes the first.
LEMMA LineReceive ==
    ASSUME NetTypes, Flow, didRecvResponse
    PROVE  /\ reqSent # <<>> /\ Head(reqSent) = Head(s2c) /\ Head(reqSent) \in Request /\ reqSent' = Tail(reqSent)
           /\ IsLine(One(Head(reqSent))) /\ IsLine(Line') /\ Line = Cat(One(Head(reqSent)), Line')
           /\ doneCount' = [q \in Reqs |-> IF q = Head(reqSent) THEN doneCount[q] + 1 ELSE doneCount[q]]
           /\ response' = [q \in Reqs |-> IF q = Head(reqSent) THEN Head(s2c) ELSE response[q]]
<1>1. s2c # <<>> /\ UNCHANGED <<reqQueue, send, sending>>
  BY DEF didRecvResponse, sender
<1>2. reqSent # <<>> /\ Head(reqSent) = Head(s2c)
  BY <1>1, Expected
<1>3. /\ reqSent' = Tail(reqSent)
      /\ doneCount' = [q \in Reqs |-> IF q = Head(reqSent) THEN doneCount[q] + 1 ELSE doneCount[q]]
      /\ response' = [q \in Reqs |-> IF q = Head(reqSent) THEN Head(s2c) ELSE response[q]]
  BY <1>2 DEF didRecvResponse, resMatchesReq
<1>4. Head(reqSent) \in Request /\ IsLine(Tail(reqSent)) /\ reqSent = Cat(One(Head(reqSent)), Tail(reqSent))
  BY <1>2, Lines, HeadLaw DEF Empty
<1>5. PICK h, t : h = One(Head(reqSent)) /\ IsLine(h) /\ t = Tail(reqSent) /\ IsLine(t) /\ reqSent = Cat(h, t)
  BY <1>4, Lines, OneLaw, Zenon
<1>6. PICK m : m = Cat(Mid, reqQueue) /\ IsLine(m)
  BY LineTypes
<1>7. Line' = Cat(t, m) /\ Line = Cat(Cat(h, t), m)
  BY <1>1, <1>3, <1>5, <1>6 DEF Line, Mid
<1>8. IsLine(Line') /\ Line = Cat(h, Line')
  <2>1. IsLine(h) /\ IsLine(t) /\ IsLine(m)
    BY <1>5, <1>6
  <2>2. IsLine(Cat(t, m)) /\ Cat(Cat(h, t), m) = Cat(h, Cat(t, m))
    BY <2>1, CatLaw, AssocLaw
  <2>3. QED
    BY <1>7, <2>2, Zenon
<1>9. QED
  BY <1>2, <1>3, <1>4, <1>5, <1>8, Zenon

\* flushQueue takes the first that was not taken for sending.
LEMMA LineFlush ==
    ASSUME NetTypes, NEW x \in Stoppers, flushQueue(x), reqQueue # <<>>
    PROVE  /\ doneCount' = [r \in Reqs |-> IF r = Head(reqQueue) THEN doneCount[r] + 1 ELSE doneCount[r]]
           /\ Head(reqQueue) \in Request
           /\ \E a, b : /\ IsLine(a) /\ IsLine(b) /\ IsLine(One(Head(reqQueue)))
                        /\ Line = Cat(a, Cat(One(Head(reqQueue)), b)) /\ Line' = Cat(a, b)
<1>1. /\ doneCount' = [r \in Reqs |-> IF r = Head(reqQueue) THEN doneCount[r] + 1 ELSE doneCount[r]]
      /\ reqQueue' = Tail(reqQueue) /\ UNCHANGED <<reqSent, send, sending>>
  BY DEF flushQueue, sender
<1>2. Head(reqQueue) \in Request /\ IsLine(Tail(reqQueue)) /\ reqQueue = Cat(One(Head(reqQueue)), Tail(reqQueue))
  BY Lines, HeadLaw DEF Empty
<1>3. PICK h, t : h = One(Head(reqQueue)) /\ IsLine(h) /\ t = Tail(reqQueue) /\ IsLine(t) /\ reqQueue = Cat(h, t)
  BY <1>2, Lines, OneLaw, Zenon
<1>4. PICK u, m : u = reqSent /\ IsLine(u) /\ m = Mid /\ IsLine(m)
  BY Lines, LineTypes
<1>5. Line' = Cat(u, Cat(m, t)) /\ Line = Cat(u, Cat(m, Cat(h, t)))
  BY <1>1, <1>3, <1>4 DEF Line, Mid
<1>6. IsLine(Cat(u, m)) /\ Line' = Cat(Cat(u, m), t) /\ Line = Cat(Cat(u, m), Cat(h, t))
  <2>1. IsLine(u) /\ IsLine(m) /\ IsLine(h) /\ IsLine(t)
    BY <1>3, <1>4
  <2>2. IsLine(Cat(u, m)) /\ IsLine(Cat(h, t)) /\ Cat(Cat(u, m), t) = Cat(u, Cat(m, t))
    BY <2>1, CatLaw, AssocLaw
  <2>3. Cat(Cat(u, m), Cat(h, t)) = Cat(u, Cat(m, Cat(h, t)))
    BY <2>1, <2>2, AssocLaw
  <2>4. QED
    BY <1>5, <2>2, <2>3, Zenon
<1>7. QED
  BY <1>1, <1>2, <1>3, <1>6, Zenon

\* What becomes of the line and of the releases in a step.
Kept == Line' = Line /\ doneCount' = doneCount
Joins(r) == Line' = Cat(Line, One(r)) /\ IsLine(One(r)) /\ doneCount' = doneCount
Leaves(h) ==
    /\ \E a, b : IsLine(a) /\ IsLine(b) /\ IsLine(One(h)) /\ Line = Cat(a, Cat(One(h), b)) /\ Line' = Cat(a, b)
    /\ doneCount' = [r \in Reqs |-> IF r = h THEN doneCount[r] + 1 ELSE doneCount[r]]

LEMMA LineMoves ==
    ASSUME NetTypes, CallerTypes, Flow, [Next]_vars
    PROVE  /\ \A t \in Callers : queueRequest(t) => Joins(req[t])
           /\ \/ Kept
              \/ \E t \in Callers : queueRequest(t)
              \/ sendAutoFlush /\ Joins(AutoFlush)
              \/ didRecvResponse /\ Leaves(Head(reqSent))
              \/ \E x \in Stoppers : flushQueue(x) /\ reqQueue # <<>> /\ Leaves(Head(reqQueue))
<1>1. ASSUME \/ Quiet \/ fireRoutine \/ sendQuit \/ sendTake \/ willSendReq \/ sendWrite
             \/ handleRequests \/ handleResponses
      PROVE  Kept
  <2>1. Line' = Line
    BY <1>1, LineStill
  <2>2. doneCount' = doneCount
    BY <1>1, QuietFrame, Zenon
       DEF fireRoutine, sendQuit, sendTake, willSendReq, sendWrite, handleRequests, handleResponses, reqres
  <2>3. QED
    BY <2>1, <2>2 DEF Kept
<1>2. ASSUME NEW t \in Callers, queueRequest(t) PROVE Joins(req[t])
  <2>1. /\ reqQueue' = Append(reqQueue, req[t]) /\ reqSent' = reqSent /\ Mid' = Mid /\ doneCount' = doneCount
    BY <1>2 DEF queueRequest, sender, reqres, Mid
  <2>2. req[t] \in Request
    BY <1>2, Zenon DEF CallerTypes, queueRequest, Request
  <2>3. QED
    BY <2>1, <2>2, LineQueue DEF Joins
<1>3. ASSUME sendAutoFlush PROVE Kept \/ Joins(AutoFlush)
  <2>1. reqSent' = reqSent /\ Mid' = Mid /\ doneCount' = doneCount
    BY <1>3 DEF sendAutoFlush, reqres, Mid
  <2>2. CASE reqQueue' = Append(reqQueue, AutoFlush)
    BY <1>3, <2>1, <2>2, LineQueue, Zenon DEF Joins, Request
  <2>3. CASE reqQueue' = reqQueue
    BY <2>1, <2>3 DEF Kept, Line
  <2>4. reqQueue' = Append(reqQueue, AutoFlush) \/ reqQueue' = reqQueue
    BY <1>3, Zenon DEF sendAutoFlush
  <2>5. QED
    BY <2>2, <2>3, <2>4
<1>4. ASSUME didRecvResponse PROVE Leaves(Head(reqSent))
  <2>1. PICK h : h = Head(reqSent) /\ IsLine(One(h)) /\ IsLine(Line') /\ Line = Cat(One(h), Line')
                 /\ doneCount' = [r \in Reqs |-> IF r = h THEN doneCount[r] + 1 ELSE doneCount[r]]
    BY <1>4, LineReceive
  <2>2. IsLine(Empty) /\ Line' = Cat(Empty, Line') /\ Cat(One(h), Line') = Cat(Empty, Cat(One(h), Line'))
    BY <2>1, EmptyLaw, UnitLaw, CatLaw
  <2>3. QED
    BY <1>4, <2>1, <2>2, Zenon DEF Leaves
<1>5. ASSUME NEW x \in Stoppers, flushQueue(x) PROVE Kept \/ (reqQueue # <<>> /\ Leaves(Head(reqQueue)))
  <2>1. CASE reqQueue # <<>>
    BY <1>5, <2>1, LineFlush DEF Leaves
  <2>2. CASE reqQueue = <<>>
    BY <1>5, <2>2 DEF flushQueue, sender, Kept, Line, Mid
  <2>3. QED
    BY <2>1, <2>2
<1>6. QED
  BY <1>1, <1>2, <1>3, <1>4, <1>5, Moves, Zenon DEF Sender

\* Joining at the end of a line, and leaving it.
LEMMA Joined ==
    ASSUME NetTypes, NEW r, Joins(r), Distinct(Line), r = AutoFlush \/ ~In(Line, r)
    PROVE  /\ Distinct(Line')
           /\ \A q : In(Line', q) <=> In(Line, q) \/ q = r
           /\ \A p, q : p # q /\ p # r /\ Before(Line, p, q) => Before(Line', p, q)
<1>1. PICK l, e : l = Line /\ IsLine(l) /\ e = One(r) /\ IsLine(e) /\ Line' = Cat(l, e)
  BY LineTypes DEF Joins
<1>2. Distinct(e) /\ \A q : In(e, q) <=> q = r
  BY <1>1, SmallLaw
<1>3. \A q : In(Cat(l, e), q) <=> In(l, q) \/ q = r
  BY <1>1, <1>2, InLaw
<1>4. Distinct(Cat(l, e))
  BY <1>1, <1>2, DistinctLaw, Zenon
<1>5. ASSUME NEW p, NEW q, p # q, p # r, Before(l, p, q) PROVE Before(Cat(l, e), p, q)
  <2>1. Before(e, p, q)
    BY <1>1, <1>5, SmallLaw
  <2>2. QED
    BY <1>1, <1>2, <1>5, <2>1, BeforeLaw
<1>6. QED
  BY <1>1, <1>3, <1>4, <1>5

LEMMA Left ==
    ASSUME NEW h, Leaves(h), Distinct(Line)
    PROVE  /\ Distinct(Line')
           /\ In(Line, h) /\ (h # AutoFlush => ~In(Line', h))
           /\ \A q : q # h => (In(Line', q) <=> In(Line, q))
           /\ \A p, q : p # q /\ Before(Line, p, q) => Before(Line', p, q)
<1>1. PICK a, b, e : /\ IsLine(a) /\ IsLine(b) /\ e = One(h) /\ IsLine(e)
                     /\ Line = Cat(a, Cat(e, b)) /\ Line' = Cat(a, b)
  BY DEF Leaves
<1>2. IsLine(Cat(e, b)) /\ Distinct(Cat(a, Cat(e, b)))
  BY <1>1, CatLaw
<1>3. \A q : In(e, q) <=> q = h
  BY <1>1, SmallLaw
<1>4. \A q : /\ In(Cat(a, b), q) <=> In(a, q) \/ In(b, q)
             /\ In(Cat(e, b), q) <=> q = h \/ In(b, q)
             /\ In(Cat(a, Cat(e, b)), q) <=> In(a, q) \/ q = h \/ In(b, q)
  BY <1>1, <1>2, <1>3, InLaw
<1>5. /\ Distinct(a) /\ Distinct(b)
      /\ \A q : In(a, q) /\ In(Cat(e, b), q) => q = AutoFlush
      /\ \A q : In(e, q) /\ In(b, q) => q = AutoFlush
  BY <1>1, <1>2, DistinctLaw, Zenon
<1>6. Distinct(Cat(a, b))
  BY <1>1, <1>4, <1>5, DistinctLaw, Zenon
<1>7. ASSUME NEW p, NEW q, Before(Cat(a, Cat(e, b)), p, q) PROVE Before(Cat(a, b), p, q)
  BY <1>1, <1>2, <1>4, <1>7, BeforeLaw
<1>8. QED
  BY <1>1, <1>3, <1>4, <1>5, <1>6, <1>7, Zenon

\* A count of 0 is a request that was not released.
LEMMA NotYet == \A n : n = 0 => ~(n > 0)
OBVIOUS

\* A request object is new when a method makes it.
LEMMA Fresh ==
    ASSUME NetTypes, ResTypes, NEW r \in Reqs, r \notin Used
    PROVE  /\ ~In(Line, r) /\ doneCount[r] = 0
           /\ \A t \in Callers : req[t] # r /\ tx[t] # r
<1>1. doneCount[r] = 0 /\ \A t \in Callers : req[t] # r /\ tx[t] # r
  BY DEF Used, ResTypes
<1>2. ASSUME NEW s, IsLine(s), r \notin Range(s) PROVE ~In(s, r)
  BY <1>2, LenProperties DEF IsLine, In, Range
<1>3. ~In(reqQueue, r) /\ ~In(reqSent, r) /\ r # sending
  BY <1>2, Lines DEF Used
<1>4. ~In(Mid, r)
  BY <1>3, SmallLaw DEF Mid
<1>5. ~In(Cat(Mid, reqQueue), r)
  BY <1>3, <1>4, Lines, LineTypes, InLaw
<1>6. QED
  BY <1>1, <1>3, <1>5, Lines, LineTypes, InLaw DEF Line

\* A caller's step makes a request or keeps the one at hand.
LEMMA CallerKind ==
    ASSUME CallerTypes, NEW t \in Callers, CallerMove(t) \/ queueRequest(t)
    PROVE  \/ \E r \in Reqs : r \notin Used /\ Queue(t, r)
           \/ /\ req' = req /\ pc'[t] # "queue"
              /\ \A u \in Callers : u # t => pc'[u] = pc[u]
<1>1. CASE Async(t) \/ Sync(t) \/ FlushSync(t)
  BY <1>1, Zenon DEF Async, Sync, FlushSync, Unused, Reqs
<1>2. CASE SetCallback(t)
  BY <1>2, Zenon DEF SetCallback, caller
<1>3. CASE queueRequestTimer(t) \/ FlushSyncError(t) \/ FlushSyncWait(t) \/ Return(t) \/ queueRequest(t)
  <2>1. req' = req /\ \E p \in {"timer", "idle", "flush", "error", "wait", "return"} : pc' = [pc EXCEPT ![t] = p]
    BY <1>3 DEF queueRequestTimer, FlushSyncError, FlushSyncWait, Return, queueRequest
  <2>2. QED
    BY <2>1 DEF CallerTypes
<1>4. QED
  BY <1>1, <1>2, <1>3, Zenon DEF CallerMove

\* The line holds a request once, and none that was released or is still to
\* be queued; each request is of one caller.
Once ==
    /\ Distinct(Line)
    /\ \A r \in Reqs : doneCount[r] <= 1 /\ (doneCount[r] > 0 => ~In(Line, r))
    /\ \A t \in Callers : pc[t] = "queue" => ~In(Line, req[t]) /\ doneCount[req[t]] = 0
    /\ \A t, u \in Callers : req[t] = req[u] /\ req[t] # Nil => t = u

LEMMA OnceKept ==
    ASSUME Once, NetTypes, ResTypes, CallerTypes, Kept, [Next]_vars, ~\E t \in Callers : queueRequest(t)
    PROVE  Once'
<1>1. /\ Distinct(Line')
      /\ \A r \in Reqs : doneCount'[r] <= 1 /\ (doneCount'[r] > 0 => ~In(Line', r))
  BY DEF Once, Kept
<1>2. CASE UNCHANGED <<pc, req, tx, cbSet>>
  BY <1>1, <1>2 DEF Once, Kept
<1>3. ASSUME NEW t \in Callers, NEW r \in Reqs, r \notin Used, Queue(t, r) PROVE Once'
  <2>1. ~In(Line', r) /\ doneCount'[r] = 0 /\ \A u \in Callers : req[u] # r
    BY <1>3, Fresh, Zenon DEF Kept
  <2>2. /\ pc'[t] = "queue" /\ req'[t] = r
        /\ \A u \in Callers : u # t => pc'[u] = pc[u] /\ req'[u] = req[u]
    BY <1>3 DEF Queue, CallerTypes
  <2>3. \A u \in Callers : pc'[u] = "queue" => ~In(Line', req'[u]) /\ doneCount'[req'[u]] = 0
    BY <2>1, <2>2, Zenon DEF Once, Kept
  <2>4. ASSUME NEW u \in Callers, NEW v \in Callers, req'[u] = req'[v], req'[u] # Nil PROVE u = v
    <3>1. CASE u = t \/ v = t
      BY <2>1, <2>2, <2>4, <3>1, Zenon
    <3>2. CASE u # t /\ v # t
      BY <2>2, <2>4, <3>2, Zenon DEF Once
    <3>3. QED
      BY <3>1, <3>2, Zenon
  <2>5. QED
    BY <1>1, <2>3, <2>4, Zenon DEF Once
<1>4. ASSUME NEW t \in Callers, req' = req, pc'[t] # "queue", \A u \in Callers : u # t => pc'[u] = pc[u] PROVE Once'
  BY <1>1, <1>4, ZenonT(30) DEF Once, Kept
<1>5. QED
  BY <1>2, <1>3, <1>4, CallerFrame, CallerKind

LEMMA OnceStep ==
    ASSUME Once, NetTypes, ResTypes, CallerTypes, Flow, [Next]_vars
    PROVE  Once'
<1>1. ASSUME NEW t \in Callers, queueRequest(t), Joins(req[t]) PROVE Once'
  <2>1. /\ pc[t] = "queue" /\ req[t] \in Reqs /\ req' = req /\ pc'[t] # "queue"
        /\ \A u \in Callers : u # t => pc'[u] = pc[u]
    BY <1>1 DEF queueRequest, CallerTypes
  <2>2. ~In(Line, req[t]) /\ doneCount[req[t]] = 0 /\ Distinct(Line) /\ req[t] # Nil
    BY <2>1, Names DEF Once
  <2>3. Distinct(Line') /\ (\A q : In(Line', q) <=> In(Line, q) \/ q = req[t]) /\ doneCount' = doneCount
    BY <1>1, <2>2, Joined, Zenon DEF Joins
  <2>4. \A r \in Reqs : doneCount'[r] <= 1 /\ (doneCount'[r] > 0 => ~In(Line', r))
    BY <2>2, <2>3 DEF Once, ResTypes
  <2>5. \A u \in Callers : pc'[u] = "queue" => ~In(Line', req'[u]) /\ doneCount'[req'[u]] = 0
    BY <2>1, <2>2, <2>3 DEF Once
  <2>6. \A u, v \in Callers : req'[u] = req'[v] /\ req'[u] # Nil => u = v
    BY <2>1, Zenon DEF Once
  <2>7. QED
    BY <2>3, <2>4, <2>5, <2>6, Zenon DEF Once
<1>2. CASE sendAutoFlush /\ Joins(AutoFlush)
  <2>1. UNCHANGED <<pc, req>> /\ doneCount' = doneCount
    BY <1>2 DEF sendAutoFlush, caller, reqres
  <2>2. Distinct(Line') /\ \A q : In(Line', q) <=> In(Line, q) \/ q = AutoFlush
    BY <1>2, Joined, Zenon DEF Once
  <2>3. AutoFlush \notin Reqs
    BY Names
  <2>4. QED
    BY <2>1, <2>2, <2>3, Zenon DEF Once, CallerTypes
<1>3. ASSUME NEW h \in Request, Leaves(h), UNCHANGED <<pc, req>> PROVE Once'
  <2>1. /\ Distinct(Line') /\ In(Line, h) /\ (h # AutoFlush => ~In(Line', h))
        /\ \A q : q # h => (In(Line', q) <=> In(Line, q))
    BY <1>3, Left, Zenon DEF Once
  <2>2. \A r \in Reqs : doneCount'[r] = IF r = h THEN doneCount[r] + 1 ELSE doneCount[r]
    BY <1>3 DEF Leaves
  <2>3. AutoFlush \notin Reqs
    BY Names
  <2>4. ASSUME NEW r \in Reqs PROVE doneCount'[r] <= 1 /\ (doneCount'[r] > 0 => ~In(Line', r))
    <3>1. doneCount[r] \in Nat /\ doneCount[r] <= 1 /\ (doneCount[r] > 0 => ~In(Line, r)) /\ r # AutoFlush
      BY <2>3 DEF Once, ResTypes
    <3>2. CASE r = h
      <4>1. doneCount[r] = 0 /\ doneCount'[r] = doneCount[r] + 1
        BY <2>1, <2>2, <3>1, <3>2
      <4>2. ~In(Line', r)
        BY <2>1, <3>1, <3>2, Zenon
      <4>3. QED
        BY <4>1, <4>2
    <3>3. CASE r # h
      <4>1. doneCount'[r] = doneCount[r] /\ (In(Line', r) <=> In(Line, r))
        BY <2>1, <2>2, <3>3, Zenon
      <4>2. QED
        BY <3>1, <4>1
    <3>4. QED
      BY <3>2, <3>3
  <2>5. \A u \in Callers : pc'[u] = "queue" => ~In(Line', req'[u]) /\ doneCount'[req'[u]] = 0
    BY <1>3, <2>1, <2>2 DEF Once, CallerTypes
  <2>6. QED
    BY <1>3, <2>1, <2>4, <2>5 DEF Once
<1>4. CASE Kept
  BY <1>1, <1>4, LineMoves, OnceKept
<1>5. QED
  <2>1. didRecvResponse => UNCHANGED <<pc, req>> /\ Head(reqSent) \in Request
    BY LineReceive DEF didRecvResponse, caller
  <2>2. ASSUME NEW x \in Stoppers, flushQueue(x), reqQueue # <<>>, Leaves(Head(reqQueue)) PROVE Once'
    <3>1. Head(reqQueue) \in Request
      BY <2>2, Lines, HeadLaw DEF Empty
    <3>2. UNCHANGED <<pc, req>>
      BY <2>2 DEF flushQueue, caller
    <3>3. QED
      BY <1>3, <2>2, <3>1, <3>2
  <2>3. QED
    BY <1>1, <1>2, <1>3, <1>4, <2>1, <2>2, LineMoves, Zenon

-----------------------------------------------------------------------------
(* The Sync methods *)

\* Where a caller is in its method, and what it holds there.
MethodOf(t) ==
    /\ pc[t] = "idle" => tx[t] = Nil
    /\ pc[t] = "flush" => tx[t] # Nil /\ req[t] = tx[t]
    /\ pc[t] \in {"queue", "timer"} => req[t] \in Reqs /\ (req[t] \in Txs /\ tx[t] # Nil => req[t] = tx[t])
    /\ pc[t] \in {"error", "wait", "return"} => req[t] \in Flushes
    /\ pc[t] = "return" => err \/ doneCount[req[t]] > 0
    /\ tx[t] # Nil /\ req[t] # tx[t] => req[t] \in Flushes

Method == \A t \in Callers : MethodOf(t)

LEMMA DoneGrows ==
    ASSUME ResTypes, [Next]_vars
    PROVE  \A r \in Reqs : doneCount[r] > 0 => doneCount'[r] > 0
<1>1. \/ UNCHANGED doneCount
      \/ \E h : doneCount' = [q \in Reqs |-> IF q = h THEN doneCount[q] + 1 ELSE doneCount[q]]
  BY ResFrame, Zenon DEF didRecvResponse, flushQueue
<1>2. QED
  BY <1>1 DEF ResTypes

LEMMA MethodStep ==
    ASSUME Method, CallerTypes, ResTypes, FlagTypes, Stops, [Next]_vars
    PROVE  Method'
<1>1. (err => err') /\ \A r \in Reqs : doneCount[r] > 0 => doneCount'[r] > 0
  BY StopStep, DoneGrows
<1>2. Flushes \subseteq Reqs /\ Txs \subseteq Reqs /\ Txs \cap Flushes = {} /\ Nil \notin Txs
  BY Names
<1>3. ASSUME NEW u \in Callers, pc'[u] = pc[u], req'[u] = req[u], tx'[u] = tx[u] PROVE MethodOf(u)'
  <2>1. MethodOf(u)
    BY DEF Method
  <2>2. QED
    BY <1>1, <1>2, <1>3, <2>1, Zenon DEF MethodOf
<1>4. ASSUME NEW t \in Callers, CallerMove(t) \/ queueRequest(t) PROVE Method'
  <2>1. \A u \in Callers : u # t => pc'[u] = pc[u] /\ req'[u] = req[u] /\ tx'[u] = tx[u]
    BY <1>4, Zenon
       DEF CallerMove, queueRequest, Async, Sync, FlushSync, Queue, queueRequestTimer, FlushSyncError,
           FlushSyncWait, Return, SetCallback, caller, CallerTypes
  <2>2. MethodOf(t) /\ tx[t] \in Txs \cup {Nil} /\ t \in DOMAIN pc /\ t \in DOMAIN req /\ t \in DOMAIN tx
    BY DEF Method, CallerTypes
  <2>3. ASSUME Async(t) PROVE MethodOf(t)'
    <3>1. PICK r \in Txs : pc'[t] = "queue" /\ req'[t] = r /\ tx'[t] = Nil
      BY <2>2, <2>3 DEF Async, Unused, Queue, MethodOf
    <3>2. QED
      BY <1>2, <3>1 DEF MethodOf
  <2>4. ASSUME Sync(t) PROVE MethodOf(t)'
    <3>1. PICK r \in Txs : pc'[t] = "queue" /\ req'[t] = r /\ tx'[t] = r
      BY <2>2, <2>4 DEF Sync, Unused, Queue
    <3>2. QED
      BY <1>2, <3>1, Zenon DEF MethodOf
  <2>5. ASSUME FlushSync(t) PROVE MethodOf(t)'
    <3>1. PICK r \in Flushes : pc'[t] = "queue" /\ req'[t] = r /\ tx'[t] = tx[t]
      BY <2>2, <2>5 DEF FlushSync, Unused, Queue
    <3>2. r \in Reqs /\ r \notin Txs
      BY <1>2
    <3>3. QED
      BY <3>1, <3>2, Zenon DEF MethodOf
  <2>6. ASSUME queueRequest(t) PROVE MethodOf(t)'
    <3>1. pc[t] = "queue" /\ pc'[t] = "timer" /\ req'[t] = req[t] /\ tx'[t] = tx[t]
      BY <2>2, <2>6 DEF queueRequest
    <3>2. QED
      BY <2>2, <3>1 DEF MethodOf
  <2>7. ASSUME queueRequestTimer(t) PROVE MethodOf(t)'
    <3>1. /\ pc[t] = "timer" /\ req'[t] = req[t] /\ tx'[t] = tx[t]
          /\ pc'[t] = IF req[t] \in Flushes THEN "error" ELSE IF tx[t] # Nil THEN "flush" ELSE "idle"
      BY <2>2, <2>7 DEF queueRequestTimer
    <3>2. req[t] \notin Flushes => req[t] \in Txs
      BY <2>2, <3>1 DEF MethodOf, Reqs
    <3>3. QED
      BY <2>2, <3>1, <3>2 DEF MethodOf
  <2>8. ASSUME FlushSyncError(t) PROVE MethodOf(t)'
    <3>1. /\ pc[t] = "error" /\ req'[t] = req[t] /\ tx'[t] = tx[t]
          /\ pc'[t] = IF err THEN "return" ELSE "wait"
      BY <2>2, <2>8 DEF FlushSyncError
    <3>2. QED
      BY <1>1, <2>2, <3>1 DEF MethodOf
  <2>9. ASSUME FlushSyncWait(t) PROVE MethodOf(t)'
    <3>1. pc[t] = "wait" /\ req'[t] = req[t] /\ tx'[t] = tx[t] /\ pc'[t] = "return" /\ doneCount[req[t]] > 0
      BY <2>2, <2>9 DEF FlushSyncWait
    <3>2. QED
      BY <1>1, <1>2, <2>2, <3>1 DEF MethodOf
  <2>10. ASSUME Return(t) PROVE MethodOf(t)'
    <3>1. pc[t] = "return" /\ req'[t] = req[t] /\ tx'[t] = Nil /\ pc'[t] = "idle"
      BY <2>2, <2>10 DEF Return
    <3>2. QED
      BY <2>2, <3>1 DEF MethodOf
  <2>11. ASSUME SetCallback(t) PROVE MethodOf(t)'
    BY <1>3, <2>11, Zenon DEF SetCallback, caller
  <2>12. QED
    <3>1. MethodOf(t)'
      BY <1>4, <2>3, <2>4, <2>5, <2>6, <2>7, <2>8, <2>9, <2>10, <2>11 DEF CallerMove
    <3>2. QED
      BY <1>3, <2>1, <3>1, Zenon DEF Method
<1>5. QED
  BY <1>3, <1>4, CallerFrame, Zenon DEF Method

\* A Sync method's own request is queued before its flush, and released first.
OrderOf(t) == tx[t] # Nil =>
    /\ (pc[t] = "queue" /\ req[t] = tx[t]) \/ In(Line, tx[t]) \/ doneCount[tx[t]] > 0
    /\ ~stopped /\ req[t] # tx[t] => /\ Before(Line, tx[t], req[t])
                                     /\ doneCount[req[t]] > 0 => doneCount[tx[t]] > 0

Order == \A t \in Callers : OrderOf(t)

\* A request leaves the line only when it is released.
LEMMA StaysInLine ==
    ASSUME NetTypes, ResTypes, CallerTypes, Once, Flow, [Next]_vars
    PROVE  \A r \in Reqs : In(Line, r) \/ doneCount[r] > 0 => In(Line', r) \/ doneCount'[r] > 0
<1>1. CASE Kept
  BY <1>1 DEF Kept
<1>2. ASSUME NEW r, r = AutoFlush \/ ~In(Line, r), Joins(r)
      PROVE  \A q : (In(Line, q) => In(Line', q)) /\ doneCount' = doneCount
  BY <1>2, Joined, Zenon DEF Once, Joins
<1>3. ASSUME NEW h, Leaves(h)
      PROVE  \A r \in Reqs : In(Line, r) \/ doneCount[r] > 0 => In(Line', r) \/ doneCount'[r] > 0
  <2>1. \A q : q # h => (In(Line', q) <=> In(Line, q))
    BY <1>3, Left, Zenon DEF Once
  <2>2. \A r \in Reqs : doneCount'[r] = IF r = h THEN doneCount[r] + 1 ELSE doneCount[r]
    BY <1>3 DEF Leaves
  <2>3. QED
    BY <2>1, <2>2 DEF ResTypes
<1>4. ASSUME NEW t \in Callers, queueRequest(t) PROVE ~In(Line, req[t]) /\ Joins(req[t])
  BY <1>4, LineMoves, Zenon DEF Once, queueRequest
<1>5. QED
  BY <1>1, <1>2, <1>3, <1>4, LineMoves, Zenon

\* A caller that takes no step.
LEMMA OrderRest ==
    ASSUME NetTypes, ResTypes, CallerTypes, FlagTypes, Stops, Once, Flow, Method, Order, [Next]_vars,
           NEW t \in Callers, req'[t] = req[t], tx'[t] = tx[t], pc'[t] = pc[t] \/ pc[t] # "queue"
    PROVE  OrderOf(t)'
<1> SUFFICES ASSUME tx[t] # Nil
             PROVE  /\ (pc'[t] = "queue" /\ req[t] = tx[t]) \/ In(Line', tx[t]) \/ doneCount'[tx[t]] > 0
                    /\ ~stopped' /\ req[t] # tx[t] => /\ Before(Line', tx[t], req[t])
                                                      /\ doneCount'[req[t]] > 0 => doneCount'[tx[t]] > 0
  BY DEF OrderOf
<1>0. /\ tx[t] \in Reqs /\ tx[t] # AutoFlush
      /\ (pc[t] = "queue" /\ req[t] = tx[t]) \/ In(Line, tx[t]) \/ doneCount[tx[t]] > 0
      /\ ~stopped /\ req[t] # tx[t] => /\ Before(Line, tx[t], req[t])
                                       /\ doneCount[req[t]] > 0 => doneCount[tx[t]] > 0
  <2>1. OrderOf(t) /\ tx[t] \in Txs
    BY DEF Order, CallerTypes
  <2>2. tx[t] \in Reqs /\ tx[t] # AutoFlush
    BY <2>1, Names
  <2>3. QED
    BY <2>1, <2>2, Zenon DEF OrderOf
<1>1. (pc'[t] = "queue" /\ req[t] = tx[t]) \/ In(Line', tx[t]) \/ doneCount'[tx[t]] > 0
  BY <1>0, StaysInLine, Zenon
<1>2. ASSUME ~stopped', req[t] # tx[t]
      PROVE  Before(Line', tx[t], req[t]) /\ (doneCount'[req[t]] > 0 => doneCount'[tx[t]] > 0)
  <2>1. /\ ~stopped /\ req[t] \in Reqs /\ Before(Line, tx[t], req[t])
        /\ doneCount[req[t]] > 0 => doneCount[tx[t]] > 0
        /\ In(Line, tx[t]) \/ doneCount[tx[t]] > 0
    BY <1>0, <1>2, StopStep, Zenon DEF Method, MethodOf, Reqs
  <2>2. CASE Kept
    BY <2>1, <2>2, Zenon DEF Kept
  <2>3. ASSUME NEW r, Joins(r), r = AutoFlush \/ ~In(Line, r), tx[t] # r
        PROVE  Before(Line', tx[t], req[t]) /\ (doneCount'[req[t]] > 0 => doneCount'[tx[t]] > 0)
    <3>1. Before(Line', tx[t], req[t])
      BY <1>2, <2>1, <2>3, Joined, Zenon DEF Once
    <3>2. QED
      BY <2>1, <2>3, <3>1, Zenon DEF Joins
  <2>4. ASSUME NEW u \in Callers, queueRequest(u)
        PROVE  Joins(req[u]) /\ ~In(Line, req[u]) /\ tx[t] # req[u]
    <3>1. Joins(req[u]) /\ ~In(Line, req[u]) /\ doneCount[req[u]] = 0
      BY <2>4, LineMoves, Zenon DEF Once, queueRequest
    <3>2. ~(doneCount[req[u]] > 0)
      BY <3>1, NotYet, Zenon
    <3>3. QED
      BY <2>1, <3>1, <3>2, Zenon
  <2>5. ASSUME didRecvResponse
        PROVE  Before(Line', tx[t], req[t]) /\ (doneCount'[req[t]] > 0 => doneCount'[tx[t]] > 0)
    <3>1. PICK h, l : /\ h = Head(reqSent) /\ IsLine(One(h)) /\ l = Line' /\ IsLine(l) /\ Line = Cat(One(h), l)
                      /\ doneCount' = [q \in Reqs |-> IF q = h THEN doneCount[q] + 1 ELSE doneCount[q]]
      BY <2>5, LineReceive
    <3>2. /\ Before(l, tx[t], req[t]) /\ ~(In(One(h), req[t]) /\ In(l, tx[t]))
          /\ In(Line, tx[t]) <=> In(One(h), tx[t]) \/ In(l, tx[t])
      BY <2>1, <3>1, BeforeLaw, InLaw, Zenon
    <3>3. \A q : In(One(h), q) <=> q = h
      BY SmallLaw, Zenon
    <3>4. ASSUME req[t] = h PROVE doneCount[tx[t]] > 0
      BY <1>2, <2>1, <3>2, <3>3, <3>4, Zenon
    <3>5. \A q \in Reqs : doneCount[q] \in Nat /\ doneCount'[q] = IF q = h THEN doneCount[q] + 1 ELSE doneCount[q]
      BY <3>1 DEF ResTypes
    <3>6. doneCount[tx[t]] > 0 => doneCount'[tx[t]] > 0
      <4>1. /\ doneCount[tx[t]] \in Nat
            /\ doneCount'[tx[t]] = doneCount[tx[t]] + 1 \/ doneCount'[tx[t]] = doneCount[tx[t]]
        BY <1>0, <3>5, Zenon
      <4>2. QED
        BY <4>1
    <3>7. doneCount'[req[t]] > 0 => doneCount[tx[t]] > 0
      <4>1. CASE req[t] = h
        BY <3>4, <4>1
      <4>2. CASE req[t] # h
        <5>1. doneCount'[req[t]] = doneCount[req[t]]
          BY <2>1, <3>5, <4>2, Zenon
        <5>2. QED
          BY <2>1, <5>1
      <4>3. QED
        BY <4>1, <4>2
    <3>8. QED
      BY <3>1, <3>2, <3>6, <3>7, Zenon
  <2>6. \A x \in Stoppers : ~flushQueue(x)
    BY <2>1, Zenon DEF Stops, flushQueue
  <2>7. QED
    BY <1>0, <2>2, <2>3, <2>4, <2>5, <2>6, LineMoves, Zenon
<1>3. QED
  BY <1>1, <1>2, Zenon

LEMMA OrderStep ==
    ASSUME NetTypes, ResTypes, CallerTypes, FlagTypes, Stops, Once, Flow, Method, Order, [Next]_vars
    PROVE  Order'
<1>1. ASSUME NEW t \in Callers, CallerMove(t) PROVE OrderOf(t)'
  <2>1. MethodOf(t) /\ OrderOf(t) /\ t \in DOMAIN pc /\ t \in DOMAIN req /\ t \in DOMAIN tx /\ Kept
    BY <1>1, LineStill, QuietFrame DEF Method, Order, CallerTypes, Kept, Quiet
  <2>2. CASE Async(t)
    <3>1. tx'[t] = Nil
      BY <2>1, <2>2 DEF Async, MethodOf
    <3>2. QED
      BY <3>1, Zenon DEF OrderOf
  <2>3. CASE Sync(t)
    <3>1. pc'[t] = "queue" /\ req'[t] = tx'[t]
      BY <2>1, <2>3 DEF Sync, Queue
    <3>2. QED
      BY <3>1, Zenon DEF OrderOf
  <2>4. CASE FlushSync(t)
    <3>1. PICK f \in Flushes : f \notin Used /\ pc'[t] = "queue" /\ req'[t] = f /\ tx'[t] = tx[t]
      BY <2>1, <2>4 DEF FlushSync, Unused, Queue
    <3>2. ~In(Line', f) /\ doneCount'[f] = 0
      BY <2>1, <3>1, Fresh, Zenon DEF Kept, Reqs
    <3>3. tx[t] # Nil => In(Line', tx[t]) \/ doneCount'[tx[t]] > 0
      BY <2>1, <2>4, Zenon DEF FlushSync, MethodOf, OrderOf, Kept
    <3>4. Before(Line', tx[t], f)
      BY <3>2, Zenon DEF Before, In
    <3>5. ~(doneCount'[f] > 0)
      BY <3>2, NotYet, Zenon
    <3>6. QED
      BY <3>1, <3>3, <3>4, <3>5, Zenon DEF OrderOf
  <2>5. CASE Return(t)
    <3>1. tx'[t] = Nil
      BY <2>1, <2>5, Zenon DEF Return
    <3>2. QED
      BY <3>1 DEF OrderOf
  <2>6. CASE queueRequestTimer(t) \/ FlushSyncError(t) \/ FlushSyncWait(t) \/ SetCallback(t)
    <3>1. req'[t] = req[t] /\ tx'[t] = tx[t] /\ pc[t] # "queue"
      BY <2>6, Zenon DEF queueRequestTimer, FlushSyncError, FlushSyncWait, SetCallback, caller
    <3>2. QED
      BY <3>1, OrderRest, Zenon
  <2>7. QED
    BY <1>1, <2>2, <2>3, <2>4, <2>5, <2>6 DEF CallerMove
<1>2. ASSUME NEW t \in Callers, queueRequest(t) PROVE OrderOf(t)'
  <2>1. pc[t] = "queue" /\ req'[t] = req[t] /\ tx'[t] = tx[t] /\ Joins(req[t]) /\ ~In(Line, req[t])
    BY <1>2, LineMoves, Zenon DEF queueRequest, Once
  <2>2. /\ \A q : In(Line', q) <=> In(Line, q) \/ q = req[t]
        /\ \A p, q : p # q /\ p # req[t] /\ Before(Line, p, q) => Before(Line', p, q)
        /\ doneCount' = doneCount
    BY <2>1, Joined, Zenon DEF Once, Joins
  <2>3. stopped => stopped'
    BY StopStep
  <2>4. QED
    BY <2>1, <2>2, <2>3, Zenon DEF OrderOf, Order
<1>3. ASSUME NEW t \in Callers, NEW u \in Callers, u # t, CallerMove(t) \/ queueRequest(t) PROVE OrderOf(u)'
  <2>1. pc'[u] = pc[u] /\ req'[u] = req[u] /\ tx'[u] = tx[u]
    BY <1>3, Zenon
       DEF CallerMove, queueRequest, Async, Sync, FlushSync, Queue, queueRequestTimer, FlushSyncError,
           FlushSyncWait, Return, SetCallback, caller, CallerTypes
  <2>2. QED
    BY <2>1, OrderRest
<1>4. CASE UNCHANGED <<pc, req, tx, cbSet>>
  BY <1>4, OrderRest DEF Order
<1>5. QED
  BY <1>1, <1>2, <1>3, <1>4, CallerFrame DEF Order

\* A released request has its response, unless flushQueue released it.
Answered == \A r \in Reqs : doneCount[r] > 0 => response[r] = r \/ stopped

LEMMA AnsweredStep ==
    ASSUME NetTypes, ResTypes, FlagTypes, Stops, Flow, Answered, [Next]_vars
    PROVE  Answered'
<1>1. stopped => stopped'
  BY StopStep
<1>2. CASE UNCHANGED <<doneCount, response, cbRan>>
  BY <1>1, <1>2 DEF Answered
<1>3. ASSUME NEW x \in Stoppers, flushQueue(x) PROVE Answered'
  BY <1>1, <1>3 DEF Answered, Stops, flushQueue
<1>4. CASE didRecvResponse
  <2>1. PICK h : /\ h = Head(reqSent) /\ h = Head(s2c)
                 /\ doneCount' = [q \in Reqs |-> IF q = h THEN doneCount[q] + 1 ELSE doneCount[q]]
                 /\ response' = [q \in Reqs |-> IF q = h THEN Head(s2c) ELSE response[q]]
    BY <1>4, LineReceive
  <2>2. QED
    BY <1>1, <2>1 DEF Answered
<1>5. QED
  BY <1>2, <1>3, <1>4, ResFrame

-----------------------------------------------------------------------------
(* The theorems *)

Inv == Types /\ Stops /\ Flow /\ Correlated /\ Once /\ Method /\ Order /\ Answered

LEMMA InitInv == NewSocketClient => Inv
<1> SUFFICES ASSUME NewSocketClient PROVE Inv
  OBVIOUS
<1>1. Types
  <2>1. NetTypes
    BY AbciAssumption DEF NewSocketClient, NetTypes
  <2>2. ResTypes /\ CallerTypes
    BY DEF NewSocketClient, ResTypes, CallerTypes
  <2>3. FlagTypes
    BY Zenon DEF NewSocketClient, FlagTypes
  <2>4. QED
    BY <2>1, <2>2, <2>3 DEF Types
<1>2. reqSent = Empty /\ s2c = Empty /\ bufWriter = Empty /\ responses = Empty /\ c2s = Empty /\ w = Empty
      /\ reqQueue = Empty /\ Mid = Empty /\ Held = Empty
  BY DEF NewSocketClient, Empty, Mid, Held
<1>3. Cat(Empty, Empty) = Empty
  BY EmptyLaw, UnitLaw
<1>4. Stops /\ Correlated
  BY DEF NewSocketClient, Stops, Correlated, Reqs
<1>5. Flow
  BY <1>2, <1>3, EmptyLaw DEF Flow, Wire
<1>6. Line = Empty
  BY <1>2, <1>3 DEF Line
<1>7. Once
  <2>1. Distinct(Line) /\ \A r : ~In(Line, r)
    BY <1>6, SmallLaw
  <2>2. QED
    BY <2>1 DEF Once, NewSocketClient
<1>8. Method /\ Order /\ Answered
  BY DEF NewSocketClient, Method, MethodOf, Order, OrderOf, Answered
<1>9. QED
  BY <1>1, <1>4, <1>5, <1>7, <1>8 DEF Inv

LEMMA StepInv == Inv /\ [Next]_vars => Inv'
<1> SUFFICES ASSUME Inv, [Next]_vars PROVE Inv'
  OBVIOUS
<1>1. /\ NetTypes /\ ResTypes /\ CallerTypes /\ FlagTypes /\ Stops /\ Flow /\ Correlated /\ Once /\ Method
      /\ Order /\ Answered
  BY DEF Inv, Types
<1>2. Types'
  BY <1>1, NetTypesStep, ResTypesStep, CallerTypesStep, FlagTypesStep DEF Types
<1>3. Stops' /\ Flow' /\ Correlated' /\ Once'
  BY <1>1, StopStep, FlowStep, CorrelatedStep, OnceStep
<1>4. Method' /\ Order' /\ Answered'
  BY <1>1, MethodStep, OrderStep, AnsweredStep
<1>5. QED
  BY <1>2, <1>3, <1>4 DEF Inv

\* The inductive invariant holds of every reachable state.
THEOREM Invariance == Spec => []Inv
BY InitInv, StepInv, PTL DEF Spec

\* Responses are matched to requests by their order alone, and yet the response
\* that didRecvResponse stores in a ReqRes is the one to its own request.
THEOREM OwnResponse == Spec => []Correlated
<1>1. Inv => Correlated
  BY DEF Inv
<1>2. QED
  BY <1>1, Invariance, PTL

\* A ReqRes is released at most once, by the receive routine or by flushQueue,
\* whatever the routines and the stoppers do; the queue keeps its bound.
THEOREM NeverReleasedTwice == Spec => []ReleasedOnce
<1>1. Inv => ReleasedOnce
  BY TypesTypeOK DEF Inv, Once, ReleasedOnce, DoneOnce
<1>2. QED
  BY <1>1, Invariance, PTL

\* When a Sync method returns, its flush was released after its own request
\* was: it has the response, or the client was stopped or failed.
THEOREM SyncReturnsAnswered == Spec => []SyncAnswered
<1>1. Inv => SyncAnswered
  <2> SUFFICES ASSUME Inv, NEW t \in Callers, pc[t] = "return", tx[t] # Nil, ~stopped, ~err
               PROVE  response[tx[t]] = tx[t]
    BY DEF SyncAnswered
  <2>1. MethodOf(t) /\ OrderOf(t) /\ tx[t] \in Txs
    BY DEF Inv, Method, Order, Types, CallerTypes
  <2>2. req[t] \in Flushes /\ doneCount[req[t]] > 0 /\ req[t] # tx[t]
    BY <2>1, AbciAssumption DEF MethodOf
  <2>3. doneCount[tx[t]] > 0
    BY <2>1, <2>2, Zenon DEF OrderOf
  <2>4. QED
    BY <2>1, <2>3 DEF Inv, Answered, Reqs
<1>2. QED
  BY <1>1, Invariance, PTL

\* The receive routine finds every response expected: the two errors
\* didRecvResponse can report are out of reach of a server that answers in order.
THEOREM ResponsesExpected ==
    Spec => [](s2c # <<>> => reqSent # <<>> /\ resMatchesReq(Head(reqSent), Head(s2c)))
<1>1. Inv => (s2c # <<>> => reqSent # <<>> /\ resMatchesReq(Head(reqSent), Head(s2c)))
  BY Expected DEF Inv, Types, resMatchesReq
<1>2. QED
  BY <1>1, Invariance, PTL
=============================================================================

--------------------------- MODULE WSClientProofs ---------------------------
(***************************************************************************)
(* For every set of requests, number of attempts and of cut connections:   *)
(* the routines of the websocket client keep apart, none of their sends    *)
(* blocks for good, and no request that Send returned for is dropped.      *)
(***************************************************************************)
EXTENDS WSClient, FiniteSetTheorems, TLAPS

\* From the dial on the old routines are gone, also while the reconnect
\* routine gives up, which it does after MaxAttempts.
Apart ==
    /\ rec \in {"dial", "drain", "process", "error", "requeue", "start", "stop", "stopwait"} => wgDone
    /\ rec = "dial" => attempt <= MaxAttempts

\* Who may find what in the two buffers.
Buffers ==
    /\ rec \in {"process", "error"} => reconnectAfter = 0
    /\ rec \in {"error", "requeue", "start"} => backlog = Nil
    /\ writer # "off" => backlog = Nil

\* Without a cut nothing fails: a connection is closed by the write routine,
\* at its end, and the reconnect routine is never called upon.
Calm ==
    cuts = 0 => /\ conn # "cut" /\ (conn = "closed" => writer = "off")
                /\ writer \notin {"error", "backlog"} /\ reader # "error"
                /\ reconnectAfter = 0 /\ rec \in {"select", "done"}
                /\ respClosed => wgDone

\* The hands a request can be in, one at a time.
Hands ==
    /\ writer \in {"select", "off"} => req = Nil
    /\ writer = "write" => req # Nil
    /\ {req, backlog, resend} \subseteq accepted \cup {Nil}
    /\ rec \notin {"error", "requeue"} => resend = Nil
    /\ \A r \in accepted \ written : r \in {req, backlog, resend}

Inv == TypeOK /\ Apart /\ Buffers /\ Calm /\ Hands

USE DEF wgDone

\* OnStart leaves the invariant true.
LEMMA InitInv == OnStart => Inv
<1>1. SUFFICES ASSUME OnStart PROVE Inv
  OBVIOUS
<1>2. {readQuit, stopped, respClosed} \subseteq BOOLEAN
  BY <1>1, Zenon DEF OnStart
<1>3. TypeOK
  BY <1>1, <1>2, WSClientAssumption DEF OnStart, TypeOK
<1>4. Apart /\ Buffers /\ Calm /\ Hands
  BY <1>1 DEF OnStart, Apart, Buffers, Calm, Hands
<1>5. QED
  BY <1>3, <1>4 DEF Inv

USE DEF net, reading, writing, reconnecting, stopping, usage

\* Send and the write routine.
LEMMA WriteInv ==
    ASSUME Inv, writeRoutine \/ writePing \/ \E r \in Reqs : Send(r)
    PROVE  Inv'
<1> USE WSClientAssumption DEF Inv, TypeOK, Apart, Buffers, Calm, Hands
<1>1. ASSUME NEW r \in Reqs, Send(r) PROVE Inv'
  BY <1>1 DEF Send
<1>2. CASE writeRequest
  <2>1. CASE WriteOK(req) /\ writer' = "select" /\ req' = Nil
    BY <1>2, <2>1 DEF writeRequest, WriteOK
  <2>2. CASE WriteFails /\ writer' = "error" /\ UNCHANGED req
    BY <1>2, <2>2 DEF writeRequest, WriteFails
  <2>3. QED
    BY <1>2, <2>1, <2>2 DEF writeRequest
<1>3. CASE writePing
  BY <1>3 DEF writePing
<1>4. CASE writeError
  BY <1>4 DEF writeError, pushError
<1>5. CASE writeBacklog
  BY <1>5 DEF writeBacklog, endWriter
<1>6. CASE writeQuit
  BY <1>6 DEF writeQuit, endWriter
<1>7. QED
  BY <1>1, <1>2, <1>3, <1>4, <1>5, <1>6 DEF writeRoutine

\* The read routine.
LEMMA ReadInv ==
    ASSUME Inv, readRoutine
    PROVE  Inv'
<1> USE WSClientAssumption DEF Inv, TypeOK, Apart, Buffers, Calm, Hands
<1>1. CASE readResponse
  BY <1>1 DEF readResponse
<1>2. CASE deliver
  BY <1>2 DEF deliver
<1>3. CASE readEnds
  BY <1>3 DEF readEnds
<1>4. CASE readFails
  BY <1>4 DEF readFails
<1>5. CASE readError
  BY <1>5 DEF readError, pushError
<1>6. QED
  BY <1>1, <1>2, <1>3, <1>4, <1>5 DEF readRoutine

\* The reconnect routine.
LEMMA ReconnectInv ==
    ASSUME Inv, reconnectRoutine
    PROVE  Inv'
<1> USE WSClientAssumption DEF Inv, TypeOK, Apart, Buffers, Calm, Hands
<1>1. CASE recTake
  BY <1>1 DEF recTake
<1>2. CASE recQuit
  BY <1>2 DEF recQuit
<1>3. CASE recWait
  BY <1>3 DEF recWait
<1>4. CASE reconnect
  BY <1>4 DEF reconnect
<1>5. CASE recDrain
  BY <1>5 DEF recDrain
<1>6. CASE processBacklog
  <2>1. CASE backlog = Nil /\ rec' = "start" /\ UNCHANGED <<written, answers, resend>>
    BY <1>6, <2>1 DEF processBacklog
  <2>2. CASE backlog # Nil /\ WriteOK(backlog) /\ rec' = "start" /\ UNCHANGED resend
    BY <1>6, <2>2 DEF processBacklog, WriteOK
  <2>3. CASE backlog # Nil /\ WriteFails /\ rec' = "error" /\ resend' = backlog
    BY <1>6, <2>3 DEF processBacklog, WriteFails
  <2>4. QED
    BY <1>6, <2>1, <2>2, <2>3 DEF processBacklog
<1>7. CASE processError
  BY <1>7 DEF processError, pushError
<1>8. CASE processRequeue
  BY <1>8 DEF processRequeue
<1>9. CASE startReadWriteRoutines
  BY <1>9, Zenon DEF startReadWriteRoutines
<1>10. CASE recStop
  BY <1>10 DEF recStop
<1>11. QED
  BY <1>1, <1>2, <1>3, <1>4, <1>5, <1>6, <1>7, <1>8, <1>9, <1>10, Zenon DEF reconnectRoutine

\* Stop by the user, the end of the wait, and the network.
LEMMA StopInv ==
    ASSUME Inv, Stop \/ StopWait \/ Cut
    PROVE  Inv'
<1> USE WSClientAssumption DEF Inv, TypeOK, Apart, Buffers, Calm, Hands
<1>1. CASE Stop
  BY <1>1 DEF Stop
<1>2. CASE StopWait
  BY <1>2 DEF StopWait
<1>3. CASE Cut
  BY <1>3 DEF Cut
<1>4. QED
  BY <1>1, <1>2, <1>3

\* The invariant of ws_client.go.
THEOREM Invariance == Spec => []Inv
<1>1. Inv /\ [Next]_vars => Inv'
  <2>1. SUFFICES ASSUME Inv, [Next]_vars PROVE Inv'
    OBVIOUS
  <2>2. CASE UNCHANGED vars
    BY <2>1, <2>2 DEF vars, Inv, TypeOK, Apart, Buffers, Calm, Hands
  <2>3. CASE Next
    BY <2>1, <2>3, WriteInv, ReadInv, ReconnectInv, StopInv DEF Next
  <2>4. QED
    BY <2>1, <2>2, <2>3
<1>2. QED
  BY <1>1, InitInv, PTL DEF Spec

\* One goroutine reads from, and one writes to, a connection; no send of the
\* reconnect routine blocks; and a read routine meets a closed ResponsesCh
\* only after a reconnection.
THEOREM KeepApart == Spec => []RoutinesApart
<1>1. Inv => RoutinesApart
  BY WSClientAssumption
     DEF Inv, TypeOK, Apart, Buffers, Calm, RoutinesApart, OneWriter, BuffersSuffice, LateStartNeedsCut
<1>2. QED
  BY <1>1, Invariance, PTL

\* A request that Send has returned for is never dropped: it was written, or
\* it is in the hand of exactly one routine or in the backlog.
THEOREM RequestsKept == Spec => []NotLost
<1>1. Inv => NotLost
  <2>1. SUFFICES ASSUME Inv, NEW r \in accepted \ written
                 PROVE  Cardinality({h \in {"writer", "backlog", "rec"} :
                            r = CASE h = "writer" -> req [] h = "backlog" -> backlog [] h = "rec" -> resend}) = 1
    BY DEF NotLost
  <2> DEFINE Held(h) == CASE h = "writer" -> req [] h = "backlog" -> backlog [] h = "rec" -> resend
             S == {h \in {"writer", "backlog", "rec"} : r = Held(h)}
  <2>2. Held("writer") = req /\ Held("backlog") = backlog /\ Held("rec") = resend
    OBVIOUS
  <2>3. r # Nil /\ r \in {req, backlog, resend}
    BY <2>1, WSClientAssumption DEF Inv, TypeOK, Hands
  <2>4. \E x : S = {x}
    <3> HIDE DEF Held
    <3>1. CASE r = req
      <4>1. r # backlog /\ r # resend
        BY <2>1, <2>3, <3>1 DEF Inv, TypeOK, Apart, Buffers, Hands
      <4>2. S = {"writer"}
        BY <2>2, <3>1, <4>1
      <4>3. QED
        BY <4>2
    <3>2. CASE r = backlog
      <4>1. r # req /\ r # resend
        BY <2>1, <2>3, <3>2 DEF Inv, TypeOK, Apart, Buffers, Hands
      <4>2. S = {"backlog"}
        BY <2>2, <3>2, <4>1
      <4>3. QED
        BY <4>2
    <3>3. CASE r = resend
      <4>1. r # req /\ r # backlog
        BY <2>1, <2>3, <3>3 DEF Inv, TypeOK, Apart, Buffers, Hands
      <4>2. S = {"rec"}
        BY <2>2, <3>3, <4>1
      <4>3. QED
        BY <4>2
    <3>4. QED
      BY <2>3, <3>1, <3>2, <3>3, Zenon
  <2>5. Cardinality(S) = 1
    BY <2>4, FS_Singleton
  <2>6. QED
    BY <2>5
<1>2. QED
  BY <1>1, Invariance, PTL
=============================================================================

-------------------------- MODULE SocketRpcProofs --------------------------
(***************************************************************************)
(* For any number of calls on one connection of socket/: a call gets the   *)
(* answer to its own request, no goroutine of the client is stuck on a     *)
(* full channel, neither process dies without a fault, and a client that   *)
(* is used by one call at a time neither loses an answer nor keeps an      *)
(* entry.                                                                  *)
(***************************************************************************)
EXTENDS SocketRpc, FiniteSetTheorems, SequenceTheorems, TLAPS

Answer == [res : {"ok", "error"}, of : Calls]
Active(c) == pc[c] \notin {"idle", "done"}

\* Indices number the calls that were registered, and only those are in reqSent.
Numbered ==
    /\ counter = Cardinality({c \in Calls : idx[c] # 0})
    /\ \A c \in Calls : idx[c] <= counter
    /\ \A c, d \in Calls : idx[c] = idx[d] /\ idx[c] # 0 => c = d
    /\ \A c \in Calls : (pc[c] = "idle" => idx[c] = 0) /\ (Active(c) => idx[c] # 0)
    /\ \A c \in Calls : c \in Range(reqSent) => idx[c] # 0

NoTwice(s) == \A i, j \in 1..Len(s) : s[i] = s[j] => i = j

\* The requests that a sequence of answers is for.
Answered(s) == {s[i].of : i \in 1..Len(s)}
AnsweredOnce(s) == \A i, j \in 1..Len(s) : s[i].of = s[j].of => i = j

\* A request is in one place at a time on its way to the server and back, and
\* its answer goes to its own call.
WayOf(c) ==
    /\ pc[c] \in {"idle", "registered"} => c \notin Range(c2s) /\ handler[c] = "none"
    /\ c \in Range(c2s) \/ handler[c] # "none" => idx[c] # 0
    /\ c \in Range(c2s) => handler[c] = "none"
    /\ c \in Answered(s2c) \/ did[c].at # "none" => handler[c] = "written"
    /\ c \in Answered(s2c) => did[c].at = "none"
    /\ did[c].at = "send" => did[c].cur = c
    /\ respChan[c] # Nil => respChan[c].of = c /\ did[c].at = "sent"

Way == NoTwice(c2s) /\ AnsweredOnce(s2c) /\ \A c \in Calls : WayOf(c)

\* Why a call has left the select: it timed out, the client is down, it has its
\* answer, or its request was never written.
Left(c) == c \in timedOut \/ ~isRunning \/ did[c].at = "sent" \/ (c \notin Range(c2s) /\ handler[c] = "none")

\* Channels are closed by calls that have left the select.
ClosingOf(c) ==
    /\ c \in closed => pc[c] \in {"unlink", "done"} /\ Left(c)
    /\ pc[c] \in {"remove", "unlink"} => Left(c)
    /\ pc[c] = "unlink" => cur[c] = c

Closing ==
    /\ recv.at = "close" \/ closeChan # {} => ~isRunning
    /\ crashed => timedOut # {} \/ ~isRunning
    /\ \A c \in Calls : ClosingOf(c)

\* The server's end goes down for a reason.
Faulty == ~cliOpen \/ broken \/ \E r \in Calls : handler[r] = "unknown"
Serving == ~svrOpen \/ svrCrashed => Faulty

\* A client used by one call at a time.
Alone ==
    ~overlapped =>
        /\ \A c, d \in Calls : Active(c) /\ Active(d) => c = d
        /\ \A c \in Calls : Active(c) => reqSent = <<c>>
        /\ reqSent # <<>> => \E c \in Calls : Active(c)
        /\ \A c \in Calls : pc[c] \in {"idle", "registered", "waiting", "remove"} => cur[c] = Start
        /\ \A c \in Calls : pc[c] = "waiting" => /\ did[c].at # "dropped"
                                                 /\ did[c].at = "walk" => did[c].cur = Start

-----------------------------------------------------------------------------
(* Sequences *)

\* A request or an answer that is taken off, and one that is added.
LEMMA TakeLaw ==
    ASSUME NEW s \in Seq(Calls), s # <<>>, NoTwice(s)
    PROVE  /\ Head(s) \in Calls /\ Head(s) \in Range(s) /\ Tail(s) \in Seq(Calls) /\ NoTwice(Tail(s))
           /\ \A c : c \in Range(Tail(s)) <=> c \in Range(s) /\ c # Head(s)
<1>1. /\ Len(s) \in Nat /\ Len(s) > 0 /\ Tail(s) \in Seq(Calls) /\ Len(Tail(s)) = Len(s) - 1
      /\ Head(s) = s[1] /\ Head(s) \in Calls /\ \A i \in 1..Len(Tail(s)) : Tail(s)[i] = s[i + 1]
  OBVIOUS
<1>2. Range(s) = {s[i] : i \in 1..Len(s)} /\ Range(Tail(s)) = {Tail(s)[i] : i \in 1..Len(Tail(s))}
  BY <1>1, RangeEquality, ZenonT(30)
<1>3. NoTwice(Tail(s))
  BY <1>1 DEF NoTwice
<1>4. ASSUME NEW c, c \in Range(Tail(s)) PROVE c \in Range(s) /\ c # Head(s)
  <2>1. PICK i \in 1..Len(Tail(s)) : c = s[i + 1]
    BY <1>1, <1>2, <1>4
  <2>2. i + 1 \in 1..Len(s) /\ 1 \in 1..Len(s) /\ i + 1 # 1
    BY <1>1
  <2>3. QED
    BY <1>1, <1>2, <2>1, <2>2 DEF NoTwice
<1>5. ASSUME NEW c, c \in Range(s), c # Head(s) PROVE c \in Range(Tail(s))
  <2>1. PICK i \in 1..Len(s) : c = s[i] /\ i # 1
    BY <1>1, <1>2, <1>5
  <2>2. i - 1 \in 1..Len(Tail(s)) /\ (i - 1) + 1 = i
    BY <1>1, <2>1
  <2>3. Tail(s)[i - 1] = c
    BY <1>1, <2>1, <2>2
  <2>4. QED
    BY <1>2, <2>2, <2>3, Zenon
<1>6. 1 \in 1..Len(s)
  BY <1>1
<1>7. QED
  BY <1>1, <1>2, <1>3, <1>4, <1>5, <1>6, Zenon

LEMMA AddLaw ==
    ASSUME NEW s \in Seq(Calls), NEW c \in Calls
    PROVE  /\ Append(s, c) \in Seq(Calls) /\ Range(Append(s, c)) = Range(s) \cup {c}
           /\ NoTwice(s) /\ c \notin Range(s) => NoTwice(Append(s, c))
<1>1. /\ Append(s, c) \in Seq(Calls) /\ Len(s) \in Nat /\ Len(Append(s, c)) = Len(s) + 1
      /\ Append(s, c)[Len(s) + 1] = c /\ \A i \in 1..Len(s) : Append(s, c)[i] = s[i]
  OBVIOUS
<1>2. Range(s) = {s[i] : i \in 1..Len(s)} /\ Range(Append(s, c)) = {Append(s, c)[i] : i \in 1..Len(Append(s, c))}
  BY <1>1, RangeEquality, Zenon
<1>3. \A i \in 1..Len(Append(s, c)) : i \in 1..Len(s) \/ i = Len(s) + 1
  BY <1>1
<1>4. \A i \in 1..Len(s) : i \in 1..Len(Append(s, c))
  BY <1>1
<1>5. Len(s) + 1 \in 1..Len(Append(s, c))
  BY <1>1
<1>6. Range(Append(s, c)) = Range(s) \cup {c}
  BY <1>1, <1>2, <1>3, <1>4, <1>5
<1>7. ASSUME NoTwice(s), c \notin Range(s) PROVE NoTwice(Append(s, c))
  BY <1>1, <1>2, <1>3, <1>7 DEF NoTwice
<1>8. QED
  BY <1>1, <1>6, <1>7

\* The same for the answers, told apart by their requests.
LEMMA TakeAnswer ==
    ASSUME NEW s \in Seq(Answer), s # <<>>, AnsweredOnce(s)
    PROVE  /\ Head(s) \in Answer /\ Head(s).of \in Answered(s) /\ Tail(s) \in Seq(Answer) /\ AnsweredOnce(Tail(s))
           /\ \A c : c \in Answered(Tail(s)) <=> c \in Answered(s) /\ c # Head(s).of
<1>1. /\ Len(s) \in Nat /\ Len(s) > 0 /\ Tail(s) \in Seq(Answer) /\ Len(Tail(s)) = Len(s) - 1
      /\ Head(s) = s[1] /\ Head(s) \in Answer /\ \A i \in 1..Len(Tail(s)) : Tail(s)[i] = s[i + 1]
  OBVIOUS
<1>2. AnsweredOnce(Tail(s))
  BY <1>1 DEF AnsweredOnce
<1>3. ASSUME NEW c, c \in Answered(Tail(s)) PROVE c \in Answered(s) /\ c # Head(s).of
  <2>1. PICK i \in 1..Len(Tail(s)) : c = s[i + 1].of
    BY <1>1, <1>3 DEF Answered
  <2>2. i + 1 \in 1..Len(s) /\ 1 \in 1..Len(s) /\ i + 1 # 1
    BY <1>1
  <2>3. QED
    BY <1>1, <2>1, <2>2 DEF AnsweredOnce, Answered
<1>4. ASSUME NEW c, c \in Answered(s), c # Head(s).of PROVE c \in Answered(Tail(s))
  <2>1. PICK i \in 1..Len(s) : c = s[i].of /\ i # 1
    BY <1>1, <1>4 DEF Answered
  <2>2. i - 1 \in 1..Len(Tail(s)) /\ (i - 1) + 1 = i
    BY <1>1, <2>1
  <2>3. Tail(s)[i - 1].of = c
    BY <1>1, <2>1, <2>2
  <2>4. QED
    BY <2>2, <2>3, Zenon DEF Answered
<1>5. 1 \in 1..Len(s)
  BY <1>1
<1>6. QED
  BY <1>1, <1>2, <1>3, <1>4, <1>5, Zenon DEF Answered

LEMMA AddAnswer ==
    ASSUME NEW s \in Seq(Answer), NEW a \in Answer, AnsweredOnce(s), a.of \notin Answered(s)
    PROVE  /\ Append(s, a) \in Seq(Answer) /\ AnsweredOnce(Append(s, a))
           /\ \A c : c \in Answered(Append(s, a)) <=> c \in Answered(s) \/ c = a.of
<1>1. /\ Append(s, a) \in Seq(Answer) /\ Len(s) \in Nat /\ Len(Append(s, a)) = Len(s) + 1
      /\ Append(s, a)[Len(s) + 1] = a /\ \A i \in 1..Len(s) : Append(s, a)[i] = s[i]
  OBVIOUS
<1>2. \A i \in 1..Len(Append(s, a)) : i \in 1..Len(s) \/ i = Len(s) + 1
  BY <1>1
<1>3. \A i \in 1..Len(s) : i \in 1..Len(Append(s, a))
  BY <1>1
<1>4. Len(s) + 1 \in 1..Len(Append(s, a))
  BY <1>1
<1>5. \A c : c \in Answered(Append(s, a)) <=> c \in Answered(s) \/ c = a.of
  BY <1>1, <1>2, <1>3, <1>4 DEF Answered
<1>6. AnsweredOnce(Append(s, a))
  BY <1>1, <1>2 DEF AnsweredOnce, Answered
<1>7. QED
  BY <1>1, <1>5, <1>6

-----------------------------------------------------------------------------
(* reqSent and the indices *)

\* A walk of reqSent meets its entries only.
LEMMA AdvanceLaw ==
    ASSUME reqSent \in Seq(Calls), NEW e
    PROVE  Advance(e) \in Range(reqSent) \cup {Nil}
<1> DEFINE at == {i \in 1..Len(reqSent) - 1 : reqSent[i] = e}
           k == CHOOSE i \in at : TRUE
<1>1. Len(reqSent) \in Nat /\ (reqSent # <<>> => Len(reqSent) > 0 /\ Head(reqSent) = reqSent[1])
      /\ \A i \in 1..Len(reqSent) : reqSent[i] \in Range(reqSent)
  BY RangeEquality
<1>2. at # {} => k \in at
  OBVIOUS
<1>3. Advance(e) = IF e = Start THEN IF reqSent = <<>> THEN Nil ELSE Head(reqSent)
                   ELSE IF at = {} THEN Nil ELSE reqSent[1 + k]
  BY DEF Advance
<1>4. reqSent # <<>> => Head(reqSent) \in Range(reqSent)
  BY <1>1
<1>5. at # {} => reqSent[1 + k] \in Range(reqSent)
  <2>1. at # {} => 1 + k \in 1..Len(reqSent)
    BY <1>1, <1>2
  <2>2. QED
    BY <1>1, <2>1
<1> HIDE DEF at, k
<1>6. QED
  BY <1>3, <1>4, <1>5, Zenon

\* A walk that begins meets the only entry, if there is one.
LEMMA AdvanceAlone ==
    /\ reqSent = <<>> => Advance(Start) = Nil
    /\ \A c : reqSent = <<c>> => Advance(Start) = c
BY DEF Advance

\* What is left of a list when an element is removed.
LEMMA RemoveLaw ==
    ASSUME NEW s \in Seq(Calls), NEW e
    PROVE  Remove(s, e) \in Seq(Calls) /\ Range(Remove(s, e)) \subseteq Range(s)
<1> DEFINE k == CHOOSE i \in 1..Len(s) : s[i] = e
           a == SubSeq(s, 1, k - 1)
           b == SubSeq(s, k + 1, Len(s))
<1>1. CASE e \notin Range(s)
  BY <1>1 DEF Remove
<1>2. CASE e \in Range(s)
  <2>1. k \in 1..Len(s) /\ Len(s) \in Nat
    BY <1>2, RangeEquality
  <2>2. Remove(s, e) = a \o b
    BY <1>2, Zenon DEF Remove
  <2> HIDE DEF k
  <2>3. s \in Seq(Range(s))
    BY SeqOfRange
  <2>4. a \in Seq(Range(s)) /\ b \in Seq(Range(s))
    <3>1. \A i \in 1..k - 1 : s[i] \in Range(s)
      BY <2>1, <2>3
    <3>2. \A i \in k + 1..Len(s) : s[i] \in Range(s)
      BY <2>1, <2>3
    <3>3. k - 1 \in Int /\ k + 1 \in Int /\ 1 \in Int /\ Len(s) \in Int
      BY <2>1
    <3>4. QED
      BY <3>1, <3>2, <3>3, SubSeqProperties
  <2> HIDE DEF a, b
  <2>5. a \o b \in Seq(Range(s))
    BY <2>4, ConcatProperties
  <2>6. Range(s) \subseteq Calls
    BY RangeOfSeq
  <2>7. QED
    BY <2>2, <2>5, <2>6, RangeOfSeq, SeqMonotonic, Zenon
<1>3. QED
  BY <1>1, <1>2

LEMMA RemoveAlone == ASSUME NEW c \in Calls PROVE Remove(<<c>>, c) = <<>>
<1>1. <<c>> \in Seq(Calls) /\ Len(<<c>>) = 1 /\ <<c>>[1] = c /\ c \in Range(<<c>>)
  BY DEF Range
<1>2. (CHOOSE i \in 1..1 : <<c>>[i] = c) = 1
  BY <1>1
<1>3. SubSeq(<<c>>, 1, 1 - 1) = <<>> /\ SubSeq(<<c>>, 1 + 1, 1) = <<>>
  BY SubSeqEmpty
<1>4. QED
  BY <1>1, <1>2, <1>3 DEF Remove

\* index is the number of the call, as long as it is below the modulus.
LEMMA IndexLaw ==
    ASSUME NEW n \in Nat, n < MaxUint64
    PROVE  index(n) = n
BY CallAssumption DEF index

-----------------------------------------------------------------------------
(* Types *)

CallTypes ==
    /\ counter \in Nat /\ pc \in [Calls -> Places] /\ idx \in [Calls -> 0..MaxUint64 - 1]
    /\ cur \in [Calls -> Calls \cup {Start, Nil}]
    /\ \A c \in Calls : pc[c] = "unlink" => cur[c] \in Calls
    /\ out \in [Calls -> [res : Outcomes, of : Calls \cup {Nil}]]

ChanTypes ==
    /\ respChan \in [Calls -> Answer \cup {Nil}]
    /\ closeChan \subseteq Calls /\ closed \subseteq Calls /\ timedOut \subseteq Calls

RecvTypes ==
    /\ recv \in [at : {"read", "close", "stopped"}, cur : Calls \cup {Start, Nil}, count : {0, 1}]
    /\ did \in [Calls -> [at : {"none", "walk", "send", "sent", "dropped"},
                          cur : Calls \cup {Start, Nil}, res : {"none", "ok", "error"}]]
    /\ \A c \in Calls : did[c].at \in {"walk", "send", "sent"} => did[c].res \in {"ok", "error"}
    /\ \A c \in Calls : did[c].at = "send" => did[c].cur \in Calls

SeqTypes == reqSent \in Seq(Calls) /\ c2s \in Seq(Calls) /\ s2c \in Seq(Answer)

FlagTypes ==
    /\ isRunning \in BOOLEAN /\ cliOpen \in BOOLEAN /\ svrOpen \in BOOLEAN /\ broken \in BOOLEAN
    /\ crashed \in BOOLEAN /\ svrCrashed \in BOOLEAN /\ keepAlive \in BOOLEAN /\ overlapped \in BOOLEAN
    /\ svr \in {"accept", "read", "closed"}
    /\ handler \in [Calls -> {"none", "started", "ok", "error", "unknown", "written"}]

Types == CallTypes /\ ChanTypes /\ RecvTypes /\ SeqTypes /\ FlagTypes

IInv == Types /\ Numbered /\ Way /\ Correlated /\ Closing /\ Serving /\ Alone

LEMMA TypesTypeOK == Types => TypeOK
<1>1. SUFFICES ASSUME Types PROVE TypeOK
  OBVIOUS
<1>2. {cliOpen, svrOpen, broken, crashed, svrCrashed, keepAlive, overlapped} \subseteq BOOLEAN
  BY <1>1, Zenon DEF Types, FlagTypes
<1>3. QED
  BY <1>1, <1>2, Zenon DEF TypeOK, Types, CallTypes, ChanTypes, RecvTypes, SeqTypes, FlagTypes, Answer

\* What the steps of the other goroutines leave alone.
LEMMA ServerFrame ==
    ASSUME Close \/ Serve \/ Break \/ \E r \in Calls : Handle(r)
    PROVE  UNCHANGED client
BY Zenon DEF Close, Serve, Accept, readRequest, readError, Break, Handle, handleRequest, writeResponse

LEMMA ReceiveFrame ==
    ASSUME Receive \/ \E r \in Calls : Deliver(r)
    PROVE  UNCHANGED <<reqSent, counter, idx, pc, cur, out, closed, timedOut, keepAlive, overlapped,
                       c2s, svrOpen, broken, svr, handler, svrCrashed>>
BY Zenon DEF Receive, recvResponse, recvError, sendCloseChan, Deliver, didWalk, didSend, fixed, net, server

LEMMA CallFrame ==
    ASSUME NEW c \in Calls, Call(c) \/ CallStep(c)
    PROVE  UNCHANGED <<isRunning, respChan, closeChan, recv, did, crashed, keepAlive,
                       s2c, svrOpen, broken, svr, handler, svrCrashed>>
BY Zenon DEF Call, CallStep, Write, Select, removeReq, removeReqUnlink, fixed, net, server

\* A change of the outcome of one call, and of one delivery.
Delivery == [at : {"none", "walk", "send", "sent", "dropped"}, cur : Calls \cup {Start, Nil},
             res : {"none", "ok", "error"}]

LEMMA OutcomeLaw ==
    ASSUME NEW o \in [Calls -> [res : Outcomes, of : Calls \cup {Nil}]], NEW c \in Calls, NEW v \in Outcomes
    PROVE  [o EXCEPT ![c].res = v] \in [Calls -> [res : Outcomes, of : Calls \cup {Nil}]]
OBVIOUS

Moved(r, e, a) == did' = [did EXCEPT ![r].cur = e, ![r].at = a]

LEMMA DeliveryLaw ==
    ASSUME NEW r \in Calls, NEW e, NEW a, Moved(r, e, a), did \in [Calls -> Delivery],
           e \in Calls \cup {Start, Nil}, a \in {"none", "walk", "send", "sent", "dropped"}
    PROVE  /\ did' \in [Calls -> Delivery] /\ did'[r].at = a /\ did'[r].cur = e /\ did'[r].res = did[r].res
           /\ \A q \in Calls : q # r => did'[q] = did[q]
<1>1. did' \in [Calls -> Delivery]
  BY ZenonT(30) DEF Moved, Delivery
<1>2. did'[r].at = a /\ did'[r].cur = e /\ did'[r].res = did[r].res
  BY DEF Moved, Delivery
<1>3. \A q \in Calls : q # r => did'[q] = did[q]
  BY DEF Moved
<1>4. QED
  BY <1>1, <1>2, <1>3

\* Client.Call keeps the types.
LEMMA CallTypesStep ==
    ASSUME Types, NEW c \in Calls, Call(c) \/ CallStep(c)
    PROVE  Types'
<1>1. RecvTypes' /\ s2c' \in Seq(Answer)
  BY CallFrame, Zenon DEF Types, RecvTypes, SeqTypes
<1>2. /\ isRunning' \in BOOLEAN /\ svrOpen' \in BOOLEAN /\ broken' \in BOOLEAN /\ crashed' \in BOOLEAN
      /\ svrCrashed' \in BOOLEAN /\ keepAlive' \in BOOLEAN /\ svr' \in {"accept", "read", "closed"}
      /\ handler' \in [Calls -> {"none", "started", "ok", "error", "unknown", "written"}]
      /\ respChan' \in [Calls -> Answer \cup {Nil}] /\ closeChan' \subseteq Calls
  BY CallFrame, Zenon DEF Types, FlagTypes, ChanTypes
<1>3. SUFFICES CallTypes' /\ closed' \subseteq Calls /\ timedOut' \subseteq Calls
               /\ reqSent' \in Seq(Calls) /\ c2s' \in Seq(Calls) /\ cliOpen' \in BOOLEAN /\ overlapped' \in BOOLEAN
  BY <1>1, <1>2, Zenon DEF Types, ChanTypes, SeqTypes, FlagTypes
<1>4. reqSent \in Seq(Calls) /\ c2s \in Seq(Calls) /\ closed \subseteq Calls /\ timedOut \subseteq Calls
  BY Zenon DEF Types, ChanTypes, SeqTypes
<1>5. cliOpen \in BOOLEAN /\ overlapped \in BOOLEAN
  BY Zenon DEF Types, FlagTypes
<1>6. CASE Call(c)
  <2>1. /\ closed' = closed /\ timedOut' = timedOut /\ c2s' = c2s /\ cliOpen' = cliOpen
        /\ overlapped' \in BOOLEAN /\ (reqSent' = reqSent \/ reqSent' = Append(reqSent, c))
    BY <1>6, Zenon DEF Call, net
  <2>2. reqSent' \in Seq(Calls)
    BY <1>4, <2>1, AddLaw
  <2>3. MaxUint64 > 0
    BY CallAssumption, FS_CardinalityType
  <2>4. counter \in Nat /\ index(counter + 1) \in 0..MaxUint64 - 1
    BY <2>3, CallAssumption DEF Types, CallTypes, index
  <2>5. CallTypes'
    <3>1. /\ out' = out \/ out' = [out EXCEPT ![c].res = "panic"]
          /\ pc' = [pc EXCEPT ![c] = "registered"] \/ pc' = [pc EXCEPT ![c] = "done"]
          /\ counter' = counter \/ counter' = counter + 1
          /\ idx' = idx \/ idx' = [idx EXCEPT ![c] = index(counter + 1)]
          /\ cur' = cur
      BY <1>6, Zenon DEF Call
    <3>2. out' \in [Calls -> [res : Outcomes, of : Calls \cup {Nil}]]
      <4>1. out \in [Calls -> [res : Outcomes, of : Calls \cup {Nil}]] /\ "panic" \in Outcomes
        BY Zenon DEF Types, CallTypes, Outcomes
      <4>2. QED
        BY <3>1, <4>1, OutcomeLaw
    <3>3. QED
      BY <2>4, <3>1, <3>2 DEF Types, CallTypes, Places
  <2>6. QED
    BY <1>4, <1>5, <2>1, <2>2, <2>5, Zenon
<1>7. CASE Write(c)
  <2>1. UNCHANGED <<closed, timedOut, reqSent, cliOpen, overlapped>> /\ (c2s' = c2s \/ c2s' = Append(c2s, c))
    BY <1>7, Zenon DEF Write, fixed
  <2>2. c2s' \in Seq(Calls)
    BY <1>4, <2>1, AddLaw
  <2>3. CallTypes'
    <3>1. /\ out' = out \/ out' = [out EXCEPT ![c].res = "panic"]
          /\ pc' = [pc EXCEPT ![c] = "waiting"] \/ pc' = [pc EXCEPT ![c] = "remove"]
          /\ UNCHANGED <<counter, idx, cur>>
      BY <1>7, Zenon DEF Write
    <3>2. out' \in [Calls -> [res : Outcomes, of : Calls \cup {Nil}]]
      <4>1. out \in [Calls -> [res : Outcomes, of : Calls \cup {Nil}]] /\ "panic" \in Outcomes
        BY Zenon DEF Types, CallTypes, Outcomes
      <4>2. QED
        BY <3>1, <4>1, OutcomeLaw
    <3>3. QED
      BY <3>1, <3>2 DEF Types, CallTypes, Places
  <2>4. QED
    BY <1>4, <1>5, <2>1, <2>2, <2>3, Zenon
<1>8. CASE Select(c)
  <2>1. UNCHANGED <<closed, reqSent, c2s, cliOpen, overlapped>> /\ timedOut' \subseteq Calls
    BY <1>4, <1>8 DEF Select, fixed, net
  <2>2. respChan[c] # Nil => respChan[c] \in Answer
    BY DEF Types, ChanTypes
  <2>3. CallTypes'
    BY <1>8, <2>2 DEF Select, Types, CallTypes, Places, Outcomes, Answer
  <2>4. QED
    BY <1>4, <1>5, <2>1, <2>3, Zenon
<1>9. CASE removeReq(c)
  <2>1. PICK e : e = Advance(cur[c])
    OBVIOUS
  <2>2. e \in Calls \cup {Nil}
    BY <1>4, <2>1, AdvanceLaw, RangeOfSeq
  <2>3. UNCHANGED <<timedOut, reqSent, c2s, overlapped, counter, idx, out>>
        /\ cur' = [cur EXCEPT ![c] = e]
        /\ pc' = [pc EXCEPT ![c] = IF e = Nil THEN "done" ELSE IF idx[e] = idx[c] THEN "unlink" ELSE "remove"]
        /\ closed' = (IF e # Nil /\ idx[e] = idx[c] THEN closed \cup {e} ELSE closed) /\ cliOpen' \in BOOLEAN
    BY <1>9, <2>1, Zenon DEF removeReq, fixed
  <2>4. closed' \subseteq Calls
    BY <1>4, <2>2, <2>3
  <2>5. CallTypes'
    BY <2>2, <2>3 DEF Types, CallTypes, Places
  <2>6. QED
    BY <1>4, <1>5, <2>3, <2>4, <2>5, Zenon
<1>10. CASE removeReqUnlink(c)
  <2>1. UNCHANGED <<timedOut, closed, c2s, overlapped, counter, idx, out, cur>> /\ cliOpen' \in BOOLEAN
        /\ pc' = [pc EXCEPT ![c] = "done"] /\ reqSent' = Remove(reqSent, cur[c])
    BY <1>10, Zenon DEF removeReqUnlink, fixed
  <2>2. reqSent' \in Seq(Calls)
    BY <1>4, <2>1, RemoveLaw
  <2>3. CallTypes'
    BY <2>1 DEF Types, CallTypes, Places
  <2>4. QED
    BY <1>4, <1>5, <2>1, <2>2, <2>3, Zenon
<1>11. QED
  BY <1>6, <1>7, <1>8, <1>9, <1>10 DEF CallStep

\* So do the client's receiving goroutines ...
LEMMA ReceiveTypesStep ==
    ASSUME Types, AnsweredOnce(s2c), Receive \/ \E r \in Calls : Deliver(r)
    PROVE  Types'
<1>1. /\ CallTypes' /\ reqSent' \in Seq(Calls) /\ c2s' \in Seq(Calls)
      /\ closed' \subseteq Calls /\ timedOut' \subseteq Calls
  BY ReceiveFrame, Zenon DEF Types, CallTypes, SeqTypes, ChanTypes
<1>2. /\ svrOpen' \in BOOLEAN /\ broken' \in BOOLEAN /\ svrCrashed' \in BOOLEAN /\ keepAlive' \in BOOLEAN
      /\ overlapped' \in BOOLEAN /\ svr' \in {"accept", "read", "closed"}
      /\ handler' \in [Calls -> {"none", "started", "ok", "error", "unknown", "written"}]
  BY ReceiveFrame, Zenon DEF Types, FlagTypes
<1>3. SUFFICES /\ RecvTypes' /\ s2c' \in Seq(Answer) /\ respChan' \in [Calls -> Answer \cup {Nil}]
               /\ closeChan' \subseteq Calls /\ isRunning' \in BOOLEAN /\ cliOpen' \in BOOLEAN /\ crashed' \in BOOLEAN
  BY <1>1, <1>2, Zenon DEF Types, ChanTypes, SeqTypes, FlagTypes
<1>4. /\ s2c \in Seq(Answer) /\ respChan \in [Calls -> Answer \cup {Nil}] /\ closeChan \subseteq Calls
      /\ isRunning \in BOOLEAN /\ cliOpen \in BOOLEAN /\ crashed \in BOOLEAN /\ RecvTypes
  BY Zenon DEF Types, ChanTypes, SeqTypes, FlagTypes
<1>5. \A e : Advance(e) \in Calls \cup {Nil}
  BY AdvanceLaw, RangeOfSeq DEF Types, SeqTypes
<1>6. CASE recvResponse
  <2>1. /\ UNCHANGED <<respChan, closeChan, isRunning, cliOpen, crashed>> /\ s2c' = Tail(s2c) /\ s2c # <<>>
        /\ did' = [did EXCEPT ![Head(s2c).of] = [at |-> "walk", cur |-> Start, res |-> Head(s2c).res]]
        /\ recv' = recv \/ recv' = [recv EXCEPT !.at = "stopped"]
    BY <1>6, Zenon DEF recvResponse
  <2>2. Head(s2c) \in Answer /\ s2c' \in Seq(Answer)
    BY <1>4, <2>1, TakeAnswer
  <2>3. RecvTypes'
    <3>1. recv' \in [at : {"read", "close", "stopped"}, cur : Calls \cup {Start, Nil}, count : {0, 1}]
      BY <1>4, <2>1 DEF RecvTypes
    <3>2. QED
      BY <1>4, <2>1, <2>2, <3>1, Zenon DEF RecvTypes, Answer
  <2>4. QED
    BY <1>4, <2>1, <2>2, <2>3, Zenon
<1>7. CASE recvError
  <2>1. /\ UNCHANGED <<respChan, closeChan, cliOpen, crashed, s2c, did>> /\ isRunning' \in BOOLEAN
        /\ recv' = [recv EXCEPT !.at = "close"]
    BY <1>7, Zenon DEF recvError, net
  <2>2. RecvTypes'
    BY <1>4, <2>1 DEF RecvTypes
  <2>3. QED
    BY <1>4, <2>1, <2>2, Zenon
<1>8. CASE sendCloseChan
  <2>1. PICK e : e = Advance(recv.cur)
    OBVIOUS
  <2>2. /\ UNCHANGED <<respChan, isRunning, s2c, did>>
        /\ crashed' = (e \in closed) /\ cliOpen' = (cliOpen /\ ~crashed')
        /\ recv' = [recv EXCEPT !.cur = e, !.at = IF e = Nil THEN "stopped" ELSE "close"]
        /\ closeChan' = closeChan \cup ({e} \ (closed \cup {Nil}))
    BY <1>8, <2>1, Zenon DEF sendCloseChan
  <2>3. RecvTypes' /\ closeChan' \subseteq Calls
    BY <1>4, <1>5, <2>1, <2>2, Zenon DEF RecvTypes
  <2>4. crashed' \in BOOLEAN /\ cliOpen' \in BOOLEAN
    BY <1>4, <2>2
  <2>5. QED
    BY <1>4, <2>2, <2>3, <2>4, Zenon
<1>9. ASSUME NEW r \in Calls, didWalk(r)
      PROVE  /\ RecvTypes' /\ s2c' \in Seq(Answer) /\ respChan' \in [Calls -> Answer \cup {Nil}]
             /\ closeChan' \subseteq Calls /\ isRunning' \in BOOLEAN /\ cliOpen' \in BOOLEAN /\ crashed' \in BOOLEAN
  <2>1. PICK e : e = Advance(did[r].cur)
    OBVIOUS
  <2>2. PICK a : /\ a = IF e = Nil THEN "dropped" ELSE IF idx[e] = idx[r] THEN "send" ELSE "walk"
                 /\ UNCHANGED <<respChan, closeChan, isRunning, s2c, cliOpen, crashed, recv>> /\ did[r].at = "walk"
                 /\ Moved(r, e, a)
    BY <1>9, <2>1, Zenon DEF didWalk, net, Moved
  <2>3. e \in Calls \cup {Nil} /\ a \in {"dropped", "send", "walk"} /\ (a = "send" => e \in Calls)
    BY <1>5, <2>1, <2>2
  <2>4. RecvTypes'
    <3>1. did \in [Calls -> Delivery]
      BY <1>4, Zenon DEF RecvTypes, Delivery
    <3>2. e \in Calls \cup {Start, Nil} /\ a \in {"none", "walk", "send", "sent", "dropped"}
      BY <2>3, Zenon
    <3>3. /\ did' \in [Calls -> Delivery] /\ did'[r].at = a /\ did'[r].cur = e /\ did'[r].res = did[r].res
          /\ \A q \in Calls : q # r => did'[q] = did[q]
      BY <2>2, <3>1, <3>2, DeliveryLaw
    <3>4. QED
      BY <1>4, <2>2, <2>3, <3>3 DEF RecvTypes, Delivery
  <2>5. QED
    BY <1>4, <2>2, <2>4, Zenon
<1>10. ASSUME NEW r \in Calls, didSend(r)
       PROVE  /\ RecvTypes' /\ s2c' \in Seq(Answer) /\ respChan' \in [Calls -> Answer \cup {Nil}]
              /\ closeChan' \subseteq Calls /\ isRunning' \in BOOLEAN /\ cliOpen' \in BOOLEAN /\ crashed' \in BOOLEAN
  <2>1. PICK e : e = did[r].cur
    OBVIOUS
  <2>2. /\ UNCHANGED <<closeChan, isRunning, s2c, recv>> /\ did[r].at = "send"
        /\ crashed' = (e \in closed) /\ cliOpen' = (cliOpen /\ ~crashed')
        /\ did' = [did EXCEPT ![r].at = "sent"]
        /\ respChan' = respChan \/ respChan' = [respChan EXCEPT ![e] = [res |-> did[r].res, of |-> r]]
    BY <1>10, <2>1, Zenon DEF didSend
  <2>3. e \in Calls /\ did[r].res \in {"ok", "error"}
    BY <1>4, <2>1, <2>2 DEF RecvTypes
  <2>4. respChan' \in [Calls -> Answer \cup {Nil}]
    BY <1>4, <2>2, <2>3 DEF Answer
  <2>5. RecvTypes'
    BY <1>4, <2>2 DEF RecvTypes
  <2>6. crashed' \in BOOLEAN /\ cliOpen' \in BOOLEAN
    BY <1>4, <2>2
  <2>7. QED
    BY <1>4, <2>2, <2>4, <2>5, <2>6, Zenon
<1>11. QED
  BY <1>6, <1>7, <1>8, <1>9, <1>10, Zenon DEF Receive, Deliver

\* ... the server and the owner of the client.
LEMMA ServerTypesStep ==
    ASSUME Types, NoTwice(c2s), AnsweredOnce(s2c), Close \/ Serve \/ Break \/ \E r \in Calls : Handle(r)
    PROVE  Types'
<1>1. CallTypes' /\ ChanTypes' /\ RecvTypes' /\ reqSent' \in Seq(Calls)
      /\ isRunning' \in BOOLEAN /\ crashed' \in BOOLEAN /\ keepAlive' \in BOOLEAN /\ overlapped' \in BOOLEAN
  BY ServerFrame, Zenon DEF client, Types, CallTypes, ChanTypes, RecvTypes, SeqTypes, FlagTypes
<1>2. /\ c2s \in Seq(Calls) /\ s2c \in Seq(Answer) /\ cliOpen \in BOOLEAN /\ svrOpen \in BOOLEAN
      /\ broken \in BOOLEAN /\ svrCrashed \in BOOLEAN /\ svr \in {"accept", "read", "closed"}
  BY Zenon DEF Types, SeqTypes, FlagTypes
<1>3. handler \in [Calls -> {"none", "started", "ok", "error", "unknown", "written"}]
  BY DEF Types, FlagTypes
<1>4. SUFFICES /\ c2s' \in Seq(Calls) /\ s2c' \in Seq(Answer) /\ cliOpen' \in BOOLEAN /\ svrOpen' \in BOOLEAN
               /\ broken' \in BOOLEAN /\ svrCrashed' \in BOOLEAN /\ svr' \in {"accept", "read", "closed"}
               /\ handler' \in [Calls -> {"none", "started", "ok", "error", "unknown", "written"}]
  BY <1>1, Zenon DEF Types, SeqTypes, FlagTypes
<1>5. CASE Close
  BY <1>2, <1>3, <1>5, Zenon DEF Close, server
<1>6. CASE Accept
  <2>1. svr' = "read" /\ UNCHANGED <<c2s, s2c, cliOpen, svrOpen, broken, svrCrashed, handler>>
    BY <1>6, Zenon DEF Accept, net
  <2>2. QED
    BY <1>2, <1>3, <2>1, Zenon
<1>7. CASE readRequest
  <2>1. /\ UNCHANGED <<s2c, cliOpen, svrOpen, broken, svr, svrCrashed>> /\ c2s # <<>> /\ c2s' = Tail(c2s)
        /\ handler' = [handler EXCEPT ![Head(c2s)] = "started"]
    BY <1>7, Zenon DEF readRequest
  <2>2. c2s' \in Seq(Calls) /\ Head(c2s) \in Calls
    BY <1>2, <2>1, TakeLaw
  <2>3. handler' \in [Calls -> {"none", "started", "ok", "error", "unknown", "written"}]
    BY <1>3, <2>1, <2>2
  <2>4. QED
    BY <1>2, <2>1, <2>2, <2>3, Zenon
<1>8. CASE readError
  <2>1. svr' = "closed" /\ svrOpen' = FALSE /\ UNCHANGED <<c2s, s2c, cliOpen, broken, handler, svrCrashed>>
    BY <1>8, Zenon DEF readError
  <2>2. QED
    BY <1>2, <1>3, <2>1, Zenon
<1>9. CASE Break
  BY <1>2, <1>3, <1>9, Zenon DEF Break, server
<1>10. ASSUME NEW r \in Calls, handleRequest(r)
       PROVE  /\ c2s' \in Seq(Calls) /\ s2c' \in Seq(Answer) /\ cliOpen' \in BOOLEAN /\ svrOpen' \in BOOLEAN
              /\ broken' \in BOOLEAN /\ svrCrashed' \in BOOLEAN /\ svr' \in {"accept", "read", "closed"}
              /\ handler' \in [Calls -> {"none", "started", "ok", "error", "unknown", "written"}]
  <2>1. /\ UNCHANGED <<c2s, s2c, cliOpen, broken, svr>> /\ svrOpen' \in BOOLEAN /\ svrCrashed' \in BOOLEAN
        /\ \E res \in {"ok", "error", "unknown"} : handler' = [handler EXCEPT ![r] = res]
    BY <1>10, Zenon DEF handleRequest
  <2>2. handler' \in [Calls -> {"none", "started", "ok", "error", "unknown", "written"}]
    BY <1>3, <2>1
  <2>3. QED
    BY <1>2, <2>1, <2>2, Zenon
<1>11. ASSUME NEW r \in Calls, writeResponse(r)
       PROVE  /\ c2s' \in Seq(Calls) /\ s2c' \in Seq(Answer) /\ cliOpen' \in BOOLEAN /\ svrOpen' \in BOOLEAN
              /\ broken' \in BOOLEAN /\ svrCrashed' \in BOOLEAN /\ svr' \in {"accept", "read", "closed"}
              /\ handler' \in [Calls -> {"none", "started", "ok", "error", "unknown", "written"}]
  <2>1. /\ UNCHANGED <<c2s, cliOpen, broken, svr>>
        /\ svrOpen' \in {svrOpen, FALSE} /\ svrCrashed' \in {svrCrashed, TRUE}
        /\ handler[r] \in {"ok", "error"} /\ handler' = [handler EXCEPT ![r] = "written"]
        /\ s2c' = s2c \/ s2c' = Append(s2c, [res |-> handler[r], of |-> r])
    BY <1>11, Zenon DEF writeResponse
  <2>2. [res |-> handler[r], of |-> r] \in Answer
    BY <2>1 DEF Answer
  <2>3. s2c' \in Seq(Answer)
    <3>1. Append(s2c, [res |-> handler[r], of |-> r]) \in Seq(Answer)
      BY <1>2, <2>2, AppendProperties, Zenon
    <3>2. QED
      BY <1>2, <2>1, <3>1, Zenon
  <2>4. handler' \in [Calls -> {"none", "started", "ok", "error", "unknown", "written"}]
    BY <1>3, <2>1
  <2>5. QED
    BY <1>2, <2>1, <2>3, <2>4, Zenon
<1>12. QED
  BY <1>5, <1>6, <1>7, <1>8, <1>9, <1>10, <1>11, Zenon DEF Serve, Handle

-----------------------------------------------------------------------------
(* The invariants, step by step *)

\* Client.Call changes its own place, cursor and outcome only.
LEMMA OthersLaw ==
    ASSUME CallTypes, NEW c \in Calls, Call(c) \/ CallStep(c), NEW d \in Calls, d # c
    PROVE  pc'[d] = pc[d] /\ cur'[d] = cur[d] /\ out'[d] = out[d] /\ idx'[d] = idx[d]
<1>1. CASE Call(c)
  BY <1>1 DEF Call, CallTypes
<1>2. CASE Write(c)
  BY <1>2 DEF Write, CallTypes
<1>3. CASE Select(c)
  BY <1>3 DEF Select, CallTypes
<1>4. CASE removeReq(c)
  BY <1>4 DEF removeReq, CallTypes
<1>5. CASE removeReqUnlink(c)
  BY <1>5 DEF removeReqUnlink, CallTypes
<1>6. QED
  BY <1>1, <1>2, <1>3, <1>4, <1>5, Zenon DEF CallStep

\* From place to place; the register is left by removal alone.
LEMMA PlaceLaw ==
    ASSUME CallTypes, SeqTypes, NEW c \in Calls, CallStep(c)
    PROVE  /\ Active(c) /\ pc'[c] # "idle" /\ pc'[c] # "registered" /\ UNCHANGED <<counter, idx, overlapped>>
           /\ Range(reqSent') \subseteq Range(reqSent)
<1>1. CASE Write(c) \/ Select(c)
  BY <1>1 DEF Write, Select, CallTypes, Active, fixed
<1>2. CASE removeReq(c)
  BY <1>2 DEF removeReq, CallTypes, Active, fixed
<1>3. CASE removeReqUnlink(c)
  <2>1. Range(reqSent') \subseteq Range(reqSent)
    BY <1>3, RemoveLaw DEF removeReqUnlink, SeqTypes
  <2>2. QED
    BY <1>3, <2>1 DEF removeReqUnlink, CallTypes, Active, fixed
<1>4. QED
  BY <1>1, <1>2, <1>3 DEF CallStep

\* A call that is registered gets the next number.
LEMMA RegisterLaw ==
    ASSUME Types, Numbered, NEW c \in Calls, pc[c] = "idle",
           counter' = counter + 1, idx' = [idx EXCEPT ![c] = index(counter + 1)], reqSent' = Append(reqSent, c),
           pc' = [pc EXCEPT ![c] = "registered"]
    PROVE  Numbered'
<1> DEFINE N == {d \in Calls : idx[d] # 0}
<1>1. c \notin N /\ N \subseteq Calls /\ N \cup {c} \subseteq Calls
  BY DEF Numbered
<1>2. IsFiniteSet(N) /\ IsFiniteSet(N \cup {c}) /\ Cardinality(N) = counter
      /\ Cardinality(N \cup {c}) = counter + 1 /\ Cardinality(N \cup {c}) <= Cardinality(Calls)
  BY <1>1, CallAssumption, FS_Subset, FS_AddElement DEF Numbered
<1>3. counter \in Nat /\ Cardinality(Calls) \in Nat
  BY CallAssumption, FS_CardinalityType DEF Types, CallTypes
<1>4. index(counter + 1) = counter + 1
  BY <1>2, <1>3, CallAssumption, IndexLaw
<1>5. /\ idx'[c] = counter + 1 /\ pc'[c] = "registered"
      /\ \A d \in Calls : d # c => idx'[d] = idx[d] /\ pc'[d] = pc[d]
  BY <1>4 DEF Types, CallTypes
<1>6. {d \in Calls : idx'[d] # 0} = N \cup {c}
  BY <1>3, <1>5
<1>7. \A d \in Calls : idx[d] \in Nat /\ idx[d] <= counter
  BY DEF Types, CallTypes, Numbered
<1>8. \A d \in Calls : idx'[d] <= counter'
  BY <1>3, <1>5, <1>7
<1>9. ASSUME NEW d \in Calls, NEW e \in Calls, idx'[d] = idx'[e], idx'[d] # 0 PROVE d = e
  <2>1. idx[d] # counter + 1 /\ idx[e] # counter + 1
    BY <1>3, <1>7
  <2>2. CASE d = c \/ e = c
    BY <1>5, <1>9, <2>1, <2>2, Zenon
  <2>3. CASE d # c /\ e # c
    <3>1. idx[d] = idx[e] /\ idx[d] # 0
      BY <1>5, <1>9, <2>3, Zenon
    <3>2. QED
      BY <3>1, Zenon DEF Numbered
  <2>4. QED
    BY <2>2, <2>3, Zenon
<1>10. \A d \in Calls : (pc'[d] = "idle" => idx'[d] = 0) /\ (Active(d)' => idx'[d] # 0)
  BY <1>3, <1>5 DEF Numbered, Active
<1>11. Range(reqSent') = Range(reqSent) \cup {c}
  BY AddLaw DEF Types, SeqTypes
<1>12. \A d \in Calls : d \in Range(reqSent') => idx'[d] # 0
  BY <1>3, <1>5, <1>11 DEF Numbered
<1> HIDE DEF N
<1>13. QED
  BY <1>2, <1>6, <1>8, <1>9, <1>10, <1>12, Zenon DEF Numbered

LEMMA NumberedStep ==
    ASSUME Types, Numbered, [Next]_vars
    PROVE  Numbered'
<1>0. CallTypes /\ SeqTypes
  BY Zenon DEF Types
<1>1. ASSUME UNCHANGED <<counter, idx>>, Range(reqSent') \subseteq Range(reqSent),
             \A c \in Calls : (pc'[c] = "idle" => pc[c] = "idle") /\ (Active(c)' => Active(c))
      PROVE  Numbered'
  BY <1>1 DEF Numbered
<1>2. ASSUME NEW c \in Calls, Call(c) PROVE Numbered'
  <2>1. CASE isRunning
    BY <1>2, <2>1, RegisterLaw, Zenon DEF Call
  <2>2. CASE ~isRunning
    <3>1. UNCHANGED <<counter, idx, reqSent>> /\ pc' = [pc EXCEPT ![c] = "done"]
      BY <1>2, <2>2, Zenon DEF Call
    <3>2. \A d \in Calls : (pc'[d] = "idle" => pc[d] = "idle") /\ (Active(d)' => Active(d))
      BY <1>0, <3>1 DEF CallTypes, Active
    <3>3. QED
      BY <1>1, <3>1, <3>2
  <2>3. QED
    BY <2>1, <2>2
<1>3. ASSUME NEW c \in Calls, CallStep(c) PROVE Numbered'
  <2>1. \A d \in Calls : (pc'[d] = "idle" => pc[d] = "idle") /\ (Active(d)' => Active(d))
    BY <1>0, <1>3, OthersLaw, PlaceLaw DEF Active
  <2>2. QED
    BY <1>0, <1>1, <1>3, <2>1, PlaceLaw, Zenon
<1>4. CASE UNCHANGED <<counter, idx, reqSent, pc>>
  BY <1>1, <1>4 DEF Active
<1>5. QED
  BY <1>2, <1>3, <1>4, ServerFrame, ReceiveFrame, Zenon DEF Next, vars, client

\* An index leads a walk to its own call.
LEMMA MatchLaw ==
    ASSUME Types, Numbered, NEW x, NEW c \in Calls, Advance(x) # Nil, idx[Advance(x)] = idx[c]
    PROVE  Advance(x) = c
<1>1. Advance(x) \in Range(reqSent) /\ Advance(x) \in Calls
  BY AdvanceLaw, RangeOfSeq DEF Types, SeqTypes
<1>2. QED
  BY <1>1, Zenon DEF Numbered

\* A step that takes a request nowhere.
LEMMA WayRest ==
    ASSUME NEW d \in Calls, WayOf(d), pc'[d] = pc[d], idx'[d] = idx[d], did'[d] = did[d],
           respChan'[d] = respChan[d], handler'[d] = handler[d],
           d \in Range(c2s') => d \in Range(c2s), d \in Answered(s2c') => d \in Answered(s2c)
    PROVE  WayOf(d)'
BY Zenon DEF WayOf

\* The steps of a call.
LEMMA WayCall ==
    ASSUME Types, Numbered, Numbered', Way, NEW c \in Calls, Call(c) \/ CallStep(c)
    PROVE  Way'
<1>0. CallTypes /\ SeqTypes /\ WayOf(c) /\ \A d \in Calls : WayOf(d)
  BY Zenon DEF Types, Way
<1>1. UNCHANGED <<s2c, handler, did, respChan>>
  BY CallFrame, Zenon
<1>2. \A d \in Calls : d # c => pc'[d] = pc[d] /\ idx'[d] = idx[d]
  BY <1>0, OthersLaw, Zenon
<1>3. CASE Write(c)
  <2>1. /\ pc[c] = "registered" /\ pc'[c] \in {"waiting", "remove"} /\ idx'[c] = idx[c]
        /\ c2s' = c2s \/ c2s' = Append(c2s, c)
    BY <1>0, <1>3 DEF Write, CallTypes
  <2>2. c \notin Range(c2s) /\ handler[c] = "none"
    BY <1>0, <2>1, Zenon DEF WayOf
  <2>3. NoTwice(c2s') /\ \A d : d \in Range(c2s') => d \in Range(c2s) \/ d = c
    <3>1. NoTwice(c2s) /\ c2s \in Seq(Calls)
      BY <1>0, Zenon DEF Way, SeqTypes
    <3>2. CASE c2s' = c2s
      BY <3>1, <3>2, Zenon
    <3>3. CASE c2s' = Append(c2s, c)
      <4>1. Range(Append(c2s, c)) = Range(c2s) \cup {c} /\ NoTwice(Append(c2s, c))
        BY <2>2, <3>1, AddLaw, Zenon
      <4>2. QED
        BY <3>3, <4>1, Zenon
    <3>4. QED
      BY <2>1, <3>2, <3>3
  <2>4. idx[c] # 0
    BY <2>1, Zenon DEF Numbered, Active
  <2>5. WayOf(c)'
    BY <1>0, <1>1, <2>1, <2>2, <2>4, Zenon DEF WayOf
  <2>6. ASSUME NEW d \in Calls, d # c PROVE WayOf(d)'
    BY <1>0, <1>1, <1>2, <2>3, <2>6, WayRest, Zenon
  <2>7. QED
    BY <1>1, <2>3, <2>5, <2>6, Zenon DEF Way
<1>4. CASE Call(c)
  <2>1. pc[c] = "idle" /\ c2s' = c2s
    BY <1>4, Zenon DEF Call, net
  <2>2. WayOf(c)'
    BY <1>0, <1>1, <2>1, Zenon DEF WayOf
  <2>3. ASSUME NEW d \in Calls, d # c PROVE WayOf(d)'
    BY <1>0, <1>1, <1>2, <2>1, <2>3, WayRest, Zenon
  <2>4. QED
    BY <1>1, <2>1, <2>2, <2>3, Zenon DEF Way
<1>5. CASE Select(c) \/ removeReq(c) \/ removeReqUnlink(c)
  <2>1. c2s' = c2s
    BY <1>5, Zenon DEF Select, removeReq, removeReqUnlink, net
  <2>2. pc'[c] \notin {"idle", "registered"} /\ idx' = idx
    BY <1>0, <1>5, PlaceLaw DEF CallStep
  <2>3. WayOf(c)'
    BY <1>0, <1>1, <2>1, <2>2, Zenon DEF WayOf
  <2>4. ASSUME NEW d \in Calls, d # c PROVE WayOf(d)'
    BY <1>0, <1>1, <1>2, <2>1, <2>4, WayRest, Zenon
  <2>5. QED
    BY <1>1, <2>1, <2>3, <2>4, Zenon DEF Way
<1>6. QED
  BY <1>3, <1>4, <1>5, Zenon DEF CallStep

\* The client's receiving goroutines.
LEMMA WayReceive ==
    ASSUME Types, Numbered, Way, Receive \/ \E r \in Calls : Deliver(r)
    PROVE  Way'
<1>0. RecvTypes /\ SeqTypes /\ \A d \in Calls : WayOf(d)
  BY Zenon DEF Types, Way
<1>1. UNCHANGED <<c2s, handler, pc, idx>>
  BY ReceiveFrame, Zenon
<1>2. CASE UNCHANGED <<s2c, did, respChan>>
  BY <1>1, <1>2, Zenon DEF Way, WayOf
<1>3. CASE recvResponse
  <2>1. PICK h : h = Head(s2c).of
    OBVIOUS
  <2>2. /\ s2c # <<>> /\ s2c' = Tail(s2c) /\ respChan' = respChan
        /\ did' = [did EXCEPT ![h] = [at |-> "walk", cur |-> Start, res |-> Head(s2c).res]]
    BY <1>3, <2>1, Zenon DEF recvResponse
  <2>3. /\ h \in Calls /\ h \in Answered(s2c) /\ AnsweredOnce(s2c')
        /\ \A c : c \in Answered(s2c') <=> c \in Answered(s2c) /\ c # h
    BY <1>0, <2>1, <2>2, TakeAnswer, Zenon DEF SeqTypes, Way, Answer
  <2>4. did'[h].at = "walk" /\ \A d \in Calls : d # h => did'[d] = did[d]
    BY <1>0, <2>2, <2>3 DEF RecvTypes
  <2>5. WayOf(h)'
    BY <1>0, <1>1, <2>2, <2>3, <2>4, Zenon DEF WayOf
  <2>6. ASSUME NEW d \in Calls, d # h PROVE WayOf(d)'
    BY <1>0, <1>1, <2>2, <2>3, <2>4, <2>6, WayRest, Zenon
  <2>7. QED
    BY <1>1, <2>3, <2>5, <2>6, Zenon DEF Way
<1>4. ASSUME NEW r \in Calls, didWalk(r) PROVE Way'
  <2>1. PICK e : e = Advance(did[r].cur)
    OBVIOUS
  <2>2. PICK a : /\ a = IF e = Nil THEN "dropped" ELSE IF idx[e] = idx[r] THEN "send" ELSE "walk"
                 /\ UNCHANGED <<respChan, s2c>> /\ did[r].at = "walk" /\ did' = [did EXCEPT ![r].cur = e, ![r].at = a]
    BY <1>4, <2>1, Zenon DEF didWalk, net
  <2>3. did'[r].at = a /\ did'[r].cur = e /\ \A d \in Calls : d # r => did'[d] = did[d]
    BY <1>0, <2>2 DEF RecvTypes
  <2>4. (a = "send" => e = r) /\ a \notin {"none", "sent"}
    BY <2>1, <2>2, MatchLaw, Zenon
  <2>5. WayOf(r)'
    BY <1>0, <1>1, <2>2, <2>3, <2>4, Zenon DEF WayOf
  <2>6. ASSUME NEW d \in Calls, d # r PROVE WayOf(d)'
    BY <1>0, <1>1, <2>2, <2>3, <2>6, WayRest, Zenon
  <2>7. QED
    BY <1>1, <2>2, <2>5, <2>6, Zenon DEF Way
<1>5. ASSUME NEW r \in Calls, didSend(r) PROVE Way'
  <2>1. did[r].at = "send" /\ did[r].cur = r
    BY <1>0, <1>5, Zenon DEF WayOf, didSend
  <2>2. /\ did' = [did EXCEPT ![r].at = "sent"] /\ s2c' = s2c
        /\ respChan' = respChan \/ respChan' = [respChan EXCEPT ![r] = [res |-> did[r].res, of |-> r]]
    BY <1>5, <2>1 DEF didSend
  <2>3. did'[r].at = "sent" /\ \A d \in Calls : d # r => did'[d] = did[d] /\ respChan'[d] = respChan[d]
    BY <1>0, <2>2 DEF RecvTypes, Types, ChanTypes
  <2>4. respChan'[r] = respChan[r] \/ respChan'[r].of = r
    BY <2>2 DEF Types, ChanTypes
  <2>5. WayOf(r)'
    BY <1>0, <1>1, <2>1, <2>2, <2>3, <2>4, Zenon DEF WayOf
  <2>6. ASSUME NEW d \in Calls, d # r PROVE WayOf(d)'
    BY <1>0, <1>1, <2>2, <2>3, <2>6, WayRest, Zenon
  <2>7. QED
    BY <1>1, <2>2, <2>5, <2>6, Zenon DEF Way
<1>6. recvError \/ sendCloseChan => UNCHANGED <<s2c, did, respChan>>
  BY Zenon DEF recvError, sendCloseChan, net
<1>7. QED
  BY <1>2, <1>3, <1>4, <1>5, <1>6, Zenon DEF Receive, Deliver

\* The server and the owner of the client.
LEMMA WayServer ==
    ASSUME Types, Way, Close \/ Serve \/ Break \/ \E r \in Calls : Handle(r)
    PROVE  Way'
<1>0. SeqTypes /\ NoTwice(c2s) /\ AnsweredOnce(s2c) /\ \A d \in Calls : WayOf(d)
  BY Zenon DEF Types, Way
<1>1. UNCHANGED <<did, respChan, pc, idx>>
  BY ServerFrame, Zenon DEF client
<1>2. CASE UNCHANGED <<c2s, s2c, handler>>
  BY <1>1, <1>2, Zenon DEF Way, WayOf
<1>3. CASE readRequest
  <2>1. PICK h : h = Head(c2s)
    OBVIOUS
  <2>2. c2s # <<>> /\ c2s' = Tail(c2s) /\ s2c' = s2c /\ handler' = [handler EXCEPT ![h] = "started"]
    BY <1>3, <2>1, Zenon DEF readRequest
  <2>3. h \in Calls /\ h \in Range(c2s) /\ NoTwice(c2s') /\ \A c : c \in Range(c2s') <=> c \in Range(c2s) /\ c # h
    BY <1>0, <2>1, <2>2, TakeLaw, Zenon DEF SeqTypes
  <2>4. handler'[h] = "started" /\ \A d \in Calls : d # h => handler'[d] = handler[d]
    BY <2>2, <2>3, Zenon DEF Types, FlagTypes
  <2>5. WayOf(h)'
    BY <1>0, <1>1, <2>2, <2>3, <2>4, Zenon DEF WayOf
  <2>6. ASSUME NEW d \in Calls, d # h PROVE WayOf(d)'
    BY <1>0, <1>1, <2>2, <2>3, <2>4, <2>6, WayRest, Zenon
  <2>7. QED
    BY <1>0, <2>2, <2>3, <2>5, <2>6, Zenon DEF Way
<1>4. ASSUME NEW r \in Calls, handleRequest(r) PROVE Way'
  <2>1. PICK x \in {"ok", "error", "unknown"} : handler' = [handler EXCEPT ![r] = x]
    BY <1>4, Zenon DEF handleRequest
  <2>2. handler[r] = "started" /\ UNCHANGED <<c2s, s2c>>
    BY <1>4, Zenon DEF handleRequest
  <2>3. handler'[r] = x /\ \A d \in Calls : d # r => handler'[d] = handler[d]
    BY <2>1, Zenon DEF Types, FlagTypes
  <2>4. WayOf(r)'
    BY <1>0, <1>1, <2>2, <2>3, Zenon DEF WayOf
  <2>5. ASSUME NEW d \in Calls, d # r PROVE WayOf(d)'
    BY <1>0, <1>1, <2>2, <2>3, <2>5, WayRest, Zenon
  <2>6. QED
    BY <1>0, <2>2, <2>4, <2>5, Zenon DEF Way
<1>5. ASSUME NEW r \in Calls, writeResponse(r) PROVE Way'
  <2>1. /\ handler[r] \in {"ok", "error"} /\ handler' = [handler EXCEPT ![r] = "written"] /\ c2s' = c2s
        /\ s2c' = s2c \/ s2c' = Append(s2c, [res |-> handler[r], of |-> r])
    BY <1>5, Zenon DEF writeResponse
  <2>2. handler'[r] = "written" /\ \A d \in Calls : d # r => handler'[d] = handler[d]
    BY <2>1, Zenon DEF Types, FlagTypes
  <2>3. /\ r \notin Answered(s2c) /\ [res |-> handler[r], of |-> r] \in Answer
        /\ did[r].at = "none" /\ handler[r] # "none"
    <3>1. WayOf(r)
      BY <1>0, Zenon
    <3>2. r \notin Answered(s2c) /\ did[r].at = "none" /\ handler[r] # "none"
      BY <2>1, <3>1 DEF WayOf
    <3>3. QED
      BY <2>1, <3>2 DEF Answer
  <2>4. AnsweredOnce(s2c') /\ \A c : c \in Answered(s2c') => c \in Answered(s2c) \/ c = r
    <3>1. CASE s2c' = s2c
      BY <1>0, <3>1, Zenon
    <3>2. CASE s2c' = Append(s2c, [res |-> handler[r], of |-> r])
      <4>0. [res |-> handler[r], of |-> r].of = r
        OBVIOUS
      <4>1. PICK a : a = [res |-> handler[r], of |-> r] /\ a.of = r
        BY <4>0, Zenon
      <4>2. /\ AnsweredOnce(Append(s2c, a))
            /\ \A c : c \in Answered(Append(s2c, a)) <=> c \in Answered(s2c) \/ c = a.of
        BY <1>0, <2>3, <4>1, AddAnswer, Zenon DEF SeqTypes
      <4>3. QED
        BY <3>2, <4>1, <4>2, Zenon
    <3>3. QED
      BY <2>1, <3>1, <3>2, Zenon
  <2>5. WayOf(r)'
    BY <1>0, <1>1, <2>1, <2>2, <2>3 DEF WayOf
  <2>6. ASSUME NEW d \in Calls, d # r PROVE WayOf(d)'
    BY <1>0, <1>1, <2>1, <2>2, <2>4, <2>6, WayRest, Zenon
  <2>7. QED
    BY <1>0, <2>1, <2>4, <2>5, <2>6, Zenon DEF Way
<1>6. Close \/ Accept \/ readError \/ Break => UNCHANGED <<c2s, s2c, handler>>
  BY Zenon DEF Close, Accept, readError, Break, net, server
<1>7. QED
  BY <1>2, <1>3, <1>4, <1>5, <1>6, Zenon DEF Serve, Handle

\* A call's outcome is for its own request.
LEMMA CorrelatedStep ==
    ASSUME Types, Way, Correlated, [Next]_vars
    PROVE  Correlated'
<1>0. CallTypes /\ \A c \in Calls : WayOf(c)
  BY Zenon DEF Types, Way
<1>1. ASSUME NEW c \in Calls, Call(c) \/ CallStep(c) PROVE Correlated'
  <2>1. \A d \in Calls : d # c => out'[d] = out[d]
    BY <1>0, <1>1, OthersLaw, Zenon
  <2>2. out'[c].of \in {Nil, c}
    <3>1. CASE Select(c)
      <4>1. CASE out' = [out EXCEPT ![c] = respChan[c]] /\ respChan[c] # Nil
        BY <1>0, <4>1 DEF WayOf, CallTypes
      <4>2. CASE \E x : out' = [out EXCEPT ![c].res = x]
        BY <1>0, <4>2 DEF CallTypes, Correlated
      <4>3. QED
        BY <3>1, <4>1, <4>2, Zenon DEF Select
    <3>2. CASE out' = out
      BY <3>2, Zenon DEF Correlated
    <3>3. CASE out' = [out EXCEPT ![c].res = "panic"]
      BY <1>0, <3>3, Zenon DEF CallTypes, Correlated
    <3>4. Call(c) \/ Write(c) \/ removeReq(c) \/ removeReqUnlink(c)
          => out' = out \/ out' = [out EXCEPT ![c].res = "panic"]
      BY Zenon DEF Call, Write, removeReq, removeReqUnlink
    <3>5. QED
      BY <1>1, <3>1, <3>2, <3>3, <3>4, Zenon DEF CallStep
  <2>3. QED
    BY <2>1, <2>2, Zenon DEF Correlated
<1>2. CASE out' = out
  BY <1>2, Zenon DEF Correlated
<1>3. QED
  BY <1>1, <1>2, ServerFrame, ReceiveFrame, Zenon DEF Next, vars, client

\* A call that left the select stays without an answer to come.
LEMMA LeftStays ==
    ASSUME Types, Way, [Next]_vars, NEW c \in Calls, Left(c), pc[c] # "registered", pc[c] # "idle"
    PROVE  Left(c)'
<1>0. SeqTypes /\ RecvTypes /\ NoTwice(c2s) /\ AnsweredOnce(s2c) /\ WayOf(c)
  BY Zenon DEF Types, Way
<1>1. ASSUME timedOut \subseteq timedOut', isRunning' => isRunning, did[c].at = "sent" => did'[c].at = "sent",
             c \notin Range(c2s) /\ handler[c] = "none" => c \notin Range(c2s') /\ handler'[c] = "none"
      PROVE  Left(c)'
  BY <1>1 DEF Left
<1>2. ASSUME NEW d \in Calls, Call(d) \/ CallStep(d) PROVE Left(c)'
  <2>1. UNCHANGED <<isRunning, did, handler>>
    BY <1>2, CallFrame, Zenon
  <2>2. timedOut \subseteq timedOut'
    BY <1>2 DEF Call, CallStep, Write, Select, removeReq, removeReqUnlink
  <2>3. c2s' = c2s \/ (c # d /\ c2s' = Append(c2s, d))
    BY <1>2, Zenon DEF Call, CallStep, Write, Select, removeReq, removeReqUnlink, net
  <2>4. c \notin Range(c2s) => c \notin Range(c2s')
    <3>1. CASE c2s' = Append(c2s, d) /\ c # d
      BY <1>0, <3>1, AddLaw DEF SeqTypes
    <3>2. QED
      BY <2>3, <3>1, Zenon
  <2>5. QED
    BY <1>1, <2>1, <2>2, <2>4, Zenon
<1>3. CASE Receive \/ \E r \in Calls : Deliver(r)
  <2>1. UNCHANGED <<timedOut, c2s, handler>>
    BY <1>3, ReceiveFrame, Zenon
  <2>2. timedOut \subseteq timedOut'
    BY <2>1
  <2>3. isRunning' => isRunning
    BY <1>3, Zenon DEF Receive, recvResponse, recvError, sendCloseChan, Deliver, didWalk, didSend
  <2>4. did[c].at = "sent" => did'[c].at = "sent"
    <3>1. CASE recvResponse
      <4>1. Head(s2c).of \in Answered(s2c) /\ Head(s2c).of \in Calls
        BY <1>0, <3>1, TakeAnswer, Zenon DEF recvResponse, SeqTypes, Answer
      <4>2. Head(s2c).of = c => did[c].at = "none"
        BY <1>0, <4>1, Zenon DEF WayOf
      <4>3. QED
        BY <1>0, <3>1, <4>1, <4>2, Zenon DEF recvResponse, RecvTypes
    <3>2. ASSUME NEW r \in Calls, didWalk(r) PROVE did[c].at = "sent" => did'[c].at = "sent"
      BY <1>0, <3>2 DEF didWalk, RecvTypes
    <3>3. ASSUME NEW r \in Calls, didSend(r) PROVE did[c].at = "sent" => did'[c].at = "sent"
      BY <1>0, <3>3 DEF didSend, RecvTypes
    <3>4. recvError \/ sendCloseChan => did' = did
      BY Zenon DEF recvError, sendCloseChan
    <3>5. QED
      BY <1>3, <3>1, <3>2, <3>3, <3>4, Zenon DEF Receive, Deliver
  <2>5. QED
    BY <1>1, <2>1, <2>2, <2>3, <2>4, Zenon
<1>4. CASE Close \/ Serve \/ Break \/ \E r \in Calls : Handle(r)
  <2>1. UNCHANGED <<timedOut, isRunning, did>>
    BY <1>4, ServerFrame, Zenon DEF client
  <2>2. timedOut \subseteq timedOut'
    BY <2>1
  <2>3. c \notin Range(c2s) /\ handler[c] = "none" => c \notin Range(c2s') /\ handler'[c] = "none"
    <3>1. CASE readRequest
      <4>1. Head(c2s) \in Range(c2s) /\ Head(c2s) \in Calls /\ \A d : d \in Range(c2s') => d \in Range(c2s)
        BY <1>0, <3>1, TakeLaw, Zenon DEF readRequest, SeqTypes
      <4>2. c \notin Range(c2s) => handler'[c] = handler[c]
        BY <3>1, <4>1, Zenon DEF readRequest, Types, FlagTypes
      <4>3. QED
        BY <4>1, <4>2, Zenon
    <3>2. ASSUME NEW r \in Calls, Handle(r) PROVE c2s' = c2s /\ (handler[c] = "none" => handler'[c] = "none")
      BY <3>2 DEF Handle, handleRequest, writeResponse, Types, FlagTypes
    <3>3. Close \/ Accept \/ readError \/ Break => UNCHANGED <<c2s, handler>>
      BY Zenon DEF Close, Accept, readError, Break, net, server
    <3>4. QED
      BY <1>4, <3>1, <3>2, <3>3, Zenon DEF Serve
  <2>4. QED
    BY <1>1, <2>1, <2>2, <2>3, Zenon
<1>5. CASE UNCHANGED vars
  BY <1>5, Zenon DEF vars, client, net, server, Left
<1>6. QED
  BY <1>2, <1>3, <1>4, <1>5, Zenon DEF Next

\* What a step of a call does to closed channels.
LEMMA ClosingCall ==
    ASSUME Types, Numbered, Way, Closing, NEW c \in Calls, Call(c) \/ CallStep(c)
    PROVE  Closing'
<1>0. CallTypes /\ WayOf(c) /\ ClosingOf(c) /\ [Next]_vars
  BY Zenon DEF Types, Way, Closing, Next
<1>1. UNCHANGED <<isRunning, closeChan, recv, crashed, did, respChan, handler>>
  BY CallFrame, Zenon
<1>2. timedOut \subseteq timedOut'
  BY DEF Call, CallStep, Write, Select, removeReq, removeReqUnlink
<1>3. /\ recv'.at = "close" \/ closeChan' # {} => ~isRunning'
      /\ crashed' => timedOut' # {} \/ ~isRunning'
  BY <1>1, <1>2, Zenon DEF Closing
<1>4. closed' = closed \/ (removeReq(c) /\ closed' = closed \cup {c})
  <2>1. CASE removeReq(c)
    BY <2>1, MatchLaw, Zenon DEF removeReq
  <2>2. QED
    BY <2>1, Zenon DEF Call, CallStep, Write, Select, removeReqUnlink
<1>5. ASSUME NEW d \in Calls, d # c PROVE ClosingOf(d)'
  <2>1. pc'[d] = pc[d] /\ cur'[d] = cur[d] /\ (d \in closed' <=> d \in closed) /\ ClosingOf(d)
    BY <1>0, <1>4, <1>5, OthersLaw, Zenon DEF Closing
  <2>2. pc[d] \in {"remove", "unlink", "done"} /\ Left(d) => Left(d)'
    BY <1>0, LeftStays
  <2>3. QED
    BY <2>1, <2>2, Zenon DEF ClosingOf
<1>6. ClosingOf(c)'
  <2>1. CASE Call(c)
    <3>1. pc[c] = "idle" /\ pc'[c] \in {"registered", "done"} /\ closed' = closed
      BY <1>0, <2>1, Zenon DEF Call, CallTypes
    <3>2. QED
      BY <1>0, <3>1 DEF ClosingOf
  <2>2. CASE Write(c)
    <3>1. /\ pc[c] = "registered" /\ closed' = closed
          /\ pc'[c] = "waiting" \/ (pc'[c] = "remove" /\ c2s' = c2s)
      BY <1>0, <2>2, Zenon DEF Write, CallTypes
    <3>2. pc'[c] = "remove" => Left(c)'
      BY <1>0, <1>1, <3>1, Zenon DEF WayOf, Left
    <3>3. QED
      BY <1>0, <3>1, <3>2, Zenon DEF ClosingOf
  <2>3. CASE Select(c)
    <3>1. /\ pc[c] = "waiting" /\ closed' = closed /\ pc'[c] = "remove"
          /\ c \in timedOut' \/ respChan[c] # Nil \/ c \in closeChan
      BY <1>0, <2>3, Zenon DEF Select, CallTypes
    <3>2. Left(c)'
      BY <1>0, <1>1, <3>1, Zenon DEF WayOf, Left, Closing
    <3>3. QED
      BY <1>0, <3>1, <3>2, Zenon DEF ClosingOf
  <2>4. CASE removeReq(c)
    <3>1. PICK e : e = Advance(cur[c])
      BY Zenon
    <3>2. /\ pc[c] = "remove" /\ cur'[c] = e
          /\ pc'[c] = IF e = Nil THEN "done" ELSE IF idx[e] = idx[c] THEN "unlink" ELSE "remove"
          /\ closed' = IF e # Nil /\ idx[e] = idx[c] THEN closed \cup {e} ELSE closed
      BY <1>0, <2>4, <3>1 DEF removeReq, CallTypes
    <3>3. e # Nil /\ idx[e] = idx[c] => e = c
      BY <3>1, MatchLaw, Zenon
    <3>4. Left(c)' /\ c \notin closed
      BY <1>0, <3>2, LeftStays, Zenon DEF ClosingOf
    <3>5. QED
      BY <3>2, <3>3, <3>4 DEF ClosingOf
  <2>5. CASE removeReqUnlink(c)
    <3>1. pc[c] = "unlink" /\ pc'[c] = "done" /\ closed' = closed
      BY <1>0, <2>5, Zenon DEF removeReqUnlink, CallTypes
    <3>2. Left(c)'
      BY <1>0, <3>1, LeftStays DEF ClosingOf
    <3>3. QED
      BY <3>1, <3>2, Zenon DEF ClosingOf
  <2>6. QED
    BY <2>1, <2>2, <2>3, <2>4, <2>5, Zenon DEF CallStep
<1>7. QED
  BY <1>3, <1>5, <1>6, Zenon DEF Closing

LEMMA ClosingStep ==
    ASSUME Types, Numbered, Way, Closing, [Next]_vars
    PROVE  Closing'
<1>1. ASSUME UNCHANGED <<pc, cur, closed>>, NEW c \in Calls PROVE ClosingOf(c)'
  <2>1. pc[c] \in {"remove", "unlink", "done"} /\ Left(c) => Left(c)'
    BY LeftStays
  <2>2. QED
    BY <1>1, <2>1 DEF Closing, ClosingOf
<1>2. CASE Close \/ Serve \/ Break \/ \E r \in Calls : Handle(r)
  <2>1. UNCHANGED <<pc, cur, closed, recv, closeChan, isRunning, crashed, timedOut>>
    BY <1>2, ServerFrame, Zenon DEF client
  <2>2. \A c \in Calls : ClosingOf(c)'
    BY <1>1, <2>1, Zenon
  <2>3. QED
    BY <2>1, <2>2, Zenon DEF Closing
<1>3. CASE Receive \/ \E r \in Calls : Deliver(r)
  <2>1. UNCHANGED <<pc, cur, closed, timedOut>>
    BY <1>3, ReceiveFrame, Zenon
  <2>2. (recv'.at = "close" \/ closeChan' # {} => ~isRunning') /\ (crashed' => timedOut # {} \/ ~isRunning')
    <3>1. CASE recvResponse
      BY <3>1 DEF recvResponse, Closing, Types, RecvTypes
    <3>2. CASE recvError
      BY <3>2 DEF recvError
    <3>3. CASE sendCloseChan
      BY <3>3, Zenon DEF sendCloseChan, Closing
    <3>4. ASSUME NEW r \in Calls, didWalk(r)
          PROVE  (recv'.at = "close" \/ closeChan' # {} => ~isRunning') /\ (crashed' => timedOut # {} \/ ~isRunning')
      BY <3>4, Zenon DEF didWalk, Closing
    <3>5. ASSUME NEW r \in Calls, didSend(r)
          PROVE  (recv'.at = "close" \/ closeChan' # {} => ~isRunning') /\ (crashed' => timedOut # {} \/ ~isRunning')
      <4>1. did[r].at = "send" /\ UNCHANGED <<recv, closeChan, isRunning>> /\ crashed' = (did[r].cur \in closed)
        BY <3>5, Zenon DEF didSend
      <4>2. WayOf(r) /\ ClosingOf(r)
        BY Zenon DEF Way, Closing
      <4>3. did[r].cur = r /\ handler[r] = "written"
        BY <4>1, <4>2, Zenon DEF WayOf
      <4>4. r \in closed => timedOut # {} \/ ~isRunning
        BY <4>1, <4>2, <4>3 DEF ClosingOf, Left
      <4>5. QED
        BY <4>1, <4>3, <4>4, Zenon DEF Closing
    <3>6. QED
      BY <1>3, <3>1, <3>2, <3>3, <3>4, <3>5, Zenon DEF Receive, Deliver
  <2>3. QED
    BY <1>1, <2>1, <2>2, Zenon DEF Closing
<1>4. CASE UNCHANGED vars
  BY <1>1, <1>4, Zenon DEF Closing, vars, client
<1>5. QED
  BY <1>2, <1>3, <1>4, ClosingCall, Zenon DEF Next

\* The server's end is down only after a fault.
LEMMA ServingStep ==
    ASSUME Types, Way, Serving, [Next]_vars
    PROVE  Serving'
<1>1. ASSUME cliOpen' => cliOpen, broken => broken',
             \A r \in Calls : handler[r] = "unknown" => handler'[r] = "unknown"
      PROVE  Faulty => Faulty'
  BY <1>1, Zenon DEF Faulty
<1>2. ASSUME NEW c \in Calls, Call(c) \/ CallStep(c) PROVE Serving'
  <2>1. UNCHANGED <<svrOpen, broken, handler, svrCrashed>>
    BY <1>2, CallFrame, Zenon
  <2>2. cliOpen' => cliOpen
    BY <1>2, Zenon DEF Call, CallStep, Write, Select, removeReq, removeReqUnlink, net
  <2>3. QED
    BY <1>1, <2>1, <2>2, Zenon DEF Serving
<1>3. CASE Receive \/ \E r \in Calls : Deliver(r)
  <2>1. UNCHANGED <<svrOpen, broken, handler, svrCrashed>>
    BY <1>3, ReceiveFrame, Zenon
  <2>2. cliOpen' => cliOpen
    BY <1>3, Zenon DEF Receive, recvResponse, recvError, sendCloseChan, Deliver, didWalk, didSend, net
  <2>3. QED
    BY <1>1, <2>1, <2>2, Zenon DEF Serving
<1>4. CASE Close \/ Accept \/ Break
  BY <1>1, <1>4, Zenon DEF Close, Accept, Break, server, net, Serving
<1>5. CASE readRequest
  <2>1. Head(c2s) \in Calls /\ Head(c2s) \in Range(c2s)
    BY <1>5, TakeLaw DEF readRequest, Types, SeqTypes, Way
  <2>2. handler[Head(c2s)] = "none"
    BY <2>1, Zenon DEF Way, WayOf
  <2>3. \A r \in Calls : handler[r] = "unknown" => handler'[r] = "unknown"
    BY <1>5, <2>1, <2>2 DEF readRequest, Types, FlagTypes
  <2>4. QED
    BY <1>1, <1>5, <2>3, Zenon DEF readRequest, Serving
<1>6. CASE readError
  BY <1>6, Zenon DEF readError, Serving, Faulty
<1>7. ASSUME NEW r \in Calls, handleRequest(r) PROVE Serving'
  <2>1. /\ handler[r] = "started" /\ svrCrashed' = (handler'[r] = "unknown") /\ svrOpen' = (svrOpen /\ ~svrCrashed')
        /\ UNCHANGED <<cliOpen, broken>>
        /\ \E res \in {"ok", "error", "unknown"} : handler' = [handler EXCEPT ![r] = res]
    BY <1>7, Zenon DEF handleRequest
  <2>2. \A q \in Calls : handler[q] = "unknown" => handler'[q] = "unknown"
    BY <2>1 DEF Types, FlagTypes
  <2>3. CASE svrCrashed'
    BY <2>1, <2>3, Zenon DEF Serving, Faulty
  <2>4. CASE ~svrCrashed'
    BY <1>1, <2>1, <2>2, <2>4, Zenon DEF Serving
  <2>5. QED
    BY <2>3, <2>4
<1>8. ASSUME NEW r \in Calls, writeResponse(r) PROVE Serving'
  <2>1. /\ handler[r] \in {"ok", "error"} /\ handler' = [handler EXCEPT ![r] = "written"]
        /\ UNCHANGED <<cliOpen, broken>> /\ (UNCHANGED <<svrOpen, svrCrashed>> \/ ~svrOpen \/ ~cliOpen \/ broken)
    BY <1>8, Zenon DEF writeResponse
  <2>2. \A q \in Calls : handler[q] = "unknown" => handler'[q] = "unknown"
    BY <2>1 DEF Types, FlagTypes
  <2>3. ~svrOpen \/ ~cliOpen \/ broken => Faulty
    BY Zenon DEF Serving, Faulty
  <2>4. QED
    <3>1. CASE UNCHANGED <<svrOpen, svrCrashed>>
      BY <1>1, <2>1, <2>2, <3>1, Zenon DEF Serving
    <3>2. CASE ~svrOpen \/ ~cliOpen \/ broken
      BY <1>1, <2>1, <2>2, <2>3, <3>2, Zenon DEF Serving
    <3>3. QED
      BY <2>1, <3>1, <3>2, Zenon
<1>9. CASE UNCHANGED vars
  BY <1>1, <1>9, Zenon DEF Serving, vars, net, server
<1>10. QED
  BY <1>2, <1>3, <1>4, <1>5, <1>6, <1>7, <1>8, <1>9, Zenon DEF Next, Serve, Handle

\* One call at a time: a step of the call.
LEMMA AloneCall ==
    ASSUME Types, Way, Closing, Alone, NEW c \in Calls, Call(c) \/ CallStep(c), ~overlapped'
    PROVE  Alone'
<1>0. CallTypes /\ SeqTypes /\ WayOf(c) /\ ClosingOf(c)
  BY Zenon DEF Types, Way, Closing
<1>1. did' = did
  BY CallFrame, Zenon
<1>2. ~overlapped /\ (Call(c) => \A d \in Calls : ~Active(d))
  <2>1. CASE Call(c)
    BY <2>1, Zenon DEF Call, Active
  <2>2. CASE CallStep(c)
    <3>1. pc[c] # "idle"
      BY <1>0, <2>2, PlaceLaw, Zenon DEF Active
    <3>2. QED
      BY <1>0, <2>2, <3>1, PlaceLaw, Zenon DEF Call
  <2>3. QED
    BY <2>1, <2>2
<1>3. ASSUME NEW d \in Calls, d # c
      PROVE  pc'[d] = pc[d] /\ cur'[d] = cur[d] /\ ~Active(d) /\ ~Active(d)'
  <2>1. pc'[d] = pc[d] /\ cur'[d] = cur[d]
    BY <1>0, <1>3, OthersLaw
  <2>2. Call(c) \/ Active(c)
    BY <1>0, PlaceLaw, Zenon
  <2>3. ~Active(d)
    BY <1>2, <1>3, <2>2, Zenon DEF Alone
  <2>4. QED
    BY <2>1, <2>3, Zenon DEF Active
<1>4. ASSUME Active(c)' => reqSent' = <<c>>, reqSent' # <<>> => Active(c)',
             pc'[c] \in {"idle", "registered", "waiting", "remove"} => cur'[c] = Start,
             pc'[c] = "waiting" => did[c].at # "dropped" /\ (did[c].at = "walk" => did[c].cur = Start)
      PROVE  Alone'
  <2>1. \A d, e \in Calls : Active(d)' /\ Active(e)' => d = e
    BY <1>3, Zenon
  <2>2. \A d \in Calls : Active(d)' => reqSent' = <<d>>
    BY <1>3, <1>4, Zenon
  <2>3. reqSent' # <<>> => \E d \in Calls : Active(d)'
    BY <1>4, Zenon
  <2>4. \A d \in Calls : pc'[d] \in {"idle", "registered", "waiting", "remove"} => cur'[d] = Start
    BY <1>2, <1>3, <1>4, Zenon DEF Alone
  <2>5. \A d \in Calls : pc'[d] = "waiting" => did'[d].at # "dropped" /\ (did'[d].at = "walk" => did'[d].cur = Start)
    BY <1>1, <1>2, <1>3, <1>4, Zenon DEF Alone
  <2>6. QED
    BY <2>1, <2>2, <2>3, <2>4, <2>5, Zenon DEF Alone
<1>5. CASE Call(c)
  <2>1. reqSent = <<>> /\ cur[c] = Start
    BY <1>2, <1>5, Zenon DEF Alone, Call
  <2>2. cur' = cur /\ \/ pc'[c] = "registered" /\ reqSent' = Append(reqSent, c)
                      \/ pc'[c] = "done" /\ reqSent' = reqSent
    BY <1>0, <1>5 DEF Call, CallTypes
  <2>3. Append(<<>>, c) = <<c>> /\ <<c>> # <<>>
    OBVIOUS
  <2>4. QED
    BY <1>4, <2>1, <2>2, <2>3, Zenon DEF Active
<1>6. CASE Write(c)
  <2>1. pc[c] = "registered" /\ pc'[c] \in {"waiting", "remove"} /\ cur' = cur /\ reqSent' = reqSent
    BY <1>0, <1>6, Zenon DEF Write, CallTypes
  <2>2. Active(c) /\ Active(c)' /\ reqSent = <<c>> /\ cur[c] = Start /\ did[c].at = "none"
    BY <1>0, <1>2, <2>1, Zenon DEF Alone, Active, WayOf
  <2>3. QED
    BY <1>4, <2>1, <2>2
<1>7. CASE Select(c)
  <2>1. pc[c] = "waiting" /\ pc'[c] = "remove" /\ cur' = cur /\ reqSent' = reqSent
    BY <1>0, <1>7, Zenon DEF Select, CallTypes
  <2>2. Active(c) /\ Active(c)' /\ reqSent = <<c>> /\ cur[c] = Start
    BY <1>0, <1>2, <2>1, Zenon DEF Alone, Active
  <2>3. QED
    BY <1>4, <2>1, <2>2
<1>8. CASE removeReq(c)
  <2>1. pc[c] = "remove" /\ reqSent' = reqSent
    BY <1>8, Zenon DEF removeReq
  <2>2. Active(c) /\ reqSent = <<c>> /\ cur[c] = Start
    BY <1>2, <2>1 DEF Alone, Active
  <2>3. Advance(cur[c]) = c /\ c # Nil
    BY <2>2, AdvanceAlone, CallAssumption, Zenon
  <2>4. pc' = [pc EXCEPT ![c] = "unlink"]
    BY <1>8, <2>3 DEF removeReq
  <2>5. pc'[c] = "unlink"
    BY <1>0, <2>4, Zenon DEF CallTypes
  <2>6. QED
    BY <1>4, <2>1, <2>2, <2>5, Zenon DEF Active
<1>9. CASE removeReqUnlink(c)
  <2>1. pc[c] = "unlink" /\ pc'[c] = "done" /\ reqSent' = Remove(reqSent, cur[c])
    BY <1>0, <1>9, Zenon DEF removeReqUnlink, CallTypes
  <2>2. reqSent = <<c>> /\ cur[c] = c
    <3>1. Active(c)
      BY <2>1 DEF Active
    <3>2. QED
      BY <1>0, <1>2, <2>1, <3>1, Zenon DEF Alone, ClosingOf
  <2>3. reqSent' = <<>>
    BY <2>1, <2>2, RemoveAlone
  <2>4. QED
    BY <1>4, <2>1, <2>3, Zenon DEF Active
<1>10. QED
  BY <1>5, <1>6, <1>7, <1>8, <1>9, Zenon DEF CallStep

LEMMA AloneStep ==
    ASSUME Types, Way, Closing, Alone, [Next]_vars
    PROVE  Alone'
<1>1. ASSUME UNCHANGED <<pc, cur, reqSent, overlapped>>, ~overlapped,
             \A c \in Calls : pc[c] = "waiting" => \/ did'[c] = did[c]
                                                   \/ did'[c].at \in {"send", "sent"}
                                                   \/ did'[c].at = "walk" /\ did'[c].cur = Start
      PROVE  Alone'
  <2>1. /\ \A c, d \in Calls : Active(c)' /\ Active(d)' => c = d
        /\ \A c \in Calls : Active(c)' => reqSent' = <<c>>
        /\ reqSent' # <<>> => \E c \in Calls : Active(c)'
        /\ \A c \in Calls : pc'[c] \in {"idle", "registered", "waiting", "remove"} => cur'[c] = Start
    BY <1>1, Zenon DEF Alone, Active
  <2>2. \A c \in Calls : pc'[c] = "waiting" => did'[c].at # "dropped" /\ (did'[c].at = "walk" => did'[c].cur = Start)
    BY <1>1 DEF Alone
  <2>3. QED
    BY <2>1, <2>2, Zenon DEF Alone
<1>2. CASE overlapped'
  BY <1>2, Zenon DEF Alone
<1>3. CASE ~overlapped'
  <2>1. CASE Close \/ Serve \/ Break \/ \E r \in Calls : Handle(r)
    <3>1. UNCHANGED <<pc, cur, reqSent, overlapped, did>>
      BY <2>1, ServerFrame, Zenon DEF client
    <3>2. QED
      BY <1>1, <1>3, <3>1, Zenon
  <2>2. CASE Receive \/ \E r \in Calls : Deliver(r)
    <3>0. UNCHANGED <<pc, cur, reqSent, overlapped>> /\ ~overlapped
      <4>1. UNCHANGED <<pc, cur, reqSent, overlapped>>
        BY <2>2, ReceiveFrame, Zenon
      <4>2. QED
        BY <1>3, <4>1, Zenon
    <3>1. CASE recvResponse
      <4>1. Head(s2c).of \in Calls
        BY <3>1, TakeAnswer, Zenon DEF recvResponse, Types, SeqTypes, Way, Answer
      <4>2. \A c \in Calls : did'[c] = did[c] \/ (did'[c].at = "walk" /\ did'[c].cur = Start)
        BY <3>1, <4>1 DEF recvResponse, Types, RecvTypes
      <4>3. QED
        BY <1>1, <3>0, <4>2, Zenon
    <3>2. CASE recvError \/ sendCloseChan
      <4>1. did' = did
        BY <3>2, Zenon DEF recvError, sendCloseChan
      <4>2. QED
        BY <1>1, <3>0, <4>1, Zenon
    <3>3. ASSUME NEW r \in Calls, didWalk(r) PROVE Alone'
      <4>1. PICK e : e = Advance(did[r].cur)
        OBVIOUS
      <4>2. /\ did[r].at = "walk"
            /\ did'[r].at = IF e = Nil THEN "dropped" ELSE IF idx[e] = idx[r] THEN "send" ELSE "walk"
            /\ \A c \in Calls : c # r => did'[c] = did[c]
        BY <3>3, <4>1 DEF didWalk, Types, RecvTypes
      <4>3. ASSUME pc[r] = "waiting" PROVE e = r
        <5>1. reqSent = <<r>> /\ did[r].cur = Start
          BY <3>0, <4>2, <4>3, Zenon DEF Alone, Active
        <5>2. QED
          BY <4>1, <5>1, AdvanceAlone, Zenon
      <4>4. pc[r] = "waiting" => did'[r].at = "send"
        BY <4>2, <4>3, CallAssumption, Zenon
      <4>5. QED
        BY <1>1, <3>0, <4>2, <4>4, Zenon
    <3>4. ASSUME NEW r \in Calls, didSend(r) PROVE Alone'
      <4>1. did'[r].at = "sent" /\ \A c \in Calls : c # r => did'[c] = did[c]
        BY <3>4, Zenon DEF didSend, Types, RecvTypes
      <4>2. QED
        BY <1>1, <3>0, <4>1
    <3>5. QED
      BY <2>2, <3>1, <3>2, <3>3, <3>4, Zenon DEF Receive, Deliver
  <2>3. CASE UNCHANGED vars
    <3>1. UNCHANGED <<pc, cur, reqSent, overlapped, did>>
      BY <2>3, Zenon DEF vars, client
    <3>2. QED
      BY <1>1, <1>3, <3>1, Zenon
  <2>4. QED
    BY <1>3, <2>1, <2>2, <2>3, AloneCall, Zenon DEF Next
<1>4. QED
  BY <1>2, <1>3

-----------------------------------------------------------------------------
(* The inductive invariant, and what it says *)

LEMMA InitInv == Init => IInv
<1>1. SUFFICES ASSUME Init PROVE IInv
  OBVIOUS
<1>2. /\ Len(<<>>) = 0 /\ 1..0 = {} /\ Range(<<>>) = {} /\ MaxUint64 > 0
      /\ <<>> \in Seq(Calls) /\ <<>> \in Seq(Answer)
  BY FS_CardinalityType, CallAssumption DEF Range
<1>3. CallTypes /\ SeqTypes
  <2>1. SeqTypes
    BY <1>1, <1>2, Zenon DEF Init, SeqTypes
  <2>2. pc \in [Calls -> Places] /\ \A c \in Calls : pc[c] # "unlink"
    BY <1>1, Zenon DEF Init, Places
  <2>3. counter \in Nat /\ idx \in [Calls -> 0..MaxUint64 - 1]
    BY <1>1, <1>2, CallAssumption DEF Init
  <2>4. cur \in [Calls -> Calls \cup {Start, Nil}] /\ out \in [Calls -> [res : Outcomes, of : Calls \cup {Nil}]]
    BY <1>1, Zenon DEF Init, Outcomes
  <2>5. QED
    BY <2>1, <2>2, <2>3, <2>4, Zenon DEF CallTypes
<1>4. ChanTypes
  BY <1>1, Zenon DEF Init, ChanTypes
<1>5. RecvTypes
  BY <1>1, Zenon DEF Init, RecvTypes
<1>6. FlagTypes
  BY <1>1, Zenon DEF Init, FlagTypes
<1>7. Numbered
  <2>1. {c \in Calls : idx[c] # 0} = {}
    BY <1>1 DEF Init
  <2>2. Cardinality({}) = 0
    BY FS_EmptySet, Zenon
  <2>3. counter = 0 /\ Range(reqSent) = {} /\ \A c \in Calls : idx[c] = 0 /\ pc[c] = "idle"
    BY <1>1, <1>2, Zenon DEF Init
  <2>4. QED
    BY <2>1, <2>2, <2>3 DEF Numbered, Active
<1>8. Way
  <2>1. Answered(s2c) = {} /\ Range(c2s) = {} /\ NoTwice(c2s) /\ AnsweredOnce(s2c)
    BY <1>1, <1>2, Zenon DEF Init, Answered, NoTwice, AnsweredOnce
  <2>2. \A c \in Calls : handler[c] = "none" /\ did[c].at = "none" /\ respChan[c] = Nil
    BY <1>1 DEF Init
  <2>3. QED
    BY <2>1, <2>2, Zenon DEF Way, WayOf
<1>9. Correlated
  BY <1>1 DEF Init, Correlated
<1>10. Closing
  BY <1>1 DEF Init, Closing, ClosingOf
<1>11. Serving
  BY <1>1, Zenon DEF Init, Serving
<1>12. Alone
  BY <1>1 DEF Init, Alone, Active
<1>13. QED
  BY <1>3, <1>4, <1>5, <1>6, <1>7, <1>8, <1>9, <1>10, <1>11, <1>12, Zenon DEF IInv, Types

LEMMA StepInv == IInv /\ [Next]_vars => IInv'
<1>1. SUFFICES ASSUME IInv, [Next]_vars PROVE IInv'
  OBVIOUS
<1>2. Types /\ Numbered /\ Way /\ Correlated /\ Closing /\ Serving /\ Alone /\ NoTwice(c2s) /\ AnsweredOnce(s2c)
  BY <1>1, Zenon DEF IInv, Way
<1>3. Numbered'
  BY <1>1, <1>2, NumberedStep, Zenon
<1>4. Types' /\ Way'
  <2>1. CASE Close \/ Serve \/ Break \/ \E r \in Calls : Handle(r)
    BY <1>2, <2>1, ServerTypesStep, WayServer, Zenon
  <2>2. CASE Receive \/ \E r \in Calls : Deliver(r)
    BY <1>2, <2>2, ReceiveTypesStep, WayReceive, Zenon
  <2>3. ASSUME NEW c \in Calls, Call(c) \/ CallStep(c) PROVE Types' /\ Way'
    BY <1>2, <1>3, <2>3, CallTypesStep, WayCall, Zenon
  <2>4. CASE UNCHANGED vars
    <3>0. UNCHANGED client /\ UNCHANGED net /\ UNCHANGED server
      BY <2>4, Zenon DEF vars
    <3>1. CallTypes' /\ ChanTypes' /\ RecvTypes'
      BY <1>2, <3>0, Zenon DEF Types, CallTypes, ChanTypes, RecvTypes, client
    <3>2. SeqTypes' /\ FlagTypes'
      BY <1>2, <3>0, Zenon DEF Types, SeqTypes, FlagTypes, client, net, server
    <3>3. UNCHANGED <<c2s, s2c, pc, idx, did, respChan, handler>>
      BY <3>0, Zenon DEF client, net, server
    <3>4. NoTwice(c2s)' /\ AnsweredOnce(s2c)' /\ Answered(s2c)' = Answered(s2c)
      BY <1>2, <3>3, Zenon DEF NoTwice, AnsweredOnce, Answered
    <3>5. \A c \in Calls : WayOf(c)'
      BY <1>2, <3>3, <3>4, Zenon DEF Way, WayOf
    <3>6. QED
      BY <3>1, <3>2, <3>4, <3>5, Zenon DEF Types, Way
  <2>5. QED
    BY <1>1, <2>1, <2>2, <2>3, <2>4, Zenon DEF Next
<1>5. Correlated'
  BY <1>1, <1>2, CorrelatedStep, Zenon
<1>6. Closing'
  BY <1>1, <1>2, ClosingStep, Zenon
<1>7. Serving'
  BY <1>1, <1>2, ServingStep, Zenon
<1>8. Alone'
  BY <1>1, <1>2, AloneStep, Zenon
<1>9. QED
  BY <1>3, <1>4, <1>5, <1>6, <1>7, <1>8, Zenon DEF IInv

LEMMA Invariance == Spec => []IInv
BY InitInv, StepInv, PTL DEF Spec

\* Client.Call never returns the answer to another call's request: the index
\* that didRecvResponse compares tells apart all the requests in reqSent.
THEOREM OwnAnswer == Spec => []Correlated
<1>1. IInv => Correlated
  BY Zenon DEF IInv
<1>2. QED
  BY <1>1, Invariance, PTL

\* However many calls share the client, and however their answers, timeouts
\* and removals interleave with the unlocked walks of reqSent: didRecvResponse
\* is never stuck on a full channel, and without a timeout, a lost connection
\* or an unknown method neither the client nor the server process dies.
THEOREM CallsAreSafe == Spec => []CallsSafe
<1>1. IInv => CallsSafe
  <2>1. SUFFICES ASSUME IInv PROVE CallsSafe
    OBVIOUS
  <2>2. Types /\ Way /\ Closing /\ Serving
    BY <2>1, Zenon DEF IInv
  <2>3. SendNeverBlocks
    <3>1. SUFFICES ASSUME NEW r \in Calls, did[r].at = "send" PROVE did[r].cur = r /\ respChan[r] = Nil
      BY Zenon DEF SendNeverBlocks
    <3>2. WayOf(r)
      BY <2>2, Zenon DEF Way
    <3>3. QED
      BY <3>1, <3>2 DEF WayOf
  <2>4. CrashNeedsFault
    BY <2>2, Zenon DEF CrashNeedsFault, Closing, Serving, Faulty
  <2>5. QED
    BY <2>2, <2>3, <2>4, TypesTypeOK, Zenon DEF CallsSafe
<1>2. QED
  BY <1>1, Invariance, PTL

\* Used by one call at a time, as ConnectionPool hands it out, the client
\* drops no answer its call is waiting for, and removeReq leaves no entry in
\* reqSent when Call returns.
THEOREM EntriesAreMatched == Spec => []EntriesMatch
<1>1. IInv => EntriesMatch
  <2>1. SUFFICES ASSUME IInv, ~overlapped
                 PROVE  /\ \A r \in Calls : did[r].at = "dropped" => pc[r] \notin {"registered", "waiting"}
                        /\ \A c \in Calls : pc[c] = "done" => c \notin Range(reqSent)
    BY Zenon DEF EntriesMatch, AnswerReachesCall, NoLeakedRequest
  <2>2. Way /\ Alone
    BY <2>1, Zenon DEF IInv
  <2>3. ASSUME NEW r \in Calls, did[r].at = "dropped" PROVE pc[r] \notin {"registered", "waiting"}
    <3>1. WayOf(r) /\ pc[r] # "waiting"
      BY <2>1, <2>2, <2>3, Zenon DEF Way, Alone
    <3>2. QED
      BY <2>3, <3>1 DEF WayOf
  <2>4. ASSUME NEW c \in Calls, pc[c] = "done" PROVE c \notin Range(reqSent)
    <3>1. CASE reqSent = <<>>
      BY <3>1 DEF Range
    <3>2. CASE reqSent # <<>>
      <4>1. PICK d \in Calls : Active(d) /\ reqSent = <<d>>
        BY <2>1, <2>2, <3>2, Zenon DEF Alone
      <4>2. Range(<<d>>) = {d} /\ c # d
        BY <2>4, <4>1 DEF Range, Active
      <4>3. QED
        BY <4>1, <4>2
    <3>3. QED
      BY <3>1, <3>2
  <2>5. QED
    BY <2>3, <2>4, Zenon
<1>2. QED
  BY <1>1, Invariance, PTL
=============================================================================

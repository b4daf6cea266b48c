---------------------------- MODULE PubSubProofs ----------------------------
(***************************************************************************)
(* For every set of threads, clients, queries, channels and messages and   *)
(* every capacity: the loop of pubsub.go never sends on or closes a closed *)
(* channel, and what a subscriber gets is a contiguous run of what was     *)
(* published.                                                              *)
(***************************************************************************)
EXTENDS PubSub, SequenceTheorems, TLAPS

Command ==
    {k \in [op : {"none", "sub", "unsub", "pub", "shutdown"}, client : Clients \cup {Nil},
            query : Queries \cup {Nil}, value : Values \cup {Nil}, ch : Chans \cup Msgs \cup {Nil}] :
        /\ k.op = "sub" => k.client \in Clients /\ k.query \in Queries /\ k.value \in Values /\ k.ch \in Chans
        /\ k.op = "unsub" => k.client \in Clients
        /\ k.op = "pub" => k.ch \in Msgs}

\* A channel on its way to the loop's state is open and not yet there.
Waiting(h) == h \in used \ closed /\ \A e \in state : e.ch # h
Pending(i) == i \in 1..Len(cmds) /\ cmds[i].op = "sub"
Calling(t) == pc[t] = "send" /\ cmd[t].op = "sub"

\* A channel is in one place: with the caller of Subscribe, in cmds or in the
\* loop's state.
OnePlace ==
    /\ \A e, f \in state : e.ch = f.ch => e = f
    /\ \A i \in 1..Len(cmds) : Pending(i) => Waiting(cmds[i].ch)
    /\ \A i, j \in 1..Len(cmds) : Pending(i) /\ Pending(j) /\ cmds[i].ch = cmds[j].ch => i = j
    /\ \A t \in Threads : Calling(t) => Waiting(cmd[t].ch)
    /\ \A t \in Threads : \A i \in 1..Len(cmds) : Calling(t) /\ Pending(i) => cmds[i].ch # cmd[t].ch
    /\ \A t, u \in Threads : Calling(t) /\ Calling(u) /\ cmd[t].ch = cmd[u].ch => t = u

Inv ==
    /\ TypeOK /\ cmds \in Seq(Command) /\ cmd \in [Threads -> Command]
    /\ OnePlace /\ todo \subseteq used \ closed /\ (sending = Nil => todo = {}) /\ NoPanic

USE PubSubAssumption DEF chans, service

\* What the invariant says, piece by piece.
LEMMA ThreadTypes ==
    ASSUME Inv
    PROVE  /\ pc \in [Threads -> {"idle", "send", "update"}] /\ ref \in [Threads -> Maps \cup {Nil}]
           /\ cmd \in [Threads -> Command]
BY Zenon DEF Inv, TypeOK

LEMMA ViewTypes ==
    ASSUME Inv
    PROVE  /\ subscriptions \in [Clients -> Maps \cup {Nil}]
           /\ maps \in [Maps -> [Queries -> Values \cup {Nil}]]
BY Zenon DEF Inv, TypeOK

LEMMA QueueTypes ==
    ASSUME Inv
    PROVE  cmds \in Seq(Command) /\ Len(cmds) <= CmdsCap
BY Zenon DEF Inv, TypeOK

\* A command goes behind the ones that are queued.
LEMMA QueueAppend ==
    ASSUME NEW q \in Seq(Command), NEW c \in Command
    PROVE  /\ Len(q) \in Nat /\ Len(Append(q, c)) = Len(q) + 1 /\ Append(q, c)[Len(q) + 1] = c
           /\ \A i \in 1..Len(q) : Append(q, c)[i] = q[i]
OBVIOUS

LEMMA LoopTypes ==
    ASSUME Inv
    PROVE  /\ loop \in {"run", "stopped"} /\ sending \in Msgs \cup {Nil}
           /\ todo \subseteq used \ closed /\ (sending = Nil => todo = {})
           /\ state \subseteq [client : Clients, query : Queries, value : Values, ch : used \ closed]
BY Zenon DEF Inv, TypeOK

LEMMA ChanTypes ==
    ASSUME Inv
    PROVE  /\ used \subseteq Chans /\ closed \subseteq used
           /\ content \in [Chans -> Seq(Msgs)] /\ read \in [Chans -> Seq(Msgs)]
BY Zenon DEF Inv, TypeOK

LEMMA FlagTypes ==
    ASSUME Inv
    PROVE  stop \in {"none", "onstop"} /\ stopped \in BOOLEAN /\ panicked = FALSE
BY Zenon DEF Inv, TypeOK, NoPanic

LEMMA Places ==
    ASSUME Inv
    PROVE  OnePlace
BY DEF Inv

\* A new server satisfies the invariant.
LEMMA InitInv == NewServer => Inv
<1>1. SUFFICES ASSUME NewServer PROVE Inv
  OBVIOUS
<1>2. {stopped, panicked} \subseteq BOOLEAN
  BY <1>1, Zenon DEF NewServer
<1>3. TypeOK
  BY <1>1, <1>2 DEF NewServer, TypeOK
<1>4. Idle \in Command
  BY DEF Idle, Cmd, Command
<1>5. cmds \in Seq(Command) /\ cmd \in [Threads -> Command]
  BY <1>1, <1>4 DEF NewServer
<1>6. OnePlace /\ todo \subseteq used \ closed /\ todo = {} /\ NoPanic
  BY <1>1 DEF NewServer, OnePlace, Pending, Calling, NoPanic
<1>7. QED
  BY <1>3, <1>5, <1>6 DEF Inv

\* The calls up to their command.
LEMMA CallInv ==
    ASSUME Inv, NEW t \in Threads, Subscribe(t) \/ Unsubscribe(t) \/ UnsubscribeAll(t) \/ PublishWithTags(t)
    PROVE  Inv'
<1>1. CASE Subscribe(t)
  <2>1. PICK c \in Clients, q \in Queries, h \in Chans \ used :
            /\ used' = used \cup {h}
            /\ cmd' = [cmd EXCEPT ![t] = Cmd("sub", c, q, QueryValue(q, h), h)]
    BY <1>1, Zenon DEF Subscribe
  <2>2. Cmd("sub", c, q, QueryValue(q, h), h) \in Command
    BY DEF Cmd, Command, QueryValue, Values
  <2>3. TypeOK' /\ cmds' \in Seq(Command) /\ cmd' \in [Threads -> Command]
    BY <1>1, <2>1, <2>2, ThreadTypes, ViewTypes, QueueTypes, LoopTypes, ChanTypes, FlagTypes
       DEF Subscribe, TypeOK
  <2>4. ~ \E e \in state : e.ch = h
    BY LoopTypes
  <2>5. OnePlace' /\ (todo \subseteq used \ closed /\ (sending = Nil => todo = {}))' /\ NoPanic'
    BY <1>1, <2>1, ThreadTypes, ViewTypes, QueueTypes, LoopTypes, ChanTypes, FlagTypes, Places
       DEF Subscribe, OnePlace, TypeOK, NoPanic, Waiting, Pending, Calling, Cmd
  <2>6. QED
    BY <2>3, <2>5 DEF Inv
<1>2. ASSUME Unsubscribe(t) \/ UnsubscribeAll(t) \/ PublishWithTags(t)
      PROVE  Inv'
  <2>1. PICK k \in Command : cmd' = [cmd EXCEPT ![t] = k] /\ k.op \in {"unsub", "pub"}
    <3>1. CASE Unsubscribe(t)
      <4>1. PICK c \in Clients, q \in Queries :
                /\ Subscribed(c, q)
                /\ cmd' = [cmd EXCEPT ![t] = Cmd("unsub", c, q, maps[subscriptions[c]][q], Nil)]
        BY <3>1, Zenon DEF Unsubscribe
      <4>2. maps[subscriptions[c]][q] \in Values \cup {Nil}
        BY <4>1, ViewTypes DEF Subscribed
      <4>3. Cmd("unsub", c, q, maps[subscriptions[c]][q], Nil) \in Command
        BY <4>2 DEF Cmd, Command
      <4>4. QED
        BY <4>1, <4>3, Zenon DEF Cmd
    <3>2. CASE UnsubscribeAll(t)
      <4>1. PICK c \in Clients : cmd' = [cmd EXCEPT ![t] = Cmd("unsub", c, Nil, Nil, Nil)]
        BY <3>2, Zenon DEF UnsubscribeAll
      <4>2. Cmd("unsub", c, Nil, Nil, Nil) \in Command
        BY DEF Cmd, Command
      <4>3. QED
        BY <4>1, <4>2, Zenon DEF Cmd
    <3>3. CASE PublishWithTags(t)
      <4>1. PICK m \in Msgs : cmd' = [cmd EXCEPT ![t] = Cmd("pub", Nil, Nil, Nil, m)]
        BY <3>3, Zenon DEF PublishWithTags
      <4>2. Cmd("pub", Nil, Nil, Nil, m) \in Command
        BY DEF Cmd, Command
      <4>3. QED
        BY <4>1, <4>2, Zenon DEF Cmd
    <3>4. QED
      BY <1>2, <3>1, <3>2, <3>3
  <2>2. /\ pc' = [pc EXCEPT ![t] = "send"] /\ ref' \in [Threads -> Maps \cup {Nil}]
        /\ UNCHANGED <<cmds, subscriptions, maps, state, loop, sending, todo, chans, service, panicked>>
    BY <1>2, ThreadTypes, ViewTypes, ChanTypes, Places DEF Unsubscribe, UnsubscribeAll, PublishWithTags
  <2>3. TypeOK' /\ cmds' \in Seq(Command) /\ cmd' \in [Threads -> Command]
    BY <2>1, <2>2, ThreadTypes, ViewTypes, QueueTypes, LoopTypes, ChanTypes, FlagTypes DEF TypeOK
  <2>4. OnePlace' /\ (todo \subseteq used \ closed /\ (sending = Nil => todo = {}))' /\ NoPanic'
    BY <2>1, <2>2, ThreadTypes, ViewTypes, LoopTypes, ChanTypes, FlagTypes, Places
       DEF OnePlace, TypeOK, NoPanic, Waiting, Pending, Calling
  <2>5. QED
    BY <2>3, <2>4 DEF Inv
<1>3. QED
  BY <1>1, <1>2

\* The command is sent, or the call ends without it.
LEMMA SendInv ==
    ASSUME Inv, NEW t \in Threads, Send(t)
    PROVE  Inv'
<1>0. Idle \in Command /\ Idle.op = "none"
  BY DEF Idle, Cmd, Command
<1>1. CASE Len(cmds) < CmdsCap /\ cmds' = Append(cmds, cmd[t])
           /\ pc' = [pc EXCEPT ![t] = IF cmd[t].op = "pub" THEN "idle" ELSE "update"] /\ UNCHANGED <<cmd, ref>>
  <2>1. /\ UNCHANGED <<subscriptions, maps, state, loop, sending, todo, chans, service, panicked>>
        /\ pc[t] = "send" /\ cmd[t] \in Command /\ pc'[t] # "send"
    BY ThreadTypes DEF Send
  <2>2. cmds' \in Seq(Command) /\ Len(cmds') = Len(cmds) + 1 /\ Len(cmds) \in Nat
        /\ cmds'[Len(cmds) + 1] = cmd[t] /\ \A i \in 1..Len(cmds) : cmds'[i] = cmds[i]
    BY <1>1, <2>1, QueueTypes
  <2>3. TypeOK' /\ cmd' \in [Threads -> Command]
    BY <1>1, <2>1, ThreadTypes, ViewTypes, LoopTypes, ChanTypes, FlagTypes DEF TypeOK
  <2>4. \A i \in 1..Len(cmds') : i \in 1..Len(cmds) \/ i = Len(cmds) + 1
    BY <2>2
  <2>5. \A i \in 1..Len(cmds') : Pending(i)' => (Pending(i) /\ cmds'[i] = cmds[i] /\ i # Len(cmds) + 1)
                                             \/ (i = Len(cmds) + 1 /\ Calling(t) /\ cmds'[i] = cmd[t])
    BY <2>1, <2>2, <2>4 DEF Pending, Calling
  <2>6. \A u \in Threads : Calling(u)' => Calling(u) /\ u # t /\ cmd'[u] = cmd[u]
    BY <1>1, <2>1 DEF Calling, TypeOK
  <2>8. OnePlace'
    <3>1. (\A e, f \in state : e.ch = f.ch => e = f)'
      BY <2>1, Places DEF OnePlace
    <3>2. (\A i \in 1..Len(cmds) : Pending(i) => Waiting(cmds[i].ch))'
      BY <2>1, <2>5, FlagTypes, Places DEF OnePlace, Pending, Waiting
    <3>3. (\A i, j \in 1..Len(cmds) : Pending(i) /\ Pending(j) /\ cmds[i].ch = cmds[j].ch => i = j)'
      BY <2>5, ThreadTypes, ViewTypes, QueueTypes, LoopTypes, ChanTypes, FlagTypes, Places DEF OnePlace, Pending
    <3>4. (\A u \in Threads : Calling(u) => Waiting(cmd[u].ch))'
      BY <2>1, <2>6, Places DEF OnePlace, Waiting
    <3>5. (\A u \in Threads : \A i \in 1..Len(cmds) : Calling(u) /\ Pending(i) => cmds[i].ch # cmd[u].ch)'
      BY <2>5, <2>6, ThreadTypes, ViewTypes, ChanTypes, FlagTypes, Places DEF OnePlace, Pending
    <3>6. (\A u, v \in Threads : Calling(u) /\ Calling(v) /\ cmd[u].ch = cmd[v].ch => u = v)'
      BY <2>6, Places DEF OnePlace
    <3>7. QED
      BY <3>1, <3>2, <3>3, <3>4, <3>5, <3>6 DEF OnePlace
  <2>9. QED
    BY <2>1, <2>2, <2>3, <2>8 DEF NoPanic, Inv
<1>2. CASE Finish(t) /\ UNCHANGED <<cmds, published>>
  BY <1>0, <1>2 DEF Send, Finish, TypeOK, OnePlace, NoPanic, Waiting, Pending, Calling, Inv
<1>3. QED
  BY <1>1, <1>2 DEF Send, Finish

\* The update of the API's view.
LEMMA UpdateInv ==
    ASSUME Inv, NEW t \in Threads, Update(t)
    PROVE  Inv'
<1>0. Idle \in Command /\ Idle.op = "none"
  BY DEF Idle, Cmd, Command
<1>1. /\ Finish(t) /\ pc[t] = "update"
      /\ UNCHANGED <<cmds, state, loop, sending, todo, chans, service, published, panicked>>
  BY Zenon DEF Update, SubscribeUpdate, UnsubscribeUpdate, UnsubscribeAllUpdate
<1>2. maps' \in [Maps -> [Queries -> Values \cup {Nil}]] /\ subscriptions' \in [Clients -> Maps \cup {Nil}]
  <2>1. CASE SubscribeUpdate(t)
    <3>1. cmd[t].client \in Clients /\ cmd[t].query \in Queries /\ cmd[t].value \in Values
      BY <2>1, ThreadTypes, ViewTypes, QueueTypes, LoopTypes, ChanTypes, FlagTypes, Places
         DEF SubscribeUpdate, Command
    <3>2. CASE subscriptions[cmd[t].client] = Nil
      <4>1. PICK m \in Maps :
                /\ maps' = [maps EXCEPT ![m] = [k \in Queries |-> IF k = cmd[t].query THEN cmd[t].value ELSE Nil]]
                /\ subscriptions' = [subscriptions EXCEPT ![cmd[t].client] = m]
        BY <2>1, <3>2 DEF SubscribeUpdate, FreshMaps
      <4>2. [k \in Queries |-> IF k = cmd[t].query THEN cmd[t].value ELSE Nil] \in [Queries -> Values \cup {Nil}]
        BY <3>1
      <4>3. QED
        BY <3>1, <4>1, ViewTypes
    <3>3. CASE subscriptions[cmd[t].client] # Nil
      <4>1. maps' = [maps EXCEPT ![subscriptions[cmd[t].client]][cmd[t].query] = cmd[t].value]
            /\ UNCHANGED subscriptions
        BY <2>1, <3>3 DEF SubscribeUpdate
      <4>2. QED
        BY <3>1, <4>1, ThreadTypes, ViewTypes, QueueTypes, LoopTypes, ChanTypes, FlagTypes, Places, Zenon
           DEF TypeOK
    <3>4. QED
      BY <3>2, <3>3
  <2>2. CASE UnsubscribeUpdate(t)
    BY <2>2, ThreadTypes, ViewTypes, QueueTypes, LoopTypes, ChanTypes, FlagTypes, Places, Zenon
       DEF UnsubscribeUpdate, TypeOK
  <2>3. CASE UnsubscribeAllUpdate(t)
    BY <2>3, ThreadTypes, ViewTypes, FlagTypes, Places DEF UnsubscribeAllUpdate, Command
  <2>4. QED
    BY <2>1, <2>2, <2>3 DEF Update
<1>3. TypeOK' /\ cmds' \in Seq(Command) /\ cmd' \in [Threads -> Command]
  BY <1>0, <1>1, <1>2, ThreadTypes, QueueTypes, LoopTypes, ChanTypes, FlagTypes DEF Finish, TypeOK
<1>4. OnePlace' /\ (todo \subseteq used \ closed /\ (sending = Nil => todo = {}))' /\ NoPanic'
  BY <1>0, <1>1, QueueTypes, LoopTypes, ChanTypes, FlagTypes, Places
     DEF Finish, TypeOK, OnePlace, NoPanic, Waiting, Pending, Calling
<1>5. QED
  BY <1>3, <1>4 DEF Inv

\* What is left of cmds when the loop has taken its first command.
LEMMA Taken ==
    ASSUME Inv, cmds # <<>>, cmds' = Tail(cmds)
    PROVE  /\ cmds' \in Seq(Command) /\ Len(cmds) \in Nat /\ 1 \in 1..Len(cmds) /\ Head(cmds) = cmds[1]
           /\ Head(cmds) \in Command /\ Len(cmds') = Len(cmds) - 1 /\ Len(cmds') <= CmdsCap
           /\ \A i \in 1..Len(cmds') : i + 1 \in 1..Len(cmds) /\ cmds'[i] = cmds[i + 1]
<1>1. Len(cmds) \in Nat /\ Len(cmds) > 0 /\ Head(cmds) = cmds[1] /\ 1 \in 1..Len(cmds)
  OBVIOUS
<1>2. Head(cmds) \in Command /\ cmds' \in Seq(Command) /\ Len(cmds') = Len(cmds) - 1
  BY QueueTypes
<1>3. \A i \in 1..Len(cmds') : i + 1 \in 1..Len(cmds) /\ cmds'[i] = cmds[i + 1]
  BY <1>1, <1>2
<1>4. Len(cmds') <= CmdsCap
  BY QueueTypes
<1>5. QED
  BY <1>1, <1>2, <1>3, <1>4

\* remove, removeAll and the shutdown close what they take out of the state.
LEMMA UnsubInv ==
    ASSUME Inv, loopUnsub
    PROVE  Inv'
<1> DEFINE S == Affected(Head(cmds))
<1>1. /\ cmds # <<>> /\ cmds' = Tail(cmds) /\ sending = Nil /\ loop' \in {"run", "stopped"}
      /\ UNCHANGED <<subscriptions, maps, sending, todo, pc, cmd, ref, used, content, read, service>>
      /\ S \subseteq state /\ state' = state \ S /\ closed' = closed \cup {e.ch : e \in S}
      /\ panicked' = (panicked \/ {e.ch : e \in S} \cap closed # {})
  BY DEF loopUnsub, removeEntries, Affected, TypeOK
<1>2. {e.ch : e \in S} \cap closed = {} /\ {e.ch : e \in S} \subseteq used
  BY <1>1, LoopTypes
<1>3. panicked' = FALSE
  <2>1. panicked = FALSE
    BY FlagTypes
  <2>2. QED
    BY <1>1, <1>2, <2>1, Zenon
<1>4. \A e \in state' : e.ch \in used \ closed'
  BY <1>1, LoopTypes, Places DEF OnePlace
<1>5. TypeOK' /\ cmds' \in Seq(Command) /\ cmd' \in [Threads -> Command]
  <2>1. state' \subseteq [client : Clients, query : Queries, value : Values, ch : used' \ closed']
    BY <1>1, <1>4, LoopTypes, FlagTypes
  <2>2. QED
    BY <1>1, <1>2, <2>1, Taken, ThreadTypes, ViewTypes, LoopTypes, ChanTypes, FlagTypes DEF TypeOK
<1>6. \A h : Waiting(h) => h \notin closed' /\ h \in used' /\ \A e \in state' : e.ch # h
  BY <1>1 DEF Waiting
<1>7. OnePlace'
  BY <1>1, Places DEF OnePlace, Pending, Calling, Waiting
<1>8. (todo \subseteq used \ closed /\ (sending = Nil => todo = {}))'
  BY <1>1, LoopTypes
<1>9. QED
  BY <1>3, <1>5, <1>7, <1>8 DEF NoPanic, Inv

\* A new subscription, or one in the place of an older.
LEMMA SubInv ==
    ASSUME Inv, loopSub
    PROVE  Inv'
<1> DEFINE k == Head(cmds)
           n == [client |-> k.client, query |-> k.query, value |-> k.value, ch |-> k.ch]
<1>1. /\ cmds # <<>> /\ cmds' = Tail(cmds) /\ sending = Nil /\ k.op = "sub" /\ state' \subseteq state \cup {n}
      /\ UNCHANGED <<subscriptions, maps, loop, sending, todo, pc, cmd, ref, chans, service, panicked>>
  BY DEF loopSub, add
<1>2. k \in Command /\ Pending(1) /\ k = cmds[1] /\ Waiting(n.ch)
  BY <1>1, Taken, ThreadTypes, ChanTypes, Places DEF Pending, OnePlace
<1>3. n \in [client : Clients, query : Queries, value : Values, ch : used \ closed]
  BY <1>1, <1>2 DEF Command, Waiting
<1>4. TypeOK' /\ cmds' \in Seq(Command) /\ cmd' \in [Threads -> Command]
  BY <1>1, <1>3, Taken, ThreadTypes, ViewTypes, LoopTypes, ChanTypes, FlagTypes DEF TypeOK
<1>5. ASSUME NEW i \in 1..Len(cmds'), Pending(i)'
      PROVE  i + 1 \in 1..Len(cmds) /\ Pending(i + 1) /\ cmds'[i] = cmds[i + 1] /\ cmds[i + 1].ch # n.ch
  <2>1. i + 1 \in 1..Len(cmds) /\ 1 \in 1..Len(cmds) /\ cmds'[i] = cmds[i + 1] /\ i + 1 # 1
    BY <1>1, Taken
  <2>2. Pending(i + 1)
    BY <1>5, <2>1, Zenon DEF Pending
  <2>3. cmds[i + 1].ch # cmds[1].ch
    BY <1>2, <2>1, <2>2, Places, Zenon DEF OnePlace
  <2>4. QED
    BY <1>2, <2>1, <2>2, <2>3
<1>6. \A t \in Threads : Calling(t)' => Calling(t) /\ cmd'[t] = cmd[t] /\ cmd[t].ch # n.ch
  <2>1. \A t \in Threads : Calling(t)' => Calling(t) /\ cmd'[t] = cmd[t]
    BY <1>1 DEF Calling
  <2>2. \A t \in Threads : Calling(t) => cmds[1].ch # cmd[t].ch
    BY <1>1, <1>2, Places DEF OnePlace
  <2>3. n.ch = cmds[1].ch
    BY <1>2
  <2>4. QED
    BY <2>1, <2>2, <2>3
<1>7. \A h : Waiting(h) /\ h # n.ch => h \in used' \ closed' /\ \A e \in state' : e.ch # h
  BY <1>1 DEF Waiting
<1>8. OnePlace'
  <2>1. (\A e, f \in state : e.ch = f.ch => e = f)'
    BY <1>1, <1>2, LoopTypes, FlagTypes, Places, Zenon DEF OnePlace, Waiting
  <2>2. (\A i \in 1..Len(cmds) : Pending(i) => Waiting(cmds[i].ch))'
    BY <1>5, <1>7, Places DEF OnePlace, Waiting
  <2>3. (\A i, j \in 1..Len(cmds) : Pending(i) /\ Pending(j) /\ cmds[i].ch = cmds[j].ch => i = j)'
    BY <1>1, <1>5, Places DEF OnePlace
  <2>4. (\A t \in Threads : Calling(t) => Waiting(cmd[t].ch))'
    BY <1>6, <1>7, Places DEF OnePlace, Waiting
  <2>5. (\A t \in Threads : \A i \in 1..Len(cmds) : Calling(t) /\ Pending(i) => cmds[i].ch # cmd[t].ch)'
    BY <1>5, <1>6, QueueTypes, ChanTypes, Places DEF OnePlace
  <2>6. (\A t, u \in Threads : Calling(t) /\ Calling(u) /\ cmd[t].ch = cmd[u].ch => t = u)'
    BY <1>6, QueueTypes, ChanTypes, Places DEF OnePlace
  <2>7. QED
    BY <2>1, <2>2, <2>3, <2>4, <2>5, <2>6 DEF OnePlace
<1>9. QED
  BY <1>1, <1>4, <1>8 DEF NoPanic, Inv

\* The loop takes a message and sends it to the channels of its state.
LEMMA PubInv ==
    ASSUME Inv, loopPub \/ loopSend
    PROVE  Inv'
<1>1. CASE loopPub
  <2>1. /\ cmds # <<>> /\ cmds' = Tail(cmds) /\ Head(cmds).op = "pub"
        /\ sending' = Head(cmds).ch /\ todo' = {e.ch : e \in state}
        /\ UNCHANGED <<subscriptions, maps, state, loop, pc, cmd, ref, chans, service, panicked>>
    BY <1>1 DEF loopPub
  <2>2. sending' \in Msgs
    BY <2>1, Taken DEF Command
  <2>3. todo' \subseteq used \ closed
    BY <2>1, LoopTypes
  <2>4. TypeOK' /\ cmds' \in Seq(Command) /\ cmd' \in [Threads -> Command]
    BY <2>1, <2>2, Taken, ThreadTypes, ViewTypes, LoopTypes, ChanTypes, FlagTypes DEF TypeOK
  <2>5. \A i \in 1..Len(cmds') : Pending(i)' => i + 1 \in 1..Len(cmds) /\ Pending(i + 1) /\ cmds'[i] = cmds[i + 1]
    BY <2>1, Taken DEF Pending
  <2>6. OnePlace'
    <3>1. (\A i \in 1..Len(cmds) : Pending(i) => Waiting(cmds[i].ch))'
      BY <2>1, <2>5, Places DEF OnePlace, Waiting
    <3>2. (\A i, j \in 1..Len(cmds) : Pending(i) /\ Pending(j) /\ cmds[i].ch = cmds[j].ch => i = j)'
      BY <2>1, <2>5, QueueTypes, ChanTypes, Places DEF OnePlace
    <3>3. (\A t \in Threads : Calling(t) => Waiting(cmd[t].ch))'
      BY <2>1, ChanTypes, FlagTypes, Places DEF OnePlace, Waiting, Calling
    <3>4. (\A t \in Threads : \A i \in 1..Len(cmds) : Calling(t) /\ Pending(i) => cmds[i].ch # cmd[t].ch)'
      BY <2>1, <2>5, ThreadTypes, Places DEF OnePlace, Calling
    <3>5. QED
      BY <2>1, <3>1, <3>2, <3>3, <3>4, ThreadTypes, ViewTypes, QueueTypes, LoopTypes, ChanTypes, FlagTypes,
         Places, Zenon
         DEF OnePlace, Calling
  <2>7. QED
    BY <2>1, <2>2, <2>3, <2>4, <2>6 DEF NoPanic, Inv
<1>2. CASE loopSend
  <2>1. /\ sending # Nil /\ sending \in Msgs
        /\ UNCHANGED <<cmds, subscriptions, maps, state, loop, pc, cmd, ref, used, closed, read, service>>
    BY <1>2, ThreadTypes, ViewTypes, QueueTypes, LoopTypes DEF loopSend
  <2>2. todo' \subseteq used \ closed /\ (sending' = Nil => todo' = {}) /\ sending' \in Msgs \cup {Nil}
        /\ content' \in [Chans -> Seq(Msgs)]
    <3>1. CASE todo = {}
      BY <1>2, <3>1, ChanTypes, FlagTypes DEF loopSend
    <3>2. CASE todo # {}
      <4>1. PICK h \in todo : /\ todo' = todo \ {h} /\ sending' = sending
                              /\ content' = IF h \in closed THEN content ELSE [content EXCEPT ![h] = Append(@, sending)]
        BY <1>2, <3>2 DEF loopSend
      <4>2. Append(content[h], sending) \in Seq(Msgs)
        BY LoopTypes, ChanTypes
      <4>3. QED
        BY <4>1, LoopTypes, ChanTypes
    <3>3. QED
      BY <3>1, <3>2
  <2>3. panicked' = FALSE
    <3>1. panicked = FALSE
      BY FlagTypes
    <3>2. CASE todo = {}
      BY <1>2, <3>1, <3>2 DEF loopSend
    <3>3. CASE todo # {}
      <4>1. PICK h \in todo : panicked' = (panicked \/ h \in closed)
        BY <1>2, <3>3 DEF loopSend
      <4>2. h \notin closed
        BY LoopTypes
      <4>3. QED
        BY <3>1, <4>1, <4>2, Zenon
    <3>4. QED
      BY <3>2, <3>3, Zenon
  <2>4. TypeOK'
    BY <2>1, <2>2, <2>3, ThreadTypes, ViewTypes, QueueTypes, LoopTypes, ChanTypes, FlagTypes, Places, Zenon
       DEF TypeOK
  <2>5. OnePlace'
    BY <2>1, ThreadTypes, ViewTypes, QueueTypes, LoopTypes, ChanTypes, Places, Zenon
       DEF OnePlace, Waiting, Calling, Pending
  <2>6. QED
    BY <2>1, <2>2, <2>3, <2>4, <2>5 DEF NoPanic, Inv
<1>3. QED
  BY <1>1, <1>2

\* Stop, a restart, and the subscribers.
LEMMA RestInv ==
    ASSUME Inv, Stop \/ OnStop \/ Restart \/ \E h \in Readers : Read(h)
    PROVE  Inv'
<1>1. CASE Stop
  <2>1. stop' \in {"none", "onstop"} /\ stopped' \in BOOLEAN
    BY <1>1, FlagTypes, Zenon DEF Stop
  <2>2. TypeOK'
    BY <1>1, <2>1, Zenon DEF Stop, TypeOK, Inv
  <2>3. OnePlace'
    BY <1>1, Places, Zenon DEF Stop, OnePlace, Waiting, Pending, Calling
  <2>4. QED
    BY <1>1, <2>2, <2>3 DEF Stop, NoPanic, Inv
<1>2. CASE OnStop
  <2> DEFINE k == Cmd("shutdown", Nil, Nil, Nil, Nil)
  <2>1. k \in Command /\ k.op = "shutdown"
    BY DEF Cmd, Command
  <2>2. cmds' = Append(cmds, k) /\ Len(cmds) < CmdsCap /\ stop' = "none"
        /\ UNCHANGED <<subscriptions, maps, state, loop, sending, todo, pc, cmd, ref, chans, stopped, panicked>>
    BY <1>2, Zenon DEF OnStop
  <2> HIDE DEF k
  <2>3. cmds' \in Seq(Command) /\ Len(cmds') = Len(cmds) + 1 /\ Len(cmds) \in Nat
        /\ cmds'[Len(cmds) + 1] = k /\ \A i \in 1..Len(cmds) : cmds'[i] = cmds[i]
    BY <2>1, <2>2, QueueTypes
  <2>4. TypeOK' /\ cmd' \in [Threads -> Command]
    <3>1. Len(cmds') <= CmdsCap
      BY <2>2, <2>3
    <3>2. QED
      BY <2>2, <3>1 DEF TypeOK, Inv
  <2>5. \A i \in 1..Len(cmds') : Pending(i)' => i \in 1..Len(cmds) /\ Pending(i) /\ cmds'[i] = cmds[i]
    <3>1. \A i \in 1..Len(cmds') : i \in 1..Len(cmds) \/ i = Len(cmds) + 1
      BY <2>3
    <3>2. QED
      BY <2>1, <2>3, <3>1 DEF Pending
  <2>6. OnePlace'
    BY <2>2, <2>5 DEF OnePlace, Waiting, Calling, Inv
  <2>7. QED
    BY <2>2, <2>3, <2>4, <2>6, Zenon DEF NoPanic, Inv
<1>3. CASE Restart
  BY <1>3, Zenon DEF Restart, TypeOK, OnePlace, NoPanic, Waiting, Pending, Calling, Inv
<1>4. ASSUME NEW h \in Readers, Read(h) PROVE Inv'
  <2>1. h \in Chans /\ content[h] \in Seq(Msgs) /\ read[h] \in Seq(Msgs) /\ content[h] # <<>>
    BY <1>4 DEF Read, TypeOK, Inv
  <2>2. Tail(content[h]) \in Seq(Msgs) /\ Append(read[h], Head(content[h])) \in Seq(Msgs)
    BY <2>1
  <2>3. TypeOK'
    BY <1>4, <2>1, <2>2 DEF Read, TypeOK, Inv
  <2>4. UNCHANGED <<cmds, cmd, pc, state, used, closed, sending, todo, panicked>>
    BY <1>4, Zenon DEF Read
  <2>5. OnePlace'
    BY <2>4 DEF OnePlace, Waiting, Pending, Calling, Inv
  <2>6. QED
    BY <2>3, <2>4, <2>5 DEF NoPanic, Inv
<1>5. QED
  BY <1>1, <1>2, <1>3, <1>4

\* A channel stays in one place, and open while it is in the loop's hands.
THEOREM Invariance == Spec => []Inv
<1>1. Inv /\ [Next]_vars => Inv'
  <2>1. SUFFICES ASSUME Inv, [Next]_vars PROVE Inv'
    OBVIOUS
  <2>2. CASE UNCHANGED vars
    BY <2>1, <2>2, Zenon DEF vars, TypeOK, OnePlace, NoPanic, Waiting, Pending, Calling, Inv
  <2>3. CASE Next
    BY <2>1, <2>3, CallInv, SendInv, UpdateInv, UnsubInv, SubInv, PubInv, RestInv DEF Next, Loop
  <2>4. QED
    BY <2>1, <2>2, <2>3
<1>2. QED
  BY <1>1, InitInv, PTL DEF Spec

\* The loop's state has open channels only, and the loop never sends on or
\* closes a closed one, which would panic.
THEOREM NeverPanics == Spec => []OpenChannels
<1>1. Inv => OpenChannels
  BY DEF OpenChannels, Inv
<1>2. QED
  BY <1>1, Invariance, PTL
-----------------------------------------------------------------------------
(* The order of messages *)

Got(h) == read[h] \o content[h]

\* got is the run of pub that ends with its n-th message.
IsRun(got, pub, n) ==
    /\ n \in Nat /\ Len(got) <= n /\ n <= Len(pub)
    /\ \A k \in 1..Len(got) : got[k] = pub[n - Len(got) + k]

\* f[i] of the published messages have entered cmds before the i-th of the
\* commands that are there; f[0] of them have left it.
Counts(f) ==
    /\ f \in [0..Len(cmds) -> 0..Len(published)] /\ f[Len(cmds)] = Len(published)
    /\ \A i \in 1..Len(cmds) :
          IF cmds[i].op = "pub" THEN f[i] = f[i - 1] + 1 /\ published[f[i]] = cmds[i].ch ELSE f[i] = f[i - 1]

\* Every subscriber in the loop's state has got what left cmds, up to the
\* message being sent, which those in todo still miss.
UpToDate(f) ==
    /\ sending # Nil => f[0] > 0 /\ f[0] <= Len(published) /\ published[f[0]] = sending
    /\ \A e \in state : IsRun(Got(e.ch), published, IF e.ch \in todo THEN f[0] - 1 ELSE f[0])

\* A channel that the loop has not seen is empty.
Unseen(h) == h \notin used \/ (\E t \in Threads : Calling(t) /\ cmd[t].ch = h)
             \/ (\E i \in 1..Len(cmds) : Pending(i) /\ cmds[i].ch = h)

Order ==
    /\ published \in Seq(Msgs) /\ todo \subseteq {e.ch : e \in state} /\ (sending # Nil => loop = "run")
    /\ \A h \in Chans : \E n \in Nat : IsRun(Got(h), published, n)
    /\ \A h \in Chans : Unseen(h) => Got(h) = <<>>
    /\ \E f : Counts(f) /\ UpToDate(f)

\* A message sent to the channel is appended to what its subscriber got.
LEMMA ConcatAppend ==
    ASSUME NEW s \in Seq(Msgs), NEW t \in Seq(Msgs), NEW m \in Msgs
    PROVE  s \o Append(t, m) = Append(s \o t, m)
<1>1. <<m>> \in Seq(Msgs) /\ s \o t \in Seq(Msgs)
  BY ConcatProperties
<1>2. Append(t, m) = t \o <<m>> /\ Append(s \o t, m) = (s \o t) \o <<m>>
  BY <1>1, AppendIsConcat
<1>3. QED
  BY <1>1, <1>2, ConcatAssociative

\* A message read moves from the channel to what was read.
LEMMA ConcatRead ==
    ASSUME NEW s \in Seq(Msgs), NEW t \in Seq(Msgs), t # <<>>
    PROVE  Append(s, Head(t)) \o Tail(t) = s \o t
<1>1. Head(t) \in Msgs /\ Tail(t) \in Seq(Msgs) /\ <<Head(t)>> \in Seq(Msgs)
  OBVIOUS
<1>2. Append(s, Head(t)) = s \o <<Head(t)>>
  BY <1>1, AppendIsConcat
<1>3. (s \o <<Head(t)>>) \o Tail(t) = s \o (<<Head(t)>> \o Tail(t))
  OBVIOUS
<1>4. <<Head(t)>> \o Tail(t) = t
  OBVIOUS
<1>5. QED
  OBVIOUS

\* A run stays one when more is published.
LEMMA RunPublish ==
    ASSUME NEW g \in Seq(Msgs), NEW p \in Seq(Msgs), NEW m \in Msgs, NEW n, IsRun(g, p, n)
    PROVE  IsRun(g, Append(p, m), n)
<1>1. Len(g) \in Nat /\ Len(p) \in Nat /\ Len(Append(p, m)) = Len(p) + 1
      /\ \A i \in 1..Len(p) : Append(p, m)[i] = p[i]
  OBVIOUS
<1>2. \A k \in 1..Len(g) : n - Len(g) + k \in 1..Len(p)
  BY <1>1 DEF IsRun
<1>3. QED
  BY <1>1, <1>2 DEF IsRun

\* A run grows by the message after its last.
LEMMA RunSend ==
    ASSUME NEW g \in Seq(Msgs), NEW p \in Seq(Msgs), NEW n \in Nat, n > 0, n <= Len(p), p[n] \in Msgs,
           IsRun(g, p, n - 1)
    PROVE  IsRun(Append(g, p[n]), p, n)
<1> DEFINE a == Append(g, p[n])
<1>1. Len(g) \in Nat /\ Len(p) \in Nat /\ Len(a) = Len(g) + 1 /\ a[Len(g) + 1] = p[n]
      /\ \A i \in 1..Len(g) : a[i] = g[i]
  OBVIOUS
<1> HIDE DEF a
<1>2. \A k \in 1..Len(a) : k \in 1..Len(g) \/ k = Len(g) + 1
  BY <1>1
<1>3. \A k \in 1..Len(a) : a[k] = p[n - Len(a) + k]
  <2>1. ASSUME NEW k \in 1..Len(g) PROVE a[k] = p[n - Len(a) + k]
    <3>1. (n - 1) - Len(g) + k = n - Len(a) + k
      BY <1>1
    <3>2. QED
      BY <1>1, <3>1 DEF IsRun
  <2>2. n - Len(a) + (Len(g) + 1) = n
    BY <1>1
  <2>3. ASSUME NEW k \in 1..Len(a), k = Len(g) + 1 PROVE a[k] = p[n - Len(a) + k]
    BY <1>1, <2>2, <2>3
  <2>4. QED
    BY <1>2, <2>1, <2>3, Zenon
<1>4. QED
  <2>1. Len(a) <= n
    BY <1>1 DEF IsRun
  <2>2. IsRun(a, p, n)
    BY <1>3, <2>1, Zenon DEF IsRun
  <2>3. QED
    BY <2>2 DEF a

\* A run is a SubSeq of what was published.
LEMMA RunIsSubSeq ==
    ASSUME NEW g \in Seq(Msgs), NEW p \in Seq(Msgs), NEW n, IsRun(g, p, n)
    PROVE  \E i \in 0..(Len(p) - Len(g)) : g = SubSeq(p, i + 1, i + Len(g))
<1>1. \A a, b \in Int : (\A k \in a..b : p[k] \in Msgs) =>
          /\ SubSeq(p, a, b) \in Seq(Msgs) /\ Len(SubSeq(p, a, b)) = IF a <= b THEN b - a + 1 ELSE 0
          /\ \A k \in 1..(b - a + 1) : SubSeq(p, a, b)[k] = p[a + k - 1]
  BY SubSeqProperties
<1>2. PICK i \in Int, a \in Int, b \in Int : i = n - Len(g) /\ a = i + 1 /\ b = i + Len(g)
  <2>1. n - Len(g) \in Int /\ (n - Len(g)) + 1 \in Int /\ (n - Len(g)) + Len(g) \in Int
    BY DEF IsRun
  <2>2. QED
    BY <2>1
<1>3. Len(g) \in Nat /\ Len(p) \in Nat /\ i \in 0..(Len(p) - Len(g)) /\ i + Len(g) <= Len(p)
  BY <1>2 DEF IsRun
<1>4. \A k \in a..b : p[k] \in Msgs
  BY <1>2, <1>3
<1>5. /\ SubSeq(p, a, b) \in Seq(Msgs) /\ Len(SubSeq(p, a, b)) = IF a <= b THEN b - a + 1 ELSE 0
      /\ \A k \in 1..(b - a + 1) : SubSeq(p, a, b)[k] = p[a + k - 1]
  BY <1>1, <1>4, Zenon
<1>6. Len(SubSeq(p, a, b)) = Len(g) /\ \A k \in 1..Len(g) : SubSeq(p, a, b)[k] = g[k]
  BY <1>2, <1>3, <1>5 DEF IsRun
<1>7. g = SubSeq(p, a, b)
  BY <1>5, <1>6, SeqEqual, Zenon
<1>8. QED
  BY <1>2, <1>3, <1>7, Zenon

\* What a subscriber got is a sequence of messages.
LEMMA GotType ==
    ASSUME Inv, NEW h \in Chans
    PROVE  Got(h) \in Seq(Msgs)
<1>1. read[h] \in Seq(Msgs) /\ content[h] \in Seq(Msgs)
  BY DEF TypeOK, Inv
<1>2. QED
  BY <1>1, ConcatProperties DEF Got

\* A command enters cmds.
LEMMA CountsAppend ==
    ASSUME Inv, published \in Seq(Msgs), NEW f, Counts(f), NEW k \in Command, cmds' = Append(cmds, k),
           published' = IF k.op = "pub" THEN Append(published, k.ch) ELSE published
    PROVE  \E g : Counts(g)' /\ g[0] = f[0]
<1>1. /\ cmds' \in Seq(Command) /\ Len(cmds') = Len(cmds) + 1 /\ Len(cmds) \in Nat
      /\ cmds'[Len(cmds) + 1] = k /\ \A i \in 1..Len(cmds) : cmds'[i] = cmds[i]
  BY DEF Inv
<1>2. /\ Len(published) \in Nat /\ Len(published') \in Nat
      /\ Len(published') = IF k.op = "pub" THEN Len(published) + 1 ELSE Len(published)
      /\ \A i \in 1..Len(published) : published'[i] = published[i]
      /\ k.op = "pub" => published'[Len(published) + 1] = k.ch
  <2>1. CASE k.op = "pub"
    <3>1. k.ch \in Msgs
      BY <2>1 DEF Command
    <3>2. QED
      BY <2>1, <3>1
  <2>2. CASE k.op # "pub"
    BY <2>2
  <2>3. QED
    BY <2>1, <2>2
<1>3. PICK g : g = [i \in 0..(Len(cmds) + 1) |-> IF i <= Len(cmds) THEN f[i] ELSE Len(published')]
  BY Zenon
<1>4. g \in [0..(Len(cmds) + 1) -> 0..Len(published')]
  BY <1>1, <1>2, <1>3 DEF Counts
<1>5. g[0] = f[0] /\ g[Len(cmds) + 1] = Len(published') /\ g[Len(cmds)] = Len(published)
      /\ \A i \in 1..Len(cmds) : g[i] = f[i] /\ g[i - 1] = f[i - 1]
  BY <1>1, <1>3 DEF Counts
<1>6. ASSUME NEW i \in 1..(Len(cmds) + 1)
      PROVE  IF cmds'[i].op = "pub" THEN g[i] = g[i - 1] + 1 /\ published'[g[i]] = cmds'[i].ch ELSE g[i] = g[i - 1]
  <2>1. CASE i \in 1..Len(cmds)
    <3>1. cmds'[i] = cmds[i] /\ g[i] = f[i] /\ g[i - 1] = f[i - 1] /\ f[i] \in 0..Len(published)
          /\ f[i - 1] \in 0..Len(published)
      <4>1. i \in 0..Len(cmds) /\ i - 1 \in 0..Len(cmds)
        BY <1>1, <2>1
      <4>2. QED
        BY <1>1, <1>5, <2>1, <4>1, Zenon DEF Counts
    <3>2. IF cmds[i].op = "pub" THEN f[i] = f[i - 1] + 1 /\ published[f[i]] = cmds[i].ch ELSE f[i] = f[i - 1]
      BY <2>1 DEF Counts
    <3>3. QED
      BY <3>1, <3>2
  <2>2. CASE i = Len(cmds) + 1
    <3>1. i - 1 = Len(cmds) /\ cmds'[i] = k
      BY <1>1, <2>2
    <3>2. g[i] = Len(published') /\ g[i - 1] = Len(published)
      BY <1>5, <2>2, <3>1
    <3>3. QED
      BY <1>2, <3>1, <3>2
  <2>3. i \in 1..Len(cmds) \/ i = Len(cmds) + 1
    BY <1>1
  <2>4. QED
    BY <2>1, <2>2, <2>3, Zenon
<1>7. Counts(g)'
  BY <1>1, <1>4, <1>5, <1>6, Zenon DEF Counts
<1>8. QED
  BY <1>5, <1>7

\* The loop takes a command.
LEMMA CountsTake ==
    ASSUME Inv, published \in Seq(Msgs), NEW f, Counts(f), cmds # <<>>, cmds' = Tail(cmds), published' = published
    PROVE  /\ \E g : Counts(g)' /\ g[0] = f[1]
           /\ f[0] \in 0..Len(published) /\ f[1] \in 0..Len(published)
           /\ IF Head(cmds).op = "pub" THEN f[1] = f[0] + 1 /\ published[f[1]] = Head(cmds).ch ELSE f[1] = f[0]
<1>1. /\ cmds' \in Seq(Command) /\ Len(cmds) \in Nat /\ 1 \in 1..Len(cmds) /\ Head(cmds) = cmds[1]
      /\ Len(cmds') = Len(cmds) - 1 /\ Len(published) \in Nat
      /\ \A i \in 1..Len(cmds') : i + 1 \in 1..Len(cmds) /\ cmds'[i] = cmds[i + 1]
  BY Taken
<1>2. PICK g : g = [i \in 0..(Len(cmds) - 1) |-> f[i + 1]]
  BY Zenon
<1>3. g \in [0..Len(cmds') -> 0..Len(published)] /\ g[0] = f[1] /\ g[Len(cmds')] = f[Len(cmds)]
      /\ \A i \in 1..Len(cmds') : g[i] = f[i + 1] /\ g[i - 1] = f[i]
  BY <1>2 DEF Counts
<1>4. ASSUME NEW i \in 1..Len(cmds')
      PROVE  IF cmds'[i].op = "pub" THEN g[i] = g[i - 1] + 1 /\ published'[g[i]] = cmds'[i].ch ELSE g[i] = g[i - 1]
  <2>1. (i + 1) \in 1..Len(cmds) /\ (i + 1) - 1 = i
    BY <1>1
  <2>2. IF cmds[i + 1].op = "pub" THEN f[i + 1] = f[(i + 1) - 1] + 1 /\ published[f[i + 1]] = cmds[i + 1].ch
        ELSE f[i + 1] = f[(i + 1) - 1]
    BY <2>1 DEF Counts
  <2>3. QED
    BY <1>1, <1>3, <2>1, <2>2
<1>5. Counts(g)'
  BY <1>1, <1>3, <1>4 DEF Counts
<1>6. f[0] \in 0..Len(published) /\ f[1] \in 0..Len(published)
      /\ IF Head(cmds).op = "pub" THEN f[1] = f[0] + 1 /\ published[f[1]] = Head(cmds).ch ELSE f[1] = f[0]
  BY DEF Counts
<1>7. QED
  BY <1>3, <1>5, <1>6

\* A new server has delivered nothing.
LEMMA InitOrder == NewServer => Order
<1>1. SUFFICES ASSUME NewServer PROVE Order
  OBVIOUS
<1>2. cmds = <<>> /\ published = <<>> /\ state = {} /\ todo = {} /\ sending = Nil
      /\ \A h \in Chans : read[h] = <<>> /\ content[h] = <<>>
  BY <1>1 DEF NewServer
<1>3. \A h \in Chans : Got(h) = <<>>
  BY <1>2 DEF Got
<1>4. \A h \in Chans : IsRun(Got(h), published, 0)
  BY <1>2, <1>3 DEF IsRun
<1>5. PICK f : f = [i \in 0..0 |-> 0]
  BY Zenon
<1>6. Counts(f) /\ UpToDate(f)
  BY <1>2, <1>5 DEF Counts, UpToDate
<1>7. QED
  BY <1>2, <1>3, <1>4, <1>6 DEF Order

\* A step of the API or of Stop that leaves the loop's side alone.
LEMMA ApiOrder ==
    ASSUME Order, UNCHANGED <<cmds, state, loop, sending, todo, content, read, published>>,
           \A h \in Chans : Unseen(h)' => Unseen(h)
    PROVE  Order'
<1>1. \A h : Got(h)' = Got(h)
  BY DEF Got
<1>2. PICK f : Counts(f) /\ UpToDate(f)
  BY Zenon DEF Order
<1>3. Counts(f)' /\ UpToDate(f)'
  BY <1>1, <1>2 DEF Counts, UpToDate
<1>4. QED
  BY <1>1, <1>3 DEF Order

\* Send and OnStop put a command into cmds.
LEMMA AppendOrder ==
    ASSUME Inv, Order, NEW k \in Command, cmds' = Append(cmds, k),
           published' = IF k.op = "pub" THEN Append(published, k.ch) ELSE published,
           UNCHANGED <<state, loop, sending, todo, content, read>>,
           \A h \in Chans : Unseen(h)' => Unseen(h)
    PROVE  Order'
<1>1. \A h : Got(h)' = Got(h)
  BY Zenon DEF Got
<1>2. PICK f : Counts(f) /\ UpToDate(f)
  BY DEF Order
<1>3. published \in Seq(Msgs) /\ published' \in Seq(Msgs) /\ Len(published) <= Len(published')
      /\ \A i \in 1..Len(published) : published'[i] = published[i]
  <2>1. k.op = "pub" => k.ch \in Msgs
    BY DEF Command
  <2>2. QED
    BY <2>1 DEF Order
<1>4. PICK g : Counts(g)' /\ g[0] = f[0]
  BY <1>2, <1>3, CountsAppend
<1>5. \A h \in Chans : \A n : IsRun(Got(h), published, n) => IsRun(Got(h), published', n)
  <2>1. TAKE h \in Chans
  <2>2. TAKE n
  <2>3. CASE k.op = "pub"
    BY <1>3, <2>3, GotType, RunPublish DEF Command
  <2>4. CASE k.op # "pub"
    BY <2>4
  <2>5. QED
    BY <2>3, <2>4
<1>6. \A e \in state : e.ch \in Chans
  BY DEF TypeOK, Inv
<1>7. UpToDate(g)'
  <2>1. (sending # Nil => g[0] > 0 /\ g[0] <= Len(published) /\ published[g[0]] = sending)'
    <3>1. f[0] \in Nat
      BY <1>2 DEF Counts
    <3>2. QED
      BY <1>2, <1>3, <1>4, <3>1 DEF UpToDate
  <2>2. (\A e \in state : IsRun(Got(e.ch), published, IF e.ch \in todo THEN g[0] - 1 ELSE g[0]))'
    BY <1>1, <1>2, <1>4, <1>5, <1>6, Zenon DEF UpToDate
  <2>3. QED
    BY <2>1, <2>2, Zenon DEF UpToDate
<1>8. \A h \in Chans : \E n \in Nat : IsRun(Got(h)', published', n)
  BY <1>1, <1>5, Zenon DEF Order
<1>9. QED
  BY <1>1, <1>3, <1>4, <1>7, <1>8, Zenon DEF Order

\* What the loop has not seen after it took a command, it had not seen before.
LEMMA TakeUnseen ==
    ASSUME Inv, cmds # <<>>, cmds' = Tail(cmds), UNCHANGED <<used, pc, cmd>>, NEW h \in Chans, Unseen(h)'
    PROVE  Unseen(h)
<1>1. CASE h \notin used'
  BY <1>1 DEF Unseen
<1>2. ASSUME NEW t \in Threads, Calling(t)', cmd'[t].ch = h PROVE Unseen(h)
  BY <1>2 DEF Unseen, Calling
<1>3. ASSUME NEW i \in 1..Len(cmds'), Pending(i)', cmds'[i].ch = h PROVE Unseen(h)
  <2>1. i + 1 \in 1..Len(cmds) /\ cmds'[i] = cmds[i + 1]
    BY Taken
  <2>2. Pending(i + 1) /\ cmds[i + 1].ch = h
    BY <1>3, <2>1, Zenon DEF Pending
  <2>3. QED
    BY <2>1, <2>2 DEF Unseen
<1>4. QED
  BY <1>1, <1>2, <1>3 DEF Unseen

\* The loop takes a command that is no message.
LEMMA TakeOrder ==
    ASSUME Inv, Order, cmds # <<>>, cmds' = Tail(cmds), Head(cmds).op # "pub", sending = Nil,
           UNCHANGED <<sending, todo, content, read, published, used, pc, cmd>>,
           \A e \in state' : e \in state \/ (e.ch \in Chans /\ Got(e.ch) = <<>>)
    PROVE  Order'
<1>1. \A h : Got(h)' = Got(h)
  BY Zenon DEF Got
<1>2. PICK f : Counts(f) /\ UpToDate(f)
  BY DEF Order
<1>3. published \in Seq(Msgs) /\ Len(published) \in Nat /\ todo = {}
  BY DEF Order, Inv
<1>4. f[0] \in 0..Len(published) /\ f[1] = f[0] /\ \E g : Counts(g)' /\ g[0] = f[1]
  BY <1>2, <1>3, CountsTake
<1>5. PICK g : Counts(g)' /\ g[0] = f[0]
  BY <1>4
<1>6. \A e \in state' : IsRun(Got(e.ch), published, f[0])
  <2>1. TAKE e \in state'
  <2>2. CASE e \in state
    BY <1>2, <1>3, <2>2 DEF UpToDate
  <2>3. CASE Got(e.ch) = <<>>
    BY <1>3, <1>4, <2>3 DEF IsRun
  <2>4. QED
    BY <2>2, <2>3
<1>7. UpToDate(g)'
  BY <1>1, <1>3, <1>5, <1>6 DEF UpToDate
<1>8. \A h \in Chans : Unseen(h)' => Unseen(h)
  BY TakeUnseen, Zenon
<1>9. QED
  BY <1>1, <1>3, <1>5, <1>7, <1>8 DEF Order

\* The loop takes a message, and sends it to one channel after the other.
LEMMA PubOrder ==
    ASSUME Inv, Order, loopPub
    PROVE  Order'
<1>1. /\ cmds # <<>> /\ cmds' = Tail(cmds) /\ Head(cmds).op = "pub" /\ sending = Nil /\ loop = "run"
      /\ sending' = Head(cmds).ch /\ todo' = {e.ch : e \in state}
      /\ UNCHANGED <<state, loop, pc, cmd, used, content, read, published>>
  BY DEF loopPub
<1>2. \A h : Got(h)' = Got(h)
  BY <1>1 DEF Got
<1>3. PICK f : Counts(f) /\ UpToDate(f)
  BY DEF Order
<1>4. published \in Seq(Msgs) /\ Len(published) \in Nat /\ todo = {}
  BY <1>1 DEF Order, Inv
<1>5. f[0] \in 0..Len(published) /\ f[1] \in 0..Len(published) /\ f[1] = f[0] + 1
      /\ published[f[1]] = Head(cmds).ch /\ \E g : Counts(g)' /\ g[0] = f[1]
  BY <1>1, <1>3, <1>4, CountsTake
<1>6. PICK g : Counts(g)' /\ g[0] = f[1]
  BY <1>5, Zenon
<1>7. \A e \in state : e.ch \in todo' /\ IsRun(Got(e.ch), published, g[0] - 1)
  <2>1. g[0] - 1 = f[0]
    BY <1>5, <1>6
  <2>2. QED
    BY <1>1, <1>3, <1>4, <2>1, Zenon DEF UpToDate
<1>8. UpToDate(g)'
  BY <1>1, <1>2, <1>4, <1>5, <1>6, <1>7 DEF UpToDate
<1>9. \A h \in Chans : Unseen(h)' => Unseen(h)
  BY <1>1, TakeUnseen
<1>10. QED
  BY <1>1, <1>2, <1>4, <1>6, <1>8, <1>9 DEF Order

\* The loop sends its message to one more channel.
LEMMA SendOrder ==
    ASSUME Inv, Order, loopSend
    PROVE  Order'
<1>1. sending # Nil /\ UNCHANGED <<cmds, state, loop, pc, cmd, used, closed, read, published>>
  BY Zenon DEF loopSend
<1>2. PICK f : Counts(f) /\ UpToDate(f)
  BY DEF Order
<1>3. published \in Seq(Msgs) /\ Len(published) \in Nat /\ Counts(f)'
  BY <1>1, <1>2 DEF Order, Counts
<1>4. \A h \in Chans : Unseen(h)' => Unseen(h)
  BY <1>1, Zenon DEF Unseen, Calling, Pending
<1>5. CASE todo = {}
  <2>1. sending' = Nil /\ UNCHANGED <<todo, content>>
    BY <1>5 DEF loopSend
  <2>2. \A h : Got(h)' = Got(h)
    BY <1>1, <2>1 DEF Got
  <2>3. UpToDate(f)'
    BY <1>1, <1>2, <2>1, <2>2, Zenon DEF UpToDate
  <2>4. QED
    BY <1>1, <1>3, <1>4, <2>1, <2>2, <2>3 DEF Order
<1>6. CASE todo # {}
  <2>1. PICK h \in todo :
            /\ todo' = todo \ {h} /\ sending' = sending
            /\ content' = IF h \in closed THEN content ELSE [content EXCEPT ![h] = Append(@, sending)]
    BY <1>6 DEF loopSend
  <2>2. h \in Chans /\ h \notin closed /\ sending \in Msgs /\ content[h] \in Seq(Msgs) /\ read[h] \in Seq(Msgs)
    BY <1>1, <2>1 DEF TypeOK, Inv
  <2>3. \A c \in Chans : c # h => Got(c)' = Got(c)
    BY <1>1, <2>1, <2>2 DEF Got, TypeOK, Inv
  <2>4. Got(h)' = Append(Got(h), sending)
    <3>1. content'[h] = Append(content[h], sending)
      BY <2>1, <2>2 DEF TypeOK, Inv
    <3>2. read[h] \o Append(content[h], sending) = Append(read[h] \o content[h], sending)
      BY <2>2, ConcatAppend, Zenon
    <3>3. QED
      BY <1>1, <3>1, <3>2 DEF Got
  <2>5. f[0] \in Nat /\ f[0] > 0 /\ f[0] <= Len(published) /\ published[f[0]] = sending
    BY <1>1, <1>2, <1>3 DEF UpToDate, Counts
  <2>6. PICK e \in state : e.ch = h
    BY <2>1, Zenon DEF Order
  <2>7. IsRun(Got(h), published, f[0] - 1)
    BY <1>2, <2>1, <2>6, Zenon DEF UpToDate
  <2>8. IsRun(Append(Got(h), sending), published, f[0])
    BY <1>3, <2>2, <2>5, <2>7, GotType, RunSend
  <2>9. \A c \in Chans : \E n \in Nat : IsRun(Got(c)', published', n)
    BY <1>1, <2>3, <2>4, <2>5, <2>8, Zenon DEF Order
  <2>10. UpToDate(f)'
    <3>1. (\A d \in state : IsRun(Got(d.ch), published, IF d.ch \in todo THEN f[0] - 1 ELSE f[0]))'
      <4>1. SUFFICES ASSUME NEW d \in state
                     PROVE  IsRun(Got(d.ch)', published, IF d.ch \in todo' THEN f[0] - 1 ELSE f[0])
        BY <1>1 DEF Got
      <4>2. CASE d.ch = h
        BY <2>1, <2>4, <2>8, <4>2, Zenon DEF Got
      <4>3. CASE d.ch # h
        <5>1. d.ch \in Chans /\ (d.ch \in todo' <=> d.ch \in todo)
          BY <2>1, <4>3 DEF TypeOK, Inv
        <5>2. IsRun(Got(d.ch), published, IF d.ch \in todo THEN f[0] - 1 ELSE f[0])
          BY <1>2 DEF UpToDate
        <5>3. QED
          BY <2>3, <4>3, <5>1, <5>2
      <4>4. QED
        BY <4>2, <4>3
    <3>2. QED
      BY <1>1, <2>1, <2>5, <3>1 DEF UpToDate
  <2>11. ~Unseen(h)
    BY <2>1, <2>2, <2>6, Zenon DEF Unseen, OnePlace, Waiting, TypeOK, Inv
  <2>12. (\A c \in Chans : Unseen(c) => Got(c) = <<>>)'
    BY <1>4, <2>3, <2>11, Zenon DEF Order
  <2>13. QED
    BY <1>1, <1>3, <2>1, <2>9, <2>10, <2>12 DEF Order
<1>7. QED
  BY <1>5, <1>6

\* A subscriber reads: what it got and what waits for it is the same run.
LEMMA ReadOrder ==
    ASSUME Inv, Order, NEW h \in Readers, Read(h)
    PROVE  Order'
<1>1. /\ read' = [read EXCEPT ![h] = Append(@, Head(content[h]))] /\ content[h] # <<>>
      /\ content' = [content EXCEPT ![h] = Tail(@)]
      /\ UNCHANGED <<cmds, state, loop, sending, todo, pc, cmd, used, published>>
  BY DEF Read
<1>2. \A c \in Chans : Got(c)' = Got(c)
  <2>1. TAKE c \in Chans
  <2>2. CASE c = h
    <3>1. read[h] \in Seq(Msgs) /\ content[h] \in Seq(Msgs)
          /\ read'[h] = Append(read[h], Head(content[h])) /\ content'[h] = Tail(content[h])
      BY <1>1, <2>2 DEF TypeOK, Inv
    <3>2. QED
      <4>1. read'[h] \o content'[h] = read[h] \o content[h]
        BY <1>1, <3>1, ConcatRead, Zenon
      <4>2. QED
        BY <2>2, <4>1 DEF Got
  <2>3. CASE c # h
    BY <1>1, <2>3, Zenon DEF Got, TypeOK, Inv
  <2>4. QED
    BY <2>2, <2>3
<1>3. PICK f : Counts(f) /\ UpToDate(f)
  BY DEF Order
<1>4. \A e \in state : Got(e.ch)' = Got(e.ch)
  BY <1>2 DEF TypeOK, Inv
<1>5. Counts(f)' /\ UpToDate(f)'
  BY <1>1, <1>3, <1>4, Zenon DEF Counts, UpToDate
<1>6. \A c \in Chans : Unseen(c)' => Unseen(c)
  BY <1>1, Zenon DEF Unseen, Calling, Pending
<1>7. QED
  BY <1>1, <1>2, <1>5, <1>6, Zenon DEF Order

\* A new server starts with an empty state.
LEMMA RestartOrder ==
    ASSUME Inv, Order, Restart
    PROVE  Order'
<1>1. /\ loop = "stopped" /\ state' = {} /\ loop' = "run"
      /\ UNCHANGED <<cmds, sending, todo, pc, cmd, used, content, read, published>>
  BY DEF Restart
<1>2. sending = Nil /\ todo = {}
  BY <1>1, Zenon DEF Order, Inv
<1>3. \A h : Got(h)' = Got(h)
  BY <1>1 DEF Got
<1>4. PICK f : Counts(f)
  BY DEF Order
<1>5. Counts(f)' /\ UpToDate(f)'
  BY <1>1, <1>2, <1>4 DEF Counts, UpToDate
<1>6. \A c \in Chans : Unseen(c)' => Unseen(c)
  BY <1>1, Zenon DEF Unseen, Calling, Pending
<1>7. QED
  BY <1>1, <1>2, <1>3, <1>5, <1>6, Zenon DEF Order

\* The calls of the API.
LEMMA CallOrder ==
    ASSUME Inv, Order, NEW t \in Threads,
           Subscribe(t) \/ Unsubscribe(t) \/ UnsubscribeAll(t) \/ PublishWithTags(t) \/ Send(t) \/ Update(t)
    PROVE  Order'
<1>0. Idle.op = "none" /\ cmd \in [Threads -> Command] /\ pc \in [Threads -> {"idle", "send", "update"}]
  BY DEF Idle, Cmd, TypeOK, Inv
<1>1. CASE Subscribe(t)
  <2>1. PICK c \in Clients, q \in Queries, h \in Chans \ used :
            /\ used' = used \cup {h}
            /\ cmd' = [cmd EXCEPT ![t] = Cmd("sub", c, q, QueryValue(q, h), h)]
    BY <1>1, Zenon DEF Subscribe
  <2>2. UNCHANGED <<cmds, state, loop, sending, todo, content, read, published>>
        /\ pc' = [pc EXCEPT ![t] = "send"]
    BY <1>1 DEF Subscribe
  <2>3. cmd'[t].ch = h /\ \A u \in Threads \ {t} : cmd'[u] = cmd[u] /\ pc'[u] = pc[u]
    BY <1>0, <2>1, <2>2 DEF Cmd
  <2>4. \A x \in Chans : Unseen(x)' => Unseen(x)
    BY <2>1, <2>2, <2>3, Zenon DEF Unseen, Calling, Pending
  <2>5. QED
    BY <2>2, <2>4, ApiOrder
<1>2. ASSUME UNCHANGED <<cmds, state, loop, sending, todo, content, read, used, published>>,
             \A u \in Threads : Calling(u)' => Calling(u) /\ cmd'[u] = cmd[u]
      PROVE  Order'
  <2>1. \A x \in Chans : Unseen(x)' => Unseen(x)
    BY <1>2, Zenon DEF Unseen, Pending
  <2>2. QED
    BY <1>2, <2>1, ApiOrder, Zenon
<1>3. CASE Unsubscribe(t) \/ UnsubscribeAll(t) \/ PublishWithTags(t)
  <2>1. \A u \in Threads \ {t} : cmd'[u] = cmd[u] /\ pc'[u] = pc[u]
    BY <1>0, <1>3, Zenon DEF Unsubscribe, UnsubscribeAll, PublishWithTags
  <2>2. cmd'[t].op # "sub"
    <3>1. CASE Unsubscribe(t)
      <4>1. PICK c, q : cmd' = [cmd EXCEPT ![t] = Cmd("unsub", c, q, maps[subscriptions[c]][q], Nil)]
        BY <3>1, Zenon DEF Unsubscribe
      <4>2. QED
        BY <1>0, <4>1 DEF Cmd
    <3>2. CASE UnsubscribeAll(t)
      <4>1. PICK c : cmd' = [cmd EXCEPT ![t] = Cmd("unsub", c, Nil, Nil, Nil)]
        BY <3>2, Zenon DEF UnsubscribeAll
      <4>2. QED
        BY <1>0, <4>1 DEF Cmd
    <3>3. CASE PublishWithTags(t)
      <4>1. PICK m : cmd' = [cmd EXCEPT ![t] = Cmd("pub", Nil, Nil, Nil, m)]
        BY <3>3, Zenon DEF PublishWithTags
      <4>2. QED
        BY <1>0, <4>1 DEF Cmd
    <3>4. QED
      BY <1>3, <3>1, <3>2, <3>3, Zenon
  <2>3. UNCHANGED <<cmds, state, loop, sending, todo, content, read, used, published>>
    BY <1>3, Zenon DEF Unsubscribe, UnsubscribeAll, PublishWithTags
  <2>4. QED
    BY <1>2, <2>1, <2>2, <2>3 DEF Calling
<1>4. CASE Update(t) \/ (Send(t) /\ Finish(t) /\ UNCHANGED <<cmds, published>>)
  <2>1. Finish(t) /\ UNCHANGED <<cmds, state, loop, sending, todo, content, read, used, published>>
    BY <1>4, Zenon DEF Update, SubscribeUpdate, UnsubscribeUpdate, UnsubscribeAllUpdate, Send
  <2>2. QED
    BY <1>0, <1>2, <2>1 DEF Finish, Calling
<1>5. CASE /\ Send(t) /\ cmds' = Append(cmds, cmd[t]) /\ UNCHANGED cmd
           /\ pc' = [pc EXCEPT ![t] = IF cmd[t].op = "pub" THEN "idle" ELSE "update"]
           /\ published' = IF cmd[t].op = "pub" THEN Append(published, cmd[t].ch) ELSE published
  <2>1. pc[t] = "send" /\ UNCHANGED <<state, loop, sending, todo, content, read, used>> /\ cmd[t] \in Command
    BY <1>0, <1>5 DEF Send
  <2>2. /\ Len(cmds) \in Nat /\ Len(cmds') = Len(cmds) + 1 /\ cmds'[Len(cmds) + 1] = cmd[t]
        /\ \A i \in 1..Len(cmds) : cmds'[i] = cmds[i]
    <3>1. cmds' = Append(cmds, cmd[t]) /\ cmds \in Seq(Command) /\ cmd[t] \in Command
      BY <1>5, <2>1, QueueTypes, Zenon
    <3>2. QED
      BY <3>1, QueueAppend, Zenon
  <2>3. \A u \in Threads : Calling(u)' => Calling(u) /\ cmd'[u] = cmd[u]
    BY <1>0, <1>5 DEF Calling
  <2>4. ASSUME NEW x \in Chans, NEW i \in 1..Len(cmds'), Pending(i)', cmds'[i].ch = x PROVE Unseen(x)
    <3>1. i \in 1..Len(cmds) \/ i = Len(cmds) + 1
      BY <2>2
    <3>2. CASE i \in 1..Len(cmds)
      BY <2>2, <2>4, <3>2 DEF Unseen, Pending
    <3>3. CASE i = Len(cmds) + 1
      BY <2>1, <2>2, <2>4, <3>3, Zenon DEF Unseen, Pending, Calling
    <3>4. QED
      BY <3>1, <3>2, <3>3
  <2>5. \A x \in Chans : Unseen(x)' => Unseen(x)
    BY <2>1, <2>3, <2>4, Zenon DEF Unseen
  <2>6. QED
    BY <1>5, <2>1, <2>5, AppendOrder, Zenon
<1>6. QED
  BY <1>1, <1>3, <1>4, <1>5 DEF Send, Finish

\* Channels in the loop's state are up to date, and the others hold a run.
THEOREM OrderInvariance == Spec => []Order
<1>1. Inv /\ Order /\ [Next]_vars => Order'
  <2>1. SUFFICES ASSUME Inv, Order, [Next]_vars PROVE Order'
    OBVIOUS
  <2>2. CASE UNCHANGED vars
    <3>1. UNCHANGED <<cmds, state, loop, sending, todo, content, read, published, used, pc, cmd>>
      BY <2>2 DEF vars
    <3>2. \A h \in Chans : Unseen(h)' => Unseen(h)
      BY <3>1 DEF Unseen, Calling, Pending
    <3>3. QED
      BY <2>1, <3>1, <3>2, ApiOrder
  <2>3. CASE loopUnsub
    <3>1. /\ cmds # <<>> /\ cmds' = Tail(cmds) /\ Head(cmds).op # "pub" /\ sending = Nil
          /\ UNCHANGED <<sending, todo, content, read, published, used, pc, cmd>> /\ state' \subseteq state
      BY <2>3 DEF loopUnsub, removeEntries
    <3>2. QED
      BY <2>1, <3>1, TakeOrder
  <2>4. CASE loopSub
    <3>1. /\ cmds # <<>> /\ cmds' = Tail(cmds) /\ Head(cmds).op = "sub" /\ sending = Nil
          /\ UNCHANGED <<sending, todo, content, read, published, used, pc, cmd>>
      BY <2>4, Zenon DEF loopSub
    <3>2. \A e \in state' : e \in state \/ e.ch = Head(cmds).ch
      <4>1. state' = add(Head(cmds))
        BY <2>4, Zenon DEF loopSub
      <4>2. QED
        BY <4>1 DEF add
    <3>3. Head(cmds).ch \in Chans /\ Unseen(Head(cmds).ch)
      BY <2>1, <3>1, Taken, Zenon DEF Unseen, Pending, Command
    <3>4. Got(Head(cmds).ch) = <<>>
      BY <2>1, <3>3 DEF Order
    <3>5. \A e \in state' : e \in state \/ (e.ch \in Chans /\ Got(e.ch) = <<>>)
      BY <3>2, <3>3, <3>4
    <3>6. QED
      BY <2>1, <3>1, <3>5, TakeOrder
  <2>5. CASE Stop
    <3>1. UNCHANGED <<cmds, state, loop, sending, todo, content, read, published, used, pc, cmd>>
      BY <2>5 DEF Stop
    <3>2. \A h \in Chans : Unseen(h)' => Unseen(h)
      BY <3>1 DEF Unseen, Calling, Pending
    <3>3. QED
      BY <2>1, <3>1, <3>2, ApiOrder
  <2>6. CASE OnStop
    <3>1. PICK k : k = Cmd("shutdown", Nil, Nil, Nil, Nil)
      OBVIOUS
    <3>2. k \in Command /\ k.op = "shutdown"
      BY <3>1 DEF Cmd, Command
    <3>3. cmds' = Append(cmds, k)
          /\ UNCHANGED <<state, loop, sending, todo, content, read, published, used, pc, cmd>>
      BY <2>6, <3>1, Zenon DEF OnStop
    <3>4. /\ Len(cmds) \in Nat /\ Len(cmds') = Len(cmds) + 1 /\ cmds'[Len(cmds) + 1] = k
          /\ \A i \in 1..Len(cmds) : cmds'[i] = cmds[i]
      <4>1. cmds \in Seq(Command)
        BY <2>1, QueueTypes
      <4>2. QED
        BY <3>2, <3>3, <4>1, QueueAppend, Zenon
    <3>5. \A i \in 1..Len(cmds') : Pending(i)' => i \in 1..Len(cmds) /\ Pending(i) /\ cmds'[i] = cmds[i]
      <4>1. \A i \in 1..Len(cmds') : i \in 1..Len(cmds) \/ i = Len(cmds) + 1
        BY <3>4
      <4>2. QED
        BY <3>2, <3>4, <4>1 DEF Pending
    <3>6. \A h \in Chans : Unseen(h)' => Unseen(h)
      BY <3>3, <3>5 DEF Unseen, Calling
    <3>7. QED
      BY <2>1, <3>2, <3>3, <3>6, AppendOrder
  <2>7. QED
    BY <2>1, <2>2, <2>3, <2>4, <2>5, <2>6, CallOrder, PubOrder, SendOrder, ReadOrder, RestartOrder
       DEF Next, Loop
<1>2. QED
  BY <1>1, InitOrder, Invariance, PTL DEF Spec

\* A subscriber gets a contiguous run of what was published, in that order,
\* however many publishers, slow subscribers and restarts there are.
THEOREM DeliveredInOrder == Spec => []InOrder
<1>1. Inv /\ Order => InOrder
  <2>1. SUFFICES ASSUME Inv, Order, NEW h \in Chans
                 PROVE  \E i \in 0..(Len(published) - Len(Got(h))) :
                            Got(h) = SubSeq(published, i + 1, i + Len(Got(h)))
    BY Zenon DEF InOrder, Got
  <2>2. PICK n : IsRun(Got(h), published, n)
    BY <2>1 DEF Order
  <2>3. Got(h) \in Seq(Msgs) /\ published \in Seq(Msgs)
    BY <2>1, GotType DEF Order
  <2>4. QED
    BY <2>2, <2>3, RunIsSubSeq, Zenon
<1>2. QED
  BY <1>1, Invariance, OrderInvariance, PTL
=============================================================================

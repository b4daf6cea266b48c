------------------------------- MODULE PubSub -------------------------------
(***************************************************************************)
(* The publish/subscribe server of tmlibs/pubsub/pubsub.go.                *)
(*                                                                         *)
(* subscriptions is the view of the API methods, under mtx; its inner maps *)
(* are heap objects, because Unsubscribe keeps a reference to one across   *)
(* its send on cmds.  state is what the loop goroutine knows.  The two are *)
(* only connected by cmds.  Every Subscribe passes a channel of its own.   *)
(* The loop tells queries apart by the Query value, the API by its string: *)
(* a Query value is the string itself if callers share them, and goes with *)
(* the Subscribe call, hence with its channel, otherwise.                  *)
(***************************************************************************)
EXTENDS Naturals, Sequences, Functions, FiniteSets

CONSTANTS Threads, Clients, Queries,
          Chans,       \* bound: the channels passed to Subscribe
          Maps,        \* bound: the inner maps Subscribe makes
          Msgs,        \* bound: the messages published, every query matches each
          CmdsCap,     \* cmdsCap
          ChanCap,     \* capacity of a subscriber's channel
          MaxRestarts, \* bound: Reset and Start after Stop
          SharedQueries, \* do callers pass one Query value per query string?
          Readers,     \* the channels whose subscriber reads on
          Nil

ASSUME PubSubAssumption ==
    /\ CmdsCap \in Nat \ {0} /\ ChanCap \in Nat \ {0} /\ MaxRestarts \in Nat
    /\ Readers \subseteq Chans /\ Nil \notin Msgs

Values == Queries \cup Chans
QueryValue(q, h) == IF SharedQueries THEN q ELSE h

VARIABLES
    cmds, subscriptions, maps,
    state,           \* the loop's subscriptions
    loop,            \* run, stopped
    sending, todo,   \* a message being sent, and the channels it still has to go to
    pc, cmd, ref,    \* of a thread: place, command, inner map it holds
    used, content, closed, read, \* of channels: passed to Subscribe, buffer, closed, received
    stop, stopped, restarts,     \* the thread that stops the service, BaseService.stopped
    published,       \* history: messages in the order they entered cmds
    panicked         \* a send on, or close of, a closed channel

chans == <<used, content, closed, read>>
service == <<stop, stopped, restarts>>
vars == <<cmds, subscriptions, maps, state, loop, sending, todo, pc, cmd, ref, chans, service,
          published, panicked>>

Cmd(op, client, query, value, ch) ==
    [op |-> op, client |-> client, query |-> query, value |-> value, ch |-> ch]
Idle == Cmd("none", Nil, Nil, Nil, Nil)

NewServer ==
    /\ cmds = <<>> /\ subscriptions = [c \in Clients |-> Nil] /\ maps = [m \in Maps |-> [q \in Queries |-> Nil]]
    /\ state = {} /\ loop = "run" /\ sending = Nil /\ todo = {}
    /\ pc = [t \in Threads |-> "idle"] /\ cmd = [t \in Threads |-> Idle] /\ ref = [t \in Threads |-> Nil]
    /\ used = {} /\ content = [h \in Chans |-> <<>>] /\ closed = {} /\ read = [h \in Chans |-> <<>>]
    /\ stop = "none" /\ stopped = FALSE /\ restarts = 0
    /\ published = <<>> /\ panicked = FALSE

\* The API's view: is the pair subscribed?
Subscribed(c, q) == subscriptions[c] # Nil /\ maps[subscriptions[c]][q] # Nil
FreshMaps == Maps \ ({subscriptions[c] : c \in Clients} \cup {ref[t] : t \in Threads})

-----------------------------------------------------------------------------
(* The API: test under RLock, send a command, update under Lock *)

\* A pair that is there returns ErrAlreadySubscribed.
Subscribe(t) ==
    /\ pc[t] = "idle"
    /\ \E c \in Clients, q \in Queries, h \in Chans \ used :
        /\ ~Subscribed(c, q)
        /\ used' = used \cup {h}
        /\ cmd' = [cmd EXCEPT ![t] = Cmd("sub", c, q, QueryValue(q, h), h)]
    /\ pc' = [pc EXCEPT ![t] = "send"]
    /\ UNCHANGED <<cmds, subscriptions, maps, state, loop, sending, todo, ref, content, closed, read,
                   service, published, panicked>>

Unsubscribe(t) ==
    /\ pc[t] = "idle"
    /\ \E c \in Clients, q \in Queries :
        /\ Subscribed(c, q)
        /\ cmd' = [cmd EXCEPT ![t] = Cmd("unsub", c, q, maps[subscriptions[c]][q], Nil)]
        /\ ref' = [ref EXCEPT ![t] = subscriptions[c]]
    /\ pc' = [pc EXCEPT ![t] = "send"]
    /\ UNCHANGED <<cmds, subscriptions, maps, state, loop, sending, todo, chans, service, published, panicked>>

UnsubscribeAll(t) ==
    /\ pc[t] = "idle"
    /\ \E c \in Clients :
        /\ subscriptions[c] # Nil
        /\ cmd' = [cmd EXCEPT ![t] = Cmd("unsub", c, Nil, Nil, Nil)]
    /\ pc' = [pc EXCEPT ![t] = "send"]
    /\ UNCHANGED <<cmds, subscriptions, maps, state, loop, sending, todo, ref, chans, service, published, panicked>>

PublishWithTags(t) ==
    /\ pc[t] = "idle" /\ Len(published) < Cardinality(Msgs)
    /\ \E m \in Msgs :
        /\ m \notin Range(published) /\ \A u \in Threads : cmd[u].ch # m
        /\ cmd' = [cmd EXCEPT ![t] = Cmd("pub", Nil, Nil, Nil, m)]
    /\ pc' = [pc EXCEPT ![t] = "send"]
    /\ UNCHANGED <<cmds, subscriptions, maps, state, loop, sending, todo, ref, chans, service, published, panicked>>

\* The select of the four methods: the command is sent, or the context ends.
Send(t) ==
    /\ pc[t] = "send"
    /\ \/ /\ Len(cmds) < CmdsCap
          /\ cmds' = Append(cmds, cmd[t])
          /\ published' = IF cmd[t].op = "pub" THEN Append(published, cmd[t].ch) ELSE published
          /\ pc' = [pc EXCEPT ![t] = IF cmd[t].op = "pub" THEN "idle" ELSE "update"]
          /\ UNCHANGED <<cmd, ref>>
       \/ /\ pc' = [pc EXCEPT ![t] = "idle"]
          /\ cmd' = [cmd EXCEPT ![t] = Idle]
          /\ ref' = [ref EXCEPT ![t] = Nil]
          /\ UNCHANGED <<cmds, published>>
    /\ UNCHANGED <<subscriptions, maps, state, loop, sending, todo, chans, service, panicked>>

Finish(t) == /\ pc' = [pc EXCEPT ![t] = "idle"]
             /\ cmd' = [cmd EXCEPT ![t] = Idle]
             /\ ref' = [ref EXCEPT ![t] = Nil]

SubscribeUpdate(t) ==
    /\ pc[t] = "update" /\ cmd[t].op = "sub"
    /\ LET c == cmd[t].client
           q == cmd[t].query
           v == cmd[t].value
       IN  IF subscriptions[c] = Nil
           THEN \E m \in FreshMaps : /\ maps' = [maps EXCEPT ![m] = [k \in Queries |-> IF k = q THEN v ELSE Nil]]
                                     /\ subscriptions' = [subscriptions EXCEPT ![c] = m]
           ELSE /\ maps' = [maps EXCEPT ![subscriptions[c]][q] = v]
                /\ UNCHANGED subscriptions
    /\ Finish(t)
    /\ UNCHANGED <<cmds, state, loop, sending, todo, chans, service, published, panicked>>

\* Mutant: forgets to delete.
UnsubscribeUpdate_Keeps(t) ==
    /\ pc[t] = "update" /\ cmd[t].op = "unsub" /\ cmd[t].query # Nil
    /\ Finish(t)
    /\ UNCHANGED <<cmds, subscriptions, maps, state, loop, sending, todo, chans, service, published, panicked>>

\* Deletes from the map it found before it sent, wherever that map is now.
UnsubscribeUpdate(t) ==
    /\ pc[t] = "update" /\ cmd[t].op = "unsub" /\ cmd[t].query # Nil
    /\ maps' = [maps EXCEPT ![ref[t]][cmd[t].query] = Nil]
    /\ Finish(t)
    /\ UNCHANGED <<cmds, subscriptions, state, loop, sending, todo, chans, service, published, panicked>>

UnsubscribeAllUpdate(t) ==
    /\ pc[t] = "update" /\ cmd[t].op = "unsub" /\ cmd[t].query = Nil
    /\ subscriptions' = [subscriptions EXCEPT ![cmd[t].client] = Nil]
    /\ Finish(t)
    /\ UNCHANGED <<cmds, maps, state, loop, sending, todo, chans, service, published, panicked>>

-----------------------------------------------------------------------------
(* The loop goroutine *)

\* remove and removeAll close the channels of the entries S and forget them.
removeEntries(S) ==
    LET hs == {e.ch : e \in S}
    IN  /\ state' = state \ S
        /\ closed' = closed \cup hs
        /\ panicked' = (panicked \/ hs \cap closed # {})

\* The entries an unsub command or the shutdown is about.
Affected(k) == {e \in state : /\ k.op = "unsub" => e.client = k.client
                              /\ k.query # Nil => e.value = k.value}

\* Mutant: keeps the subscription whose channel it has closed.
loopUnsub_KeepsState ==
    /\ loop = "run" /\ sending = Nil /\ cmds # <<>> /\ Head(cmds).op \in {"unsub", "shutdown"}
    /\ cmds' = Tail(cmds)
    /\ closed' = closed \cup {e.ch : e \in Affected(Head(cmds))}
    /\ loop' = IF Head(cmds).op = "shutdown" THEN "stopped" ELSE loop
    /\ UNCHANGED <<subscriptions, maps, state, sending, todo, pc, cmd, ref, used, content, read, service,
                   published, panicked>>

\* Mutant: break leaves the switch and not the loop.
loopUnsub_PlainBreak ==
    /\ loop = "run" /\ sending = Nil /\ cmds # <<>> /\ Head(cmds).op \in {"unsub", "shutdown"}
    /\ cmds' = Tail(cmds)
    /\ removeEntries(Affected(Head(cmds)))
    /\ UNCHANGED <<subscriptions, maps, loop, sending, todo, pc, cmd, ref, used, content, read, service, published>>

loopUnsub ==
    /\ loop = "run" /\ sending = Nil /\ cmds # <<>> /\ Head(cmds).op \in {"unsub", "shutdown"}
    /\ cmds' = Tail(cmds)
    /\ removeEntries(Affected(Head(cmds)))
    /\ loop' = IF Head(cmds).op = "shutdown" THEN "stopped" ELSE loop
    /\ UNCHANGED <<subscriptions, maps, sending, todo, pc, cmd, ref, used, content, read, service, published>>

\* add overwrites the channel of the same client and Query value.
add(k) ==
    {e \in state : e.client # k.client \/ e.value # k.value}
        \cup {[client |-> k.client, query |-> k.query, value |-> k.value, ch |-> k.ch]}

loopSub ==
    /\ loop = "run" /\ sending = Nil /\ cmds # <<>> /\ Head(cmds).op = "sub"
    /\ cmds' = Tail(cmds)
    /\ state' = add(Head(cmds))
    /\ UNCHANGED <<subscriptions, maps, loop, sending, todo, pc, cmd, ref, chans, service, published, panicked>>

loopPub ==
    /\ loop = "run" /\ sending = Nil /\ cmds # <<>> /\ Head(cmds).op = "pub"
    /\ cmds' = Tail(cmds)
    /\ sending' = Head(cmds).ch
    /\ todo' = {e.ch : e \in state}
    /\ UNCHANGED <<subscriptions, maps, state, loop, pc, cmd, ref, chans, service, published, panicked>>

\* Mutant: a subscriber that is behind misses the message.
loopSend_DropsWhenFull ==
    /\ sending # Nil
    /\ content' = [h \in Chans |-> IF h \in todo /\ Len(content[h]) < ChanCap
                                  THEN Append(content[h], sending) ELSE content[h]]
    /\ sending' = Nil /\ todo' = {}
    /\ UNCHANGED <<cmds, subscriptions, maps, state, loop, pc, cmd, ref, used, closed, read, service,
                   published, panicked>>

\* One send of state.send, in the order of a map iteration; a full channel blocks.
loopSend ==
    /\ sending # Nil
    /\ IF todo = {}
       THEN /\ sending' = Nil
            /\ UNCHANGED <<todo, content, panicked>>
       ELSE \E h \in todo :
            /\ h \in closed \/ Len(content[h]) < ChanCap
            /\ todo' = todo \ {h}
            /\ content' = IF h \in closed THEN content ELSE [content EXCEPT ![h] = Append(@, sending)]
            /\ panicked' = (panicked \/ h \in closed)
            /\ sending' = sending
    /\ UNCHANGED <<cmds, subscriptions, maps, state, loop, pc, cmd, ref, used, closed, read, service, published>>

-----------------------------------------------------------------------------
(* Stop, Reset and Start, and the subscribers *)

Stop ==
    /\ ~stopped /\ stop = "none"
    /\ stopped' = TRUE
    /\ stop' = "onstop"
    /\ UNCHANGED <<cmds, subscriptions, maps, state, loop, sending, todo, pc, cmd, ref, chans, restarts,
                   published, panicked>>

OnStop ==
    /\ stop = "onstop" /\ Len(cmds) < CmdsCap
    /\ cmds' = Append(cmds, Cmd("shutdown", Nil, Nil, Nil, Nil))
    /\ stop' = "none"
    /\ UNCHANGED <<subscriptions, maps, state, loop, sending, todo, pc, cmd, ref, chans, stopped, restarts,
                   published, panicked>>

\* Reset and Start once the loop has ended: OnStart makes a new, empty state.
Restart ==
    /\ stopped /\ stop = "none" /\ loop = "stopped" /\ restarts < MaxRestarts
    /\ restarts' = restarts + 1
    /\ stopped' = FALSE
    /\ loop' = "run"
    /\ state' = {}
    /\ UNCHANGED <<cmds, subscriptions, maps, sending, todo, pc, cmd, ref, chans, stop, published, panicked>>

Read(h) ==
    /\ content[h] # <<>>
    /\ read' = [read EXCEPT ![h] = Append(@, Head(content[h]))]
    /\ content' = [content EXCEPT ![h] = Tail(@)]
    /\ UNCHANGED <<cmds, subscriptions, maps, state, loop, sending, todo, pc, cmd, ref, used, closed,
                   service, published, panicked>>

-----------------------------------------------------------------------------
Update(t) == SubscribeUpdate(t) \/ UnsubscribeUpdate(t) \/ UnsubscribeAllUpdate(t)
Loop == loopUnsub \/ loopSub \/ loopPub \/ loopSend

Next ==
    \/ \E t \in Threads : Subscribe(t) \/ Unsubscribe(t) \/ UnsubscribeAll(t) \/ PublishWithTags(t)
                          \/ Send(t) \/ Update(t)
    \/ Loop \/ Stop \/ OnStop \/ Restart
    \/ \E h \in Readers : Read(h)

Spec == NewServer /\ [][Next]_vars

\* The loop, the methods and the subscribers that read keep running.
FairSpec ==
    /\ Spec /\ WF_vars(Loop) /\ SF_vars(OnStop)
    /\ \A t \in Threads : WF_vars(Update(t)) /\ WF_vars(Send(t))
    /\ \A h \in Readers : WF_vars(Read(h))

-----------------------------------------------------------------------------
(* Properties *)

\* Type invariant.
TypeOK ==
    /\ Len(cmds) <= CmdsCap /\ subscriptions \in [Clients -> Maps \cup {Nil}]
    /\ maps \in [Maps -> [Queries -> Values \cup {Nil}]]
    /\ state \subseteq [client : Clients, query : Queries, value : Values, ch : used \ closed]
    /\ loop \in {"run", "stopped"} /\ sending \in Msgs \cup {Nil} /\ todo \subseteq used
    /\ pc \in [Threads -> {"idle", "send", "update"}] /\ ref \in [Threads -> Maps \cup {Nil}]
    /\ used \subseteq Chans /\ closed \subseteq used
    /\ content \in [Chans -> Seq(Msgs)] /\ read \in [Chans -> Seq(Msgs)]
    /\ stop \in {"none", "onstop"} /\ {stopped, panicked} \subseteq BOOLEAN

\* The loop never sends on, or closes, a channel it has closed, whatever the
\* threads do, as long as each Subscribe has a channel of its own.
NoPanic == ~panicked

\* The loop's state has open channels only, and the loop never panics.
OpenChannels == TypeOK /\ NoPanic

\* A subscriber gets a contiguous run of what was published, in that order.
InOrder ==
    \A h \in Chans : LET got == read[h] \o content[h] IN
        \E i \in 0..(Len(published) - Len(got)) : got = SubSeq(published, i + 1, i + Len(got))

\* When no call is under way and cmds is empty, the API's view and the loop's
\* are the same, for calls that do not overlap, until the server is stopped.
Quiet == cmds = <<>> /\ sending = Nil /\ loop = "run" /\ ~stopped /\ \A t \in Threads : pc[t] = "idle"
InLoop(c, q) == \E e \in state : e.client = c /\ e.query = q
ViewsAgree ==
    Quiet /\ restarts = 0 => \A c \in Clients, q \in Queries : Subscribed(c, q) <=> InLoop(c, q)

\* Stop comes to an end when the subscribers read.
StopEnds == stopped ~> loop = "stopped"

\* Subscribe returns an error for a pair that has a subscription: the loop
\* never finds the pair of a sub command there.
NoSecondSubscription ==
    [][loopSub => ~InLoop(Head(cmds).client, Head(cmds).query)]_vars

\* UnsubscribeAll returns an error for a client without a subscription.
AllNeedsSubscription ==
    [][\A t \in Threads : pc[t] = "idle" /\ pc'[t] = "send" /\ cmd'[t].op = "unsub" /\ cmd'[t].query = Nil =>
        \E q \in Queries : Subscribed(cmd'[t].client, q)]_vars

\* A service can be stopped and started again: what the API of a restarted
\* server takes for subscribed, its loop delivers to.
ViewsAgreeAfterRestart ==
    Quiet => \A c \in Clients, q \in Queries : Subscribed(c, q) => InLoop(c, q)
=============================================================================

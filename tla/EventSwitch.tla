---------------------------- MODULE EventSwitch ----------------------------
(***************************************************************************)
(* tmlibs/events/events.go: the event switch, its cells and its listeners. *)
(* Cells and listeners are objects: a goroutine may hold one that its map  *)
(* has dropped.  A call is a sequence of the sections it runs under one    *)
(* mutex.  FireEvent holds the read lock of a cell over all callbacks.     *)
(***************************************************************************)
EXTENDS Naturals, Sequences, FiniteSets

CONSTANTS Threads, Events, Listeners,
          Objects,   \* bound: identities of cells, and of listener objects
          MaxCalls   \* bound: calls made

VARIABLES eventCells, \* event -> cell, or Nil
          listeners,  \* listener id -> listener object, or Nil
          cell,       \* cell -> the listener ids that have a callback in it
          lis,        \* listener object -> [events, removed]
          used,       \* identities given out: cells, listener objects
          call,       \* thread -> the call under way
          calls,      \* calls made
          want,       \* history: <<l, e>> added and not removed since
          orphan,     \* history: pairs added to, or left in, a cell the map dropped
          stale       \* history: pairs added after RemoveListener took its list

vars == <<eventCells, listeners, cell, lis, used, call, calls, want, orphan, stale>>
hist == <<want, orphan, stale>>
Nil == "nil"
Idle == [op |-> "idle"]

NewEventSwitch ==
  /\ eventCells = [e \in Events |-> Nil] /\ listeners = [l \in Listeners |-> Nil]
  /\ cell = [o \in Objects |-> {}]
  /\ lis = [o \in Objects |-> [events |-> {}, removed |-> FALSE]]
  /\ used = [cells |-> {}, lis |-> {}] /\ calls = 0
  /\ call = [t \in Threads |-> Idle]
  /\ want = {} /\ orphan = {} /\ stale = {}

Begin(t, c) ==
  /\ call[t] = Idle /\ calls < MaxCalls /\ calls' = calls + 1
  /\ call' = [call EXCEPT ![t] = c]
Goto(t, at) == call' = [call EXCEPT ![t].at = at]
Return(t) == call' = [call EXCEPT ![t] = Idle]
\* Somebody fires the cell and holds its read lock.
ReadLocked(c) == \E u \in Threads : call[u].op = "fire" /\ call[u].cell = c
Fresh(S) == CHOOSE o \in Objects : o \notin S

-----------------------------------------------------------------------------
\* AddListenerForEvent, first section: cell and listener are found or made.
AddListenerForEvent(t, l, e) ==
  LET c == IF eventCells[e] = Nil THEN Fresh(used.cells) ELSE eventCells[e]
      o == IF listeners[l] = Nil THEN Fresh(used.lis) ELSE listeners[l] IN
  /\ Begin(t, [op |-> "add", at |-> "cell", l |-> l, e |-> e, cell |-> c, lis |-> o])
  /\ eventCells' = [eventCells EXCEPT ![e] = c]
  /\ listeners' = [listeners EXCEPT ![l] = o]
  /\ used' = [cells |-> used.cells \cup {c}, lis |-> used.lis \cup {o}]
  /\ UNCHANGED <<cell, lis, hist>>

CellAddListener(t) ==
  LET k == call[t] IN
  /\ k.op = "add" /\ k.at = "cell" /\ ~ReadLocked(k.cell)
  /\ cell' = [cell EXCEPT ![k.cell] = @ \cup {k.l}]
  /\ Goto(t, "lis")
  /\ want' = want \cup {<<k.l, k.e>>}
  /\ orphan' = IF eventCells[k.e] = k.cell THEN orphan \ {<<k.l, k.e>>}
                                           ELSE orphan \cup {<<k.l, k.e>>}
  /\ UNCHANGED <<eventCells, listeners, lis, used, calls, stale>>

\* An event is not noted in a listener that was removed meanwhile.
ListenerAddEvent(t) ==
  LET k == call[t] IN
  /\ k.op = "add" /\ k.at = "lis"
  /\ lis' = IF lis[k.lis].removed THEN lis
            ELSE [lis EXCEPT ![k.lis].events = @ \cup {k.e}]
  /\ stale' = IF lis[k.lis].removed \/ listeners[k.l] # k.lis
              THEN stale \cup {<<k.l, k.e>>} ELSE stale
  /\ Return(t)
  /\ UNCHANGED <<eventCells, listeners, cell, used, calls, want, orphan>>

-----------------------------------------------------------------------------
\* RemoveListener: drop the listener, mark it removed and take its events,
\* then RemoveListenerForEvent for each of them.
RemoveListener(t, l) ==
  /\ listeners[l] # Nil
  /\ Begin(t, [op |-> "remove", at |-> "drop", l |-> l, lis |-> listeners[l],
               events |-> {}, e |-> Nil, cell |-> Nil])
  /\ UNCHANGED <<eventCells, listeners, cell, lis, used, hist>>

DropListener(t) ==
  /\ call[t].op = "remove" /\ call[t].at = "drop"
  /\ listeners' = [listeners EXCEPT ![call[t].l] = Nil]
  /\ Goto(t, "mark")
  /\ UNCHANGED <<eventCells, cell, lis, used, calls, hist>>

SetRemoved(t) ==
  /\ call[t].op = "remove" /\ call[t].at = "mark"
  /\ lis' = [lis EXCEPT ![call[t].lis].removed = TRUE]
  /\ call' = [call EXCEPT ![t].events = lis[call[t].lis].events, ![t].at = "next"]
  /\ UNCHANGED <<eventCells, listeners, cell, used, calls, hist>>

NextEvent(t) ==
  /\ call[t].op = "remove" /\ call[t].at = "next"
  /\ IF call[t].events = {} THEN Return(t)
     ELSE \E e \in call[t].events :
            call' = [call EXCEPT ![t].e = e, ![t].at = "lookup",
                                 ![t].events = @ \ {e}]
  /\ UNCHANGED <<eventCells, listeners, cell, lis, used, calls, hist>>

RemoveListenerForEvent(t, l, e) ==
  /\ Begin(t, [op |-> "remove", at |-> "lookup", l |-> l, lis |-> Nil,
               events |-> {}, e |-> e, cell |-> Nil])
  /\ UNCHANGED <<eventCells, listeners, cell, lis, used, hist>>

LookupCell(t) ==
  LET c == eventCells[call[t].e] IN
  /\ call[t].op = "remove" /\ call[t].at = "lookup"
  /\ call' = [call EXCEPT ![t].cell = c, ![t].at = IF c = Nil THEN "next" ELSE "cell"]
  /\ UNCHANGED <<eventCells, listeners, cell, lis, used, calls, hist>>

\* Mutant: the callback is removed while callbacks of the cell may run.
CellRemoveListener_NoLock(t) ==
  LET k == call[t]
      left == cell[k.cell] \ {k.l} IN
  /\ k.op = "remove" /\ k.at = "cell"
  /\ cell' = [cell EXCEPT ![k.cell] = left]
  /\ want' = want \ {<<k.l, k.e>>}
  /\ Goto(t, IF left = {} THEN "collect" ELSE "next")
  /\ UNCHANGED <<eventCells, listeners, lis, used, calls, orphan, stale>>

CellRemoveListener(t) ==
  LET k == call[t]
      left == cell[k.cell] \ {k.l} IN
  /\ k.op = "remove" /\ k.at = "cell" /\ ~ReadLocked(k.cell)
  /\ cell' = [cell EXCEPT ![k.cell] = left]
  /\ want' = want \ {<<k.l, k.e>>}
  /\ Goto(t, IF left = {} THEN "collect" ELSE "next")
  /\ UNCHANGED <<eventCells, listeners, lis, used, calls, orphan, stale>>

\* Mutant: the cell is not counted again under both locks.
CollectCell_NoDoubleCheck(t) ==
  LET k == call[t] IN
  /\ k.op = "remove" /\ k.at = "collect" /\ ~ReadLocked(k.cell)
  /\ eventCells' = [eventCells EXCEPT ![k.e] = Nil]
  /\ Goto(t, "next")
  /\ UNCHANGED <<listeners, cell, lis, used, calls, hist>>

\* The cell was empty: under both locks it is counted again and the entry of
\* the event, whichever cell that is by now, is deleted.
CollectCell(t) ==
  LET k == call[t] IN
  /\ k.op = "remove" /\ k.at = "collect" /\ ~ReadLocked(k.cell)
  /\ eventCells' = IF cell[k.cell] = {} THEN [eventCells EXCEPT ![k.e] = Nil]
                                        ELSE eventCells
  /\ orphan' = IF cell[k.cell] = {} /\ eventCells[k.e] \notin {Nil, k.cell}
               THEN orphan \cup (cell[eventCells[k.e]] \X {k.e}) ELSE orphan
  /\ Goto(t, "next")
  /\ UNCHANGED <<listeners, cell, lis, used, calls, want, stale>>

-----------------------------------------------------------------------------
FireEvent(t, e) ==
  /\ eventCells[e] # Nil
  /\ Begin(t, [op |-> "lookup", at |-> "lock", e |-> e, cell |-> eventCells[e]])
  /\ UNCHANGED <<eventCells, listeners, cell, lis, used, hist>>

CellFireEvent(t) ==
  LET k == call[t] IN
  /\ k.op = "lookup"
  /\ call' = [call EXCEPT ![t] = [op |-> "fire", e |-> k.e, cell |-> k.cell,
                                  todo |-> cell[k.cell]]]
  /\ UNCHANGED <<eventCells, listeners, cell, lis, used, calls, hist>>

Callback(t) ==
  /\ call[t].op = "fire"
  /\ IF call[t].todo = {} THEN Return(t)
     ELSE \E l \in call[t].todo : call' = [call EXCEPT ![t].todo = @ \ {l}]
  /\ UNCHANGED <<eventCells, listeners, cell, lis, used, calls, hist>>

Done == calls = MaxCalls /\ (\A t \in Threads : call[t] = Idle) /\ UNCHANGED vars

Next ==
  \/ \E t \in Threads :
       \/ \E l \in Listeners, e \in Events :
            AddListenerForEvent(t, l, e) \/ RemoveListenerForEvent(t, l, e)
       \/ \E l \in Listeners : RemoveListener(t, l)
       \/ \E e \in Events : FireEvent(t, e)
       \/ CellAddListener(t) \/ ListenerAddEvent(t) \/ DropListener(t) \/ SetRemoved(t)
       \/ NextEvent(t) \/ LookupCell(t) \/ CellRemoveListener(t) \/ CollectCell(t)
       \/ CellFireEvent(t) \/ Callback(t)
  \/ Done

Spec == NewEventSwitch /\ [][Next]_vars

-----------------------------------------------------------------------------
TypeOK ==
  /\ \A e \in Events : eventCells[e] \in used.cells \cup {Nil}
  /\ \A l \in Listeners : listeners[l] \in used.lis \cup {Nil}

Quiet == \A t \in Threads : call[t] \in [op : {"idle"}] \/ call[t].op \in {"lookup", "fire"}
Reached(l, e) == eventCells[e] # Nil /\ l \in cell[eventCells[e]]

\* Once no call changes the switch, an event reaches a listener that was
\* added for it and not removed.  The exceptions are the two the sections of
\* AddListenerForEvent leave open: the cell was dropped before the callback
\* was put into it, or the entry of the event was deleted by a call that had
\* found an older, empty cell.
ReachesWanted ==
  Quiet => \A l \in Listeners, e \in Events :
             <<l, e>> \in want => Reached(l, e) \/ <<l, e>> \in orphan

\* A callback that runs belongs to a listener that is still in the cell:
\* RemoveListener and RemoveListenerForEvent wait for the callbacks of the
\* cell, and none of a removed listener runs after they have returned.
NoCallAfterRemove ==
  \A t \in Threads : call[t].op = "fire" => call[t].todo \subseteq cell[call[t].cell]

\* Once no call changes the switch, a listener that was removed is reached
\* by no event, unless AddListenerForEvent noted the event in an object that
\* RemoveListener had already taken the events of.
RemovedForgotten ==
  Quiet => \A l \in Listeners, e \in Events :
             listeners[l] = Nil /\ Reached(l, e) => <<l, e>> \in stale

\* The event switch: RemovedForgotten, ReachesWanted and NoCallAfterRemove
\* (AddListenerForEvent, RemoveListener, FireEvent).
SwitchSafe == RemovedForgotten /\ ReachesWanted /\ NoCallAfterRemove
=============================================================================

------------------------------- MODULE CList -------------------------------
(***************************************************************************)
(* tmlibs/clist/clist.go: the linked list that goroutines walk while       *)
(* another changes it.  Elements are numbered as they are pushed.  The     *)
(* list mutex makes PushBack one step (the new element becomes reachable   *)
(* by its one SetNext); Remove takes the mutex of each neighbour in turn,  *)
(* so walkers see it in the middle.  A WaitGroup of count 1, with the      *)
(* channel closed together with it, is a generation that is done or not.   *)
(***************************************************************************)
EXTENDS Naturals

CONSTANTS N,        \* bound: elements pushed
          Walkers   \* goroutines that walk the list

VARIABLES link,    \* element -> direction -> neighbour, or Nil
          wg,      \* element -> direction -> [gen, done]
          removed, \* element -> BOOLEAN
          pushed,  \* elements pushed so far
          ends,    \* direction -> l.head ("next" walks start there), l.tail
          len, lwg, \* l.len and the list's own wait group
          op,      \* the Remove under way
          walk,    \* walker -> where it is
          panic,   \* a wait group was Done twice, or a channel closed twice
          skipped  \* history: a walker passed over an element of the list

vars == <<link, wg, removed, pushed, ends, len, lwg, op, walk, panic, skipped>>

Nil == 0
Elements == 1..N
Dirs == {"next", "prev"}
Other(d) == IF d = "next" THEN "prev" ELSE "next"
New == [gen |-> 0, done |-> FALSE]
Renew(w) == [gen |-> w.gen + 1, done |-> FALSE]
NoOp == [e |-> Nil, at |-> "none"]

Init ==
  /\ link = [e \in Elements |-> [d \in Dirs |-> Nil]]
  /\ wg = [e \in Elements |-> [d \in Dirs |-> New]]
  /\ removed = [e \in Elements |-> FALSE]
  /\ pushed = 0 /\ len = 0 /\ lwg = New /\ op = NoOp
  /\ ends = [d \in Dirs |-> Nil]
  /\ walk \in [Walkers -> {[dir |-> d, at |-> Nil, wait |-> FALSE, gen |-> 0] : d \in Dirs}]
  /\ panic = FALSE /\ skipped = FALSE

\* Mutant: whoever waits for a neighbour is not woken.
SetLink_NoDone(w, old, new) ==
  IF old # Nil /\ new = Nil THEN Renew(w) ELSE w

\* SetNext and SetPrev: the wait group after the neighbour changes.
SetLink(w, old, new) ==
  IF old # Nil /\ new = Nil THEN Renew(w)
  ELSE IF old = Nil /\ new # Nil THEN [w EXCEPT !.done = TRUE] ELSE w
DoneTwice(w, old, new) == old = Nil /\ new # Nil /\ w.done

-----------------------------------------------------------------------------
PushBack ==
  LET e == pushed + 1
      t == ends["prev"] IN
  /\ op = NoOp /\ pushed < N /\ pushed' = e
  /\ len' = len + 1
  /\ lwg' = IF len = 0 THEN [lwg EXCEPT !.done = TRUE] ELSE lwg
  /\ ends' = [next |-> IF t = Nil THEN e ELSE ends["next"], prev |-> e]
  /\ link' = IF t = Nil THEN link ELSE [link EXCEPT ![e].prev = t, ![t].next = e]
  /\ wg' = IF t = Nil THEN wg
           ELSE [wg EXCEPT ![e].prev = SetLink(@, Nil, t),
                           ![t].next = SetLink(@, link[t].next, e)]
  /\ panic' = (panic \/ (len = 0 /\ lwg.done)
                     \/ (t # Nil /\ DoneTwice(wg[t].next, link[t].next, e)))
  /\ UNCHANGED <<removed, op, walk, skipped>>

\* Remove(e) up to and including prev.SetNext(next).
Remove(e) ==
  LET prev == link[e].prev
      next == link[e].next IN
  /\ op = NoOp /\ e <= pushed /\ ~removed[e]
  /\ op' = [e |-> e, at |-> "setprev"]
  /\ panic' = (panic \/ (prev = Nil /\ ends["next"] # e) \/ (next = Nil /\ ends["prev"] # e))
  /\ lwg' = IF len = 1 THEN Renew(lwg) ELSE lwg
  /\ len' = len - 1
  /\ IF prev = Nil
       THEN ends' = [ends EXCEPT !["next"] = next] /\ UNCHANGED <<link, wg>>
       ELSE /\ link' = [link EXCEPT ![prev].next = next]
            /\ wg' = [wg EXCEPT ![prev].next = SetLink(@, link[prev].next, next)]
            /\ UNCHANGED ends
  /\ UNCHANGED <<removed, pushed, walk, skipped>>

RemoveSetPrev ==
  LET prev == link[op.e].prev
      next == link[op.e].next IN
  /\ op.at = "setprev" /\ op' = [op EXCEPT !.at = "removed"]
  /\ IF next = Nil
       THEN ends' = [ends EXCEPT !["prev"] = prev] /\ UNCHANGED <<link, wg>>
       ELSE /\ link' = [link EXCEPT ![next].prev = prev]
            /\ wg' = [wg EXCEPT ![next].prev = SetLink(@, link[next].prev, prev)]
            /\ UNCHANGED ends
  /\ UNCHANGED <<removed, pushed, len, lwg, walk, panic, skipped>>

\* Mutant: waiters at a removed tail or head are left waiting.
SetRemoved_NoDone ==
  /\ op.at = "removed" /\ op' = NoOp
  /\ removed' = [removed EXCEPT ![op.e] = TRUE]
  /\ UNCHANGED <<link, wg, pushed, ends, len, lwg, walk, panic, skipped>>

SetRemoved ==
  LET e == op.e IN
  /\ op.at = "removed" /\ op' = NoOp
  /\ removed' = [removed EXCEPT ![e] = TRUE]
  /\ wg' = [wg EXCEPT ![e] = [d \in Dirs |-> [gen |-> @[d].gen,
                                 done |-> @[d].done \/ link[e][d] = Nil]]]
  /\ panic' = (panic \/ \E d \in Dirs : link[e][d] = Nil /\ wg[e][d].done)
  /\ UNCHANGED <<link, pushed, ends, len, lwg, walk, skipped>>

\* DetachNext and DetachPrev, which panic unless e is removed.
Detach(e, d) ==
  /\ removed[e] /\ link[e][d] # Nil
  /\ link' = [link EXCEPT ![e][d] = Nil]
  /\ UNCHANGED <<wg, removed, pushed, ends, len, lwg, op, walk, panic, skipped>>

-----------------------------------------------------------------------------
\* The elements that a step from a to b in either direction leaves out.
Between(a, b) == {k \in Elements : (a < k /\ k < b) \/ (b < k /\ k < a)}
InList(k) == k <= pushed /\ ~removed[k] /\ op.e # k

\* FrontWait and BackWait: the end of the list, or its wait group.
WalkEnd(w) ==
  LET e == ends[walk[w].dir] IN
  /\ walk[w].at = Nil /\ ~walk[w].wait /\ op = NoOp
  /\ walk' = IF e # Nil THEN [walk EXCEPT ![w].at = e]
             ELSE [walk EXCEPT ![w].wait = TRUE, ![w].gen = lwg.gen]
  /\ UNCHANGED <<link, wg, removed, pushed, ends, len, lwg, op, panic, skipped>>

\* NextWait and PrevWait: the neighbour, nothing after a removed end, or wait.
WalkOn(w) ==
  LET e == walk[w].at
      d == walk[w].dir
      n == link[e][d] IN
  /\ e # Nil /\ ~walk[w].wait
  /\ walk' = IF n # Nil \/ removed[e] THEN [walk EXCEPT ![w].at = n]
             ELSE [walk EXCEPT ![w].wait = TRUE, ![w].gen = wg[e][d].gen]
  /\ skipped' = (skipped \/ (n # Nil /\ \E k \in Between(e, n) : InList(k)))
  /\ UNCHANGED <<link, wg, removed, pushed, ends, len, lwg, op, panic>>

\* The wait group, or the channel, that walker w took is done.
Released(w) ==
  LET g == IF walk[w].at = Nil THEN lwg ELSE wg[walk[w].at][walk[w].dir] IN
  walk[w].gen < g.gen \/ g.done

Wake(w) ==
  /\ walk[w].wait /\ Released(w)
  /\ walk' = [walk EXCEPT ![w].wait = FALSE]
  /\ UNCHANGED <<link, wg, removed, pushed, ends, len, lwg, op, panic, skipped>>

Done ==
  /\ pushed = N /\ op = NoOp /\ \A e \in Elements : removed[e]
  /\ UNCHANGED vars

Next ==
  \/ PushBack \/ RemoveSetPrev \/ SetRemoved \/ Done
  \/ \E e \in Elements : Remove(e) \/ \E d \in Dirs : Detach(e, d)
  \/ \E w \in Walkers : WalkEnd(w) \/ WalkOn(w) \/ Wake(w)

Spec == Init /\ [][Next]_vars

-----------------------------------------------------------------------------
TypeOK ==
  /\ link \in [Elements -> [Dirs -> 0..N]] /\ removed \in [Elements -> BOOLEAN]
  /\ pushed \in 0..N /\ len \in 0..N /\ ends \in [Dirs -> 0..N]

\* Between two changes of the list nobody waits for something that is there:
\* a walker that waits at an element waits for the neighbour that is still
\* missing, and never at an element that was removed.
NobodyLeftWaiting ==
  op = NoOp => \A w \in Walkers : walk[w].wait /\ ~Released(w) =>
    IF walk[w].at = Nil THEN ends[walk[w].dir] = Nil
    ELSE link[walk[w].at][walk[w].dir] = Nil /\ ~removed[walk[w].at]

\* Followed from its head, the list is the elements that were pushed and not
\* removed, in their order, and both directions agree on it.
Linked ==
  LET live == {k \in 1..pushed : ~removed[k]}
      nextOf(k) == {j \in live : j > k /\ \A i \in live : i > k => j <= i} IN
  op = NoOp =>
    /\ \A k \in live : link[k].next \in (IF nextOf(k) = {} THEN {Nil} ELSE nextOf(k))
    /\ \A k \in live : link[k].next # Nil => link[link[k].next].prev = k
    /\ {k \in live : link[k].prev = Nil} = {ends["next"]} \ {Nil}
    /\ {k \in live : link[k].next = Nil} = {ends["prev"]} \ {Nil}

\* No wait group is Done twice and Remove meets no false head or tail; no
\* walker, also one that stands on an element while it is removed, passes
\* over an element that is in the list.
CListSafe == ~panic /\ ~skipped /\ NobodyLeftWaiting /\ Linked
=============================================================================

------------------------------ MODULE MemCache ------------------------------
(***************************************************************************)
(* The three-level memory cache of mc/memcache.go.                         *)
(*                                                                         *)
(*   llCache   level 1: key -> committed value                             *)
(*   mcCache   level 2: the MemCache objects reachable from                *)
(*             mi.mcCache[transID][key]; transMaps is the set of transIDs  *)
(*             that have an inner map                                      *)
(*   heap      every MemCache ever allocated, with its level 3 stack tx;   *)
(*             a caller may hold one that mcCache no longer reaches        *)
(*                                                                         *)
(* Threads call the exported methods concurrently.  call[th] is the        *)
(* method th is inside of, with its arguments; the two RWMutexes are read  *)
(* off it.  A value is abstracted to who wrote it: the MemCache it was Set *)
(* through, and a member of Data.                                          *)
(***************************************************************************)
EXTENDS Naturals, Sequences, TLC

CONSTANTS Threads, TransIDs, Keys, TxIDs, Data, Nil, Absent,
          Mcs,      \* bound: the addresses newmc can return
          MaxTx     \* bound: the longest level 3 stack

ASSUME TxIDAssumption == TxIDs \subseteq Nat

\* Threads and addresses are interchangeable in the safety properties.
Symmetry == Permutations(Threads) \cup Permutations(Mcs)

VARIABLES llCache, transMaps, mcCache, heap, held, call,
          committed,   \* history: MemCaches a CommitTrans has taken up
          dropped,     \* history: MemCaches removed by Dirty or DirtyTrans
          cleared      \* history: has Clear replaced the maps?

vars == <<llCache, transMaps, mcCache, heap, held, call, committed, dropped, cleared>>
history == <<committed, dropped, cleared>>

Values == [mc : Mcs, data : Data]
TxCache == [id : Nat, value : Values \cup {Nil}]
Records == [transID : TransIDs, key : Keys, tx : Seq(TxCache)]
ASSUME NilAssumption == Nil \notin Mcs /\ Nil \notin Values /\ Nil \notin Records
ASSUME AbsentAssumption == Absent \notin Values

Ops == {"idle", "new_entry", "new_return", "dirty_ll", "clear_mc",
        "commit", "dirty_tx", "panicked"}

Call(op, t, k, x, rest) == [op |-> op, transID |-> t, key |-> k, txID |-> x, rest |-> rest]
Idle == Call("idle", Nil, Nil, 0, {})
At(th, op) == call[th].op = op

Allocated == {m \in Mcs : heap[m] # Nil}
Of(t) == {m \in mcCache : heap[m].transID = t}
Entries(t, k) == {m \in Of(t) : heap[m].key = k}

\* NewMc and CommitTrans keep mcmt write-locked, DirtyTransTx read-locked;
\* CommitTrans keeps llmt write-locked.
mcmtWriter == \E th \in Threads : call[th].op \in {"new_entry", "new_return", "commit"}
mcmtReader == \E th \in Threads : At(th, "dirty_tx")
\* Mutant: a method may enter while a writer is inside.
mcmtFree_IgnoresWriters == ~mcmtReader
mcmtFree == ~mcmtWriter /\ ~mcmtReader
llmtFree == \A th \in Threads : ~At(th, "commit")

-----------------------------------------------------------------------------
(* The level 3 stack *)

lastTx(tx) == Len(tx)
\* Mutant: returns the entry and not its value.
top_WholeEntry(tx) == IF lastTx(tx) > 0 THEN tx[lastTx(tx)] ELSE Nil
top(tx) == IF lastTx(tx) > 0 THEN tx[lastTx(tx)].value ELSE Nil

\* A second write of the transaction on top covers the first.
push(tx, x, v) ==
    IF lastTx(tx) > 0 /\ tx[lastTx(tx)].id = x
    THEN [tx EXCEPT ![lastTx(tx)] = [id |-> x, value |-> v]]
    ELSE Append(tx, [id |-> x, value |-> v])

\* MemCache.Dirty looks at the top entry only.
dirty(tx, x) ==
    IF lastTx(tx) > 0 /\ tx[lastTx(tx)].id = x THEN SubSeq(tx, 1, Len(tx) - 1) ELSE tx

-----------------------------------------------------------------------------
NewMcInstance ==
    /\ llCache = [k \in Keys |-> Absent]
    /\ transMaps = {} /\ mcCache = {}
    /\ heap = [m \in Mcs |-> Nil]
    /\ held = [th \in Threads |-> Nil]
    /\ call = [th \in Threads |-> Idle]
    /\ committed = {} /\ dropped = {} /\ cleared = FALSE

newmc(t, k) == [transID |-> t, key |-> k,
                tx |-> IF llCache[k] = Absent THEN <<>>
                       ELSE <<[id |-> 0, value |-> llCache[k]]>>]

\* Lines 41-45: lock mcmt, make the inner map.
NewMc(th, t, k) ==
    /\ At(th, "idle") /\ mcmtFree
    /\ Mcs # Allocated
    /\ transMaps' = transMaps \cup {t}
    /\ call' = [call EXCEPT ![th] = Call("new_entry", t, k, 0, {})]
    /\ UNCHANGED <<llCache, mcCache, heap, held, history>>

\* Lines 47-49.  Clear takes no lock, so the inner map may be gone: then the
\* assignment is to an entry in a nil map, and the deferred Unlock runs.
NewMcEntry(th) ==
    LET t == call[th].transID
        k == call[th].key
    IN  /\ At(th, "new_entry")
        /\ \/ /\ t \notin transMaps
              /\ call' = [call EXCEPT ![th] = Call("panicked", Nil, Nil, 0, {})]
              /\ UNCHANGED <<mcCache, heap>>
           \/ /\ t \in transMaps /\ Entries(t, k) # {}
              /\ call' = [call EXCEPT ![th].op = "new_return"]
              /\ UNCHANGED <<mcCache, heap>>
           \/ /\ t \in transMaps /\ Entries(t, k) = {} /\ llmtFree
              /\ \E m \in Mcs \ Allocated :
                    /\ heap' = [heap EXCEPT ![m] = newmc(t, k)]
                    /\ mcCache' = mcCache \cup {m}
              /\ call' = [call EXCEPT ![th].op = "new_return"]
        /\ UNCHANGED <<llCache, transMaps, held, history>>

\* Line 51: a second look-up, nil if Clear came in between.
NewMcReturn(th) ==
    LET found == Entries(call[th].transID, call[th].key)
    IN  /\ At(th, "new_return")
        /\ held' = [held EXCEPT ![th] = IF found = {} THEN Nil ELSE CHOOSE m \in found : TRUE]
        /\ call' = [call EXCEPT ![th] = Idle]
        /\ UNCHANGED <<llCache, transMaps, mcCache, heap, history>>

\* Instance.Dirty is two critical sections, one per lock.
Dirty(th, k) ==
    LET gone == {m \in mcCache : heap[m].key = k}
    IN  /\ At(th, "idle") /\ mcmtFree
        /\ mcCache' = mcCache \ gone
        /\ dropped' = dropped \cup gone
        /\ call' = [call EXCEPT ![th] = Call("dirty_ll", Nil, k, 0, {})]
        /\ UNCHANGED <<llCache, transMaps, heap, held, committed, cleared>>

DirtyLl(th) ==
    /\ At(th, "dirty_ll") /\ llmtFree
    /\ llCache' = [llCache EXCEPT ![call[th].key] = Absent]
    /\ call' = [call EXCEPT ![th] = Idle]
    /\ UNCHANGED <<transMaps, mcCache, heap, held, history>>

\* Clear is two plain assignments under no lock.
Clear(th) ==
    /\ At(th, "idle")
    /\ llCache' = [k \in Keys |-> Absent]
    /\ cleared' = TRUE
    /\ call' = [call EXCEPT ![th] = Call("clear_mc", Nil, Nil, 0, {})]
    /\ UNCHANGED <<transMaps, mcCache, heap, held, committed, dropped>>

ClearMc(th) ==
    /\ At(th, "clear_mc")
    /\ transMaps' = {} /\ mcCache' = {}
    /\ call' = [call EXCEPT ![th] = Idle]
    /\ UNCHANGED <<llCache, heap, held, history>>

\* Lines 82-84: mcs is read once; the loop then walks it in any order.
CommitTrans(th, t) ==
    /\ At(th, "idle") /\ mcmtFree /\ t \in transMaps
    /\ call' = [call EXCEPT ![th] = Call("commit", t, Nil, 0, Of(t))]
    /\ committed' = committed \cup Of(t)
    /\ UNCHANGED <<llCache, transMaps, mcCache, heap, held, dropped, cleared>>

\* Mutant: the loop does not advance.
CommitKey_Revisits(th) ==
    \E m \in call[th].rest :
        /\ At(th, "commit")
        /\ llCache' = [llCache EXCEPT ![heap[m].key] = top(heap[m].tx)]
        /\ UNCHANGED <<call, transMaps, mcCache, heap, held, history>>

CommitKey(th) ==
    \E m \in call[th].rest :
        /\ At(th, "commit")
        /\ llCache' = [llCache EXCEPT ![heap[m].key] = top(heap[m].tx)]
        /\ call' = [call EXCEPT ![th].rest = @ \ {m}]
        /\ UNCHANGED <<transMaps, mcCache, heap, held, history>>

CommitEnd(th) ==
    LET t == call[th].transID
    IN  /\ At(th, "commit") /\ call[th].rest = {}
        /\ transMaps' = transMaps \ {t}
        /\ mcCache' = mcCache \ Of(t)
        /\ call' = [call EXCEPT ![th] = Idle]
        /\ UNCHANGED <<llCache, heap, held, history>>

\* Mutant: does not wait for the lock.
DirtyTrans_NoLock(th, t) ==
    /\ At(th, "idle")
    /\ transMaps' = transMaps \ {t}
    /\ mcCache' = mcCache \ Of(t)
    /\ dropped' = dropped \cup Of(t)
    /\ UNCHANGED <<llCache, heap, held, call, committed, cleared>>

DirtyTrans(th, t) ==
    /\ At(th, "idle") /\ mcmtFree
    /\ transMaps' = transMaps \ {t}
    /\ mcCache' = mcCache \ Of(t)
    /\ dropped' = dropped \cup Of(t)
    /\ UNCHANGED <<llCache, heap, held, call, committed, cleared>>

DirtyTransTx(th, t, x) ==
    /\ At(th, "idle") /\ ~mcmtWriter
    /\ call' = [call EXCEPT ![th] = Call("dirty_tx", t, Nil, x, Of(t))]
    /\ UNCHANGED <<llCache, transMaps, mcCache, heap, held, history>>

DirtyTransTxStep(th) ==
    /\ At(th, "dirty_tx")
    /\ \/ \E m \in call[th].rest :
             /\ heap' = [heap EXCEPT ![m].tx = dirty(@, call[th].txID)]
             /\ call' = [call EXCEPT ![th].rest = @ \ {m}]
       \/ /\ call[th].rest = {}
          /\ call' = [call EXCEPT ![th] = Idle]
          /\ heap' = heap
    /\ UNCHANGED <<llCache, transMaps, mcCache, held, history>>

\* Mutant: writes to level 1 as well.
Set_WriteThrough(th, x, d) ==
    LET m == held[th]
        v == [mc |-> m, data |-> d]
    IN  /\ At(th, "idle") /\ m # Nil
        /\ Len(push(heap[m].tx, x, v)) <= MaxTx
        /\ heap' = [heap EXCEPT ![m].tx = push(@, x, v)]
        /\ llCache' = [llCache EXCEPT ![heap[m].key] = v]
        /\ UNCHANGED <<transMaps, mcCache, held, call, history>>

\* MemCache.Set and MemCache.Dirty act on the handle, under its own lock.
Set(th, x, d) ==
    LET m == held[th]
        tx == push(heap[m].tx, x, [mc |-> m, data |-> d])
    IN  /\ At(th, "idle") /\ m # Nil
        /\ Len(tx) <= MaxTx
        /\ heap' = [heap EXCEPT ![m].tx = tx]
        /\ UNCHANGED <<llCache, transMaps, mcCache, held, call, history>>

DirtyTx(th, x) ==
    /\ At(th, "idle") /\ held[th] # Nil
    /\ heap' = [heap EXCEPT ![held[th]].tx = dirty(@, x)]
    /\ UNCHANGED <<llCache, transMaps, mcCache, held, call, history>>

Resume(th) ==
    \/ NewMcEntry(th) \/ NewMcReturn(th) \/ DirtyLl(th) \/ ClearMc(th)
    \/ CommitKey(th) \/ CommitEnd(th) \/ DirtyTransTxStep(th)

Next ==
    \E th \in Threads :
        \/ Resume(th)
        \/ Clear(th)
        \/ \E k \in Keys : Dirty(th, k) \/ \E t \in TransIDs : NewMc(th, t, k)
        \/ \E t \in TransIDs : CommitTrans(th, t) \/ DirtyTrans(th, t)
        \/ \E x \in TxIDs :
              \/ DirtyTx(th, x)
              \/ \E t \in TransIDs : DirtyTransTx(th, t, x)
              \/ \E d \in Data : Set(th, x, d)

Spec == NewMcInstance /\ [][Next]_vars

\* A started method keeps running, and Go's RWMutex starves no waiter.
FairSpec == Spec /\ \A th \in Threads : SF_vars(Resume(th))

-----------------------------------------------------------------------------
(* Properties *)

\* Type invariant: the shape of the three levels; what level 2 reaches is
\* allocated and has an inner map.
TypeOK ==
    /\ llCache \in [Keys -> Values \cup {Nil, Absent}]
    /\ transMaps \subseteq TransIDs
    /\ heap \in [Mcs -> Records \cup {Nil}]
    /\ mcCache \subseteq Allocated
    /\ held \in [Threads -> Allocated \cup {Nil}]
    /\ call \in [Threads -> [op : Ops, transID : TransIDs \cup {Nil}, key : Keys \cup {Nil},
                             txID : Nat, rest : SUBSET Allocated]]
    /\ \A th \in Threads : /\ call[th].op \in {"new_entry", "new_return", "commit"} => call[th].transID \in TransIDs
                           /\ call[th].op \in {"new_entry", "new_return", "dirty_ll"} => call[th].key \in Keys
    /\ committed \subseteq Allocated /\ dropped \subseteq Allocated /\ cleared \in BOOLEAN

WrittenBy(tx, ms) ==
    \A i \in DOMAIN tx : tx[i].value \in Values => tx[i].value.mc \in ms

\* "Set only push the data into txCache, will be set to llCache when commit":
\* a value is seen outside the MemCache it was Set through, in level 1 or in
\* another transaction's stack, only once a CommitTrans took that MemCache up.
Isolation ==
    /\ \A k \in Keys : llCache[k] \in Values => llCache[k].mc \in committed
    /\ \A m \in Allocated : WrittenBy(heap[m].tx, committed \cup {m})

\* What Dirty or DirtyTrans threw away is never committed afterwards, however
\* they interleave with a CommitTrans that is half way through its keys.
RolledBackNeverCommitted == dropped \cap committed = {}

\* The write to a missing inner map at line 48 is reached only through the
\* unlocked Clear, never through CommitTrans or DirtyTrans deleting the map.
PanicOnlyUnderClear == \A th \in Threads : At(th, "panicked") => cleared

\* Every method that started returns: the two locks are never taken in
\* opposite orders and none is kept.
CallsReturn == \A th \in Threads : ~At(th, "idle") ~> call[th].op \in {"idle", "panicked"}

\* memcache.go:54 "Dirty dirty all cache of key", as TestActions asserts it:
\* when Dirty returns, no reachable MemCache still shows the value it removed.
DirtyLeavesNoCopy ==
    [][\A th \in Threads : DirtyLl(th) =>
          \A m \in mcCache : heap[m].key = call[th].key /\ llCache[heap[m].key] \in Values
                              => top(heap[m].tx) # llCache[heap[m].key]]_vars

\* memcache.go:125 "there might be multiple txCache which id = txID, delete
\* all of them": after MemCache.Dirty(x) no entry of x is left.
DirtyTxRemovesAll ==
    [][\A th \in Threads, x \in TxIDs : DirtyTx(th, x) =>
          \A i \in DOMAIN heap'[held[th]].tx : heap'[held[th]].tx[i].id # x]_vars
=============================================================================

--------------------------- MODULE MemCacheProofs ---------------------------
(***************************************************************************)
(* Proofs about MemCache.tla, for every set of threads, transactions,      *)
(* keys and addresses.                                                     *)
(***************************************************************************)
EXTENDS MemCache, SequenceTheorems, TLAPS

LEMMA TopType ==
    ASSUME NEW tx \in Seq(TxCache)
    PROVE  top(tx) \in Values \cup {Nil}
<1>1. CASE Len(tx) > 0
  <2>1. Len(tx) \in 1..Len(tx)
    BY <1>1
  <2>2. tx[Len(tx)] \in TxCache
    BY <2>1, ElementOfSeq
  <2> QED
    BY <1>1, <2>2 DEF top, lastTx, TxCache
<1>2. CASE ~(Len(tx) > 0)
  BY <1>2 DEF top, lastTx
<1> QED
  BY <1>1, <1>2

LEMMA PushType ==
    ASSUME NEW tx \in Seq(TxCache), NEW x \in TxIDs, NEW v \in Values
    PROVE  push(tx, x, v) \in Seq(TxCache)
<1> DEFINE e == [id |-> x, value |-> v]
<1>1. e \in TxCache
  BY TxIDAssumption DEF TxCache
<1>2. Append(tx, e) \in Seq(TxCache)
  BY <1>1
<1>3. ASSUME Len(tx) > 0 PROVE [tx EXCEPT ![Len(tx)] = e] \in Seq(TxCache)
  <2>1. Len(tx) \in 1..Len(tx)
    BY <1>3
  <2> QED
    BY <1>1, <2>1, ExceptSeq, Zenon
<1> QED
  BY <1>2, <1>3 DEF push, lastTx

LEMMA DirtyType ==
    ASSUME NEW tx \in Seq(TxCache), NEW x \in Nat
    PROVE  dirty(tx, x) \in Seq(TxCache)
BY DEF dirty, lastTx

-----------------------------------------------------------------------------
(* Who wrote the entries of a stack, through push, dirty and top *)

LEMMA TopWrittenBy ==
    ASSUME NEW tx \in Seq(TxCache), NEW ms, WrittenBy(tx, ms), top(tx) \in Values
    PROVE  top(tx).mc \in ms
<1>1. Len(tx) > 0
  BY NilAssumption DEF top, lastTx
<1>2. Len(tx) \in DOMAIN tx
  BY <1>1
<1> QED
  BY <1>1, <1>2 DEF top, lastTx, WrittenBy

LEMMA PushWrittenBy ==
    ASSUME NEW tx \in Seq(TxCache), NEW x, NEW v \in Values, NEW ms,
           WrittenBy(tx, ms), v.mc \in ms
    PROVE  WrittenBy(push(tx, x, v), ms)
<1> DEFINE e == [id |-> x, value |-> v]
<1>1. WrittenBy(Append(tx, e), ms)
  BY DEF WrittenBy
<1>2. WrittenBy([tx EXCEPT ![Len(tx)] = e], ms)
  BY DEF WrittenBy
<1> QED
  BY <1>1, <1>2 DEF push, lastTx

LEMMA DirtyWrittenBy ==
    ASSUME NEW tx \in Seq(TxCache), NEW x, NEW ms, WrittenBy(tx, ms)
    PROVE  WrittenBy(dirty(tx, x), ms)
<1>1. ASSUME Len(tx) > 0 PROVE WrittenBy(SubSeq(tx, 1, Len(tx) - 1), ms)
  BY <1>1 DEF WrittenBy
<1> QED
  BY <1>1 DEF dirty, lastTx

-----------------------------------------------------------------------------
(* Type correctness *)

\* An allocated MemCache is a record; replacing its stack allocates nothing.
LEMMA RecordOf ==
    ASSUME TypeOK, NEW m \in Allocated
    PROVE  m \in Mcs /\ heap[m] \in Records /\ heap[m].tx \in Seq(TxCache) /\ heap[m].key \in Keys
BY DEF TypeOK, Allocated, Records

LEMMA NewStack ==
    ASSUME TypeOK, NEW m \in Allocated, NEW tx \in Seq(TxCache),
           heap' = [heap EXCEPT ![m].tx = tx]
    PROVE  /\ heap' \in [Mcs -> Records \cup {Nil}]
           /\ Allocated' = Allocated
           /\ heap'[m] = [heap[m] EXCEPT !.tx = tx]
           /\ \A n \in Mcs : n # m => heap'[n] = heap[n]
<1>1. heap \in [Mcs -> Records \cup {Nil}] /\ m \in Mcs /\ heap[m] \in Records
  BY RecordOf DEF TypeOK
<1>2. [heap[m] EXCEPT !.tx = tx] \in Records
  BY <1>1 DEF Records
<1>3. heap' = [heap EXCEPT ![m] = [heap[m] EXCEPT !.tx = tx]]
  OBVIOUS
<1>4. heap' \in [Mcs -> Records \cup {Nil}]
  BY <1>1, <1>2, <1>3
<1>5. heap'[m] = [heap[m] EXCEPT !.tx = tx] /\ \A n \in Mcs : n # m => heap'[n] = heap[n]
  BY <1>1, <1>3
<1>6. heap'[m] # Nil /\ heap[m] # Nil
  BY <1>1, <1>2, <1>5, NilAssumption
<1> QED
  BY <1>1, <1>4, <1>5, <1>6 DEF Allocated

\* Every operation of the cache keeps the three levels well formed: what
\* level 2 reaches, what callers hold and what a commit walks is allocated.
THEOREM TypeCorrect == Spec => []TypeOK
<1>1. NewMcInstance => TypeOK
  <2> SUFFICES ASSUME NewMcInstance PROVE TypeOK
    OBVIOUS
  <2> USE DEF NewMcInstance
  <2>1. Idle \in [op : Ops, transID : TransIDs \cup {Nil}, key : Keys \cup {Nil},
                 txID : Nat, rest : SUBSET Allocated] /\ Idle.op = "idle"
    BY DEF Idle, Call, Ops
  <2>2. cleared \in BOOLEAN
    BY Zenon
  <2> QED
    BY <2>1, <2>2 DEF TypeOK
<1>2. TypeOK /\ [Next]_vars => TypeOK'
  <2> SUFFICES ASSUME TypeOK, [Next]_vars PROVE TypeOK'
    OBVIOUS
  <2> USE DEF TypeOK
  <2>1. ASSUME NEW th \in Threads, NEW t \in TransIDs, NEW k \in Keys, NewMc(th, t, k)
        PROVE  TypeOK'
    BY <2>1 DEF NewMc, Call, Ops, At, Allocated, history
  <2>2. ASSUME NEW th \in Threads, NewMcEntry(th)
        PROVE  TypeOK'
    <3> DEFINE t == call[th].transID
               k == call[th].key
    <3>1. CASE UNCHANGED <<mcCache, heap>>
      <4>1. \/ call' = [call EXCEPT ![th] = Call("panicked", Nil, Nil, 0, {})]
            \/ call' = [call EXCEPT ![th].op = "new_return"]
        BY <2>2 DEF NewMcEntry
      <4>2. Allocated' = Allocated
        BY <3>1 DEF Allocated
      <4>3. /\ call' \in [Threads -> [op : Ops, transID : TransIDs \cup {Nil}, key : Keys \cup {Nil},
                                     txID : Nat, rest : SUBSET Allocated]]
            /\ \A p \in Threads : \/ call'[p].op = "panicked"
                                  \/ call'[p].transID = call[p].transID /\ call'[p].key = call[p].key
        <5>1. CASE call' = [call EXCEPT ![th] = Call("panicked", Nil, Nil, 0, {})]
          BY <5>1 DEF Call, Ops
        <5>2. CASE call' = [call EXCEPT ![th].op = "new_return"]
          <6>1. "new_return" \in Ops
            BY DEF Ops
          <6>2. \A p \in Threads : call'[p].transID = call[p].transID /\ call'[p].key = call[p].key
            BY <5>2
          <6> QED
            BY <5>2, <6>1, <6>2
        <5> QED
          BY <4>1, <5>1, <5>2
      <4>4. \A p \in Threads : \/ call'[p].op = call[p].op
                               \/ call'[p].op = "panicked"
                               \/ p = th /\ call[p].op = "new_entry"
        BY <2>2, <4>1 DEF NewMcEntry, At
      <4> QED
        BY <2>2, <3>1, <4>2, <4>3, <4>4 DEF NewMcEntry, history
    <3>2. ASSUME NEW m \in Mcs \ Allocated, t \in transMaps,
                 heap' = [heap EXCEPT ![m] = newmc(t, k)], mcCache' = mcCache \cup {m},
                 call' = [call EXCEPT ![th].op = "new_return"]
          PROVE  TypeOK'
      <4>1. k \in Keys
        BY <2>2 DEF NewMcEntry, At
      <4>2. newmc(t, k) \in Records
        <5>1. ASSUME llCache[k] # Absent PROVE [id |-> 0, value |-> llCache[k]] \in TxCache
          BY <4>1, <5>1 DEF TxCache
        <5>2. newmc(t, k).tx \in Seq(TxCache)
          BY <5>1 DEF newmc
        <5> QED
          BY <3>2, <4>1, <5>2 DEF newmc, Records
      <4>3. heap' \in [Mcs -> Records \cup {Nil}] /\ Allocated \subseteq Allocated' /\ m \in Allocated'
        BY <3>2, <4>2, NilAssumption DEF Allocated
      <4> QED
        BY <2>2, <3>2, <4>3 DEF NewMcEntry, Ops, At, history
    <3> QED
      BY <2>2, <3>1, <3>2 DEF NewMcEntry
  <2>3. ASSUME NEW th \in Threads, NewMcReturn(th)
        PROVE  TypeOK'
    BY <2>3 DEF NewMcReturn, Idle, Call, Ops, At, Allocated, Entries, Of, history
  <2>4. ASSUME NEW th \in Threads, NEW k \in Keys, Dirty(th, k)
        PROVE  TypeOK'
    BY <2>4 DEF Dirty, Call, Ops, At, Allocated
  <2>5. ASSUME NEW th \in Threads, DirtyLl(th)
        PROVE  TypeOK'
    BY <2>5 DEF DirtyLl, Idle, Call, Ops, At, Allocated, history
  <2>6. ASSUME NEW th \in Threads, Clear(th)
        PROVE  TypeOK'
    BY <2>6 DEF Clear, Idle, Call, Ops, At, Allocated
  <2>7. ASSUME NEW th \in Threads, ClearMc(th)
        PROVE  TypeOK'
    BY <2>7 DEF ClearMc, Idle, Call, Ops, At, Allocated, history
  <2>8. ASSUME NEW th \in Threads, NEW t \in TransIDs, CommitTrans(th, t)
        PROVE  TypeOK'
    BY <2>8 DEF CommitTrans, Call, Ops, At, Allocated, Of
  <2>9. ASSUME NEW th \in Threads, CommitKey(th)
        PROVE  TypeOK'
    <3>1. PICK m \in call[th].rest : llCache' = [llCache EXCEPT ![heap[m].key] = top(heap[m].tx)]
                                    /\ call' = [call EXCEPT ![th].rest = @ \ {m}]
      BY <2>9, Zenon DEF CommitKey
    <3>2. m \in Allocated
      OBVIOUS
    <3>3. top(heap[m].tx) \in Values \cup {Nil}
      BY <3>2, RecordOf, TopType
    <3>4. llCache' \in [Keys -> Values \cup {Nil, Absent}]
      BY <3>1, <3>3, Zenon
    <3> QED
      BY <2>9, <3>1, <3>4 DEF CommitKey, Allocated, history
  <2>10. ASSUME NEW th \in Threads, CommitEnd(th)
        PROVE  TypeOK'
    BY <2>10 DEF CommitEnd, Idle, Call, Ops, At, Allocated, history
  <2>11. ASSUME NEW th \in Threads, NEW t \in TransIDs, DirtyTrans(th, t)
        PROVE  TypeOK'
    BY <2>11 DEF DirtyTrans, Of, Allocated
  <2>12. ASSUME NEW th \in Threads, NEW t \in TransIDs, NEW x \in TxIDs, DirtyTransTx(th, t, x)
        PROVE  TypeOK'
    BY <2>12, TxIDAssumption DEF DirtyTransTx, Call, Ops, At, Allocated, Of, history
  <2>13. ASSUME NEW th \in Threads, DirtyTransTxStep(th)
        PROVE  TypeOK'
    <3>1. CASE heap' = heap
      BY <2>13, <3>1 DEF DirtyTransTxStep, Idle, Call, Ops, At, Allocated, history
    <3>2. ASSUME NEW m \in call[th].rest, heap' = [heap EXCEPT ![m].tx = dirty(@, call[th].txID)],
                 call' = [call EXCEPT ![th].rest = @ \ {m}]
          PROVE  TypeOK'
      <4>1. m \in Allocated /\ dirty(heap[m].tx, call[th].txID) \in Seq(TxCache)
        BY RecordOf, DirtyType
      <4>2. heap' \in [Mcs -> Records \cup {Nil}] /\ Allocated' = Allocated
        BY <3>2, <4>1, NewStack, Zenon
      <4> QED
        BY <2>13, <3>2, <4>2 DEF DirtyTransTxStep, history
    <3> QED
      BY <2>13, <3>1, <3>2 DEF DirtyTransTxStep
  <2>14. ASSUME NEW th \in Threads, NEW x \in TxIDs, NEW d \in Data, Set(th, x, d)
        PROVE  TypeOK'
    <3> DEFINE m == held[th]
               v == [mc |-> m, data |-> d]
    <3>1. m \in Allocated /\ v \in Values
      BY <2>14 DEF Set, Allocated, Values
    <3>2. push(heap[m].tx, x, v) \in Seq(TxCache)
      BY <3>1, RecordOf, PushType
    <3>3. heap' = [heap EXCEPT ![m].tx = push(heap[m].tx, x, v)]
      BY <2>14 DEF Set
    <3>4. heap' \in [Mcs -> Records \cup {Nil}] /\ Allocated' = Allocated
      <4> HIDE DEF m, v
      <4> QED
        BY <3>1, <3>2, <3>3, NewStack, Zenon
    <3> QED
      BY <2>14, <3>4 DEF Set, history
  <2>15. ASSUME NEW th \in Threads, NEW x \in TxIDs, DirtyTx(th, x)
        PROVE  TypeOK'
    <3>1. held[th] \in Allocated /\ dirty(heap[held[th]].tx, x) \in Seq(TxCache)
      BY <2>15, RecordOf, DirtyType, TxIDAssumption DEF DirtyTx
    <3>2. heap' \in [Mcs -> Records \cup {Nil}] /\ Allocated' = Allocated
      BY <2>15, <3>1, NewStack, Zenon DEF DirtyTx
    <3> QED
      BY <2>15, <3>2 DEF DirtyTx, history
  <2>16. CASE UNCHANGED vars
    BY <2>16 DEF vars, Allocated
  <2> QED
    BY <2>1, <2>2, <2>3, <2>4, <2>5, <2>6, <2>7, <2>8, <2>9, <2>10, <2>11, <2>12,
       <2>13, <2>14, <2>15, <2>16, Zenon DEF Next, Resume
<1> QED
  BY <1>1, <1>2, PTL DEF Spec

-----------------------------------------------------------------------------
(* Isolation *)

\* A commit walks only MemCaches already recorded as committed.
WalksCommitted == \A th \in Threads : At(th, "commit") => call[th].rest \subseteq committed

IsolationInv == TypeOK /\ Isolation /\ WalksCommitted

\* A value set in a transaction stays inside its MemCache until CommitTrans
\* takes that MemCache up, whatever the other threads do.
THEOREM Isolated == Spec => []Isolation
<1>1. NewMcInstance => Isolation /\ WalksCommitted
  BY AbsentAssumption DEF NewMcInstance, Isolation, WalksCommitted, Allocated, At, Idle, Call
<1>2. IsolationInv /\ TypeOK' /\ [Next]_vars => Isolation' /\ WalksCommitted'
  <2> SUFFICES ASSUME IsolationInv, TypeOK', [Next]_vars PROVE Isolation' /\ WalksCommitted'
    OBVIOUS
  <2> USE DEF IsolationInv
  <2>a. ASSUME UNCHANGED <<llCache, heap, committed>> PROVE Isolation'
    BY <2>a DEF Isolation, Allocated
  <2>b. ASSUME NEW m \in Allocated, NEW tx \in Seq(TxCache), WrittenBy(tx, committed \cup {m}),
               heap' = [heap EXCEPT ![m].tx = tx], UNCHANGED <<llCache, committed>>
        PROVE  Isolation'
    <3>1. /\ Allocated' = Allocated /\ m \in Mcs /\ heap[m] \in Records
          /\ heap'[m] = [heap[m] EXCEPT !.tx = tx]
          /\ \A n \in Mcs : n # m => heap'[n] = heap[n]
      BY <2>b, NewStack, RecordOf, Zenon
    <3>2. heap'[m].tx = tx
      BY <3>1 DEF Records
    <3> QED
      BY <2>b, <3>1, <3>2, Zenon DEF Isolation, Allocated
  <2>1. ASSUME NEW th \in Threads, NEW t \in TransIDs, NEW k \in Keys, NewMc(th, t, k)
        PROVE  Isolation' /\ WalksCommitted'
    BY <2>1, <2>a DEF NewMc, TypeOK, WalksCommitted, At, Call, history
  <2>2. ASSUME NEW th \in Threads, NewMcEntry(th)
        PROVE  Isolation' /\ WalksCommitted'
    <3>1. WalksCommitted'
      BY <2>2 DEF NewMcEntry, TypeOK, WalksCommitted, At, Call, history
    <3>2. ASSUME NEW m \in Mcs \ Allocated, NEW t, NEW k \in Keys, UNCHANGED <<llCache, committed>>,
                 heap' = [heap EXCEPT ![m] = newmc(t, k)]
          PROVE  Isolation'
      <4>1. WrittenBy(newmc(t, k).tx, committed)
        BY DEF Isolation, WrittenBy, newmc
      <4>2. WrittenBy(heap'[m].tx, committed \cup {m})
        BY <3>2, <4>1 DEF TypeOK, WrittenBy
      <4>3. \A n \in Mcs : n # m => heap'[n] = heap[n]
        BY <3>2 DEF TypeOK
      <4> QED
        BY <3>2, <4>2, <4>3 DEF Isolation, Allocated
    <3>3. Isolation'
      BY <2>2, <2>a, <3>2 DEF NewMcEntry, TypeOK, At, history
    <3> QED
      BY <3>1, <3>3
  <2>3. ASSUME NEW th \in Threads, NewMcReturn(th)
        PROVE  Isolation' /\ WalksCommitted'
    BY <2>3, <2>a DEF NewMcReturn, TypeOK, WalksCommitted, At, Idle, Call, history
  <2>4. ASSUME NEW th \in Threads, NEW k \in Keys, Dirty(th, k)
        PROVE  Isolation' /\ WalksCommitted'
    BY <2>4, <2>a DEF Dirty, TypeOK, WalksCommitted, At, Call
  <2>5. ASSUME NEW th \in Threads, DirtyLl(th)
        PROVE  Isolation' /\ WalksCommitted'
    <3>1. \A k \in Keys : llCache'[k] \in Values => llCache'[k].mc \in committed
      BY <2>5, AbsentAssumption DEF DirtyLl, TypeOK, Isolation
    <3> QED
      BY <2>5, <3>1, ZenonT(30) DEF DirtyLl, TypeOK, Isolation, Allocated, WalksCommitted, At, Idle, Call, history
  <2>6. ASSUME NEW th \in Threads, Clear(th)
        PROVE  Isolation' /\ WalksCommitted'
    BY <2>6, AbsentAssumption, Zenon DEF Clear, TypeOK, Isolation, Allocated, WalksCommitted, At, Call
  <2>7. ASSUME NEW th \in Threads, ClearMc(th)
        PROVE  Isolation' /\ WalksCommitted'
    BY <2>7, <2>a DEF ClearMc, TypeOK, WalksCommitted, At, Idle, Call, history
  <2>8. ASSUME NEW th \in Threads, NEW t \in TransIDs, CommitTrans(th, t)
        PROVE  Isolation' /\ WalksCommitted'
    <3>1. committed' = committed \cup Of(t) /\ llCache' = llCache /\ heap' = heap
      BY <2>8 DEF CommitTrans
    <3>2. \A m \in Allocated : WrittenBy(heap[m].tx, committed' \cup {m})
      BY <3>1 DEF Isolation, WrittenBy
    <3>3. Isolation'
      BY <3>1, <3>2 DEF Isolation, Allocated
    <3>4. WalksCommitted'
      BY <2>8, <3>1 DEF CommitTrans, TypeOK, WalksCommitted, At, Call
    <3> QED
      BY <3>3, <3>4
  <2>9. ASSUME NEW th \in Threads, CommitKey(th)
        PROVE  Isolation' /\ WalksCommitted'
    <3>1. PICK m \in call[th].rest : /\ At(th, "commit")
                                    /\ llCache' = [llCache EXCEPT ![heap[m].key] = top(heap[m].tx)]
                                    /\ call' = [call EXCEPT ![th].rest = @ \ {m}]
      BY <2>9, Zenon DEF CommitKey
    <3>2. m \in committed /\ m \in Allocated
      BY <3>1 DEF WalksCommitted, TypeOK
    <3>3. WrittenBy(heap[m].tx, committed)
      BY <3>2 DEF Isolation, WrittenBy
    <3>4. top(heap[m].tx) \in Values => top(heap[m].tx).mc \in committed
      BY <3>2, <3>3, RecordOf, TopWrittenBy
    <3>5. Isolation'
      BY <2>9, <3>1, <3>4, Zenon DEF CommitKey, TypeOK, Isolation, Allocated, history
    <3>6. WalksCommitted'
      BY <2>9, <3>1 DEF CommitKey, TypeOK, WalksCommitted, At, history
    <3> QED
      BY <3>5, <3>6
  <2>10. ASSUME NEW th \in Threads, CommitEnd(th)
        PROVE  Isolation' /\ WalksCommitted'
    BY <2>10, <2>a DEF CommitEnd, TypeOK, WalksCommitted, At, Idle, Call, history
  <2>11. ASSUME NEW th \in Threads, NEW t \in TransIDs, DirtyTrans(th, t)
        PROVE  Isolation' /\ WalksCommitted'
    BY <2>11, <2>a DEF DirtyTrans, WalksCommitted, At
  <2>12. ASSUME NEW th \in Threads, NEW t \in TransIDs, NEW x \in TxIDs, DirtyTransTx(th, t, x)
        PROVE  Isolation' /\ WalksCommitted'
    BY <2>12, <2>a DEF DirtyTransTx, TypeOK, WalksCommitted, At, Call, history
  <2>13. ASSUME NEW th \in Threads, DirtyTransTxStep(th)
        PROVE  Isolation' /\ WalksCommitted'
    <3>1. WalksCommitted'
      BY <2>13 DEF DirtyTransTxStep, TypeOK, WalksCommitted, At, Idle, Call, history
    <3>2. ASSUME NEW m \in call[th].rest, heap' = [heap EXCEPT ![m].tx = dirty(@, call[th].txID)]
          PROVE  Isolation'
      <4>1. m \in Allocated /\ call[th].txID \in Nat
        BY DEF TypeOK
      <4>2. /\ dirty(heap[m].tx, call[th].txID) \in Seq(TxCache)
            /\ WrittenBy(dirty(heap[m].tx, call[th].txID), committed \cup {m})
        BY <4>1, RecordOf, DirtyType, DirtyWrittenBy, Zenon DEF Isolation
      <4> QED
        BY <2>13, <2>b, <3>2, <4>1, <4>2, Zenon DEF DirtyTransTxStep, history
    <3>3. Isolation'
      BY <2>13, <2>a, <3>2 DEF DirtyTransTxStep, history
    <3> QED
      BY <3>1, <3>3
  <2>14. ASSUME NEW th \in Threads, NEW x \in TxIDs, NEW d \in Data, Set(th, x, d)
        PROVE  Isolation' /\ WalksCommitted'
    <3> DEFINE m == held[th]
               v == [mc |-> m, data |-> d]
    <3>1. m \in Allocated /\ v \in Values /\ v.mc = m
      BY <2>14 DEF Set, TypeOK, Allocated, Values
    <3>2. heap' = [heap EXCEPT ![m].tx = push(heap[m].tx, x, v)] /\ UNCHANGED <<llCache, committed, call>>
      BY <2>14 DEF Set, history
    <3> HIDE DEF m, v
    <3>3. heap[m].tx \in Seq(TxCache) /\ WrittenBy(heap[m].tx, committed \cup {m})
      BY <3>1, RecordOf, Zenon DEF Isolation
    <3>4. push(heap[m].tx, x, v) \in Seq(TxCache)
      BY <3>1, <3>3, PushType
    <3>5. WrittenBy(push(heap[m].tx, x, v), committed \cup {m})
      <4>1. v.mc \in committed \cup {m}
        BY <3>1
      <4> QED
        BY <3>1, <3>3, <4>1, PushWrittenBy
    <3>6. Isolation'
      BY <2>b, <3>1, <3>2, <3>4, <3>5, Zenon
    <3> QED
      BY <3>2, <3>6 DEF WalksCommitted, At
  <2>15. ASSUME NEW th \in Threads, NEW x \in TxIDs, DirtyTx(th, x)
        PROVE  Isolation' /\ WalksCommitted'
    <3> DEFINE m == held[th]
    <3>1. m \in Allocated /\ x \in Nat
      BY <2>15, TxIDAssumption DEF DirtyTx, TypeOK
    <3>2. heap' = [heap EXCEPT ![m].tx = dirty(heap[m].tx, x)] /\ UNCHANGED <<llCache, committed, call>>
      BY <2>15 DEF DirtyTx, history
    <3> HIDE DEF m
    <3>3. heap[m].tx \in Seq(TxCache) /\ WrittenBy(heap[m].tx, committed \cup {m})
      BY <3>1, RecordOf, Zenon DEF Isolation
    <3>4. /\ dirty(heap[m].tx, x) \in Seq(TxCache)
          /\ WrittenBy(dirty(heap[m].tx, x), committed \cup {m})
      BY <3>1, <3>3, DirtyType, DirtyWrittenBy
    <3>5. Isolation'
      BY <2>b, <3>1, <3>2, <3>4, Zenon
    <3> QED
      BY <3>2, <3>5 DEF WalksCommitted, At
  <2>16. CASE UNCHANGED vars
    BY <2>16, <2>a DEF vars, WalksCommitted, At
  <2> QED
    BY <2>1, <2>2, <2>3, <2>4, <2>5, <2>6, <2>7, <2>8, <2>9, <2>10, <2>11, <2>12,
       <2>13, <2>14, <2>15, <2>16 DEF Next, Resume
<1> QED
  BY <1>1, <1>2, TypeCorrect, PTL DEF Spec, IsolationInv

-----------------------------------------------------------------------------
(* Rollback *)

\* What was dropped is out of level 2 for good, and a committed MemCache is
\* still in level 2 only while its CommitTrans holds mcmt.
DroppedDetached == mcCache \cap dropped = {}
CommitHoldsLock ==
    \A m \in mcCache \cap committed :
        \E th \in Threads : At(th, "commit") /\ call[th].transID = heap[m].transID

RollbackInv == RolledBackNeverCommitted /\ DroppedDetached /\ CommitHoldsLock

\* A step that keeps every commit in progress, and takes MemCaches out of
\* level 2 without recording anything, keeps the invariant.
LEMMA RollbackFrame ==
    ASSUME TypeOK, RollbackInv, mcCache' \subseteq mcCache, UNCHANGED <<committed, dropped>>,
           \A m \in mcCache : heap'[m].transID = heap[m].transID,
           \A th \in Threads : At(th, "commit") =>
               At(th, "commit")' /\ call'[th].transID = call[th].transID
    PROVE  RollbackInv'
<1>1. RolledBackNeverCommitted' /\ DroppedDetached'
  BY DEF RollbackInv, RolledBackNeverCommitted, DroppedDetached
<1>2. CommitHoldsLock'
  BY DEF RollbackInv, CommitHoldsLock, At
<1> QED
  BY <1>1, <1>2 DEF RollbackInv

\* Data rolled back by Dirty or DirtyTrans never becomes committed: both wait
\* for mcmt, which a CommitTrans keeps from its first key to its last.
THEOREM RolledBack == Spec => []RolledBackNeverCommitted
<1>1. NewMcInstance => RollbackInv
  BY DEF NewMcInstance, RollbackInv, RolledBackNeverCommitted, DroppedDetached, CommitHoldsLock
<1>2. TypeOK /\ RollbackInv /\ [Next]_vars => RollbackInv'
  <2> SUFFICES ASSUME TypeOK, RollbackInv, [Next]_vars PROVE RollbackInv'
    OBVIOUS
  <2>a. ASSUME mcmtFree PROVE mcCache \cap committed = {}
    BY <2>a DEF mcmtFree, mcmtWriter, RollbackInv, CommitHoldsLock, At
  <2>1. ASSUME NEW th \in Threads, NEW t \in TransIDs, NEW k \in Keys, NewMc(th, t, k)
        PROVE  RollbackInv'
    BY <2>1, RollbackFrame DEF NewMc, TypeOK, At, Call, history
  <2>2. ASSUME NEW th \in Threads, NewMcEntry(th)
        PROVE  RollbackInv'
    <3>1. \A p \in Threads : At(p, "commit") =>
              At(p, "commit")' /\ call'[p].transID = call[p].transID
      BY <2>2 DEF NewMcEntry, TypeOK, At, Call
    <3>2. ASSUME NEW m \in Mcs \ Allocated, NEW r, heap' = [heap EXCEPT ![m] = r],
                 mcCache' = mcCache \cup {m}, UNCHANGED <<committed, dropped>>
          PROVE  RollbackInv'
      <4>1. m \notin committed /\ m \notin dropped
        BY DEF TypeOK
      <4>2. \A n \in mcCache : heap'[n] = heap[n]
        BY <3>2 DEF TypeOK
      <4> QED
        BY <3>1, <3>2, <4>1, <4>2
           DEF RollbackInv, RolledBackNeverCommitted, DroppedDetached, CommitHoldsLock, At
    <3>3. CASE UNCHANGED <<mcCache, heap>>
      BY <2>2, <3>1, <3>3, RollbackFrame DEF NewMcEntry, history
    <3> QED
      BY <2>2, <3>2, <3>3 DEF NewMcEntry, history
  <2>3. ASSUME NEW th \in Threads, NewMcReturn(th)
        PROVE  RollbackInv'
    BY <2>3, RollbackFrame DEF NewMcReturn, TypeOK, At, Idle, Call, history
  <2>4. ASSUME NEW th \in Threads, NEW k \in Keys, Dirty(th, k)
        PROVE  RollbackInv'
    BY <2>4, <2>a
       DEF Dirty, TypeOK, RollbackInv, RolledBackNeverCommitted, DroppedDetached, CommitHoldsLock
  <2>5. ASSUME NEW th \in Threads, DirtyLl(th)
        PROVE  RollbackInv'
    BY <2>5, RollbackFrame DEF DirtyLl, TypeOK, At, Idle, Call, history
  <2>6. ASSUME NEW th \in Threads, Clear(th)
        PROVE  RollbackInv'
    BY <2>6, RollbackFrame DEF Clear, TypeOK, At, Call
  <2>7. ASSUME NEW th \in Threads, ClearMc(th)
        PROVE  RollbackInv'
    BY <2>7, RollbackFrame DEF ClearMc, TypeOK, At, Idle, Call, history
  <2>8. ASSUME NEW th \in Threads, NEW t \in TransIDs, CommitTrans(th, t)
        PROVE  RollbackInv'
    <3>1. RolledBackNeverCommitted' /\ DroppedDetached'
      BY <2>8 DEF CommitTrans, Of, RollbackInv, RolledBackNeverCommitted, DroppedDetached
    <3>2. mcCache' \cap committed' = Of(t) /\ heap' = heap
      BY <2>8, <2>a DEF CommitTrans, Of
    <3>3. At(th, "commit")' /\ call'[th].transID = t
      BY <2>8 DEF CommitTrans, TypeOK, At, Call
    <3> QED
      BY <3>1, <3>2, <3>3 DEF RollbackInv, CommitHoldsLock, Of
  <2>9. ASSUME NEW th \in Threads, CommitKey(th)
        PROVE  RollbackInv'
    BY <2>9, RollbackFrame DEF CommitKey, TypeOK, At, history
  <2>10. ASSUME NEW th \in Threads, CommitEnd(th)
        PROVE  RollbackInv'
    <3>1. RolledBackNeverCommitted' /\ DroppedDetached'
      BY <2>10 DEF CommitEnd, RollbackInv, RolledBackNeverCommitted, DroppedDetached, history
    <3>2. ASSUME NEW m \in mcCache' \cap committed'
          PROVE  \E p \in Threads : At(p, "commit")' /\ call'[p].transID = heap'[m].transID
      <4>1. /\ m \in mcCache \cap committed /\ heap' = heap
            /\ heap[m].transID # call[th].transID
        BY <2>10, <3>2 DEF CommitEnd, Of, history
      <4>2. PICK p \in Threads : At(p, "commit") /\ call[p].transID = heap[m].transID
        BY <4>1 DEF RollbackInv, CommitHoldsLock
      <4>3. call'[p] = call[p]
        BY <2>10, <4>1, <4>2 DEF CommitEnd, TypeOK
      <4> QED
        BY <4>1, <4>2, <4>3 DEF At
    <3> QED
      BY <3>1, <3>2 DEF RollbackInv, CommitHoldsLock
  <2>11. ASSUME NEW th \in Threads, NEW t \in TransIDs, DirtyTrans(th, t)
        PROVE  RollbackInv'
    BY <2>11, <2>a
       DEF DirtyTrans, Of, TypeOK, RollbackInv, RolledBackNeverCommitted, DroppedDetached, CommitHoldsLock
  <2>12. ASSUME NEW th \in Threads, NEW t \in TransIDs, NEW x \in TxIDs, DirtyTransTx(th, t, x)
        PROVE  RollbackInv'
    BY <2>12, RollbackFrame DEF DirtyTransTx, TypeOK, At, Call, history
  <2>13. ASSUME NEW th \in Threads, DirtyTransTxStep(th)
        PROVE  RollbackInv'
    <3>1. \A n \in mcCache : heap'[n].transID = heap[n].transID
      <4>1. ASSUME NEW m \in Allocated, NEW tx, heap' = [heap EXCEPT ![m].tx = tx], NEW n \in mcCache
            PROVE  heap'[n].transID = heap[n].transID
        BY <4>1, RecordOf DEF TypeOK, Records
      <4>2. heap' = heap \/ \E m \in Allocated : heap' = [heap EXCEPT ![m].tx = dirty(@, call[th].txID)]
        BY <2>13 DEF DirtyTransTxStep, TypeOK
      <4> QED
        BY <4>1, <4>2
    <3>2. \A p \in Threads : At(p, "commit") => call'[p] = call[p]
      BY <2>13 DEF DirtyTransTxStep, TypeOK, At
    <3> QED
      BY <2>13, <3>1, <3>2, RollbackFrame DEF DirtyTransTxStep, At, history
  <2>14. ASSUME NEW th \in Threads, NEW x \in TxIDs, NEW d \in Data, Set(th, x, d)
        PROVE  RollbackInv'
    <3>1. \A n \in mcCache : heap'[n].transID = heap[n].transID
      BY <2>14 DEF Set, TypeOK, Allocated, Records
    <3> QED
      BY <2>14, <3>1, RollbackFrame DEF Set, At, history
  <2>15. ASSUME NEW th \in Threads, NEW x \in TxIDs, DirtyTx(th, x)
        PROVE  RollbackInv'
    <3>1. \A n \in mcCache : heap'[n].transID = heap[n].transID
      BY <2>15 DEF DirtyTx, TypeOK, Allocated, Records
    <3> QED
      BY <2>15, <3>1, RollbackFrame DEF DirtyTx, At, history
  <2>16. CASE UNCHANGED vars
    BY <2>16, RollbackFrame DEF vars, At
  <2> QED
    BY <2>1, <2>2, <2>3, <2>4, <2>5, <2>6, <2>7, <2>8, <2>9, <2>10, <2>11, <2>12,
       <2>13, <2>14, <2>15, <2>16 DEF Next, Resume
<1> QED
  BY <1>1, <1>2, TypeCorrect, PTL DEF Spec, RollbackInv

-----------------------------------------------------------------------------
(* The missing inner map *)

\* One NewMc or CommitTrans at a time is inside mcmt; until Clear has run, the
\* inner map that a NewMc has made is there when it looks again.
Writing == {"new_entry", "new_return", "commit"}
OneWriter == \A p, q \in Threads : call[p].op \in Writing /\ call[q].op \in Writing => p = q
MapStays == \A th \in Threads : At(th, "new_entry") => cleared \/ call[th].transID \in transMaps
ClearIsNoted == \A th \in Threads : At(th, "clear_mc") => cleared

PanicInv == PanicOnlyUnderClear /\ OneWriter /\ MapStays /\ ClearIsNoted

\* One thread moves: into mcmt only when nobody writes, and the inner maps of
\* the others stay unless Clear has run.
LEMMA PanicFrame ==
    ASSUME PanicInv, NEW th \in Threads, cleared => cleared',
           \A p \in Threads \ {th} : call'[p] = call[p],
           call'[th].op \in Writing => call[th].op \in Writing \/ ~mcmtWriter,
           At(th, "new_entry")' => cleared' \/ call'[th].transID \in transMaps',
           call'[th].op \in {"clear_mc", "panicked"} => cleared',
           \A p \in Threads \ {th} : At(p, "new_entry") /\ call[p].transID \in transMaps
                                        => cleared' \/ call[p].transID \in transMaps'
    PROVE  PanicInv'
<1>1. PanicOnlyUnderClear'
  BY Zenon DEF PanicInv, PanicOnlyUnderClear, At
<1>2. OneWriter'
  <2>1. \A p \in Threads : call[p].op \in Writing => mcmtWriter
    BY Zenon DEF mcmtWriter, Writing
  <2>2. \A p, q \in Threads : call[p].op \in Writing /\ call[q].op \in Writing => p = q
    BY Zenon DEF PanicInv, OneWriter
  <2> QED
    BY <2>1, <2>2, Zenon DEF OneWriter
<1>3. MapStays'
  BY Zenon DEF PanicInv, MapStays, At
<1>4. ClearIsNoted'
  BY Zenon DEF PanicInv, ClearIsNoted, At
<1> QED
  BY <1>1, <1>2, <1>3, <1>4 DEF PanicInv

\* What a thread's own call becomes.
LEMMA CallFrame ==
    ASSUME TypeOK, NEW th \in Threads
    PROVE  /\ \A c : call' = [call EXCEPT ![th] = c] =>
                  call'[th] = c /\ \A p \in Threads \ {th} : call'[p] = call[p]
           /\ \A o : call' = [call EXCEPT ![th].op = o] =>
                  call'[th].op = o /\ \A p \in Threads \ {th} : call'[p] = call[p]
           /\ \A r : call' = [call EXCEPT ![th].rest = r] =>
                  /\ call'[th].op = call[th].op /\ call'[th].transID = call[th].transID
                  /\ \A p \in Threads \ {th} : call'[p] = call[p]
BY DEF TypeOK

\* NewMc writes to a nil map (line 48) only after a Clear: CommitTrans and
\* DirtyTrans, which also delete inner maps, hold mcmt while NewMc does not.
THEOREM PanicNeedsClear == Spec => []PanicOnlyUnderClear
<1>1. NewMcInstance => PanicInv
  <2> SUFFICES ASSUME NewMcInstance PROVE PanicInv
    OBVIOUS
  <2>1. \A th \in Threads : call[th].op = "idle"
    BY Zenon DEF NewMcInstance, Idle, Call
  <2>2. \A th \in Threads : /\ ~At(th, "panicked") /\ ~At(th, "new_entry") /\ ~At(th, "clear_mc")
                             /\ call[th].op \notin Writing
    BY <2>1, Zenon DEF At, Writing
  <2> QED
    BY <2>2, Zenon DEF PanicInv, PanicOnlyUnderClear, OneWriter, MapStays, ClearIsNoted
<1>2. TypeOK /\ PanicInv /\ [Next]_vars => PanicInv'
  <2> SUFFICES ASSUME TypeOK, PanicInv, [Next]_vars PROVE PanicInv'
    OBVIOUS
  <2>1. ASSUME NEW th \in Threads, NEW op \in {"idle", "dirty_ll", "dirty_tx"}, call'[th].op = op,
               \A p \in Threads \ {th} : call'[p] = call[p], UNCHANGED <<transMaps, cleared>>
        PROVE  PanicInv'
    <3>1. call'[th].op \notin Writing /\ ~At(th, "new_entry")' /\ call'[th].op \notin {"clear_mc", "panicked"}
      BY <2>1 DEF At, Writing
    <3> QED
      BY <2>1, <3>1, PanicFrame, Zenon
  <2>2. ASSUME NEW th \in Threads, NEW t \in TransIDs, NEW k \in Keys, NewMc(th, t, k)
        PROVE  PanicInv'
    <3>1. ~mcmtWriter /\ transMaps' = transMaps \cup {t} /\ cleared' = cleared
      BY <2>2, Zenon DEF NewMc, mcmtFree, history
    <3>2. call'[th] = Call("new_entry", t, k, 0, {}) /\ \A p \in Threads \ {th} : call'[p] = call[p]
      BY <2>2, CallFrame, Zenon DEF NewMc
    <3>3. call'[th].transID \in transMaps' /\ call'[th].op \notin {"clear_mc", "panicked"}
      BY <3>1, <3>2 DEF Call
    <3>4. \A x \in transMaps : x \in transMaps'
      BY <3>1
    <3> QED
      BY <3>1, <3>2, <3>3, <3>4, PanicFrame, Zenon
  <2>3. ASSUME NEW th \in Threads, NewMcEntry(th)
        PROVE  PanicInv'
    <3>1. At(th, "new_entry") /\ UNCHANGED <<transMaps, cleared>>
      BY <2>3, Zenon DEF NewMcEntry, history
    <3>2. CASE call[th].transID \notin transMaps /\ call' = [call EXCEPT ![th] = Call("panicked", Nil, Nil, 0, {})]
      <4>1. cleared
        BY <3>1, <3>2, Zenon DEF PanicInv, MapStays
      <4>2. call'[th] = Call("panicked", Nil, Nil, 0, {}) /\ \A p \in Threads \ {th} : call'[p] = call[p]
        BY <3>2, CallFrame, Zenon
      <4>3. call'[th].op \notin Writing
        BY <4>2 DEF Call, Writing
      <4> QED
        BY <3>1, <4>1, <4>2, <4>3, PanicFrame, Zenon
    <3>3. CASE call' = [call EXCEPT ![th].op = "new_return"]
      <4>1. call'[th].op = "new_return" /\ \A p \in Threads \ {th} : call'[p] = call[p]
        BY <3>3, CallFrame, Zenon
      <4>2. call[th].op \in Writing /\ ~At(th, "new_entry")' /\ call'[th].op \notin {"clear_mc", "panicked"}
        BY <3>1, <4>1 DEF At, Writing
      <4> QED
        BY <3>1, <4>1, <4>2, PanicFrame, Zenon
    <3> QED
      BY <2>3, <3>2, <3>3, Zenon DEF NewMcEntry
  <2>4. ASSUME NEW th \in Threads, NewMcReturn(th) \/ DirtyLl(th)
        PROVE  PanicInv'
    <3>1. call' = [call EXCEPT ![th] = Idle] /\ UNCHANGED <<transMaps, cleared>>
      BY <2>4, Zenon DEF NewMcReturn, DirtyLl, history
    <3>2. call'[th] = Idle /\ \A p \in Threads \ {th} : call'[p] = call[p]
      BY <3>1, CallFrame, Zenon
    <3>3. call'[th].op = "idle"
      BY <3>2 DEF Idle, Call
    <3> QED
      BY <2>1, <3>1, <3>2, <3>3, Zenon
  <2>5. ASSUME NEW th \in Threads, NEW k \in Keys, Dirty(th, k)
        PROVE  PanicInv'
    <3>1. call'[th] = Call("dirty_ll", Nil, k, 0, {}) /\ \A p \in Threads \ {th} : call'[p] = call[p]
      BY <2>5, CallFrame, Zenon DEF Dirty
    <3>2. call'[th].op = "dirty_ll"
      BY <3>1 DEF Call
    <3>3. UNCHANGED <<transMaps, cleared>>
      BY <2>5, Zenon DEF Dirty
    <3> QED
      BY <2>1, <3>1, <3>2, <3>3, Zenon
  <2>6. ASSUME NEW th \in Threads, Clear(th)
        PROVE  PanicInv'
    <3>1. cleared' /\ transMaps' = transMaps
      BY <2>6 DEF Clear
    <3>2. call'[th] = Call("clear_mc", Nil, Nil, 0, {}) /\ \A p \in Threads \ {th} : call'[p] = call[p]
      BY <2>6, CallFrame, Zenon DEF Clear
    <3>3. call'[th].op \notin Writing
      BY <3>2 DEF Call, Writing
    <3> QED
      BY <3>1, <3>2, <3>3, PanicFrame, Zenon
  <2>7. ASSUME NEW th \in Threads, ClearMc(th)
        PROVE  PanicInv'
    <3>1. cleared /\ cleared' = cleared
      BY <2>7, Zenon DEF ClearMc, PanicInv, ClearIsNoted, history
    <3>2. call'[th] = Idle /\ \A p \in Threads \ {th} : call'[p] = call[p]
      BY <2>7, CallFrame, Zenon DEF ClearMc
    <3>3. call'[th].op \notin Writing
      BY <3>2 DEF Idle, Call, Writing
    <3> QED
      BY <3>1, <3>2, <3>3, PanicFrame, Zenon
  <2>8. ASSUME NEW th \in Threads, NEW t \in TransIDs, CommitTrans(th, t)
        PROVE  PanicInv'
    <3>1. ~mcmtWriter /\ UNCHANGED <<transMaps, cleared>>
      BY <2>8, Zenon DEF CommitTrans, mcmtFree
    <3>2. call'[th] = Call("commit", t, Nil, 0, Of(t)) /\ \A p \in Threads \ {th} : call'[p] = call[p]
      BY <2>8, CallFrame, Zenon DEF CommitTrans
    <3>3. ~At(th, "new_entry")' /\ call'[th].op \notin {"clear_mc", "panicked"}
      BY <3>2 DEF At, Call
    <3> QED
      BY <3>1, <3>2, <3>3, PanicFrame, Zenon
  <2>9. ASSUME NEW th \in Threads, CommitKey(th)
        PROVE  PanicInv'
    <3>1. At(th, "commit") /\ UNCHANGED <<transMaps, cleared>>
      BY <2>9, Zenon DEF CommitKey, history
    <3>2. PICK m : call' = [call EXCEPT ![th].rest = call[th].rest \ {m}]
      BY <2>9, Zenon DEF CommitKey
    <3>3. call'[th].op = "commit" /\ \A p \in Threads \ {th} : call'[p] = call[p]
      BY <3>1, <3>2, CallFrame, Zenon DEF At
    <3>4. call[th].op \in Writing /\ ~At(th, "new_entry")' /\ call'[th].op \notin {"clear_mc", "panicked"}
      BY <3>1, <3>3 DEF At, Writing
    <3> QED
      BY <3>1, <3>3, <3>4, PanicFrame, Zenon
  <2>10. ASSUME NEW th \in Threads, CommitEnd(th)
         PROVE  PanicInv'
    <3>1. At(th, "commit") /\ cleared' = cleared
      BY <2>10, Zenon DEF CommitEnd, history
    <3>2. call'[th] = Idle /\ \A p \in Threads \ {th} : call'[p] = call[p]
      BY <2>10, CallFrame, Zenon DEF CommitEnd
    <3>3. \A p \in Threads \ {th} : ~At(p, "new_entry")
      <4>1. call[th].op \in Writing /\ "new_entry" \in Writing
        BY <3>1 DEF At, Writing
      <4> QED
        BY <4>1, Zenon DEF PanicInv, OneWriter, At
    <3>4. call'[th].op \notin Writing /\ ~At(th, "new_entry")' /\ call'[th].op \notin {"clear_mc", "panicked"}
      BY <3>2 DEF Idle, Call, Writing, At
    <3> QED
      BY <3>1, <3>2, <3>3, <3>4, PanicFrame, Zenon
  <2>11. ASSUME NEW th \in Threads, NEW t \in TransIDs, DirtyTrans(th, t)
         PROVE  PanicInv'
    <3>1. ~mcmtWriter /\ call' = call /\ cleared' = cleared
      BY <2>11, Zenon DEF DirtyTrans, mcmtFree
    <3>2. \A p \in Threads : ~At(p, "new_entry")
      BY <3>1 DEF mcmtWriter, At
    <3> QED
      BY <3>1, <3>2, Zenon DEF PanicInv, PanicOnlyUnderClear, OneWriter, MapStays, ClearIsNoted, At
  <2>12. ASSUME NEW th \in Threads, NEW t \in TransIDs, NEW x \in TxIDs, DirtyTransTx(th, t, x)
         PROVE  PanicInv'
    <3>1. call'[th] = Call("dirty_tx", t, Nil, x, Of(t)) /\ \A p \in Threads \ {th} : call'[p] = call[p]
      BY <2>12, CallFrame, Zenon DEF DirtyTransTx
    <3>2. call'[th].op = "dirty_tx"
      BY <3>1 DEF Call
    <3>3. UNCHANGED <<transMaps, cleared>>
      BY <2>12, Zenon DEF DirtyTransTx, history
    <3> QED
      BY <2>1, <3>1, <3>2, <3>3, Zenon
  <2>13. ASSUME NEW th \in Threads, DirtyTransTxStep(th)
         PROVE  PanicInv'
    <3>1. At(th, "dirty_tx") /\ UNCHANGED <<transMaps, cleared>>
      BY <2>13, Zenon DEF DirtyTransTxStep, history
    <3>2. CASE call' = [call EXCEPT ![th] = Idle]
      <4>1. call'[th] = Idle /\ \A p \in Threads \ {th} : call'[p] = call[p]
        BY <3>2, CallFrame, Zenon
      <4>2. call'[th].op = "idle"
        BY <4>1 DEF Idle, Call
      <4> QED
        BY <2>1, <3>1, <4>1, <4>2, Zenon
    <3>3. ASSUME NEW m, call' = [call EXCEPT ![th].rest = call[th].rest \ {m}]
          PROVE  PanicInv'
      <4>1. call'[th].op = "dirty_tx" /\ \A p \in Threads \ {th} : call'[p] = call[p]
        BY <3>1, <3>3, CallFrame, Zenon DEF At
      <4> QED
        BY <2>1, <3>1, <4>1, Zenon
    <3> QED
      BY <2>13, <3>2, <3>3 DEF DirtyTransTxStep
  <2>14. ASSUME UNCHANGED <<call, transMaps, cleared>>
         PROVE  PanicInv'
    BY <2>14, Zenon DEF PanicInv, PanicOnlyUnderClear, OneWriter, MapStays, ClearIsNoted, At
  <2>15. ASSUME NEW th \in Threads, NEW x \in TxIDs, DirtyTx(th, x) \/ \E d \in Data : Set(th, x, d)
         PROVE  PanicInv'
    BY <2>14, <2>15, Zenon DEF DirtyTx, Set, history
  <2>16. CASE UNCHANGED vars
    BY <2>14, <2>16, Zenon DEF vars, history
  <2> QED
    BY <2>2, <2>3, <2>4, <2>5, <2>6, <2>7, <2>8, <2>9, <2>10, <2>11, <2>12, <2>13, <2>15, <2>16, Zenon
       DEF Next, Resume
<1> QED
  BY <1>1, <1>2, TypeCorrect, PTL DEF Spec, PanicInv
=============================================================================

------------------------ MODULE ConnectionPoolProofs ------------------------
(***************************************************************************)
(* For any number of users, any supply of connections and any capacity:    *)
(* the pool of socket/connectionpool.go never has a client in two hands,   *)
(* its count and its limit are right unless a callback overtook the        *)
(* constructor, and a client it dropped comes back only from the hands of  *)
(* a user.                                                                 *)
(***************************************************************************)
EXTENDS ConnectionPool, FiniteSetTheorems, SequenceTheorems, TLAPS

NoTwice(s) == \A i, j \in 1..Len(s) : s[i] = s[j] => i = j

-----------------------------------------------------------------------------
(* Lists of clients *)

\* PushBack of a client that is not in the list.
LEMMA AppendLaw ==
    ASSUME NEW s \in Seq(Clients), NEW c \in Clients
    PROVE  /\ Append(s, c) \in Seq(Clients)
           /\ Range(Append(s, c)) = Range(s) \cup {c}
           /\ NoTwice(s) /\ c \notin Range(s) => NoTwice(Append(s, c))
<1>1. PICK t \in Seq(Clients) : t = Append(s, c)
  BY AppendProperties, Zenon
<1>2. Len(t) = Len(s) + 1 /\ (\A i \in 1..Len(s) : t[i] = s[i]) /\ t[Len(s) + 1] = c /\ Len(s) \in Nat
  BY <1>1, AppendProperties, LenProperties
<1>3. Range(t) = {t[i] : i \in 1..Len(t)} /\ Range(s) = {s[i] : i \in 1..Len(s)}
  BY RangeEquality
<1>4. Range(t) = Range(s) \cup {c}
  <2>1. ASSUME NEW x \in Range(t) PROVE x \in Range(s) \cup {c}
    <3>1. PICK i \in 1..Len(t) : t[i] = x
      BY <1>3
    <3>2. QED
      BY <3>1, <1>2, <1>3
  <2>2. ASSUME NEW x \in Range(s) PROVE x \in Range(t)
    <3>1. PICK i \in 1..Len(s) : s[i] = x
      BY <1>3
    <3>2. i \in 1..Len(t) /\ t[i] = x
      BY <3>1, <1>2
    <3>3. QED
      BY <3>2, <1>3
  <2>3. c \in Range(t)
    BY <1>2, <1>3
  <2>4. QED
    BY <2>1, <2>2, <2>3
<1>5. ASSUME NoTwice(s), c \notin Range(s) PROVE NoTwice(t)
  <2>1. \A i \in 1..Len(s) : s[i] # c
    BY <1>3, <1>5
  <2>2. QED
    BY <1>2, <1>5, <2>1 DEF NoTwice
<1>6. QED
  BY <1>1, <1>4, <1>5

\* Removal of the front element.
LEMMA TailLaw ==
    ASSUME NEW s \in Seq(Clients), s # <<>>, NoTwice(s)
    PROVE  /\ Head(s) \in Range(s) /\ Tail(s) \in Seq(Clients) /\ NoTwice(Tail(s))
           /\ Range(Tail(s)) = Range(s) \ {Head(s)}
<1>1. PICK t \in Seq(Clients) : t = Tail(s)
  BY HeadTailProperties, Zenon
<1>2. Len(t) = Len(s) - 1 /\ (\A i \in 1..Len(t) : t[i] = s[i + 1]) /\ Len(s) \in Nat \ {0}
  BY <1>1, HeadTailProperties, EmptySeq
<1>3. Range(t) = {t[i] : i \in 1..Len(t)} /\ Range(s) = {s[i] : i \in 1..Len(s)}
  BY RangeEquality
<1>4. Head(s) = s[1]
  OBVIOUS
<1>5. Range(t) = Range(s) \ {Head(s)}
  <2>1. ASSUME NEW x \in Range(t) PROVE x \in Range(s) \ {Head(s)}
    <3>1. PICK i \in 1..Len(t) : t[i] = x
      BY <1>3
    <3>2. i + 1 \in 1..Len(s) /\ s[i + 1] = x /\ 1 \in 1..Len(s) /\ i + 1 # 1
      BY <3>1, <1>2
    <3>3. QED
      BY <3>2, <1>3, <1>4 DEF NoTwice
  <2>2. ASSUME NEW x \in Range(s), x # Head(s) PROVE x \in Range(t)
    <3>1. PICK i \in 1..Len(s) : s[i] = x
      BY <1>3
    <3>2. i - 1 \in 1..Len(t) /\ t[i - 1] = x
      BY <3>1, <2>2, <1>2, <1>4
    <3>3. QED
      BY <3>2, <1>3
  <2>3. QED
    BY <2>1, <2>2
<1>6. NoTwice(t)
  BY <1>2 DEF NoTwice
<1>7. QED
  BY <1>1, <1>2, <1>3, <1>4, <1>5, <1>6

\* The search of closeCB takes the client out of a list that has it once.
LEMMA RemoveLaw ==
    ASSUME NEW s \in Seq(Clients), NEW c \in Clients, NoTwice(s)
    PROVE  /\ RemoveFirst(s, c) \in Seq(Clients) /\ NoTwice(RemoveFirst(s, c))
           /\ Range(RemoveFirst(s, c)) = Range(s) \ {c}
<1> DEFINE first == CHOOSE i \in 1..Len(s) : s[i] = c /\ \A j \in 1..i - 1 : s[j] # c
<1>1. CASE c \notin Range(s)
  BY <1>1 DEF RemoveFirst
<1>2. CASE c \in Range(s)
  <2>1. Range(s) = {s[i] : i \in 1..Len(s)} /\ Len(s) \in Nat
    BY RangeEquality
  <2>2. PICK k \in 1..Len(s) : s[k] = c /\ RemoveFirst(s, c) = SubSeq(s, 1, k - 1) \o SubSeq(s, k + 1, Len(s))
    <3>1. PICK i \in 1..Len(s) : s[i] = c
      BY <1>2, <2>1
    <3>2. \A j \in 1..i - 1 : s[j] # c
      BY <2>1, <3>1 DEF NoTwice
    <3>3. first \in 1..Len(s) /\ s[first] = c
      BY <3>1, <3>2
    <3>4. QED
      BY <1>2, <3>3, Zenon DEF RemoveFirst
  <2>3. k \in Nat \ {0} /\ k <= Len(s) /\ s[k] = c
    BY <2>1, <2>2
  <2> HIDE DEF first
  <2>4. PICK a \in Seq(Clients) : a = SubSeq(s, 1, k - 1) /\ Len(a) = k - 1 /\ \A i \in 1..k - 1 : a[i] = s[i]
    <3>1. \A i \in 1..k - 1 : s[i] \in Clients
      BY <2>1, <2>3, ElementOfSeq
    <3>2. k - 1 \in Int /\ 1 \in Int
      BY <2>3
    <3>3. PICK m \in Int : m = k - 1
      BY <3>2
    <3>4. PICK a : a = SubSeq(s, 1, m)
      BY Zenon
    <3>5. \A i \in 1..m : s[i] \in Clients
      BY <3>1, <3>3
    <3>6. /\ a \in Seq(Clients) /\ Len(a) = IF 1 <= m THEN m - 1 + 1 ELSE 0
          /\ \A i \in 1..m - 1 + 1 : a[i] = s[1 + i - 1]
      BY <3>4, <3>5, SubSeqProperties
    <3>7. Len(a) = k - 1 /\ \A i \in 1..k - 1 : a[i] = s[i]
      BY <3>3, <3>6, <2>3
    <3>8. QED
      BY <3>3, <3>4, <3>6, <3>7
  <2>5. PICK b \in Seq(Clients) : /\ b = SubSeq(s, k + 1, Len(s)) /\ Len(b) = Len(s) - k
                                  /\ \A i \in 1..Len(s) - k : b[i] = s[k + i]
    <3>1. PICK m \in Int, n \in Int : m = k + 1 /\ n = Len(s)
      BY <2>1, <2>3
    <3>2. \A i \in m..n : s[i] \in Clients
      BY <2>1, <2>3, <3>1, ElementOfSeq
    <3>3. PICK b : b = SubSeq(s, m, n)
      BY Zenon
    <3>4. /\ b \in Seq(Clients) /\ Len(b) = IF m <= n THEN n - m + 1 ELSE 0
          /\ \A i \in 1..n - m + 1 : b[i] = s[m + i - 1]
      BY <3>2, <3>3, SubSeqProperties
    <3>5. Len(b) = Len(s) - k /\ \A i \in 1..Len(s) - k : b[i] = s[k + i]
      BY <3>1, <3>4, <2>1, <2>3
    <3>6. QED
      BY <3>1, <3>3, <3>4, <3>5, Zenon
  <2>6. PICK t \in Seq(Clients) : t = a \o b
    BY ConcatProperties, Zenon
  <2>7. Len(t) = Len(s) - 1 /\ \A i \in 1..Len(t) : t[i] = IF i < k THEN s[i] ELSE s[i + 1]
    <3>1. /\ Len(t) = Len(a) + Len(b)
          /\ \A i \in 1..Len(a) + Len(b) : t[i] = IF i <= Len(a) THEN a[i] ELSE b[i - Len(a)]
      BY <2>6, ConcatProperties
    <3>2. Len(a) = k - 1 /\ Len(b) = Len(s) - k
      BY <2>4, <2>5
    <3>3. (\A i \in 1..k - 1 : a[i] = s[i]) /\ \A i \in 1..Len(s) - k : b[i] = s[k + i]
      BY <2>4, <2>5
    <3>4. Len(t) = Len(s) - 1
      BY <3>1, <3>2, <2>1, <2>3
    <3>5. ASSUME NEW i \in 1..Len(t) PROVE t[i] = IF i < k THEN s[i] ELSE s[i + 1]
      <4>1. CASE i < k
        <5>1. i \in 1..k - 1 /\ i <= Len(a) /\ i \in 1..Len(a) + Len(b)
          BY <3>2, <3>4, <4>1, <2>1, <2>3
        <5>2. t[i] = a[i] /\ a[i] = s[i]
          BY <3>1, <3>3, <5>1
        <5>3. QED
          BY <4>1, <5>2
      <4>2. CASE i >= k
        <5>1. PICK j \in 1..Len(s) - k : j = i - (k - 1) /\ k + j = i + 1
          BY <4>2, <3>4, <2>1, <2>3
        <5>2. t[i] = b[j]
          <6>1. i \in 1..Len(a) + Len(b) /\ ~(i <= Len(a)) /\ i - Len(a) = j
            BY <3>2, <3>4, <4>2, <5>1, <2>1, <2>3
          <6>2. QED
            BY <3>1, <6>1
        <5>3. b[j] = s[i + 1]
          BY <3>3, <5>1, Zenon
        <5>4. ~(i < k)
          BY <4>2, <2>3, <2>1, <3>4
        <5>5. QED
          BY <5>2, <5>3, <5>4
      <4>3. QED
        BY <4>1, <4>2, <2>3, <3>4, <2>1
    <3>6. QED
      BY <3>4, <3>5
  <2>8. NoTwice(t)
    <3>1. SUFFICES ASSUME NEW i \in 1..Len(t), NEW j \in 1..Len(t), t[i] = t[j] PROVE i = j
      BY DEF NoTwice
    <3>2. PICK m \in 1..Len(s) : t[i] = s[m] /\ m = IF i < k THEN i ELSE i + 1
      BY <2>1, <2>3, <2>7
    <3>3. PICK n \in 1..Len(s) : t[j] = s[n] /\ n = IF j < k THEN j ELSE j + 1
      BY <2>1, <2>3, <2>7
    <3>4. m = n
      BY <3>1, <3>2, <3>3, Zenon DEF NoTwice
    <3>5. QED
      BY <3>2, <3>3, <3>4, <2>1, <2>3, <2>7
  <2>9. Range(t) = {t[i] : i \in 1..Len(t)}
    BY RangeEquality
  <2>10. ASSUME NEW x \in Range(t) PROVE x \in Range(s) /\ x # c
    <3>1. PICK i \in 1..Len(t) : t[i] = x
      BY <2>9
    <3>2. PICK j \in 1..Len(s) : j # k /\ s[j] = x
      BY <3>1, <2>1, <2>3, <2>7
    <3>3. QED
      BY <3>2, <2>1, <2>3 DEF NoTwice
  <2>11. ASSUME NEW x \in Range(s), x # c PROVE x \in Range(t)
    <3>1. PICK i \in 1..Len(s) : s[i] = x
      BY <2>1
    <3>2. PICK j \in 1..Len(t) : t[j] = x
      <4>1. CASE i < k
        <5>1. i \in 1..Len(t)
          BY <4>1, <2>1, <2>3, <2>7
        <5>2. QED
          BY <3>1, <4>1, <5>1, <2>7
      <4>2. CASE i > k
        <5>1. i - 1 \in 1..Len(t) /\ ~(i - 1 < k) /\ i - 1 + 1 = i
          BY <4>2, <2>1, <2>3, <2>7
        <5>2. QED
          BY <3>1, <5>1, <2>7, Zenon
      <4>3. QED
        BY <4>1, <4>2, <3>1, <2>3, <2>11, <2>1
    <3>3. QED
      BY <3>2, <2>9
  <2>12. t = RemoveFirst(s, c)
    BY <2>2, <2>4, <2>5, <2>6, Zenon
  <2>13. QED
    BY <2>8, <2>10, <2>11, <2>12
<1>3. QED
  BY <1>1, <1>2

-----------------------------------------------------------------------------
(* The inductive invariant *)

\* While NewConnectionPool runs nobody has the pool, and a client that it has
\* dialled and not yet pushed is not in the list.
Ctor ==
    /\ build.at \in {"loop", "ready", "failed"} => build.cli = None
    /\ build.at # "ready" => \A u \in Users : pc[u] = "idle" /\ cli[u] = None
    /\ build.at \in {"setcb", "push"} => build.cli \notin Range(idleConnS)

\* A client that was not dialled is nowhere.
Fresh ==
    \A c \in Unused : /\ c \notin Range(idleConnS) /\ build.cli # c
                      /\ \A u \in Users : cli[u] # c

\* A callback runs once, for a client that was added.
Once ==
    /\ \A c \in notified : state[c] = "dead"
    /\ \A u \in Users : pc[u] = "setcb" => cli[u] \notin notified

\* Between the check of incrCapacity and curCap++.
Dialling == build.at \in {"setcb", "push", "store"} \/ \E u \in Users : pc[u] = "setcb"

\* Unless a callback overtook the constructor: registers hold curCap itself,
\* and the client being dialled has a place below the limit.
Count ==
    ~raced => /\ curCap = Cardinality(Counted)
              /\ Building => notified = {} /\ mtx \notin Clients
              /\ build.at = "store" => build.reg = curCap
              /\ \A c \in Clients : mtx = c => reg[c] = curCap
              /\ curCap <= MaxCap /\ (Dialling => curCap < MaxCap)

\* A client that a callback took out of the list, and that nobody held then,
\* is out of reach.
Gone ==
    ~raced => \A c \in Clients : (c \in notified \/ mtx = c) /\ c \notin broke =>
                 c \notin Range(idleConnS) /\ \A u \in Users : cli[u] # c

IInv == /\ TypeOK /\ Ctor /\ Fresh /\ Exclusive /\ Once
        /\ IsFiniteSet(Clients \ Unused) /\ Count /\ Gone /\ BusyIsHeld

\* The steps, one for each action.
Steps ==
    \/ BuildLoop \/ BuildSetCB \/ BuildPush \/ BuildStore
    \/ \E c \in Clients : Break(c) \/ closeCB(c) \/ closeCBStore(c)
    \/ \E u \in Users : \/ GetIdle(u) \/ GetDial(u) \/ GetAdd(u) \/ ReleaseClient(u)
                        \/ Close(u) \/ CloseIdle(u)

LEMMA Split == [Next]_vars => Steps \/ UNCHANGED vars
BY DEF Next, Build, Callback, Steps

\* The list, in the terms of the lemmas about lists.
LEMMA IdleOnce == TypeOK /\ Exclusive => idleConnS \in Seq(Clients) /\ NoTwice(idleConnS)
BY DEF TypeOK, Exclusive, NoTwice

-----------------------------------------------------------------------------
(* Types *)

\* Every action keeps the types, and mtx with who is inside a locked method.
LEMMA TypeStep == TypeOK /\ Exclusive /\ Ctor /\ [Next]_vars => TypeOK'
<1> SUFFICES ASSUME TypeOK, Exclusive, Ctor, [Next]_vars PROVE TypeOK'
  OBVIOUS
<1> USE PoolAssumption
<1>1. CASE BuildLoop
  <2>1. CASE UNCHANGED <<state, conns>> /\ \E at \in {"ready", "failed"} : build' = [build EXCEPT !.at = at]
    <3>1. /\ build' \in [at : {"loop", "setcb", "push", "store", "ready", "failed"},
                         cli : Clients \cup {None}, reg : Int]
          /\ build'.at \in {"ready", "failed"}
      BY <2>1, Zenon DEF TypeOK
    <3>2. QED
      BY <1>1, <2>1, <3>1, Zenon DEF BuildLoop, TypeOK
  <2>2. CASE \E c \in Clients : Dial(c) /\ build' = [build EXCEPT !.at = "setcb", !.cli = c]
    <3>1. PICK c \in Clients : Dial(c) /\ build' = [build EXCEPT !.at = "setcb", !.cli = c]
      BY <2>2, Zenon
    <3>2. state' \in [Clients -> {"unused", "up", "closing", "dead"}] /\ conns' \subseteq Clients
      BY <3>1 DEF Dial, TypeOK
    <3>3. /\ build' \in [at : {"loop", "setcb", "push", "store", "ready", "failed"},
                         cli : Clients \cup {None}, reg : Int]
          /\ build'.cli \in Clients
      BY <3>1, Zenon DEF TypeOK
    <3>4. mtx \in Clients => state'[mtx] = "closing"
      BY <3>1 DEF Dial, Unused, TypeOK
    <3>5. QED
      BY <1>1, <3>2, <3>3, <3>4, Zenon DEF BuildLoop, TypeOK
  <2>3. QED
    BY <1>1, <2>1, <2>2, Zenon DEF BuildLoop
<1>2. CASE BuildSetCB
  BY <1>2 DEF BuildSetCB, TypeOK
<1>3. CASE BuildPush
  BY <1>3, AppendLaw, Zenon DEF BuildPush, TypeOK
<1>4. CASE BuildStore
  BY <1>4 DEF BuildStore, TypeOK
<1>5. ASSUME NEW c \in Clients, Break(c) PROVE TypeOK'
  BY <1>5 DEF Break, AfterError, callers, TypeOK
<1>6. ASSUME NEW c \in Clients, closeCB(c) PROVE TypeOK'
  <2>1. RemoveFirst(idleConnS, c) \in Seq(Clients)
    BY IdleOnce, RemoveLaw
  <2>2. QED
    BY <1>6, <2>1 DEF closeCB, callers, TypeOK
<1>7. ASSUME NEW c \in Clients, closeCBStore(c) PROVE TypeOK'
  BY <1>7 DEF closeCBStore, callers, TypeOK
<1>8. ASSUME NEW u \in Users, GetIdle(u) PROVE TypeOK'
  <2>1. Head(idleConnS) \in Clients /\ Tail(idleConnS) \in Seq(Clients)
    BY <1>8, HeadTailProperties DEF GetIdle, TypeOK
  <2>2. QED
    BY <1>8, <2>1 DEF GetIdle, TypeOK
<1>9. ASSUME NEW u \in Users, GetDial(u) PROVE TypeOK'
  BY <1>9 DEF GetDial, Dial, Unused, TypeOK
<1>10. ASSUME NEW u \in Users, GetAdd(u) PROVE TypeOK'
  BY <1>10 DEF GetAdd, TypeOK
<1>11. ASSUME NEW u \in Users, ReleaseClient(u) PROVE TypeOK'
  BY <1>11, AppendLaw DEF ReleaseClient, TypeOK
<1>12. ASSUME NEW u \in Users, Close(u) PROVE TypeOK'
  BY <1>12 DEF Close, TypeOK
<1>13. ASSUME NEW u \in Users, CloseIdle(u) PROVE TypeOK'
  BY <1>13 DEF CloseIdle, AfterError, TypeOK
<1>14. CASE UNCHANGED vars
  BY <1>14 DEF vars, TypeOK
<1>15. QED
  BY Split, <1>1, <1>2, <1>3, <1>4, <1>5, <1>6, <1>7, <1>8, <1>9, <1>10, <1>11, <1>12, <1>13, <1>14 DEF Steps

-----------------------------------------------------------------------------
(* One client, one place *)

Apart ==
    /\ \A u, v \in Users : u # v /\ cli[u] = cli[v] => cli[u] = None
    /\ \A u \in Users : cli[u] \notin Range(idleConnS)

LEMMA ExclusiveParts ==
    idleConnS \in Seq(Clients) => (Exclusive <=> Apart /\ NoTwice(idleConnS))
BY DEF Exclusive, Apart, NoTwice

\* Exclusive needs that what is handed out, or added, was nowhere before.
LEMMA HandsStep ==
    TypeOK /\ Ctor /\ Fresh /\ Exclusive /\ [Next]_vars => Ctor' /\ Fresh' /\ Exclusive'
<1> SUFFICES ASSUME TypeOK, Ctor, Fresh, Exclusive, [Next]_vars PROVE Ctor' /\ Fresh' /\ Exclusive'
  OBVIOUS
<1> USE PoolAssumption
<1>a. TypeOK'
  BY TypeStep
<1>b. idleConnS \in Seq(Clients) /\ Range(idleConnS) \subseteq Clients /\ Apart /\ NoTwice(idleConnS)
  BY IdleOnce, ExclusiveParts, RangeOfSeq
<1>c. idleConnS' \in Seq(Clients)
  BY <1>a DEF TypeOK
<1>d. Apart' /\ NoTwice(idleConnS') => Exclusive'
  BY <1>c DEF Exclusive, Apart, NoTwice
<1>e. UNCHANGED <<idleConnS, cli>> => Exclusive'
  BY DEF Exclusive
<1>1. CASE BuildLoop
  <2>1. Exclusive'
    BY <1>1, <1>e, Zenon DEF BuildLoop
  <2>2. CASE UNCHANGED state /\ \E at \in {"ready", "failed"} : build' = [build EXCEPT !.at = at]
    <3>1. build'.at \in {"ready", "failed"} /\ build'.cli = build.cli
      BY <2>2 DEF TypeOK
    <3>2. idleConnS' = idleConnS /\ cli' = cli /\ pc' = pc /\ build.at = "loop" /\ Unused' = Unused
      BY <1>1, <2>2, Zenon DEF BuildLoop, Unused
    <3>3. Ctor' /\ Fresh'
      BY <3>1, <3>2 DEF Ctor, Fresh
    <3>4. QED
      BY <2>1, <3>3
  <2>3. CASE \E c \in Clients : Dial(c) /\ build' = [build EXCEPT !.at = "setcb", !.cli = c]
    <3>1. PICK c \in Clients : Dial(c) /\ build' = [build EXCEPT !.at = "setcb", !.cli = c]
      BY <2>3, Zenon
    <3>2. build'.at = "setcb" /\ build'.cli = c
      BY <3>1 DEF TypeOK
    <3>3. c \in Unused /\ Unused' = Unused \ {c}
      BY <3>1 DEF Dial, Unused, TypeOK
    <3>4. idleConnS' = idleConnS /\ cli' = cli /\ pc' = pc /\ build.at = "loop"
      BY <1>1, Zenon DEF BuildLoop
    <3>5. Ctor' /\ Fresh'
      BY <3>2, <3>3, <3>4 DEF Ctor, Fresh
    <3>6. QED
      BY <2>1, <3>5
  <2>4. QED
    BY <1>1, <2>2, <2>3, Zenon DEF BuildLoop
<1>2. CASE BuildSetCB
  <2>1. Exclusive'
    BY <1>2, <1>e DEF BuildSetCB
  <2>2. build'.at = "push" /\ build'.cli = build.cli
    BY <1>2 DEF BuildSetCB, TypeOK
  <2>3. QED
    BY <1>2, <2>1, <2>2 DEF BuildSetCB, Ctor, Fresh, Unused
<1>3. CASE BuildPush
  <2>1. build.cli \in Clients /\ build'.at = "store" /\ build'.cli = build.cli
    BY <1>3 DEF BuildPush, TypeOK
  <2>2. build.cli \notin Range(idleConnS) /\ build.cli \notin Unused
    BY <1>3 DEF BuildPush, Ctor, Fresh
  <2>3. Range(idleConnS') = Range(idleConnS) \cup {build.cli} /\ NoTwice(idleConnS')
    BY <1>3, <1>b, <2>1, <2>2, AppendLaw DEF BuildPush
  <2>4. \A u \in Users : pc[u] = "idle" /\ cli[u] = None
    BY <1>3 DEF BuildPush, Ctor
  <2>5. cli' = cli /\ pc' = pc /\ Unused' = Unused
    BY <1>3 DEF BuildPush, Unused
  <2>6. QED
    BY <1>b, <1>d, <2>1, <2>2, <2>3, <2>4, <2>5 DEF Ctor, Fresh, Apart
<1>4. CASE BuildStore
  <2>1. Exclusive'
    BY <1>4, <1>e DEF BuildStore
  <2>2. QED
    BY <1>4, <2>1 DEF BuildStore, Ctor, Fresh, Unused
<1>5. ASSUME NEW c \in Clients, Break(c) PROVE Ctor' /\ Fresh' /\ Exclusive'
  <2>1. Unused' \subseteq Unused
    BY <1>5 DEF Break, Unused, AfterError, TypeOK
  <2>2. UNCHANGED <<idleConnS, callers>>
    BY <1>5 DEF Break
  <2>3. QED
    BY <2>1, <2>2, <1>e DEF callers, Ctor, Fresh
<1>6. ASSUME NEW c \in Clients, closeCB(c) PROVE Ctor' /\ Fresh' /\ Exclusive'
  <2>1. Range(idleConnS') = Range(idleConnS) \ {c} /\ NoTwice(idleConnS')
    BY <1>6, <1>b, RemoveLaw DEF closeCB
  <2>2. UNCHANGED <<callers, state>>
    BY <1>6 DEF closeCB
  <2>3. QED
    BY <1>b, <1>d, <2>1, <2>2 DEF callers, Ctor, Fresh, Apart, Unused
<1>7. ASSUME NEW c \in Clients, closeCBStore(c) PROVE Ctor' /\ Fresh' /\ Exclusive'
  <2>1. Unused' \subseteq Unused
    BY <1>7 DEF closeCBStore, Unused, TypeOK
  <2>2. UNCHANGED <<idleConnS, callers>>
    BY <1>7 DEF closeCBStore
  <2>3. QED
    BY <2>1, <2>2, <1>e DEF callers, Ctor, Fresh
<1>8. ASSUME NEW u \in Users, GetIdle(u) PROVE Ctor' /\ Fresh' /\ Exclusive'
  <2>1. PICK c : c = Head(idleConnS)
    OBVIOUS
  <2>2. c \in Range(idleConnS) /\ Range(idleConnS') = Range(idleConnS) \ {c} /\ NoTwice(idleConnS')
    BY <1>8, <1>b, <2>1, TailLaw DEF GetIdle
  <2>3. cli' = [cli EXCEPT ![u] = c] /\ UNCHANGED <<build, pc, state>> /\ build.at = "ready"
    BY <1>8, <2>1 DEF GetIdle
  <2>4. Apart'
    BY <1>b, <2>2, <2>3 DEF Apart, TypeOK
  <2>5. Ctor' /\ Fresh'
    BY <2>2, <2>3 DEF Ctor, Fresh, Unused, TypeOK
  <2>6. QED
    BY <1>d, <2>2, <2>4, <2>5
<1>9. ASSUME NEW u \in Users, GetDial(u) PROVE Ctor' /\ Fresh' /\ Exclusive'
  <2>1. PICK c \in Clients : Dial(c) /\ cli' = [cli EXCEPT ![u] = c]
    BY <1>9, Zenon DEF GetDial
  <2>2. c \in Unused /\ Unused' = Unused \ {c}
    BY <2>1 DEF Dial, Unused, TypeOK
  <2>3. build' = build /\ build.at = "ready" /\ idleConnS' = idleConnS
    BY <1>9 DEF GetDial
  <2>4. Apart'
    BY <1>b, <2>1, <2>2, <2>3 DEF Apart, Fresh, TypeOK
  <2>5. Ctor' /\ Fresh'
    BY <2>1, <2>2, <2>3 DEF Ctor, Fresh, TypeOK
  <2>6. QED
    BY <1>b, <1>d, <2>3, <2>4, <2>5
<1>10. ASSUME NEW u \in Users, GetAdd(u) PROVE Ctor' /\ Fresh' /\ Exclusive'
  <2>1. build.at = "ready"
    BY <1>10 DEF GetAdd, Ctor
  <2>2. UNCHANGED <<idleConnS, state, build, cli>>
    BY <1>10 DEF GetAdd
  <2>3. QED
    BY <2>1, <2>2, <1>e DEF Ctor, Fresh, Unused
<1>11. ASSUME NEW u \in Users, ReleaseClient(u) PROVE Ctor' /\ Fresh' /\ Exclusive'
  <2>1. PICK c \in Clients : c = cli[u]
    BY <1>11 DEF ReleaseClient, TypeOK
  <2>2. c \notin Range(idleConnS) /\ c \notin Unused
    BY <1>b, <2>1 DEF Apart, Fresh
  <2>3. Range(idleConnS') = Range(idleConnS) \cup {c} /\ NoTwice(idleConnS')
    BY <1>11, <1>b, <2>1, <2>2, AppendLaw DEF ReleaseClient
  <2>4. cli' = [cli EXCEPT ![u] = None] /\ UNCHANGED <<build, pc, state>> /\ build.at = "ready"
    BY <1>11 DEF ReleaseClient, Ctor
  <2>5. Apart'
    BY <1>b, <2>1, <2>3, <2>4 DEF Apart, TypeOK
  <2>6. Ctor' /\ Fresh'
    BY <2>2, <2>3, <2>4 DEF Ctor, Fresh, Unused, TypeOK
  <2>7. QED
    BY <1>d, <2>3, <2>5, <2>6
<1>12. ASSUME NEW u \in Users, Close(u) PROVE Ctor' /\ Fresh' /\ Exclusive'
  BY <1>12, <1>e DEF Close, Ctor, Fresh, Unused
<1>13. ASSUME NEW u \in Users, CloseIdle(u) PROVE Ctor' /\ Fresh' /\ Exclusive'
  <2>1. build.at = "ready"
    BY <1>13 DEF CloseIdle, Ctor
  <2>2. UNCHANGED <<idleConnS, build, cli>>
    BY <1>13 DEF CloseIdle
  <2>3. Unused' \subseteq Unused
    BY <1>13 DEF CloseIdle, Unused, AfterError, TypeOK
  <2>4. QED
    BY <2>1, <2>2, <2>3, <1>e DEF Ctor, Fresh
<1>14. CASE UNCHANGED vars
  BY <1>14, <1>e DEF vars, Ctor, Fresh, Unused
<1>15. QED
  BY Split, <1>1, <1>2, <1>3, <1>4, <1>5, <1>6, <1>7, <1>8, <1>9, <1>10, <1>11, <1>12, <1>13, <1>14 DEF Steps

-----------------------------------------------------------------------------
(* What was dialled *)

\* Only NewClient takes a client from the supply.
LEMMA UnusedStep ==
    ASSUME TypeOK, [Next]_vars
    PROVE  \/ Unused' = Unused
           \/ \E c \in Unused : Unused' = Unused \ {c} /\ (build'.cli = c \/ \E u \in Users : cli'[u] = c)
<1>1. CASE UNCHANGED state
  BY <1>1 DEF Unused
<1>2. ASSUME NEW c \in Clients, Dial(c) PROVE c \in Unused /\ Unused' = Unused \ {c}
  BY <1>2 DEF Dial, Unused, TypeOK
<1>3. CASE BuildLoop
  <2>1. CASE \E c \in Clients : Dial(c) /\ build' = [build EXCEPT !.at = "setcb", !.cli = c]
    BY <1>2, <2>1 DEF TypeOK
  <2>2. QED
    BY <1>1, <1>3, <2>1, Zenon DEF BuildLoop
<1>4. CASE BuildSetCB \/ BuildPush \/ BuildStore
  BY <1>1, <1>4 DEF BuildSetCB, BuildPush, BuildStore
<1>5. ASSUME NEW c \in Clients, Break(c) \/ closeCB(c) \/ closeCBStore(c) PROVE Unused' = Unused
  <2>1. CASE Break(c)
    BY <2>1 DEF Break, AfterError, Unused, TypeOK
  <2>2. CASE closeCB(c)
    BY <2>2 DEF closeCB, Unused
  <2>3. CASE closeCBStore(c)
    <3>1. state[c] # "unused"
      BY <2>3 DEF closeCBStore, TypeOK
    <3>2. QED
      BY <2>3, <3>1 DEF closeCBStore, Unused, TypeOK
  <2>4. QED
    BY <1>5, <2>1, <2>2, <2>3
<1>6. ASSUME NEW u \in Users, GetDial(u)
      PROVE  \E c \in Unused : Unused' = Unused \ {c} /\ cli'[u] = c
  BY <1>2, <1>6 DEF GetDial, TypeOK
<1>7. ASSUME NEW u \in Users, GetIdle(u) \/ GetAdd(u) \/ ReleaseClient(u) \/ Close(u) PROVE Unused' = Unused
  BY <1>1, <1>7 DEF GetIdle, GetAdd, ReleaseClient, Close, Unused
<1>8. ASSUME NEW u \in Users, CloseIdle(u) PROVE Unused' = Unused
  BY <1>8 DEF CloseIdle, AfterError, Unused, TypeOK
<1>9. CASE UNCHANGED vars
  BY <1>1, <1>9 DEF vars
<1>10. QED
  BY Split, <1>3, <1>4, <1>5, <1>6, <1>7, <1>8, <1>9 DEF Steps

\* At any time finitely many clients have been dialled.
LEMMA FiniteStep ==
    TypeOK /\ IsFiniteSet(Clients \ Unused) /\ [Next]_vars => IsFiniteSet(Clients \ Unused)'
<1> SUFFICES ASSUME TypeOK, IsFiniteSet(Clients \ Unused), [Next]_vars
             PROVE  IsFiniteSet(Clients \ Unused')
  OBVIOUS
<1>1. PICK S : S = Clients \ Unused
  OBVIOUS
<1>2. CASE Unused' = Unused
  BY <1>2
<1>3. ASSUME NEW c \in Unused, Unused' = Unused \ {c} PROVE IsFiniteSet(Clients \ Unused')
  <2>1. Clients \ Unused' = S \cup {c}
    BY <1>1, <1>3 DEF Unused
  <2>2. IsFiniteSet(S \cup {c})
    BY <1>1, FS_AddElement
  <2>3. QED
    BY <2>1, <2>2
<1>4. QED
  BY <1>2, <1>3, UnusedStep

\* A callback counts a client down once, and never one that is being added:
\* GetClient has the mutex until the client is counted.
LEMMA OnceStep == TypeOK /\ Ctor /\ Once /\ [Next]_vars => Once'
<1> SUFFICES ASSUME TypeOK, Ctor, Once, [Next]_vars PROVE Once'
  OBVIOUS
<1> USE PoolAssumption
<1>1. ASSUME UNCHANGED <<notified, state, pc>>, \A u \in Users : pc[u] = "setcb" => cli'[u] = cli[u]
      PROVE  Once'
  BY <1>1 DEF Once
<1>2. ASSUME NEW c \in Clients, Dial(c) PROVE \A d \in notified : d # c /\ state'[d] = "dead"
  BY <1>2 DEF Dial, Unused, Once, TypeOK
<1>3. CASE BuildLoop
  <2>1. UNCHANGED <<notified, pc, cli>>
    BY <1>3, Zenon DEF BuildLoop
  <2>2. CASE UNCHANGED state
    BY <1>1, <2>1, <2>2
  <2>3. CASE \E c \in Clients : Dial(c)
    BY <1>2, <2>1, <2>3 DEF Once
  <2>4. QED
    BY <1>3, <2>2, <2>3, Zenon DEF BuildLoop
<1>4. CASE BuildSetCB \/ BuildPush \/ BuildStore
  BY <1>1, <1>4 DEF BuildSetCB, BuildPush, BuildStore
<1>5. ASSUME NEW c \in Clients, Break(c) PROVE Once'
  BY <1>5 DEF Break, callers, Once, TypeOK
<1>6. ASSUME NEW c \in Clients, closeCB(c) PROVE Once'
  BY <1>1, <1>6 DEF closeCB, callers
<1>7. ASSUME NEW c \in Clients, closeCBStore(c) PROVE Once'
  <2>1. \A u \in Users : pc[u] # "setcb"
    BY <1>7 DEF closeCBStore, TypeOK
  <2>2. QED
    BY <1>7, <2>1 DEF closeCBStore, callers, Once, TypeOK
<1>8. ASSUME NEW u \in Users, GetIdle(u) PROVE Once'
  BY <1>1, <1>8 DEF GetIdle, TypeOK
<1>9. ASSUME NEW u \in Users, GetDial(u) PROVE Once'
  <2>1. PICK c \in Clients : Dial(c) /\ cli' = [cli EXCEPT ![u] = c]
    BY <1>9, Zenon DEF GetDial
  <2>2. notified' = notified /\ pc' = [pc EXCEPT ![u] = "setcb"]
    BY <1>9 DEF GetDial
  <2>3. QED
    BY <1>2, <2>1, <2>2 DEF Once, TypeOK
<1>10. ASSUME NEW u \in Users, GetAdd(u) PROVE Once'
  BY <1>10 DEF GetAdd, Once, TypeOK
<1>11. ASSUME NEW u \in Users, ReleaseClient(u) PROVE Once'
  BY <1>1, <1>11 DEF ReleaseClient, TypeOK
<1>12. ASSUME NEW u \in Users, Close(u) PROVE Once'
  BY <1>12 DEF Close, Once, TypeOK
<1>13. ASSUME NEW u \in Users, CloseIdle(u) PROVE Once'
  BY <1>13 DEF CloseIdle, Once, TypeOK
<1>14. CASE UNCHANGED vars
  BY <1>1, <1>14, Zenon DEF vars
<1>15. QED
  BY Split, <1>3, <1>4, <1>5, <1>6, <1>7, <1>8, <1>9, <1>10, <1>11, <1>12, <1>13, <1>14 DEF Steps

-----------------------------------------------------------------------------
(* Busy clients and dropped ones *)

\* busyConnS only loses clients that leave a user's hands, or break in them.
LEMMA BusyStep == TypeOK /\ BusyIsHeld /\ [Next]_vars => BusyIsHeld'
<1> SUFFICES ASSUME TypeOK, BusyIsHeld, [Next]_vars PROVE BusyIsHeld'
  OBVIOUS
<1> USE PoolAssumption
<1>1. ASSUME busyConnS' \subseteq busyConnS, cli' = cli PROVE BusyIsHeld'
  BY <1>1 DEF BusyIsHeld
<1>2. ASSUME NEW u \in Users, cli[u] = None, NEW c, cli' = [cli EXCEPT ![u] = c],
             busyConnS' \subseteq busyConnS \cup {c}
      PROVE  BusyIsHeld'
  <2>1. ASSUME NEW b \in busyConnS' PROVE \E v \in Users : cli'[v] = b
    <3>1. CASE b = c
      BY <1>2, <3>1 DEF TypeOK
    <3>2. CASE b # c
      <4>1. PICK v \in Users : cli[v] = b /\ b \in Clients
        BY <1>2, <2>1, <3>2 DEF BusyIsHeld, TypeOK
      <4>2. QED
        BY <1>2, <4>1 DEF TypeOK
    <3>3. QED
      BY <3>1, <3>2
  <2>2. QED
    BY <2>1 DEF BusyIsHeld
<1>3. CASE BuildLoop \/ BuildSetCB \/ BuildPush \/ BuildStore
  BY <1>1, <1>3, Zenon DEF BuildLoop, BuildSetCB, BuildPush, BuildStore
<1>4. ASSUME NEW c \in Clients, Break(c) \/ closeCB(c) \/ closeCBStore(c) PROVE BusyIsHeld'
  BY <1>1, <1>4 DEF Break, closeCB, closeCBStore, callers
<1>5. ASSUME NEW u \in Users, GetIdle(u) PROVE BusyIsHeld'
  BY <1>2, <1>5, Zenon DEF GetIdle
<1>6. ASSUME NEW u \in Users, GetDial(u) PROVE BusyIsHeld'
  BY <1>2, <1>6, Zenon DEF GetDial
<1>7. ASSUME NEW u \in Users, GetAdd(u) PROVE BusyIsHeld'
  BY <1>7 DEF GetAdd, BusyIsHeld
<1>8. ASSUME NEW u \in Users, ReleaseClient(u) PROVE BusyIsHeld'
  BY <1>8 DEF ReleaseClient, BusyIsHeld, TypeOK
<1>9. ASSUME NEW u \in Users, Close(u) \/ CloseIdle(u) PROVE BusyIsHeld'
  BY <1>1, <1>9 DEF Close, CloseIdle
<1>10. CASE UNCHANGED vars
  BY <1>1, <1>10 DEF vars
<1>11. QED
  BY Split, <1>3, <1>4, <1>5, <1>6, <1>7, <1>8, <1>9, <1>10 DEF Steps

\* What nobody held when its callback ran can neither be released nor handed out.
LEMMA GoneStep ==
    TypeOK /\ Ctor /\ Fresh /\ Exclusive /\ Once /\ Count /\ Gone /\ [Next]_vars => Gone'
<1> SUFFICES ASSUME TypeOK, Ctor, Fresh, Exclusive, Once, Count, Gone, [Next]_vars, ~raced',
                    NEW c \in Clients, c \in notified' \/ mtx' = c, c \notin broke'
             PROVE  c \notin Range(idleConnS') /\ \A u \in Users : cli'[u] # c
  BY DEF Gone
<1> USE PoolAssumption
<1>a. idleConnS \in Seq(Clients) /\ NoTwice(idleConnS)
  BY IdleOnce
<1>1. ASSUME UNCHANGED <<idleConnS, cli, broke, raced>>, c \in notified \/ mtx = c
      PROVE  c \notin Range(idleConnS') /\ \A u \in Users : cli'[u] # c
  BY <1>1 DEF Gone
<1>2. ASSUME UNCHANGED <<broke, raced>>, c \in notified \/ mtx = c
      PROVE  c \notin Range(idleConnS) /\ \A u \in Users : cli[u] # c
  BY <1>2 DEF Gone
<1>3. CASE BuildLoop \/ BuildSetCB \/ BuildStore
  BY <1>1, <1>3, Zenon DEF BuildLoop, BuildSetCB, BuildStore
<1>4. CASE BuildPush
  BY <1>4 DEF BuildPush, Building, Count
<1>5. ASSUME NEW d \in Clients, Break(d) PROVE c \notin Range(idleConnS') /\ \A u \in Users : cli'[u] # c
  BY <1>1, <1>5 DEF Break, callers
<1>6. ASSUME NEW d \in Clients, closeCB(d) PROVE c \notin Range(idleConnS') /\ \A u \in Users : cli'[u] # c
  <2>1. Range(idleConnS') = Range(idleConnS) \ {d}
    BY <1>6, <1>a, RemoveLaw, Zenon DEF closeCB
  <2>2. cli' = cli /\ notified' = notified /\ ~raced
    BY <1>6, Zenon DEF closeCB, callers
  <2>3. CASE c = d
    BY <1>6, <2>1, <2>2, <2>3 DEF closeCB
  <2>4. CASE c # d
    <3>1. c \in notified /\ c \notin broke
      BY <1>6, <2>2, <2>4 DEF closeCB
    <3>2. QED
      BY <2>1, <2>2, <3>1 DEF Gone
  <2>5. QED
    BY <2>3, <2>4
<1>7. ASSUME NEW d \in Clients, closeCBStore(d) PROVE c \notin Range(idleConnS') /\ \A u \in Users : cli'[u] # c
  BY <1>1, <1>7 DEF closeCBStore, callers
<1>8. ASSUME NEW u \in Users, GetIdle(u) PROVE c \notin Range(idleConnS') /\ \A v \in Users : cli'[v] # c
  <2>1. PICK d : d = Head(idleConnS)
    OBVIOUS
  <2>2. d \in Range(idleConnS) /\ Range(idleConnS') = Range(idleConnS) \ {d}
    BY <1>8, <1>a, <2>1, TailLaw DEF GetIdle
  <2>3. cli' = [cli EXCEPT ![u] = d] /\ UNCHANGED <<notified, mtx, broke, raced>>
    BY <1>8, <2>1 DEF GetIdle
  <2>4. QED
    BY <1>2, <2>2, <2>3 DEF TypeOK
<1>9. ASSUME NEW u \in Users, GetDial(u) PROVE c \notin Range(idleConnS') /\ \A v \in Users : cli'[v] # c
  <2>1. PICK d \in Clients : Dial(d) /\ cli' = [cli EXCEPT ![u] = d]
    BY <1>9, Zenon DEF GetDial
  <2>2. UNCHANGED <<idleConnS, notified, broke, raced>> /\ mtx' = u
    BY <1>9 DEF GetDial
  <2>3. c \in notified
    BY <2>2
  <2>4. c # d
    BY <2>1, <2>3 DEF Dial, Unused, Once
  <2>5. QED
    BY <1>2, <2>1, <2>2, <2>3, <2>4 DEF TypeOK
<1>10. ASSUME NEW u \in Users, GetAdd(u) PROVE c \notin Range(idleConnS') /\ \A v \in Users : cli'[v] # c
  BY <1>1, <1>10 DEF GetAdd
<1>11. ASSUME NEW u \in Users, ReleaseClient(u)
       PROVE  c \notin Range(idleConnS') /\ \A v \in Users : cli'[v] # c
  <2>1. PICK d \in Clients : d = cli[u]
    BY <1>11 DEF ReleaseClient, TypeOK
  <2>2. Range(idleConnS') = Range(idleConnS) \cup {d}
    BY <1>11, <1>a, <2>1, AppendLaw DEF ReleaseClient
  <2>3. cli' = [cli EXCEPT ![u] = None] /\ UNCHANGED <<notified, mtx, broke, raced>>
    BY <1>11 DEF ReleaseClient
  <2>4. QED
    BY <1>2, <2>1, <2>2, <2>3 DEF TypeOK
<1>12. ASSUME NEW u \in Users, Close(u) \/ CloseIdle(u)
       PROVE  c \notin Range(idleConnS') /\ \A v \in Users : cli'[v] # c
  BY <1>1, <1>12 DEF Close, CloseIdle
<1>13. CASE UNCHANGED vars
  BY <1>1, <1>13 DEF vars
<1>14. QED
  BY Split, <1>3, <1>4, <1>5, <1>6, <1>7, <1>8, <1>9, <1>10, <1>11, <1>12, <1>13, Zenon DEF Steps

-----------------------------------------------------------------------------
(* The count *)

\* The client that is dialled and not yet counted: there is at most one.
PendingIs ==
    /\ build.at \in {"setcb", "push", "store"} => Pending = {build.cli}
    /\ build.at \in {"loop", "failed"} => Pending = {}
    /\ \A u \in Users : pc[u] = "setcb" => build.at = "ready" /\ Pending = {cli[u]}
    /\ build.at = "ready" /\ (\A u \in Users : pc[u] # "setcb") => Pending = {}

LEMMA PendingLaw == TypeOK /\ Ctor => PendingIs
<1> SUFFICES ASSUME TypeOK, Ctor PROVE PendingIs
  OBVIOUS
<1> USE PoolAssumption
<1>1. ASSUME build.at # "ready" PROVE Pending = {c \in Clients : c = build.cli /\ Building}
  BY <1>1 DEF Ctor, Pending
<1>2. ASSUME build.at = "ready" PROVE Pending = {c \in Clients : \E u \in Users : pc[u] = "setcb" /\ c = cli[u]}
  BY <1>2 DEF Building, Pending
<1>3. build.at \in {"setcb", "push", "store"} => Pending = {build.cli}
  BY <1>1 DEF Building, TypeOK
<1>4. build.at \in {"loop", "failed"} => Pending = {}
  BY <1>1 DEF Building, Ctor
<1>5. ASSUME NEW u \in Users, pc[u] = "setcb" PROVE build.at = "ready" /\ Pending = {cli[u]}
  <2>1. build.at = "ready" /\ cli[u] \in Clients
    BY <1>5 DEF Ctor, TypeOK
  <2>2. \A v \in Users : pc[v] = "setcb" => v = u
    BY <1>5 DEF TypeOK
  <2>3. QED
    BY <1>2, <1>5, <2>1, <2>2
<1>6. build.at = "ready" /\ (\A u \in Users : pc[u] # "setcb") => Pending = {}
  BY <1>2
<1>7. QED
  BY <1>3, <1>4, <1>5, <1>6 DEF PendingIs

LEMMA PendingNext == TypeOK' /\ Ctor' => PendingIs'
BY PendingLaw, PTL

\* Who holds no mutex, or another one, is not dialling.
LEMMA NoneDialling ==
    ASSUME TypeOK, mtx = None \/ mtx \in Clients
    PROVE  \A u \in Users : pc[u] # "setcb"
BY PoolAssumption DEF TypeOK

\* Clients that stay counted, one more, one less.
LEMMA CountedLaw ==
    ASSUME IsFiniteSet(Clients \ Unused)
    PROVE  /\ IsFiniteSet(Counted) /\ Cardinality(Counted) \in Nat
           /\ \A c : c \notin Counted => Cardinality(Counted \cup {c}) = Cardinality(Counted) + 1
           /\ \A c \in Counted : Cardinality(Counted \ {c}) = Cardinality(Counted) - 1
<1>1. Counted \subseteq Clients \ Unused
  BY DEF Counted, Unused
<1>2. IsFiniteSet(Counted)
  BY <1>1, FS_Subset
<1>3. PICK S : S = Counted
  OBVIOUS
<1>4. IsFiniteSet(S)
  BY <1>2, <1>3
<1>5. Cardinality(S) \in Nat
  BY <1>4, FS_CardinalityType
<1>6. \A c : c \notin S => Cardinality(S \cup {c}) = Cardinality(S) + 1
  BY <1>4, FS_AddElement
<1>7. \A c \in S : Cardinality(S \ {c}) = Cardinality(S) - 1
  BY <1>4, FS_RemoveElement, Zenon
<1>8. QED
  BY <1>2, <1>3, <1>5, <1>6, <1>7

\* What an action does to the count, when no callback overtook the constructor.
CountNext ==
    /\ curCap' = Cardinality(Counted')
    /\ Building' => notified' = {} /\ mtx' \notin Clients
    /\ build'.at = "store" => build'.reg = curCap'
    /\ \A c \in Clients : mtx' = c => reg'[c] = curCap'
    /\ curCap' <= MaxCap /\ (Dialling' => curCap' < MaxCap)

\* Each counted client is counted up once and down once, by a load and a store
\* that nothing comes between.
LEMMA CountStep ==
    /\ TypeOK /\ Ctor /\ Fresh /\ Exclusive /\ Once /\ IsFiniteSet(Clients \ Unused) /\ Count
    /\ [Next]_vars
    => Count'
<1> SUFFICES ASSUME TypeOK, Ctor, Fresh, Exclusive, Once, IsFiniteSet(Clients \ Unused), Count,
                    [Next]_vars, ~raced'
             PROVE  CountNext
  BY DEF Count, CountNext
<1> USE PoolAssumption
<1>a. PendingIs /\ PendingIs'
  BY PendingLaw, PendingNext, TypeStep, HandsStep
<1>b. ~raced
  <2>1. ASSUME NEW c \in Clients, closeCB(c) PROVE ~raced
    BY <2>1, Zenon DEF closeCB
  <2>2. ASSUME NEW c \in Clients, Break(c) \/ closeCBStore(c) PROVE ~raced
    BY <2>2 DEF Break, closeCBStore
  <2>3. ASSUME NEW u \in Users, GetIdle(u) \/ GetDial(u) \/ GetAdd(u) PROVE ~raced
    BY <2>3 DEF GetIdle, GetDial, GetAdd
  <2>4. ASSUME NEW u \in Users, ReleaseClient(u) \/ Close(u) \/ CloseIdle(u) PROVE ~raced
    BY <2>4 DEF ReleaseClient, Close, CloseIdle
  <2>5. CASE BuildLoop \/ BuildSetCB \/ BuildPush \/ BuildStore
    BY <2>5, Zenon DEF BuildLoop, BuildSetCB, BuildPush, BuildStore
  <2>6. QED
    BY Split, <2>1, <2>2, <2>3, <2>4, <2>5 DEF Steps, vars
<1>c. /\ curCap = Cardinality(Counted) /\ (Building => notified = {} /\ mtx \notin Clients)
      /\ (build.at = "store" => build.reg = curCap) /\ (\A c \in Clients : mtx = c => reg[c] = curCap)
      /\ curCap <= MaxCap /\ (Dialling => curCap < MaxCap)
  BY <1>b DEF Count
<1>d. /\ Counted = (Clients \ Unused) \ (notified \cup Pending)
      /\ Counted' = (Clients \ Unused') \ (notified' \cup Pending')
  BY DEF Counted, Unused
<1>e. ASSUME Unused' = Unused, notified' = notified, Pending' = Pending PROVE Counted' = Counted
  BY <1>d, <1>e
<1>f. ASSUME NEW c \in Clients, Dial(c), notified' = notified, Pending = {}, Pending' = {c}
      PROVE  Counted' = Counted
  <2>1. c \in Unused /\ Unused' = Unused \ {c}
    BY <1>f DEF Dial, Unused, TypeOK
  <2>2. QED
    BY <1>d, <1>f, <2>1
<1>g. ASSUME Pending = {}, Pending' = {}, UNCHANGED <<build, curCap, notified, reg>>, Unused' = Unused,
             ~Dialling', mtx' \in Clients => mtx' = mtx
      PROVE  CountNext
  BY <1>c, <1>e, <1>g DEF CountNext, Building
<1>1. CASE BuildLoop
  <2>1. UNCHANGED <<curCap, notified, mtx, reg, pc>> /\ build.at = "loop" /\ Pending = {}
    BY <1>1, <1>a, Zenon DEF BuildLoop, PendingIs
  <2>2. \A u \in Users : pc'[u] = "idle"
    BY <2>1 DEF Ctor
  <2>3. CASE UNCHANGED state /\ \E at \in {"ready", "failed"} : build' = [build EXCEPT !.at = at]
    <3>1. build'.at \in {"ready", "failed"} /\ Pending' = {}
      BY <1>a, <2>2, <2>3 DEF TypeOK, PendingIs
    <3>2. Counted' = Counted
      BY <1>e, <2>1, <2>3, <3>1 DEF Unused
    <3>3. ~Building' /\ ~Dialling' /\ build'.at # "store"
      BY <2>2, <3>1 DEF Building, Dialling
    <3>4. QED
      BY <1>c, <2>1, <3>2, <3>3 DEF CountNext
  <2>4. CASE ~CapReached /\ \E c \in Clients : Dial(c) /\ build' = [build EXCEPT !.at = "setcb", !.cli = c]
    <3>1. PICK c \in Clients : Dial(c) /\ build' = [build EXCEPT !.at = "setcb", !.cli = c]
      BY <2>4, Zenon
    <3>2. build'.at = "setcb" /\ build'.cli = c
      BY <3>1 DEF TypeOK
    <3>3. Counted' = Counted
      BY <1>a, <1>f, <2>1, <3>1, <3>2 DEF PendingIs
    <3>4. curCap < MaxCap
      BY <2>4 DEF CapReached, TypeOK
    <3>5. notified = {} /\ mtx \notin Clients
      BY <1>c, <2>1 DEF Building
    <3>6. QED
      BY <1>c, <2>1, <3>2, <3>3, <3>4, <3>5 DEF CountNext
  <2>5. QED
    BY <1>1, <2>3, <2>4, Zenon DEF BuildLoop
<1>2. CASE BuildSetCB \/ BuildPush
  <2>1. /\ UNCHANGED <<curCap, notified, mtx, reg, pc, state>> /\ build.at \in {"setcb", "push"}
        /\ build'.at \in {"push", "store"} /\ build'.cli = build.cli
        /\ (build'.at = "store" => build'.reg = curCap)
    <3>1. CASE BuildSetCB
      BY <3>1 DEF BuildSetCB, TypeOK
    <3>2. CASE BuildPush
      BY <3>2 DEF BuildPush, TypeOK
    <3>3. QED
      BY <1>2, <3>1, <3>2
  <2>2. Counted' = Counted
    BY <1>a, <1>e, <2>1 DEF PendingIs, Unused
  <2>3. curCap < MaxCap /\ notified = {} /\ mtx \notin Clients
    BY <1>c, <2>1 DEF Dialling, Building
  <2>4. QED
    BY <1>c, <2>1, <2>2, <2>3 DEF CountNext
<1>3. CASE BuildStore
  <2>1. /\ UNCHANGED <<notified, mtx, reg, pc, state>> /\ build.at = "store" /\ build'.at = "loop"
        /\ curCap' = build.reg + 1
    BY <1>3 DEF BuildStore
  <2>2. build.cli \in Clients /\ Pending = {build.cli} /\ Pending' = {} /\ build.cli \notin Unused
    BY <1>a, <2>1 DEF PendingIs, TypeOK, Fresh
  <2>3. notified = {} /\ mtx \notin Clients /\ build.reg = curCap /\ curCap < MaxCap
    BY <1>c, <2>1 DEF Building, Dialling
  <2>4. build.cli \notin Counted /\ Counted' = Counted \cup {build.cli}
    BY <1>d, <2>1, <2>2, <2>3, Zenon DEF Unused
  <2>5. curCap' = Cardinality(Counted')
    BY <1>c, <2>1, <2>3, <2>4, CountedLaw
  <2>6. ~Dialling'
    BY <2>1 DEF Dialling, Ctor
  <2>7. curCap' <= MaxCap
    BY <2>1, <2>3 DEF TypeOK
  <2>8. QED
    BY <2>1, <2>3, <2>5, <2>6, <2>7 DEF CountNext
<1>4. ASSUME NEW c \in Clients, Break(c) PROVE CountNext
  <2>1. UNCHANGED <<curCap, notified, mtx, reg, build, pc, cli>>
    BY <1>4 DEF Break, callers
  <2>2. Unused' = Unused
    BY <1>4 DEF Break, AfterError, Unused, TypeOK
  <2>3. Pending' = Pending
    BY <2>1, Zenon DEF Pending, Building
  <2>4. QED
    BY <1>c, <1>e, <2>1, <2>2, <2>3 DEF CountNext, Building, Dialling
<1>5. ASSUME NEW c \in Clients, closeCB(c) PROVE CountNext
  <2>1. UNCHANGED <<curCap, notified, build, pc, cli, state>> /\ mtx' = c /\ mtx = None
    BY <1>5 DEF closeCB, callers
  <2>2. ~Building /\ ~Building'
    BY <1>5, <2>1, Zenon DEF closeCB, Building
  <2>3. reg'[c] = curCap
    BY <1>5 DEF closeCB, TypeOK
  <2>4. Counted' = Counted
    BY <1>e, <2>1 DEF Pending, Building, Unused
  <2>5. QED
    BY <1>c, <2>1, <2>2, <2>3, <2>4 DEF CountNext, Building, Dialling
<1>6. ASSUME NEW c \in Clients, closeCBStore(c) PROVE CountNext
  <2>1. /\ UNCHANGED <<build, pc, cli, reg>> /\ mtx = c /\ mtx' = None /\ curCap' = reg[c] - 1
        /\ notified' = notified \cup {c} /\ state[c] = "closing"
    BY <1>6 DEF closeCBStore, callers, TypeOK
  <2>2. ~Building /\ \A u \in Users : pc[u] # "setcb"
    BY <1>c, <2>1, NoneDialling
  <2>3. Pending = {} /\ Pending' = {} /\ ~Dialling'
    BY <2>1, <2>2 DEF Pending, Building, Dialling
  <2>4. Unused' = Unused
    BY <1>6, <2>1 DEF closeCBStore, Unused, TypeOK
  <2>5. c \in Counted
    BY <1>d, <2>1, <2>3 DEF Once, Unused
  <2>6. Counted' = Counted \ {c}
    BY <1>d, <2>1, <2>3, <2>4
  <2>7. reg[c] = curCap
    BY <1>c, <2>1
  <2>8. curCap' = Cardinality(Counted') /\ curCap' <= MaxCap
    BY <1>c, <2>1, <2>5, <2>6, <2>7, CountedLaw DEF TypeOK
  <2>9. QED
    BY <2>1, <2>2, <2>3, <2>8 DEF CountNext, Building, Dialling
<1>7. ASSUME NEW u \in Users, GetIdle(u) \/ ReleaseClient(u) \/ Close(u) PROVE CountNext
  <2>1. /\ UNCHANGED <<build, curCap, notified, reg, state>> /\ mtx = None /\ mtx' \in {None, u}
        /\ (pc' = pc \/ pc' = [pc EXCEPT ![u] = "close"]) /\ pc[u] = "idle" /\ (cli[u] # None \/ build.at = "ready")
    BY <1>7 DEF GetIdle, ReleaseClient, Close
  <2>2. build.at = "ready" /\ \A v \in Users : pc[v] # "setcb" /\ pc'[v] # "setcb"
    BY <2>1, NoneDialling DEF Ctor, TypeOK
  <2>3. Pending = {} /\ Pending' = {} /\ ~Dialling'
    BY <1>a, <2>1, <2>2 DEF PendingIs, Dialling
  <2>4. QED
    BY <1>g, <2>1, <2>3, Zenon DEF Unused
<1>8. ASSUME NEW u \in Users, GetDial(u) PROVE CountNext
  <2>1. PICK c \in Clients : Dial(c) /\ cli' = [cli EXCEPT ![u] = c]
    BY <1>8, Zenon DEF GetDial
  <2>2. /\ UNCHANGED <<build, curCap, notified, reg>> /\ build.at = "ready" /\ mtx = None /\ mtx' = u
        /\ pc' = [pc EXCEPT ![u] = "setcb"] /\ curCap < MaxCap
    BY <1>8 DEF GetDial, CapReached, TypeOK
  <2>3. Pending = {}
    BY <1>a, <2>2, NoneDialling DEF PendingIs
  <2>4. Pending' = {c}
    BY <1>a, <2>1, <2>2 DEF PendingIs, TypeOK
  <2>5. Counted' = Counted
    BY <1>f, <2>1, <2>2, <2>3, <2>4
  <2>6. QED
    BY <1>c, <2>2, <2>5 DEF CountNext, Building
<1>9. ASSUME NEW u \in Users, GetAdd(u) PROVE CountNext
  <2>1. /\ UNCHANGED <<build, notified, reg, state>> /\ curCap' = curCap + 1 /\ mtx' = None
        /\ pc[u] = "setcb" /\ pc' = [pc EXCEPT ![u] = "idle"] /\ cli' = cli
    BY <1>9 DEF GetAdd
  <2>2. build.at = "ready" /\ Pending = {cli[u]} /\ cli[u] \in Clients /\ curCap < MaxCap
    BY <1>a, <1>c, <2>1 DEF PendingIs, Dialling, TypeOK
  <2>3. \A v \in Users : pc'[v] # "setcb"
    BY <2>1 DEF TypeOK
  <2>4. Pending' = {} /\ ~Dialling'
    BY <1>a, <2>1, <2>2, <2>3, Zenon DEF PendingIs, Dialling
  <2>5. cli[u] \notin Unused /\ cli[u] \notin notified
    BY <2>1 DEF Fresh, Once
  <2>6. cli[u] \notin Counted /\ Counted' = Counted \cup {cli[u]}
    BY <1>d, <2>1, <2>2, <2>4, <2>5, Zenon DEF Unused
  <2>7. curCap' = Cardinality(Counted') /\ curCap' <= MaxCap
    BY <1>c, <2>1, <2>2, <2>6, CountedLaw DEF TypeOK
  <2>8. QED
    BY <2>1, <2>2, <2>4, <2>7 DEF CountNext, Building
<1>10. ASSUME NEW u \in Users, CloseIdle(u) PROVE CountNext
  <2>1. UNCHANGED <<build, curCap, notified, reg>> /\ mtx' = None /\ pc[u] = "close" /\ mtx = u
    BY <1>10 DEF CloseIdle, TypeOK
  <2>2. build.at = "ready" /\ \A v \in Users : pc[v] # "setcb" /\ pc'[v] # "setcb"
    BY <1>10, <2>1 DEF CloseIdle, Ctor, TypeOK
  <2>3. Pending = {} /\ Pending' = {} /\ ~Dialling'
    BY <1>a, <2>1, <2>2, Zenon DEF PendingIs, Dialling
  <2>4. Unused' = Unused
    BY <1>10 DEF CloseIdle, AfterError, Unused, TypeOK
  <2>5. QED
    BY <1>g, <2>1, <2>3, <2>4
<1>11. CASE UNCHANGED vars
  BY <1>11, <1>c DEF vars, CountNext, Counted, Pending, Building, Dialling
<1>12. QED
  BY Split, <1>1, <1>2, <1>3, <1>4, <1>5, <1>6, <1>7, <1>8, <1>9, <1>10, <1>11 DEF Steps

-----------------------------------------------------------------------------
(* Theorems *)

LEMMA Start == NewPool => IInv
<1> SUFFICES ASSUME NewPool PROVE IInv
  OBVIOUS
<1> USE PoolAssumption DEF NewPool
<1>1. TypeOK
  <2>1. raced \in BOOLEAN
    BY Zenon
  <2>2. idleConnS \in Seq(Clients) /\ curCap \in Int /\ reg \in [Clients -> Int]
    OBVIOUS
  <2>3. build \in [at : {"loop", "setcb", "push", "store", "ready", "failed"},
                   cli : Clients \cup {None}, reg : Int] /\ build.at = "loop"
    OBVIOUS
  <2>4. \A u \in Users : pc[u] = "idle" /\ mtx # u
    OBVIOUS
  <2>5. QED
    BY <2>1, <2>2, <2>3, <2>4 DEF TypeOK
<1>2. Range(idleConnS) = {} /\ Unused = Clients
  BY DEF Range, Unused
<1>3. Ctor /\ Fresh /\ Exclusive /\ Once /\ Gone /\ BusyIsHeld
  BY <1>2 DEF Ctor, Fresh, Exclusive, Once, Gone, BusyIsHeld
<1>4. Clients \ Unused = {} /\ Counted = {}
  BY <1>2 DEF Counted
<1>5. Count
  BY <1>4, FS_EmptySet DEF Count, Dialling
<1>6. QED
  BY <1>1, <1>3, <1>4, <1>5, FS_EmptySet DEF IInv

LEMMA Step == IInv /\ [Next]_vars => IInv'
BY TypeStep, HandsStep, OnceStep, FiniteStep, CountStep, GoneStep, BusyStep DEF IInv

\* The live connections are counted, but for the one being dialled.
LEMMA Within == IInv => LiveWithinCap
<1> SUFFICES ASSUME IInv, ~raced PROVE LiveWithinCap
  BY DEF LiveWithinCap
<1> DEFINE Live == {c \in Clients : state[c] \in {"up", "closing"}}
<1>1. Live \subseteq Counted \cup Pending
  BY DEF IInv, Once, Counted
<1>2. IsFiniteSet(Counted) /\ Cardinality(Counted) \in Nat /\ curCap = Cardinality(Counted)
  BY CountedLaw DEF IInv, Count
<1>3. PendingIs
  BY PendingLaw DEF IInv
<1>4. CASE Pending = {}
  <2>1. Cardinality(Live) <= Cardinality(Counted) /\ Cardinality(Live) \in Nat
    BY <1>1, <1>2, <1>4, FS_Subset, FS_CardinalityType
  <2>2. QED
    BY <1>2, <2>1, PoolAssumption DEF IInv, Count, LiveWithinCap
<1>5. ASSUME NEW p, Pending = {p}, Dialling PROVE LiveWithinCap
  <2>1. PICK S : S = Counted \cup {p}
    BY Zenon
  <2>2. IsFiniteSet(S) /\ Cardinality(S) <= Cardinality(Counted) + 1 /\ Cardinality(S) \in Nat
    BY <1>2, <2>1, FS_AddElement, FS_CardinalityType
  <2>3. Cardinality(Live) <= Cardinality(S) /\ Cardinality(Live) \in Nat
    BY <1>1, <1>5, <2>1, <2>2, FS_Subset, FS_CardinalityType
  <2>4. curCap < MaxCap
    BY <1>5 DEF IInv, Count
  <2>5. QED
    BY <1>2, <2>2, <2>3, <2>4, PoolAssumption DEF LiveWithinCap
<1>6. QED
  BY <1>3, <1>4, <1>5, Zenon DEF PendingIs, Dialling, IInv, TypeOK

LEMMA Safe == IInv => PoolSafe
<1> SUFFICES ASSUME IInv PROVE PoolSafe
  OBVIOUS
<1>1. Accounting
  BY DEF IInv, Count, Accounting
<1>2. StaleWasHeld
  BY DEF IInv, Gone, StaleWasHeld, TypeOK
<1>3. QED
  BY <1>1, <1>2, Within DEF IInv, PoolSafe

\* For any number of users and connections: GetClient never gives a client
\* to two users, curCap counts the clients and stays within maxCap unless a
\* callback overtook NewConnectionPool, Close waits for no client that nobody
\* holds, and closeCB takes a client out for good unless a user held it.
THEOREM PoolIsSafe == Spec => []PoolSafe
<1>1. Spec => []IInv
  BY Start, Step, PTL DEF Spec
<1>2. QED
  BY <1>1, Safe, PTL

=============================================================================

------------------------------- MODULE BitArray -------------------------------
(***************************************************************************)
(* tendermint/tmlibs/common/bit_array.go.  A word of Elems is the set of   *)
(* its bits, of which there are W in place of 64.  The first part is what  *)
(* the operations compute; the second is two goroutines that call them on  *)
(* two arrays, with the mutex of each.                                     *)
(***************************************************************************)
EXTENDS Integers, Sequences, SequencesExt, FiniteSets, FiniteSetsExt

CONSTANTS W,        \* bits of a word
          MaxBits,  \* bound: the size of the arrays
          Procs,    \* goroutines
          MaxCalls  \* bound: calls of each of them

Panic == [bits |-> -1, elems |-> <<>>]  \* no array: the call panics

Word == SUBSET (0 .. W - 1)
NewBitArray(bits) == [bits |-> bits, elems |-> [i \in 1 .. (bits + W - 1) \div W |-> {}]]

getIndex(a, i) == i < a.bits /\ (i % W) \in a.elems[i \div W + 1]
setIndex(a, i, v) ==
    IF i >= a.bits THEN a
    ELSE [a EXCEPT !.elems[i \div W + 1] = IF v THEN @ \cup {i % W} ELSE @ \ {i % W}]

copyBits(a, bits) ==
    [bits |-> bits,
     elems |-> [i \in 1 .. (bits + W - 1) \div W |-> IF i <= Len(a.elems) THEN a.elems[i] ELSE {}]]

\* c has the words of the larger, and indexes the words of o.
Or(a, o) ==
    LET c == copyBits(a, Max({a.bits, o.bits}))
    IN  IF Len(c.elems) > Len(o.elems) THEN Panic
        ELSE [c EXCEPT !.elems = [i \in 1 .. Len(@) |-> @[i] \cup o.elems[i]]]

and(a, o) ==
    LET c == copyBits(a, Min({a.bits, o.bits}))
    IN  [c EXCEPT !.elems = [i \in 1 .. Len(@) |-> @[i] \cap o.elems[i]]]

Not(a) == [a EXCEPT !.elems = [i \in 1 .. Len(@) |-> (0 .. W - 1) \ @[i]]]

\* Mutant: the last word of o is taken to be all there is of it.
Sub_LastWordOnly(a, o) ==
    LET n == Len(o.elems)
        idx == (n - 1) * W .. o.bits
    IN  IF a.bits > o.bits
        THEN [a EXCEPT !.elems = [i \in 1 .. Len(@) |->
                 IF i < n THEN {}
                 ELSE {b \in @[i] : (i - 1) * W + b \in idx => ~getIndex(o, (i - 1) * W + b)}]]
        ELSE and(a, o)

\* The words of a for which o has a whole word are cleared: the code has
\* c.Elems[i] &= ^c.Elems[i].
Sub(a, o) ==
    LET n == Len(o.elems)
        idx == (n - 1) * W .. o.bits - 1
    IN  IF a.bits > o.bits
        THEN [a EXCEPT !.elems = [i \in 1 .. Len(@) |->
                 IF i < n THEN {}
                 ELSE {b \in @[i] : (i - 1) * W + b \in idx => ~getIndex(o, (i - 1) * W + b)}]]
        ELSE and(a, Not(o))

IsEmpty(a) == \A i \in 1 .. Len(a.elems) : a.elems[i] = {}

\* (lastElem+1) & (1<<lastElemBits - 1) == 0
IsFull(a) ==
    LET n == Len(a.elems)
        lastElemBits == ((a.bits + W - 1) % W) + 1
    IN  /\ \A i \in 1 .. n - 1 : a.elems[i] = 0 .. W - 1
        /\ 0 .. lastElemBits - 1 \subseteq a.elems[n]

\* The bits PickRandom may return, over the choices it makes: -1 is none.
PickRandom(a) ==
    LET n == Len(a.elems)
        elemBits == IF a.bits % W = 0 THEN W ELSE a.bits % W
        bits(i) == IF i < n THEN a.elems[i] ELSE a.elems[i] \cap 0 .. elemBits - 1
        Found(start) == SelectInSeq([k \in 1 .. n |-> bits(((start + k - 1) % n) + 1)], LAMBDA s : s # {})
        At(start) == ((start + Found(start) - 1) % n) + 1
    IN  UNION {IF Found(start) = 0 THEN {-1} ELSE {W * (At(start) - 1) + b : b \in bits(At(start))} :
               start \in 0 .. n - 1}

\* Update copies as many words as both have.
Update(a, o) == [a EXCEPT !.elems = [i \in 1 .. Len(@) |-> IF i <= Len(o.elems) THEN o.elems[i] ELSE @[i]]]

\* A string of x and _, here of TRUE and FALSE.  There is no array of size 0
\* to copy from.
MarshalJSON(a) == [i \in 1 .. a.bits |-> getIndex(a, i - 1)]
UnmarshalJSON(s) ==
    IF s = <<>> THEN Panic
    ELSE FoldLeft(LAMBDA a, i : IF s[i] THEN setIndex(a, i - 1, TRUE) ELSE a, NewBitArray(Len(s)),
                  [i \in 1 .. Len(s) |-> i])

-----------------------------------------------------------------------------
(* Goroutines.  Or, And and Update read the other array without its lock.  *)
(* Sub holds the lock of its array while Not or GetIndex takes that of the *)
(* other: one call of Not, or one of GetIndex for each bit of a word.      *)

VARIABLES arr,    \* the two arrays
          mtx,    \* who holds the lock of each, or NoProc
          proc    \* goroutine -> the call it is in
gvars == <<arr, mtx, proc>>

NoProc == "nobody"
Ids == {1, 2}
Idle(n) == [at |-> "idle", a |-> 0, o |-> 0, calls |-> n]

Init == /\ \E m, n \in 1 .. MaxBits : arr = <<NewBitArray(m), NewBitArray(n)>>
        /\ mtx = [i \in Ids |-> NoProc]
        /\ proc = [p \in Procs |-> Idle(0)]

Enter(p, op, i, j) ==
    /\ proc[p].at = "idle" /\ proc[p].calls < MaxCalls /\ mtx[i] = NoProc
    /\ mtx' = [mtx EXCEPT ![i] = p]
    /\ proc' = [proc EXCEPT ![p] = [at |-> op, a |-> i, o |-> j, calls |-> @.calls + 1]]
    /\ UNCHANGED arr

Leave(p) == /\ mtx' = [mtx EXCEPT ![proc[p].a] = NoProc]
            /\ proc' = [proc EXCEPT ![p] = Idle(@.calls)]

SetIndex(p) == /\ proc[p].at = "set"
               /\ \E i \in 0 .. MaxBits, v \in BOOLEAN : arr' = [arr EXCEPT ![proc[p].a] = setIndex(@, i, v)]
               /\ Leave(p)
DoUpdate(p) == /\ proc[p].at = "update"
               /\ arr' = [arr EXCEPT ![proc[p].a] = Update(@, arr[proc[p].o])]
               /\ Leave(p)

\* o.Not() or o.GetIndex(idx) waits for the lock of o.  Two arrays in one
\* call may be one and the same.
SubLocksOther(p) ==
    /\ proc[p].at = "sub" /\ mtx[proc[p].o] = NoProc
    /\ Leave(p) /\ UNCHANGED arr

Next == \E p \in Procs :
           \/ \E i, j \in Ids : \E op \in {"set", "update", "sub"} : Enter(p, op, i, j)
           \/ SetIndex(p) \/ DoUpdate(p) \/ SubLocksOther(p)
Spec == Init /\ [][Next]_gvars

-----------------------------------------------------------------------------
Set(a) == {i \in 0 .. a.bits - 1 : getIndex(a, i)}
Stray(a) == \E b \in Last(a.elems) : W * (Len(a.elems) - 1) + b >= a.bits

\* What the operations return are the sets their names say, of the size they
\* say.  The exceptions are Or of an array with more words than the other,
\* which panics, Sub of one that is longer than another of several words,
\* and Or and IsEmpty of one with bits beyond its size, which Not leaves.
BitsSafe ==
    \A a, o \in {arr[1], arr[2], Not(arr[1])} :
        /\ Len(a.elems) <= Len(o.elems) /\ ~Stray(a) /\ ~Stray(o) => Set(Or(a, o)) = Set(a) \cup Set(o)
        /\ Set(and(a, o)) = Set(a) \cap Set(o)
        /\ Set(Not(a)) = (0 .. a.bits - 1) \ Set(a)
        /\ a.bits <= o.bits => Set(Sub(a, o)) = Set(a) \ Set(o)
        /\ a.bits > o.bits /\ Len(o.elems) = 1 => Set(Sub(a, o)) = Set(a) \ Set(o)
        /\ IsEmpty(a) => Set(a) = {}
        /\ Set(a) = {} /\ ~Stray(a) => IsEmpty(a)
        /\ IsFull(a) <=> Set(a) = 0 .. a.bits - 1
        /\ PickRandom(a) = IF Set(a) = {} THEN {-1} ELSE Set(a)
        /\ Set(UnmarshalJSON(MarshalJSON(a))) = Set(a)

\* "each individual GetIndex() call to o is safe": no call waits for ever.
SubReturns == ~\E p \in Procs : proc[p].at = "sub" /\
                 (mtx[proc[p].o] = p \/
                  \E q \in Procs : mtx[proc[p].o] = q /\ proc[q].at = "sub" /\ mtx[proc[q].o] = p)

\* Sub returns the bits that are in bA and not in o.
SubSubtracts == \A a, o \in {arr[1], arr[2]} : Set(Sub(a, o)) = Set(a) \ Set(o)
\* Or returns a BitArray of the larger size.
OrReturns == Or(arr[1], arr[2]) # Panic
=============================================================================

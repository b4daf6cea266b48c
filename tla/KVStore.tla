------------------------------ MODULE KVStore -------------------------------
(***************************************************************************)
(* What the interface DB of tendermint/tmlibs/db/types.go promises: a map  *)
(* from keys to values, writes that are atomic, alone or in a batch, and   *)
(* iterators that visit the keys of their domain in order.                 *)
(*                                                                         *)
(* Keys and values are sequences of bytes; Nil is the nil slice, which as  *)
(* a bound of a domain stands for no bound.                                *)
(***************************************************************************)
EXTENDS Integers, Sequences, FiniteSets

CONSTANTS Keys, Values, Nil,
          MaxBatch      \* bound: operations of a batch

VARIABLES kv,           \* the map: a function on the keys that exist
          itr           \* an iterator: its Domain and the keys still to visit, or Nil

\* bytes.Compare(a, b) < 0
Before(a, b) ==
    \E n \in 0 .. Len(a) : /\ n < Len(b)
                           /\ \A i \in 1 .. n : a[i] = b[i]
                           /\ n = Len(a) \/ (n < Len(a) /\ a[n + 1] < b[n + 1])
NotAfter(a, b) == a = b \/ Before(a, b)

\* From start, inclusive, to end, exclusive, in the order of the iteration.
InDomain(k, start, end, reverse) ==
    IF reverse THEN (start # Nil => NotAfter(k, start)) /\ (end # Nil => Before(end, k))
    ELSE (start # Nil => NotAfter(start, k)) /\ (end # Nil => Before(k, end))

Sorted(ks, reverse) ==
    [i \in 1 .. Cardinality(ks) |->
        CHOOSE k \in ks : Cardinality({j \in ks : IF reverse THEN Before(k, j) ELSE Before(j, k)}) = i - 1]

At(m, k) == IF k \in DOMAIN m THEN m[k] ELSE Nil

Init == kv = << >> /\ itr = Nil

\* CONTRACT: No writes may happen within a domain while an iterator exists
\* over it.
\* A write sets or deletes a key, a batch several, all of them at once.
Write == /\ itr = Nil /\ UNCHANGED itr
         /\ LET old == kv
                new == kv'
            IN  /\ Cardinality({k \in Keys : At(old, k) # At(new, k)}) <= MaxBatch
                /\ \A k \in DOMAIN new : k \in Keys /\ new[k] \in Values
Iterate == /\ itr = Nil /\ UNCHANGED kv
           /\ LET new == itr'
                  domain == {k \in DOMAIN kv : InDomain(k, new.start, new.end, new.reverse)}
              IN  /\ new # Nil /\ {new.start, new.end} \subseteq Keys \cup {Nil}
                  /\ new.rest = Sorted(domain, new.reverse)
Advance == /\ itr # Nil /\ itr.rest # <<>>
           /\ itr' = [itr EXCEPT !.rest = Tail(@)]
           /\ UNCHANGED kv
Close == itr # Nil /\ itr' = Nil /\ UNCHANGED kv

Next == Write \/ Iterate \/ Advance \/ Close
Spec == Init /\ [][Next]_<<kv, itr>>
=============================================================================

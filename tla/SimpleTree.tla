------------------------------ MODULE SimpleTree ------------------------------
(***************************************************************************)
(* tendermint/tmlibs/merkle: the tree over a list of hashes, the proofs of *)
(* its leaves, and the map whose pairs are its leaves.  A hash function is *)
(* taken to be injective, so a hash is the term that was hashed.  The hash *)
(* of a key or of a value is the number itself.                            *)
(***************************************************************************)
EXTENDS Integers, Sequences, SequencesExt, FiniteSets

CONSTANTS Keys, HashedValues,    \* numbers
          MaxPairs               \* bound: pairs of a map

VARIABLES kvs, sorted            \* the SimpleMap
mvars == <<kvs, sorted>>

Nil == <<>>
LeafHash(kv) == <<"leaf", kv.key, kv.value>>
SimpleHashFromTwoHashes(left, right) == <<"inner", left, right>>

-----------------------------------------------------------------------------
RECURSIVE SimpleHashFromHashes(_)
SimpleHashFromHashes(hs) ==
    LET half == (Len(hs) + 1) \div 2
    IN  CASE Len(hs) = 0 -> Nil
          [] Len(hs) = 1 -> hs[1]
          [] OTHER -> SimpleHashFromTwoHashes(SimpleHashFromHashes(SubSeq(hs, 1, half)),
                                              SimpleHashFromHashes(SubSeq(hs, half + 1, Len(hs))))

RECURSIVE trailsFromHashers(_)

\* Mutant: a leaf of the right half gets its own half as an aunt.
trailsFromHashers_OwnHalf(items) ==
    LET half == (Len(items) + 1) \div 2
        lefts == trailsFromHashers(SubSeq(items, 1, half))
        rights == trailsFromHashers(SubSeq(items, half + 1, Len(items)))
    IN  CASE Len(items) = 0 -> [root |-> Nil, aunts |-> <<>>]
          [] Len(items) = 1 -> [root |-> items[1], aunts |-> << <<>> >>]
          [] OTHER -> [root |-> SimpleHashFromTwoHashes(lefts.root, rights.root),
                       aunts |-> [i \in 1 .. Len(items) |->
                           IF i <= half THEN Append(lefts.aunts[i], rights.root)
                           ELSE Append(rights.aunts[i - half], rights.root)]]

\* The root, and the aunts of every leaf as FlattenAunts collects them: each
\* node has its sibling, from the leaf upwards.
trailsFromHashers(items) ==
    LET half == (Len(items) + 1) \div 2
        lefts == trailsFromHashers(SubSeq(items, 1, half))
        rights == trailsFromHashers(SubSeq(items, half + 1, Len(items)))
    IN  CASE Len(items) = 0 -> [root |-> Nil, aunts |-> <<>>]
          [] Len(items) = 1 -> [root |-> items[1], aunts |-> << <<>> >>]
          [] OTHER -> [root |-> SimpleHashFromTwoHashes(lefts.root, rights.root),
                       aunts |-> [i \in 1 .. Len(items) |->
                           IF i <= half THEN Append(lefts.aunts[i], rights.root)
                           ELSE Append(rights.aunts[i - half], lefts.root)]]

RECURSIVE computeHashFromAunts(_, _, _, _)
computeHashFromAunts(index, total, leaf, aunts) ==
    LET numLeft == (total + 1) \div 2
        left == computeHashFromAunts(index, numLeft, leaf, Front(aunts))
        right == computeHashFromAunts(index - numLeft, total - numLeft, leaf, Front(aunts))
    IN  CASE index >= total \/ index < 0 \/ total <= 0 -> Nil
          [] total = 1 /\ index = 0 -> IF aunts # <<>> THEN Nil ELSE leaf
          [] total > 1 /\ index \in 0 .. total - 1 /\ aunts = <<>> -> Nil
          [] total > 1 /\ index \in 0 .. numLeft - 1 /\ aunts # <<>> ->
                IF left = Nil THEN Nil ELSE SimpleHashFromTwoHashes(left, Last(aunts))
          [] OTHER -> IF right = Nil THEN Nil ELSE SimpleHashFromTwoHashes(Last(aunts), right)

Verify(aunts, index, total, leaf, root) ==
    LET h == computeHashFromAunts(index, total, leaf, aunts) IN h # Nil /\ h = root

-----------------------------------------------------------------------------
NewSimpleMap == kvs = <<>> /\ sorted = FALSE

\* KVPairs.Less: by key, then by value.
Less(a, b) == a.key < b.key \/ (a.key = b.key /\ a.value < b.value)
SortedPairs(q) ==
    IF sorted THEN q
    ELSE LET n(i) == Cardinality({j \in 1 .. Len(q) : Less(q[j], q[i]) \/ (q[i] = q[j] /\ j < i)})
         IN  [k \in 1 .. Len(q) |-> q[CHOOSE i \in 1 .. Len(q) : n(i) = k - 1]]

\* Mutant: a map that was hashed once is taken to be sorted for ever.
Set_StaysSorted(k, v) == /\ Len(kvs) < MaxPairs
                         /\ kvs' = Append(kvs, [key |-> k, value |-> v])
                         /\ UNCHANGED sorted

Set(k, v) == /\ Len(kvs) < MaxPairs
             /\ kvs' = Append(kvs, [key |-> k, value |-> v])
             /\ sorted' = FALSE

\* Hash and KVPairs sort the pairs in place.
Sort == kvs' = SortedPairs(kvs) /\ sorted' = TRUE

Leaves == [i \in 1 .. Len(kvs) |-> LeafHash(SortedPairs(kvs)[i])]
Hash == SimpleHashFromHashes(Leaves)

Next == (\E k \in Keys, v \in HashedValues : Set(k, v)) \/ Sort
Spec == NewSimpleMap /\ [][Next]_mvars

-----------------------------------------------------------------------------
\* The pairs a map is hashed from are in order whenever it was hashed
\* before, so its root depends on its pairs only and not on the order they
\* were set in.  The root the proofs are made with is the one Hash gives; the
\* proof of a leaf verifies it, and unless two leaves are equal verifies no
\* other leaf and no other index.
TreeSafe ==
    LET n == Len(kvs)
        pairs == SortedPairs(kvs)
        leaves == Leaves
        t == trailsFromHashers(leaves)
    IN  /\ \A i \in 1 .. n - 1 : ~Less(pairs[i + 1], pairs[i])
        /\ t.root = Hash
        /\ \A i \in 1 .. n : Verify(t.aunts[i], i - 1, n, leaves[i], t.root)
        /\ IsInjective(leaves) =>
              \A i, j, k \in 1 .. n :
                 Verify(t.aunts[i], j - 1, n, leaves[k], t.root) => i = j /\ i = k
=============================================================================

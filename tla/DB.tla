--------------------------------- MODULE DB ---------------------------------
(***************************************************************************)
(* tendermint/tmlibs/db: a MemDB, an FSDB, a GoLevelDB or a CLevelDB, and  *)
(* the prefixDBs and iterators on top of it.  Every namespace of Spaces is *)
(* a prefixDB with that prefix; <<>> is whoever uses the database itself.  *)
(* All operations hold the mutex of the database, or are atomic in         *)
(* leveldb.  One namespace, `watch`, has an iterator while the others      *)
(* write.                                                                  *)
(*                                                                         *)
(* ReverseIterator panics on all but MemDB, NewBatch on FSDB: these calls  *)
(* change nothing and are left out.  A closed iterator of levigo must not  *)
(* be used, which prefixIterator.Next does, so there is no prefixDB on a   *)
(* CLevelDB here.                                                          *)
(***************************************************************************)
EXTENDS Integers, Sequences, SequencesExt, FiniteSets, TLC

CONSTANTS Backends,     \* which of "mem", "fs", "golevel" and "clevel"
          Spaces,       \* prefixes, none a prefix of another, and <<>>
          SubKeys,     \* the keys used in a prefixDB
          RawKeys,      \* the keys used in the database itself
          Values, Nil, MaxByte,
          MaxBatch      \* bound: operations of a batch

VARIABLES backend, watch,
          db,           \* the contents: full key -> value
          batch,        \* the operations of a batch of `watch`, or Nil
          itr           \* the iterator of `watch`, or Nil

vars == <<backend, watch, db, batch, itr>>

-----------------------------------------------------------------------------
(* util.go *)

\* bytes.Compare(a, b) < 0
Less(a, b) ==
    LET m == IF Len(a) < Len(b) THEN Len(a) ELSE Len(b)
        d == SelectInSeq([i \in 1 .. m |-> a[i] # b[i]], LAMBDA x : x)
    IN  IF d = 0 THEN Len(a) < Len(b) ELSE a[d] < b[d]

\* The number that bz is, plus or minus one, or Nil when it does not fit.
cpIncr(bz) ==
    LET i == SelectLastInSeq(bz, LAMBDA b : b < MaxByte)
    IN  IF i = 0 THEN Nil
        ELSE [j \in 1 .. Len(bz) |-> IF j < i THEN bz[j] ELSE IF j = i THEN bz[j] + 1 ELSE 0]
cpDecr(bz) ==
    LET i == SelectLastInSeq(bz, LAMBDA b : b > 0)
    IN  IF i = 0 THEN Nil
        ELSE [j \in 1 .. Len(bz) |-> IF j < i THEN bz[j] ELSE IF j = i THEN bz[j] - 1 ELSE MaxByte]

IsKeyInDomain(key, start, end, isReverse) ==
    IF isReverse
    THEN ~(start # Nil /\ Less(start, key)) /\ ~(end # Nil /\ ~Less(end, key))
    ELSE ~(start # Nil /\ Less(key, start)) /\ ~(end # Nil /\ ~Less(key, end))

-----------------------------------------------------------------------------
(* The iterators of the databases.  `at` is the position in `keys`: the    *)
(* keys of the domain for MemDB and FSDB, all keys from where the iterator *)
(* was sought for leveldb.  What was found invalid stays so, because Next  *)
(* does not move an iterator that is not valid.                            *)

Sort(ks) == [i \in 1 .. Cardinality(ks) |->
                CHOOSE k \in ks : Cardinality({j \in ks : Less(j, k)}) = i - 1]
getSortedKeys(start, end, reverse) ==
    LET keys == Sort({k \in DOMAIN db : IsKeyInDomain(k, start, end, reverse)})
    IN  IF reverse THEN Reverse(keys) ELSE keys

newMemDBIterator(keys, reverse) == [keys |-> keys, at |-> 1, end |-> Nil, reverse |-> reverse]
\* The files of the directory, sorted.
fsIterator(start, end) == newMemDBIterator(getSortedKeys(start, end, FALSE), FALSE)
\* source.Seek(start), or SeekToFirst.
newGoLevelDBIterator(start, end) ==
    [keys |-> getSortedKeys(start, Nil, FALSE), at |-> 1, end |-> end, reverse |-> FALSE]
newCLevelDBIterator(start, end) ==
    [keys |-> getSortedKeys(IF start = Nil THEN <<>> ELSE start, Nil, FALSE), at |-> 1, end |-> end,
     reverse |-> FALSE]
Source(start, end, reverse) ==
    CASE backend = "mem" -> newMemDBIterator(getSortedKeys(start, end, reverse), reverse)
      [] backend = "fs" -> fsIterator(start, end)
      [] backend = "golevel" -> newGoLevelDBIterator(start, end)
      [] backend = "clevel" -> newCLevelDBIterator(start, end)

\* leveldb's iterators are compared with the end of the domain.
BeforeEnd(s) == s.end # Nil => Less(s.keys[s.at], s.end)
SourceValid(s) == s.at <= Len(s.keys) /\ BeforeEnd(s)
SourceKey(s) == s.keys[s.at]
SourceNext(s) == [s EXCEPT !.at = @ + 1]
SourceClose(s) == [s EXCEPT !.keys = <<>>]

-----------------------------------------------------------------------------
(* prefixIterator.  Its methods have value receivers: when Next meets a    *)
(* key of another namespace only closing the source makes it invalid.      *)

HasPrefix(k, p) == IsPrefix(p, k)

newPrefixIterator(p, start, end, s) ==
    [prefix |-> p, start |-> start, end |-> end, source |-> s,
     valid |-> SourceValid(s) /\ HasPrefix(SourceKey(s), p)]
Valid(i) == i.valid /\ SourceValid(i.source)
Key(i) == SubSeq(SourceKey(i.source), Len(i.prefix) + 1, Len(SourceKey(i.source)))

\* Mutant: an iterator that meets a key of another namespace goes on.
Moved_GoesOn(i) == [i EXCEPT !.source = SourceNext(@)]

Moved(i) ==
    LET s == SourceNext(i.source)
    IN  [i EXCEPT !.source = IF SourceValid(s) /\ HasPrefix(SourceKey(s), i.prefix) THEN s
                             ELSE SourceClose(s)]

Iterator(p, start, end) ==
    IF p = <<>> THEN newPrefixIterator(p, start, end, Source(start, end, FALSE))
    ELSE newPrefixIterator(p, start, end, Source(IF start = Nil THEN p ELSE p \o start,
                                     IF end = Nil THEN cpIncr(p) ELSE p \o end, FALSE))

\* The first item is skipped if it is skipKey.
skipOne(s, skipKey) ==
    IF SourceValid(s) /\ SourceKey(s) = skipKey THEN SourceNext(s) ELSE s
ReverseIterator(p, start, end) ==
    LET s == Source(IF start = Nil THEN cpIncr(p) ELSE p \o start,
                    IF end = Nil THEN cpDecr(p) ELSE p \o end, TRUE)
    IN  IF p = <<>> THEN newPrefixIterator(p, start, end, Source(start, end, TRUE))
        ELSE newPrefixIterator(p, start, end, IF start = Nil THEN skipOne(s, cpIncr(p)) ELSE s)

IteratePrefix(p) == newPrefixIterator(<<>>, p, Nil, IF p = <<>> THEN Source(Nil, Nil, FALSE)
                                            ELSE Source(p, cpIncr(p), FALSE))

-----------------------------------------------------------------------------
Init == /\ backend \in Backends
        /\ watch \in IF backend = "clevel" THEN {<<>>} ELSE Spaces
        /\ db = << >> /\ batch = Nil /\ itr = Nil

KeysOf(p) == IF p = <<>> THEN RawKeys ELSE SubKeys
Users == IF backend = "clevel" THEN {<<>>} ELSE Spaces

\* CONTRACT: No writes may happen within a domain while an iterator exists
\* over it.
Allowed(key) == itr # Nil => ~HasPrefix(key, watch)

SetNoLock(m, k, v) == (k :> v) @@ m
\* The file is opened without truncating it.
write(m, k, v) ==
    SetNoLock(m, k, IF k \in DOMAIN m THEN v \o SubSeq(m[k], Len(v) + 1, Len(m[k])) ELSE v)
Written(m, k, v) == IF backend = "fs" THEN write(m, k, v) ELSE SetNoLock(m, k, v)
Removed(m, k) == [j \in DOMAIN m \ {k} |-> m[j]]

Set(p, k, v) == /\ Allowed(p \o k)
                /\ db' = Written(db, p \o k, v)
                /\ UNCHANGED <<backend, watch, batch, itr>>
Delete(p, k) == /\ Allowed(p \o k) /\ p \o k \in DOMAIN db
                /\ db' = Removed(db, p \o k)
                /\ UNCHANGED <<backend, watch, batch, itr>>

\* A batch of `watch`.  It keeps its operations, but here it is written once.
\* Bound: `watch` has no batch and iterator at the same time.
NewBatch == /\ backend # "fs" /\ batch = Nil /\ itr = Nil /\ batch' = <<>>
            /\ UNCHANGED <<backend, watch, db, itr>>
BatchSet(k, v) == /\ batch # Nil /\ Len(batch) < MaxBatch
                  /\ batch' = Append(batch, [op |-> "set", key |-> watch \o k, value |-> v])
                  /\ UNCHANGED <<backend, watch, db, itr>>
BatchDelete(k) == /\ batch # Nil /\ Len(batch) < MaxBatch
                  /\ batch' = Append(batch, [op |-> "delete", key |-> watch \o k, value |-> Nil])
                  /\ UNCHANGED <<backend, watch, db, itr>>
BatchWrite == /\ batch # Nil
              /\ db' = FoldLeft(LAMBDA m, o : IF o.op = "set" THEN Written(m, o.key, o.value)
                                              ELSE Removed(m, o.key), db, batch)
              /\ batch' = Nil
              /\ UNCHANGED <<backend, watch, itr>>

Open(start, end) == /\ itr = Nil /\ batch = Nil /\ itr' = Iterator(watch, start, end)
                    /\ UNCHANGED <<backend, watch, db, batch>>
OpenReverse(start, end) == /\ backend = "mem" /\ itr = Nil /\ batch = Nil
                           /\ itr' = ReverseIterator(watch, start, end)
                           /\ UNCHANGED <<backend, watch, db, batch>>
NextKey == /\ itr # Nil /\ Valid(itr) /\ itr' = Moved(itr)
           /\ UNCHANGED <<backend, watch, db, batch>>
Close == itr # Nil /\ itr' = Nil /\ UNCHANGED <<backend, watch, db, batch>>

Next ==
    \/ \E p \in Users : \E k \in KeysOf(p) : (\E v \in Values : Set(p, k, v)) \/ Delete(p, k)
    \/ \E k \in KeysOf(watch) : (\E v \in Values : BatchSet(k, v)) \/ BatchDelete(k)
    \/ NewBatch \/ BatchWrite
    \/ \E start, end \in KeysOf(watch) \cup {Nil} : Open(start, end) \/ OpenReverse(start, end)
    \/ NextKey \/ Close
Spec == Init /\ [][Next]_vars

-----------------------------------------------------------------------------
\* for ; itr.Valid(); itr.Next() { itr.Key() }: the key at hand, and those
\* that Next comes to before it closes the source.
Visit(i) ==
    LET s == i.source
        Goes(n) == SourceValid([s EXCEPT !.at = n]) /\ HasPrefix(s.keys[n], i.prefix)
        more == {n \in s.at + 1 .. Len(s.keys) : \A m \in s.at + 1 .. n : Goes(m)}
        strip(k) == SubSeq(k, Len(i.prefix) + 1, Len(k))
    IN  IF Valid(i) THEN [n \in 1 .. 1 + Cardinality(more) |-> strip(s.keys[s.at + n - 1])]
        ELSE <<>>

Mine(m) == {k \in DOMAIN m : HasPrefix(k, watch)}
Stripped(k) == SubSeq(k, Len(watch) + 1, Len(k))
Contents == [s \in {Stripped(k) : k \in Mine(db)} |-> db[watch \o s]]

\* Every namespace is a store of its own, whatever the others write and
\* whichever database holds it: it keeps what was last set, batches are
\* atomic, and iterators in both directions visit exactly the keys of their
\* domain, in order.
Abstract(i) == [start |-> i.start, end |-> i.end, reverse |-> i.source.reverse, rest |-> Visit(i)]
Store == INSTANCE KVStore
           WITH Keys <- SubKeys \cup RawKeys \cup {p \o s : p \in Spaces, s \in SubKeys},
                kv <- Contents, itr <- IF itr = Nil THEN Nil ELSE Abstract(itr)
IsStore == Store!Spec

\* "a convenience function for iterating over a key domain restricted by
\* prefix" (prefix_db.go): exactly the keys with the prefix are visited.
PrefixVisited ==
    \A p \in Spaces \ {<<>>} :
        Visit(IteratePrefix(p)) = Sort({k \in DOMAIN db : HasPrefix(k, p)})
=============================================================================

----------------------------- MODULE AminoCodec -----------------------------
(***************************************************************************)
(* The registry of a go-amino Codec (tendermint/go-amino/codec.go): which  *)
(* types it knows, and which type a prefix or a disfix stands for.  Every  *)
(* operation holds the codec's mutex; one that panics releases it and      *)
(* leaves behind what it has changed so far, and the program may recover.  *)
(* A name stands for its hash: names have different disfixes, but may have *)
(* the same prefix.                                                        *)
(***************************************************************************)
EXTENDS Naturals, Sequences, FiniteSets, SequencesExt

CONSTANTS Concretes, Interfaces, Names,
          PrefixOf,    \* name -> its prefix bytes
          Implements,  \* interface -> the concrete types that implement it
          Priority,    \* interface -> the names of its priority list
          Always,      \* the interfaces with AlwaysDisambiguate
          MaxFailures  \* bound: registrations that panic

VARIABLES typeInfos,        \* type -> NoType, Unregistered or its registered name
          interfaceInfos, concreteInfos, \* registered types, in order
          implementers,     \* interface -> infos [c, name], in order
          disfixToTypeInfo, \* name -> type, or NoType
          failures,         \* registrations that have panicked
          clean             \* history: the last registration panicked and changed nothing

vars == <<typeInfos, interfaceInfos, concreteInfos, implementers, disfixToTypeInfo, failures, clean>>
registry == <<typeInfos, interfaceInfos, concreteInfos, implementers, disfixToTypeInfo>>
NoType == "none"
Unregistered == "unregistered"

NewCodec ==
    /\ typeInfos = [t \in Concretes \cup Interfaces |-> NoType]
    /\ interfaceInfos = <<>> /\ concreteInfos = <<>>
    /\ implementers = [i \in Interfaces |-> <<>>]
    /\ disfixToTypeInfo = [n \in Names |-> NoType]
    /\ failures = 0 /\ clean = TRUE

\* iinfo.Implementers[pb]
WithPrefix(infos, p) == SelectSeq(infos, LAMBDA x : PrefixOf[x.name] = p)

\* Every implementer that shares its prefix with another is in the list.
checkConflictsInPrio(i, infos) ==
    \A x \in ToSet(infos) :
        Len(WithPrefix(infos, PrefixOf[x.name])) > 1 => x.name \in Priority[i]

collectImplementers(i) == SelectSeq(concreteInfos, LAMBDA x : x.c \in Implements[i])

Panics == failures < MaxFailures /\ failures' = failures + 1 /\ clean' = (registry' = registry)
Succeeds == UNCHANGED <<failures, clean>>

-----------------------------------------------------------------------------
RegisterInterface(i) ==
    LET infos == collectImplementers(i)
    IN  IF checkConflictsInPrio(i, infos) /\ typeInfos[i] = NoType
        THEN /\ typeInfos' = [typeInfos EXCEPT ![i] = Unregistered]
             /\ interfaceInfos' = Append(interfaceInfos, i)
             /\ implementers' = [implementers EXCEPT ![i] = infos]
             /\ UNCHANGED <<concreteInfos, disfixToTypeInfo>> /\ Succeeds
        ELSE UNCHANGED registry /\ Panics

\* setTypeInfo_nolock for a registered concrete type: the type is known
\* before its disfix is found to be taken.
setTypeInfo(x) ==
    IF typeInfos[x.c] # NoType
    THEN UNCHANGED <<typeInfos, concreteInfos, disfixToTypeInfo>> /\ Panics
    ELSE /\ typeInfos' = [typeInfos EXCEPT ![x.c] = x.name]
         /\ concreteInfos' = Append(concreteInfos, x)
         /\ IF disfixToTypeInfo[x.name] # NoType
            THEN UNCHANGED disfixToTypeInfo /\ Panics
            ELSE disfixToTypeInfo' = [disfixToTypeInfo EXCEPT ![x.name] = x.c] /\ Succeeds

\* Mutant: an interface that is found to conflict keeps the new implementer.
RegisterConcrete_NoRestore(c, n) ==
    LET x == [c |-> c, name |-> n]
        with(i) == Append(implementers[i], x)
        mine == {k \in DOMAIN interfaceInfos : c \in Implements[interfaceInfos[k]]}
        bad == {k \in mine : ~checkConflictsInPrio(interfaceInfos[k], with(interfaceInfos[k]))}
        added == {interfaceInfos[k] : k \in {j \in mine : \A b \in bad : j <= b}}
    IN  /\ implementers' = [i \in Interfaces |-> IF i \in added THEN with(i) ELSE implementers[i]]
        /\ UNCHANGED interfaceInfos
        /\ IF bad # {} THEN UNCHANGED <<typeInfos, concreteInfos, disfixToTypeInfo>> /\ Panics
           ELSE setTypeInfo(x)

\* RegisterConcrete adds the type to the interfaces it implements, in the
\* order of their registration, up to the first that conflicts; only that
\* one returns to its previous state.
RegisterConcrete(c, n) ==
    LET x == [c |-> c, name |-> n]
        with(i) == Append(implementers[i], x)
        mine == {k \in DOMAIN interfaceInfos : c \in Implements[interfaceInfos[k]]}
        bad == {k \in mine : ~checkConflictsInPrio(interfaceInfos[k], with(interfaceInfos[k]))}
        added == {interfaceInfos[k] : k \in {j \in mine : \A b \in bad : j < b}}
    IN  /\ implementers' = [i \in Interfaces |-> IF i \in added THEN with(i) ELSE implementers[i]]
        /\ UNCHANGED interfaceInfos
        /\ IF bad # {} THEN UNCHANGED <<typeInfos, concreteInfos, disfixToTypeInfo>> /\ Panics
           ELSE setTypeInfo(x)

\* getTypeInfo_wlock: the first use of a concrete type makes it known.
getTypeInfo(c) ==
    /\ typeInfos[c] = NoType
    /\ typeInfos' = [typeInfos EXCEPT ![c] = Unregistered]
    /\ UNCHANGED <<interfaceInfos, concreteInfos, implementers, disfixToTypeInfo>> /\ Succeeds

Next ==
    \/ \E i \in Interfaces : RegisterInterface(i)
    \/ \E c \in Concretes, n \in Names : RegisterConcrete(c, n)
    \/ \E c \in Concretes : getTypeInfo(c)
Spec == NewCodec /\ [][Next]_vars

-----------------------------------------------------------------------------
(* What encodeReflectBinaryInterface writes for a value of type c in an    *)
(* interface i, and the type that decodeReflectBinaryInterface then makes. *)

needDisamb(i, c) ==
    i \in Always \/ Len(WithPrefix(implementers[i], PrefixOf[typeInfos[c]])) > 1
getTypeInfoFromPrefix(i, p) ==
    LET infos == WithPrefix(implementers[i], p) IN IF Len(infos) = 1 THEN infos[1].c ELSE NoType
getTypeInfoFromDisfix(n) == disfixToTypeInfo[n]
Decoded(i, c) ==
    IF needDisamb(i, c) THEN getTypeInfoFromDisfix(typeInfos[c])
    ELSE getTypeInfoFromPrefix(i, PrefixOf[typeInfos[c]])

Encodable(c) == typeInfos[c] \notin {NoType, Unregistered}
Whole(c) == Encodable(c) /\ disfixToTypeInfo[typeInfos[c]] = c

\* Whatever registrations have panicked and been recovered from before,
\* between, or after: a value of a type whose registration returned decodes
\* as that type in every registered interface it implements, whichever of
\* the two was registered first, and no two implementers with one prefix are
\* told apart by the prefix alone.
RegisteredRoundTrips ==
    \A i \in ToSet(interfaceInfos) :
        /\ checkConflictsInPrio(i, implementers[i])
        /\ \A c \in Implements[i] : Whole(c) => Decoded(i, c) = c

\* A type that decodes at all decodes as itself, unless its registration
\* panicked on a disfix that was taken after its info had been stored.
NeverAnotherType ==
    \A i \in ToSet(interfaceInfos) : \A c \in Implements[i] :
        Encodable(c) /\ Decoded(i, c) \notin {c, NoType} =>
            disfixToTypeInfo[typeInfos[c]] # c /\ failures > 0

\* The order of registrations does not matter: without one that panicked,
\* an interface lists exactly the registered types that implement it.
OrderDoesNotMatter ==
    failures = 0 => \A i \in ToSet(interfaceInfos) :
                        ToSet(implementers[i]) = {x \in ToSet(concreteInfos) : x.c \in Implements[i]}

\* The registry of a codec: RegisteredRoundTrips, NeverAnotherType and
\* OrderDoesNotMatter (RegisterInterface, RegisterConcrete).
CodecSafe == RegisteredRoundTrips /\ NeverAnotherType /\ OrderDoesNotMatter

\* "Return to previous state." (codec.go:515): a registration that panics
\* leaves the registry as it was.
ReturnsToPreviousState == clean
=============================================================================

------------------------------- MODULE MCCodecs -------------------------------
(***************************************************************************)
(* The parsers and the codecs, whose input grows step by step and is       *)
(* written and read back in every state, and the databases.  A behaviour   *)
(* is about one of them.                                                   *)
(***************************************************************************)
EXTENDS Query, FiniteSets

CONSTANTS Nil

VARIABLE part  \* the component this behaviour is about
VARIABLES backend, watch, db, batch, itr

\* Values at the ends of the types and where an encoding gets longer.
IntBytes == 2
Milli == 10
Second == 100
Least == -(2 ^ (8 * IntBytes - 1))
Most == 2 ^ (8 * IntBytes) - 1
WireLeaves ==
    [int |-> {Least, -256, -1, 0, 255, 256}, uint |-> {256, Most}, int8 |-> {-1},
     int32 |-> {-1, 65536}, int64 |-> {Least, 255}, uint8 |-> {0, 7}, uint64 |-> {Most},
     bool |-> BOOLEAN, time |-> {0, Milli + 1}, float |-> {5}, string |-> {<<>>, <<65, 66>>}]
AminoLeaves ==
    [int |-> {Least, -64, 0, 64}, uint |-> {128, Most}, int8 |-> {-1},
     int32 |-> {-1, 65536}, int64 |-> {Least, 255}, uint8 |-> {0, 200}, uint64 |-> {Most},
     bool |-> BOOLEAN, time |-> {0, Second + 1}, float |-> {5}, string |-> {<<>>, <<65, 66>>}]
RLPLeaves ==
    [int |-> {Least, -1, 0}, uint |-> {127, 128, 256, Most}, int8 |-> {-1, 100}, int16 |-> {-2, 200},
     uint8 |-> {0, 200}, bool |-> BOOLEAN, float |-> {5}, string |-> {<<>>, <<5>>, <<65, 66, 67>>, <<200>>},
     bigint |-> {-1, 0, 300}, number |-> {<<>>, <<0>>, <<-300>>, <<255>>}, raw |-> {<<5>>, <<193, 5>>}]
Flags == {"", "varint", "unsafe", "skip", "omit"}

Expr == INSTANCE Expr WITH IntBytes <- IntBytes, Milli <- Milli, MaxItems <- 3
Wire == INSTANCE WireJSON WITH IntBytes <- IntBytes, MaxNodes <- 3,
                               Milli <- Milli, Leaves <- WireLeaves,
                               Collections <- {"slice", "array"},
                               FieldFlags <- Flags, StructFlags <- {"unwrap"},
                               InterfaceFlags <- {"registered", "unregistered", "other"}
Amino == INSTANCE AminoJSON WITH IntBytes <- IntBytes, MaxNodes <- 3,
                                 Milli <- Milli, Second <- Second,
                                 Leaves <- AminoLeaves,
                                 Collections <- {"slice", "array", "map"},
                                 FieldFlags <- Flags,
                                 StructFlags <- {"registered"},
                                 InterfaceFlags <- {"registered", "unregistered", "disambiguate"}
RLP == INSTANCE RLP WITH IntBytes <- IntBytes, Short <- 4,
                         InputBytes <- {0, 1, 127, 128, 129, 130, 131, 132, 192, 193, 194, 196},
                         MaxNodes <- 3, Leaves <- RLPLeaves,
                         Collections <- {"slice", "array", "map"},
                         FieldFlags <- {"", "skip", "nil", "tail"},
                         StructFlags <- {}, InterfaceFlags <- {""}
Store == INSTANCE DB WITH Backends <- {"mem", "fs", "golevel", "clevel"},
                          Spaces <- {<<>>, <<1, 0>>}, SubKeys <- {<<>>, <<2>>},
                          RawKeys <- {<<1>>, <<1, 1>>, <<2>>},
                          Values <- {<<1>>}, MaxByte <- 2, MaxBatch <- 2

\* A component that a behaviour is not about stays as it is.
StoreVars == <<backend, watch, db, batch, itr>>
StoreOff == backend = "mem" /\ watch = <<>> /\ db = << >> /\ batch = Nil /\
  itr = Nil

MCvars == <<part, in, StoreVars>>

MCInit ==
  \/ part = "Query" /\ Init /\ StoreOff
  \/ part = "Expr" /\ Expr!Init /\ StoreOff
  \/ part = "Wire" /\ Wire!Init /\ StoreOff
  \/ part = "Amino" /\ Amino!Init /\ StoreOff
  \/ part = "RLP" /\ RLP!Init /\ StoreOff
  \/ part = "Store" /\ Store!Init /\ in = <<>>

\* What was written is read, which ends the behaviour.
ReadBack == in # <<>> /\ part' = "Done" /\ in' = <<>> /\ UNCHANGED StoreVars
Reads(p) == part = p /\ part' = "Done"

MCNext ==
  \/ part = "Query" /\ Next /\ UNCHANGED <<part, StoreVars>>
  \/ part = "Expr" /\ Expr!Next /\ UNCHANGED <<part, StoreVars>>
  \/ part = "Wire" /\ Wire!Next /\ UNCHANGED <<part, StoreVars>>
  \/ part = "Amino" /\ Amino!Next /\ UNCHANGED <<part, StoreVars>>
  \/ part = "RLP" /\ RLP!Next /\ UNCHANGED <<part, StoreVars>>
  \/ part = "Store" /\ Store!Next /\ UNCHANGED <<part, in>>
  \/ ReadBack

\* Queries and rlp expressions: what is written parses as it was meant, and
\* a query matches exactly the tags that meet all of its conditions.
ParsersSafe ==
    [][/\ Reads("Query") => ParsesWhatIsWritten /\ MatchesAll
       /\ Reads("Expr") => Expr!CompilesAsMeant]_part

\* go-wire, binary and JSON: values come back, a binary that is cut is
\* noticed, and both codecs refuse the same values.
WireSafe ==
    [][Reads("Wire") => /\ Wire!BinaryRoundTrip /\ Wire!TruncationNoticed
                        /\ Wire!JSONRoundTrip /\ Wire!SameRefusals]_part

\* go-amino, binary and JSON: values come back, only a number that ends the
\* bytes can be cut unnoticed, and both codecs refuse the same values.
AminoSafe ==
    [][Reads("Amino") => /\ Amino!AminoRoundTrip /\ Amino!OnlyVarintsCut
                         /\ Amino!AminoJSONRoundTrip /\ Amino!AminoSameRefusals]_part

\* rlp: values come back, what is written is well formed, and only what would
\* be written is read.
RLPSafe ==
    [][Reads("RLP") => RLP!RLPRoundTrip /\ RLP!RLPWellFormed /\ RLP!RLPCanonical]_part

\* Every namespace of a database, whichever it is, implements KVStore; and
\* IteratePrefix visits exactly the keys with the prefix.
Stores == Store!IsStore /\ []Store!PrefixVisited
===============================================================================

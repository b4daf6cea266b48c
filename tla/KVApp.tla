-------------------------------- MODULE KVApp --------------------------------
(***************************************************************************)
(* The ABCI application of abci/example/kvstore: KVStoreApplication and    *)
(* PersistentKVStoreApplication, which keeps it in a GoLevelDB, driven by  *)
(* a consensus engine (external) that, after a restart of the application, *)
(* asks for its height with Info and replays the blocks it has missed.     *)
(*                                                                         *)
(* A transaction is a "pair" (key=value), something "raw", or a "val", the *)
(* text after "val:" split at "/", with whether the key is hexadecimal and *)
(* the power a number.                                                     *)
(***************************************************************************)
EXTENDS Integers, Sequences, SequencesExt, FiniteSets

CONSTANTS Txs,         \* the transactions there may be in a block
          Genesis,     \* the validators of InitChain
          Keys, PubKeys, MaxPower,
          MaxHeight, MaxTxs, MaxCrashes

Absent == 0
EmptyState == [size |-> 0, height |-> 0, hash |-> 0]

VARIABLES app,      \* the process: its State, ValUpdates, and what it is at
          db,       \* the database: pairs, validators and the saved State
          history,  \* the databases before each write since the last one on disk
          chain,    \* the blocks, for the consensus engine
          crashes,
          answers   \* what the application answered to each block: EndBlock, Commit
kvars == <<app, db, history, chain, crashes, answers>>

\* NewPersistentKVStoreApplication: loadState.
Started(d) == [state |-> d.state, updates |-> <<>>, at |-> "info", i |-> 1]

InitApp ==
    /\ db = [pairs |-> [k \in Keys |-> Absent], vals |-> [p \in PubKeys |-> Absent], state |-> EmptyState]
    /\ app = Started(db)
    /\ history = <<>> /\ chain = <<>> /\ crashes = 0
    /\ answers = [h \in 1 .. MaxHeight |-> {}]

Write(d) == db' = d /\ history' = Append(history, db)

-----------------------------------------------------------------------------
(* The transactions.                                                       *)

\* Mutant: a validator without power is kept.
UpdatedVals_Kept(vals, p, power) == IF power = 0 THEN vals ELSE [vals EXCEPT ![p] = power]

\* updateValidator: db.Delete or db.Set, once the removal of an unknown
\* validator has been refused.
UpdatedVals(vals, p, power) == [vals EXCEPT ![p] = IF power = 0 THEN Absent ELSE power]
updateRefused(p, power) == power = 0 /\ db.vals[p] = Absent

updateValidator(p, power) ==
    IF updateRefused(p, power)
    THEN app' = [app EXCEPT !.i = @ + 1] /\ UNCHANGED <<db, history>>
    ELSE /\ Write([db EXCEPT !.vals = UpdatedVals(@, p, power)])
         /\ app' = [app EXCEPT !.updates = Append(@, [pub |-> p, power |-> power]), !.i = @ + 1]

\* execValidatorTx.
TxRefused(tx) == tx.parts < 3 \/ ~tx.hex \/ ~tx.number

\* DeliverTx of PersistentKVStoreApplication: a "val:" transaction does not
\* count in Size.
DeliverTx ==
    /\ app.at = "deliver" /\ app.i <= Len(chain[app.state.height + 1])
    /\ LET tx == chain[app.state.height + 1][app.i]
       IN  CASE tx.kind # "val" ->
                  /\ Write([db EXCEPT !.pairs[tx.key] = tx.value])
                  /\ app' = [app EXCEPT !.state.size = @ + 1, !.i = @ + 1]
             [] tx.kind = "val" /\ TxRefused(tx) ->
                  app' = [app EXCEPT !.i = @ + 1] /\ UNCHANGED <<db, history>>
             [] OTHER -> updateValidator(tx.pub, tx.power)
    /\ UNCHANGED <<chain, crashes, answers>>

-----------------------------------------------------------------------------
(* The rest of the application, in the order the engine calls it.          *)

Height == app.state.height + 1
Replaying == Height <= Len(chain)

\* Info: at height 0 InitChain follows.
Info ==
    /\ app.at = "info"
    /\ app' = [app EXCEPT !.at = IF app.state.height = 0 THEN "InitChain" ELSE "BeginBlock"]
    /\ UNCHANGED <<db, history, chain, crashes, answers>>

InitChain ==
    /\ app.at = "InitChain"
    /\ IF app.i > Len(Genesis) THEN app' = [app EXCEPT !.at = "BeginBlock"] /\ UNCHANGED <<db, history>>
       ELSE updateValidator(Genesis[app.i].pub, Genesis[app.i].power)
    /\ UNCHANGED <<chain, crashes, answers>>

\* Mutant: the changes of the block before are kept.
BeginBlock_Kept ==
    /\ app.at = "BeginBlock" /\ Height <= MaxHeight
    /\ app' = [app EXCEPT !.at = "deliver", !.i = 1]
    /\ IF Replaying THEN UNCHANGED chain
       ELSE \E block \in SeqOf(Txs, MaxTxs) : chain' = Append(chain, block)
    /\ UNCHANGED <<db, history, crashes, answers>>

BeginBlock ==
    /\ app.at = "BeginBlock" /\ Height <= MaxHeight
    /\ app' = [app EXCEPT !.at = "deliver", !.updates = <<>>, !.i = 1]
    /\ IF Replaying THEN UNCHANGED chain
       ELSE \E block \in SeqOf(Txs, MaxTxs) : chain' = Append(chain, block)
    /\ UNCHANGED <<db, history, crashes, answers>>

EndBlock ==
    /\ app.at = "deliver" /\ app.i > Len(chain[Height])
    /\ app' = [app EXCEPT !.at = "Commit"]
    /\ UNCHANGED <<db, history, chain, crashes, answers>>

\* Mutant: the height is saved before it is raised.
CommittedState_Early(s) == [s EXCEPT !.hash = s.size]

\* Commit: the AppHash is the Size, in a varint.
CommittedState(s) == [s EXCEPT !.hash = s.size, !.height = @ + 1]

\* What Validators and Query read.
Validators == {[pub |-> p, power |-> db.vals[p]] : p \in {q \in PubKeys : db.vals[q] # Absent}}
Query(k) == db.pairs[k]

Commit ==
    /\ app.at = "Commit"
    /\ LET s == CommittedState(app.state)
       IN  /\ Write([db EXCEPT !.state = s])
           /\ app' = [app EXCEPT !.state.hash = s.hash, !.state.height = Height, !.at = "BeginBlock"]
           /\ answers' = [answers EXCEPT ![Height] =
                             @ \cup {[updates |-> app.updates, hash |-> s.hash, validators |-> Validators,
                                     pairs |-> [k \in Keys |-> Query(k)]]}]
    /\ UNCHANGED <<chain, crashes>>

-----------------------------------------------------------------------------
(* GoLevelDB's Set and Delete do not wait for the disk (external): what the *)
(* process wrote survives its crash, but a crash of the machine may lose    *)
(* the last writes.                                                         *)

Crash ==
    /\ crashes < MaxCrashes /\ app.at # "info"
    /\ \E d \in ToSet(history) \cup {db} : db' = d /\ app' = Started(d)
    /\ history' = <<>> /\ crashes' = crashes + 1
    /\ UNCHANGED <<chain, answers>>

NextApp == Info \/ InitChain \/ BeginBlock \/ DeliverTx \/ EndBlock \/ Commit \/ Crash

\* The engine goes on to the last block.
SpecApp == InitApp /\ [][NextApp]_kvars /\ WF_kvars(Info \/ InitChain \/ BeginBlock \/ DeliverTx
                                                    \/ EndBlock \/ Commit)

-----------------------------------------------------------------------------
(* What the chain means, without crashes.                                  *)

Blocks(h) == FoldLeft(\o, <<>>, SubSeq(chain, 1, h))
SizeAt(h) == Len(SelectSeq(Blocks(h), LAMBDA tx : tx.kind # "val"))
\* A validator has the power it was last given.
PowerAt(h, p) == LET s == SelectSeq(Blocks(h), LAMBDA tx : tx.kind = "val" /\ ~TxRefused(tx) /\ tx.pub = p)
                     g == SelectSeq(Genesis, LAMBDA v : v.pub = p)
                 IN  IF s \o g = <<>> THEN Absent ELSE IF s = <<>> THEN Last(g).power ELSE Last(s).power
PairAt(h, k) == LET s == SelectSeq(Blocks(h), LAMBDA tx : tx.kind # "val" /\ tx.key = k)
                IN  IF s = <<>> THEN Absent ELSE Last(s).value
NewPowers(updates) == SelectSeq(updates, LAMBDA u : u.power # 0)

\* Whatever crashes there were within it and before it, a block that is
\* replayed commits to the height, the hash and the validators the chain
\* says, and reports the same new powers; the pairs are those of the chain.
\* Only the removals of validators may be reported differently, and only
\* after a crash: the validator is already gone, or back.
ReplaySafe ==
    /\ \A h \in 1 .. MaxHeight : \A a, b \in answers[h] :
          /\ a.hash = SizeAt(h)
          /\ a.validators = {v \in [pub : PubKeys, power : 1 .. MaxPower] : v.power = PowerAt(h, v.pub)}
          /\ \A k \in Keys : a.pairs[k] = PairAt(h, k)
          /\ NewPowers(a.updates) = NewPowers(b.updates)
          /\ crashes = 0 => a = b
    /\ app.at = "BeginBlock" =>
          app.state = [size |-> SizeAt(Height - 1), height |-> Height - 1, hash |-> SizeAt(Height - 1)]

\* A block has the same ValidatorUpdates whenever it is run.  Not when the
\* validator that a replayed transaction removes is already gone.
UpdatesAgree == \A h \in 1 .. MaxHeight : \A a, b \in answers[h] : a.updates = b.updates

\* "format is "val:pubkey/power"": the transaction MakeValSetChangeTx makes,
\* which has two parts, changes a validator.
MadeTxAccepted ==
    \A h \in 1 .. MaxHeight : answers[h] # {} =>
        \A i \in 1 .. Len(chain[h]) :
            LET tx == chain[h][i]
            IN  tx.kind = "val" /\ tx.parts = 2 /\ tx.hex /\ tx.number /\ tx.power # 0 =>
                    \E a \in answers[h] : Contains(a.updates, [pub |-> tx.pub, power |-> tx.power])
==============================================================================

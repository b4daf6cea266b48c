----------------------------- MODULE MCComponents -----------------------------
(***************************************************************************)
(* Components that share nothing with each other, each on its own in the   *)
(* behaviours with its name: one run for all of them.  The pool is module  *)
(* ConnectionPool itself.                                                  *)
(***************************************************************************)
EXTENDS ConnectionPool, Integers, Sequences, FiniteSets, TLC

CONSTANTS Conns, Hosts, MaxConns, Talkers, MaxReqs, Callers, Threads, Events,
          Listeners, Objects, MaxCalls, N, Walkers

VARIABLE part  \* the component this behaviour is about
VARIABLES running, stopped, accept, remoteIp, serverConns, sock, host, sent,
          serverReader, got, responses, writer, serverBuf, wire, closeq,
          waiter, killed, late
VARIABLES clientCli, caller, clientCalls, applied
VARIABLES app, db, history, chain, appCrashes, answers
VARIABLES eventCells, listeners, cell, lis, used, call, switchCalls, want,
          orphan, stale
VARIABLES link, wg, removed, pushed, ends, len, lwg, op, walk, panic, skipped
VARIABLES files, gone, headExists, groupBuf, minIndex, maxIndex, tick,
          groupReader, written, lost, groupCrashes, flushed, unsynced
VARIABLES file, before, temp, user, ops, walletCrashes, saved, replaced
VARIABLES typeInfos, interfaceInfos, concreteInfos, implementers,
          disfixToTypeInfo, failures, clean
VARIABLES arr, bitsMtx, proc
VARIABLES kvs, sorted

\* KVApp: a pair, something else with the same key, a validator that is
\* removed, one that is changed, and one as MakeValSetChangeTx writes it.
ValTx(p, n, x) == [kind |-> "val", pub |-> p, power |-> n, parts |-> x, hex |-> TRUE, number |-> TRUE]
AppTxs == {[kind |-> "pair", key |-> "a", value |-> 1], [kind |-> "raw", key |-> "a", value |-> 2],
           ValTx("p", 0, 3), ValTx("p", 5, 3), ValTx("q", 5, 2)}

\* Wallet: the shortest password, one longer, one too short.
Password == <<"number", "upper", "lower", "special", "lower", "lower", "lower", "lower">>

Server == INSTANCE AbciServer WITH conns <- serverConns,
                                   reader <- serverReader, buf <- serverBuf
Client == INSTANCE AbciClients WITH cli <- clientCli, calls <- clientCalls,
                                    MaxCalls <- 2
App == INSTANCE KVApp WITH crashes <- appCrashes, Txs <- AppTxs,
                           Genesis <- <<[pub |-> "p", power |-> 1]>>,
                           Keys <- {"a"}, PubKeys <- {"p", "q"}, MaxPower <- 5,
                           MaxHeight <- 2, MaxTxs <- 2, MaxCrashes <- 1
Switch == INSTANCE EventSwitch WITH calls <- switchCalls
List == INSTANCE CList
Group == INSTANCE AutoFileGroup WITH buf <- groupBuf, reader <- groupReader,
                                     crashes <- groupCrashes, BufSize <- 3,
                                     HeadLimit <- 2, TotalLimit <- 4,
                                     MaxFilesToRemove <- 4, Every <- 1,
                                     MaxLines <- 3, MaxIndex <- 2,
                                     MaxCrashes <- 1
Wallet == INSTANCE Wallet WITH crashes <- walletCrashes, Users <- Callers,
                               Names <- {"a"}, BadNames <- {"%"},
                               PrivKeys <- {"k1", "k2"},
                               Passwords <- {Password, Password \o <<"number">>, Tail(Password)},
                               MaxOps <- 3, MaxCrashes <- 1
Codec == INSTANCE AminoCodec WITH Concretes <- {"c1", "c2", "c3"},
                                  Interfaces <- {"i1", "i2"},
                                  Names <- {"n1", "n2", "n3"},
                                  PrefixOf <- [n1 |-> "p", n2 |-> "p", n3 |-> "q"],
                                  Implements <- [i1 |-> {"c1", "c2", "c3"}, i2 |-> {"c1", "c2"}],
                                  Priority <- [i1 |-> {"n1", "n2"}, i2 |-> {}],
                                  Always <- {}, MaxFailures <- 2
Bits == INSTANCE BitArray WITH mtx <- bitsMtx, W <- 2, MaxBits <- 3,
                               Procs <- Callers, MaxCalls <- 2
Tree == INSTANCE SimpleTree WITH Keys <- 1 .. 5, HashedValues <- {1, 2},
                                 MaxPairs <- 4

\* A component that a behaviour is not about stays as it is.
ServerVars == <<running, stopped, accept, remoteIp, serverConns, sock, host,
                sent, serverReader, got, responses, writer, serverBuf, wire,
                closeq, waiter, killed, late>>
ServerOff == running = 0 /\ stopped = 0 /\ accept = 0 /\ remoteIp = 0 /\
  serverConns = 0 /\ sock = 0 /\ host = 0 /\ sent = 0 /\ serverReader = 0 /\
  got = 0 /\ responses = 0 /\ writer = 0 /\ serverBuf = 0 /\ wire = 0 /\
  closeq = 0 /\ waiter = 0 /\ killed = 0 /\ late = 0
ClientVars == <<clientCli, caller, clientCalls, applied>>
ClientOff == clientCli = 0 /\ caller = 0 /\ clientCalls = 0 /\ applied = 0
AppVars == <<app, db, history, chain, appCrashes, answers>>
AppOff == app = 0 /\ db = 0 /\ history = 0 /\ chain = 0 /\ appCrashes = 0 /\
  answers = 0
SwitchVars == <<eventCells, listeners, cell, lis, used, call, switchCalls,
                want, orphan, stale>>
SwitchOff == eventCells = 0 /\ listeners = 0 /\ cell = 0 /\ lis = 0 /\
  used = 0 /\ call = 0 /\ switchCalls = 0 /\ want = 0 /\ orphan = 0 /\
  stale = 0
ListVars == <<link, wg, removed, pushed, ends, len, lwg, op, walk, panic,
              skipped>>
ListOff == link = 0 /\ wg = 0 /\ removed = 0 /\ pushed = 0 /\ ends = 0 /\
  len = 0 /\ lwg = 0 /\ op = 0 /\ walk = 0 /\ panic = 0 /\ skipped = 0
GroupVars == <<files, gone, headExists, groupBuf, minIndex, maxIndex, tick,
               groupReader, written, lost, groupCrashes, flushed, unsynced>>
GroupOff == files = 0 /\ gone = 0 /\ headExists = 0 /\ groupBuf = 0 /\
  minIndex = 0 /\ maxIndex = 0 /\ tick = 0 /\ groupReader = 0 /\ written = 0 /\
  lost = 0 /\ groupCrashes = 0 /\ flushed = 0 /\ unsynced = 0
WalletVars == <<file, before, temp, user, ops, walletCrashes, saved, replaced>>
WalletOff == file = 0 /\ before = 0 /\ temp = 0 /\ user = 0 /\ ops = 0 /\
  walletCrashes = 0 /\ saved = 0 /\ replaced = 0
CodecVars == <<typeInfos, interfaceInfos, concreteInfos, implementers,
               disfixToTypeInfo, failures, clean>>
CodecOff == typeInfos = 0 /\ interfaceInfos = 0 /\ concreteInfos = 0 /\
  implementers = 0 /\ disfixToTypeInfo = 0 /\ failures = 0 /\ clean = 0
BitsVars == <<arr, bitsMtx, proc>>
BitsOff == arr = 0 /\ bitsMtx = 0 /\ proc = 0
TreeVars == <<kvs, sorted>>
TreeOff == kvs = 0 /\ sorted = 0

MCvars == <<part, vars, ServerVars, ClientVars, AppVars, SwitchVars, ListVars,
            GroupVars, WalletVars, CodecVars, BitsVars, TreeVars>>

MCInit ==
  \/ part = "Pool" /\ NewPool /\ ServerOff /\ ClientOff /\ AppOff /\
     SwitchOff /\ ListOff /\ GroupOff /\ WalletOff /\ CodecOff /\ BitsOff /\
     TreeOff
  \/ part = "Server" /\ Server!OnStart /\ NewPool /\ ClientOff /\ AppOff /\
     SwitchOff /\ ListOff /\ GroupOff /\ WalletOff /\ CodecOff /\ BitsOff /\
     TreeOff
  \/ part = "Client" /\ Client!NewClient /\ NewPool /\ ServerOff /\ AppOff /\
     SwitchOff /\ ListOff /\ GroupOff /\ WalletOff /\ CodecOff /\ BitsOff /\
     TreeOff
  \/ part = "App" /\ App!InitApp /\ NewPool /\ ServerOff /\ ClientOff /\
     SwitchOff /\ ListOff /\ GroupOff /\ WalletOff /\ CodecOff /\ BitsOff /\
     TreeOff
  \/ part = "Switch" /\ Switch!NewEventSwitch /\ NewPool /\ ServerOff /\
     ClientOff /\ AppOff /\ ListOff /\ GroupOff /\ WalletOff /\ CodecOff /\
     BitsOff /\ TreeOff
  \/ part = "List" /\ List!Init /\ NewPool /\ ServerOff /\ ClientOff /\
     AppOff /\ SwitchOff /\ GroupOff /\ WalletOff /\ CodecOff /\ BitsOff /\
     TreeOff
  \/ part = "Group" /\ Group!OpenGroup /\ NewPool /\ ServerOff /\ ClientOff /\
     AppOff /\ SwitchOff /\ ListOff /\ WalletOff /\ CodecOff /\ BitsOff /\
     TreeOff
  \/ part = "Wallet" /\ Wallet!InitWallet /\ NewPool /\ ServerOff /\
     ClientOff /\ AppOff /\ SwitchOff /\ ListOff /\ GroupOff /\ CodecOff /\
     BitsOff /\ TreeOff
  \/ part = "Codec" /\ Codec!NewCodec /\ NewPool /\ ServerOff /\ ClientOff /\
     AppOff /\ SwitchOff /\ ListOff /\ GroupOff /\ WalletOff /\ BitsOff /\
     TreeOff
  \/ part = "Bits" /\ Bits!Init /\ NewPool /\ ServerOff /\ ClientOff /\
     AppOff /\ SwitchOff /\ ListOff /\ GroupOff /\ WalletOff /\ CodecOff /\
     TreeOff
  \/ part = "Tree" /\ Tree!NewSimpleMap /\ NewPool /\ ServerOff /\ ClientOff /\
     AppOff /\ SwitchOff /\ ListOff /\ GroupOff /\ WalletOff /\ CodecOff /\
     BitsOff

MCNext ==
  \/ part = "Pool" /\ Next /\ UNCHANGED <<part, ServerVars, ClientVars,
         AppVars, SwitchVars, ListVars, GroupVars, WalletVars, CodecVars,
         BitsVars, TreeVars>>
  \/ part = "Server" /\ Server!Next /\ UNCHANGED <<part, vars, ClientVars,
         AppVars, SwitchVars, ListVars, GroupVars, WalletVars, CodecVars,
         BitsVars, TreeVars>>
  \/ part = "Client" /\ Client!NextClients /\ UNCHANGED <<part, vars,
         ServerVars, AppVars, SwitchVars, ListVars, GroupVars, WalletVars,
         CodecVars, BitsVars, TreeVars>>
  \/ part = "App" /\ App!NextApp /\ UNCHANGED <<part, vars, ServerVars,
         ClientVars, SwitchVars, ListVars, GroupVars, WalletVars, CodecVars,
         BitsVars, TreeVars>>
  \/ part = "Switch" /\ Switch!Next /\ UNCHANGED <<part, vars, ServerVars,
         ClientVars, AppVars, ListVars, GroupVars, WalletVars, CodecVars,
         BitsVars, TreeVars>>
  \/ part = "List" /\ List!Next /\ UNCHANGED <<part, vars, ServerVars,
         ClientVars, AppVars, SwitchVars, GroupVars, WalletVars, CodecVars,
         BitsVars, TreeVars>>
  \/ part = "Group" /\ Group!Next /\ UNCHANGED <<part, vars, ServerVars,
         ClientVars, AppVars, SwitchVars, ListVars, WalletVars, CodecVars,
         BitsVars, TreeVars>>
  \/ part = "Wallet" /\ Wallet!NextWallet /\ UNCHANGED <<part, vars,
         ServerVars, ClientVars, AppVars, SwitchVars, ListVars, GroupVars,
         CodecVars, BitsVars, TreeVars>>
  \/ part = "Codec" /\ Codec!Next /\ UNCHANGED <<part, vars, ServerVars,
         ClientVars, AppVars, SwitchVars, ListVars, GroupVars, WalletVars,
         BitsVars, TreeVars>>
  \/ part = "Bits" /\ Bits!Next /\ UNCHANGED <<part, vars, ServerVars,
         ClientVars, AppVars, SwitchVars, ListVars, GroupVars, WalletVars,
         CodecVars, TreeVars>>
  \/ part = "Tree" /\ Tree!Next /\ UNCHANGED <<part, vars, ServerVars,
         ClientVars, AppVars, SwitchVars, ListVars, GroupVars, WalletVars,
         CodecVars, BitsVars>>

\* The ABCI server: its limit of connections, what outlives OnStop, the
\* order of responses, and close signals that never block.
ServerSafe == part = "Server" => Server!ServerSafe

\* The grpc and the local ABCI client: no failed call looks answered, and
\* callbacks run once.
ClientsSafe == part = "Client" => Client!ClientsSafe

\* The kvstore application: a block replayed after a crash commits to the
\* same state.
ReplaySafe == part = "App" => App!ReplaySafe

\* The event switch: events reach who was added, and nobody who was removed.
\* The concurrent list: walkers miss nothing and nobody waits in vain.
EventsSafe ==
    /\ part = "Switch" => Switch!SwitchSafe
    /\ part = "List" => List!CListSafe

\* The file group: what was written is kept, read and found, through
\* rotation, removal and crashes.  The key store: a file is always a whole
\* account, and only a race lets an import replace one.
FilesSafe ==
    /\ part = "Group" => Group!GroupSafe
    /\ part = "Wallet" => Wallet!WalletSafe

\* The bit arrays against sets of indices, the merkle tree with its proofs,
\* and the types that a go-amino codec has registered.
DataSafe ==
    /\ part = "Bits" => Bits!BitsSafe
    /\ part = "Tree" => Tree!TreeSafe
    /\ part = "Codec" => Codec!CodecSafe
===============================================================================

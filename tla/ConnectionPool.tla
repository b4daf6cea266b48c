--------------------------- MODULE ConnectionPool ---------------------------
(***************************************************************************)
(* The pool of RPC connections of socket/connectionpool.go.                *)
(*                                                                         *)
(* A Client is reduced to what the pool can tell of it: its connection is  *)
(* dialled, breaks once, and its receive goroutine then calls closeCB, if  *)
(* SetCloseCB has set one by then.  NewConnectionPool runs without the     *)
(* mutex, so the callback goroutines race it on curCap: increment and      *)
(* decrement are a load and a store each.                                  *)
(***************************************************************************)
EXTENDS Integers, Sequences, FiniteSets, Functions

CONSTANTS Users,     \* goroutines using the pool
          Closers,   \* those of them that may call Close
          Clients,   \* bound: the connections that can be dialled
          MaxCap,    \* maxCap, 10 in the code
          InitCap,   \* the curCap argument, after clamping to 0..MaxCap
          None

ASSUME PoolAssumption ==
    /\ Users \cap Clients = {} /\ None \notin Users \cup Clients
    /\ MaxCap \in Nat /\ InitCap \in 0..MaxCap

VARIABLES idleConnS, busyConnS, curCap,
          mtx,      \* None, a user, or the client whose callback runs
          state,    \* of a client: unused, up, closing (callback due), dead
          cbSet,    \* clients whose closeCB is set
          conns,    \* clients whose conn field is not nil
          build,    \* where NewConnectionPool is
          pc, cli,  \* of a user: where it is, the client it holds or dials
          reg,      \* the value a load of curCap put in a register
          raced,    \* history: did a callback run during construction?
          notified, \* history: clients whose callback has counted down
          broke     \* history: clients that a user held when it ran

vars == <<idleConnS, busyConnS, curCap, mtx, state, cbSet, conns, build, pc, cli, reg,
          raced, notified, broke>>
callers == <<build, pc, cli>>

Building == build.at \notin {"ready", "failed"}
Unused == {c \in Clients : state[c] = "unused"}

NewPool ==
    /\ idleConnS = <<>> /\ busyConnS = {} /\ curCap = 0 /\ mtx = None
    /\ state = [c \in Clients |-> "unused"]
    /\ cbSet = {} /\ conns = {}
    /\ build = [at |-> "loop", cli |-> None, reg |-> 0]
    /\ pc = [u \in Users |-> "idle"] /\ cli = [u \in Users |-> None]
    /\ reg = [c \in Clients |-> 0]
    /\ raced = FALSE /\ notified = {} /\ broke = {}

-----------------------------------------------------------------------------
(* NewClient, as the pool sees it *)

Dial(c) == /\ c \in Unused
           /\ state' = [state EXCEPT ![c] = "up"]
           /\ conns' = conns \cup {c}

\* recvResponseRoutine reads an error and looks at closeCB once.
AfterError(c) == IF c \in cbSet THEN "closing" ELSE "dead"

Break(c) ==
    /\ state[c] = "up"
    /\ state' = [state EXCEPT ![c] = AfterError(c)]
    /\ UNCHANGED <<idleConnS, busyConnS, curCap, mtx, cbSet, conns, callers, reg, raced, notified, broke>>

-----------------------------------------------------------------------------
(* closeCB: the whole method holds mtx; curCap-- is a load and a store *)

\* Lines 143-151: the first element that holds the client goes.
RemoveFirst(s, c) ==
    LET k == CHOOSE i \in 1..Len(s) : s[i] = c /\ \A j \in 1..i - 1 : s[j] # c
    IN  IF c \in Range(s) THEN SubSeq(s, 1, k - 1) \o SubSeq(s, k + 1, Len(s)) ELSE s

closeCB(c) ==
    /\ state[c] = "closing" /\ mtx = None
    /\ mtx' = c
    /\ busyConnS' = busyConnS \ {c}
    /\ idleConnS' = RemoveFirst(idleConnS, c)
    /\ reg' = [reg EXCEPT ![c] = curCap]
    /\ raced' = (raced \/ Building)
    /\ broke' = IF \E u \in Users : cli[u] = c THEN broke \cup {c} ELSE broke
    /\ UNCHANGED <<curCap, state, cbSet, conns, callers, notified>>

closeCBStore_NoDecrement(c) ==
    /\ mtx = c
    /\ curCap' = reg[c]
    /\ mtx' = None
    /\ state' = [state EXCEPT ![c] = "dead"]
    /\ notified' = notified \cup {c}
    /\ UNCHANGED <<idleConnS, busyConnS, cbSet, conns, callers, reg, raced, broke>>

closeCBStore(c) ==
    /\ mtx = c
    /\ curCap' = reg[c] - 1
    /\ mtx' = None
    /\ state' = [state EXCEPT ![c] = "dead"]
    /\ notified' = notified \cup {c}
    /\ UNCHANGED <<idleConnS, busyConnS, cbSet, conns, callers, reg, raced, broke>>

-----------------------------------------------------------------------------
(* NewConnectionPool: the loop of lines 47-52, under no lock *)

CapReached_OffByOne == curCap > MaxCap
CapReached == curCap >= MaxCap

BuildLoop ==
    /\ build.at = "loop"
    /\ \/ /\ Len(idleConnS) >= InitCap
          /\ build' = [build EXCEPT !.at = "ready"]
          /\ UNCHANGED <<state, conns>>
       \/ /\ Len(idleConnS) < InitCap        \* capacity reached, or the dial failed
          /\ build' = [build EXCEPT !.at = "failed"]
          /\ UNCHANGED <<state, conns>>
       \/ /\ Len(idleConnS) < InitCap /\ ~CapReached
          /\ \E c \in Clients : Dial(c) /\ build' = [build EXCEPT !.at = "setcb", !.cli = c]
    /\ UNCHANGED <<idleConnS, busyConnS, curCap, mtx, cbSet, pc, cli, reg, raced, notified, broke>>

BuildSetCB ==
    /\ build.at = "setcb"
    /\ cbSet' = cbSet \cup {build.cli}
    /\ build' = [build EXCEPT !.at = "push"]
    /\ UNCHANGED <<idleConnS, busyConnS, curCap, mtx, state, conns, pc, cli, reg, raced, notified, broke>>

BuildPush ==
    /\ build.at = "push"
    /\ idleConnS' = Append(idleConnS, build.cli)
    /\ build' = [build EXCEPT !.at = "store", !.reg = curCap]
    /\ UNCHANGED <<busyConnS, curCap, mtx, state, cbSet, conns, pc, cli, reg, raced, notified, broke>>

BuildStore ==
    /\ build.at = "store"
    /\ curCap' = build.reg + 1
    /\ build' = [at |-> "loop", cli |-> None, reg |-> 0]
    /\ UNCHANGED <<idleConnS, busyConnS, mtx, state, cbSet, conns, pc, cli, reg, raced, notified, broke>>

-----------------------------------------------------------------------------
(* GetClient, ReleaseClient, Close *)

GetIdle_KeepsInList(u) ==
    /\ build.at = "ready" /\ pc[u] = "idle" /\ cli[u] = None /\ mtx = None
    /\ idleConnS # <<>>
    /\ cli' = [cli EXCEPT ![u] = Head(idleConnS)]
    /\ busyConnS' = busyConnS \cup {Head(idleConnS)}
    /\ UNCHANGED <<idleConnS, curCap, mtx, state, cbSet, conns, build, pc, reg, raced, notified, broke>>

\* An idle client is there: the front one changes hands.
GetIdle(u) ==
    /\ build.at = "ready" /\ pc[u] = "idle" /\ cli[u] = None /\ mtx = None
    /\ idleConnS # <<>>
    /\ cli' = [cli EXCEPT ![u] = Head(idleConnS)]
    /\ idleConnS' = Tail(idleConnS)
    /\ busyConnS' = busyConnS \cup {Head(idleConnS)}
    /\ UNCHANGED <<curCap, mtx, state, cbSet, conns, build, pc, reg, raced, notified, broke>>

\* None is: incrCapacity dials under the mutex.  When the capacity is reached
\* or the dial fails GetClient returns the error and nothing changes.
GetDial(u) ==
    /\ build.at = "ready" /\ pc[u] = "idle" /\ cli[u] = None /\ mtx = None
    /\ idleConnS = <<>> /\ ~CapReached
    /\ mtx' = u
    /\ \E c \in Clients : Dial(c) /\ cli' = [cli EXCEPT ![u] = c]
    /\ pc' = [pc EXCEPT ![u] = "setcb"]
    /\ UNCHANGED <<idleConnS, busyConnS, curCap, cbSet, build, reg, raced, notified, broke>>

GetAdd_NoUnlock(u) ==
    /\ pc[u] = "setcb"
    /\ cbSet' = cbSet \cup {cli[u]}
    /\ curCap' = curCap + 1
    /\ busyConnS' = busyConnS \cup {cli[u]}
    /\ pc' = [pc EXCEPT ![u] = "idle"]
    /\ UNCHANGED <<idleConnS, mtx, state, conns, build, cli, reg, raced, notified, broke>>

\* SetCloseCB, PushBack, curCap++, then the rest of GetClient.
GetAdd(u) ==
    /\ pc[u] = "setcb"
    /\ cbSet' = cbSet \cup {cli[u]}
    /\ curCap' = curCap + 1
    /\ busyConnS' = busyConnS \cup {cli[u]}
    /\ mtx' = None
    /\ pc' = [pc EXCEPT ![u] = "idle"]
    /\ UNCHANGED <<idleConnS, state, conns, build, cli, reg, raced, notified, broke>>

ReleaseClient(u) ==
    /\ pc[u] = "idle" /\ cli[u] # None /\ mtx = None
    /\ idleConnS' = Append(idleConnS, cli[u])
    /\ busyConnS' = busyConnS \ {cli[u]}
    /\ cli' = [cli EXCEPT ![u] = None]
    /\ UNCHANGED <<curCap, mtx, state, cbSet, conns, build, pc, reg, raced, notified, broke>>

\* Close keeps the mutex while it polls for busyConnS to drain.
Close(u) ==
    /\ build.at = "ready" /\ u \in Closers /\ pc[u] = "idle" /\ cli[u] = None /\ mtx = None
    /\ mtx' = u
    /\ pc' = [pc EXCEPT ![u] = "close"]
    /\ UNCHANGED <<idleConnS, busyConnS, curCap, state, cbSet, conns, build, cli, reg, raced, notified, broke>>

\* Client.Close dereferences conn and then sets it to nil: a client still in
\* the list from an earlier Close panics.
CloseIdle(u) ==
    LET reached == {i \in DOMAIN idleConnS : \A j \in 1..i : idleConnS[j] \in conns}
        closed == {idleConnS[i] : i \in reached}
    IN  /\ pc[u] = "close" /\ busyConnS = {}
        /\ pc' = [pc EXCEPT ![u] = IF reached = DOMAIN idleConnS THEN "idle" ELSE "panicked"]
        /\ conns' = conns \ closed
        /\ state' = [c \in Clients |->
                        IF c \in closed /\ state[c] = "up" THEN AfterError(c) ELSE state[c]]
        /\ mtx' = None
        /\ UNCHANGED <<idleConnS, busyConnS, curCap, cbSet, build, cli, reg, raced, notified, broke>>

Callback(c) == closeCB(c) \/ closeCBStore(c)
Build == BuildLoop \/ BuildSetCB \/ BuildPush \/ BuildStore

Next ==
    \/ Build
    \/ \E c \in Clients : Break(c) \/ Callback(c)
    \/ \E u \in Users : GetIdle(u) \/ GetDial(u) \/ GetAdd(u) \/ ReleaseClient(u)
                        \/ Close(u) \/ CloseIdle(u)

Spec == NewPool /\ [][Next]_vars

\* Goroutines run on, sync.Mutex starves none, and users give clients back.
FairSpec ==
    /\ Spec /\ WF_vars(Build)
    /\ \A c \in Clients : SF_vars(Callback(c))
    /\ \A u \in Users : SF_vars(ReleaseClient(u)) /\ WF_vars(GetAdd(u)) /\ WF_vars(CloseIdle(u))

-----------------------------------------------------------------------------
(* Properties *)

\* Type invariant, with the lock discipline: mtx belongs to exactly the user
\* or callback that is inside a locked method.
TypeOK ==
    /\ idleConnS \in Seq(Clients) /\ busyConnS \subseteq Clients /\ curCap \in Int
    /\ state \in [Clients -> {"unused", "up", "closing", "dead"}]
    /\ cbSet \subseteq Clients /\ conns \subseteq Clients /\ notified \subseteq Clients /\ broke \subseteq Clients
    /\ build \in [at : {"loop", "setcb", "push", "store", "ready", "failed"},
                  cli : Clients \cup {None}, reg : Int]
    /\ build.at \in {"setcb", "push", "store"} => build.cli \in Clients
    /\ pc \in [Users -> {"idle", "setcb", "close", "panicked"}]
    /\ cli \in [Users -> Clients \cup {None}]
    /\ \A u \in Users : pc[u] = "setcb" => cli[u] \in Clients
    /\ reg \in [Clients -> Int] /\ raced \in BOOLEAN
    /\ mtx \in Users \cup Clients \cup {None}
    /\ \A u \in Users : mtx = u <=> pc[u] \in {"setcb", "close"}
    /\ mtx \in Clients => state[mtx] = "closing"

\* GetClient never gives a connection to two users, and never one that is
\* still in the idle list, through any order of releases and callbacks.
Exclusive ==
    /\ \A u, v \in Users : u # v /\ cli[u] = cli[v] => cli[u] = None
    /\ \A u \in Users : cli[u] \notin Range(idleConnS)
    /\ \A i, j \in DOMAIN idleConnS : idleConnS[i] = idleConnS[j] => i = j

Pending == {c \in Clients : \/ c = build.cli /\ Building
                           \/ \E u \in Users : pc[u] = "setcb" /\ c = cli[u]}
Counted == {c \in Clients : state[c] # "unused"} \ (notified \cup Pending)

\* curCap is the number of clients added whose close callback has not yet
\* counted them down, unless a callback ran while the pool was being built.
Accounting == ~raced => curCap = Cardinality(Counted)

\* The open connections of a pool never exceed maxCap, under the same proviso.
LiveWithinCap == ~raced => Cardinality({c \in Clients : state[c] \in {"up", "closing"}}) <= MaxCap

\* Every busy client is in the hands of a user, so Close, which polls for
\* busyConnS to be empty, never waits for one that nobody can release.
BusyIsHeld == busyConnS \subseteq {cli[u] : u \in Users}

\* A client that closeCB has removed is idle again only when a user held it
\* while it broke, or closeCB overtook the constructor.
StaleWasHeld == \A c \in notified \ broke : raced \/ c \notin Range(idleConnS)

\* What the pool keeps through construction, use and broken connections.
PoolSafe == TypeOK /\ Exclusive /\ Accounting /\ LiveWithinCap /\ BusyIsHeld /\ StaleWasHeld

\* connectionpool.go:20 "maxCap int // [the total number of connections]":
\* LiveWithinCap without the proviso.
TotalWithinCap == Cardinality({c \in Clients : state[c] \in {"up", "closing"}}) <= MaxCap

\* connectionpool.go:136 "closeCB remove client when it closed": a client whose
\* callback has run is not in the idle list, to be handed out again.
ClosedClientRemoved == \A c \in notified : c \notin Range(idleConnS)

\* connectionpool.go:57 "Close close all connection": Close returns, given that
\* users release what they hold.
CloseReturns == \A u \in Closers : pc[u] = "close" ~> pc[u] # "close"
=============================================================================

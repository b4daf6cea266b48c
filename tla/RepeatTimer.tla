---------------------------- MODULE RepeatTimer ----------------------------
(***************************************************************************)
(* tmlibs/common/repeat_timer.go: a RepeatTimer, the goroutine of every    *)
(* ticker it has had, and the two kinds of ticker.  The n-th ticker, its   *)
(* quit channel and its fireRoutine are generation n.  All fireRoutines    *)
(* send on the one channel t.ch; a select with both cases ready may take   *)
(* either.                                                                 *)
(***************************************************************************)
EXTENDS Naturals

CONSTANTS MaxGen,   \* bound: tickers made
          MaxTime,  \* bound: the clock
          Dur       \* the period

VARIABLES logical,  \* the TickerMaker: NewLogicalTickerMaker, or the default one
          now, gen, ticker, \* the clock; tickers made; t.ticker # nil
          quit,     \* generation -> its quit channel is closed
          ready,    \* default ticker: a tick is in its buffer of one
          src,      \* logical ticker: "init", "run", "send", "done"
          last,     \* logical ticker: lasttime; the clock when it was started
          tick,     \* logical ticker: the time it is about to send
          fire,     \* RepeatTimer.fireRoutine: "off", "idle", "send", "done"
          hand,     \* the tick it is about to send
          out,      \* the ticks received from t.ch: [gen, time, late]
          panic     \* Stop on a stopped timer

vars == <<logical, now, gen, ticker, quit, ready, src, last, tick, fire, hand, out, panic>>
Gens == 1..MaxGen
Late(g) == quit[g]

\* NewRepeatTimerWithTickerMaker ends in reset().
NewRepeatTimer ==
  /\ logical \in BOOLEAN /\ now = 0 /\ gen = 1 /\ ticker = TRUE
  /\ quit = [g \in Gens |-> FALSE] /\ ready = [g \in Gens |-> FALSE]
  /\ src = [g \in Gens |-> IF g = 1 /\ logical THEN "init" ELSE "done"]
  /\ last = [g \in Gens |-> 0] /\ tick = [g \in Gens |-> 0]
  /\ hand = [g \in Gens |-> 0]
  /\ fire = [g \in Gens |-> IF g = 1 THEN "idle" ELSE "off"]
  /\ out = [g \in Gens |-> [late |-> 0, time |-> 0, ok |-> TRUE]] /\ panic = FALSE

Tock ==
  /\ now < MaxTime /\ now' = now + 1
  /\ UNCHANGED <<hand, logical, gen, ticker, quit, ready, src, last, tick, fire, out, panic>>

-----------------------------------------------------------------------------
(* The tickers of generation g. *)

\* time.Ticker: no tick before a period has passed; a tick is dropped while
\* the last one is in the buffer.  Stop ends the ticks and leaves the buffer.
TickerFires(g) ==
  /\ ~logical /\ g = gen /\ ticker /\ ~ready[g] /\ last[g] + Dur <= now
  /\ ready' = [ready EXCEPT ![g] = TRUE]
  /\ last' = [last EXCEPT ![g] = now]
  /\ UNCHANGED <<hand, logical, now, gen, ticker, quit, src, tick, fire, out, panic>>

\* Mutant: the logical ticker sends every time that its source gives.
LogicalSource_NoInterval(g) ==
  /\ src[g] \in {"init", "run"}
  /\ src' = [src EXCEPT ![g] = IF @ = "init" THEN "run" ELSE "send"]
  /\ tick' = [tick EXCEPT ![g] = now]
  /\ last' = [last EXCEPT ![g] = IF src[g] = "init" THEN now ELSE @]
  /\ UNCHANGED <<hand, logical, now, gen, ticker, quit, ready, fire, out, panic>>

\* logicalTicker.fireRoutine takes a time from the source.
LogicalSource(g) ==
  /\ src[g] \in {"init", "run"}
  /\ \/ /\ src[g] = "init"
        /\ last' = [last EXCEPT ![g] = now] /\ src' = [src EXCEPT ![g] = "run"]
        /\ UNCHANGED tick
     \/ /\ src[g] = "run" /\ Dur <= now - last[g]
        /\ tick' = [tick EXCEPT ![g] = now] /\ src' = [src EXCEPT ![g] = "send"]
        /\ UNCHANGED last
  /\ UNCHANGED <<hand, logical, now, gen, ticker, quit, ready, fire, out, panic>>

LogicalQuit(g) ==
  /\ src[g] # "done" /\ quit[g]
  /\ src' = [src EXCEPT ![g] = "done"]
  /\ UNCHANGED <<hand, logical, now, gen, ticker, quit, ready, last, tick, fire, out, panic>>

-----------------------------------------------------------------------------
(* RepeatTimer.fireRoutine of generation g. *)

TakeTick(g) ==
  /\ fire[g] = "idle" /\ fire' = [fire EXCEPT ![g] = "send"]
  /\ \/ /\ ready[g] /\ ready' = [ready EXCEPT ![g] = FALSE]
        /\ hand' = [hand EXCEPT ![g] = now] /\ UNCHANGED <<src, last>>
     \/ /\ src[g] = "send" /\ src' = [src EXCEPT ![g] = "run"]
        /\ last' = [last EXCEPT ![g] = tick[g]] /\ UNCHANGED ready
        /\ hand' = [hand EXCEPT ![g] = tick[g]]
  /\ UNCHANGED <<logical, now, gen, ticker, quit, tick, out, panic>>

\* A receiver of t.Chan() takes the tick.
SendTick(g) ==
  /\ fire[g] = "send" /\ fire' = [fire EXCEPT ![g] = "idle"]
  /\ out' = [out EXCEPT ![g] =
       [late |-> IF Late(g) THEN @.late + 1 ELSE 0, time |-> hand[g],
        ok |-> @.ok /\ (logical => hand[g] >= @.time + Dur)]]
  /\ UNCHANGED <<hand, logical, now, gen, ticker, quit, ready, src, last, tick, panic>>

FireQuit(g) ==
  /\ fire[g] \in {"idle", "send"} /\ quit[g]
  /\ fire' = [fire EXCEPT ![g] = "done"]
  /\ UNCHANGED <<hand, logical, now, gen, ticker, quit, ready, src, last, tick, out, panic>>

-----------------------------------------------------------------------------
\* Mutant: the routine of the old ticker is not told to quit.
stop_KeepsRoutine ==
  IF ticker THEN quit' = quit /\ panic' = panic ELSE panic' = TRUE /\ quit' = quit

\* stop(): the ticker's own quit and t.quit are closed in one section.
stop ==
  IF ticker THEN quit' = [quit EXCEPT ![gen] = TRUE] /\ panic' = panic
            ELSE panic' = TRUE /\ quit' = quit

Stop ==
  /\ stop /\ ticker' = FALSE
  /\ UNCHANGED <<hand, logical, now, gen, ready, src, last, tick, fire, out>>

Reset ==
  /\ gen < MaxGen /\ gen' = gen + 1 /\ ticker' = TRUE
  /\ IF ticker THEN stop ELSE UNCHANGED <<quit, panic>>
  /\ src' = [src EXCEPT ![gen + 1] = IF logical THEN "init" ELSE "done"]
  /\ last' = [last EXCEPT ![gen + 1] = now]
  /\ fire' = [fire EXCEPT ![gen + 1] = "idle"]
  /\ UNCHANGED <<hand, logical, now, ready, tick, out>>

Next ==
  \/ Tock \/ Reset \/ (ticker /\ Stop)
  \/ \E g \in Gens : \/ TickerFires(g) \/ LogicalSource(g) \/ LogicalQuit(g)
                     \/ TakeTick(g) \/ SendTick(g) \/ FireQuit(g)

\* Every goroutine is scheduled, and t.Chan() has a receiver.
Fairness ==
  \A g \in Gens : /\ WF_vars(LogicalQuit(g)) /\ WF_vars(TakeTick(g))
                  /\ WF_vars(SendTick(g)) /\ SF_vars(FireQuit(g))
Spec == NewRepeatTimer /\ [][Next]_vars /\ Fairness

-----------------------------------------------------------------------------
TypeOK ==
  /\ gen \in Gens /\ ticker \in BOOLEAN /\ quit \in [Gens -> BOOLEAN]
  /\ src \in [Gens -> {"init", "run", "send", "done"}]
  /\ fire \in [Gens -> {"off", "idle", "send", "done"}]

\* At most one routine is not told to quit, so a timer that is reset again
\* and again keeps one goroutine alive.  A routine that was told to quit
\* still delivers the tick in its hand and the one in its ticker's buffer
\* (select takes either case), and no more than these two.  The ticks of one
\* logical ticker are a period or more apart.
TimerSafe ==
  /\ ~panic
  /\ \A g \in Gens : fire[g] \in {"idle", "send"} /\ ~quit[g] => g = gen /\ ticker
  /\ \A g \in Gens : (logical \/ out[g].late <= 2) /\ out[g].ok

\* A routine whose ticker was stopped ends.
RoutinesEnd == \A g \in Gens : quit[g] ~> (fire[g] = "done" /\ src[g] = "done")

\* Reset "Wait the duration again before firing": what is received after a
\* Reset is a tick of the new ticker.
NoStaleTick == \A g \in Gens : out[g].late = 0
=============================================================================

---------------------------- MODULE AutoFileGroup ----------------------------
(***************************************************************************)
(* tendermint/tmlibs/autofile: a Group writes lines through a buffer to    *)
(* its head file; a goroutine rotates the head when it is large and        *)
(* removes the oldest files; a GroupReader follows from file to file.  The *)
(* machine may crash, after which the group is opened again.               *)
(*                                                                         *)
(* What is written is numbered: line n is the text 2n-1 and the newline    *)
(* 2n.  File i keeps its index when it is rotated, from the head to        *)
(* head.i; the head has index maxIndex.  An AutoFile that was closed by    *)
(* its ticker or by SIGHUP is opened again, to append, when it is used, so *)
(* only whether the head exists matters.  Renames and new files survive a  *)
(* crash, data only up to the last Sync.                                   *)
(***************************************************************************)
EXTENDS Integers, Sequences, SequencesExt, FiniteSetsExt, TLC

CONSTANTS BufSize,                   \* the room in headBuf, 40960 in the code
          HeadLimit, TotalLimit,     \* headSizeLimit, totalSizeLimit
          MaxFilesToRemove,          \* maxFilesToRemove
          Every,                     \* every how many lines there is a marker
          MaxLines, MaxIndex, MaxCrashes \* bounds: lines, files and crashes

VARIABLES files,      \* index -> [data, synced]: contents, and how much is on disk
          gone,       \* the files that were removed
          headExists, \* whether there is a file with the head's path
          buf,        \* headBuf
          minIndex, maxIndex,
          tick,       \* what processTicks is about to do
          reader,     \* a GroupReader
          written, lost, crashes,
          flushed,    \* history: what Flush has returned for
          unsynced    \* history: files rotated before all of them was on disk
vars == <<files, gone, headExists, buf, minIndex, maxIndex, tick, reader, written, lost, crashes,
          flushed, unsynced>>

File(data) == [data |-> data, synced |-> 0]
Exists(i) == i \in DOMAIN files \ gone /\ (i = maxIndex => headExists)
NoInfo == [at |-> "idle"]
Closed == [st |-> "closed", idx |-> 0, pos |-> 0, prefix |-> <<>>, tail |-> <<>>, got |-> <<>>,
           torn |-> FALSE, raced |-> FALSE]

OpenGroup ==
    /\ files = (0 :> File(<<>>)) /\ gone = {} /\ headExists = TRUE /\ buf = <<>>
    /\ minIndex = 0 /\ maxIndex = 0 /\ tick = NoInfo /\ reader = Closed
    /\ written = 0 /\ lost = {} /\ crashes = 0 /\ flushed = {} /\ unsynced = {}

-----------------------------------------------------------------------------
(* Writing.                                                                *)

\* AutoFile.Write opens the head if need be.
HeadAppend(fs, b) == [fs EXCEPT ![maxIndex].data = @ \o b]

\* bufio.Writer.Write: what does not fit fills the buffer, which is written.
WriteLine ==
    LET p == <<2 * written + 1, 2 * written + 2>>
        all == buf \o p
        full == BufSize * (Len(all) \div BufSize)
        out == IF Len(all) > BufSize THEN SubSeq(all, 1, full) ELSE <<>>
    IN  /\ written < MaxLines
        /\ written' = written + 1
        /\ files' = HeadAppend(files, out)
        /\ buf' = SubSeq(all, Len(out) + 1, Len(all))
        /\ headExists' = (headExists \/ out # <<>>)
        /\ UNCHANGED <<gone, minIndex, maxIndex, tick, reader, lost, crashes, flushed, unsynced>>

\* Flush syncs the head, and nothing else.
Flush ==
    LET fs == HeadAppend(files, buf)
    IN  /\ files' = [fs EXCEPT ![maxIndex].synced = Len(fs[maxIndex].data)]
        /\ buf' = <<>> /\ headExists' = TRUE
        /\ flushed' = flushed \cup ((1 .. 2 * written) \ lost)
        /\ UNCHANGED <<gone, minIndex, maxIndex, tick, reader, written, lost, crashes, unsynced>>

-----------------------------------------------------------------------------
(* processTicks: checkHeadSizeLimit, then checkTotalSizeLimit.             *)

Size(i) == Len(files[i].data)

\* The size is read under the lock of the AutoFile only, and creates the head.
checkHeadSizeLimit ==
    /\ tick.at = "idle"
    /\ headExists' = TRUE
    /\ tick' = [at |-> IF Size(maxIndex) >= HeadLimit THEN "rotate" ELSE "info"]
    /\ UNCHANGED <<files, gone, buf, minIndex, maxIndex, reader, written, lost, crashes, flushed, unsynced>>

\* Mutant: the buffer is dropped with the file it was for.
RotateFile_DropsBuffer ==
    /\ tick.at = "rotate" /\ maxIndex < MaxIndex
    /\ files' = (maxIndex + 1 :> File(<<>>)) @@ files
    /\ headExists' = FALSE
    /\ maxIndex' = maxIndex + 1
    /\ unsynced' = IF files[maxIndex].synced < Size(maxIndex) THEN unsynced \cup {maxIndex} ELSE unsynced
    /\ tick' = [at |-> "info"] /\ buf' = <<>>
    /\ UNCHANGED <<gone, minIndex, reader, written, lost, crashes, flushed>>

\* The head gets an index; what is in the buffer will go to the next head,
\* which is not created yet.
RotateFile ==
    /\ tick.at = "rotate" /\ maxIndex < MaxIndex
    /\ files' = (maxIndex + 1 :> File(<<>>)) @@ files
    /\ headExists' = FALSE
    /\ maxIndex' = maxIndex + 1
    /\ unsynced' = IF files[maxIndex].synced < Size(maxIndex) THEN unsynced \cup {maxIndex} ELSE unsynced
    /\ tick' = [at |-> "info"]
    /\ UNCHANGED <<gone, buf, minIndex, reader, written, lost, crashes, flushed>>

\* readGroupInfo scans the directory.
Rolled == {i \in DOMAIN files \ gone : i < maxIndex}
readGroupInfo ==
    [min |-> IF Rolled = {} THEN 0 ELSE Min(Rolled),
     max |-> IF Rolled = {} THEN 0 ELSE Max(Rolled) + 1,
     size |-> MapThenSumSet(Size, {i \in DOMAIN files : Exists(i)})]

checkTotalSizeLimit ==
    LET info == readGroupInfo
    IN  /\ tick.at = "info"
        /\ tick' = [at |-> "remove", i |-> 0, min |-> info.min, max |-> info.max, size |-> info.size]
        /\ UNCHANGED <<files, gone, headExists, buf, minIndex, maxIndex, reader, written, lost,
                       crashes, flushed, unsynced>>

\* One turn of the loop; minIndex of the group is not changed.
RemoveOldest ==
    LET index == tick.min + tick.i
        done == tick.i = MaxFilesToRemove \/ tick.size < TotalLimit \/ index = tick.max
    IN  /\ tick.at = "remove"
        /\ tick' = IF done THEN NoInfo
                   ELSE [tick EXCEPT !.i = @ + 1, !.size = IF Exists(index) THEN @ - Size(index) ELSE @]
        /\ gone' = IF done \/ ~Exists(index) THEN gone ELSE gone \cup {index}
        /\ UNCHANGED <<files, headExists, buf, minIndex, maxIndex, reader, written, lost, crashes,
                       flushed, unsynced>>

-----------------------------------------------------------------------------
(* GroupReader.  ReadLine reads the open file up to a newline; at its end  *)
(* it opens the next one, under the lock of the group.                     *)

unreader == <<files, gone, headExists, buf, minIndex, maxIndex, tick, written, lost, crashes, flushed, unsynced>>

NewReader(i) ==
    /\ reader.st = "closed" /\ i <= maxIndex /\ Exists(i)
    /\ reader' = [Closed EXCEPT !.st = "open", !.idx = i]
    /\ UNCHANGED unreader

ReadBytes ==
    LET rest == SubSeq(files[reader.idx].data, reader.pos + 1, Size(reader.idx))
        n == SelectInSeq(rest, LAMBDA u : u % 2 = 0)
    IN  /\ reader.st = "open"
        /\ reader' =
              IF n > 0 THEN [reader EXCEPT !.pos = @ + n, !.prefix = <<>>,
                                           !.got = @ \o reader.prefix \o SubSeq(rest, 1, n)]
              ELSE [reader EXCEPT !.pos = Size(reader.idx), !.tail = rest, !.st = "end"]
        /\ UNCHANGED unreader

\* Mutant: at the end of a file what was read of a line is forgotten.
OpenNext_ForgetsTail ==
    LET i == reader.idx + 1
        ok == i <= maxIndex /\ Exists(i)
    IN  /\ reader.st = "end"
        /\ reader' = IF ok THEN [reader EXCEPT !.st = "open", !.idx = i, !.pos = 0, !.tail = <<>>,
                                               !.raced = @ \/ reader.pos < Size(reader.idx)]
                     ELSE [reader EXCEPT !.st = "open", !.prefix = <<>>, !.tail = <<>>,
                                         !.torn = @ \/ reader.prefix \o reader.tail # <<>>]
        /\ UNCHANGED unreader

\* If there is no next file ReadLine returns an error, and forgets what it
\* has read of a line.
OpenNext ==
    LET i == reader.idx + 1
        ok == i <= maxIndex /\ Exists(i)
    IN  /\ reader.st = "end"
        /\ reader' = IF ok THEN [reader EXCEPT !.st = "open", !.idx = i, !.pos = 0, !.tail = <<>>,
                                               !.prefix = @ \o reader.tail,
                                               !.raced = @ \/ reader.pos < Size(reader.idx)]
                     ELSE [reader EXCEPT !.st = "open", !.prefix = <<>>, !.tail = <<>>,
                                         !.torn = @ \/ reader.prefix \o reader.tail # <<>>]
        /\ UNCHANGED unreader

CloseReader == reader.st = "open" /\ reader' = Closed /\ UNCHANGED unreader

-----------------------------------------------------------------------------
\* A crash: of every file at least what was synced is left.  OpenGroup then
\* finds its indexes in the directory.
Crash ==
    /\ crashes < MaxCrashes /\ crashes' = crashes + 1
    /\ \E cut \in [DOMAIN files -> 0 .. 2 * MaxLines] :
          LET fs == [i \in DOMAIN files |->
                       [data |-> SubSeq(files[i].data, 1, cut[i]), synced |-> files[i].synced]]
              kept == UNION {ToSet(fs[i].data) : i \in DOMAIN fs}
          IN  /\ \A i \in DOMAIN files : cut[i] \in files[i].synced .. Size(i)
              /\ lost' = lost \cup ((UNION {ToSet(files[i].data) : i \in DOMAIN files} \cup ToSet(buf)) \ kept)
              /\ IF Rolled = {} THEN /\ files' = (0 :> fs[maxIndex]) /\ maxIndex' = 0 /\ minIndex' = 0
                                     /\ gone' = {}
                 ELSE files' = fs /\ maxIndex' = maxIndex /\ minIndex' = Min(Rolled) /\ UNCHANGED gone
    /\ headExists' = TRUE /\ buf' = <<>> /\ tick' = NoInfo /\ reader' = Closed
    /\ UNCHANGED <<written, flushed, unsynced>>

Next == \/ WriteLine \/ Flush
        \/ checkHeadSizeLimit \/ RotateFile \/ checkTotalSizeLimit \/ RemoveOldest
        \/ (\E i \in minIndex .. maxIndex : NewReader(i)) \/ ReadBytes \/ OpenNext \/ CloseReader
        \/ Crash
Spec == OpenGroup /\ [][Next]_vars

-----------------------------------------------------------------------------
(* Search and FindLast, over the files as they are.  Some lines are        *)
(* markers, the number of the newline their value.  The lines a reader     *)
(* meets from file i on have that value, 0 for other lines and for the     *)
(* rest of one that began in an earlier file, and the index of the file    *)
(* the newline is in.                                                      *)

From(i) == FoldLeft(LAMBDA acc, j : acc \o [k \in 1 .. Size(j) |-> [u |-> files[j].data[k], at |-> j]],
                    <<>>, [j \in 1 .. maxIndex - i + 1 |-> i + j - 1])
IsMarker(u) == u % (2 * Every) = 0
LinesFrom(i) ==
    LET us == From(i)
        Ends == SelectSeq([k \in 1 .. Len(us) |-> k], LAMBDA k : us[k].u % 2 = 0)
        Text(k) == k > 1 /\ us[k - 1].u % 2 = 1 /\ IsMarker(us[k].u)
    IN  [e \in 1 .. Len(Ends) |-> [n |-> IF Text(Ends[e]) THEN us[Ends[e]].u ELSE 0, at |-> us[Ends[e]].at]]
Marked(i) == SelectSeq(LinesFrom(i), LAMBDA l : l.n > 0)
scanUntil(i, target) ==
    LET ls == SelectSeq(Marked(i), LAMBDA l : l.n >= target) IN IF ls = <<>> THEN 0 ELSE ls[1].n

Failed == 0
Panic == -1
Loop == -2

\* Whether NewReader finds every file Search and FindLast may ask for.
Whole == \A i \in minIndex .. maxIndex : Exists(i)

RECURSIVE search(_, _, _)

\* The range of files is halved by the first marker from the middle on.
\* With lo > hi the loop turns for ever.
search(lo, hi, target) ==
    LET cur == (lo + hi + 1) \div 2
        m == Marked(cur)[1]
    IN  CASE lo = hi -> scanUntil(lo, target)
          [] lo > hi -> Loop
          [] lo < hi /\ Marked(cur) = <<>> -> Failed
          [] lo < hi /\ Marked(cur) # <<>> /\ m.n < target -> search(m.at, hi, target)
          [] lo < hi /\ Marked(cur) # <<>> /\ m.n = target ->
                IF scanUntil(m.at, target) = target THEN target ELSE Panic
          [] OTHER -> search(lo, cur - 1, target)
Search(target) == IF Whole THEN search(minIndex, maxIndex, target) ELSE Failed

\* FindLast reads each file, the last one first, and one line beyond it.
FindLast ==
    LET Seen(i) == LET ls == LinesFrom(i)
                       over == SelectInSeq(ls, LAMBDA l : l.at > i)
                   IN  SelectSeq(IF over = 0 THEN ls ELSE SubSeq(ls, 1, over), LAMBDA l : l.n > 0)
        hit == {i \in minIndex .. maxIndex : Seen(i) # <<>>}
    IN  IF ~Whole \/ hit = {} THEN Failed ELSE Last(Seen(Max(hit))).n

-----------------------------------------------------------------------------
Content == FoldLeft(LAMBDA acc, i : IF i \in gone THEN acc ELSE acc \o files[i].data, <<>>,
                    [k \in 1 .. maxIndex + 1 |-> k - 1])
Increasing(q) == \A i \in 1 .. Len(q) - 1 : q[i] < q[i + 1]
Removed == UNION {ToSet(files[i].data) : i \in gone}

\* The files in the order of their indexes, then the buffer, are what was
\* written, in order and without a gap, whatever is rotated in between: only
\* what checkTotalSizeLimit removed, which is the oldest, and what a crash
\* took is missing.  The head is never removed.
NothingLost ==
    LET q == Content \o buf
    IN  /\ Increasing(q)
        /\ \A u \in 1 .. 2 * written : u \notin ToSet(q) =>
              \/ u \in lost
              \/ \A v \in ToSet(q) : u < v
        /\ maxIndex \notin gone

\* A reader is given every unit in turn from where it began, over any number
\* of rotations and removals.  The two exceptions are the reader that met
\* the end of the last file within a line, whose ReadLine forgets it, and
\* the one before whose openFile the file it had read to the end grew and
\* was rotated.
ReaderComplete ==
    LET q == reader.got \o reader.prefix \o reader.tail
    IN  /\ Increasing(q)
        /\ ~reader.torn /\ ~reader.raced =>
              \A i \in 1 .. Len(q) - 1 : (q[i] + 1 .. q[i + 1] - 1) \subseteq lost

\* A crash takes what Flush has returned for only from a file that was
\* rotated before all of it was synced: Flush syncs no file but the head.
FlushedLostByRotation == lost \cap flushed # {} => unsynced # {}

\* If every file holds whole lines and at least one marker, Search finds the
\* first marker not below the target, and FindLast finds the last one.
SearchFinds ==
    LET Lines(i) == /\ Size(i) % 2 = 0 /\ \E k \in 1 .. Size(i) : IsMarker(files[i].data[k])
                    /\ \A k \in 1 .. Size(i) : files[i].data[k] % 2 = k % 2
        ns == {u \in ToSet(Content) : IsMarker(u)}
    IN  Whole /\ (\A i \in minIndex .. maxIndex : Lines(i)) =>
            /\ FindLast = Max(ns)
            /\ \A target \in 1 .. 2 * MaxLines + 1 :
                  Search(target) = LET S == {u \in ns : u >= target} IN IF S = {} THEN Failed ELSE Min(S)

\* The group: NothingLost, ReaderComplete, FlushedLostByRotation and
\* SearchFinds (RotateFile, checkTotalSizeLimit, GroupReader, Search).
GroupSafe == NothingLost /\ ReaderComplete /\ FlushedLostByRotation /\ SearchFinds

\* Search: a marker that was found by scanNext is found again by scanUntil in
\* the file scanNext was in.  It is not if the line began in the file before.
SearchMatchExpected == \A target \in 1 .. 2 * MaxLines : Search(target) # Panic

\* Search ends.
SearchEnds == \A target \in 1 .. 2 * MaxLines + 1 : Search(target) # Loop

\* A reader is given every line that is flushed: no line is skipped.
NoLineSkipped == ~reader.torn /\ ~reader.raced

\* What Flush has returned for survives a crash.
FlushedSurvives == lost \cap flushed = {}
=============================================================================

---------------------------- MODULE LogCollectors ----------------------------
(***************************************************************************)
(* A log collector under the log runner: the background reader that fills  *)
(* a bounded channel, Collect, which the runner calls at each tick to      *)
(* drain it, and Close, which the runner calls when its Run ends and       *)
(* others may call at any time.  The four collectors share this shape:     *)
(*   "journald"     linuxos/journald_linux.go                              *)
(*   "security"     linuxos/security_linux.go                              *)
(*   "macos"        macos/macos.go                                         *)
(*   "eventviewer"  windows/eventviewer.go, with one reader for each       *)
(*                  channel of the event log                               *)
(* They differ in who closes what, and in what a reader does when the      *)
(* channel is full: the first and the third block, the others drop.        *)
(*                                                                         *)
(* Entries are numbered in the order in which readers offer them to the    *)
(* channel.  How Collect cuts them into batches is left out.               *)
(***************************************************************************)
EXTENDS Naturals, Sequences

CONSTANTS
  Kinds,         \* the collectors to consider
  Reader,        \* reader goroutines; only "eventviewer" has more than one
  Runner,        \* the goroutine of LogRunner.Run
  OtherClosers,  \* other goroutines that call Close
  LinesCap,      \* capacity of the channel, 10 * batch_size
  MaxFetch,      \* most events that one EvtNext returns
  MaxEntry       \* bound on the entries of a behaviour

ASSUME KindsAssumption ==
  Kinds \subseteq {"journald", "security", "macos", "eventviewer"}
ASSUME GoroutinesAssumption == Runner \notin OtherClosers /\ Reader # {}
ASSUME BoundsAssumption ==
  LinesCap \in Nat \ {0} /\ MaxFetch \in Nat \ {0} /\ MaxEntry \in Nat

Closer == {Runner} \cup OtherClosers

VARIABLES
  kind,         \* which collector this is; it never changes
  enabled,      \* its constructor succeeded; it never changes
  ctxDone,      \* the root context is cancelled
  panicked,     \* a goroutine panicked
  stop,         \* the channel in the stop field: "open", "closed" or "nil"
  lines,        \* contents of the lines channel
  linesClosed,
  last,         \* entries offered to lines so far
  rpc,          \* where each reader is
  source,       \* source[r]: journal, tailer, process or handle: "open", "closed"
  events,       \* events[r]: event handles EvtNext returned and r has not closed
  hears,        \* hears[r]: the channel that napping reader r selects on is not nil
  run,          \* where LogRunner.Run is
  fetched,      \* what Collect has drained and not returned yet
  out,          \* what LogRegistry.Collect has returned
  cpc,          \* where each closer is
  once          \* the sync.Once of Close: "no", "running" or "done"

readerVars == <<rpc, source, events, hears>>
channelVars == <<lines, linesClosed, last>>
collectVars == <<run, fetched, out>>
closeVars == <<cpc, once>>
vars == <<kind, enabled, ctxDone, panicked, stop, channelVars, readerVars,
          collectVars, closeVars>>

TypeOK ==
  /\ kind \in Kinds
  /\ enabled \in BOOLEAN
  /\ ctxDone \in BOOLEAN
  /\ panicked \in BOOLEAN
  /\ stop \in {"open", "closed", "nil"}
  /\ lines \in Seq(1..MaxEntry) /\ Len(lines) <= LinesCap
  /\ linesClosed \in BOOLEAN
  /\ last \in 0..MaxEntry
  /\ rpc \in [Reader -> {"start", "top", "read", "send", "next", "nap", "event",
                         "queue", "cleanup", "closing", "done"}]
  /\ source \in [Reader -> {"open", "closed"}]
  /\ events \in [Reader -> 0..MaxFetch]
  /\ hears \in [Reader -> BOOLEAN]
  /\ run \in {"select", "lock", "collect", "left"}
  /\ fetched \in Seq(1..MaxEntry)
  /\ out \in Seq(1..MaxEntry)
  /\ cpc \in [Closer -> {"away", "call", "nil", "wait", "returned"}]
  /\ once \in {"no", "running", "done"}

(* The constructor has started the readers it needs, or has failed.         *)
Init ==
  /\ kind \in Kinds
  /\ enabled \in BOOLEAN
  /\ kind = "macos" => enabled
  /\ LET used == IF ~enabled THEN {}
                 ELSE IF kind = "eventviewer" THEN Reader
                 ELSE {CHOOSE r \in Reader : TRUE}
     IN /\ rpc = [r \in Reader |->
                    IF r \notin used THEN "done"
                    ELSE IF kind = "macos" THEN "start" ELSE "top"]
        /\ source = [r \in Reader |-> IF r \in used /\ kind # "macos"
                                      THEN "open" ELSE "closed"]
  /\ events = [r \in Reader |-> 0]
  /\ hears = [r \in Reader |-> FALSE]
  /\ stop = "open"
  /\ lines = <<>> /\ linesClosed = FALSE /\ last = 0
  /\ ctxDone = FALSE /\ panicked = FALSE
  /\ run = "select" /\ fetched = <<>> /\ out = <<>>
  /\ cpc = [c \in Closer |-> "away"]
  /\ once = "no"

-----------------------------------------------------------------------------
(* What readers have in common.                                             *)

Goto(r, from, to) == rpc[r] = from /\ rpc' = [rpc EXCEPT ![r] = to]

OnlyMoves(r, from, to) ==
  /\ Goto(r, from, to)
  /\ UNCHANGED <<panicked, stop, channelVars, source, events, hears>>

(* case <-stop at the top of a reader's loop, and its default case.         *)
SeesStop(r) == stop = "closed" /\ OnlyMoves(r, "top", "cleanup")
GoesOn(r, to) == stop # "closed" /\ OnlyMoves(r, "top", to)

(* A read ends with an entry, or without one: at the end of the journal,    *)
(* after an error, on a line that does not parse.                           *)
Reads(r) ==
  \/ OnlyMoves(r, "read", "top")
  \/ last < MaxEntry /\ OnlyMoves(r, "read", "send")

(* lines <- entry                                                           *)
Enqueue ==
  /\ Len(lines) < LinesCap
  /\ last' = last + 1
  /\ lines' = Append(lines, last')
  /\ UNCHANGED linesClosed

(* select { case lines <- entry: default: }                                 *)
OfferEntry ==
  /\ last < MaxEntry
  /\ \/ Enqueue
     \/ /\ Len(lines) = LinesCap
        /\ last' = last + 1
        /\ UNCHANGED <<lines, linesClosed>>

(* Mutant of SendsEntry: a full channel loses the entry.                    *)
SendsEntry_Drops(r) ==
  /\ Goto(r, "send", "top")
  /\ OfferEntry
  /\ UNCHANGED <<panicked, stop, source, events, hears>>

SendsEntry(r) ==
  /\ Goto(r, "send", "top")
  /\ Enqueue
  /\ UNCHANGED <<panicked, stop, source, events, hears>>

-----------------------------------------------------------------------------
(* journald: runReader.                                                     *)

(* defer j.journal.Close(), defer j.wg.Done()                               *)
JournaldCleanup(r) ==
  /\ Goto(r, "cleanup", "done")
  /\ source' = [source EXCEPT ![r] = "closed"]
  /\ UNCHANGED <<panicked, stop, channelVars, events, hears>>

JournaldReader(r) ==
  /\ kind = "journald"
  /\ SeesStop(r) \/ GoesOn(r, "read") \/ Reads(r) \/ SendsEntry(r)
       \/ JournaldCleanup(r)

-----------------------------------------------------------------------------
(* macos: runLogStream.                                                     *)

(* exec.Command("log", "stream"), which may fail.                           *)
StreamStarts(r) ==
  /\ \/ Goto(r, "start", "top") /\ source' = [source EXCEPT ![r] = "open"]
     \/ Goto(r, "start", "done") /\ UNCHANGED source
  /\ UNCHANGED <<panicked, stop, channelVars, events, hears>>

(* Kill, Wait, close(m.lines).                                              *)
MacOSCleanup(r) ==
  /\ Goto(r, "cleanup", "done")
  /\ source' = [source EXCEPT ![r] = "closed"]
  /\ linesClosed' = TRUE
  /\ UNCHANGED <<panicked, stop, lines, last, events, hears>>

MacOSReader(r) ==
  /\ kind = "macos"
  /\ StreamStarts(r) \/ SeesStop(r) \/ GoesOn(r, "read") \/ Reads(r)
       \/ SendsEntry(r) \/ MacOSCleanup(r)

-----------------------------------------------------------------------------
(* security: runTailing, in a select with no default.                       *)

(* A line of the file is parsed and offered; or the tail library closes its *)
(* Lines.  (Lines with an error and lines that do not parse change nothing.)*)
TailLine(r) ==
  /\ rpc[r] = "top"
  /\ OfferEntry
  /\ UNCHANGED <<panicked, stop, readerVars>>
TailEnds(r) == OnlyMoves(r, "top", "cleanup")

(* Under the mutex: tailer.Stop(), tailer = nil; then close(c.lines).       *)
SecurityCleanup(r) ==
  \/ /\ Goto(r, "cleanup", "closing")
     /\ source' = [source EXCEPT ![r] = "closed"]
     /\ UNCHANGED <<panicked, stop, channelVars, events, hears>>
  \/ /\ Goto(r, "closing", "done")
     /\ linesClosed' = TRUE
     /\ UNCHANGED <<panicked, stop, lines, last, source, events, hears>>

SecurityReader(r) ==
  kind = "security" /\ (SeesStop(r) \/ SecurityCleanup(r))
SecurityTail(r) ==
  kind = "security" /\ (TailLine(r) \/ TailEnds(r))

-----------------------------------------------------------------------------
(* eventviewer: runReader.  It reads the field e.stop anew, and without the *)
(* mutex, at each select.                                                   *)

(* EvtNext fails or finds nothing: the reader naps in a select on e.stop,   *)
(* evaluated now, and on a timer.                                           *)
EvtNextFails(r) ==
  /\ Goto(r, "next", "nap")
  /\ hears' = [hears EXCEPT ![r] = stop # "nil"]
  /\ UNCHANGED <<panicked, stop, channelVars, source, events>>

NapEnds(r) ==
  \/ OnlyMoves(r, "nap", "top")
  \/ hears[r] /\ stop # "open" /\ OnlyMoves(r, "nap", "cleanup")

(* EvtNext returns n handles that the reader has to close.                  *)
EvtNextOk(r) ==
  /\ Goto(r, "next", "event")
  /\ source[r] = "open" /\ last < MaxEntry
  /\ \E n \in 1..MaxFetch : events' = [events EXCEPT ![r] = n]
  /\ UNCHANGED <<panicked, stop, channelVars, source, hears>>

(* Mutant of StopsInBatch: the handles that are left stay open.             *)
StopsInBatch_Leaks(r, at) == stop = "closed" /\ OnlyMoves(r, at, "cleanup")

(* A stop seen at one of the two selects of the loop over a batch closes    *)
(* the handles that are left.                                               *)
StopsInBatch(r, at) ==
  /\ stop = "closed"
  /\ Goto(r, at, "cleanup")
  /\ events' = [events EXCEPT ![r] = 0]
  /\ UNCHANGED <<panicked, stop, channelVars, source, hears>>

(* Mutant of NextEvent: the loop goes one past the last handle.             *)
NextEvent_OneMore(r) ==
  /\ events' = [events EXCEPT ![r] = @ - 1]
  /\ rpc' = [rpc EXCEPT ![r] = IF events[r] = 0 THEN "top" ELSE "event"]
  /\ UNCHANGED <<panicked, stop, source, hears>>

(* One handle is done with: the loop ends after the last.                   *)
NextEvent(r) ==
  /\ events' = [events EXCEPT ![r] = @ - 1]
  /\ rpc' = [rpc EXCEPT ![r] = IF events[r] = 1 THEN "top" ELSE "event"]
  /\ UNCHANGED <<panicked, stop, source, hears>>

(* EvtRender fails, or the entry goes on to the second select.              *)
Renders(r) ==
  /\ rpc[r] = "event" /\ stop # "closed"
  /\ \/ NextEvent(r) /\ UNCHANGED channelVars
     \/ OnlyMoves(r, "event", "queue")

(* The second select: a ready case is taken before the default.             *)
QueuesEvent(r) ==
  /\ rpc[r] = "queue"
  /\ Len(lines) = LinesCap => stop # "closed"
  /\ OfferEntry
  /\ NextEvent(r)

(* defer: close the query handle, unless Close did, under the mutex, which  *)
(* Close holds between closing e.stop and clearing it.                      *)
EventCleanup(r) ==
  /\ \A c \in Closer : cpc[c] # "nil"
  /\ Goto(r, "cleanup", "done")
  /\ source' = [source EXCEPT ![r] = "closed"]
  /\ UNCHANGED <<panicked, stop, channelVars, events, hears>>

EventReader(r) ==
  /\ kind = "eventviewer"
  /\ SeesStop(r) \/ GoesOn(r, "next") \/ EvtNextFails(r) \/ EvtNextOk(r)
       \/ NapEnds(r) \/ StopsInBatch(r, "event") \/ Renders(r)
       \/ StopsInBatch(r, "queue") \/ QueuesEvent(r) \/ EventCleanup(r)

ReaderStep(r) ==
  /\ JournaldReader(r) \/ MacOSReader(r) \/ SecurityReader(r) \/ EventReader(r)
  /\ UNCHANGED <<kind, enabled, ctxDone, collectVars, closeVars>>

TailStep(r) ==
  /\ SecurityTail(r)
  /\ UNCHANGED <<kind, enabled, ctxDone, collectVars, closeVars>>

-----------------------------------------------------------------------------
(* LogRunner.Run and Collect.                                               *)

MutexHeld == kind = "macos" /\ once = "running"

Cancel ==
  /\ ~ctxDone
  /\ ctxDone' = TRUE
  /\ UNCHANGED <<kind, enabled, panicked, stop, channelVars, readerVars,
                 collectVars, closeVars>>

(* A tick: LogRegistry.Collect calls Collect.  A journald or a security     *)
(* collector that is disabled returns at once, which changes nothing; the   *)
(* event viewer's constructor returned nil, and Collect dereferences it.    *)
Tick ==
  /\ run = "select"
  /\ \/ enabled /\ run' = "lock" /\ UNCHANGED panicked
     \/ ~enabled /\ kind = "eventviewer" /\ panicked' = TRUE /\ UNCHANGED run
  /\ UNCHANGED <<kind, enabled, ctxDone, stop, channelVars, readerVars,
                 fetched, out, closeVars>>

(* mu.Lock() and the check that the collector has started.                  *)
BeginCollect ==
  /\ run = "lock" /\ ~MutexHeld
  /\ run' = IF \E r \in Reader : rpc[r] = "start" THEN "select" ELSE "collect"
  /\ UNCHANGED <<kind, enabled, ctxDone, panicked, stop, channelVars,
                 readerVars, fetched, out, closeVars>>

(* Mutant of DrainEntry: the entry is read and left in the channel.         *)
DrainEntry_Peeks ==
  /\ run = "collect" /\ lines # <<>> /\ Len(fetched) < MaxEntry
  /\ fetched' = Append(fetched, Head(lines))
  /\ UNCHANGED <<kind, enabled, ctxDone, panicked, stop, channelVars,
                 readerVars, run, out, closeVars>>

DrainEntry ==
  /\ run = "collect" /\ lines # <<>>
  /\ fetched' = Append(fetched, Head(lines))
  /\ lines' = Tail(lines)
  /\ UNCHANGED <<kind, enabled, ctxDone, panicked, stop, last, linesClosed,
                 readerVars, run, out, closeVars>>

(* Collect returns: with the channel empty or closed, or, in the three that *)
(* look at the context, once it is cancelled.  Then two of them return an   *)
(* error too, and LogRegistry.Collect discards what they return with it.    *)
EndCollect ==
  /\ run = "collect"
  /\ run' = "select" /\ fetched' = <<>>
  /\ \/ /\ lines = <<>>
        /\ ctxDone => linesClosed \/ kind = "security"
        /\ out' = out \o fetched
     \/ /\ ctxDone /\ kind # "security"
        /\ out' = IF kind = "eventviewer" THEN out \o fetched ELSE out
  /\ UNCHANGED <<kind, enabled, ctxDone, panicked, stop, channelVars,
                 readerVars, closeVars>>

(* Run returns when the context is done; its defer calls Close.             *)
Leave ==
  /\ run = "select" /\ ctxDone
  /\ run' = "left"
  /\ cpc' = [cpc EXCEPT ![Runner] = "call"]
  /\ UNCHANGED <<kind, enabled, ctxDone, panicked, stop, channelVars,
                 readerVars, fetched, out, once>>

RunnerStep == BeginCollect \/ DrainEntry \/ EndCollect

-----------------------------------------------------------------------------
(* Close.                                                                   *)

ReadersDone == \A r \in Reader : rpc[r] = "done"

Moves(c, from, to) == cpc[c] = from /\ cpc' = [cpc EXCEPT ![c] = to]

(* close(stop)                                                              *)
ClosesStop == stop' = "closed" /\ panicked' = (stop = "closed")

OtherCall(c) ==
  /\ c \in OtherClosers
  /\ Moves(c, "away", "call")
  /\ UNCHANGED <<once, stop, panicked, source, linesClosed>>

(* once.Do for a caller that comes later: it waits for the first one.       *)
LaterCall(c) ==
  /\ kind # "security" /\ once = "done"
  /\ Moves(c, "call", "returned")
  /\ UNCHANGED <<once, stop, panicked, source, linesClosed>>

(* A journald collector that is disabled has no journal to close.           *)
CloseDisabled(c) ==
  /\ kind = "journald" /\ ~enabled /\ once = "no"
  /\ Moves(c, "call", "returned") /\ once' = "done"
  /\ UNCHANGED <<stop, panicked, source, linesClosed>>

(* once is a field of the nil pointer.                                      *)
CloseNil(c) ==
  /\ kind = "eventviewer" /\ ~enabled
  /\ cpc[c] = "call"
  /\ panicked' = TRUE
  /\ UNCHANGED <<cpc, once, stop, source, linesClosed>>

(* Mutant of JournaldClose: without sync.Once.                              *)
JournaldClose_Twice(c) ==
  /\ kind = "journald" /\ enabled
  /\ Moves(c, "call", "wait") /\ once' = "running"
  /\ ClosesStop
  /\ UNCHANGED <<source, linesClosed>>

JournaldClose(c) ==
  /\ kind = "journald" /\ enabled /\ once = "no"
  /\ Moves(c, "call", "wait") /\ once' = "running"
  /\ ClosesStop
  /\ UNCHANGED <<source, linesClosed>>

(* It keeps the mutex until it returns.  A log stream that has not started  *)
(* yet is not killed here: its reader will see the stop.                    *)
MacOSClose(c) ==
  /\ kind = "macos" /\ once = "no"
  /\ Moves(c, "call", "wait") /\ once' = "running"
  /\ ClosesStop
  /\ source' = [r \in Reader |-> "closed"]
  /\ UNCHANGED linesClosed

(* No sync.Once: the tailer is nil once the reader is past its cleanup.     *)
SecurityClose(c) ==
  /\ kind = "security"
  /\ \/ /\ \A r \in Reader : source[r] = "closed"
        /\ Moves(c, "call", "returned")
        /\ UNCHANGED <<stop, panicked>>
     \/ /\ \E r \in Reader : source[r] = "open"
        /\ Moves(c, "call", "wait")
        /\ ClosesStop
  /\ UNCHANGED <<once, source, linesClosed>>

(* close(e.stop); e.stop = nil                                              *)
EventClose(c) ==
  /\ kind = "eventviewer" /\ enabled
  /\ \/ /\ once = "no" /\ Moves(c, "call", "nil") /\ once' = "running"
        /\ ClosesStop
     \/ /\ Moves(c, "nil", "wait") /\ stop' = "nil"
        /\ UNCHANGED <<once, panicked>>
  /\ UNCHANGED <<source, linesClosed>>

(* Mutant of WaitEnds: no timeout.                                          *)
WaitEnds_NoTimeout == ReadersDone

(* Mutant of WaitEnds: Close does not wait for the reader.                  *)
WaitEnds_AtOnce == TRUE

(* wg.Wait(), which only the event viewer bounds, with five seconds.        *)
WaitEnds == ReadersDone \/ kind = "eventviewer"

(* macos closes lines; the event viewer closes the handles that are open.   *)
ReturnsFromClose(c) ==
  /\ WaitEnds
  /\ Moves(c, "wait", "returned")
  /\ once' = IF kind = "security" THEN once ELSE "done"
  /\ IF kind = "macos"
     THEN linesClosed' = TRUE /\ panicked' = linesClosed
     ELSE UNCHANGED <<linesClosed, panicked>>
  /\ source' = IF kind = "eventviewer" THEN [r \in Reader |-> "closed"]
               ELSE source
  /\ UNCHANGED stop

CloserStep(c) ==
  /\ LaterCall(c) \/ CloseDisabled(c) \/ CloseNil(c) \/ JournaldClose(c)
       \/ MacOSClose(c) \/ SecurityClose(c) \/ EventClose(c)
       \/ ReturnsFromClose(c)
  /\ UNCHANGED <<kind, enabled, ctxDone, lines, last, rpc, events, hears,
                 collectVars>>

CallsClose(c) ==
  /\ OtherCall(c)
  /\ UNCHANGED <<kind, enabled, ctxDone, lines, last, rpc, events, hears,
                 collectVars>>

-----------------------------------------------------------------------------
(* A panic ends the process.                                                *)
Next ==
  /\ ~panicked
  /\ \/ \E r \in Reader : ReaderStep(r) \/ TailStep(r)
     \/ \E c \in Closer : CallsClose(c) \/ CloserStep(c)
     \/ Cancel \/ Tick \/ RunnerStep \/ Leave

(* ReadString waits for as long as the log stream is silent.                *)
Silent(r) == kind = "macos" /\ rpc[r] = "read" /\ source[r] = "open"

(* Goroutines that can run do so, the ticker ticks, and a select that finds *)
(* several cases ready picks each of them now and then.                     *)
Fairness ==
  /\ \A r \in Reader : WF_vars(~panicked /\ ReaderStep(r) /\ ~Silent(r))
  /\ \A c \in Closer : WF_vars(~panicked /\ CloserStep(c))
  /\ WF_vars(~panicked /\ Tick)
  /\ WF_vars(~panicked /\ RunnerStep)
  /\ SF_vars(~panicked /\ Leave)

Spec == Init /\ [][Next]_vars /\ Fairness

-----------------------------------------------------------------------------
Entries == out \o fetched \o lines

(* Readers, the channel and Collect together hand entries over in the order *)
(* they were offered, and none of them twice.                               *)
InOrder == \A i, j \in DOMAIN Entries : i < j => Entries[i] < Entries[j]

(* The two collectors whose readers wait for room lose no entry before the  *)
(* context is cancelled.  (Then Collect returns an error, and the entries   *)
(* it fetched are discarded by the registry.)                               *)
Lossless ==
  kind \in {"journald", "macos"} /\ ~ctxDone =>
    Entries = [i \in 1..last |-> i]

(* With their sync.Once, the journald and the event viewer collectors       *)
(* survive any number of calls of Close, at any time.                       *)
OnceProtects == enabled /\ kind \in {"journald", "eventviewer"} => ~panicked

(* Once a call of Close has returned nothing that a reader opened stays     *)
(* open; no path out of a batch forgets the event handles that are left;    *)
(* and the readers of all but the event viewer have left their loops.       *)
CloseReleases ==
  /\ (\E c \in Closer : cpc[c] = "returned") =>
       \A r \in Reader :
         /\ source[r] = "closed"
         /\ kind # "eventviewer" => rpc[r] \in {"closing", "done"}
  /\ \A r \in Reader : events[r] > 0 => rpc[r] \in {"event", "queue"}

(* A reader that waits for room which no Collect will make: the runner has  *)
(* left, or the mutex that Close holds keeps it from beginning one.         *)
ReaderStuck ==
  /\ \E r \in Reader : rpc[r] = "send" /\ Len(lines) = LinesCap
  /\ run = "left" \/ (MutexHeld /\ run # "collect")

(* Such a reader is never rescued, by whatever other goroutines do, and     *)
(* neither is a call of Close that waits for it: what CloseReturns excepts  *)
(* is a deadlock.                                                           *)
StuckForGood ==
  [][ReaderStuck =>
       /\ ReaderStuck'
       /\ \A c \in Closer : cpc[c] = "wait" => cpc'[c] = "wait"]_vars

(* Close returns, unless it waits for a reader that is stuck so.  A full    *)
(* channel alone does not hold it up as long as the runner keeps            *)
(* collecting, and a reader of the event viewer that missed the stop does   *)
(* not at all.                                                              *)
CloseReturns ==
  \A c \in Closer :
    cpc[c] = "call" ~> cpc[c] = "returned" \/ panicked \/ ReaderStuck

(* "Close stops the background reader and closes the journal handle."       *)
(* (journald_linux.go:207)                                                  *)
ReaderFinishes ==
  \A c \in Closer :
    cpc[c] = "call" ~> \A r \in Reader : rpc[r] = "done" /\ source[r] = "closed"
=============================================================================

---------------------------- MODULE ConnManagers ----------------------------
(***************************************************************************)
(* The manageConnection goroutines of the three senders, sharing the       *)
(* connection of GrpcConn:                                                 *)
(*   internal/metrics/metricsender/sender.go   the metric sender M, which  *)
(*     also reads the server's commands, executes the global disconnect    *)
(*     and answers the other commands, reconnecting on its own to do so;   *)
(*   internal/processes/processsender/processsender.go                     *)
(*   internal/logger/logsender/sender.go       write-only senders, whose   *)
(*     manager only looks at the pause deadline and at `stream == nil'.    *)
(*                                                                         *)
(* An action is the code from one blocking call (sleep, WaitForResume,     *)
(* GetGRPCConn, opening a stream, Recv, Send) to the next, but for a call  *)
(* of GetGRPCConn that replaces the connection, which is two.  `stream' is *)
(* the s.stream field the workers also read: nil, a stream that still      *)
(* works (the ClientConn it was opened on), or one that is dead though the *)
(* field still points to it.                                               *)
(*                                                                         *)
(* Network faults are possible until `calm' becomes true, which it may     *)
(* never do: liveness is stated for what happens once it is.               *)
(***************************************************************************)
EXTENDS GrpcConn

CONSTANTS
  M,                \* the metric sender
  ProcessSenders,   \* the process sender, if it runs
  LogSenders,       \* the log sender, if it runs
  NoStream,         \* s.stream == nil
  DeadStream,       \* s.stream points to a stream that has ended
  MaxBackoff        \* cap of the reconnect delay, in units of its initial value

StreamSenders == ProcessSenders \cup LogSenders
Senders == {M} \cup StreamSenders

ASSUME SendersAssumption ==
  /\ M \notin StreamSenders
  /\ ProcessSenders \cap LogSenders = {}
ASSUME StreamAssumption ==
  /\ NoStream \notin Conn
  /\ DeadStream \notin Conn
  /\ NoStream # DeadStream
ASSUME MaxBackoffAssumption == MaxBackoff \in Nat \ {0}

VARIABLES
  pc,         \* where the goroutine of each sender is blocked
  cc,         \* s.cc
  stream,     \* s.stream
  backoff,    \* the local variable of manageConnection
  lastPause,  \* the local variable of the process and log managers
  attempt,    \* attempt of sendCommandResponseWithRetry, 0 outside it
  sent,       \* times the current command's response was written to a stream
  opened,     \* history: senders that opened a stream since a GetGRPCConn that
              \* is still running found the singleton broken
  calm        \* the network has no more faults

managerVars ==
  <<pc, cc, stream, backoff, lastPause, attempt, sent, opened, calm>>
vars == <<connVars, managerVars>>

MaxAttempts == 3

MetricPc ==
  {"wait", "dial", "replace", "open", "recv", "pausing", "lost", "sleep",
   "command", "respond", "rclose", "rdial", "rreplace", "ropen", "rcancel",
   "rsleep"}
StreamPc == {"top", "wait", "dial", "replace", "open", "nap", "sleep"}

TypeOK ==
  /\ ConnTypeOK
  /\ pc \in [Senders -> MetricPc \cup StreamPc]
  /\ pc[M] \in MetricPc
  /\ \A s \in StreamSenders : pc[s] \in StreamPc
  /\ cc \in [Senders -> Conn \cup {NoConn}]
  /\ stream \in [Senders -> Conn \cup {NoStream, DeadStream}]
  /\ backoff \in [Senders -> 1..MaxBackoff]
  /\ lastPause \in [StreamSenders -> 0..MaxPause]
  /\ attempt \in 0..MaxAttempts
  /\ sent \in Nat
  /\ opened \in SUBSET Senders
  /\ calm \in BOOLEAN

Init ==
  /\ ConnInit
  /\ pc = [s \in Senders |-> IF s = M THEN "wait" ELSE "top"]
  /\ cc = [s \in Senders |-> NoConn]
  /\ stream = [s \in Senders |-> NoStream]
  /\ backoff = [s \in Senders |-> 1]
  /\ lastPause = [s \in StreamSenders |-> 0]
  /\ attempt = 0
  /\ sent = 0
  /\ opened = {}
  /\ calm = FALSE

-----------------------------------------------------------------------------
(* Helpers.                                                                 *)

Live(s) == stream[s] \in Conn

Goto(s, from, to) == pc[s] = from /\ pc' = [pc EXCEPT ![s] = to]

(* The streams f once the library has ended those whose connection is not   *)
(* ready after the step.                                                    *)
Ended(f) == [s \in Senders |->
               IF f[s] \in Conn /\ cstate'[f[s]] # "ready"
               THEN DeadStream ELSE f[s]]

(* Mutants of Grow, for the checks: no cap; starting over at the cap.       *)
Grow_Uncapped(b)   == 2 * b
Grow_StartsOver(b) == IF 2 * b > MaxBackoff THEN 1 ELSE 2 * b

(* The delay is doubled after each sleep and never exceeds the cap.         *)
Grow(b) == IF 2 * b > MaxBackoff THEN MaxBackoff ELSE 2 * b

(* GetGRPCConn, called by s: identifiers another sender still holds are not *)
(* free for a new ClientConn.                                               *)
Unheld(s) == {c \in Conn : \A t \in Senders \ {s} : cc[t] # c}

(* It is called at `at', and has found the singleton broken at `found'.     *)
GetLooks(s, at, found) ==
  /\ Goto(s, at, found)
  /\ GetFindsBroken
  /\ UNCHANGED <<cc, stream, opened>>

GetReturns(s, at, found, next) ==
  \/ ~replacing /\ Goto(s, at, next)
  \/ Goto(s, found, next)

DialsOk(s) ==
  /\ \/ GetReuses
     \/ \E c \in Unheld(s) : GetDials(c)
  /\ cc' = [cc EXCEPT ![s] = conn']
  /\ stream' = Ended(stream)
  /\ opened' = {}

DialFails ==
  /\ ~calm
  /\ GetFails
  /\ stream' = Ended(stream)
  /\ opened' = {}
  /\ UNCHANGED cc

(* A stream of s is open.                                                   *)
NoteOpened(s) == opened' = IF replacing THEN opened \cup {s} ELSE {}

-----------------------------------------------------------------------------
(* Steps that are the same in the three manageConnection loops.             *)

Online(s) == IF s = M THEN "recv" ELSE "nap"
Top(s)    == IF s = M THEN "wait" ELSE "top"

(* Mutant of Dial: the stream is opened even when the sender has one.       *)
Dial_AlwaysOpens(s) ==
  /\ \/ GetLooks(s, "dial", "replace")
     \/ GetReturns(s, "dial", "replace", "open") /\ DialsOk(s)
     \/ GetReturns(s, "dial", "replace", "sleep") /\ DialFails
  /\ UNCHANGED <<backoff, lastPause, attempt, sent, calm>>

(* cc, err := grpcconn.GetGRPCConn(s.cfg), and the look at s.stream.        *)
Dial(s) ==
  /\ \/ GetLooks(s, "dial", "replace")
     \/ /\ GetReturns(s, "dial", "replace",
                       IF stream[s] = NoStream THEN "open" ELSE Online(s))
        /\ DialsOk(s)
     \/ GetReturns(s, "dial", "replace", "sleep") /\ DialFails
  /\ UNCHANGED <<backoff, lastPause, attempt, sent, calm>>

(* s.client.Stream(s.ctx) blocks until the connection is ready.             *)
OpenOk(s) ==
  /\ Goto(s, "open", Online(s))
  /\ cstate[cc[s]] = "ready"
  /\ stream' = [stream EXCEPT ![s] = cc[s]]
  /\ NoteOpened(s)
  /\ backoff' = [backoff EXCEPT ![s] = 1]
  /\ UNCHANGED <<connVars, cc, lastPause, attempt, sent, calm>>

OpenFails(s) ==
  /\ Goto(s, "open", "sleep")
  /\ cstate[cc[s]] \in {"failed", "closed"}
  /\ UNCHANGED <<connVars, cc, stream, backoff, lastPause, attempt, sent,
                 opened, calm>>

(* time.Sleep(backoff) is over: grow the delay and start again.             *)
Sleep(s) ==
  /\ Goto(s, "sleep", Top(s))
  /\ backoff' = [backoff EXCEPT ![s] = Grow(@)]
  /\ UNCHANGED <<connVars, cc, stream, lastPause, attempt, sent,
                 opened, calm>>

-----------------------------------------------------------------------------
(* The rest of the metric manager's loop, and manageReceive.                *)

MetricWait ==
  /\ WaitForResume
  /\ IF signals > 0
     THEN /\ Goto(M, "wait", "wait")
          /\ signals' = signals - 1
          /\ stream' = [stream EXCEPT ![M] = NoStream]
          /\ backoff' = [backoff EXCEPT ![M] = 1]
     ELSE /\ Goto(M, "wait", "dial")
          /\ UNCHANGED <<signals, stream, backoff>>
  /\ UNCHANGED <<conn, replacing, cstate, epoch, paused, pausing>>
  /\ UNCHANGED <<cc, lastPause, attempt, sent, opened, calm>>

RecvError ==
  /\ Goto(M, "recv", "lost")
  /\ ~Live(M)
  /\ UNCHANGED <<connVars, cc, stream, backoff, lastPause, attempt, sent,
                 opened, calm>>

(* control/disconnect.  MaxPause bounds how many the server sends.          *)
RecvDisconnect ==
  /\ Goto(M, "recv", "pausing")
  /\ Live(M)
  /\ epoch < MaxPause
  /\ UNCHANGED <<connVars, cc, stream, backoff, lastPause, attempt, sent,
                 opened, calm>>

(* Any other command.                                                       *)
RecvCommand ==
  /\ Goto(M, "recv", "command")
  /\ Live(M)
  /\ UNCHANGED <<connVars, cc, stream, backoff, lastPause, attempt, sent,
                 opened, calm>>

(* command.HandleCommand returns a response, whatever the command: the type *)
(* is unknown, the program is not allowed or cannot be written or started,  *)
(* or it has ended.  Nothing bounds the time that takes.                    *)
HandleCommand ==
  /\ Goto(M, "command", "respond")
  /\ attempt' = 1
  /\ sent' = 0
  /\ UNCHANGED <<connVars, cc, stream, backoff, lastPause, opened, calm>>

(* grpcconn.PauseConnections(pauseDuration), then return.                   *)
Pausing ==
  /\ pc[M] = "pausing"
  /\ \/ (PauseSet \/ PauseClose) /\ UNCHANGED pc
     \/ PauseSignal /\ Goto(M, "pausing", "lost")
  /\ stream' = Ended(stream)
  /\ UNCHANGED <<cc, backoff, lastPause, attempt, sent, opened, calm>>

(* Mutant of MetricLost: s.stream is not cleared.                           *)
MetricLost_KeepsStream ==
  /\ Goto(M, "lost", "sleep")
  /\ UNCHANGED <<connVars, cc, stream, backoff, lastPause, attempt, sent,
                 opened, calm>>

MetricLost ==
  /\ Goto(M, "lost", "sleep")
  /\ stream' = [stream EXCEPT ![M] = NoStream]
  /\ UNCHANGED <<connVars, cc, backoff, lastPause, attempt, sent,
                 opened, calm>>

-----------------------------------------------------------------------------
(* sendCommandResponseWithRetry and reconnectStream.                        *)

RespondOk ==
  /\ Goto(M, "respond", "recv")
  /\ Live(M)
  /\ sent' = sent + 1
  /\ attempt' = 0
  /\ UNCHANGED <<connVars, cc, stream, backoff, lastPause, opened, calm>>

RespondFails ==
  /\ Goto(M, "respond", "rclose")
  /\ ~Live(M)
  /\ UNCHANGED <<connVars, cc, stream, backoff, lastPause, attempt, sent,
                 opened, calm>>

(* The write is still blocked after 5 seconds.  Nothing cancels it: it may  *)
(* complete after all, until the connection is closed by reconnectStream.   *)
RespondTimeout ==
  /\ ~calm
  /\ Goto(M, "respond", "rclose")
  /\ Live(M)
  /\ sent' \in {sent, sent + 1}
  /\ UNCHANGED <<connVars, cc, stream, backoff, lastPause, attempt,
                 opened, calm>>

ReconnectClose ==
  /\ Goto(M, "rclose", "rdial")
  /\ CloseHandle(cc[M])
  /\ stream' = Ended(stream)
  /\ UNCHANGED <<cc, backoff, lastPause, attempt, sent, opened, calm>>

ReconnectDial ==
  /\ \/ GetLooks(M, "rdial", "rreplace")
     \/ GetReturns(M, "rdial", "rreplace", "ropen") /\ DialsOk(M)
     \/ GetReturns(M, "rdial", "rreplace", "rsleep") /\ DialFails
  /\ UNCHANGED <<backoff, lastPause, attempt, sent, calm>>

ReconnectOpenOk ==
  /\ Goto(M, "ropen", "rcancel")
  /\ cstate[cc[M]] = "ready"
  /\ stream' = [stream EXCEPT ![M] = cc[M]]
  /\ NoteOpened(M)
  /\ UNCHANGED <<connVars, cc, backoff, lastPause, attempt, sent, calm>>

(* The connection failed, or the 10 seconds of ctx are over.                *)
ReconnectOpenFails ==
  /\ Goto(M, "ropen", "rsleep")
  /\ cstate[cc[M]] \in {"failed", "closed"} \/ ~calm
  /\ UNCHANGED <<connVars, cc, stream, backoff, lastPause, attempt, sent,
                 opened, calm>>

(* Mutant of ReconnectCancel: the new stream outlives the function.         *)
ReconnectCancel_Never ==
  /\ Goto(M, "rcancel", "rsleep")
  /\ UNCHANGED <<connVars, cc, stream, backoff, lastPause, attempt, sent,
                 opened, calm>>

(* The deferred cancel() of the context the stream was opened with.         *)
ReconnectCancel ==
  /\ Goto(M, "rcancel", "rsleep")
  /\ stream' = [stream EXCEPT ![M] = DeadStream]
  /\ UNCHANGED <<connVars, cc, backoff, lastPause, attempt, sent,
                 opened, calm>>

RespondAgain ==
  /\ \/ /\ attempt < MaxAttempts
        /\ Goto(M, "rsleep", "respond")
        /\ attempt' = attempt + 1
     \/ /\ attempt = MaxAttempts
        /\ Goto(M, "rsleep", "recv")
        /\ attempt' = 0
  /\ UNCHANGED <<connVars, cc, stream, backoff, lastPause, sent,
                 opened, calm>>

-----------------------------------------------------------------------------
(* The rest of the process and log managers' loops.                         *)

(* Mutant of StreamTop: the pause is noted but the stream is kept.          *)
StreamTop_KeepsStream(s) ==
  /\ Goto(s, "top", "wait")
  /\ lastPause' = [lastPause EXCEPT ![s] = GetPauseUntil]
  /\ UNCHANGED <<connVars, cc, stream, backoff, attempt, sent, opened, calm>>

(* Tear the stream down once for each new pause deadline.                   *)
StreamTop(s) ==
  /\ Goto(s, "top", "wait")
  /\ IF GetPauseUntil > lastPause[s]
     THEN /\ stream' = [stream EXCEPT ![s] = NoStream]
          /\ backoff' = [backoff EXCEPT ![s] = 1]
          /\ lastPause' = [lastPause EXCEPT ![s] = GetPauseUntil]
     ELSE UNCHANGED <<stream, backoff, lastPause>>
  /\ UNCHANGED <<connVars, cc, attempt, sent, opened, calm>>

StreamWait(s) ==
  /\ Goto(s, "wait", "dial")
  /\ WaitForResume
  /\ UNCHANGED <<connVars, cc, stream, backoff, lastPause, attempt, sent,
                 opened, calm>>

(* Mutant of Nap: the loop goes on without looking for a new pause.         *)
Nap_SkipsCheck(s) ==
  /\ Goto(s, "nap", "wait")
  /\ UNCHANGED <<connVars, cc, stream, backoff, lastPause, attempt, sent,
                 opened, calm>>

(* time.Sleep(time.Second), then look for a new pause.                      *)
Nap(s) ==
  /\ Goto(s, "nap", "top")
  /\ UNCHANGED <<connVars, cc, stream, backoff, lastPause, attempt, sent,
                 opened, calm>>

-----------------------------------------------------------------------------
(* The network, the server and the clock.                                   *)

(* An idle connection connects when an RPC is waiting for it.               *)
NetConnect(c) ==
  /\ \E s \in Senders : pc[s] \in {"open", "ropen"} /\ cc[s] = c
  /\ Connect(c)
  /\ UNCHANGED managerVars

(* A connection attempt ends, one way or the other.                         *)
NetConnected(c) ==
  /\ ConnectOk(c) \/ (~calm /\ ConnectFail(c))
  /\ UNCHANGED managerVars

NetRecover(c) ==
  /\ Recover(c)
  /\ UNCHANGED managerVars

NetBreak(c) ==
  /\ ~calm
  /\ Break(c)
  /\ stream' = Ended(stream)
  /\ UNCHANGED <<pc, cc, backoff, lastPause, attempt, sent, opened, calm>>

(* The server ends one stream and keeps the connection.                     *)
ServerEndsStream(s) ==
  /\ ~calm
  /\ Live(s)
  /\ stream' = [stream EXCEPT ![s] = DeadStream]
  /\ UNCHANGED <<connVars, pc, cc, backoff, lastPause, attempt, sent,
                 opened, calm>>

ClockPassesPause ==
  /\ PauseElapses
  /\ UNCHANGED managerVars

BecomeCalm ==
  /\ ~calm
  /\ calm' = TRUE
  /\ UNCHANGED <<connVars, pc, cc, stream, backoff, lastPause, attempt, sent,
                 opened>>

-----------------------------------------------------------------------------
(* What each goroutine does on its own, and what the server decides.        *)

MetricManager ==
  \/ MetricWait \/ Dial(M) \/ OpenOk(M) \/ OpenFails(M) \/ Sleep(M)
  \/ RecvError \/ Pausing \/ MetricLost
  \/ RespondOk \/ RespondFails \/ RespondTimeout
  \/ ReconnectClose \/ ReconnectDial \/ ReconnectOpenOk \/ ReconnectOpenFails
  \/ ReconnectCancel \/ RespondAgain

StreamManager(s) ==
  \/ StreamTop(s) \/ StreamWait(s) \/ Dial(s) \/ OpenOk(s) \/ OpenFails(s)
  \/ Sleep(s) \/ Nap(s)

ProcessManager(s) == s \in ProcessSenders /\ StreamManager(s)
LogManager(s)     == s \in LogSenders /\ StreamManager(s)

Next ==
  \/ MetricManager
  \/ RecvDisconnect
  \/ RecvCommand
  \/ HandleCommand
  \/ \E s \in ProcessSenders : ProcessManager(s)
  \/ \E s \in LogSenders : LogManager(s)
  \/ \E c \in Conn : NetConnect(c)
  \/ \E c \in Conn : NetConnected(c)
  \/ \E c \in Conn : NetRecover(c)
  \/ \E c \in Conn : NetBreak(c)
  \/ \E s \in Senders : ServerEndsStream(s)
  \/ ClockPassesPause
  \/ BecomeCalm

Spec == Init /\ [][Next]_vars

(* Goroutines that can run are run, a pause deadline is reached, and a      *)
(* connection attempt ends (gRPC bounds it by a timeout).  The server owes  *)
(* nothing, neither does the network before it is calm, and a program that  *)
(* the server has ordered may run for ever.                                 *)
Fairness ==
  /\ WF_vars(MetricManager)
  /\ \A s \in StreamSenders : WF_vars(StreamManager(s))
  /\ \A c \in Conn : WF_vars(NetConnect(c)) /\ WF_vars(NetConnected(c))
  /\ WF_vars(ClockPassesPause)

FairSpec == Spec /\ Fairness

-----------------------------------------------------------------------------
(* Safety.                                                                  *)

(* A stream that works is on the ClientConn that the singleton points to,   *)
(* which is also the one the sender remembers in s.cc: whoever closes       *)
(* either ends it, and no sender keeps writing to a connection the package  *)
(* has forgotten.                                                           *)
StreamsOnSingleton ==
  \A s \in Senders :
    Live(s) => stream[s] = conn /\ stream[s] = cc[s] /\ cstate[conn] = "ready"

(* GetGRPCConn closes a connection that it has seen broken, though it may   *)
(* work again by then: the only streams that can end with it were opened    *)
(* since it looked, and no sender loses one that was working before.        *)
EndsOnlyNewStreams ==
  replacing => \A s \in Senders : Live(s) => s \in opened

(* A process or log manager that has seen the current pause deadline stays  *)
(* in WaitForResume, without a stream, until the deadline has passed.       *)
StreamSenderHonoursPause ==
  \A s \in StreamSenders :
    paused /\ lastPause[s] = epoch => pc[s] = "wait" /\ stream[s] = NoStream

(* Once PauseConnections has returned, the metric manager has no working    *)
(* stream and opens none before the deadline, whatever the other senders    *)
(* do with the shared connection meanwhile.                                 *)
MetricHonoursPause ==
  paused /\ pausing = "no" => pc[M] \in {"lost", "sleep", "wait"} /\ ~Live(M)

(* The response to a command reaches the server at most once, even when an  *)
(* attempt timed out with its write still in progress.                      *)
ResponseAtMostOnce == sent <= 1

(* Only coming online or a new pause resets the reconnect delay: a manager  *)
(* whose attempts fail keeps waiting longer, up to the cap.                 *)
BackoffNeverShrinksOffline ==
  [][\A s \in Senders :
       backoff'[s] < backoff[s]
         => \/ ~Live(s) /\ stream'[s] \in Conn
            \/ s \in StreamSenders /\ lastPause'[s] > lastPause[s]]_vars

-----------------------------------------------------------------------------
(* Liveness.                                                                *)

(* The metric manager waits for a connection that is being established, or  *)
(* just was.                                                                *)
MetricConnecting ==
  pc[M] = "open" /\ conn = cc[M] /\ cstate[cc[M]] \in {"connecting", "ready"}

(* The metric manager gets its stream back again and again once the network *)
(* is calm, after lost streams, pauses and failed responses alike: provided *)
(* that GetGRPCConn, called by another sender, stops at some time to close  *)
(* the connection it is waiting for, which a fair scheduler does not imply, *)
(* and that no command runs for ever, since the manager looks at its stream *)
(* only between commands.                                                   *)
MetricReconnects ==
  /\ <>[]calm
  /\ <>[][MetricConnecting => conn' = conn]_vars
  /\ []<>(pc[M] # "command")
  => []<>Live(M)

(* Every process and log manager notices every pause, wherever it was when  *)
(* the server ordered it, unless the network makes and breaks connections   *)
(* for ever under the one it is waiting for.                                *)
PauseReachesAll ==
  \A s \in StreamSenders : <>[]calm => <>[](lastPause[s] = epoch)

-----------------------------------------------------------------------------
(* Refinement.                                                              *)

(* The s.stream fields as their readers see them.                           *)
cellOf == [s \in Senders |->
             IF stream[s] = NoStream THEN "nil"
             ELSE IF Live(s) THEN "live" ELSE "dead"]

Cell == INSTANCE StreamCell WITH Reopeners <- {M}, cell <- cellOf

(* The managers keep the contract of StreamCell: in particular a process or *)
(* log sender never has a new stream put in the place of a dead one, and    *)
(* one stream is never swapped for another in a single step.                *)
KeepsCellContract == Cell!CellSpec

-----------------------------------------------------------------------------
(* What the repository says and the code does not do.                       *)

(* processsender.go:68-69 "dials + opens the Stream [...] and retries with  *)
(* exponential backoff", likewise logsender/sender.go:40-41: in a calm      *)
(* network a process or log stream that has ended is replaced.              *)
DeadStreamReplaced ==
  \A s \in StreamSenders :
    (calm /\ stream[s] = DeadStream) ~> (stream[s] # DeadStream)

(* sender.go:252 "reconnectStream re-dials and reopens the stream for       *)
(* sendCommandResponseWithRetry" and sender.go:275 "retries CommandResponse *)
(* up to 3 times": with a calm network and attempts left, the response is   *)
(* delivered.                                                               *)
RetryDelivers ==
  (calm /\ pc[M] = "respond" /\ attempt < MaxAttempts) ~> (sent > 0)
=============================================================================

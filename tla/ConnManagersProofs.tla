------------------------- MODULE ConnManagersProofs -------------------------
(***************************************************************************)
(* Theorems about the connection managers, for any number of ClientConns,  *)
(* pauses and write-only senders.                                          *)
(*                                                                         *)
(* IInv is the inductive invariant.  It says what the code relies on but   *)
(* nowhere states: at each place in the three loops, whether s.cc has been *)
(* set, whether s.stream can still be a working stream, and that no        *)
(* manager has noted a pause that was not ordered.                         *)
(***************************************************************************)
EXTENDS ConnManagers, GrpcConnProofs

ManagersTypeOK ==
  /\ pc \in [Senders -> MetricPc \cup StreamPc]
  /\ pc[M] \in MetricPc
  /\ \A s \in StreamSenders : pc[s] \in StreamPc
  /\ cc \in [Senders -> Conn \cup {NoConn}]
  /\ stream \in [Senders -> Conn \cup {NoStream, DeadStream}]
  /\ backoff \in [Senders -> 1..MaxBackoff]
  /\ lastPause \in [StreamSenders -> 0..MaxPause]
  /\ attempt \in 0..MaxAttempts
  /\ sent \in Nat
  /\ opened \in SUBSET Senders
  /\ calm \in BOOLEAN

(* A sender past GetGRPCConn has a connection to open, use or close.        *)
HasCC ==
  \A s \in Senders :
    pc[s] \in {"open", "nap", "recv", "pausing", "lost", "command", "respond",
               "rclose", "rdial", "rreplace", "ropen", "rcancel", "rsleep"}
      => cc[s] \in Conn

PausesSeen ==
  \A s \in StreamSenders :
    /\ lastPause[s] <= epoch
    /\ paused /\ lastPause[s] = epoch => pc[s] = "wait" /\ stream[s] = NoStream

PauseInProgress ==
  /\ pausing # "no" => pc[M] = "pausing"
  /\ pausing = "closed" => ~Live(M)
  /\ paused /\ pausing = "no" => pc[M] \in {"lost", "sleep", "wait"}

(* Where the metric manager, or a retry of the response, has no stream.     *)
MetricOffline ==
  pc[M] \in {"lost", "sleep", "wait", "dial", "replace", "open",
             "rdial", "rreplace", "ropen", "rsleep"}
    => ~Live(M)

(* A response that was, or may have been, written is never tried on a       *)
(* working stream again.                                                    *)
ResponseInv ==
  /\ sent <= 1
  /\ pc[M] = "respond" /\ Live(M) => sent = 0

(* A process or log manager opens a stream only when it has none at all.    *)
OpensFromNil ==
  \A s \in StreamSenders : pc[s] = "open" => stream[s] = NoStream

(* reconnectStream cancels the stream that it has just opened.              *)
CancelsItsStream == pc[M] = "rcancel" => stream[M] # NoStream

IInv ==
  /\ ConnInv
  /\ ManagersTypeOK
  /\ HasCC
  /\ StreamsOnSingleton
  /\ EndsOnlyNewStreams
  /\ PausesSeen
  /\ PauseInProgress
  /\ MetricOffline
  /\ ResponseInv
  /\ OpensFromNil
  /\ CancelsItsStream

-----------------------------------------------------------------------------
(* There are three senders, and only M is not a stream sender.              *)
LEMMA SendersFacts ==
  /\ M \in Senders
  /\ \A s \in StreamSenders : s \in Senders /\ s # M
  /\ \A s \in ProcessSenders : s \in StreamSenders
  /\ \A s \in LogSenders : s \in StreamSenders
  BY SendersAssumption DEF Senders, StreamSenders

(* A step of Next is one of these, whoever takes it.                        *)
LEMMA NextCases ==
  ASSUME [Next]_vars
  PROVE  \/ UNCHANGED vars
         \/ MetricWait \/ RecvError \/ RecvDisconnect \/ RecvCommand
         \/ HandleCommand
         \/ Pausing \/ MetricLost \/ RespondOk \/ RespondFails
         \/ RespondTimeout \/ ReconnectClose \/ ReconnectDial
         \/ ReconnectOpenOk \/ ReconnectOpenFails \/ ReconnectCancel
         \/ RespondAgain \/ ClockPassesPause \/ BecomeCalm
         \/ \E s \in Senders : Dial(s) \/ OpenOk(s) \/ OpenFails(s) \/ Sleep(s)
         \/ \E s \in Senders : ServerEndsStream(s)
         \/ \E s \in StreamSenders : StreamTop(s) \/ StreamWait(s) \/ Nap(s)
         \/ \E c \in Conn : \/ NetConnect(c) \/ NetConnected(c)
                            \/ NetRecover(c) \/ NetBreak(c)
  BY SendersFacts
  DEF Next, MetricManager, StreamManager, ProcessManager, LogManager

(* What the end of a connection does to the streams.                        *)
LEMMA EndedFacts ==
  ASSUME ManagersTypeOK
  PROVE  /\ Ended(stream) \in [Senders -> Conn \cup {NoStream, DeadStream}]
         /\ \A s \in Senders :
              /\ Ended(stream)[s] \in {stream[s], DeadStream}
              /\ Ended(stream)[s] = NoStream <=> stream[s] = NoStream
              /\ Ended(stream)[s] \in Conn
                   => stream[s] \in Conn /\ cstate'[stream[s]] = "ready"
  BY StreamAssumption DEF ManagersTypeOK, Ended

-----------------------------------------------------------------------------
(* The steps of the managers on the shared connection are steps of          *)
(* GrpcConn.                                                                *)
LEMMA StepUsesGrpcConn == IInv /\ [Next]_vars => [ConnNext]_connVars
<1> SUFFICES ASSUME IInv, [Next]_vars PROVE [ConnNext]_connVars
  OBVIOUS
<1>1. CASE UNCHANGED connVars
  BY <1>1
<1>2. CASE MetricWait
  BY <1>2 DEF MetricWait, IInv, ConnInv, ConnTypeOK, DisconnectCap, connVars
<1>3. CASE Pausing
  BY <1>3 DEF Pausing, ConnNext
<1>4. CASE ReconnectClose
  BY <1>4, SendersFacts
  DEF ReconnectClose, Goto, IInv, HasCC, ConnNext
<1>5. CASE ReconnectDial \/ \E s \in Senders : Dial(s)
  BY <1>5
  DEF ReconnectDial, Dial, GetLooks, DialsOk, DialFails, Unheld, ConnNext
<1>6. CASE \E c \in Conn : \/ NetConnect(c) \/ NetConnected(c)
                           \/ NetRecover(c) \/ NetBreak(c)
  BY <1>6 DEF NetConnect, NetConnected, NetRecover, NetBreak, ConnNext
<1>7. CASE ClockPassesPause
  BY <1>7 DEF ClockPassesPause, ConnNext
<1> QED
  BY <1>1, <1>2, <1>3, <1>4, <1>5, <1>6, <1>7, NextCases
  DEF vars, RecvError, RecvDisconnect, RecvCommand, HandleCommand,
      MetricLost, RespondOk,
      RespondFails, RespondTimeout, ReconnectOpenOk, ReconnectOpenFails,
      ReconnectCancel, RespondAgain, BecomeCalm, OpenOk, OpenFails, Sleep,
      ServerEndsStream, StreamTop, StreamWait, Nap

(* Each use that a manager makes of the singleton keeps ConnInv.            *)
LEMMA StepConnInv == IInv /\ [Next]_vars => ConnInv'
  BY StepUsesGrpcConn, ConnNext_Inv DEF IInv

-----------------------------------------------------------------------------
(* The two steps of GetGRPCConn.                                            *)

(* The first changes nothing but the lock and its caller's place.           *)
LEMMA LooksFacts ==
  ASSUME NEW s, NEW at, NEW found, GetLooks(s, at, found)
  PROVE  /\ Goto(s, at, found)
         /\ replacing' /\ ~HaveUsable
         /\ UNCHANGED <<conn, cstate, epoch, paused, pausing, signals>>
         /\ UNCHANGED <<cc, stream, opened>>
  BY DEF GetLooks, GetFindsBroken

(* The second ends every stream whose connection is not ready after it.     *)
LEMMA ReturnsFacts ==
  ASSUME IInv, ConnInv', NEW s \in Senders, DialsOk(s) \/ DialFails
  PROVE  /\ ~replacing' /\ opened' = {}
         /\ stream' = Ended(stream)
         /\ UNCHANGED <<epoch, paused, pausing, signals>>
  BY DEF DialsOk, DialFails, GetReuses, GetDials, GetFails, connVars, IInv,
         ConnInv, ConnTypeOK

(* Where a connection handle comes from.                                    *)
LEMMA DialsOkFacts ==
  ASSUME IInv, ConnInv', NEW s \in Senders, DialsOk(s)
  PROVE  /\ conn' \in Conn
         /\ cc' = [cc EXCEPT ![s] = conn']
         /\ stream' = Ended(stream)
         /\ UNCHANGED <<epoch, paused, pausing, signals>>
  BY DEF DialsOk, GetReuses, GetDials, Unheld, HaveUsable, IInv, ConnInv,
         ConnTypeOK, connVars

(* Each step keeps the types of the managers.                               *)
LEMMA StepManagersType == IInv /\ [Next]_vars => ManagersTypeOK'
<1> SUFFICES ASSUME IInv, [Next]_vars PROVE ManagersTypeOK'
  OBVIOUS
<1> USE SendersFacts
<1>1. ManagersTypeOK /\ ConnTypeOK /\ ConnInv' /\ HasCC
  BY StepConnInv DEF IInv, ConnInv
<1>2. ASSUME NEW s \in Senders,
             Dial(s) \/ OpenOk(s) \/ OpenFails(s) \/ Sleep(s)
      PROVE  ManagersTypeOK'
  <2>1. pc' \in [Senders -> MetricPc \cup StreamPc] /\ pc'[M] \in MetricPc
        /\ \A t \in StreamSenders : pc'[t] \in StreamPc
    BY <1>1, <1>2
    DEF Dial, GetLooks, GetReturns, OpenOk, OpenFails, Sleep, Goto, Online,
        Top, ManagersTypeOK, MetricPc, StreamPc
  <2>2. cc' \in [Senders -> Conn \cup {NoConn}]
    BY <1>1, <1>2, DialsOkFacts
    DEF Dial, GetLooks, DialFails, OpenOk, OpenFails, Sleep, ManagersTypeOK
  <2>3. stream' \in [Senders -> Conn \cup {NoStream, DeadStream}]
    BY <1>1, <1>2, EndedFacts
    DEF Dial, GetLooks, DialsOk, DialFails, OpenOk, OpenFails, Sleep, Goto,
        ManagersTypeOK, HasCC
  <2>4. backoff' \in [Senders -> 1..MaxBackoff]
    BY <1>1, <1>2, MaxBackoffAssumption
    DEF Dial, OpenOk, OpenFails, Sleep, Grow, ManagersTypeOK
  <2>5. opened' \in SUBSET Senders
    BY <1>1, <1>2
    DEF Dial, GetLooks, DialsOk, DialFails, OpenOk, NoteOpened, OpenFails,
        Sleep, ManagersTypeOK
  <2> QED
    BY <1>1, <1>2, <2>1, <2>2, <2>3, <2>4, <2>5
    DEF Dial, OpenOk, OpenFails, Sleep, ManagersTypeOK
<1>3. ASSUME NEW s \in StreamSenders,
             StreamTop(s) \/ StreamWait(s) \/ Nap(s)
      PROVE  ManagersTypeOK'
  <2>1. pc' \in [Senders -> MetricPc \cup StreamPc] /\ pc'[M] \in MetricPc
        /\ \A t \in StreamSenders : pc'[t] \in StreamPc
    BY <1>1, <1>3
    DEF StreamTop, StreamWait, Nap, Goto, ManagersTypeOK, StreamPc
  <2>2. /\ stream' \in [Senders -> Conn \cup {NoStream, DeadStream}]
        /\ backoff' \in [Senders -> 1..MaxBackoff]
        /\ lastPause' \in [StreamSenders -> 0..MaxPause]
    BY <1>1, <1>3, MaxBackoffAssumption
    DEF StreamTop, StreamWait, Nap, GetPauseUntil, ManagersTypeOK, ConnTypeOK
  <2> QED
    BY <1>1, <1>3, <2>1, <2>2 DEF StreamTop, StreamWait, Nap, ManagersTypeOK
<1>4. CASE MetricWait
  <2>1. pc' \in [Senders -> MetricPc \cup StreamPc] /\ pc'[M] \in MetricPc
        /\ \A t \in StreamSenders : pc'[t] \in StreamPc
    BY <1>1, <1>4 DEF MetricWait, Goto, ManagersTypeOK, MetricPc
  <2>2. /\ stream' \in [Senders -> Conn \cup {NoStream, DeadStream}]
        /\ backoff' \in [Senders -> 1..MaxBackoff]
    BY <1>1, <1>4, MaxBackoffAssumption DEF MetricWait, ManagersTypeOK
  <2> QED
    BY <1>1, <1>4, <2>1, <2>2 DEF MetricWait, ManagersTypeOK
<1>5. CASE \/ RecvError \/ RecvDisconnect \/ RecvCommand
           \/ HandleCommand \/ MetricLost
           \/ RespondOk \/ RespondFails \/ RespondTimeout
           \/ ReconnectOpenFails \/ ReconnectCancel \/ RespondAgain
  <2>1. pc' \in [Senders -> MetricPc \cup StreamPc] /\ pc'[M] \in MetricPc
        /\ \A t \in StreamSenders : pc'[t] \in StreamPc
    BY <1>1, <1>5
    DEF RecvError, RecvDisconnect, RecvCommand, HandleCommand, MetricLost,
        RespondOk,
        RespondFails, RespondTimeout, ReconnectOpenFails, ReconnectCancel,
        RespondAgain, Goto, ManagersTypeOK, MetricPc
  <2>2. stream' \in [Senders -> Conn \cup {NoStream, DeadStream}]
    BY <1>1, <1>5
    DEF RecvError, RecvDisconnect, RecvCommand, HandleCommand, MetricLost,
        RespondOk,
        RespondFails, RespondTimeout, ReconnectOpenFails, ReconnectCancel,
        RespondAgain, ManagersTypeOK
  <2>3. attempt' \in 0..MaxAttempts /\ sent' \in Nat
    BY <1>1, <1>5
    DEF RecvError, RecvDisconnect, RecvCommand, HandleCommand, MetricLost,
        RespondOk,
        RespondFails, RespondTimeout, ReconnectOpenFails, ReconnectCancel,
        RespondAgain, ManagersTypeOK, MaxAttempts
  <2> QED
    BY <1>1, <1>5, <2>1, <2>2, <2>3
    DEF RecvError, RecvDisconnect, RecvCommand, HandleCommand, MetricLost,
        RespondOk,
        RespondFails, RespondTimeout, ReconnectOpenFails, ReconnectCancel,
        RespondAgain, ManagersTypeOK
<1>6. CASE Pausing \/ ReconnectClose \/ ReconnectDial \/ ReconnectOpenOk
  <2>1. pc' \in [Senders -> MetricPc \cup StreamPc] /\ pc'[M] \in MetricPc
        /\ \A t \in StreamSenders : pc'[t] \in StreamPc
    BY <1>1, <1>6
    DEF Pausing, ReconnectClose, ReconnectDial, GetLooks, GetReturns,
        ReconnectOpenOk, Goto, ManagersTypeOK, MetricPc
  <2>2. cc' \in [Senders -> Conn \cup {NoConn}]
    BY <1>1, <1>6, DialsOkFacts
    DEF Pausing, ReconnectClose, ReconnectDial, GetLooks, DialFails,
        ReconnectOpenOk, ManagersTypeOK
  <2>3. stream' \in [Senders -> Conn \cup {NoStream, DeadStream}]
    BY <1>1, <1>6, EndedFacts
    DEF Pausing, ReconnectClose, ReconnectDial, GetLooks, DialsOk, DialFails,
        ReconnectOpenOk, Goto, ManagersTypeOK, HasCC
  <2>4. opened' \in SUBSET Senders
    BY <1>1, <1>6
    DEF Pausing, ReconnectClose, ReconnectDial, GetLooks, DialsOk, DialFails,
        ReconnectOpenOk, NoteOpened, ManagersTypeOK
  <2> QED
    BY <1>1, <1>6, <2>1, <2>2, <2>3, <2>4
    DEF Pausing, ReconnectClose, ReconnectDial, ReconnectOpenOk,
        ManagersTypeOK
<1>7. CASE \/ \E c \in Conn : \/ NetConnect(c) \/ NetConnected(c)
                              \/ NetRecover(c) \/ NetBreak(c)
           \/ \E s \in Senders : ServerEndsStream(s)
           \/ ClockPassesPause \/ BecomeCalm \/ UNCHANGED vars
  <2>1. stream' \in [Senders -> Conn \cup {NoStream, DeadStream}]
    BY <1>1, <1>7, EndedFacts
    DEF NetConnect, NetConnected, NetRecover, NetBreak, ServerEndsStream,
        ClockPassesPause, BecomeCalm, managerVars, vars, ManagersTypeOK
  <2>2. calm' \in BOOLEAN
    BY <1>1, <1>7
    DEF NetConnect, NetConnected, NetRecover, NetBreak, ServerEndsStream,
        ClockPassesPause, BecomeCalm, managerVars, vars, ManagersTypeOK
  <2> QED
    BY <1>1, <1>7, <2>1, <2>2
    DEF NetConnect, NetConnected, NetRecover, NetBreak, ServerEndsStream,
        ClockPassesPause, BecomeCalm, managerVars, vars, ManagersTypeOK
<1> QED
  BY <1>2, <1>3, <1>4, <1>5, <1>6, <1>7, NextCases

-----------------------------------------------------------------------------
(* The program counters and s.cc.                                           *)
LEMMA StepHasCC == IInv /\ [Next]_vars => HasCC'
<1> SUFFICES ASSUME IInv, [Next]_vars PROVE HasCC'
  OBVIOUS
<1> USE SendersFacts
<1>1. ManagersTypeOK /\ ConnInv' /\ HasCC
  BY StepConnInv DEF IInv
<1>2. ASSUME NEW s \in Senders, Dial(s) PROVE HasCC'
  BY <1>1, <1>2, DialsOkFacts
  DEF Dial, GetLooks, GetReturns, DialFails, Goto, Online, HasCC,
      ManagersTypeOK
<1>3. ASSUME NEW s \in Senders, OpenOk(s) \/ OpenFails(s) \/ Sleep(s)
      PROVE  HasCC'
  BY <1>1, <1>3 DEF OpenOk, OpenFails, Sleep, Goto, Online, Top, HasCC,
                    ManagersTypeOK
<1>4. ASSUME NEW s \in StreamSenders,
             StreamTop(s) \/ StreamWait(s) \/ Nap(s)
      PROVE  HasCC'
  BY <1>1, <1>4 DEF StreamTop, StreamWait, Nap, Goto, HasCC, ManagersTypeOK
<1>5. CASE ReconnectDial
  BY <1>1, <1>5, DialsOkFacts
  DEF ReconnectDial, GetLooks, GetReturns, DialFails, Goto, HasCC,
      ManagersTypeOK
<1>6. CASE \/ MetricWait \/ RecvError \/ RecvDisconnect \/ RecvCommand
           \/ HandleCommand
           \/ MetricLost \/ RespondOk \/ RespondFails \/ RespondTimeout
           \/ ReconnectOpenFails \/ ReconnectCancel \/ RespondAgain
           \/ Pausing \/ ReconnectClose \/ ReconnectOpenOk
  BY <1>1, <1>6
  DEF MetricWait, RecvError, RecvDisconnect, RecvCommand, HandleCommand,
      MetricLost,
      RespondOk, RespondFails, RespondTimeout, ReconnectOpenFails,
      ReconnectCancel, RespondAgain, Pausing, ReconnectClose, ReconnectOpenOk,
      Goto, HasCC, ManagersTypeOK
<1>7. CASE UNCHANGED <<pc, cc>>
  BY <1>1, <1>7 DEF HasCC
<1> QED
  BY <1>2, <1>3, <1>4, <1>5, <1>6, <1>7, NextCases
  DEF NetConnect, NetConnected, NetRecover, NetBreak, ServerEndsStream,
      ClockPassesPause, BecomeCalm, managerVars, vars

-----------------------------------------------------------------------------
(* A working stream is on the singleton, which is ready.                    *)

(* Once the singleton is not usable there is no working stream.             *)
LEMMA NoStreamWithoutConn ==
  ASSUME IInv, ~HaveUsable
  PROVE  \A s \in Senders : ~Live(s)
  BY NoConnAssumption DEF IInv, StreamsOnSingleton, HaveUsable, Usable, Live

(* Each step keeps every working stream on the singleton.                   *)
LEMMA StepStreams == IInv /\ [Next]_vars => StreamsOnSingleton'
<1> SUFFICES ASSUME IInv, [Next]_vars PROVE StreamsOnSingleton'
  OBVIOUS
<1> USE SendersFacts, StreamAssumption
<1>1. ManagersTypeOK /\ ConnInv /\ ConnInv' /\ HasCC /\ StreamsOnSingleton
  BY StepConnInv DEF IInv
<1>2. ASSUME NEW s \in Senders, GetReuses, cc' = [cc EXCEPT ![s] = conn'],
             stream' = Ended(stream)
      PROVE  StreamsOnSingleton'
  BY <1>1, <1>2, EndedFacts
  DEF GetReuses, connVars, StreamsOnSingleton, Live, ManagersTypeOK
<1>3. ASSUME NEW c \in Conn, GetDials(c) \/ GetFails, stream' = Ended(stream)
      PROVE  StreamsOnSingleton'
  <2>1. \A d \in Conn : cstate'[d] # "ready"
    BY <1>1, <1>3, ClosedAll DEF GetDials, GetFails
  <2> QED
    BY <1>1, <1>3, <2>1, EndedFacts DEF StreamsOnSingleton, Live
<1>4. ASSUME NEW s \in Senders, DialsOk(s) \/ DialFails
      PROVE  StreamsOnSingleton'
  <2>1. CASE GetFails /\ stream' = Ended(stream)
    <3>1. \A d \in Conn : cstate'[d] # "ready"
      BY <1>1, <2>1, ClosedAll DEF GetFails
    <3> QED
      BY <1>1, <2>1, <3>1, EndedFacts DEF StreamsOnSingleton, Live
  <2> QED
    BY <1>2, <1>3, <1>4, <2>1 DEF DialsOk, DialFails, Unheld
<1>5. ASSUME NEW s \in Senders, cstate[cc[s]] = "ready", cc[s] \in Conn,
             stream' = [stream EXCEPT ![s] = cc[s]], UNCHANGED <<connVars, cc>>
      PROVE  StreamsOnSingleton'
  BY <1>1, <1>5
  DEF StreamsOnSingleton, Live, ManagersTypeOK, connVars, ConnInv,
      SingleLiveConn
<1>6. CASE ReconnectOpenOk \/ \E s \in Senders : OpenOk(s)
  BY <1>1, <1>5, <1>6 DEF ReconnectOpenOk, OpenOk, Goto, HasCC
<1>7. ASSUME stream' = Ended(stream), UNCHANGED cc,
             conn' = conn \/ \A c \in Conn : cstate'[c] # "ready"
      PROVE  StreamsOnSingleton'
  BY <1>1, <1>7, EndedFacts DEF StreamsOnSingleton, Live
<1>8. CASE Pausing
  <2>1. conn' = conn \/ \A c \in Conn : cstate'[c] # "ready"
    BY <1>1, <1>8, ClosedAll DEF Pausing, PauseSet, PauseClose, PauseSignal
  <2> QED
    BY <1>7, <1>8, <2>1 DEF Pausing
<1>9. CASE ReconnectClose \/ \E c \in Conn : NetBreak(c)
  BY <1>7, <1>9
  DEF ReconnectClose, CloseHandle, NetBreak, Break, Moves
<1>10. ASSUME UNCHANGED <<conn, cc>>,
              \A c \in Conn : cstate[c] = "ready" => cstate'[c] = "ready",
              \A s \in Senders : stream'[s] \in {stream[s], NoStream, DeadStream}
       PROVE  StreamsOnSingleton'
  BY <1>1, <1>10 DEF StreamsOnSingleton, Live, ManagersTypeOK, ConnInv,
     ConnTypeOK
<1>11. CASE \E c \in Conn : NetConnect(c) \/ NetConnected(c) \/ NetRecover(c)
  <2>1. \A c \in Conn : cstate[c] = "ready" => cstate'[c] = "ready"
    BY <1>1, <1>11
    DEF NetConnect, NetConnected, NetRecover, Connect, ConnectOk, ConnectFail,
        Recover, Moves, ConnInv, ConnTypeOK
  <2>2. UNCHANGED <<conn, cc, stream>>
    BY <1>11
    DEF NetConnect, NetConnected, NetRecover, Connect, ConnectOk, ConnectFail,
        Recover, Moves, managerVars
  <2> QED
    BY <1>10, <2>1, <2>2
<1>12. ASSUME UNCHANGED <<conn, cstate, cc>>,
              \E s \in Senders, x \in {NoStream, DeadStream} :
                stream' = [stream EXCEPT ![s] = x]
       PROVE  StreamsOnSingleton'
  BY <1>1, <1>10, <1>12 DEF ManagersTypeOK
<1>13. CASE \/ MetricWait \/ MetricLost \/ ReconnectCancel
            \/ \E s \in Senders : ServerEndsStream(s)
            \/ \E s \in StreamSenders : StreamTop(s)
  BY <1>10, <1>12, <1>13
  DEF MetricWait, MetricLost, ReconnectCancel, ServerEndsStream, StreamTop,
      connVars
<1>14. CASE UNCHANGED <<conn, cstate, cc, stream>>
  BY <1>10, <1>14
<1>15. CASE ReconnectDial \/ \E s \in Senders : Dial(s)
  BY <1>4, <1>14, <1>15, LooksFacts DEF ReconnectDial, Dial
<1> QED
  BY <1>6, <1>8, <1>9, <1>11, <1>13, <1>14, <1>15, NextCases
  DEF vars, connVars, managerVars, RecvError, RecvDisconnect, RecvCommand,
      HandleCommand,
      RespondOk, RespondFails, RespondTimeout, ReconnectOpenFails,
      RespondAgain, ClockPassesPause, PauseElapses, BecomeCalm, OpenFails,
      Sleep, StreamWait, Nap

-----------------------------------------------------------------------------
(* The streams that GetGRPCConn may end.                                    *)

(* Each step keeps EndsOnlyNewStreams.                                      *)
LEMMA StepEndsOnlyNew == IInv /\ [Next]_vars => EndsOnlyNewStreams'
<1> SUFFICES ASSUME IInv, [Next]_vars PROVE EndsOnlyNewStreams'
  OBVIOUS
<1> USE SendersFacts, StreamAssumption
<1>1. ManagersTypeOK /\ ConnInv' /\ EndsOnlyNewStreams
  BY StepConnInv DEF IInv
<1>2. ASSUME replacing' = replacing, opened' = opened,
             \A s \in Senders : stream'[s] \in {stream[s], NoStream, DeadStream}
      PROVE  EndsOnlyNewStreams'
  BY <1>1, <1>2 DEF EndsOnlyNewStreams, Live
<1>3. ASSUME NEW s \in Senders, NEW at, NEW found, GetLooks(s, at, found)
      PROVE  EndsOnlyNewStreams'
  BY <1>3, LooksFacts, NoStreamWithoutConn DEF EndsOnlyNewStreams, Live
<1>4. ASSUME NEW s \in Senders, DialsOk(s) \/ DialFails
      PROVE  EndsOnlyNewStreams'
  BY <1>1, <1>4, ReturnsFacts DEF EndsOnlyNewStreams
<1>5. CASE ReconnectDial \/ \E s \in Senders : Dial(s)
  BY <1>3, <1>4, <1>5 DEF ReconnectDial, Dial
<1>6. ASSUME NEW s \in Senders, stream' = [stream EXCEPT ![s] = cc[s]],
             NoteOpened(s), replacing' = replacing
      PROVE  EndsOnlyNewStreams'
  <2>1. \A t \in Senders \ {s} : stream'[t] = stream[t]
    BY <1>1, <1>6 DEF ManagersTypeOK
  <2>2. replacing => s \in opened' /\ opened \subseteq opened'
    BY <1>6 DEF NoteOpened
  <2> QED
    BY <1>1, <1>6, <2>1, <2>2 DEF EndsOnlyNewStreams, Live
<1>7. CASE ReconnectOpenOk \/ \E s \in Senders : OpenOk(s)
  BY <1>6, <1>7 DEF ReconnectOpenOk, OpenOk, connVars
<1>8. CASE \/ Pausing \/ ReconnectClose \/ ClockPassesPause
           \/ \E c \in Conn : \/ NetConnect(c) \/ NetConnected(c)
                              \/ NetRecover(c) \/ NetBreak(c)
  <2>1. UNCHANGED <<replacing, opened>>
    BY <1>8
    DEF Pausing, PauseSet, PauseClose, PauseSignal, ReconnectClose,
        CloseHandle, ClockPassesPause, PauseElapses, NetConnect, NetConnected,
        NetRecover, NetBreak, Connect, ConnectOk, ConnectFail, Recover, Break,
        Moves, managerVars
  <2>2. \A s \in Senders : stream'[s] \in {stream[s], DeadStream}
    BY <1>1, <1>8, EndedFacts
    DEF Pausing, ReconnectClose, ClockPassesPause, NetConnect, NetConnected,
        NetRecover, NetBreak, managerVars
  <2> QED
    BY <1>2, <2>1, <2>2
<1>9. CASE \/ MetricWait \/ MetricLost \/ ReconnectCancel
           \/ \E s \in Senders : ServerEndsStream(s)
           \/ \E s \in StreamSenders : StreamTop(s)
  <2>1. UNCHANGED <<replacing, opened>>
    BY <1>9
    DEF MetricWait, MetricLost, ReconnectCancel, ServerEndsStream, StreamTop,
        connVars
  <2>2. \A s \in Senders : stream'[s] \in {stream[s], NoStream, DeadStream}
    BY <1>1, <1>9
    DEF MetricWait, MetricLost, ReconnectCancel, ServerEndsStream, StreamTop,
        ManagersTypeOK
  <2> QED
    BY <1>2, <2>1, <2>2
<1>10. CASE UNCHANGED <<replacing, opened, stream>>
  BY <1>2, <1>10
<1> QED
  BY <1>5, <1>7, <1>8, <1>9, <1>10, NextCases
  DEF vars, connVars, managerVars, RecvError, RecvDisconnect, RecvCommand,
      HandleCommand, RespondOk, RespondFails, RespondTimeout,
      ReconnectOpenFails, RespondAgain, BecomeCalm, OpenFails, Sleep,
      StreamWait, Nap

-----------------------------------------------------------------------------
(* Pauses, as the process and log managers see them.                        *)
LEMMA StepPausesSeen == IInv /\ [Next]_vars => PausesSeen'
<1> SUFFICES ASSUME IInv, [Next]_vars PROVE PausesSeen'
  OBVIOUS
<1> USE SendersFacts, StreamAssumption
<1>1. /\ ManagersTypeOK /\ ConnInv' /\ PausesSeen
      /\ epoch \in Nat /\ epoch' \in Nat
      /\ \A s \in StreamSenders : lastPause[s] \in Nat
  BY StepConnInv, MaxPauseAssumption
  DEF IInv, ConnInv, ConnTypeOK, ManagersTypeOK
<1>2. ASSUME NEW s \in Senders, Dial(s) PROVE PausesSeen'
  <2>1. UNCHANGED <<epoch, paused, lastPause>>
        /\ (stream' = Ended(stream) \/ UNCHANGED stream)
    BY <1>1, <1>2, LooksFacts, ReturnsFacts DEF Dial
  <2>2. pc[s] \in {"dial", "replace"} /\ \A t \in Senders \ {s} : pc'[t] = pc[t]
    BY <1>1, <1>2 DEF Dial, GetLooks, GetReturns, Goto, ManagersTypeOK
  <2> QED
    BY <1>1, <2>1, <2>2, EndedFacts DEF PausesSeen
<1>3. ASSUME NEW s \in Senders, OpenOk(s) \/ OpenFails(s) \/ Sleep(s)
      PROVE  PausesSeen'
  BY <1>1, <1>3
  DEF OpenOk, OpenFails, Sleep, Goto, connVars, PausesSeen, ManagersTypeOK
<1>4. ASSUME NEW s \in StreamSenders, StreamTop(s) PROVE PausesSeen'
  BY <1>1, <1>4
  DEF StreamTop, GetPauseUntil, Goto, connVars, PausesSeen, ManagersTypeOK
<1>5. ASSUME NEW s \in StreamSenders, StreamWait(s) \/ Nap(s)
      PROVE  PausesSeen'
  BY <1>1, <1>5
  DEF StreamWait, WaitForResume, Nap, Goto, connVars, PausesSeen,
      ManagersTypeOK
<1>6. ASSUME UNCHANGED lastPause,
             \A s \in StreamSenders : pc'[s] = pc[s],
             \A s \in StreamSenders :
               stream[s] = NoStream => stream'[s] = NoStream,
             \/ epoch' = epoch + 1
             \/ epoch' = epoch /\ (paused' = FALSE \/ paused' = paused)
      PROVE  PausesSeen'
  BY <1>1, <1>6 DEF PausesSeen
<1>7. CASE Pausing
  <2>1. \/ epoch' = epoch + 1
        \/ epoch' = epoch /\ (paused' = FALSE \/ paused' = paused)
    BY <1>7 DEF Pausing, PauseSet, PauseClose, PauseSignal
  <2>2. /\ UNCHANGED lastPause
        /\ \A s \in StreamSenders : pc'[s] = pc[s]
        /\ \A s \in StreamSenders :
             stream[s] = NoStream => stream'[s] = NoStream
    BY <1>1, <1>7, EndedFacts DEF Pausing, Goto, ManagersTypeOK
  <2> QED
    BY <1>6, <2>1, <2>2
<1>8. CASE \/ MetricWait \/ RecvError \/ RecvDisconnect \/ RecvCommand
           \/ HandleCommand
           \/ MetricLost \/ RespondOk \/ RespondFails \/ RespondTimeout
           \/ ReconnectOpenFails \/ ReconnectCancel \/ RespondAgain
           \/ ReconnectOpenOk
  <2>1. UNCHANGED <<lastPause, epoch, paused>>
    BY <1>8
    DEF MetricWait, RecvError, RecvDisconnect, RecvCommand, HandleCommand,
        MetricLost,
        RespondOk, RespondFails, RespondTimeout, ReconnectOpenFails,
        ReconnectCancel, RespondAgain, ReconnectOpenOk, connVars
  <2>2. /\ \A s \in StreamSenders : pc'[s] = pc[s]
        /\ \A s \in StreamSenders : stream'[s] = stream[s]
    BY <1>1, <1>8
    DEF MetricWait, RecvError, RecvDisconnect, RecvCommand, HandleCommand,
        MetricLost,
        RespondOk, RespondFails, RespondTimeout, ReconnectOpenFails,
        ReconnectCancel, RespondAgain, ReconnectOpenOk, Goto, ManagersTypeOK
  <2> QED
    BY <1>6, <2>1, <2>2
<1>9. CASE ReconnectClose \/ ReconnectDial
  <2>1. UNCHANGED <<lastPause, epoch, paused>>
        /\ (stream' = Ended(stream) \/ UNCHANGED stream)
    BY <1>1, <1>9, LooksFacts, ReturnsFacts
    DEF ReconnectClose, CloseHandle, ReconnectDial
  <2>2. \A s \in StreamSenders : pc'[s] = pc[s]
    BY <1>1, <1>9
    DEF ReconnectClose, ReconnectDial, GetLooks, GetReturns, Goto,
        ManagersTypeOK
  <2> QED
    BY <1>1, <1>6, <2>1, <2>2, EndedFacts
<1>10. CASE \/ \E c \in Conn : \/ NetConnect(c) \/ NetConnected(c)
                               \/ NetRecover(c) \/ NetBreak(c)
            \/ \E s \in Senders : ServerEndsStream(s)
            \/ ClockPassesPause \/ BecomeCalm \/ UNCHANGED vars
  <2>1. /\ UNCHANGED <<lastPause, epoch, pc>>
        /\ paused' = FALSE \/ paused' = paused
    BY <1>10
    DEF NetConnect, NetConnected, NetRecover, NetBreak, Connect, ConnectOk,
        ConnectFail, Recover, Break, Moves, ServerEndsStream, ClockPassesPause,
        PauseElapses, BecomeCalm, connVars, managerVars, vars
  <2>2. \A s \in StreamSenders :
          stream[s] = NoStream => stream'[s] = NoStream
    BY <1>1, <1>10, EndedFacts
    DEF NetConnect, NetConnected, NetRecover, NetBreak, ServerEndsStream,
        Live,
        ClockPassesPause, BecomeCalm, managerVars, vars, ManagersTypeOK
  <2> QED
    BY <1>6, <2>1, <2>2
<1> QED
  BY <1>2, <1>3, <1>4, <1>5, <1>7, <1>8, <1>9, <1>10, NextCases

-----------------------------------------------------------------------------
(* The metric manager: its stream, its pauses and its responses.            *)

MetricInv == PauseInProgress /\ MetricOffline /\ ResponseInv

(* What others do leaves the metric manager alone, or ends its stream.      *)
LEMMA OthersKeepMetricInv ==
  ASSUME IInv, pc'[M] = pc[M], UNCHANGED <<pausing, sent>>,
         paused' = paused \/ paused' = FALSE,
         stream'[M] \in {stream[M], DeadStream}
  PROVE  MetricInv'
  BY StreamAssumption
  DEF IInv, MetricInv, PauseInProgress, MetricOffline, ResponseInv, Live

(* Each step keeps what the metric manager relies on.                       *)
LEMMA StepMetric == IInv /\ [Next]_vars => MetricInv'
<1> SUFFICES ASSUME IInv, [Next]_vars PROVE MetricInv'
  OBVIOUS
<1> USE SendersFacts, StreamAssumption
<1>1. /\ ManagersTypeOK /\ ConnInv /\ ConnInv' /\ HasCC /\ StreamsOnSingleton
      /\ MetricInv /\ PauseInProgress /\ MetricOffline /\ ResponseInv
  BY StepConnInv DEF IInv, MetricInv
<1>2. ASSUME NEW s \in StreamSenders,
             \/ Dial(s) \/ OpenOk(s) \/ OpenFails(s) \/ Sleep(s)
             \/ StreamTop(s) \/ StreamWait(s) \/ Nap(s)
      PROVE  MetricInv'
  <2>1. pc'[M] = pc[M] /\ UNCHANGED <<pausing, paused, sent>>
    BY <1>1, <1>2, LooksFacts, ReturnsFacts
    DEF Dial, GetReturns, OpenOk, OpenFails, Sleep, StreamTop, StreamWait, Nap,
        Goto, connVars, ManagersTypeOK
  <2>2. stream'[M] \in {stream[M], DeadStream}
    BY <1>1, <1>2, EndedFacts
    DEF Dial, GetLooks, DialsOk, DialFails, OpenOk, OpenFails, Sleep, StreamTop,
        StreamWait, Nap, ManagersTypeOK
  <2> QED
    BY <2>1, <2>2, OthersKeepMetricInv
<1>3. CASE \/ \E c \in Conn : \/ NetConnect(c) \/ NetConnected(c)
                              \/ NetRecover(c) \/ NetBreak(c)
           \/ \E s \in Senders : ServerEndsStream(s)
           \/ ClockPassesPause \/ BecomeCalm \/ UNCHANGED vars
  <2>1. /\ UNCHANGED <<pc, pausing, sent>>
        /\ paused' = paused \/ paused' = FALSE
    BY <1>3
    DEF NetConnect, NetConnected, NetRecover, NetBreak, Connect, ConnectOk,
        ConnectFail, Recover, Break, Moves, ServerEndsStream, ClockPassesPause,
        PauseElapses, BecomeCalm, connVars, managerVars, vars
  <2>2. stream'[M] \in {stream[M], DeadStream}
    BY <1>1, <1>3, EndedFacts
    DEF NetConnect, NetConnected, NetRecover, NetBreak, ServerEndsStream,
        ClockPassesPause, BecomeCalm, managerVars, vars, ManagersTypeOK
  <2> QED
    BY <2>1, <2>2, OthersKeepMetricInv
<1>4. CASE Dial(M) \/ ReconnectDial
  <2>1. UNCHANGED <<pausing, paused, sent>>
        /\ (stream' = Ended(stream) \/ UNCHANGED stream)
    BY <1>1, <1>4, LooksFacts, ReturnsFacts DEF Dial, ReconnectDial
  <2>2. \/ /\ pc[M] \in {"dial", "replace"}
           /\ pc'[M] \in {"replace", "open", "recv", "sleep"}
        \/ /\ pc[M] \in {"rdial", "rreplace"}
           /\ pc'[M] \in {"rreplace", "ropen", "rsleep"}
    BY <1>1, <1>4
    DEF Dial, ReconnectDial, GetLooks, GetReturns, Goto, Online,
        ManagersTypeOK
  <2>3. ~Live(M) /\ stream'[M] \notin Conn
    BY <1>1, <2>1, <2>2, EndedFacts DEF MetricOffline, Live
  <2>4. pausing = "no" /\ ~paused
    BY <1>1, <2>2 DEF PauseInProgress, ConnInv, ConnTypeOK
  <2> QED
    BY <1>1, <2>1, <2>2, <2>3, <2>4
    DEF MetricInv, PauseInProgress, MetricOffline, ResponseInv, Live
<1>5. CASE OpenOk(M) \/ OpenFails(M) \/ Sleep(M)
  BY <1>1, <1>5
  DEF OpenOk, OpenFails, Sleep, Goto, Online, Top, connVars, MetricInv,
      PauseInProgress, MetricOffline, ResponseInv, Live, ManagersTypeOK
<1>6. CASE MetricWait \/ RecvError \/ MetricLost
  BY <1>1, <1>6
  DEF MetricWait, WaitForResume, RecvError, MetricLost, Goto, connVars,
      MetricInv, PauseInProgress, MetricOffline, ResponseInv, Live,
      ManagersTypeOK
<1>7. CASE RecvDisconnect \/ RecvCommand \/ HandleCommand
  BY <1>1, <1>7
  DEF RecvDisconnect, RecvCommand, HandleCommand, Goto, connVars, MetricInv,
      PauseInProgress,
      MetricOffline, ResponseInv, Live, ManagersTypeOK
<1>8. CASE Pausing
  <2>1. stream'[M] \in {stream[M], DeadStream} /\ pc[M] = "pausing"
        /\ UNCHANGED sent
    BY <1>1, <1>8, EndedFacts DEF Pausing
  <2>2. CASE PauseSet /\ UNCHANGED pc
    BY <1>1, <2>1, <2>2
    DEF PauseSet, MetricInv, PauseInProgress, MetricOffline, ResponseInv, Live
  <2>3. CASE PauseClose /\ UNCHANGED pc
    <3>1. stream'[M] \notin Conn
      BY <1>1, <1>8, <2>3, ClosedAll, EndedFacts DEF Pausing, PauseClose
    <3> QED
      BY <1>1, <2>1, <2>3, <3>1
      DEF PauseClose, MetricInv, PauseInProgress, MetricOffline, ResponseInv,
          Live
  <2>4. CASE PauseSignal /\ Goto(M, "pausing", "lost")
    BY <1>1, <2>1, <2>4
    DEF PauseSignal, Goto, MetricInv, PauseInProgress, MetricOffline,
        ResponseInv, Live, ManagersTypeOK
  <2> QED
    BY <1>8, <2>2, <2>3, <2>4 DEF Pausing
<1>9. CASE RespondOk \/ RespondFails \/ RespondTimeout
  BY <1>1, <1>9
  DEF RespondOk, RespondFails, RespondTimeout, Goto, connVars, MetricInv,
      PauseInProgress, MetricOffline, ResponseInv, Live, ManagersTypeOK
<1>10. CASE ReconnectClose
  <2>1. stream'[M] \notin Conn
    BY <1>1, <1>10, EndedFacts
    DEF ReconnectClose, CloseHandle, StreamsOnSingleton, Live, ConnInv,
        ConnTypeOK
  <2> QED
    BY <1>1, <1>10, <2>1
    DEF ReconnectClose, CloseHandle, Goto, MetricInv, PauseInProgress,
        MetricOffline, ResponseInv, Live, ManagersTypeOK
<1>11. CASE \/ ReconnectOpenOk \/ ReconnectOpenFails \/ ReconnectCancel
            \/ RespondAgain
  BY <1>1, <1>11
  DEF ReconnectOpenOk, ReconnectOpenFails, ReconnectCancel, RespondAgain,
      Goto,
      connVars, MetricInv, PauseInProgress, MetricOffline, ResponseInv, Live,
      ManagersTypeOK
<1>12. \A s \in Senders : s = M \/ s \in StreamSenders
  BY DEF Senders
<1> QED
  BY <1>2, <1>3, <1>4, <1>5, <1>6, <1>7, <1>8, <1>9, <1>10, <1>11, <1>12,
     NextCases

(* Process and log managers open a stream only when they have none.         *)
LEMMA StepOpensFromNil == IInv /\ [Next]_vars => OpensFromNil'
<1> SUFFICES ASSUME IInv, [Next]_vars PROVE OpensFromNil'
  OBVIOUS
<1> USE SendersFacts, StreamAssumption
<1>1. ManagersTypeOK /\ OpensFromNil
  BY DEF IInv
<1>2. ASSUME NEW s \in Senders, Dial(s) PROVE OpensFromNil'
  <2>1. stream' = Ended(stream) \/ UNCHANGED stream
    BY <1>2 DEF Dial, GetLooks, DialsOk, DialFails
  <2> QED
    BY <1>1, <1>2, <2>1, EndedFacts
    DEF Dial, GetLooks, GetReturns, Goto, Online, OpensFromNil,
        ManagersTypeOK
<1>3. ASSUME NEW s \in Senders, OpenOk(s) \/ OpenFails(s) \/ Sleep(s)
      PROVE  OpensFromNil'
  BY <1>1, <1>3
  DEF OpenOk, OpenFails, Sleep, Goto, Online, Top, OpensFromNil,
      ManagersTypeOK
<1>4. ASSUME NEW s \in StreamSenders,
             StreamTop(s) \/ StreamWait(s) \/ Nap(s)
      PROVE  OpensFromNil'
  BY <1>1, <1>4
  DEF StreamTop, StreamWait, Nap, Goto, OpensFromNil, ManagersTypeOK
<1>5. ASSUME \A s \in StreamSenders :
               /\ pc'[s] = pc[s]
               /\ stream[s] = NoStream => stream'[s] = NoStream
      PROVE  OpensFromNil'
  BY <1>1, <1>5 DEF OpensFromNil
<1>6. CASE \/ MetricWait \/ RecvError \/ RecvDisconnect \/ RecvCommand
           \/ HandleCommand
           \/ MetricLost \/ RespondOk \/ RespondFails \/ RespondTimeout
           \/ ReconnectOpenFails \/ ReconnectCancel \/ RespondAgain
           \/ ReconnectOpenOk
  BY <1>1, <1>5, <1>6
  DEF MetricWait, RecvError, RecvDisconnect, RecvCommand, HandleCommand,
      MetricLost,
      RespondOk, RespondFails, RespondTimeout, ReconnectOpenFails,
      ReconnectCancel, RespondAgain, ReconnectOpenOk, Goto, ManagersTypeOK
<1>7. CASE Pausing \/ ReconnectClose \/ ReconnectDial
  BY <1>1, <1>5, <1>7, EndedFacts
  DEF Pausing, ReconnectClose, ReconnectDial, GetLooks, GetReturns, DialsOk,
      DialFails, Goto, ManagersTypeOK
<1>8. CASE \/ \E c \in Conn : \/ NetConnect(c) \/ NetConnected(c)
                              \/ NetRecover(c) \/ NetBreak(c)
           \/ \E s \in Senders : ServerEndsStream(s)
           \/ ClockPassesPause \/ BecomeCalm \/ UNCHANGED vars
  BY <1>1, <1>5, <1>8, EndedFacts
  DEF NetConnect, NetConnected, NetRecover, NetBreak, ServerEndsStream, Live,
      ClockPassesPause, BecomeCalm, managerVars, vars, ManagersTypeOK
<1> QED
  BY <1>2, <1>3, <1>4, <1>6, <1>7, <1>8, NextCases

(* A retry cancels only a stream that it has opened.                        *)
LEMMA StepCancelsItsStream == IInv /\ [Next]_vars => CancelsItsStream'
<1> SUFFICES ASSUME IInv, [Next]_vars PROVE CancelsItsStream'
  OBVIOUS
<1> USE SendersFacts, StreamAssumption
<1>1. ManagersTypeOK /\ CancelsItsStream /\ HasCC
  BY DEF IInv
<1>2. CASE ReconnectOpenOk
  BY <1>1, <1>2
  DEF ReconnectOpenOk, Goto, HasCC, CancelsItsStream, ManagersTypeOK
<1>3. ASSUME pc'[M] # "rcancel" PROVE CancelsItsStream'
  BY <1>3 DEF CancelsItsStream
<1>4. CASE \/ MetricWait \/ RecvError \/ RecvDisconnect \/ RecvCommand
           \/ HandleCommand
           \/ Pausing \/ MetricLost \/ RespondOk \/ RespondFails
           \/ RespondTimeout \/ ReconnectClose \/ ReconnectDial
           \/ ReconnectOpenFails \/ ReconnectCancel \/ RespondAgain
  BY <1>1, <1>3, <1>4
  DEF MetricWait, RecvError, RecvDisconnect, RecvCommand, HandleCommand,
      Pausing, MetricLost,
      RespondOk, RespondFails, RespondTimeout, ReconnectClose, ReconnectDial,
      GetLooks, GetReturns, ReconnectOpenFails, ReconnectCancel, RespondAgain,
      Goto, ManagersTypeOK
<1>5. ASSUME pc'[M] = "rcancel" => pc[M] = "rcancel",
             stream[M] # NoStream => stream'[M] # NoStream
      PROVE  CancelsItsStream'
  BY <1>1, <1>5 DEF CancelsItsStream
<1>6. ASSUME NEW s \in Senders, Dial(s) PROVE CancelsItsStream'
  <2>1. pc'[M] = "rcancel" => pc[M] = "rcancel"
    BY <1>1, <1>6
    DEF Dial, GetLooks, GetReturns, Goto, Online, ManagersTypeOK
  <2>2. stream' = Ended(stream) \/ UNCHANGED stream
    BY <1>6 DEF Dial, GetLooks, DialsOk, DialFails
  <2> QED
    BY <1>1, <1>5, <2>1, <2>2, EndedFacts
<1>7. ASSUME NEW s \in Senders, OpenOk(s) \/ OpenFails(s) \/ Sleep(s)
      PROVE  CancelsItsStream'
  BY <1>1, <1>5, <1>7
  DEF OpenOk, OpenFails, Sleep, Goto, Online, Top, HasCC, ManagersTypeOK
<1>8. ASSUME NEW s \in StreamSenders,
             StreamTop(s) \/ StreamWait(s) \/ Nap(s)
      PROVE  CancelsItsStream'
  BY <1>1, <1>5, <1>8 DEF StreamTop, StreamWait, Nap, Goto, ManagersTypeOK
<1>9. CASE \/ \E c \in Conn : \/ NetConnect(c) \/ NetConnected(c)
                              \/ NetRecover(c) \/ NetBreak(c)
           \/ \E s \in Senders : ServerEndsStream(s)
           \/ ClockPassesPause \/ BecomeCalm \/ UNCHANGED vars
  BY <1>1, <1>5, <1>9, EndedFacts
  DEF NetConnect, NetConnected, NetRecover, NetBreak, ServerEndsStream, Live,
      ClockPassesPause, BecomeCalm, managerVars, vars, ManagersTypeOK
<1> QED
  BY <1>2, <1>4, <1>6, <1>7, <1>8, <1>9, NextCases

-----------------------------------------------------------------------------
(* The inductive invariant.                                                 *)

(* IInv holds before any manager has run.                                   *)
LEMMA InitIInv == Init => IInv
<1> SUFFICES ASSUME Init PROVE IInv
  OBVIOUS
<1> USE SendersFacts, StreamAssumption
<1>1. ConnInv
  BY ConnInit_Inv DEF Init
<1>2. ManagersTypeOK
  <2>1. pc \in [Senders -> MetricPc \cup StreamPc] /\ pc[M] \in MetricPc
        /\ \A s \in StreamSenders : pc[s] \in StreamPc
    BY DEF Init, MetricPc, StreamPc
  <2>2. backoff \in [Senders -> 1..MaxBackoff]
        /\ lastPause \in [StreamSenders -> 0..MaxPause]
    BY MaxBackoffAssumption, MaxPauseAssumption DEF Init
  <2>3. /\ cc \in [Senders -> Conn \cup {NoConn}]
        /\ stream \in [Senders -> Conn \cup {NoStream, DeadStream}]
        /\ attempt \in 0..MaxAttempts
        /\ sent \in Nat
        /\ opened \in SUBSET Senders
    BY DEF Init, MaxAttempts
  <2>4. calm \in BOOLEAN
    BY DEF Init
  <2> QED
    BY <2>1, <2>2, <2>3, <2>4 DEF ManagersTypeOK
<1>3. /\ \A s \in Senders : ~Live(s)
      /\ paused = FALSE /\ pausing = "no" /\ epoch = 0
  BY DEF Init, ConnInit, Live
<1>4. HasCC /\ OpensFromNil /\ CancelsItsStream
  BY DEF Init, HasCC, OpensFromNil, CancelsItsStream
<1>5. StreamsOnSingleton /\ EndsOnlyNewStreams /\ MetricOffline
  BY <1>3 DEF StreamsOnSingleton, EndsOnlyNewStreams, MetricOffline
<1>6. PausesSeen
  BY <1>3 DEF Init, PausesSeen
<1>7. PauseInProgress /\ ResponseInv
  BY <1>3 DEF Init, PauseInProgress, ResponseInv
<1> QED
  BY <1>1, <1>2, <1>4, <1>5, <1>6, <1>7 DEF IInv

(* Each step keeps all of IInv.                                             *)
LEMMA NextIInv == IInv /\ [Next]_vars => IInv'
  BY StepConnInv, StepManagersType, StepHasCC, StepStreams, StepEndsOnlyNew,
     StepPausesSeen, StepMetric, StepOpensFromNil, StepCancelsItsStream
  DEF IInv, MetricInv

(* IInv holds in every reachable state.                                     *)
THEOREM Invariance == Spec => []IInv
  BY InitIInv, NextIInv, PTL DEF Spec

-----------------------------------------------------------------------------
(* The state is well typed: in particular a manager that closes s.cc or     *)
(* opens a stream on it does so on an existing ClientConn.                  *)
THEOREM TypeCorrect == Spec => []TypeOK
<1>1. IInv => TypeOK
  BY DEF IInv, ConnInv, ManagersTypeOK, TypeOK
<1> QED
  BY <1>1, Invariance, PTL

(* A working stream is always on the ClientConn that the singleton and s.cc *)
(* both point to, so that closing either ends it.                           *)
THEOREM StreamsAreOnSingleton == Spec => []StreamsOnSingleton
  BY Invariance, PTL DEF IInv

(* The streams that a GetGRPCConn ends by closing a connection it has seen  *)
(* broken are all younger than what it saw.                                 *)
THEOREM OnlyNewStreamsEnd == Spec => []EndsOnlyNewStreams
  BY Invariance, PTL DEF IInv

(* At most one ClientConn is open, however the managers dial, close and     *)
(* pause.                                                                   *)
THEOREM ManagersLeakNone == Spec => []SingleLiveConn
  BY Invariance, PTL DEF IInv, ConnInv

(* A process or log manager that has seen a pause stays offline until it is *)
(* over.                                                                    *)
THEOREM StreamSendersPause == Spec => []StreamSenderHonoursPause
<1>1. IInv => StreamSenderHonoursPause
  BY DEF IInv, PausesSeen, StreamSenderHonoursPause
<1> QED
  BY <1>1, Invariance, PTL

(* The metric manager, which executes the pause, is offline from the return *)
(* of PauseConnections to the deadline.                                     *)
THEOREM MetricPauses == Spec => []MetricHonoursPause
<1>1. IInv => MetricHonoursPause
  BY DEF IInv, PauseInProgress, MetricOffline, MetricHonoursPause
<1> QED
  BY <1>1, Invariance, PTL

(* A command's response is written at most once.                            *)
THEOREM AtMostOneResponse == Spec => []ResponseAtMostOnce
<1>1. IInv => ResponseAtMostOnce
  BY DEF IInv, ResponseInv, ResponseAtMostOnce
<1> QED
  BY <1>1, Invariance, PTL

(* The reconnect delay of a manager only goes down when it comes online or  *)
(* notes a new pause.                                                       *)
THEOREM BackoffOffline == Spec => BackoffNeverShrinksOffline
<1> DEFINE Shrinks ==
      \A s \in Senders :
        backoff'[s] < backoff[s]
          => \/ ~Live(s) /\ stream'[s] \in Conn
             \/ s \in StreamSenders /\ lastPause'[s] > lastPause[s]
<1>1. ASSUME IInv, [Next]_vars PROVE [Shrinks]_vars
  <2> USE SendersFacts, StreamAssumption
  <2>1. /\ ManagersTypeOK /\ HasCC /\ MetricOffline /\ OpensFromNil
        /\ epoch \in Nat /\ signals = 0
        /\ \A s \in Senders : backoff[s] \in Nat
        /\ \A s \in StreamSenders : lastPause[s] \in Nat
    BY <1>1, MaxPauseAssumption, MaxBackoffAssumption
    DEF IInv, ConnInv, ConnTypeOK, ManagersTypeOK, DisconnectCap
  <2>2. ASSUME NEW s \in Senders, OpenOk(s) PROVE Shrinks
    <3>1. ~Live(s) /\ stream'[s] \in Conn
      BY <2>1, <2>2
      DEF OpenOk, Goto, HasCC, MetricOffline, OpensFromNil, Senders, Live,
          ManagersTypeOK
    <3>2. \A t \in Senders \ {s} : backoff'[t] = backoff[t]
      BY <2>1, <2>2 DEF OpenOk, ManagersTypeOK
    <3> QED
      BY <2>1, <3>1, <3>2
  <2>3. ASSUME NEW s \in Senders, Sleep(s) PROVE Shrinks
    <3>1. Grow(backoff[s]) >= backoff[s]
      BY <2>1, MaxBackoffAssumption DEF Grow, ManagersTypeOK
    <3>2. backoff' = [backoff EXCEPT ![s] = Grow(backoff[s])]
      BY <2>3 DEF Sleep
    <3>3. Grow(backoff[s]) \in Nat
      BY <2>1, MaxBackoffAssumption DEF Grow
    <3>4. \A t \in Senders : ~(backoff'[t] < backoff[t])
      BY <2>1, <3>1, <3>2, <3>3 DEF ManagersTypeOK
    <3> QED
      BY <3>4
  <2>4. ASSUME NEW s \in StreamSenders, StreamTop(s) PROVE Shrinks
    <3>1. UNCHANGED backoff \/ lastPause'[s] > lastPause[s]
      BY <2>1, <2>4 DEF StreamTop, GetPauseUntil, ManagersTypeOK
    <3>2. \A t \in Senders \ {s} : backoff'[t] = backoff[t]
      BY <2>1, <2>4 DEF StreamTop, ManagersTypeOK
    <3> QED
      BY <2>1, <3>1, <3>2
  <2>5. ASSUME UNCHANGED backoff PROVE Shrinks
    BY <2>1, <2>5
  <2> HIDE DEF Shrinks
  <2>6. CASE MetricWait
    BY <2>1, <2>5, <2>6 DEF MetricWait
  <2>7. ASSUME NEW s \in Senders, Dial(s) \/ OpenFails(s) \/ ServerEndsStream(s)
        PROVE  Shrinks
    BY <2>5, <2>7 DEF Dial, OpenFails, ServerEndsStream
  <2>8. ASSUME NEW s \in StreamSenders, StreamWait(s) \/ Nap(s)
        PROVE  Shrinks
    BY <2>5, <2>8 DEF StreamWait, Nap
  <2>9. ASSUME NEW c \in Conn, \/ NetConnect(c) \/ NetConnected(c)
                               \/ NetRecover(c) \/ NetBreak(c)
        PROVE  Shrinks
    BY <2>5, <2>9
    DEF NetConnect, NetConnected, NetRecover, NetBreak, managerVars
  <2>10. CASE \/ RecvError \/ RecvDisconnect \/ RecvCommand
              \/ HandleCommand \/ Pausing
              \/ MetricLost \/ ClockPassesPause \/ BecomeCalm
    BY <2>5, <2>10
    DEF RecvError, RecvDisconnect, RecvCommand, HandleCommand, Pausing,
        MetricLost,
        ClockPassesPause, BecomeCalm, managerVars
  <2>11. CASE \/ RespondOk \/ RespondFails \/ RespondTimeout \/ RespondAgain
              \/ ReconnectClose \/ ReconnectDial \/ ReconnectOpenOk
              \/ ReconnectOpenFails \/ ReconnectCancel
    BY <2>5, <2>11
    DEF RespondOk, RespondFails, RespondTimeout, RespondAgain, ReconnectClose,
        ReconnectDial, ReconnectOpenOk, ReconnectOpenFails, ReconnectCancel
  <2>12. Shrinks \/ UNCHANGED vars
    BY <1>1, <2>2, <2>3, <2>4, <2>6, <2>7, <2>8, <2>9, <2>10, <2>11, NextCases
  <2> QED
    BY <2>12
<1> QED
  BY <1>1, Invariance, PTL DEF Spec, BackoffNeverShrinksOffline

-----------------------------------------------------------------------------
(* What the findings RetryDelivers and DeadStreamReplaced rest on.          *)

(* A retry of the response finds no working stream.                         *)
RetryOffline == pc[M] = "respond" /\ attempt > 1 => ~Live(M)

(* Each step keeps it: the stream that reconnectStream opened is dead when  *)
(* sendCommandResponseWithRetry comes back to it.                           *)
LEMMA StepRetryOffline == IInv /\ RetryOffline /\ [Next]_vars => RetryOffline'
<1> SUFFICES ASSUME IInv, RetryOffline, [Next]_vars PROVE RetryOffline'
  OBVIOUS
<1> USE SendersFacts, StreamAssumption
<1>1. /\ ManagersTypeOK /\ MetricOffline
  BY DEF IInv
<1>2. ASSUME pc'[M] = "respond" => pc[M] = "respond" /\ UNCHANGED attempt,
             stream'[M] \in {stream[M], DeadStream}
      PROVE  RetryOffline'
  BY <1>2 DEF RetryOffline, Live
<1>3. ASSUME pc'[M] # "respond" PROVE RetryOffline'
  BY <1>3 DEF RetryOffline
<1>4. ASSUME NEW s \in Senders, Dial(s) \/ OpenOk(s) \/ OpenFails(s) \/ Sleep(s)
      PROVE  RetryOffline'
  <2>1. CASE s = M
    BY <1>1, <1>3, <1>4, <2>1
    DEF Dial, GetLooks, GetReturns, OpenOk, OpenFails, Sleep, Goto, Online,
        Top, ManagersTypeOK
  <2>2. CASE s # M
    <3>1. pc'[M] = pc[M] /\ UNCHANGED attempt
      BY <1>1, <1>4, <2>2
      DEF Dial, GetLooks, GetReturns, OpenOk, OpenFails, Sleep, Goto,
          ManagersTypeOK
    <3>2. stream'[M] \in {stream[M], DeadStream}
      BY <1>1, <1>4, <2>2, EndedFacts
      DEF Dial, GetLooks, DialsOk, DialFails, OpenOk, OpenFails, Sleep, ManagersTypeOK
    <3> QED
      BY <1>2, <3>1, <3>2
  <2> QED
    BY <2>1, <2>2
<1>5. ASSUME NEW s \in StreamSenders, StreamTop(s) \/ StreamWait(s) \/ Nap(s)
      PROVE  RetryOffline'
  BY <1>1, <1>2, <1>5 DEF StreamTop, StreamWait, Nap, Goto, ManagersTypeOK
<1>6. CASE \/ \E c \in Conn : \/ NetConnect(c) \/ NetConnected(c)
                              \/ NetRecover(c) \/ NetBreak(c)
           \/ \E s \in Senders : ServerEndsStream(s)
           \/ ClockPassesPause \/ BecomeCalm \/ UNCHANGED vars
  <2>1. UNCHANGED <<pc, attempt>>
    BY <1>6
    DEF NetConnect, NetConnected, NetRecover, NetBreak, ServerEndsStream,
        ClockPassesPause, BecomeCalm, managerVars, vars
  <2>2. stream'[M] \in {stream[M], DeadStream}
    BY <1>1, <1>6, EndedFacts
    DEF NetConnect, NetConnected, NetRecover, NetBreak, ServerEndsStream,
        ClockPassesPause, BecomeCalm, managerVars, vars, ManagersTypeOK
  <2> QED
    BY <1>2, <2>1, <2>2
<1>7. CASE \/ MetricWait \/ RecvError \/ RecvDisconnect \/ RecvCommand
           \/ Pausing \/ MetricLost \/ RespondOk \/ RespondFails
           \/ RespondTimeout \/ ReconnectClose \/ ReconnectDial
           \/ ReconnectOpenOk \/ ReconnectOpenFails \/ ReconnectCancel
  BY <1>1, <1>3, <1>7
  DEF MetricWait, RecvError, RecvDisconnect, RecvCommand, Pausing, MetricLost,
      RespondOk, RespondFails, RespondTimeout, ReconnectClose, ReconnectDial,
      GetLooks, GetReturns, ReconnectOpenOk, ReconnectOpenFails,
      ReconnectCancel, Goto, ManagersTypeOK
<1>8. CASE HandleCommand
  BY <1>8 DEF HandleCommand, RetryOffline
<1>9. CASE RespondAgain
  BY <1>1, <1>9
  DEF RespondAgain, Goto, MetricOffline, RetryOffline, Live, ManagersTypeOK
<1> QED
  BY <1>4, <1>5, <1>6, <1>7, <1>8, <1>9, NextCases

(* No attempt but the first ever writes a response, whatever the network    *)
(* and the server do.                                                       *)
OnlyFirstWrites == [][sent' > sent => pc[M] = "respond" /\ attempt <= 1]_vars

(* The finding of the run MCRetryDelivers is no matter of its bounds: only  *)
(* the first attempt of sendCommandResponseWithRetry can write a response.  *)
THEOREM RetriesAreFutile == Spec => OnlyFirstWrites
<1> DEFINE Futile == sent' > sent => pc[M] = "respond" /\ attempt <= 1
<1>1. ASSUME IInv, RetryOffline, [Next]_vars PROVE [Futile]_vars
  <2>1. sent \in Nat /\ attempt \in Nat
    BY <1>1 DEF IInv, ManagersTypeOK, MaxAttempts
  <2>2. ASSUME UNCHANGED sent PROVE Futile
    BY <2>1, <2>2
  <2>3. CASE RespondOk \/ RespondTimeout
    BY <1>1, <2>1, <2>3 DEF RespondOk, RespondTimeout, Goto, RetryOffline
  <2>4. CASE HandleCommand
    BY <2>1, <2>4 DEF HandleCommand
  <2> HIDE DEF Futile
  <2>5. CASE \/ MetricWait \/ RecvError \/ RecvDisconnect \/ RecvCommand
             \/ Pausing \/ MetricLost \/ RespondFails \/ ReconnectClose
             \/ ReconnectDial \/ ReconnectOpenOk \/ ReconnectOpenFails
             \/ ReconnectCancel \/ RespondAgain \/ ClockPassesPause
             \/ BecomeCalm
    BY <2>2, <2>5
    DEF MetricWait, RecvError, RecvDisconnect, RecvCommand, Pausing,
        MetricLost, RespondFails, ReconnectClose, ReconnectDial,
        ReconnectOpenOk, ReconnectOpenFails, ReconnectCancel, RespondAgain,
        ClockPassesPause, BecomeCalm, managerVars
  <2>6. ASSUME NEW s \in Senders, \/ Dial(s) \/ OpenOk(s) \/ OpenFails(s)
                                 \/ Sleep(s) \/ ServerEndsStream(s)
        PROVE  Futile
    BY <2>2, <2>6 DEF Dial, OpenOk, OpenFails, Sleep, ServerEndsStream
  <2>7. ASSUME NEW s \in StreamSenders,
               StreamTop(s) \/ StreamWait(s) \/ Nap(s)
        PROVE  Futile
    BY <2>2, <2>7 DEF StreamTop, StreamWait, Nap
  <2>8. ASSUME NEW c \in Conn, \/ NetConnect(c) \/ NetConnected(c)
                               \/ NetRecover(c) \/ NetBreak(c)
        PROVE  Futile
    BY <2>2, <2>8
    DEF NetConnect, NetConnected, NetRecover, NetBreak, managerVars
  <2> QED
    BY <1>1, <2>3, <2>4, <2>5, <2>6, <2>7, <2>8, NextCases
<1>2. Init => RetryOffline
  BY SendersFacts DEF Init, RetryOffline
<1> QED
  BY <1>1, <1>2, StepRetryOffline, Invariance, PTL DEF Spec, OnlyFirstWrites

(* A process or log stream that has died stays in place until its manager   *)
(* sees a new pause.                                                        *)
DeadUntilPause ==
  [][\A s \in StreamSenders :
       stream[s] = DeadStream /\ stream'[s] # DeadStream
         => pc[s] = "top" /\ epoch > lastPause[s]]_vars

(* Nor is that of MCDeadStreamReplaced: manageConnection keeps a dead       *)
(* stream for as long as the server orders no pause.                        *)
THEOREM DeadStreamsStay == Spec => DeadUntilPause
<1> DEFINE Stays(s) ==
      stream[s] = DeadStream /\ stream'[s] # DeadStream
        => pc[s] = "top" /\ epoch > lastPause[s]
<1>1. ASSUME IInv, [Next]_vars, NEW s \in StreamSenders
      PROVE  Stays(s) \/ UNCHANGED vars
  <2> USE SendersFacts, StreamAssumption
  <2>1. ManagersTypeOK /\ OpensFromNil
    BY <1>1 DEF IInv
  <2>2. ASSUME stream'[s] \in {stream[s], DeadStream} PROVE Stays(s)
    BY <2>2
  <2>3. ASSUME NEW t \in Senders, OpenOk(t) PROVE Stays(s)
    BY <2>1, <2>3 DEF OpenOk, Goto, OpensFromNil, ManagersTypeOK
  <2>4. ASSUME NEW t \in StreamSenders, StreamTop(t) PROVE Stays(s)
    BY <2>1, <2>4 DEF StreamTop, Goto, GetPauseUntil, ManagersTypeOK
  <2> HIDE DEF Stays
  <2>5. CASE \/ MetricWait \/ MetricLost \/ ReconnectOpenOk
             \/ ReconnectCancel
    BY <2>1, <2>2, <2>5
    DEF MetricWait, MetricLost, ReconnectOpenOk, ReconnectCancel,
        ManagersTypeOK
  <2>6. CASE Pausing \/ ReconnectClose \/ ReconnectDial
    BY <2>1, <2>2, <2>6, EndedFacts
    DEF Pausing, ReconnectClose, ReconnectDial, GetLooks, DialsOk, DialFails
  <2>7. CASE \/ RecvError \/ RecvDisconnect \/ RecvCommand \/ HandleCommand
             \/ RespondOk \/ RespondFails \/ RespondTimeout
             \/ ReconnectOpenFails \/ RespondAgain \/ ClockPassesPause
             \/ BecomeCalm
    BY <2>2, <2>7
    DEF RecvError, RecvDisconnect, RecvCommand, HandleCommand, RespondOk,
        RespondFails, RespondTimeout, ReconnectOpenFails, RespondAgain,
        ClockPassesPause, BecomeCalm, managerVars
  <2>8. ASSUME NEW t \in Senders, Dial(t) \/ OpenFails(t) \/ Sleep(t)
        PROVE  Stays(s)
    BY <2>1, <2>2, <2>8, EndedFacts
    DEF Dial, GetLooks, DialsOk, DialFails, OpenFails, Sleep
  <2>9. ASSUME NEW t \in Senders, ServerEndsStream(t) PROVE Stays(s)
    BY <2>1, <2>2, <2>9 DEF ServerEndsStream, ManagersTypeOK
  <2>10. ASSUME NEW t \in StreamSenders, StreamWait(t) \/ Nap(t)
         PROVE  Stays(s)
    BY <2>2, <2>10 DEF StreamWait, Nap
  <2>11. ASSUME NEW c \in Conn, \/ NetConnect(c) \/ NetConnected(c)
                                \/ NetRecover(c) \/ NetBreak(c)
         PROVE  Stays(s)
    BY <2>1, <2>2, <2>11, EndedFacts
    DEF NetConnect, NetConnected, NetRecover, NetBreak, managerVars
  <2> QED
    BY <1>1, <2>3, <2>4, <2>5, <2>6, <2>7, <2>8, <2>9, <2>10, <2>11, NextCases
<1>2. IInv /\ [Next]_vars => [\A s \in StreamSenders : Stays(s)]_vars
  BY <1>1
<1> QED
  BY <1>2, Invariance, PTL DEF Spec, DeadUntilPause

-----------------------------------------------------------------------------
(* The refinement of StreamCell.                                            *)

(* What the mapping to StreamCell says of one sender.                       *)
LEMMA CellOfFacts ==
  ASSUME ManagersTypeOK, ManagersTypeOK'
  PROVE  /\ cellOf = [s \in Senders |-> cellOf[s]]
         /\ cellOf' = [s \in Senders |-> cellOf'[s]]
         /\ \A s \in Senders :
              /\ cellOf[s] = "nil" <=> stream[s] = NoStream
              /\ cellOf[s] = "live" <=> stream[s] \in Conn
              /\ cellOf[s] = "dead" <=> stream[s] = DeadStream
              /\ cellOf'[s] = "nil" <=> stream'[s] = NoStream
              /\ cellOf'[s] = "live" <=> stream'[s] \in Conn
              /\ cellOf'[s] = "dead" <=> stream'[s] = DeadStream
  BY StreamAssumption DEF cellOf, Live, ManagersTypeOK

(* Streams that only end: one Die step.                                     *)
LEMMA EndingIsDie ==
  ASSUME ManagersTypeOK, ManagersTypeOK',
         \A s \in Senders : \/ stream'[s] = stream[s]
                            \/ stream[s] \in Conn /\ stream'[s] = DeadStream
  PROVE  Cell!CellNext
<1> DEFINE S == {s \in Senders : stream[s] \in Conn /\ stream'[s] = DeadStream}
<1>1. \A s \in S : cellOf[s] = "live"
  BY CellOfFacts
<1>2. \A s \in Senders : cellOf'[s] = IF s \in S THEN "dead" ELSE cellOf[s]
  BY StreamAssumption DEF cellOf, Live, ManagersTypeOK
<1>3. cellOf' = [s \in Senders |-> IF s \in S THEN "dead" ELSE cellOf[s]]
  BY <1>2, CellOfFacts
<1>4. S \in SUBSET Senders
  OBVIOUS
<1> HIDE DEF S
<1>5. Cell!Die(S)
  BY <1>1, <1>3 DEF Cell!Die
<1> QED
  BY <1>4, <1>5 DEF Cell!CellNext

(* One stream that is cleared, opened or ended.                             *)
LEMMA OneStreamMoves ==
  ASSUME ManagersTypeOK, ManagersTypeOK', NEW s \in Senders,
         NEW x \in Conn \cup {NoStream, DeadStream},
         stream' = [stream EXCEPT ![s] = x],
         \/ x = NoStream /\ (s = M => ~Live(s))
         \/ x \in Conn /\ (stream[s] = NoStream \/ (s = M /\ ~Live(s)))
         \/ x = DeadStream /\ Live(s)
  PROVE  Cell!CellNext
<1>1. \A t \in Senders \ {s} : cellOf'[t] = cellOf[t]
  BY DEF cellOf, Live, ManagersTypeOK
<1>2. CASE x = NoStream /\ (s = M => ~Live(s))
  <2>1. cellOf'[s] = "nil" /\ (s = M => cellOf[s] # "live")
    BY <1>2, CellOfFacts DEF Live, ManagersTypeOK
  <2>2. cellOf' = [cellOf EXCEPT ![s] = "nil"]
    BY <1>1, <2>1, CellOfFacts
  <2> QED
    BY <2>1, <2>2 DEF Cell!Clear, Cell!CellNext
<1>3. CASE x \in Conn /\ (stream[s] = NoStream \/ (s = M /\ ~Live(s)))
  <2>1. /\ cellOf'[s] = "live"
        /\ cellOf[s] = "nil" \/ (cellOf[s] = "dead" /\ s = M)
    BY <1>3, CellOfFacts, StreamAssumption DEF Live, ManagersTypeOK
  <2>2. cellOf' = [cellOf EXCEPT ![s] = "live"]
    BY <1>1, <2>1, CellOfFacts
  <2> QED
    BY <2>1, <2>2 DEF Cell!Open, Cell!CellNext
<1>4. CASE x = DeadStream /\ Live(s)
  <2>1. \A t \in Senders : \/ stream'[t] = stream[t]
                           \/ stream[t] \in Conn /\ stream'[t] = DeadStream
    BY <1>4 DEF Live, ManagersTypeOK
  <2> QED
    BY <2>1, EndingIsDie
<1> QED
  BY <1>2, <1>3, <1>4

(* Each step moves the s.stream fields as StreamCell allows.                *)
LEMMA StepKeepsCell == IInv /\ [Next]_vars => [Cell!CellNext]_cellOf
<1> SUFFICES ASSUME IInv, [Next]_vars PROVE [Cell!CellNext]_cellOf
  OBVIOUS
<1> USE SendersFacts
<1>1. /\ ManagersTypeOK /\ ManagersTypeOK'
      /\ HasCC /\ MetricOffline /\ OpensFromNil /\ CancelsItsStream
      /\ ConnTypeOK
  BY NextIInv DEF IInv, ConnInv
<1>2. CASE UNCHANGED stream
  BY <1>2 DEF cellOf, Live
<1>3. CASE stream' = Ended(stream)
  <2>1. \A s \in Senders : \/ stream'[s] = stream[s]
                           \/ stream[s] \in Conn /\ stream'[s] = DeadStream
    BY <1>3 DEF Ended
  <2> QED
    BY <1>1, <2>1, EndingIsDie
<1>4. ASSUME NEW s \in Senders, OpenOk(s) PROVE Cell!CellNext
  <2>1. cc[s] \in Conn /\ (stream[s] = NoStream \/ (s = M /\ ~Live(s)))
    BY <1>1, <1>4 DEF OpenOk, Goto, HasCC, MetricOffline, OpensFromNil,
       Senders
  <2> QED
    BY <1>1, <1>4, <2>1, OneStreamMoves DEF OpenOk
<1>5. CASE ReconnectOpenOk
  <2>1. cc[M] \in Conn /\ ~Live(M)
    BY <1>1, <1>5 DEF ReconnectOpenOk, Goto, HasCC, MetricOffline
  <2> QED
    BY <1>1, <1>5, <2>1, OneStreamMoves DEF ReconnectOpenOk
<1>6. CASE MetricLost
  <2>1. ~Live(M)
    BY <1>1, <1>6 DEF MetricLost, Goto, MetricOffline
  <2> QED
    BY <1>1, <1>6, <2>1, OneStreamMoves DEF MetricLost
<1>7. CASE MetricWait
  BY <1>1, <1>2, <1>7 DEF MetricWait, ConnTypeOK, DisconnectCap
<1>8. ASSUME NEW s \in StreamSenders, StreamTop(s)
      PROVE  [Cell!CellNext]_cellOf
  <2>1. UNCHANGED stream \/ stream' = [stream EXCEPT ![s] = NoStream]
    BY <1>8 DEF StreamTop
  <2> QED
    BY <1>1, <1>2, <2>1, OneStreamMoves
<1>9. ASSUME NEW s \in Senders, stream' = [stream EXCEPT ![s] = DeadStream],
             stream[s] # NoStream
      PROVE  [Cell!CellNext]_cellOf
  <2>1. CASE Live(s)
    BY <1>1, <1>9, <2>1, OneStreamMoves
  <2>2. CASE ~Live(s)
    <3>1. stream[s] = DeadStream
      BY <1>1, <1>9, <2>2 DEF Live, ManagersTypeOK
    <3>2. UNCHANGED stream
      BY <1>1, <1>9, <3>1 DEF ManagersTypeOK
    <3> QED
      BY <1>2, <3>2
  <2> QED
    BY <2>1, <2>2
<1>10. CASE \E s \in Senders : ServerEndsStream(s)
  BY <1>9, <1>10, StreamAssumption DEF ServerEndsStream, Live
<1>11. CASE ReconnectCancel
  BY <1>1, <1>9, <1>11 DEF ReconnectCancel, Goto, CancelsItsStream
<1>12. CASE UNCHANGED vars
  BY <1>2, <1>12 DEF vars, managerVars
<1>13. CASE \/ RecvError \/ RecvDisconnect \/ RecvCommand
            \/ HandleCommand \/ RespondOk
            \/ RespondFails \/ RespondTimeout \/ RespondAgain
            \/ ReconnectOpenFails \/ ClockPassesPause \/ BecomeCalm
  BY <1>2, <1>13
  DEF RecvError, RecvDisconnect, RecvCommand, HandleCommand, RespondOk,
      RespondFails,
      RespondTimeout, RespondAgain, ReconnectOpenFails, ClockPassesPause,
      BecomeCalm, managerVars
<1>14. CASE Pausing \/ ReconnectClose \/ ReconnectDial
  BY <1>2, <1>3, <1>14
  DEF Pausing, ReconnectClose, ReconnectDial, GetLooks, DialsOk, DialFails
<1>15. ASSUME NEW s \in Senders, Dial(s) \/ OpenFails(s) \/ Sleep(s)
       PROVE  [Cell!CellNext]_cellOf
  BY <1>2, <1>3, <1>15
  DEF Dial, GetLooks, DialsOk, DialFails, OpenFails, Sleep
<1>16. ASSUME NEW s \in StreamSenders, StreamWait(s) \/ Nap(s)
       PROVE  [Cell!CellNext]_cellOf
  BY <1>2, <1>16 DEF StreamWait, Nap
<1>17. ASSUME NEW c \in Conn, \/ NetConnect(c) \/ NetConnected(c)
                              \/ NetRecover(c) \/ NetBreak(c)
       PROVE  [Cell!CellNext]_cellOf
  BY <1>2, <1>3, <1>17
  DEF NetConnect, NetConnected, NetRecover, NetBreak, managerVars
<1> QED
  BY <1>4, <1>5, <1>6, <1>7, <1>8, <1>10, <1>11, <1>12, <1>13, <1>14, <1>15,
     <1>16, <1>17, NextCases

(* The managers keep the contract on which WorkerPool is built.             *)
THEOREM ImplementsStreamCell == Spec => KeepsCellContract
<1>1. Init => Cell!CellInit
  BY DEF Init, Cell!CellInit, cellOf
<1> QED
  BY <1>1, StepKeepsCell, Invariance, PTL
  DEF Spec, Cell!CellSpec, KeepsCellContract
=============================================================================

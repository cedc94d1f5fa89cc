--------------------------- MODULE GrpcConnProofs ---------------------------
(***************************************************************************)
(* Theorems about the shared connection, for any set of ClientConns and    *)
(* any number of pauses.  ConnTypeOK and SingleLiveConn are inductive      *)
(* together: their conjunction is the invariant.                           *)
(***************************************************************************)
EXTENDS GrpcConn, TLAPS

ConnInv == ConnTypeOK /\ SingleLiveConn

(* Closing the singleton leaves no open ClientConn at all.                  *)
LEMMA ClosedAll ==
  ASSUME ConnInv
  PROVE  /\ CloseSingleton \in [Conn -> ConnState]
         /\ \A c \in Conn : CloseSingleton[c] = "closed"
  BY DEF ConnInv, ConnTypeOK, SingleLiveConn, CloseSingleton, ConnState

(* A move of the library does not open a closed ClientConn.                 *)
LEMMA MovesKeepInv ==
  ASSUME ConnInv, NEW c \in Conn, NEW from \in ConnState \ {"closed"},
         NEW to \in ConnState, Moves(c, from, to)
  PROVE  ConnInv'
  BY DEF ConnInv, ConnTypeOK, SingleLiveConn, Moves, ConnState

(* ConnInv holds before the first dial.                                     *)
LEMMA ConnInit_Inv == ConnInit => ConnInv
<1> SUFFICES ASSUME ConnInit PROVE ConnInv
  OBVIOUS
<1>1. cstate \in [Conn -> ConnState] /\ SingleLiveConn
  BY DEF ConnInit, ConnState, SingleLiveConn
<1>2. epoch \in 0..MaxPause /\ signals \in 0..DisconnectCap
  BY MaxPauseAssumption DEF ConnInit, DisconnectCap
<1>3. paused \in BOOLEAN /\ pausing \in {"no", "set", "closed"}
  BY DEF ConnInit
<1> QED
  BY <1>1, <1>2, <1>3 DEF ConnInit, ConnInv, ConnTypeOK

(* Every operation of the package and every event of the library keeps the  *)
(* invariant.                                                               *)
LEMMA ConnNext_Inv == ConnInv /\ [ConnNext]_connVars => ConnInv'
<1> SUFFICES ASSUME ConnInv, [ConnNext]_connVars PROVE ConnInv'
  OBVIOUS
<1> USE NoConnAssumption, MaxPauseAssumption
<1>1. CASE GetReuses \/ GetFindsBroken \/ UNCHANGED connVars
  BY <1>1 DEF GetReuses, GetFindsBroken, connVars, ConnInv, ConnTypeOK, SingleLiveConn
<1>2. ASSUME NEW c \in Conn, GetDials(c) PROVE ConnInv'
  <2>1. cstate' \in [Conn -> ConnState]
    BY <1>2, ClosedAll DEF GetDials, ConnState
  <2>2. SingleLiveConn'
    BY <1>2, ClosedAll DEF GetDials, SingleLiveConn
  <2> QED
    BY <1>2, <2>1, <2>2 DEF GetDials, ConnInv, ConnTypeOK
<1>3. CASE GetFails \/ CloseGRPCConn \/ PauseClose
  <2>1. cstate' \in [Conn -> ConnState] /\ SingleLiveConn'
    BY <1>3, ClosedAll
    DEF GetFails, CloseGRPCConn, PauseClose, SingleLiveConn
  <2> QED
    BY <1>3, <2>1 DEF GetFails, CloseGRPCConn, PauseClose, ConnInv, ConnTypeOK
<1>4. ASSUME NEW c \in Conn, CloseHandle(c) PROVE ConnInv'
  BY <1>4 DEF CloseHandle, ConnInv, ConnTypeOK, SingleLiveConn, ConnState
<1>5. CASE PauseSet \/ PauseSignal \/ PauseElapses
  <2>1. epoch' \in 0..MaxPause /\ signals' \in 0..DisconnectCap
    BY <1>5
    DEF PauseSet, PauseSignal, PauseElapses, ConnInv, ConnTypeOK, DisconnectCap
  <2>2. paused' \in BOOLEAN /\ pausing' \in {"no", "set", "closed"}
    BY <1>5 DEF PauseSet, PauseSignal, PauseElapses, ConnInv, ConnTypeOK
  <2> QED
    BY <1>5, <2>1, <2>2
    DEF PauseSet, PauseSignal, PauseElapses, ConnInv, ConnTypeOK, SingleLiveConn
<1>6. ASSUME NEW c \in Conn,
             \/ Connect(c) \/ ConnectOk(c) \/ ConnectFail(c)
             \/ Recover(c) \/ Break(c)
      PROVE  ConnInv'
  BY <1>6, MovesKeepInv
  DEF Connect, ConnectOk, ConnectFail, Recover, Break, ConnState
<1> QED
  BY <1>1, <1>2, <1>3, <1>4, <1>5, <1>6 DEF ConnNext

(* ConnInv holds in every state of the connection by itself.                *)
LEMMA ConnInvariant == ConnSpec => []ConnInv
<1>1. ConnInit => ConnInv
  BY ConnInit_Inv
<1>2. ConnInv /\ [ConnNext]_connVars => ConnInv'
  BY ConnNext_Inv
<1> QED
  BY <1>1, <1>2, PTL DEF ConnSpec

(* Type correctness of the package's state.                                 *)
THEOREM ConnTypeCorrect == ConnSpec => []ConnTypeOK
  BY ConnInvariant, PTL DEF ConnInv

(* No open ClientConn ever escapes the singleton: whatever the callers do,  *)
(* CloseGRPCConn closes everything that is open.                            *)
THEOREM NoConnLeaks == ConnSpec => []SingleLiveConn
  BY ConnInvariant, PTL DEF ConnInv
=============================================================================

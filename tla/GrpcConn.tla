------------------------------ MODULE GrpcConn ------------------------------
(***************************************************************************)
(* internal/grpc/connection.go: the process-wide gRPC ClientConn, which    *)
(* every sender of the agent shares, and the global pause that the server  *)
(* orders with a "disconnect" command.                                     *)
(*                                                                         *)
(* The package keeps two independently locked pieces of state: the         *)
(* singleton `conn' under connMu, and the deadline `pauseUntil' under      *)
(* pauseMu.  PauseConnections, which takes three locks one after the       *)
(* other, is three actions between which any other caller may run.  So is  *)
(* GetGRPCConn two when it finds the singleton broken: it keeps connMu     *)
(* from conn.GetState() to the end, but the state it has read belongs to   *)
(* the library, which takes no notice of connMu, and neither do Close      *)
(* through a handle and the RPCs of those who have one.                    *)
(*                                                                         *)
(* A ClientConn is an element of Conn; its connectivity state belongs to   *)
(* the gRPC library and moves with the network.  A closed ClientConn and   *)
(* one that was never created are both "closed": nothing can be done with  *)
(* either, and the identifier may stand for the next ClientConn.           *)
(*                                                                         *)
(* Deadlines are abstracted to what WaitForResume and the senders tell     *)
(* apart: `epoch' orders the values pauseUntil has had (each call stores   *)
(* now + d, later than every earlier one, since d is one minute) and       *)
(* `paused' says that the current value is still in the future.            *)
(***************************************************************************)
EXTENDS Naturals

CONSTANTS
  Conn,      \* identifiers of grpc.ClientConn objects
  NoConn,    \* Go's nil *grpc.ClientConn
  MaxPause   \* bound on the number of global pauses

ASSUME NoConnAssumption == NoConn \notin Conn
ASSUME MaxPauseAssumption == MaxPause \in Nat

VARIABLES
  conn,      \* the singleton: an element of Conn, or NoConn
  replacing, \* a GetGRPCConn has found the singleton broken and holds connMu
  cstate,    \* cstate[c]: connectivity state of c
  epoch,     \* generation of pauseUntil; 0 is the zero time
  paused,    \* now is before pauseUntil
  pausing,   \* the critical section PauseConnections has completed last
  signals    \* events waiting in disconnectCh

connVars == <<conn, replacing, cstate, epoch, paused, pausing, signals>>

(* Idle, Connecting, Ready, TransientFailure and Shutdown of gRPC.          *)
ConnState == {"idle", "connecting", "ready", "failed", "closed"}

(* disconnectCh is made without a capacity.                                 *)
DisconnectCap == 0

ConnTypeOK ==
  /\ conn \in Conn \cup {NoConn}
  /\ replacing \in BOOLEAN
  /\ cstate \in [Conn -> ConnState]
  /\ epoch \in 0..MaxPause
  /\ paused \in BOOLEAN
  /\ pausing \in {"no", "set", "closed"}
  /\ signals \in 0..DisconnectCap

ConnInit ==
  /\ conn = NoConn
  /\ replacing = FALSE
  /\ cstate = [c \in Conn |-> "closed"]
  /\ epoch = 0
  /\ paused = FALSE
  /\ pausing = "no"
  /\ signals = 0

-----------------------------------------------------------------------------
(* GetGRPCConn, under connMu.  The singleton is healthy and returned; or it *)
(* is not, and then it is closed, whatever has become of it since, and      *)
(* replaced, unless no replacement can be built, since LoadTLSConfig or     *)
(* grpc.NewClient fails.  With no singleton there is nothing to look at.    *)

Usable == {"ready", "idle"}

(* Mutant of HaveUsable: a ready ClientConn is not reused.                  *)
HaveUsable_IdleOnly == conn # NoConn /\ cstate[conn] = "idle"

HaveUsable == conn # NoConn /\ cstate[conn] \in Usable

(* The connectivity states after conn.Close() on the singleton, if any.     *)
CloseSingleton == [c \in Conn |-> IF c = conn THEN "closed" ELSE cstate[c]]

GetReuses ==
  /\ ~replacing
  /\ HaveUsable
  /\ UNCHANGED connVars

GetFindsBroken ==
  /\ ~replacing
  /\ conn # NoConn
  /\ ~HaveUsable
  /\ replacing' = TRUE
  /\ UNCHANGED <<conn, cstate, epoch, paused, pausing, signals>>

(* The caller that goes on to dial.                                         *)
MayDial == replacing \/ conn = NoConn

(* Mutant of GetDials: the broken ClientConn is not closed.                 *)
GetDials_Leaks(c) ==
  /\ MayDial
  /\ cstate[c] = "closed"
  /\ cstate' = [cstate EXCEPT ![c] = "idle"]
  /\ conn' = c
  /\ replacing' = FALSE
  /\ UNCHANGED <<epoch, paused, pausing, signals>>

GetDials(c) ==
  /\ MayDial
  /\ CloseSingleton[c] = "closed"
  /\ cstate' = [CloseSingleton EXCEPT ![c] = "idle"]
  /\ conn' = c
  /\ replacing' = FALSE
  /\ UNCHANGED <<epoch, paused, pausing, signals>>

GetFails ==
  /\ MayDial
  /\ cstate' = CloseSingleton
  /\ conn' = NoConn
  /\ replacing' = FALSE
  /\ UNCHANGED <<epoch, paused, pausing, signals>>

(* CloseGRPCConn, called at shutdown.                                       *)
CloseGRPCConn ==
  /\ ~replacing
  /\ cstate' = CloseSingleton
  /\ conn' = NoConn
  /\ UNCHANGED <<replacing, epoch, paused, pausing, signals>>

(* cc.Close() on a handle some sender got from GetGRPCConn: it does not go  *)
(* through this package, and the singleton keeps pointing to what is now a  *)
(* closed ClientConn.                                                       *)
CloseHandle(c) ==
  /\ cstate' = [cstate EXCEPT ![c] = "closed"]
  /\ UNCHANGED <<conn, replacing, epoch, paused, pausing, signals>>

-----------------------------------------------------------------------------
(* PauseConnections(d), called by the goroutine that reads the server's     *)
(* commands: only one call is ever in progress.                             *)

PauseSet ==
  /\ pausing = "no"
  /\ epoch < MaxPause
  /\ epoch' = epoch + 1
  /\ paused' = TRUE
  /\ pausing' = "set"
  /\ UNCHANGED <<conn, replacing, cstate, signals>>

PauseClose ==
  /\ pausing = "set"
  /\ ~replacing
  /\ cstate' = CloseSingleton
  /\ conn' = NoConn
  /\ pausing' = "closed"
  /\ UNCHANGED <<replacing, epoch, paused, signals>>

(* The send is in a select with a default: it is dropped when no buffer     *)
(* slot is free (and no goroutine ever blocks receiving).                   *)
PauseSignal ==
  /\ pausing = "closed"
  /\ signals' = IF signals < DisconnectCap THEN signals + 1 ELSE signals
  /\ pausing' = "no"
  /\ UNCHANGED <<conn, replacing, cstate, epoch, paused>>

(* Time passes pauseUntil.  It may do so before PauseConnections returns.   *)
PauseElapses ==
  /\ paused
  /\ paused' = FALSE
  /\ UNCHANGED <<conn, replacing, cstate, epoch, pausing, signals>>

(* Mutant of WaitForResume: it returns at once.                             *)
WaitForResume_Returns == TRUE

(* WaitForResume returns, and the value GetPauseUntil returns.              *)
WaitForResume == ~paused
GetPauseUntil == epoch

-----------------------------------------------------------------------------
(* The gRPC library.  An RPC on an idle ClientConn makes it connect; a      *)
(* ready one whose transport is lost becomes idle; one that could not       *)
(* connect reports TransientFailure until a later attempt succeeds.         *)

Moves(c, from, to) ==
  /\ cstate[c] = from
  /\ cstate' = [cstate EXCEPT ![c] = to]
  /\ UNCHANGED <<conn, replacing, epoch, paused, pausing, signals>>

Connect(c)     == Moves(c, "idle", "connecting")
ConnectOk(c)   == Moves(c, "connecting", "ready")
ConnectFail(c) == Moves(c, "connecting", "failed")
Recover(c)     == Moves(c, "failed", "ready")
Break(c)       == Moves(c, "ready", "idle")

-----------------------------------------------------------------------------
(* The package under arbitrary callers.                                     *)

ConnNext ==
  \/ GetReuses
  \/ GetFindsBroken
  \/ \E c \in Conn : GetDials(c)
  \/ GetFails
  \/ CloseGRPCConn
  \/ \E c \in Conn : CloseHandle(c)
  \/ PauseSet
  \/ PauseClose
  \/ PauseSignal
  \/ PauseElapses
  \/ \E c \in Conn : Connect(c)
  \/ \E c \in Conn : ConnectOk(c)
  \/ \E c \in Conn : ConnectFail(c)
  \/ \E c \in Conn : Recover(c)
  \/ \E c \in Conn : Break(c)

ConnSpec == ConnInit /\ [][ConnNext]_connVars

-----------------------------------------------------------------------------
(* At most one ClientConn is open, and it is the one `conn' points to: no   *)
(* sequence of dials, failed dials, closes through a handle and pauses      *)
(* leaks a connection that CloseGRPCConn could not close any more.          *)
SingleLiveConn == \A c \in Conn : cstate[c] # "closed" => c = conn
=============================================================================

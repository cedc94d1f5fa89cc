---------------------------- MODULE AgentIdentity ----------------------------
(***************************************************************************)
(* LoadOrCreateAgentID of internal/identity/agentid.go: the id that agents *)
(* on one host have in common through a file, with agents that are killed  *)
(* or stopped at any time and start again.                                 *)
(*                                                                         *)
(* An action is the code from one file operation to the next.  WriteFile   *)
(* is two of them: it truncates the file and then writes to it.  An id is  *)
(* a number; so is the part of one that a failed write leaves behind,      *)
(* which later starts take for an id like any other.                       *)
(***************************************************************************)
EXTENDS Naturals

CONSTANTS
  Agent,   \* the processes, each of which may start again and again
  MaxIds   \* bound on the uuids made

ASSUME MaxIdsAssumption == MaxIds \in Nat

VARIABLES
  at,       \* at[a]: where agent a is
  id,       \* id[a]: the local variable, later the AgentID of a
  idFile,   \* the contents of the file
  uuids,    \* how many have been made
  used,     \* history: the ids of the agents that have started
  spoiled   \* history: something happened that the code does not withstand

idVars == <<at, id, idFile, uuids, used, spoiled>>

(* A file that is not there, and one that is but holds nothing.             *)
Absent == 0
Empty == 1
FirstId == 2

Ids == Nat \ {Absent, Empty}

IdTypeOK ==
  /\ at \in [Agent -> {"off", "read", "create", "write", "up"}]
  /\ id \in [Agent -> Nat]
  /\ idFile \in Nat
  /\ uuids \in 0..MaxIds
  /\ used \subseteq Nat
  /\ spoiled \in BOOLEAN

IdInit ==
  /\ at = [a \in Agent |-> "off"]
  /\ id = [a \in Agent |-> Empty]
  /\ idFile = Absent
  /\ uuids = 0
  /\ used = {}
  /\ spoiled = FALSE

-----------------------------------------------------------------------------
AgentGoes(a, from, to) == at[a] = from /\ at' = [at EXCEPT ![a] = to]

AgentStarts(a) ==
  /\ AgentGoes(a, "off", "read")
  /\ UNCHANGED <<id, idFile, uuids, used, spoiled>>

(* Mutant of HasId: the length is not looked at.                            *)
HasId_AnyLength(file) == file # Absent

(* err == nil && len(data) > 0                                              *)
HasId(file) == file \in Ids

LoadsId(a) ==
  /\ AgentGoes(a, "read", "up")
  /\ HasId(idFile)
  /\ id' = [id EXCEPT ![a] = idFile]
  /\ used' = used \cup {idFile}
  /\ UNCHANGED <<idFile, uuids, spoiled>>

Creating(a) == at[a] \in {"create", "write"}

(* uuid.NewString(), when the file has no id or cannot be read: any error   *)
(* is taken for a first start.                                              *)
MakesId(a) ==
  /\ AgentGoes(a, "read", "create")
  /\ uuids < MaxIds
  /\ uuids' = uuids + 1
  /\ id' = [id EXCEPT ![a] = FirstId + uuids]
  /\ spoiled' = (spoiled \/ HasId(idFile)
                         \/ \E b \in Agent \ {a} : Creating(b))
  /\ UNCHANGED <<idFile, used>>

(* MkdirAll or the opening of the file fails, or the write does, with any   *)
(* part of the id written: NewAgent ends the process.                       *)
SaveFails(a) ==
  /\ \/ AgentGoes(a, "create", "off") /\ UNCHANGED idFile
     \/ AgentGoes(a, "write", "off") /\ idFile' \in {idFile, id[a]}
  /\ UNCHANGED <<id, uuids, used, spoiled>>

Truncates(a) ==
  /\ AgentGoes(a, "create", "write")
  /\ idFile' = Empty
  /\ UNCHANGED <<id, uuids, used, spoiled>>

SavesId(a) ==
  /\ AgentGoes(a, "write", "up")
  /\ idFile' = id[a]
  /\ used' = used \cup {id[a]}
  /\ UNCHANGED <<id, uuids, spoiled>>

(* The process stops or is killed, before the write or after it.            *)
AgentDies(a) ==
  /\ at[a] # "off"
  /\ at' = [at EXCEPT ![a] = "off"]
  /\ IF at[a] = "write" THEN idFile' \in {idFile, id[a]} ELSE UNCHANGED idFile
  /\ UNCHANGED <<id, uuids, used, spoiled>>

IdNext ==
  \E a \in Agent :
    \/ AgentStarts(a) \/ LoadsId(a) \/ MakesId(a) \/ SaveFails(a)
    \/ Truncates(a) \/ SavesId(a) \/ AgentDies(a)

IdSpec == IdInit /\ [][IdNext]_idVars

-----------------------------------------------------------------------------
(* An id under which an agent has run is the one in the file for ever       *)
(* after, and a real one: so all starts have the same id, however many      *)
(* agents there are and wherever earlier starts died or failed.  Two things *)
(* spoil it: two starts that both make an id, and an id that is there but   *)
(* cannot be read.                                                          *)
IdentityStable == ~spoiled => \A i \in used : i = idFile /\ i \in Ids
=============================================================================

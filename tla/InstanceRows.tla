---------------------------- MODULE InstanceRows ----------------------------
(***************************************************************************)
(* The tables `processes` and `process_instances` of the daemon's database *)
(* (packages/daemon/src/store.ts).  A process is a logical Pi agent; each  *)
(* run of it is an instance.  A row of an instance names its process for   *)
(* ever: process ids and instance ids are made together, once per OS       *)
(* process (pi-remote/identity).                                           *)
(*                                                                         *)
(* The operators below are the row changes of one database transaction     *)
(* each.  DurableStore adds the events, ControlPlane the sockets.          *)
(***************************************************************************)
EXTENDS Integers, FiniteSets

CONSTANTS
    Insts,    \* process instances that may register
    Procs,    \* logical processes
    ProcOf,   \* the process of each instance
    NoInst    \* "no live instance"

ASSUME InstanceAssumption ==
    /\ IsFiniteSet(Insts)
    /\ ProcOf \in [Insts -> Procs]
    /\ NoInst \notin Insts

VARIABLES
    instState,  \* process_instances.state, "none" while there is no row
    rowid,      \* insertion order of the instance rows, 0 while there is none
    procState   \* processes.state, "none" while there is no row

rowVars == <<instState, rowid, procState>>

States == {"none", "live", "stale", "dead", "lost"}

RowsTypeOK ==
    /\ instState \in [Insts -> States]
    /\ rowid \in [Insts -> Nat]
    /\ procState \in [Procs -> States]

RowsInit ==
    /\ instState = [i \in Insts |-> "none"]
    /\ rowid = [i \in Insts |-> 0]
    /\ procState = [p \in Procs |-> "none"]

HasRow(i) == instState[i] # "none"

\* Both upserts of `register`: an existing row keeps its place and is live again.
RegisterRows(i) ==
    /\ instState' = [instState EXCEPT ![i] = "live"]
    /\ rowid' = IF HasRow(i) THEN rowid
                ELSE [rowid EXCEPT ![i] = 1 + Cardinality({j \in Insts : HasRow(j)})]
    /\ procState' = [procState EXCEPT ![ProcOf[i]] = "live"]

\* `heartbeat` touches the instance row and leaves the process row alone.
HeartbeatRow(i) ==
    /\ HasRow(i)
    /\ instState' = [instState EXCEPT ![i] = "live"]
    /\ UNCHANGED <<rowid, procState>>

\* `setInstanceState` writes the instance row and the row of its process, whichever
\* instance that process is represented by now.
SetInstanceState(i, s) ==
    /\ HasRow(i)
    /\ instState' = [instState EXCEPT ![i] = s]
    /\ procState' = [procState EXCEPT ![ProcOf[i]] = s]
    /\ UNCHANGED rowid

\* The instances a restart declares lost.
Interrupted == {i \in Insts : instState[i] \in {"live", "stale"}}

\* The row changes of `recoverAfterRestart`.
LoseInterrupted ==
    /\ instState' = [i \in Insts |-> IF i \in Interrupted THEN "lost" ELSE instState[i]]
    /\ procState' = [p \in Procs |->
                        IF \E i \in Interrupted : ProcOf[i] = p THEN "lost" ELSE procState[p]]
    /\ UNCHANGED rowid

\* `getProcess`: the live instance inserted last stands for its process.
CurrentInstance(p) ==
    LET alive == {i \in Insts : ProcOf[i] = p /\ instState[i] = "live"}
    IN  IF alive = {} THEN NoInst
        ELSE CHOOSE i \in alive : \A j \in alive : rowid[j] <= rowid[i]
=============================================================================

------------------------- MODULE CommandPathProofs -------------------------
(***************************************************************************)
(* The safety of commands, for every set of instances, sockets, sessions,  *)
(* clients, requests and command ids: one execution, one result that all   *)
(* copies agree on, the right session, and the reference CommandLedger.    *)
(* They rest on the safety invariants of the control plane, which come     *)
(* first: what it does to sockets and rows is the same under both          *)
(* specifications.                                                         *)
(***************************************************************************)
EXTENDS CommandPath, NumberSetsProofs

----------------------------------------------------------------------------
(* The instance rows *)

\* The row inserted for a new instance is numbered.
LEMMA RegisterTypes ==
  ASSUME RowsTypeOK, NEW i \in Insts, RegisterRows(i)
  PROVE  RowsTypeOK'
<1>1. Cardinality({j \in Insts : HasRow(j)}) \in Nat
  <2>1. {j \in Insts : HasRow(j)} \subseteq Insts
    OBVIOUS
  <2> QED BY <2>1, InstanceAssumption, FS_Subset, FS_CardinalityType
<1> DEFINE n == 1 + Cardinality({j \in Insts : HasRow(j)})
<1>2. n \in Nat
  BY <1>1
<1> HIDE DEF n
<1>3. /\ instState' = [instState EXCEPT ![i] = "live"]
      /\ rowid' = IF HasRow(i) THEN rowid ELSE [rowid EXCEPT ![i] = n]
      /\ procState' = [procState EXCEPT ![ProcOf[i]] = "live"]
  BY DEF RegisterRows, n
<1> QED BY <1>2, <1>3 DEF RowsTypeOK, States

\* No row is numbered beyond the number of instances there can be.
RowidsBounded == \A i \in Insts : rowid[i] <= Cardinality(Insts)

\* A registration inserts a row for an instance that had none.
LEMMA RegisterRowids ==
  ASSUME RowsTypeOK, RowidsBounded, NEW i \in Insts, RegisterRows(i)
  PROVE  RowidsBounded'
<1> DEFINE others == {j \in Insts : HasRow(j)}
<1>1. /\ Cardinality(Insts) \in Nat
      /\ IsFiniteSet(Insts \ {i})
      /\ Cardinality(Insts \ {i}) = Cardinality(Insts) - 1
  BY InstanceAssumption, FS_CardinalityType, FS_RemoveElement
<1>2. CASE HasRow(i)
  BY <1>2 DEF RegisterRows, RowidsBounded
<1>3. CASE ~HasRow(i)
  <2>1. others \in SUBSET (Insts \ {i})
    BY <1>3
  <2>2. Cardinality(others) \in Nat /\ Cardinality(others) <= Cardinality(Insts) - 1
    <3> HIDE DEF others
    <3> QED BY <1>1, <2>1, FS_Subset, FS_CardinalityType
  <2>3. rowid' = [rowid EXCEPT ![i] = 1 + Cardinality(others)]
    BY <1>3 DEF RegisterRows
  <2> HIDE DEF others
  <2> QED BY <1>1, <2>2, <2>3 DEF RowidsBounded, RowsTypeOK
<1> QED BY <1>2, <1>3

\* What `getProcess` answers is a live instance of the process, if it answers any.
LEMMA CurrentInstanceLive ==
  ASSUME RowsTypeOK, RowidsBounded, NEW p \in Procs, CurrentInstance(p) # NoInst
  PROVE  /\ CurrentInstance(p) \in Insts
         /\ ProcOf[CurrentInstance(p)] = p
         /\ instState[CurrentInstance(p)] = "live"
<1> DEFINE alive == {i \in Insts : ProcOf[i] = p /\ instState[i] = "live"}
           numbers == {rowid[i] : i \in alive}
<1>1. /\ alive # {}
      /\ CurrentInstance(p) = CHOOSE i \in alive : \A j \in alive : rowid[j] <= rowid[i]
  BY DEF CurrentInstance
<1>2. Cardinality(Insts) \in Int
  BY InstanceAssumption, FS_CardinalityType
<1>3. /\ numbers \subseteq Int
      /\ numbers # {}
      /\ \A n \in numbers : n <= Cardinality(Insts)
  BY <1>1 DEF RowsTypeOK, RowidsBounded
<1>4. PICK n \in numbers : \A m \in numbers : m <= n
  <2> HIDE DEF numbers
  <2> QED BY <1>2, <1>3, GreatestExists
<1>5. \E i \in alive : \A j \in alive : rowid[j] <= rowid[i]
  BY <1>4
<1>6. CurrentInstance(p) \in alive
  BY <1>1, <1>5
<1> QED BY <1>6

----------------------------------------------------------------------------
(* The control plane: none of its invariants is inductive alone, all of     *)
(* them together are.                                                        *)

PlaneInv ==
    /\ TypeOK
    /\ RoutesOpen
    /\ LiveHasBridge
    /\ VerdictsAgree
    /\ GrantsCurrent
    /\ PolicyReachesGrantee

\* The values that stand for nothing are no sockets, instances, leases or sessions.
LEMMA Nothing ==
  /\ NoInst \notin Insts
  /\ None \notin Conns /\ None \notin Dashes /\ None \notin Sessions /\ None \notin LeaseIds
  /\ None \notin Procs
  /\ ProcOf \in [Insts -> Procs]
  /\ \A i \in Insts, c \in Conns : [inst |-> i, conn |-> c] # NoBridge
  /\ \A d \in Dashes : \A p, s, i : [owner |-> d, proc |-> p, sess |-> s, inst |-> i] # NoLease
  BY InstanceAssumption, ControlAssumption DEF NoBridge, NoLease

\* Nothing is registered at first.
LEMMA PlaneInit == ControlInit => PlaneInv
  BY Nothing
     DEF ControlInit, RowsInit, PlaneInv, TypeOK, RowsTypeOK, States, RoutesOpen, LiveHasBridge,
         VerdictsAgree, GrantsCurrent, PolicyReachesGrantee, Held

\* A bridge stands for a process only over a socket that carries its instance.
LEMMA BridgeShape ==
  ASSUME TypeOK, RoutesOpen, NEW p \in Procs, bridges[p] # NoBridge
  PROVE  /\ bridges[p].inst \in Insts
         /\ bridges[p].conn \in Conns
         /\ ProcOf[bridges[p].inst] = p
         /\ binding[bridges[p].conn] = bridges[p].inst
         /\ routes[bridges[p].inst] = bridges[p].conn
  BY DEF TypeOK, RoutesOpen

\* A lease that is held is a lease record.
LEMMA LeaseShape ==
  ASSUME TypeOK, NEW l \in LeaseIds, Held(l)
  PROVE  /\ dashLeases[l].owner \in Dashes
         /\ dashLeases[l].proc \in Procs
         /\ dashLeases[l].sess \in Sessions
         /\ dashLeases[l].inst \in Insts
  BY DEF TypeOK, Held

\* A live target is the bridge of its process, over a socket of the wanted session.
LEMMA LiveTargetShape ==
  ASSUME PlaneInv, NEW p \in Procs, NEW s \in Sessions, LiveTarget(p, s) # None
  PROVE  /\ bridges[p] # NoBridge
         /\ LiveTarget(p, s) = bridges[p].conn
         /\ session[bridges[p].conn] = s
  BY Nothing DEF LiveTarget, PlaneInv, LiveHasBridge

----------------------------------------------------------------------------
(* The steps *)

\* Registering: the new bridge replaces the old one in every table, and revokes its leases.
LEMMA RegisterInv ==
  ASSUME PlaneInv, NEW c \in Conns, NEW i \in Insts, NEW s \in Sessions, Register(c, i, s)
  PROVE  PlaneInv'
<1> USE Nothing DEF PlaneInv
<1> DEFINE p == ProcOf[i]
<1>0. p \in Procs
  OBVIOUS
<1>1. TypeOK'
  <2>1. RowsTypeOK'
    BY RegisterTypes DEF Register, TypeOK
  <2>2. policy' \in [Insts -> LeaseIds \cup {None}]
    BY DEF Register, Told, TypeOK
  <2>3. dashLeases' \in [LeaseIds -> [owner : Dashes, proc : Procs, sess : Sessions, inst : Insts] \cup {NoLease}]
    BY DEF Register, Without, TypeOK
  <2> QED BY <1>0, <2>1, <2>2, <2>3 DEF Register, TypeOK
<1>2. RoutesOpen'
  BY <1>0 DEF Register, RoutesOpen, TypeOK
<1>3. LiveHasBridge'
  BY <1>0 DEF Register, RegisterRows, RoutesOpen, LiveHasBridge, TypeOK, RowsTypeOK, CanRoute
<1>4. VerdictsAgree'
  BY DEF Register, RegisterRows, VerdictsAgree, TypeOK, RowsTypeOK, CanRoute
<1>5. GrantsCurrent'
  BY <1>0, LeaseShape DEF Register, GrantsCurrent, TypeOK, Held, Without, Revoked
<1>6. PolicyReachesGrantee'
  <2> SUFFICES ASSUME NEW j \in Insts, policy'[j] # None, dashLeases'[policy'[j]] # NoLease
               PROVE  dashLeases'[policy'[j]].inst = j /\ dashLeases'[policy'[j]].sess = runtime'[j]
    BY DEF PolicyReachesGrantee, Held
  <2>1. policy[j] \in LeaseIds \cup {None} /\ Told(Revoked(i))[j] \in {policy[j], None}
    BY DEF TypeOK, Told
  <2>2. policy'[j] = policy[j] /\ policy[j] \in LeaseIds /\ runtime'[j] = runtime[j]
    <3>1. policy' = [Told(Revoked(i)) EXCEPT ![i] = IF runtime[i] = s THEN @ ELSE None]
      BY DEF Register
    <3>2. DOMAIN Told(Revoked(i)) = Insts
      BY DEF Told
    <3>3. runtime' = [runtime EXCEPT ![i] = s] /\ runtime \in [Insts -> Sessions \cup {None}]
      BY DEF Register, TypeOK
    <3>4. CASE j = i
      BY <2>1, <3>1, <3>2, <3>3, <3>4
    <3>5. CASE j # i
      BY <2>1, <3>1, <3>2, <3>3, <3>5
    <3> QED BY <3>4, <3>5
  <2>3. dashLeases'[policy[j]] = dashLeases[policy[j]] /\ Held(policy[j])
    <3>1. dashLeases' = Without(Revoked(i)) /\ dashLeases'[policy[j]] # NoLease
      BY <2>2 DEF Register
    <3> QED BY <2>2, <3>1 DEF Without, Held
  <2> QED BY <2>2, <2>3 DEF PolicyReachesGrantee
<1> QED BY <1>1, <1>2, <1>3, <1>4, <1>5, <1>6

\* A heartbeat revives an instance in the table and in the registry alike.
LEMMA HeartbeatInv ==
  ASSUME PlaneInv, NEW c \in Conns, Heartbeat(c)
  PROVE  PlaneInv'
<1> USE Nothing DEF PlaneInv
<1>1. binding[c] \in Insts
  BY DEF Heartbeat, TypeOK
<1>2. TypeOK'
  BY <1>1 DEF Heartbeat, HeartbeatRow, TypeOK, RowsTypeOK, States
<1>3. RoutesOpen' /\ GrantsCurrent' /\ PolicyReachesGrantee'
  BY DEF Heartbeat, RoutesOpen, GrantsCurrent, PolicyReachesGrantee, Held
<1>4. LiveHasBridge' /\ VerdictsAgree'
  BY <1>1 DEF Heartbeat, HeartbeatRow, LiveHasBridge, VerdictsAgree, RoutesOpen, CanRoute, TypeOK, RowsTypeOK
<1> QED BY <1>2, <1>3, <1>4

\* A close takes the instance out of the routes, and its process out of the live ones.
LEMMA CloseInv ==
  ASSUME PlaneInv, NEW c \in Conns, Close(c)
  PROVE  PlaneInv'
<1> USE Nothing DEF PlaneInv
<1> DEFINE i == binding[c]
           p == ProcOf[i]
<1>1. i \in Insts /\ p \in Procs
  BY DEF Close, TypeOK
<1>2. TypeOK'
  BY <1>1 DEF Close, RouteClosed, SetInstanceState, TypeOK, RowsTypeOK, States
<1>3. RoutesOpen'
  BY <1>1 DEF Close, RouteClosed, RoutesOpen, TypeOK
<1>4. LiveHasBridge'
  BY <1>1 DEF Close, SetInstanceState, LiveHasBridge, RoutesOpen, CanRoute, TypeOK, RowsTypeOK
<1>5. VerdictsAgree'
  BY <1>1 DEF Close, SetInstanceState, VerdictsAgree, CanRoute, TypeOK, RowsTypeOK
<1>6. GrantsCurrent' /\ PolicyReachesGrantee'
  BY <1>1, LeaseShape DEF Close, GrantsCurrent, PolicyReachesGrantee, Held, TypeOK
<1> QED BY <1>2, <1>3, <1>4, <1>5, <1>6

\* Time alone changes no table.
LEMMA MissInv ==
  ASSUME PlaneInv, NEW i \in Insts, Miss(i)
  PROVE  PlaneInv'
  BY DEF PlaneInv, Miss, rowVars, TypeOK, RowsTypeOK, RoutesOpen, LiveHasBridge, VerdictsAgree,
         GrantsCurrent, PolicyReachesGrantee, Held, CanRoute

\* Whatever the order of the map, a swept process is not live any more.
LEMMA SweepInv ==
  ASSUME PlaneInv, Sweep
  PROVE  PlaneInv'
<1> USE Nothing DEF PlaneInv
<1>1. \A i \in Insts : /\ Verdict(i) \in {"none", "live", "stale", "dead"}
                       /\ i \in Overdue => Verdict(i) \in {"stale", "dead"}
                       /\ i \notin Overdue => Verdict(i) = registry[i]
  BY DEF Verdict, Overdue, TypeOK
<1>2. procState' \in [Procs -> States]
  BY DEF Sweep, SweptProcStates
<1>3. \A p \in Procs : \/ /\ \A i \in Overdue : ProcOf[i] # p
                          /\ procState'[p] = procState[p]
                          /\ v2live'[p] = v2live[p]
                       \/ /\ procState'[p] \in {"stale", "dead"}
                          /\ v2live'[p] = FALSE
  <2> SUFFICES ASSUME NEW p \in Procs
               PROVE  \/ /\ \A i \in Overdue : ProcOf[i] # p
                         /\ procState'[p] = procState[p]
                         /\ v2live'[p] = v2live[p]
                      \/ /\ procState'[p] \in {"stale", "dead"}
                         /\ v2live'[p] = FALSE
    OBVIOUS
  <2> DEFINE mine == {i \in Overdue : ProcOf[i] = p}
  <2>1. /\ v2live'[p] = SweptV2(p)
        /\ v2live[p] \in BOOLEAN
        /\ IF mine = {} THEN procState'[p] = procState[p] ELSE \E i \in mine : procState'[p] = Verdict(i)
    BY DEF Sweep, SweptProcStates, TypeOK
  <2>2. CASE mine = {}
    BY <2>1, <2>2 DEF SweptV2
  <2>3. CASE mine # {}
    BY <1>1, <2>1, <2>3 DEF SweptV2, Overdue
  <2> QED BY <2>2, <2>3
<1>4. TypeOK'
  <2>1. instState' \in [Insts -> States]
    BY <1>1 DEF Sweep, TypeOK, RowsTypeOK, States
  <2>2. registry' \in [Insts -> {"none", "live", "stale", "dead"}]
    BY <1>1 DEF Sweep
  <2>3. v2live' \in [Procs -> BOOLEAN]
    BY DEF Sweep, SweptV2, TypeOK
  <2> QED BY <1>2, <2>1, <2>2, <2>3 DEF Sweep, TypeOK, RowsTypeOK
<1>5. RoutesOpen' /\ GrantsCurrent' /\ PolicyReachesGrantee'
  BY DEF Sweep, RoutesOpen, GrantsCurrent, PolicyReachesGrantee, Held
<1>6. LiveHasBridge'
  BY <1>1, <1>3 DEF Sweep, LiveHasBridge, RoutesOpen, CanRoute, TypeOK
<1>7. VerdictsAgree'
  BY <1>1 DEF Sweep, VerdictsAgree, CanRoute
<1> QED BY <1>4, <1>5, <1>6, <1>7

\* After a restart no process is live: a live one had a live instance, which is lost now.
LEMMA RestartInv ==
  ASSUME PlaneInv, Restart
  PROVE  PlaneInv'
<1> USE Nothing DEF PlaneInv
<1>1. TypeOK'
  BY DEF Restart, LoseInterrupted, TypeOK, RowsTypeOK, States
<1>2. RoutesOpen' /\ GrantsCurrent' /\ PolicyReachesGrantee'
  BY DEF Restart, RoutesOpen, GrantsCurrent, PolicyReachesGrantee, Held, TypeOK
<1>3. \A p \in Procs : procState'[p] # "live"
  BY DEF Restart, LoseInterrupted, LiveHasBridge, Interrupted, TypeOK, RoutesOpen
<1>4. LiveHasBridge'
  BY <1>3 DEF Restart, LiveHasBridge
<1>5. VerdictsAgree'
  BY DEF Restart, LoseInterrupted, VerdictsAgree, Interrupted
<1> QED BY <1>1, <1>2, <1>4, <1>5

\* A lease is granted on the bridge that stands for the process.
LEMMA AcquireInv ==
  ASSUME PlaneInv, NEW d \in Dashes, NEW l \in LeaseIds, NEW p \in Procs, NEW s \in Sessions, Acquire(d, l, p, s)
  PROVE  PlaneInv'
<1> USE Nothing DEF PlaneInv
<1>1. bridges[p] # NoBridge /\ bridges[p].inst \in Insts
  BY LiveTargetShape, BridgeShape DEF Acquire
<1>2. TypeOK'
  BY <1>1 DEF Acquire, TypeOK, RowsTypeOK, rowVars
<1>3. RoutesOpen' /\ LiveHasBridge' /\ VerdictsAgree'
  BY DEF Acquire, RoutesOpen, LiveHasBridge, VerdictsAgree, CanRoute, rowVars
<1>4. GrantsCurrent'
  BY <1>1 DEF Acquire, GrantsCurrent, TypeOK, Held
<1>5. PolicyReachesGrantee'
  BY DEF Acquire, PolicyReachesGrantee, TypeOK, Held
<1> QED BY <1>2, <1>3, <1>4, <1>5

\* Releasing leases takes only policies away.
LEMMA ReleaseInv ==
  ASSUME PlaneInv, NEW gone, ReleaseLeases(gone)
  PROVE  PlaneInv'
<1> USE Nothing DEF PlaneInv
<1>1. TypeOK'
  BY DEF ReleaseLeases, Without, Told, TypeOK, RowsTypeOK, rowVars
<1>2. RoutesOpen' /\ LiveHasBridge' /\ VerdictsAgree'
  BY DEF ReleaseLeases, RoutesOpen, LiveHasBridge, VerdictsAgree, CanRoute, rowVars
<1>3. GrantsCurrent' /\ PolicyReachesGrantee'
  BY DEF ReleaseLeases, Without, Told, GrantsCurrent, PolicyReachesGrantee, TypeOK, Held
<1> QED BY <1>1, <1>2, <1>3

\* A policy goes to the socket of the grantee, whose runtime is the one that arms it.
LEMMA ArmGateInv ==
  ASSUME PlaneInv, NEW l \in LeaseIds, ArmGate(l)
  PROVE  PlaneInv'
<1> USE Nothing DEF PlaneInv
<1> DEFINE lease == dashLeases[l]
           target == LiveTarget(lease.proc, lease.sess)
           i == binding[target]
<1>1. /\ Held(l)
      /\ lease.proc \in Procs
      /\ lease.sess \in Sessions
  BY LeaseShape DEF ArmGate
<1>2. /\ bridges[lease.proc] # NoBridge
      /\ target = bridges[lease.proc].conn
      /\ session[target] = lease.sess
  BY <1>1, LiveTargetShape DEF ArmGate
<1>3. bridges[lease.proc].inst = lease.inst /\ i = lease.inst /\ i \in Insts
  BY <1>1, <1>2, BridgeShape DEF GrantsCurrent
<1>4. /\ policy' = IF session[target] = runtime[i] THEN [policy EXCEPT ![i] = l] ELSE policy
      /\ UNCHANGED <<rowVars, memoryVars, procSession, runtime>>
  BY <1>3 DEF ArmGate
<1>5. TypeOK'
  BY <1>3, <1>4 DEF TypeOK, RowsTypeOK, rowVars, memoryVars
<1>6. RoutesOpen' /\ LiveHasBridge' /\ VerdictsAgree' /\ GrantsCurrent'
  BY <1>4 DEF RoutesOpen, LiveHasBridge, VerdictsAgree, GrantsCurrent, CanRoute, Held, rowVars, memoryVars
<1>7. PolicyReachesGrantee'
  BY <1>1, <1>2, <1>3, <1>4 DEF PolicyReachesGrantee, Held, memoryVars, TypeOK
<1> QED BY <1>5, <1>6, <1>7

----------------------------------------------------------------------------
(* The theorems *)

\* Every step keeps the invariant.
LEMMA PlaneStep == ASSUME PlaneInv, [ControlNext]_vars PROVE PlaneInv'
<1>1. CASE UNCHANGED vars
  BY <1>1 DEF vars, rowVars, controlVars, memoryVars, PlaneInv, TypeOK, RowsTypeOK, RoutesOpen,
              LiveHasBridge, VerdictsAgree, GrantsCurrent, PolicyReachesGrantee, Held, CanRoute
<1>2. ASSUME NEW l \in LeaseIds, Release(l) PROVE PlaneInv'
  BY <1>2, ReleaseInv DEF Release
<1>3. ASSUME NEW d \in Dashes, DashClose(d) PROVE PlaneInv'
  BY <1>3, ReleaseInv DEF DashClose
<1> QED
  BY <1>1, <1>2, <1>3, RegisterInv, HeartbeatInv, CloseInv, MissInv, SweepInv, RestartInv,
     AcquireInv, ArmGateInv
     DEF ControlNext

\* The invariant holds throughout.
THEOREM PlaneInvariant == Spec => []PlaneInv
  BY PlaneInit, PlaneStep, PTL DEF Spec

\* The tables of the control plane keep their types.
THEOREM PlaneTypeOK == Spec => []TypeOK
<1>1. PlaneInv => TypeOK
  BY DEF PlaneInv
<1> QED BY <1>1, PlaneInvariant, PTL

\* Nothing is ever sent over a closed socket, or over one of two sockets of a bridge.
THEOREM PlaneRoutesOpen == Spec => []RoutesOpen
<1>1. PlaneInv => RoutesOpen
  BY DEF PlaneInv
<1> QED BY <1>1, PlaneInvariant, PTL

\* A process is presented as live only while a bridge of it is connected.
THEOREM PlaneLiveHasBridge == Spec => []LiveHasBridge
<1>1. PlaneInv => LiveHasBridge
  BY DEF PlaneInv
<1> QED BY <1>1, PlaneInvariant, PTL

\* The table and the registry agree on who is live.
THEOREM PlaneVerdictsAgree == Spec => []VerdictsAgree
<1>1. PlaneInv => VerdictsAgree
  BY DEF PlaneInv
<1> QED BY <1>1, PlaneInvariant, PTL

\* A lease is gone once another instance stands for its process.
THEOREM PlaneGrantsCurrent == Spec => []GrantsCurrent
<1>1. PlaneInv => GrantsCurrent
  BY DEF PlaneInv
<1> QED BY <1>1, PlaneInvariant, PTL

\* A held lease's policy is armed only in the instance and session it was granted for.
THEOREM PlanePolicyReachesGrantee == Spec => []PolicyReachesGrantee
<1>1. PlaneInv => PolicyReachesGrantee
  BY DEF PlaneInv
<1> QED BY <1>1, PlaneInvariant, PTL

----------------------------------------------------------------------------
(* Commands *)

CommandTypeOK ==
    /\ rows \in [Cmds -> [state : {"accepted"} \cup Outcomes, inst : Insts, request : Requests] \cup {NoRow}]
    /\ items \in [Cmds -> [state : {"accepted"} \cup Outcomes, inst : Insts, request : Requests,
                           client : Clients \cup {None}, restored : BOOLEAN] \cup {NoItem}]
    /\ toBridge \subseteq Commanded
    /\ fromBridge \subseteq Answered
    /\ ending \subseteq Conns
    /\ work \in [Insts -> SUBSET Cmds]
    /\ cache \in [Insts -> [Cmds -> Answers \cup {"none"}]]
    /\ invoked \in [Cmds -> Nat]
    /\ heard \in [Clients -> [Cmds -> SUBSET Outcomes]]

\* A frame is under way on open sockets only.
FramesOpen == \A f \in toBridge : binding[f.conn] # NoInst

\* Why a command is executed once: it is sent only when its row is new, in one frame, which
\* is gone once it is executed.
SentOnce ==
    /\ \A k \in Cmds : rows[k] = NoRow => invoked[k] = 0 /\ \A f \in toBridge : f.cmd # k
    /\ \A f, g \in toBridge : f.cmd = g.cmd => f = g
    /\ \A f \in toBridge : invoked[f.cmd] = 0
    /\ \A k \in Cmds : invoked[k] \in {0, 1}

CommandInv ==
    /\ CommandTypeOK
    /\ CopiesAgree
    /\ OpenHasBridge
    /\ HeardAgrees
    /\ FramesOpen
    /\ SentOnce

PathInv == PlaneInv /\ RowidsBounded /\ CommandInv

\* What a step may do to a row: nothing, insert it, or give it its result.
RowStep(k) ==
    \/ rows'[k] = rows[k]
    \/ /\ rows[k] = NoRow
       /\ \E i \in Insts, r \in Requests : rows'[k] = [state |-> "accepted", inst |-> i, request |-> r]
    \/ /\ rows[k].state = "accepted"
       /\ \E o \in Outcomes : rows'[k] = [rows[k] EXCEPT !.state = o]

RowSteps == DOMAIN rows' = Cmds /\ \A k \in Cmds : RowStep(k)

----------------------------------------------------------------------------
(* Shapes *)

\* A row is a record, and its state tells it from no row.
LEMMA RowShape ==
  ASSUME CommandTypeOK, NEW k \in Cmds
  PROVE  /\ rows[k] # NoRow => rows[k] \in [state : {"accepted"} \cup Outcomes, inst : Insts, request : Requests]
         /\ rows[k] = NoRow <=> rows[k].state = "none"
  BY DEF CommandTypeOK, NoRow, Outcomes, Answers

\* So is an item.
LEMMA ItemShape ==
  ASSUME CommandTypeOK, NEW k \in Cmds
  PROVE  /\ items[k] # NoItem =>
               items[k] \in [state : {"accepted"} \cup Outcomes, inst : Insts, request : Requests,
                             client : Clients \cup {None}, restored : BOOLEAN]
         /\ items[k] = NoItem <=> items[k].state = "none"
  BY DEF CommandTypeOK, NoItem, Outcomes, Answers

\* Nobody has heard of a command that has no result.
LEMMA Unheard ==
  ASSUME CommandTypeOK, HeardAgrees, NEW k \in Cmds, rows[k].state \notin Outcomes, NEW a \in Clients
  PROVE  heard[a][k] = {}
  BY DEF CommandTypeOK, HeardAgrees

----------------------------------------------------------------------------
(* The steps *)

\* Accepting: the new frame is the first of its command, over an open socket.
LEMMA AcceptInv ==
  ASSUME PlaneInv, CommandInv, NEW k \in Cmds, NEW i \in Insts, NEW r \in Requests,
         NEW a \in Clients \cup {None}, Accept(k, i, r, a)
  PROVE  CommandInv' /\ RowSteps
<1> USE DEF CommandInv
<1>1. routes[i] \in Conns /\ binding[routes[i]] = i /\ i # NoInst
  BY InstanceAssumption DEF Accept, PlaneInv, TypeOK, RoutesOpen
<1>2. items[k] = NoItem /\ UNCHANGED <<vars, fromBridge, ending, bridgeVars>>
  BY DEF Accept
<1>3. binding' = binding
  BY <1>2 DEF vars, controlVars, memoryVars
<1>4. UNCHANGED <<fromBridge, ending, work, cache, invoked>>
  BY <1>2 DEF bridgeVars
<1>5. CASE AcceptKnown(k, i, r, a)
  <2>1. rows[k] # NoRow /\ rows[k].inst = i /\ rows[k].request = r
    BY <1>5, InstanceAssumption, CommandAssumption DEF AcceptKnown, NoRow
  <2>2. rows[k].state \in {"accepted"} \cup Outcomes
    BY <2>1, RowShape
  <2>3. /\ items' = [items EXCEPT ![k] = [state |-> rows[k].state, inst |-> i, request |-> r,
                                         client |-> a, restored |-> TRUE]]
        /\ UNCHANGED <<rows, toBridge>>
    BY <1>5 DEF AcceptKnown
  <2>4. /\ heard' \in [Clients -> [Cmds -> SUBSET Outcomes]]
        /\ HeardAgrees'
    BY <1>5, <2>3, CommandAssumption DEF AcceptKnown, CommandTypeOK, HeardAgrees
  <2>5. CommandTypeOK'
    BY <1>4, <2>2, <2>3, <2>4 DEF CommandTypeOK
  <2>6. CopiesAgree'
    BY <2>1, <2>3 DEF CopiesAgree, CommandTypeOK
  <2>7. OpenHasBridge'
    BY <1>1, <1>3, <2>3 DEF OpenHasBridge, CommandTypeOK
  <2>8. FramesOpen' /\ SentOnce'
    BY <1>3, <1>4, <2>3 DEF FramesOpen, SentOnce
  <2>9. RowSteps
    BY <2>3 DEF RowSteps, RowStep, CommandTypeOK
  <2> QED BY <2>4, <2>5, <2>6, <2>7, <2>8, <2>9
<1>6. CASE AcceptNew(k, i, r, a)
  <2> DEFINE frame == [conn |-> routes[i], cmd |-> k]
  <2>1. /\ rows[k] = NoRow
        /\ rows' = [rows EXCEPT ![k] = [state |-> "accepted", inst |-> i, request |-> r]]
        /\ items' = [items EXCEPT ![k] = [state |-> "accepted", inst |-> i, request |-> r,
                                          client |-> a, restored |-> FALSE]]
        /\ toBridge' = toBridge \cup {frame}
        /\ heard' = heard
    BY <1>6 DEF AcceptNew
  <2>2. CommandTypeOK'
    BY <1>1, <1>4, <2>1 DEF CommandTypeOK, Commanded
  <2>3. CopiesAgree'
    BY <2>1 DEF CopiesAgree, CommandTypeOK
  <2>4. OpenHasBridge'
    BY <1>1, <1>3, <2>1 DEF OpenHasBridge, CommandTypeOK
  <2>5. HeardAgrees'
    <3>1. \A b \in Clients : heard[b][k] = {}
      BY <2>1, Unheard DEF NoRow, Outcomes, Answers
    <3> QED BY <2>1, <3>1 DEF HeardAgrees, CommandTypeOK
  <2>6. FramesOpen'
    BY <1>1, <1>3, <2>1 DEF FramesOpen
  <2>7. SentOnce'
    <3>1. invoked[k] = 0 /\ \A f \in toBridge : f.cmd # k
      BY <2>1 DEF SentOnce
    <3>2. \A j \in Cmds : rows'[j] = NoRow => j # k /\ rows[j] = NoRow
      BY <2>1 DEF CommandTypeOK, NoRow
    <3> QED BY <1>4, <2>1, <3>1, <3>2 DEF SentOnce, CommandTypeOK
  <2>8. RowSteps
    BY <2>1 DEF RowSteps, RowStep, CommandTypeOK
  <2> QED BY <2>2, <2>3, <2>4, <2>5, <2>6, <2>7, <2>8
<1> QED BY <1>5, <1>6 DEF Accept

\* An answer is on its way, or its socket is closing.
LEMMA AnswerTypes ==
  ASSUME TypeOK, CommandTypeOK, NEW i \in Insts, NEW k \in Cmds, NEW o \in Answers \cup {"rejected"}, Answer(i, k, o)
  PROVE  fromBridge' \subseteq Answered /\ ending' \subseteq Conns
  BY DEF Answer, OpenSockets, Answered, CommandTypeOK

\* A frame that is handled is gone, and its command not executed before.
LEMMA HandleInv ==
  ASSUME PlaneInv, CommandInv, NEW f \in Commanded, Handle(f)
  PROVE  CommandInv' /\ RowSteps
<1> USE DEF CommandInv
<1> DEFINE i == binding[f.conn]
           k == f.cmd
<1>1. f.conn \in Conns /\ k \in Cmds /\ f \in toBridge /\ invoked[k] = 0
  BY DEF Commanded, Handle, SentOnce
<1>2. i \in Insts
  BY <1>1 DEF FramesOpen, PlaneInv, TypeOK
<1>3. toBridge' = toBridge \ {f} /\ UNCHANGED <<vars, rows, items, heard, cache>>
  BY DEF Handle
<1>4. binding' = binding
  BY <1>3 DEF vars, controlVars, memoryVars
<1>5. /\ fromBridge' \subseteq Answered
      /\ ending' \subseteq Conns
      /\ work' \in [Insts -> SUBSET Cmds]
      /\ invoked' = invoked \/ invoked' = [invoked EXCEPT ![k] = @ + 1]
  <2>1. CASE UNCHANGED <<fromBridge, ending, work, invoked>>
    BY <2>1 DEF CommandTypeOK
  <2>2. CASE cache[i][k] # "none" /\ Answer(i, k, cache[i][k]) /\ UNCHANGED <<work, invoked>>
    <3>1. cache[i][k] \in Answers
      BY <1>1, <1>2, <2>2 DEF CommandTypeOK
    <3> HIDE DEF i, k
    <3> QED BY <1>1, <1>2, <2>2, <3>1, AnswerTypes DEF CommandTypeOK, PlaneInv
  <2>3. CASE Answer(i, k, "rejected") /\ UNCHANGED <<work, invoked>>
    <3> HIDE DEF i, k
    <3> QED BY <1>1, <1>2, <2>3, AnswerTypes DEF CommandTypeOK, PlaneInv
  <2>4. CASE /\ work' = [work EXCEPT ![i] = @ \cup {k}]
             /\ invoked' = [invoked EXCEPT ![k] = @ + 1]
             /\ UNCHANGED <<fromBridge, ending>>
    BY <1>1, <1>2, <2>4 DEF CommandTypeOK
  <2> QED BY <2>1, <2>2, <2>3, <2>4 DEF Handle
<1>6. CommandTypeOK'
  BY <1>1, <1>3, <1>5 DEF CommandTypeOK
<1>7. CopiesAgree' /\ OpenHasBridge' /\ HeardAgrees' /\ FramesOpen'
  BY <1>3, <1>4 DEF CopiesAgree, OpenHasBridge, HeardAgrees, FramesOpen
<1>8. SentOnce'
  <2>1. \A g \in toBridge' : g \in toBridge /\ g.cmd # k
    BY <1>1, <1>3 DEF SentOnce
  <2>2. rows[k] # NoRow
    BY <1>1 DEF SentOnce
  <2>3. toBridge' \subseteq Commanded
    BY <1>3 DEF CommandTypeOK
  <2>4. invoked'[k] \in {0, 1} /\ \A j \in Cmds \ {k} : invoked'[j] = invoked[j]
    <3> HIDE DEF k
    <3> QED BY <1>1, <1>5 DEF CommandTypeOK
  <2>5. \A g \in toBridge' : invoked'[g.cmd] = 0
    <3> HIDE DEF k
    <3> QED BY <2>1, <2>3, <2>4 DEF SentOnce, Commanded
  <2>6. \A j \in Cmds : rows'[j] = NoRow => invoked'[j] = 0 /\ \A g \in toBridge' : g.cmd # j
    <3> HIDE DEF k
    <3> QED BY <1>3, <2>1, <2>2, <2>4 DEF SentOnce
  <2>7. \A j \in Cmds : invoked'[j] \in {0, 1}
    <3> HIDE DEF k
    <3> QED BY <2>4 DEF SentOnce
  <2>8. \A g, h \in toBridge' : g.cmd = h.cmd => g = h
    BY <2>1 DEF SentOnce
  <2> QED BY <2>5, <2>6, <2>7, <2>8 DEF SentOnce
<1>9. RowSteps
  BY <1>3 DEF RowSteps, RowStep, CommandTypeOK
<1> QED BY <1>6, <1>7, <1>8, <1>9

\* The end of an execution touches nothing but the bridge and the wire.
LEMMA FinishInv ==
  ASSUME PlaneInv, CommandInv, NEW i \in Insts, NEW k \in Cmds, NEW o \in Answers, Finish(i, k, o)
  PROVE  CommandInv' /\ RowSteps
<1> USE DEF CommandInv
<1>1. /\ work' = [work EXCEPT ![i] = @ \ {k}]
      /\ cache' = [cache EXCEPT ![i][k] = o]
      /\ UNCHANGED <<vars, rows, items, heard, toBridge, invoked>>
  BY DEF Finish
<1>2. binding' = binding
  BY <1>1 DEF vars, controlVars, memoryVars
<1>3. fromBridge' \subseteq Answered /\ ending' \subseteq Conns
  BY AnswerTypes DEF Finish, PlaneInv
<1>4. CommandTypeOK'
  BY <1>1, <1>3 DEF CommandTypeOK
<1>5. CopiesAgree' /\ OpenHasBridge' /\ HeardAgrees' /\ FramesOpen' /\ SentOnce'
  BY <1>1, <1>2 DEF CopiesAgree, OpenHasBridge, HeardAgrees, FramesOpen, SentOnce
<1>6. RowSteps
  BY <1>1 DEF RowSteps, RowStep, CommandTypeOK
<1> QED BY <1>4, <1>5, <1>6

\* An answer that is taken is the first, or says the same again.
LEMMA ReceiveInv ==
  ASSUME PlaneInv, CommandInv, NEW f \in Answered, Receive(f)
  PROVE  CommandInv' /\ RowSteps
<1> USE DEF CommandInv
<1> DEFINE k == f.cmd
           o == f.outcome
<1>1. k \in Cmds /\ o \in Outcomes /\ f.conn \in Conns
  BY DEF Answered, Outcomes
<1>2. fromBridge' = fromBridge \ {f} /\ UNCHANGED <<vars, toBridge, bridgeVars>>
  BY DEF Receive
<1>3. binding' = binding /\ UNCHANGED <<work, cache, invoked>>
  BY <1>2 DEF vars, controlVars, memoryVars, bridgeVars
<1>4. CASE items[k] # NoItem /\ items[k].inst = binding[f.conn] /\ Completes(k, o)
  <2>1. /\ rows' = [rows EXCEPT ![k].state = o]
        /\ items' = [items EXCEPT ![k].state = o]
        /\ heard' = IF items[k].client = None THEN heard
                    ELSE [heard EXCEPT ![items[k].client][k] = @ \cup {o}]
        /\ UNCHANGED ending
    BY <1>4 DEF Receive
  <2>2. /\ rows[k] # NoRow
        /\ rows[k].state \in {"accepted", o}
    BY <1>1, <1>4, RowShape, ItemShape DEF Completes, CopiesAgree, Outcomes, Answers
  <2>3. /\ rows[k] \in [state : {"accepted"} \cup Outcomes, inst : Insts, request : Requests]
        /\ items[k] \in [state : {"accepted"} \cup Outcomes, inst : Insts, request : Requests,
                         client : Clients \cup {None}, restored : BOOLEAN]
    BY <1>1, <1>4, <2>2, RowShape, ItemShape
  <2>4. \A a \in Clients : heard[a][k] \subseteq {o}
    <3>1. CASE rows[k].state = o
      BY <1>1, <3>1 DEF HeardAgrees
    <3>2. CASE rows[k].state = "accepted"
      BY <1>1, <3>2, Unheard DEF Outcomes, Answers
    <3> QED BY <2>2, <3>1, <3>2
  <2>5. /\ rows'[k] = [rows[k] EXCEPT !.state = o]
        /\ \A j \in Cmds \ {k} : rows'[j] = rows[j]
        /\ items'[k] = [items[k] EXCEPT !.state = o]
        /\ \A j \in Cmds \ {k} : items'[j] = items[j]
        /\ DOMAIN rows' = Cmds
    BY <1>1, <2>1 DEF CommandTypeOK
  <2>6. heard' \in [Clients -> [Cmds -> SUBSET Outcomes]]
    BY <1>1, <2>1, <2>3 DEF CommandTypeOK
  <2>7. CommandTypeOK'
    <3>1. rows' \in [Cmds -> [state : {"accepted"} \cup Outcomes, inst : Insts, request : Requests] \cup {NoRow}]
      BY <1>1, <2>1, <2>3 DEF CommandTypeOK
    <3>2. items' \in [Cmds -> [state : {"accepted"} \cup Outcomes, inst : Insts, request : Requests,
                               client : Clients \cup {None}, restored : BOOLEAN] \cup {NoItem}]
      BY <1>1, <2>1, <2>3 DEF CommandTypeOK
    <3> QED BY <1>2, <1>3, <2>1, <2>6, <3>1, <3>2 DEF CommandTypeOK
  <2>8. CopiesAgree'
    BY <1>1, <1>4, <2>3, <2>5 DEF CopiesAgree
  <2>9. OpenHasBridge'
    BY <1>1, <1>3, <2>3, <2>5 DEF OpenHasBridge, Outcomes, Answers
  <2>10. HeardAgrees'
    <3>1. rows'[k].state = o
      BY <2>3, <2>5
    <3>2. \A a \in Clients : heard'[a][k] \subseteq {o}
      BY <1>1, <2>1, <2>4, <2>6 DEF CommandTypeOK
    <3>3. \A a \in Clients, j \in Cmds \ {k} : heard'[a][j] = heard[a][j]
      BY <1>1, <2>1 DEF CommandTypeOK
    <3>4. ASSUME NEW a \in Clients, NEW j \in Cmds PROVE heard'[a][j] \subseteq {rows'[j].state}
      <4>1. CASE j = k
        BY <3>1, <3>2, <4>1
      <4>2. CASE j # k
        BY <2>5, <3>3, <4>2 DEF HeardAgrees
      <4> QED BY <4>1, <4>2
    <3> QED BY <3>4 DEF HeardAgrees
  <2>11. FramesOpen'
    BY <1>2, <1>3 DEF FramesOpen
  <2>12. SentOnce'
    <3>1. rows'[k] # NoRow
      BY <1>1, <2>3, <2>5 DEF NoRow, Outcomes, Answers
    <3> QED BY <1>2, <1>3, <2>5, <3>1 DEF SentOnce
  <2>13. RowSteps
    <3>1. RowStep(k)
      BY <1>1, <2>2, <2>3, <2>5 DEF RowStep
    <3>2. \A j \in Cmds \ {k} : RowStep(j)
      BY <2>5 DEF RowStep
    <3> HIDE DEF k
    <3> QED BY <2>5, <3>1, <3>2 DEF RowSteps
  <2> QED BY <2>7, <2>8, <2>9, <2>10, <2>11, <2>12, <2>13
<1>5. CASE ending' = ending \cup {f.conn} /\ UNCHANGED <<rows, items, heard>>
  <2>1. CommandTypeOK'
    BY <1>1, <1>2, <1>3, <1>5 DEF CommandTypeOK
  <2>2. CopiesAgree' /\ OpenHasBridge' /\ HeardAgrees' /\ FramesOpen' /\ SentOnce'
    BY <1>2, <1>3, <1>5 DEF CopiesAgree, OpenHasBridge, HeardAgrees, FramesOpen, SentOnce
  <2>3. RowSteps
    BY <1>5 DEF RowSteps, RowStep, CommandTypeOK
  <2> QED BY <2>1, <2>2, <2>3
<1> QED BY <1>4, <1>5 DEF Receive

\* A close fails the same commands in the table and in the router.
LEMMA CloseBridgeInv ==
  ASSUME PlaneInv, CommandInv, NEW c \in Conns, CloseBridge(c)
  PROVE  CommandInv' /\ RowSteps
<1> USE DEF CommandInv
<1> DEFINE i == binding[c]
<1>1. /\ i # NoInst
      /\ binding' = [binding EXCEPT ![c] = NoInst]
      /\ rows' = RowsFailed(i)
      /\ items' = [k \in Cmds |-> IF k \in Dropped(i) THEN [items[k] EXCEPT !.state = "disconnected"]
                                  ELSE items[k]]
      /\ heard' = [a \in Clients |-> [k \in Cmds |->
             IF k \in Dropped(i) /\ items[k].client = a THEN heard[a][k] \cup {"disconnected"}
             ELSE heard[a][k]]]
      /\ toBridge' = OnOther(c, toBridge)
      /\ fromBridge' = OnOther(c, fromBridge)
      /\ ending' = ending \ {c}
      /\ UNCHANGED <<work, cache, invoked>>
  BY DEF CloseBridge, Close, bridgeVars
<1>2. \A k \in Cmds : rows'[k] = IF k \in Lost(i) THEN [rows[k] EXCEPT !.state = "disconnected"] ELSE rows[k]
  BY <1>1 DEF RowsFailed
<1>3. \A k \in Cmds : items[k] # NoItem => (k \in Dropped(i) <=> k \in Lost(i))
  BY DEF Dropped, Lost, CopiesAgree
<1>4. \A k \in Cmds : k \in Dropped(i) => items[k] # NoItem
  BY DEF Dropped, NoItem
<1>5. \A k \in Cmds : k \in Lost(i) => rows[k] # NoRow /\ rows[k].state = "accepted"
  BY DEF Lost, NoRow
<1>6. ASSUME NEW k \in Cmds
      PROVE  /\ rows'[k] \in [state : {"accepted"} \cup Outcomes, inst : Insts, request : Requests] \cup {NoRow}
             /\ rows'[k] = NoRow <=> rows[k] = NoRow
             /\ k \in Lost(i) => rows'[k].state = "disconnected"
             /\ rows'[k].inst = rows[k].inst
             /\ rows'[k].request = rows[k].request
  <2>1. CASE k \in Lost(i)
    <3>1. rows[k] \in [state : {"accepted"} \cup Outcomes, inst : Insts, request : Requests]
      BY <1>5, <2>1, RowShape
    <3>2. rows'[k] = [rows[k] EXCEPT !.state = "disconnected"]
      BY <1>2, <2>1
    <3>3. /\ rows'[k] \in [state : {"accepted"} \cup Outcomes, inst : Insts, request : Requests]
          /\ rows'[k].state = "disconnected"
          /\ rows'[k].inst = rows[k].inst
          /\ rows'[k].request = rows[k].request
      BY <3>1, <3>2 DEF Outcomes
    <3>4. rows'[k] # NoRow
      BY <3>3 DEF NoRow
    <3> QED BY <1>5, <2>1, <3>3, <3>4
  <2>2. CASE k \notin Lost(i)
    BY <1>2, <2>2 DEF CommandTypeOK
  <2> QED BY <2>1, <2>2
<1>7. ASSUME NEW k \in Cmds
      PROVE  /\ items'[k] \in [state : {"accepted"} \cup Outcomes, inst : Insts, request : Requests,
                                client : Clients \cup {None}, restored : BOOLEAN] \cup {NoItem}
             /\ items'[k] = NoItem <=> items[k] = NoItem
             /\ k \in Dropped(i) => items'[k].state = "disconnected"
             /\ items'[k].inst = items[k].inst
             /\ items'[k].request = items[k].request
  <2>1. CASE k \in Dropped(i)
    <3>1. items[k] \in [state : {"accepted"} \cup Outcomes, inst : Insts, request : Requests,
                        client : Clients \cup {None}, restored : BOOLEAN]
      BY <1>4, <2>1, ItemShape
    <3>2. items'[k] = [items[k] EXCEPT !.state = "disconnected"]
      BY <1>1, <2>1
    <3>3. /\ items'[k] \in [state : {"accepted"} \cup Outcomes, inst : Insts, request : Requests,
                             client : Clients \cup {None}, restored : BOOLEAN]
          /\ items'[k].state = "disconnected"
          /\ items'[k].inst = items[k].inst
          /\ items'[k].request = items[k].request
      BY <3>1, <3>2 DEF Outcomes
    <3>4. items'[k] # NoItem
      BY <3>3 DEF NoItem
    <3> QED BY <1>4, <2>1, <3>3, <3>4
  <2>2. CASE k \notin Dropped(i)
    <3>1. items'[k] = items[k]
      BY <1>1, <2>2
    <3> QED BY <2>2, <3>1 DEF CommandTypeOK
  <2> QED BY <2>1, <2>2
<1>8. ASSUME NEW a \in Clients, NEW k \in Cmds
      PROVE  heard'[a][k] \subseteq {rows'[k].state} /\ heard'[a][k] \subseteq Outcomes
  <2>1. heard'[a][k] = IF k \in Dropped(i) /\ items[k].client = a THEN heard[a][k] \cup {"disconnected"}
                       ELSE heard[a][k]
    BY <1>1
  <2>2. heard[a][k] \subseteq Outcomes /\ heard[a][k] \subseteq {rows[k].state}
    BY DEF CommandTypeOK, HeardAgrees
  <2>3. CASE k \in Lost(i)
    <3>1. heard[a][k] = {}
      BY <1>5, <2>3, Unheard DEF Outcomes, Answers
    <3> QED BY <1>6, <2>1, <2>3, <3>1 DEF Outcomes
  <2>4. CASE k \notin Lost(i)
    BY <1>2, <1>3, <1>4, <2>1, <2>2, <2>4
  <2> QED BY <2>3, <2>4
<1>9. CommandTypeOK'
  <2>1. rows' \in [Cmds -> [state : {"accepted"} \cup Outcomes, inst : Insts, request : Requests] \cup {NoRow}]
    BY <1>1, <1>6 DEF RowsFailed
  <2>2. items' \in [Cmds -> [state : {"accepted"} \cup Outcomes, inst : Insts, request : Requests,
                             client : Clients \cup {None}, restored : BOOLEAN] \cup {NoItem}]
    BY <1>1, <1>7
  <2>3. heard' \in [Clients -> [Cmds -> SUBSET Outcomes]]
    BY <1>1, <1>8
  <2> HIDE DEF i
  <2> QED BY <1>1, <2>1, <2>2, <2>3 DEF CommandTypeOK, OnOther
<1>10. CopiesAgree'
  <2> SUFFICES ASSUME NEW k \in Cmds, items'[k] # NoItem
               PROVE  /\ rows'[k].state = items'[k].state
                      /\ rows'[k].inst = items'[k].inst
                      /\ rows'[k].request = items'[k].request
    BY DEF CopiesAgree
  <2>1. items[k] # NoItem
    BY <1>7
  <2>2. rows'[k].inst = items'[k].inst /\ rows'[k].request = items'[k].request
    BY <1>6, <1>7, <2>1 DEF CopiesAgree
  <2>3. CASE k \in Dropped(i)
    BY <1>3, <1>6, <1>7, <2>1, <2>2, <2>3
  <2>4. CASE k \notin Dropped(i)
    <3>1. items'[k] = items[k] /\ rows'[k] = rows[k]
      BY <1>1, <1>2, <1>3, <2>1, <2>4
    <3> QED BY <2>1, <3>1 DEF CopiesAgree
  <2> QED BY <2>3, <2>4
<1>11. OpenHasBridge'
  <2> SUFFICES ASSUME NEW k \in Cmds, items'[k].state = "accepted"
               PROVE  \E d \in Conns : binding'[d] = items'[k].inst
    BY DEF OpenHasBridge
  <2>1. k \notin Dropped(i)
    BY <1>7
  <2>2. items'[k] = items[k]
    BY <1>1, <2>1
  <2>3. items[k].inst # i
    BY <2>1, <2>2 DEF Dropped
  <2>4. PICK d \in Conns : binding[d] = items[k].inst
    BY <2>2 DEF OpenHasBridge
  <2> QED BY <1>1, <2>2, <2>3, <2>4 DEF PlaneInv, TypeOK
<1>12. HeardAgrees'
  BY <1>8 DEF HeardAgrees
<1>13. FramesOpen'
  <2>1. \A f \in toBridge' : f \in toBridge /\ f.conn # c /\ f.conn \in Conns
    BY <1>1 DEF OnOther, CommandTypeOK, Commanded
  <2>2. \A d \in Conns \ {c} : binding'[d] = binding[d]
    BY <1>1 DEF PlaneInv, TypeOK
  <2> QED BY <2>1, <2>2 DEF FramesOpen
<1>14. SentOnce'
  <2>1. toBridge' \subseteq toBridge
    BY <1>1 DEF OnOther
  <2> QED BY <1>1, <1>6, <2>1 DEF SentOnce
<1>15. RowSteps
  <2>1. \A k \in Cmds : RowStep(k)
    BY <1>2, <1>5 DEF RowStep, Outcomes
  <2> QED BY <1>1, <2>1 DEF RowSteps, RowsFailed
<1> QED BY <1>9, <1>10, <1>11, <1>12, <1>13, <1>14, <1>15

\* A registration opens a socket and leaves commands alone.
LEMMA RegisterBridgeInv ==
  ASSUME PlaneInv, CommandInv, NEW c \in Conns, NEW i \in Insts, NEW s \in Sessions, RegisterBridge(c, i, s)
  PROVE  CommandInv' /\ RowSteps
<1> USE DEF CommandInv
<1>1. /\ binding[c] = NoInst
      /\ binding' = [binding EXCEPT ![c] = i]
      /\ UNCHANGED <<rows, items, heard, toBridge, fromBridge, ending, invoked>>
  BY DEF RegisterBridge, Register, wireVars
<1>2. work' \in [Insts -> SUBSET Cmds] /\ cache' \in [Insts -> [Cmds -> Answers \cup {"none"}]]
  BY DEF RegisterBridge, CommandTypeOK
<1>3. \A d \in Conns : binding[d] # NoInst => binding'[d] = binding[d]
  BY <1>1 DEF PlaneInv, TypeOK
<1>4. CommandTypeOK'
  BY <1>1, <1>2 DEF CommandTypeOK
<1>5. OpenHasBridge'
  <2> SUFFICES ASSUME NEW k \in Cmds, items[k].state = "accepted"
               PROVE  \E d \in Conns : binding'[d] = items[k].inst
    BY <1>1 DEF OpenHasBridge
  <2>1. items[k].inst \in Insts
    BY ItemShape DEF NoItem
  <2>2. PICK d \in Conns : binding[d] = items[k].inst
    BY DEF OpenHasBridge
  <2> QED BY <1>3, <2>1, <2>2, InstanceAssumption
<1>6. FramesOpen'
  BY <1>1, <1>3 DEF FramesOpen, CommandTypeOK, Commanded
<1>7. CopiesAgree' /\ HeardAgrees' /\ SentOnce'
  BY <1>1 DEF CopiesAgree, HeardAgrees, SentOnce
<1>8. RowSteps
  BY <1>1 DEF RowSteps, RowStep, CommandTypeOK
<1> QED BY <1>4, <1>5, <1>6, <1>7, <1>8

\* A restart forgets the router's copies and every frame.
LEMMA RestartDaemonInv ==
  ASSUME PlaneInv, CommandInv, RestartDaemon
  PROVE  CommandInv' /\ RowSteps
<1> USE DEF CommandInv
<1>1. /\ items' = [k \in Cmds |-> NoItem]
      /\ toBridge' = {} /\ fromBridge' = {} /\ ending' = {}
      /\ UNCHANGED <<rows, heard, work, cache, invoked>>
  BY DEF RestartDaemon, bridgeVars
<1>2. CommandTypeOK'
  BY <1>1 DEF CommandTypeOK
<1>3. CopiesAgree' /\ OpenHasBridge' /\ HeardAgrees' /\ FramesOpen' /\ SentOnce'
  BY <1>1 DEF CopiesAgree, OpenHasBridge, HeardAgrees, FramesOpen, SentOnce, NoItem
<1>4. RowSteps
  BY <1>1 DEF RowSteps, RowStep, CommandTypeOK
<1> QED BY <1>2, <1>3, <1>4

\* Steps that neither open nor close a socket.
LEMMA OtherwiseInv ==
  ASSUME PlaneInv, CommandInv, UNCHANGED <<binding, commandVars>>
  PROVE  CommandInv' /\ RowSteps
<1> USE DEF CommandInv
<1>1. UNCHANGED <<rows, items, heard, toBridge, fromBridge, ending, work, cache, invoked>>
  BY DEF commandVars, wireVars, bridgeVars
<1>2. CommandTypeOK'
  BY <1>1 DEF CommandTypeOK
<1>3. CopiesAgree' /\ OpenHasBridge' /\ HeardAgrees' /\ FramesOpen' /\ SentOnce'
  BY <1>1 DEF CopiesAgree, OpenHasBridge, HeardAgrees, FramesOpen, SentOnce
<1>4. RowSteps
  BY <1>1 DEF RowSteps, RowStep, CommandTypeOK
<1> QED BY <1>2, <1>3, <1>4

----------------------------------------------------------------------------
(* The theorems *)

\* Nothing has been sent at first.
LEMMA PathInitInv == PathInit => PathInv
<1>1. ControlInit => RowidsBounded
  <2>1. Cardinality(Insts) \in Nat
    BY InstanceAssumption, FS_CardinalityType
  <2> QED BY <2>1 DEF ControlInit, RowsInit, RowidsBounded
<1>2. CommandInit => CommandInv
  BY DEF CommandInit, CommandInv, CommandTypeOK, CopiesAgree, OpenHasBridge, HeardAgrees, FramesOpen,
         SentOnce, NoItem
<1> QED BY <1>1, <1>2, PlaneInit DEF PathInit, PathInv

\* A command goes to an instance that there is.
LEMMA RequestAccepts ==
  ASSUME PathInv, NEW k \in Cmds, NEW p \in Procs, NEW r \in Requests,
         \/ \E a \in Clients, s \in Sessions \cup {None} : Request(a, k, p, s, r)
         \/ RouteV2(k, p, r)
  PROVE  /\ CurrentInstance(p) \in Insts
         /\ \E a \in Clients \cup {None} : Accept(k, CurrentInstance(p), r, a)
         /\ UNCHANGED vars
<1>1. CurrentInstance(p) # NoInst
  BY DEF Request, RouteV2
<1>2. CurrentInstance(p) \in Insts
  BY <1>1, CurrentInstanceLive DEF PathInv, PlaneInv, TypeOK
<1>3. \E a \in Clients \cup {None} : Accept(k, CurrentInstance(p), r, a)
  BY DEF Request, RouteV2
<1> QED BY <1>2, <1>3 DEF Accept

\* Seen from the control plane, a step of the path is a step of its own or none.
LEMMA PlanePart ==
  ASSUME PathInv, PathNext
  PROVE  [ControlNext]_vars
<1>1. ASSUME NEW k \in Cmds, NEW p \in Procs, NEW r \in Requests,
             \/ \E a \in Clients, s \in Sessions \cup {None} : Request(a, k, p, s, r)
             \/ RouteV2(k, p, r)
      PROVE  UNCHANGED vars
  BY <1>1, RequestAccepts
<1>2. ASSUME NEW f \in Commanded, Handle(f) PROVE UNCHANGED vars
  BY <1>2 DEF Handle
<1>3. ASSUME NEW i \in Insts, NEW k \in Cmds, NEW o \in Answers, Finish(i, k, o) PROVE UNCHANGED vars
  BY <1>3 DEF Finish
<1>4. ASSUME NEW f \in Answered, Receive(f) PROVE UNCHANGED vars
  BY <1>4 DEF Receive
<1>5. ASSUME NEW c \in Conns, CloseBridge(c) PROVE ControlNext
  BY <1>5 DEF CloseBridge, ControlNext
<1>6. ASSUME NEW c \in Conns, NEW i \in Insts, NEW s \in Sessions, RegisterBridge(c, i, s) PROVE ControlNext
  BY <1>6 DEF RegisterBridge, ControlNext
<1>7. ASSUME RestartDaemon PROVE ControlNext
  BY <1>7 DEF RestartDaemon, ControlNext
<1>8. ASSUME Otherwise PROVE ControlNext
  BY <1>8 DEF Otherwise, ControlNext
<1> QED BY <1>1, <1>2, <1>3, <1>4, <1>5, <1>6, <1>7, <1>8 DEF PathNext

\* Only a registration numbers a row.
LEMMA RowidsStep ==
  ASSUME PlaneInv, RowidsBounded, [ControlNext]_vars
  PROVE  RowidsBounded'
<1>1. ASSUME NEW c \in Conns, NEW i \in Insts, NEW s \in Sessions, Register(c, i, s) PROVE RowidsBounded'
  BY <1>1, RegisterRowids DEF Register, PlaneInv, TypeOK
<1>2. ASSUME UNCHANGED rowid PROVE RowidsBounded'
  BY <1>2 DEF RowidsBounded
<1>3. CASE UNCHANGED vars
  BY <1>2, <1>3 DEF vars, rowVars
<1>4. ASSUME ControlNext, \A c \in Conns, i \in Insts, s \in Sessions : ~Register(c, i, s) PROVE UNCHANGED rowid
  BY <1>4 DEF ControlNext, Heartbeat, HeartbeatRow, Close, SetInstanceState, Miss, Sweep, Restart,
              LoseInterrupted, Acquire, Release, ReleaseLeases, ArmGate, DashClose, rowVars
<1> QED BY <1>1, <1>2, <1>3, <1>4

\* Every step keeps the invariant and moves rows as the reference ledger does.
LEMMA PathStep ==
  ASSUME PathInv, [PathNext]_pathVars
  PROVE  PathInv' /\ RowSteps
<1>1. CASE UNCHANGED pathVars
  <2>1. UNCHANGED <<vars, commandVars, binding, rowid>>
    BY <1>1 DEF pathVars, vars, controlVars, memoryVars, rowVars
  <2>2. PlaneInv' /\ RowidsBounded'
    BY <2>1, PlaneStep, RowidsStep DEF PathInv
  <2> QED BY <2>1, <2>2, OtherwiseInv DEF PathInv
<1>2. CASE PathNext
  <2>1. PlaneInv' /\ RowidsBounded'
    BY <1>2, PlanePart, PlaneStep, RowidsStep DEF PathInv
  <2>2. CommandInv' /\ RowSteps
    <3> USE DEF PathInv
    <3>1. ASSUME NEW k \in Cmds, NEW p \in Procs, NEW r \in Requests,
                 \/ \E a \in Clients, s \in Sessions \cup {None} : Request(a, k, p, s, r)
                 \/ RouteV2(k, p, r)
          PROVE  CommandInv' /\ RowSteps
      BY <3>1, RequestAccepts, AcceptInv
    <3>2. ASSUME Otherwise PROVE CommandInv' /\ RowSteps
      <4>1. UNCHANGED <<binding, commandVars>>
        BY <3>2 DEF Otherwise, Heartbeat, Miss, Sweep
      <4> QED BY <4>1, OtherwiseInv
    <3> QED
      BY <1>2, <3>1, <3>2, HandleInv, FinishInv, ReceiveInv, CloseBridgeInv, RegisterBridgeInv,
         RestartDaemonInv DEF PathNext
  <2> QED BY <2>1, <2>2 DEF PathInv
<1> QED BY <1>1, <1>2

\* The invariant holds throughout.
THEOREM PathInvariant == PathSpec => []PathInv
  BY PathInitInv, PathStep, PTL DEF PathSpec

\* Tables, frames and histories keep their types.
THEOREM PathTypes == PathSpec => []PathTypeOK
<1>1. PathInv => PathTypeOK
  BY DEF PathInv, PlaneInv, CommandInv, CommandTypeOK, PathTypeOK
<1> QED BY <1>1, PathInvariant, PTL

\* A command is executed once at most.
THEOREM PathInvokedOnce == PathSpec => []InvokedOnce
<1>1. PathInv => InvokedOnce
  BY DEF PathInv, CommandInv, SentOnce, InvokedOnce
<1> QED BY <1>1, PathInvariant, PTL

\* The table and the router's memory never part.
THEOREM PathCopiesAgree == PathSpec => []CopiesAgree
<1>1. PathInv => CopiesAgree
  BY DEF PathInv, CommandInv
<1> QED BY <1>1, PathInvariant, PTL

\* What a client was told stays true.
THEOREM PathHeardAgrees == PathSpec => []HeardAgrees
<1>1. PathInv => HeardAgrees
  BY DEF PathInv, CommandInv
<1> QED BY <1>1, PathInvariant, PTL

\* No command is open without a socket of its instance.
THEOREM PathOpenHasBridge == PathSpec => []OpenHasBridge
<1>1. PathInv => OpenHasBridge
  BY DEF PathInv, CommandInv
<1> QED BY <1>1, PathInvariant, PTL

\* The table of commands implements the reference ledger.
THEOREM PathImplementsLedger == PathSpec => ImplementsCommandLedger
<1> DEFINE Seen(row) == IF row = NoRow THEN None
                        ELSE [request |-> [inst |-> row.inst, request |-> row.request],
                              outcome |-> IF row.state = "accepted" THEN None ELSE row.state]
<1>1. PathInit => Ledger!LedgerInit
  BY DEF PathInit, CommandInit, Ledger!LedgerInit
<1>2. ASSUME CommandTypeOK, RowSteps PROVE Ledger!LedgerNext
  <2>1. ASSUME NEW k \in Cmds, RowStep(k)
        PROVE  \/ Seen(rows'[k]) = Seen(rows[k])
               \/ /\ Seen(rows[k]) = None
                  /\ \E r \in [inst : Insts, request : Requests] : Seen(rows'[k]) = Ledger!Accepted(r)
               \/ \E r \in [inst : Insts, request : Requests], o \in Outcomes :
                     Seen(rows[k]) = Ledger!Accepted(r) /\ Seen(rows'[k]) = Ledger!Answered(r, o)
    <3>1. CASE rows'[k] = rows[k]
      BY <3>1
    <3>2. ASSUME rows[k] = NoRow, NEW i \in Insts, NEW r \in Requests,
                 rows'[k] = [state |-> "accepted", inst |-> i, request |-> r]
          PROVE  /\ Seen(rows[k]) = None
                 /\ Seen(rows'[k]) = Ledger!Accepted([inst |-> i, request |-> r])
      <4>1. rows'[k] # NoRow
        BY <3>2 DEF NoRow
      <4> QED BY <3>2, <4>1 DEF Ledger!Accepted
    <3>3. ASSUME rows[k].state = "accepted", NEW o \in Outcomes, rows'[k] = [rows[k] EXCEPT !.state = o]
          PROVE  /\ [inst |-> rows[k].inst, request |-> rows[k].request] \in [inst : Insts, request : Requests]
                 /\ Seen(rows[k]) = Ledger!Accepted([inst |-> rows[k].inst, request |-> rows[k].request])
                 /\ Seen(rows'[k]) = Ledger!Answered([inst |-> rows[k].inst, request |-> rows[k].request], o)
      <4>1. /\ rows[k] # NoRow
            /\ rows[k] \in [state : {"accepted"} \cup Outcomes, inst : Insts, request : Requests]
        BY <1>2, <3>3, RowShape DEF NoRow
      <4>2. /\ rows'[k].state = o /\ o # "accepted" /\ o # "none"
            /\ rows'[k].inst = rows[k].inst
            /\ rows'[k].request = rows[k].request
        BY <3>3, <4>1 DEF Outcomes, Answers
      <4>3. rows'[k] # NoRow
        BY <4>2 DEF NoRow
      <4> QED BY <3>3, <4>1, <4>2, <4>3 DEF Ledger!Accepted, Ledger!Answered
    <3> QED BY <2>1, <3>1, <3>2, <3>3 DEF RowStep
  <2> DEFINE now == [k \in Cmds |-> Seen(rows[k])]
             next == [k \in Cmds |-> Seen(rows'[k])]
  <2>2. \A k \in Cmds : \/ next[k] = now[k]
                         \/ /\ now[k] = None
                            /\ \E r \in [inst : Insts, request : Requests] : next[k] = Ledger!Accepted(r)
                         \/ \E r \in [inst : Insts, request : Requests], o \in Outcomes :
                               now[k] = Ledger!Accepted(r) /\ next[k] = Ledger!Answered(r, o)
    <3> HIDE DEF Seen
    <3> QED BY <1>2, <2>1 DEF RowSteps
  <2>3. DOMAIN next = Cmds
    OBVIOUS
  <2> QED BY <2>2, <2>3 DEF Ledger!LedgerNext, Ledger!Accept, Ledger!Complete
<1>3. PathInv /\ [PathNext]_pathVars => Ledger!LedgerNext
  BY <1>2, PathStep DEF PathInv, CommandInv
<1> QED BY <1>1, <1>3, PathInvariant, PTL DEF PathSpec, ImplementsCommandLedger, Ledger!LedgerSpec

\* A command that names a session is sent over the socket of that session.
THEOREM PathReachesSession == PathSpec => ReachesSession
<1>1. ASSUME PathInv,
             NEW a \in Clients, NEW k \in Cmds, NEW p \in Procs, NEW s \in Sessions, NEW r \in Requests,
             Request(a, k, p, s, r),
             Cardinality({i \in Insts : ProcOf[i] = p /\ instState[i] = "live"}) = 1,
             NEW f \in toBridge' \ toBridge
      PROVE  session[f.conn] = s
  <2> DEFINE alive == {i \in Insts : ProcOf[i] = p /\ instState[i] = "live"}
             j == CurrentInstance(p)
             b == bridges[p]
  <2>1. j # NoInst /\ procState[p] = "live" /\ s = procSession[p]
    BY <1>1, ControlAssumption DEF Request
  <2>2. j \in alive
    BY <1>1, <2>1, CurrentInstanceLive DEF PathInv, PlaneInv, TypeOK
  <2>3. /\ b # NoBridge
        /\ instState[b.inst] = "live"
        /\ session[b.conn] = procSession[p]
    BY <1>1, <2>1 DEF PathInv, PlaneInv, LiveHasBridge
  <2>4. b.inst \in alive /\ routes[b.inst] = b.conn
    BY <1>1, <2>3, BridgeShape DEF PathInv, PlaneInv
  <2>5. b.inst = j
    <3>1. IsFiniteSet(alive)
      <4>1. alive \in SUBSET Insts
        OBVIOUS
      <4> HIDE DEF alive
      <4> QED BY <4>1, InstanceAssumption, FS_Subset
    <3>2. Cardinality(alive) = 1
      BY <1>1
    <3>3. \E x : alive = {x}
      <4> HIDE DEF alive
      <4> QED BY <3>1, <3>2, FS_Singleton
    <3> QED BY <2>2, <2>4, <3>3
  <2>6. f.conn = routes[j]
    <3>1. Accept(k, j, r, a)
      BY <1>1 DEF Request
    <3>2. toBridge' = toBridge \/ toBridge' = toBridge \cup {[conn |-> routes[j], cmd |-> k]}
      BY <3>1 DEF Accept, AcceptKnown, AcceptNew
    <3> QED BY <1>1, <3>2
  <2> QED BY <2>1, <2>3, <2>4, <2>5, <2>6
<1>2. PathInv /\ [PathNext]_pathVars =>
        [\A a \in Clients, k \in Cmds, p \in Procs, s \in Sessions, r \in Requests :
            /\ Request(a, k, p, s, r)
            /\ Cardinality({i \in Insts : ProcOf[i] = p /\ instState[i] = "live"}) = 1
            => \A f \in toBridge' \ toBridge : session[f.conn] = s]_pathVars
  BY <1>1
<1> QED BY <1>2, PathInvariant, PTL DEF PathSpec, ReachesSession
=============================================================================

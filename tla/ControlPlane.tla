---------------------------- MODULE ControlPlane ----------------------------
(***************************************************************************)
(* The daemon's control plane: packages/daemon/src/daemon.ts with          *)
(* process-registry.ts, the binding table of command-router.ts and the     *)
(* live flags of v2-session.ts, over the instance rows of InstanceRows.    *)
(* Bridges (one runtime per session of a Pi process) register over         *)
(* sockets, dashboards take leases on them and arm tool gates and pauses.  *)
(*                                                                         *)
(* A frame handler or a close handler of the daemon runs without an await, *)
(* so each is one action.  What is still open is their order: the daemon   *)
(* may see the close of a bridge's old socket after the registration over  *)
(* its new one.  A frame the daemon sends reaches the bridge at once.      *)
(***************************************************************************)
EXTENDS InstanceRows

CONSTANTS
    Conns,      \* sockets of bridges
    Dashes,     \* sockets of dashboards
    LeaseIds,   \* dashboard lease ids
    Sessions,   \* session ids, one for each runtime of a bridge
    None,       \* "no socket", "no session", "no lease"
    MayRestart  \* bound: whether the daemon is ever restarted

ASSUME ControlAssumption ==
    /\ None \notin Conns \cup Dashes \cup Sessions \cup LeaseIds \cup Procs
    /\ MayRestart \in BOOLEAN

VARIABLES
    binding,      \* the instance registered over a socket, NoInst while there is none
    session,      \* the session it registered with
    bridges,      \* #bridges: the bridge that stands for a process
    routes,       \* CommandRouter's #bindings, by instance
    registry,     \* ProcessRegistry's #items: the state of an instance
    missed,       \* 0, 1, 2: up to 3, up to 6, more than 6 intervals without a heartbeat
    procSession,  \* processes.session_id
    v2live,       \* V2SessionManager: Process.live
    dashLeases,   \* #dashboardLeases
    runtime,      \* at the bridge: the session of the running runtime
    policy        \* at the bridge: the lease of the tool-gate policy that runtime has policy

memoryVars == <<binding, session, bridges, routes, registry, missed, v2live, dashLeases>>
controlVars == <<memoryVars, procSession, runtime, policy>>
vars == <<rowVars, controlVars>>

NoBridge == [inst |-> NoInst, conn |-> None]
NoLease == [owner |-> None, proc |-> None, sess |-> None, inst |-> NoInst]

ControlInit ==
    /\ RowsInit
    /\ binding = [c \in Conns |-> NoInst]
    /\ session = [c \in Conns |-> None]
    /\ bridges = [p \in Procs |-> NoBridge]
    /\ routes = [i \in Insts |-> None]
    /\ registry = [i \in Insts |-> "none"]
    /\ missed = [i \in Insts |-> 0]
    /\ procSession = [p \in Procs |-> None]
    /\ v2live = [p \in Procs |-> FALSE]
    /\ dashLeases = [l \in LeaseIds |-> NoLease]
    /\ runtime = [i \in Insts |-> None]
    /\ policy = [i \in Insts |-> None]

----------------------------------------------------------------------------
(* Routing decisions *)

CanRoute(i) == registry[i] = "live"

\* `command.request` and CommandRouter.accept: the socket a command goes to.
CommandTarget(p) ==
    LET i == CurrentInstance(p)
    IN  IF i # NoInst /\ procState[p] = "live" /\ CanRoute(i) THEN routes[i] ELSE None

LiveTargetLoose(p, s) ==
    LET i == CurrentInstance(p)
    IN  IF i # NoInst /\ procState[p] = "live" /\ bridges[p].inst = i /\ CanRoute(i)
        THEN bridges[p].conn ELSE None

\* `liveTarget`: the socket of the bridge that a lease may control.
LiveTarget(p, s) ==
    LET i == CurrentInstance(p)
    IN  IF i # NoInst /\ procState[p] = "live" /\ procSession[p] = s
           /\ bridges[p].inst = i /\ CanRoute(i)
        THEN bridges[p].conn ELSE None

Held(l) == dashLeases[l] # NoLease

\* The runtime of i hears what the daemon sends to the bridge of its process: it is not
\* another instance's, nor that of a runtime which has ended.
Hears(i) ==
    LET c == bridges[ProcOf[i]].conn
    IN  c # None /\ binding[c] = i /\ session[c] = runtime[i]

\* The policies left when `releaseDashboardLease` has sent `dashboard.disconnected` for
\* the leases `gone`.
Told(gone) ==
    [i \in Insts |-> IF policy[i] \in gone /\ dashLeases[policy[i]].proc = ProcOf[i] /\ Hears(i)
                     THEN None ELSE policy[i]]

Without(gone) == [l \in LeaseIds |-> IF l \in gone THEN NoLease ELSE dashLeases[l]]

RevokedNone(i) == {}

\* The leases that a registration of i revokes.
Revoked(i) == {l \in LeaseIds : Held(l) /\ dashLeases[l].proc = ProcOf[i] /\ dashLeases[l].inst # i}

----------------------------------------------------------------------------
(* Bridges *)

\* A bridge opens a socket and registers: the runtime of session s connects again, or a
\* new runtime starts, which has armed nothing.  `process.register`.
Register(c, i, s) ==
    /\ binding[c] = NoInst
    /\ RegisterRows(i)
    /\ procSession' = [procSession EXCEPT ![ProcOf[i]] = s]
    /\ dashLeases' = Without(Revoked(i))
    /\ policy' = [Told(Revoked(i)) EXCEPT ![i] = IF runtime[i] = s THEN @ ELSE None]
    /\ binding' = [binding EXCEPT ![c] = i]
    /\ session' = [session EXCEPT ![c] = s]
    /\ bridges' = [bridges EXCEPT ![ProcOf[i]] = [inst |-> i, conn |-> c]]
    /\ registry' = [registry EXCEPT ![i] = "live"]
    /\ missed' = [missed EXCEPT ![i] = 0]
    /\ v2live' = [v2live EXCEPT ![ProcOf[i]] = TRUE]
    /\ routes' = [routes EXCEPT ![i] = c]
    /\ runtime' = [runtime EXCEPT ![i] = s]

HeartbeatRowOnly(c) ==
    /\ binding[c] # NoInst
    /\ missed' = [missed EXCEPT ![binding[c]] = 0]
    /\ HeartbeatRow(binding[c])
    /\ UNCHANGED <<registry, binding, session, bridges, routes, v2live, dashLeases, procSession, runtime, policy>>

\* `heartbeat`: the registry and the instance row.
Heartbeat(c) ==
    /\ binding[c] # NoInst
    /\ registry' = [registry EXCEPT ![binding[c]] = "live"]
    /\ missed' = [missed EXCEPT ![binding[c]] = 0]
    /\ HeartbeatRow(binding[c])
    /\ UNCHANGED <<binding, session, bridges, routes, v2live, dashLeases, procSession, runtime, policy>>

RouteKept(i) == routes

\* The bindings after CommandRouter.disconnect.
RouteClosed(i) == [routes EXCEPT ![i] = None]

\* The "close" event of a bridge's socket.
Close(c) ==
    LET i == binding[c]
        p == ProcOf[i]
    IN  /\ i # NoInst
        /\ binding' = [binding EXCEPT ![c] = NoInst]
        /\ session' = [session EXCEPT ![c] = None]
        /\ bridges' = IF bridges[p].inst = i THEN [bridges EXCEPT ![p] = NoBridge] ELSE bridges
        /\ routes' = RouteClosed(i)
        /\ SetInstanceState(i, "dead")
        /\ v2live' = [v2live EXCEPT ![p] = FALSE]
        /\ UNCHANGED <<registry, missed, dashLeases, procSession, runtime, policy>>

----------------------------------------------------------------------------
(* Time *)

\* Three more heartbeat intervals pass without one of i.
Miss(i) ==
    /\ registry[i] # "none"
    /\ missed[i] < 2
    /\ missed' = [missed EXCEPT ![i] = @ + 1]
    /\ UNCHANGED <<rowVars, binding, session, bridges, routes, registry, v2live, dashLeases, procSession, runtime, policy>>

VerdictLost(i) ==
    IF registry[i] \in {"live", "stale"} /\ missed[i] = 2 THEN "lost" ELSE registry[i]

VerdictStaleOnly(i) ==
    IF registry[i] = "live" /\ missed[i] > 0 THEN "stale" ELSE registry[i]

\* What `sweep` makes of an item.
Verdict(i) ==
    IF registry[i] \in {"live", "stale"} /\ missed[i] = 2 THEN "dead"
    ELSE IF registry[i] = "live" /\ missed[i] = 1 THEN "stale"
    ELSE registry[i]

Overdue == {i \in Insts : Verdict(i) # registry[i]}

\* The effect of the registry's `changed` callback on the process rows, for items in
\* the order of the map, which the model leaves open: any of them can come last.
SweptProcStates ==
    {f \in [Procs -> States] :
        \A p \in Procs :
            LET mine == {i \in Overdue : ProcOf[i] = p}
            IN  IF mine = {} THEN f[p] = procState[p] ELSE \E i \in mine : f[p] = Verdict(i)}

SweptV2Kept(p) == v2live[p]

\* ... and on the v2 manager: neither verdict is "live".
SweptV2(p) == v2live[p] /\ \A i \in Overdue : ProcOf[i] # p

\* `sweep`, from the daemon's timer, when it has something to change.
Sweep ==
    /\ Overdue # {}
    /\ registry' = [i \in Insts |-> Verdict(i)]
    /\ instState' = [i \in Insts |-> IF i \in Overdue THEN Verdict(i) ELSE instState[i]]
    /\ procState' \in SweptProcStates
    /\ v2live' = [p \in Procs |-> SweptV2(p)]
    /\ UNCHANGED <<rowid, binding, session, bridges, routes, missed, dashLeases, procSession, runtime, policy>>

\* The daemon process ends in whatever way and is started again: all sockets are gone,
\* recoverAfterRestart runs, and the v2 manager is filled from the process rows.
Restart ==
    /\ MayRestart
    /\ LoseInterrupted
    /\ binding' = [c \in Conns |-> NoInst]
    /\ session' = [c \in Conns |-> None]
    /\ bridges' = [p \in Procs |-> NoBridge]
    /\ routes' = [i \in Insts |-> None]
    /\ registry' = [i \in Insts |-> "none"]
    /\ missed' = [i \in Insts |-> 0]
    /\ v2live' = [p \in Procs |-> procState'[p] = "live"]
    /\ dashLeases' = [l \in LeaseIds |-> NoLease]
    /\ UNCHANGED <<procSession, runtime, policy>>

----------------------------------------------------------------------------
(* Dashboards *)

\* `dashboard.lease.acquire`: a fresh lease on the live bridge of the process.
Acquire(d, l, p, s) ==
    /\ ~Held(l)
    /\ \A i \in Insts : policy[i] # l
    /\ LiveTarget(p, s) # None
    /\ dashLeases' = [dashLeases EXCEPT ![l] =
                        [owner |-> d, proc |-> p, sess |-> s, inst |-> bridges[p].inst]]
    /\ UNCHANGED <<rowVars, binding, session, bridges, routes, registry, missed, v2live, procSession, runtime, policy>>

\* `releaseDashboardLease` for each of the leases `gone`.
ReleaseLeases(gone) ==
    /\ dashLeases' = Without(gone)
    /\ policy' = Told(gone)
    /\ UNCHANGED <<rowVars, binding, session, bridges, routes, registry, missed, v2live, procSession, runtime>>

\* `dashboard.lease.release` by the owner.
Release(l) == Held(l) /\ ReleaseLeases({l})

\* The "close" event of a dashboard's socket.
DashClose(d) ==
    LET owned == {l \in LeaseIds : dashLeases[l].owner = d}
    IN  owned # {} /\ ReleaseLeases(owned)

\* `tool_gate.policy` through `ownedLease` and `routeEphemeral`: the bridge arms it in the
\* place of any other.  With no live target the owner is told, and nothing changes.
ArmGate(l) ==
    LET lease == dashLeases[l]
        target == LiveTarget(lease.proc, lease.sess)
        i == binding[target]
    IN  /\ Held(l)
        /\ target # None
        /\ IF bridges[lease.proc].inst # lease.inst THEN ReleaseLeases({l})
           ELSE /\ policy' = IF session[target] = runtime[i] THEN [policy EXCEPT ![i] = l] ELSE policy
                /\ UNCHANGED <<rowVars, memoryVars, procSession, runtime>>

----------------------------------------------------------------------------
ControlNext ==
    \/ \E c \in Conns, i \in Insts, s \in Sessions : Register(c, i, s)
    \/ \E c \in Conns : Heartbeat(c)
    \/ \E c \in Conns : Close(c)
    \/ \E i \in Insts : Miss(i)
    \/ Sweep
    \/ Restart
    \/ \E d \in Dashes, l \in LeaseIds, p \in Procs, s \in Sessions : Acquire(d, l, p, s)
    \/ \E l \in LeaseIds : Release(l)
    \/ \E l \in LeaseIds : ArmGate(l)
    \/ \E d \in Dashes : DashClose(d)

\* The sweep is a timer of the daemon and needs nobody else.
Spec == ControlInit /\ [][ControlNext]_vars /\ WF_vars(Sweep)

----------------------------------------------------------------------------
(* Properties *)

\* Type invariant.
TypeOK ==
    /\ RowsTypeOK
    /\ binding \in [Conns -> Insts \cup {NoInst}]
    /\ session \in [Conns -> Sessions \cup {None}]
    /\ bridges \in [Procs -> [inst : Insts, conn : Conns] \cup {NoBridge}]
    /\ routes \in [Insts -> Conns \cup {None}]
    /\ registry \in [Insts -> {"none", "live", "stale", "dead"}]
    /\ missed \in [Insts -> 0 .. 2]
    /\ procSession \in [Procs -> Sessions \cup {None}]
    /\ v2live \in [Procs -> BOOLEAN]
    /\ dashLeases \in [LeaseIds -> [owner : Dashes, proc : Procs, sess : Sessions, inst : Insts] \cup {NoLease}]
    /\ runtime \in [Insts -> Sessions \cup {None}]
    /\ policy \in [Insts -> LeaseIds \cup {None}]

\* The three tables that name sockets, kept by three objects and cleaned up by one close
\* handler, name only open ones, and the right ones: commands (#bindings) and lease frames
\* (#bridges) for one bridge go over the same socket.
RoutesOpen ==
    /\ \A i \in Insts : routes[i] # None => binding[routes[i]] = i
    /\ \A p \in Procs :
          LET b == bridges[p]
          IN  b # NoBridge => /\ ProcOf[b.inst] = p
                              /\ binding[b.conn] = b.inst
                              /\ routes[b.inst] = b.conn

\* A process that the tables and the v2 manager present as live has a bridge, over an open
\* socket of the session the process row names, and its instance is live everywhere.  The
\* bits are written by register, heartbeat, close, sweep and restart in no fixed order.
LiveHasBridge ==
    \A p \in Procs :
        /\ v2live[p] <=> procState[p] = "live"
        /\ procState[p] = "live" =>
              LET b == bridges[p]
              IN  /\ b # NoBridge
                  /\ instState[b.inst] = "live"
                  /\ CanRoute(b.inst)
                  /\ session[b.conn] = procSession[p]

\* The table never takes an instance for live that the registry refuses to route to.
VerdictsAgree == \A i \in Insts : instState[i] = "live" => CanRoute(i)

\* A lease never outlives the instance it was granted for as the bridge of its process,
\* so that `routeEphemeral` has nothing left to revoke (assembled-daemon.test.ts: leases
\* "are revoked before a replacement process instance can inherit policy").
GrantsCurrent ==
    \A l \in LeaseIds :
        Held(l) /\ bridges[dashLeases[l].proc] # NoBridge
            => bridges[dashLeases[l].proc].inst = dashLeases[l].inst

\* A gate is only ever armed in the instance and the session that its lease was granted
\* for, also when the bridge has come back as another session since.
PolicyReachesGrantee ==
    \A i \in Insts :
        LET lease == dashLeases[policy[i]]
        IN  policy[i] # None /\ Held(policy[i]) => lease.inst = i /\ lease.sess = runtime[i]

\* An instance that stays silent ends up dead in the table, whatever else happens to its
\* process meanwhile.
SilentEndsDead ==
    \A i \in Insts : missed[i] = 2 ~> (missed[i] = 0 \/ instState[i] = "dead")

----------------------------------------------------------------------------
(* What the documentation and the tests say, and the code does not do *)

\* README.md: "Ordinary Pi session shutdown disconnects only that bridge".  The close of
\* the socket of one session takes commands from no other session.
OnlyThatBridge ==
    [][\A c \in Conns, p \in Procs :
          LET d == CommandTarget(p)
          IN  Close(c) /\ d \notin {None, c} /\ session[c] # session[d] => CommandTarget(p)' = d]_vars

\* docs/SECURITY-MODEL.md: "release or dashboard disconnect invalidates the lease and
\* notifies the bridge".  A connected bridge holds no policy of a lease that is gone.
ArmedLeaseHeld == \A i \in Insts : policy[i] # None /\ Hears(i) => Held(policy[i])
=============================================================================

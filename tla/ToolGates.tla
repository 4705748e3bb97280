------------------------------ MODULE ToolGates ------------------------------
(***************************************************************************)
(* Supervision of tool calls at the bridge: GateController and             *)
(* PauseController of gates.ts, as bridge.ts and index.ts use them.        *)
(*                                                                         *)
(* A call that Pi announces first waits at the pause, if one is set, and   *)
(* then at the gate, if a policy is armed.  Frames of dashboards, timers,  *)
(* aborts, lost sockets and the shutdown all settle the calls that wait.   *)
(* Each of them is one turn of Node's event loop; what it released runs on *)
(* before the next turn, which is what `Quiet` says.  When a timer fires   *)
(* is left open, and so is whether a deadline has passed.                  *)
(***************************************************************************)
EXTENDS Naturals, FiniteSets

CONSTANTS
    Calls,         \* times that Pi's hooks are called, by the model or by a tool
    Contexts,      \* those of the hook `context`, which are paused but never gated
    ToolCallIdOf,  \* the toolCallId of each
    OddArguments,  \* those with arguments that cloneJson refuses
    Leases,
    None,          \* no lease
    MaxArms        \* bound: policies that dashboards send

ASSUME GatesAssumption ==
    /\ Contexts \subseteq Calls
    /\ None \notin Leases
    /\ MaxArms \in Nat

VARIABLES
    policy,      \* #policy
    ruling,      \* the policy that a call was last put to the dashboard under
    stage,       \* where a call is; the calls that are "gated" are #pending, with `ruling`
    pause,       \* PauseController's state, #leaseId and #disconnectMode; its #waiters are "paused"
    closed,      \* the runtime has been shut down
    superseded,  \* another runtime has taken the generation
    arms,        \* policies sent so far
    answers,     \* history: decisions by the lease that a call was gated for
    gone         \* history: leases of whose end the bridge was told

vars == <<policy, ruling, stage, pause, closed, superseded, arms, answers, gone>>

FailModes == {"failOpen", "failClosed"}
DisconnectModes == {"resume", "holdUntilDeadline"}

\* A decision to allow may bring arguments to replace those of the call.
Decisions == {"allow", "deny", "edit"}

\* What the hook answers Pi: `undefined`, DENIED, UNAVAILABLE or CANCELLED.
Verdicts == {"run", "denied", "unavailable", "cancelled"}
Stages == {"new", "paused", "released", "gated"} \cup Verdicts

\* `arm` numbers the policies; the code has no such field.
Policies == [arm : Nat \ {0}, lease : Leases, failMode : FailModes,
             persistent : BOOLEAN, includeArguments : BOOLEAN]
NoPolicy == [arm |-> 0, lease |-> None, failMode |-> "failOpen",
             persistent |-> FALSE, includeArguments |-> FALSE]

NoPause == [state |-> "idle", lease |-> None, mode |-> "resume"]

Init ==
    /\ policy = NoPolicy
    /\ ruling = [c \in Calls |-> NoPolicy]
    /\ stage = [c \in Calls |-> "new"]
    /\ pause = NoPause
    /\ closed = FALSE
    /\ superseded = FALSE
    /\ arms = 0
    /\ answers = {}
    /\ gone = {}

IsCurrent == ~closed /\ ~superseded
Gated == {c \in Calls : stage[c] = "gated"}
Quiet == \A c \in Calls : stage[c] # "released"

FailsWithMode(cs) ==
    [c \in Calls |-> IF c \notin cs THEN stage[c] ELSE ruling[c].failMode]

\* The stages once the calls cs are settled as the policies they are under say ...
FailsByMode(cs) ==
    [c \in Calls |-> IF c \notin cs THEN stage[c]
                     ELSE IF ruling[c].failMode = "failOpen" THEN "run" ELSE "unavailable"]

\* ... or all with the verdict v ...
SettledAs(cs, v) == [c \in Calls |-> IF c \in cs THEN v ELSE stage[c]]

\* ... and once `release` has let the waiters go.
Released(st) == [c \in Calls |-> IF st[c] = "paused" THEN "released" ELSE st[c]]

----------------------------------------------------------------------------
(* A call *)

\* The hook, up to PauseController.boundary: an old runtime lets everything run.
BeginStale(c) ==
    /\ ~IsCurrent
    /\ stage' = [stage EXCEPT ![c] = "run"]
    /\ UNCHANGED pause

BeginPaused(c) ==
    /\ IsCurrent
    /\ pause.state # "idle"
    /\ stage' = [stage EXCEPT ![c] = "paused"]
    /\ pause' = [pause EXCEPT !.state = "paused"]

\* No pause is set, or its deadline has passed: then everybody goes on.
BeginFree(c) ==
    /\ IsCurrent
    /\ stage' = Released([stage EXCEPT ![c] = "released"])
    /\ pause' = NoPause

Begin(c) ==
    /\ Quiet
    /\ stage[c] = "new"
    /\ BeginStale(c) \/ BeginPaused(c) \/ BeginFree(c)
    /\ UNCHANGED <<policy, ruling, closed, superseded, arms, answers, gone>>

\* `gate`: what ends at once.  A context hook never gets there.
GateSkipped(c) ==
    /\ \/ c \in Contexts \/ closed \/ policy = NoPolicy
    /\ stage' = [stage EXCEPT ![c] = "run"]
    /\ UNCHANGED <<policy, ruling>>

MustGate(c) == c \notin Contexts /\ ~closed /\ policy # NoPolicy

GateStale(c) ==
    /\ MustGate(c)
    /\ superseded
    /\ stage' = [stage EXCEPT ![c] = "cancelled"]
    /\ UNCHANGED <<policy, ruling>>

SameIdPending(c) == \E d \in Gated : ToolCallIdOf[d] = ToolCallIdOf[c]

GateDuplicate(c) ==
    /\ MustGate(c)
    /\ ~superseded
    /\ SameIdPending(c)
    /\ stage' = [stage EXCEPT ![c] = "denied"]
    /\ UNCHANGED <<policy, ruling>>

\* A tool without parameters uses up a policy for one call only if that fails open.
GateUnknownTool(c) ==
    /\ MustGate(c)
    /\ ~superseded
    /\ ~SameIdPending(c)
    /\ stage' = [stage EXCEPT ![c] = IF policy.failMode = "failOpen" THEN "run" ELSE "denied"]
    /\ policy' = IF ~policy.persistent /\ policy.failMode = "failOpen" THEN NoPolicy ELSE policy
    /\ UNCHANGED ruling

KeptPolicy == policy

\* The policy once a call has been put to the dashboard, or was about to be.
UsedPolicy == IF policy.persistent THEN policy ELSE NoPolicy

\* The arguments cannot be copied: `gate` throws and index.ts:60 lets the call run.
GateThrows(c) ==
    /\ MustGate(c)
    /\ ~superseded
    /\ ~SameIdPending(c)
    /\ policy.includeArguments /\ c \in OddArguments
    /\ stage' = [stage EXCEPT ![c] = "run"]
    /\ policy' = UsedPolicy
    /\ UNCHANGED ruling

GateAsks(c) ==
    /\ MustGate(c)
    /\ ~superseded
    /\ ~SameIdPending(c)
    /\ ~(policy.includeArguments /\ c \in OddArguments)
    /\ stage' = [stage EXCEPT ![c] = "gated"]
    /\ ruling' = [ruling EXCEPT ![c] = policy]
    /\ policy' = UsedPolicy

Gate(c) ==
    /\ stage[c] = "released"
    /\ \/ GateSkipped(c) \/ GateStale(c) \/ GateDuplicate(c)
       \/ GateUnknownTool(c) \/ GateThrows(c) \/ GateAsks(c)
    /\ UNCHANGED <<pause, closed, superseded, arms, answers, gone>>

\* The timer of a gate, and those of the calls that are paused.
GateTimeout(c) ==
    /\ Quiet
    /\ c \in Gated
    /\ stage' = FailsByMode({c})
    /\ UNCHANGED <<policy, ruling, pause, closed, superseded, arms, answers, gone>>

PauseTimeoutOne ==
    /\ Quiet
    /\ pause.state = "paused"
    /\ \E c \in Calls : stage[c] = "paused" /\ stage' = [stage EXCEPT ![c] = "released"]
    /\ pause' = NoPause
    /\ UNCHANGED <<policy, ruling, closed, superseded, arms, answers, gone>>

\* Any waiter's timer lets all of them go.
PauseTimeout ==
    /\ Quiet
    /\ pause.state = "paused"
    /\ stage' = Released(stage)
    /\ pause' = NoPause
    /\ UNCHANGED <<policy, ruling, closed, superseded, arms, answers, gone>>

----------------------------------------------------------------------------
(* Frames of a dashboard *)

\* `tool_gate.policy`.  The daemon lets nothing of a lease pass once that is gone.
Arm(l, failMode, persistent, includeArguments) ==
    /\ Quiet
    /\ l \notin gone
    /\ ~closed
    /\ arms < MaxArms
    /\ arms' = arms + 1
    /\ policy' = [arm |-> arms + 1, lease |-> l, failMode |-> failMode,
                  persistent |-> persistent, includeArguments |-> includeArguments]
    /\ UNCHANGED <<ruling, stage, pause, closed, superseded, answers, gone>>

\* The verdict of a decision: replacement arguments may turn out not to fit the tool.
DecidedAs(decision) ==
    IF superseded THEN {"cancelled"}
    ELSE CASE decision = "allow" -> {"run"}
           [] decision = "deny" -> {"denied"}
           [] decision = "edit" -> {"run", "denied"}

\* The history with what the lease l, if it is the call's own, has decided.
Heard(c, l, decision) ==
    IF ruling[c].lease = l THEN answers \cup {[call |-> c, decision |-> decision]} ELSE answers

DecideAnyLease(c, l, decision) ==
    /\ Quiet
    /\ l \notin gone
    /\ c \in Gated
    /\ answers' = Heard(c, l, decision)
    /\ \E v \in DecidedAs(decision) : stage' = SettledAs({c}, v)
    /\ UNCHANGED <<policy, ruling, pause, closed, superseded, arms, gone>>

\* `tool_gate.decision`; for a call that is not gated, or not by l, it is "stale".
Decide(c, l, decision) ==
    /\ Quiet
    /\ l \notin gone
    /\ c \in Gated
    /\ ruling[c].lease = l
    /\ answers' = Heard(c, l, decision)
    /\ \E v \in DecidedAs(decision) : stage' = SettledAs({c}, v)
    /\ UNCHANGED <<policy, ruling, pause, closed, superseded, arms, gone>>

\* `pause.arm`, accepted even when the runtime has been shut down.
ArmPause(l, mode) ==
    /\ Quiet
    /\ l \notin gone
    /\ stage' = Released(stage)
    /\ pause' = [state |-> "armed", lease |-> l, mode |-> mode]
    /\ UNCHANGED <<policy, ruling, closed, superseded, arms, answers, gone>>

ForgetsWaiters(l) ==
    /\ Quiet
    /\ l \notin gone
    /\ pause.lease = l
    /\ pause' = NoPause
    /\ UNCHANGED <<stage, policy, ruling, closed, superseded, arms, answers, gone>>

\* `pause.resume`, which only the lease that has set the pause can do.
ResumePause(l) ==
    /\ Quiet
    /\ l \notin gone
    /\ pause.lease = l
    /\ stage' = Released(stage)
    /\ pause' = NoPause
    /\ UNCHANGED <<policy, ruling, closed, superseded, arms, answers, gone>>

RuledBy(l) == {c \in Gated : ruling[c].lease = l}
PausedOnlyBy(l) == pause.lease = l /\ pause.mode = "resume"

LeaseEndsPolicyStays(l) ==
    /\ Quiet
    /\ l \notin gone
    /\ gone' = gone \cup {l}
    /\ stage' = IF PausedOnlyBy(l) THEN Released(FailsByMode(RuledBy(l))) ELSE FailsByMode(RuledBy(l))
    /\ pause' = IF PausedOnlyBy(l) THEN NoPause ELSE pause
    /\ UNCHANGED <<policy, ruling, closed, superseded, arms, answers>>

\* `dashboard.disconnected`.
LeaseEnds(l) ==
    /\ Quiet
    /\ l \notin gone
    /\ gone' = gone \cup {l}
    /\ policy' = IF policy.lease = l THEN NoPolicy ELSE policy
    /\ stage' = IF PausedOnlyBy(l) THEN Released(FailsByMode(RuledBy(l))) ELSE FailsByMode(RuledBy(l))
    /\ pause' = IF PausedOnlyBy(l) THEN NoPause ELSE pause
    /\ UNCHANGED <<ruling, closed, superseded, arms, answers>>

----------------------------------------------------------------------------
(* The bridge *)

\* The `abort` command; a call that is paused stays so.
Abort ==
    /\ Quiet
    /\ IsCurrent
    /\ stage' = SettledAs(Gated, "cancelled")
    /\ UNCHANGED <<policy, ruling, pause, closed, superseded, arms, answers, gone>>

\* `scheduleReconnect`: the socket is lost, or cannot be opened.
DaemonDisconnected ==
    /\ Quiet
    /\ ~closed
    /\ stage' = IF pause.mode = "resume" THEN Released(FailsByMode(Gated)) ELSE FailsByMode(Gated)
    /\ pause' = IF pause.mode = "resume" THEN NoPause ELSE pause
    /\ UNCHANGED <<policy, ruling, closed, superseded, arms, answers, gone>>

\* beginSessionIdentity for another runtime of the same process.
Supersede ==
    /\ Quiet
    /\ ~superseded
    /\ superseded' = TRUE
    /\ UNCHANGED <<policy, ruling, stage, pause, closed, arms, answers, gone>>

ShutdownPauseOnly ==
    /\ Quiet
    /\ ~closed
    /\ closed' = TRUE
    /\ policy' = NoPolicy
    /\ stage' = Released(stage)
    /\ pause' = NoPause
    /\ UNCHANGED <<ruling, superseded, arms, answers, gone>>

\* `shutdown`: the pause is released first, then the gates are closed.
Shutdown ==
    /\ Quiet
    /\ ~closed
    /\ closed' = TRUE
    /\ policy' = NoPolicy
    /\ stage' = Released(SettledAs(Gated, "cancelled"))
    /\ pause' = NoPause
    /\ UNCHANGED <<ruling, superseded, arms, answers, gone>>

DashboardFrame(l) ==
    \/ \E m \in FailModes, p \in BOOLEAN, i \in BOOLEAN : Arm(l, m, p, i)
    \/ \E c \in Calls, d \in Decisions : Decide(c, l, d)
    \/ \E m \in DisconnectModes : ArmPause(l, m)
    \/ ResumePause(l)
    \/ LeaseEnds(l)

Next ==
    \/ \E c \in Calls : Begin(c) \/ Gate(c) \/ GateTimeout(c)
    \/ PauseTimeout
    \/ \E l \in Leases : DashboardFrame(l)
    \/ Abort \/ DaemonDisconnected \/ Supersede \/ Shutdown

\* Node runs what has been released, and its timers fire.
Fairness ==
    /\ \A c \in Calls : WF_vars(Gate(c)) /\ WF_vars(GateTimeout(c))
    /\ WF_vars(PauseTimeout)

Spec == Init /\ [][Next]_vars /\ Fairness

----------------------------------------------------------------------------
(* Properties *)

\* Types of the two controllers' state.
TypeOK ==
    /\ policy \in Policies \cup {NoPolicy}
    /\ ruling \in [Calls -> Policies \cup {NoPolicy}]
    /\ stage \in [Calls -> Stages]
    /\ pause \in [state : {"idle", "armed", "paused"}, lease : Leases \cup {None}, mode : DisconnectModes]
    /\ closed \in BOOLEAN
    /\ superseded \in BOOLEAN
    /\ arms \in Nat
    /\ answers \subseteq [call : Calls, decision : Decisions]
    /\ gone \subseteq Leases

\* A call that was put to a dashboard runs only as that dashboard allows: never against
\* its own `deny`, and under a policy that fails closed only after its own `allow`, given
\* while the call waited.  Timers, lost sockets, aborts, other leases and other calls of
\* the same id make no difference (GateController.#settle and everything that calls it).
RunsAsDecided ==
    \A c \in Calls :
        LET own == {r \in answers : r.call = c}
        IN  ruling[c] # NoPolicy /\ stage[c] = "run" =>
                /\ \A r \in own : r.decision # "deny"
                /\ ruling[c].failMode = "failClosed" => own # {}

\* A policy for one call is put to use once, although it is armed while calls are on
\* their way to the gate (gates.ts:42).
OneUse ==
    \A c, d \in Calls :
        ruling[c] # NoPolicy /\ ~ruling[c].persistent /\ ruling[d].arm = ruling[c].arm => c = d

\* Whoever waits at the pause can be let go: the controller knows of a waiter exactly
\* when there is one, through re-arming, expiry and the end of leases.
PausedHasWaiters == pause.state = "paused" <=> \E c \in Calls : stage[c] = "paused"

\* A lease of whose end the bridge was told rules nothing any more: its policy is gone,
\* no call waits for its decision, and it holds a pause only if it was to outlast it.
GoneRulesNothing ==
    /\ policy.lease \notin gone
    /\ \A c \in Gated : ruling[c].lease \notin gone
    /\ pause.lease \in gone => pause.mode = "holdUntilDeadline"

\* Once the runtime has been shut down nobody waits for it, or ever will.
ClosedHoldsNobody == closed => \A c \in Calls : stage[c] \notin {"paused", "gated"}

\* Every hook that Pi calls is answered, whatever dashboards and sockets do.
EveryCallEnds == \A c \in Calls : stage[c] # "new" ~> stage[c] \in Verdicts
=============================================================================

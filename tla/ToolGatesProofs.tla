--------------------------- MODULE ToolGatesProofs ---------------------------
(***************************************************************************)
(* Theorems of ToolGates: the invariants of the gates and of the pause,    *)
(* for any calls, tool call ids, leases and number of policies.            *)
(***************************************************************************)
EXTENDS ToolGates, TLAPS

\* The states a call passes through before it is put to a dashboard.
Before == {"new", "paused", "released"}

\* A call that has not been put to a dashboard is under no policy and has no answer; one
\* that waits is under a policy and has no answer; one with an answer has its verdict.
Unasked ==
    /\ \A c \in Calls : stage[c] \in Before => ruling[c] = NoPolicy
    /\ \A c \in Calls : stage[c] = "gated" => ruling[c] # NoPolicy
    /\ \A r \in answers : stage[r.call] \in Verdicts

\* Numbers of policies: none is ahead of the count, and if the armed policy has been used
\* it is there to stay and the calls are under exactly it.
ArmsCounted ==
    /\ policy.arm <= arms
    /\ \A c \in Calls : ruling[c].arm <= arms
    /\ policy # NoPolicy => \A c \in Calls : ruling[c].arm = policy.arm =>
           policy.persistent /\ ruling[c] = policy

Inv ==
    /\ TypeOK
    /\ Unasked
    /\ ArmsCounted
    /\ RunsAsDecided
    /\ OneUse
    /\ PausedHasWaiters
    /\ GoneRulesNothing
    /\ ClosedHoldsNobody

\* The initial state satisfies the invariant.
LEMMA InitInv == Init => Inv
<1>1. SUFFICES ASSUME Init PROVE Inv
  OBVIOUS
<1>2. TypeOK
  BY <1>1 DEF Init, TypeOK, Stages, NoPause, DisconnectModes
<1>3. Unasked /\ ArmsCounted /\ RunsAsDecided /\ OneUse
  BY <1>1 DEF Init, Unasked, ArmsCounted, RunsAsDecided, OneUse, NoPolicy, Before
<1>4. PausedHasWaiters /\ GoneRulesNothing /\ ClosedHoldsNobody
  BY <1>1 DEF Init, PausedHasWaiters, GoneRulesNothing, ClosedHoldsNobody, Gated, NoPause
<1> QED BY <1>2, <1>3, <1>4 DEF Inv

----------------------------------------------------------------------------
(* How the stages may change *)

\* Calls are put under no policy, and the armed one is at most dropped.
RulesKept ==
    /\ UNCHANGED <<ruling, arms, answers>>
    /\ policy' \in {policy, NoPolicy}

\* Some gated calls are settled, none of them as "run" unless its policy fails open, and
\* paused calls may go.
Settles(cs) ==
    /\ stage' \in [Calls -> Stages]
    /\ \A c \in Calls \ cs : \/ stage'[c] = stage[c]
                             \/ stage[c] = "paused" /\ stage'[c] = "released"
    /\ \A c \in cs : \/ stage'[c] \in {"cancelled", "unavailable"}
                     \/ stage'[c] = "run" /\ ruling[c].failMode = "failOpen"

\* Such a step disturbs no policy and no use of one.
LEMMA SettlingKeeps ==
    ASSUME Inv, RulesKept, NEW cs \in SUBSET Gated, Settles(cs)
    PROVE  Unasked' /\ ArmsCounted' /\ RunsAsDecided' /\ OneUse'
<1>1. Unasked'
  BY DEF Inv, Unasked, RulesKept, Settles, TypeOK, Before, Verdicts, Gated
<1>2. ArmsCounted' /\ OneUse'
  BY DEF Inv, ArmsCounted, OneUse, RulesKept, TypeOK, NoPolicy
<1>3. RunsAsDecided'
  <2>1. SUFFICES ASSUME NEW c \in Calls, ruling[c] # NoPolicy, stage'[c] = "run"
                 PROVE  /\ \A r \in answers : r.call = c => r.decision # "deny"
                        /\ ruling[c].failMode = "failClosed" =>
                               {r \in answers : r.call = c} # {}
    BY DEF RunsAsDecided, RulesKept
  <2>2. CASE c \in cs
    <3>1. {r \in answers : r.call = c} = {}
      BY <2>2 DEF Inv, Unasked, Gated, Verdicts
    <3>2. ruling[c].failMode # "failClosed"
      BY <2>1, <2>2 DEF Settles
    <3> QED BY <3>1, <3>2
  <2>3. CASE c \notin cs
    <3>1. stage[c] = "run"
      BY <2>1, <2>3 DEF Settles
    <3> QED BY <2>1, <3>1 DEF Inv, RunsAsDecided
  <2> QED BY <2>2, <2>3
<1> QED BY <1>1, <1>2, <1>3

\* Letting the paused calls go, on top of a settled stage.
LEMMA ReleasedStages ==
    ASSUME NEW st \in [Calls -> Stages]
    PROVE  /\ Released(st) \in [Calls -> Stages]
           /\ \A c \in Calls : Released(st)[c] = IF st[c] = "paused" THEN "released" ELSE st[c]
  BY DEF Released, Stages

\* The three ways the bridge settles the calls cs, alone or together with a release.
LEMMA SettledStages ==
    ASSUME TypeOK, NEW cs \in SUBSET Gated,
           stage' \in {FailsByMode(cs), Released(FailsByMode(cs)), Released(SettledAs(cs, "cancelled")),
                       SettledAs(cs, "cancelled")}
    PROVE  Settles(cs)
<1>1. FailsByMode(cs) \in [Calls -> Stages] /\ SettledAs(cs, "cancelled") \in [Calls -> Stages]
  BY DEF FailsByMode, SettledAs, TypeOK, Stages, Verdicts
<1>2. stage' \in [Calls -> Stages]
  BY <1>1, ReleasedStages
<1>3. ASSUME NEW c \in Calls, c \notin cs
      PROVE  stage'[c] = stage[c] \/ (stage[c] = "paused" /\ stage'[c] = "released")
  BY <1>3 DEF FailsByMode, SettledAs, Released
<1>4. ASSUME NEW c \in cs
      PROVE  \/ stage'[c] \in {"cancelled", "unavailable"}
             \/ stage'[c] = "run" /\ ruling[c].failMode = "failOpen"
  BY <1>4 DEF FailsByMode, SettledAs, Released, Gated
<1> QED BY <1>2, <1>3, <1>4 DEF Settles

\* What of the other invariants such a step has to see to: with everybody released nobody
\* is paused, and otherwise the same calls are; nobody is gated that was not.
LEMMA WhoStillWaits ==
    ASSUME TypeOK, NEW cs \in SUBSET Gated,
           NEW st \in {FailsByMode(cs), SettledAs(cs, "cancelled")}, NEW c \in Calls
    PROVE  /\ Released(st)[c] # "paused"
           /\ st[c] = "paused" <=> stage[c] = "paused"
           /\ st[c] = "gated" <=> stage[c] = "gated" /\ c \notin cs
           /\ Released(st)[c] = "gated" <=> stage[c] = "gated" /\ c \notin cs
  BY DEF FailsByMode, SettledAs, Released, Gated

\* The pause is lifted or set anew and all its waiters go; no call is settled.
LEMMA ReleaseKeeps ==
    ASSUME Inv, RulesKept, UNCHANGED <<policy, closed, superseded, gone>>, stage' = Released(stage),
           pause' = NoPause \/ \E l \in Leases \ gone, m \in DisconnectModes :
                                   pause' = [state |-> "armed", lease |-> l, mode |-> m]
    PROVE  Inv'
<1>1. stage = SettledAs({}, "cancelled") /\ {} \in SUBSET Gated
  BY DEF SettledAs, Inv, TypeOK
<1>2. Settles({})
  BY <1>1, SettledStages DEF Inv
<1>3. Unasked' /\ ArmsCounted' /\ RunsAsDecided' /\ OneUse'
  BY <1>1, <1>2, SettlingKeeps
<1>4. TypeOK'
  BY <1>2 DEF Settles, Inv, TypeOK, RulesKept, NoPause, DisconnectModes
<1>5. \A c \in Calls : stage'[c] # "paused" /\ (stage'[c] = "gated" <=> stage[c] = "gated")
  BY <1>1, WhoStillWaits DEF Inv
<1>6. PausedHasWaiters'
  BY <1>5 DEF PausedHasWaiters, NoPause
<1>7. GoneRulesNothing'
  BY <1>5, GatesAssumption DEF Inv, GoneRulesNothing, Gated, RulesKept, NoPause, TypeOK
<1>8. ClosedHoldsNobody'
  BY <1>5 DEF Inv, ClosedHoldsNobody
<1> QED BY <1>3, <1>4, <1>6, <1>7, <1>8 DEF Inv

LEMMA ResumePauseKeeps ==
    ASSUME Inv, NEW l \in Leases, ResumePause(l)
    PROVE  Inv'
  BY ReleaseKeeps DEF ResumePause, RulesKept

LEMMA ArmPauseKeeps ==
    ASSUME Inv, NEW l \in Leases, NEW m \in DisconnectModes, ArmPause(l, m)
    PROVE  Inv'
  BY ReleaseKeeps DEF ArmPause, RulesKept

LEMMA PauseTimeoutKeeps ==
    ASSUME Inv, PauseTimeout
    PROVE  Inv'
  BY ReleaseKeeps DEF PauseTimeout, RulesKept

\* A timeout of a gate, an abort and a lost socket settle calls and keep the armed policy.
LEMMA GateTimeoutKeeps ==
    ASSUME Inv, NEW c \in Calls, GateTimeout(c)
    PROVE  Inv'
<1>1. {c} \in SUBSET Gated /\ Settles({c})
  BY SettledStages DEF GateTimeout, Inv
<1>2. Unasked' /\ ArmsCounted' /\ RunsAsDecided' /\ OneUse'
  BY <1>1, SettlingKeeps DEF GateTimeout, RulesKept
<1>3. TypeOK'
  BY <1>1 DEF GateTimeout, Settles, Inv, TypeOK
<1>4. \A d \in Calls : /\ stage'[d] = "paused" <=> stage[d] = "paused"
                       /\ stage'[d] = "gated" => stage[d] = "gated"
  BY <1>1, WhoStillWaits DEF GateTimeout, Inv
<1>5. PausedHasWaiters' /\ GoneRulesNothing' /\ ClosedHoldsNobody'
  BY <1>4 DEF GateTimeout, Inv, PausedHasWaiters, GoneRulesNothing, ClosedHoldsNobody, Gated
<1> QED BY <1>2, <1>3, <1>5 DEF Inv

LEMMA AbortKeeps ==
    ASSUME Inv, Abort
    PROVE  Inv'
<1>1. Gated \in SUBSET Gated /\ Settles(Gated)
  BY SettledStages DEF Abort, Inv
<1>2. Unasked' /\ ArmsCounted' /\ RunsAsDecided' /\ OneUse'
  BY <1>1, SettlingKeeps DEF Abort, RulesKept
<1>3. TypeOK'
  BY <1>1 DEF Abort, Settles, Inv, TypeOK
<1>4. \A d \in Calls : /\ stage'[d] = "paused" <=> stage[d] = "paused"
                       /\ stage'[d] = "gated" => stage[d] = "gated"
  BY <1>1, WhoStillWaits DEF Abort, Inv
<1>5. PausedHasWaiters' /\ GoneRulesNothing' /\ ClosedHoldsNobody'
  BY <1>4 DEF Abort, Inv, PausedHasWaiters, GoneRulesNothing, ClosedHoldsNobody, Gated
<1> QED BY <1>2, <1>3, <1>5 DEF Inv

LEMMA DaemonDisconnectedKeeps ==
    ASSUME Inv, DaemonDisconnected
    PROVE  Inv'
<1>1. Gated \in SUBSET Gated /\ Settles(Gated)
  BY SettledStages DEF DaemonDisconnected, Inv
<1>2. Unasked' /\ ArmsCounted' /\ RunsAsDecided' /\ OneUse'
  BY <1>1, SettlingKeeps DEF DaemonDisconnected, RulesKept
<1>3. TypeOK'
  BY <1>1 DEF DaemonDisconnected, Settles, Inv, TypeOK, NoPause, DisconnectModes
<1>4. \A d \in Calls : stage'[d] # "gated"
  <2>1. FailsByMode(Gated) \in {FailsByMode(Gated), SettledAs(Gated, "cancelled")}
    OBVIOUS
  <2>2. \A d \in Calls : /\ FailsByMode(Gated)[d] = "gated" <=> stage[d] = "gated" /\ d \notin Gated
                         /\ Released(FailsByMode(Gated))[d] = "gated"
                                <=> stage[d] = "gated" /\ d \notin Gated
    BY <1>1, <2>1, WhoStillWaits DEF Inv
  <2> QED BY <2>2 DEF DaemonDisconnected, Gated
<1>5. PausedHasWaiters'
  BY <1>1, WhoStillWaits DEF DaemonDisconnected, Inv, PausedHasWaiters, NoPause
<1>6. GoneRulesNothing' /\ ClosedHoldsNobody'
  BY <1>4, GatesAssumption
  DEF DaemonDisconnected, Inv, TypeOK, GoneRulesNothing, ClosedHoldsNobody, Gated, NoPause
<1> QED BY <1>2, <1>3, <1>5, <1>6 DEF Inv

\* The end of a lease settles its calls, drops its policy and may lift its pause.
LEMMA LeaseEndsKeeps ==
    ASSUME Inv, NEW l \in Leases, LeaseEnds(l)
    PROVE  Inv'
<1>1. RuledBy(l) \in SUBSET Gated /\ Settles(RuledBy(l))
  <2>1. RuledBy(l) \in SUBSET Gated
    BY DEF RuledBy
  <2> QED BY <2>1, SettledStages DEF LeaseEnds, Inv
<1>2. Unasked' /\ ArmsCounted' /\ RunsAsDecided' /\ OneUse'
  BY <1>1, SettlingKeeps DEF LeaseEnds, RulesKept
<1>3. TypeOK'
  BY <1>1 DEF LeaseEnds, Settles, Inv, TypeOK, NoPause, DisconnectModes
<1>4. \A d \in Calls : /\ FailsByMode(RuledBy(l))[d] = "paused" <=> stage[d] = "paused"
                       /\ Released(FailsByMode(RuledBy(l)))[d] # "paused"
                       /\ stage'[d] = "gated" <=> stage[d] = "gated" /\ d \notin RuledBy(l)
  BY <1>1, WhoStillWaits DEF LeaseEnds, Inv
<1>5. PausedHasWaiters'
  BY <1>4 DEF LeaseEnds, Inv, PausedHasWaiters, NoPause
<1>6. policy'.lease \notin gone'
  BY GatesAssumption DEF LeaseEnds, Inv, TypeOK, GoneRulesNothing, NoPolicy
<1>7. \A d \in Gated' : ruling'[d].lease \notin gone'
  BY <1>4 DEF LeaseEnds, RuledBy, Gated, Inv, GoneRulesNothing
<1>8. pause'.lease \in gone' => pause'.mode = "holdUntilDeadline"
  BY GatesAssumption DEF LeaseEnds, PausedOnlyBy, NoPause, Inv, TypeOK, GoneRulesNothing, DisconnectModes
<1>9. ClosedHoldsNobody'
  <2>1. \A d \in Calls : stage'[d] = "paused" => stage[d] = "paused"
    BY <1>4 DEF LeaseEnds
  <2> QED BY <1>4, <2>1 DEF LeaseEnds, Inv, ClosedHoldsNobody
<1> QED BY <1>2, <1>3, <1>5, <1>6, <1>7, <1>8, <1>9 DEF Inv, GoneRulesNothing

\* The shutdown lets everybody go.
LEMMA ShutdownKeeps ==
    ASSUME Inv, Shutdown
    PROVE  Inv'
<1>1. Gated \in SUBSET Gated /\ Settles(Gated)
  BY SettledStages DEF Shutdown, Inv
<1>2. Unasked' /\ ArmsCounted' /\ RunsAsDecided' /\ OneUse'
  BY <1>1, SettlingKeeps DEF Shutdown, RulesKept
<1>3. TypeOK'
  BY <1>1 DEF Shutdown, Settles, Inv, TypeOK, NoPause, DisconnectModes
<1>4. \A d \in Calls : stage'[d] # "paused" /\ stage'[d] # "gated"
  <2>1. \A d \in Calls : /\ Released(SettledAs(Gated, "cancelled"))[d] # "paused"
                         /\ Released(SettledAs(Gated, "cancelled"))[d] = "gated"
                                <=> stage[d] = "gated" /\ d \notin Gated
    BY <1>1, WhoStillWaits DEF Inv
  <2> QED BY <2>1 DEF Shutdown, Gated
<1>5. PausedHasWaiters' /\ ClosedHoldsNobody'
  BY <1>4 DEF Shutdown, PausedHasWaiters, ClosedHoldsNobody, NoPause
<1>6. GoneRulesNothing'
  BY <1>4, GatesAssumption DEF Shutdown, Inv, TypeOK, GoneRulesNothing, Gated, NoPause, NoPolicy
<1> QED BY <1>2, <1>3, <1>5, <1>6 DEF Inv

----------------------------------------------------------------------------
(* Arming, deciding, and the way of a call to the gate *)

LEMMA ArmKeeps ==
    ASSUME Inv, NEW l \in Leases, NEW m \in FailModes, NEW p \in BOOLEAN, NEW i \in BOOLEAN,
           Arm(l, m, p, i)
    PROVE  Inv'
<1>1. TypeOK' /\ policy' \in Policies /\ policy'.arm = arms + 1 /\ policy'.lease = l
  BY DEF Arm, Inv, TypeOK, Policies
<1>2. ArmsCounted'
  <2>1. \A c \in Calls : ruling[c].arm \in Nat /\ ruling[c].arm <= arms
    BY DEF Inv, ArmsCounted, TypeOK, Policies, NoPolicy
  <2> QED BY <1>1, <2>1 DEF Arm, ArmsCounted, Inv, TypeOK
<1>3. Unasked' /\ RunsAsDecided' /\ OneUse' /\ PausedHasWaiters' /\ ClosedHoldsNobody'
  BY DEF Arm, Inv, Unasked, RunsAsDecided, OneUse, PausedHasWaiters, ClosedHoldsNobody
<1>4. GoneRulesNothing'
  BY <1>1 DEF Arm, Inv, GoneRulesNothing, Gated
<1> QED BY <1>1, <1>2, <1>3, <1>4 DEF Inv

\* A decision gives its call a verdict, and is what the verdict is measured by.
LEMMA DecideKeeps ==
    ASSUME Inv, NEW l \in Leases, NEW c \in Calls, NEW d \in Decisions, Decide(c, l, d)
    PROVE  Inv'
<1> DEFINE r0 == [call |-> c, decision |-> d]
<1>1. /\ stage[c] = "gated"
      /\ answers' = answers \cup {r0}
      /\ UNCHANGED <<policy, ruling, pause, closed, superseded, arms, gone>>
  BY DEF Decide, Heard, Gated
<1>2. PICK v \in {"run", "denied", "cancelled"} :
          /\ stage' = SettledAs({c}, v)
          /\ v = "run" => d # "deny"
  BY DEF Decide, DecidedAs, Decisions
<1>3. \A e \in Calls : stage'[e] = IF e = c THEN v ELSE stage[e]
  BY <1>2 DEF SettledAs
<1>4. TypeOK'
  BY <1>1, <1>2 DEF Inv, TypeOK, SettledAs, Stages, Verdicts
<1>5. Unasked'
  <2>1. \A r \in answers' : stage'[r.call] \in Verdicts
    BY <1>1, <1>3 DEF Inv, TypeOK, Unasked, Verdicts
  <2> QED BY <1>1, <1>3, <2>1 DEF Inv, Unasked, Before
<1>6. ArmsCounted' /\ OneUse'
  BY <1>1 DEF Inv, ArmsCounted, OneUse
<1>7. RunsAsDecided'
  <2>1. SUFFICES ASSUME NEW e \in Calls, ruling[e] # NoPolicy, stage'[e] = "run"
                 PROVE  /\ \A r \in answers' : r.call = e => r.decision # "deny"
                        /\ ruling[e].failMode = "failClosed" =>
                               {r \in answers' : r.call = e} # {}
    BY <1>1 DEF RunsAsDecided
  <2>2. CASE e = c
    <3>1. \A r \in answers : r.call # c
      BY <1>1 DEF Inv, Unasked, Verdicts
    <3>2. d # "deny" /\ r0 \in answers' /\ r0.call = e /\ r0.decision = d
      BY <1>1, <1>2, <1>3, <2>1, <2>2
    <3> HIDE DEF r0
    <3> QED BY <1>1, <2>2, <3>1, <3>2
  <2>3. CASE e # c
    <3>1. stage[e] = "run" /\ r0.call # e
      BY <1>3, <2>1, <2>3
    <3> HIDE DEF r0
    <3> QED BY <1>1, <2>1, <3>1 DEF Inv, RunsAsDecided
  <2> QED BY <2>2, <2>3
<1>8. PausedHasWaiters' /\ GoneRulesNothing' /\ ClosedHoldsNobody'
  BY <1>1, <1>3 DEF Inv, PausedHasWaiters, GoneRulesNothing, ClosedHoldsNobody, Gated
<1> QED BY <1>4, <1>5, <1>6, <1>7, <1>8 DEF Inv

\* A hook that is called waits, goes on, or is let through by an old runtime.
LEMMA BeginKeeps ==
    ASSUME Inv, NEW c \in Calls, Begin(c)
    PROVE  Inv'
<1>1. /\ stage[c] = "new" /\ ruling[c] = NoPolicy
      /\ UNCHANGED <<policy, ruling, closed, superseded, arms, answers, gone>>
  BY DEF Begin, Inv, Unasked, Before
<1>2. /\ stage' \in [Calls -> Stages]
      /\ stage'[c] \in {"run", "paused", "released"}
      /\ \A d \in Calls \ {c} :
             stage'[d] = stage[d] \/ (stage[d] = "paused" /\ stage'[d] = "released")
  <2>1. stage \in [Calls -> Stages]
    BY DEF Inv, TypeOK
  <2>2. CASE BeginStale(c)
    BY <1>1, <2>1, <2>2 DEF BeginStale, Stages, Verdicts
  <2>3. CASE BeginPaused(c)
    BY <1>1, <2>1, <2>3 DEF BeginPaused, Stages
  <2>4. CASE BeginFree(c)
    BY <1>1, <2>1, <2>4 DEF BeginFree, Released, Stages
  <2> QED BY <2>2, <2>3, <2>4 DEF Begin
<1>3. TypeOK'
  BY <1>1, <1>2 DEF Begin, BeginStale, BeginPaused, BeginFree, Inv, TypeOK, NoPause, DisconnectModes
<1>4. Unasked'
  <2>1. \A r \in answers : r.call \in Calls /\ stage[r.call] \in Verdicts
    BY DEF Inv, TypeOK, Unasked
  <2>2. \A r \in answers' : stage'[r.call] \in Verdicts
    BY <1>1, <1>2, <2>1 DEF Verdicts
  <2> QED BY <1>1, <1>2, <2>2 DEF Inv, Unasked, Before
<1>5. ArmsCounted' /\ OneUse'
  BY <1>1 DEF Inv, ArmsCounted, OneUse
<1>6. RunsAsDecided'
  <2>1. SUFFICES ASSUME NEW e \in Calls, ruling[e] # NoPolicy, stage'[e] = "run"
                 PROVE  stage[e] = "run"
    BY <1>1 DEF RunsAsDecided, Inv
  <2> QED BY <1>1, <1>2, <2>1
<1>7. PausedHasWaiters' /\ (\A d \in Calls : stage'[d] = "paused" => stage[d] = "paused" \/ ~closed)
  <2>1. CASE BeginStale(c)
    BY <1>1, <2>1 DEF BeginStale, Inv, PausedHasWaiters, TypeOK
  <2>2. CASE BeginPaused(c)
    BY <1>1, <2>2 DEF BeginPaused, IsCurrent, Inv, PausedHasWaiters, TypeOK
  <2>3. CASE BeginFree(c)
    BY <1>1, <2>3 DEF BeginFree, Released, Inv, PausedHasWaiters, TypeOK, NoPause
  <2> QED BY <2>1, <2>2, <2>3 DEF Begin
<1>8. GoneRulesNothing'
  <2>1. \A d \in Calls : stage'[d] = "gated" => stage[d] = "gated"
    BY <1>2
  <2>2. pause'.lease \in gone => pause'.mode = "holdUntilDeadline"
    BY GatesAssumption DEF Begin, BeginStale, BeginPaused, BeginFree, Inv, TypeOK, GoneRulesNothing, NoPause
  <2> QED BY <1>1, <2>1, <2>2 DEF Inv, GoneRulesNothing, Gated
<1>9. ClosedHoldsNobody'
  <2>1. \A d \in Calls : stage'[d] = "gated" => stage[d] = "gated"
    BY <1>2
  <2> QED BY <1>1, <1>7, <2>1 DEF Inv, ClosedHoldsNobody
<1> QED BY <1>3, <1>4, <1>5, <1>6, <1>7, <1>8, <1>9 DEF Inv

\* A released call that `gate` answers at once: no policy is over it, and the armed one is
\* kept or dropped.
LEMMA AnsweredAtOnceKeeps ==
    ASSUME Inv, NEW c \in Calls, stage[c] = "released",
           NEW v \in Verdicts, stage' = [stage EXCEPT ![c] = v], RulesKept,
           UNCHANGED <<pause, closed, superseded, gone>>
    PROVE  Inv'
<1>1. ruling[c] = NoPolicy /\ UNCHANGED <<ruling, arms, answers>> /\ policy' \in {policy, NoPolicy}
  BY DEF Inv, Unasked, Before, RulesKept
<1>2. \A d \in Calls : stage'[d] = IF d = c THEN v ELSE stage[d]
  BY DEF Inv, TypeOK
<1>3. TypeOK'
  BY <1>1 DEF Inv, TypeOK, Stages
<1>4. Unasked'
  <2>1. \A r \in answers' : r.call \in Calls /\ stage'[r.call] \in Verdicts
    BY <1>1, <1>2 DEF Inv, TypeOK, Unasked
  <2> QED BY <1>1, <1>2, <2>1 DEF Inv, Unasked, Before, Verdicts
<1>5. ArmsCounted' /\ OneUse'
  BY <1>1 DEF Inv, TypeOK, ArmsCounted, OneUse, NoPolicy
<1>6. RunsAsDecided'
  <2>1. \A e \in Calls : ruling[e] # NoPolicy => stage'[e] = stage[e]
    BY <1>1, <1>2
  <2> QED BY <1>1, <2>1 DEF Inv, RunsAsDecided
<1>7. PausedHasWaiters' /\ ClosedHoldsNobody'
  BY <1>2 DEF Inv, PausedHasWaiters, ClosedHoldsNobody, Verdicts
<1>8. GoneRulesNothing'
  BY <1>1, <1>2, GatesAssumption DEF Inv, TypeOK, GoneRulesNothing, Gated, NoPolicy, Verdicts
<1> QED BY <1>3, <1>4, <1>5, <1>6, <1>7, <1>8 DEF Inv

\* The call that is put to the dashboard.
LEMMA AsksKeeps ==
    ASSUME Inv, NEW c \in Calls, Gate(c), GateAsks(c)
    PROVE  Inv'
<1>1. /\ stage[c] = "released" /\ ruling[c] = NoPolicy
      /\ policy \in Policies /\ ~closed
      /\ policy' = IF policy.persistent THEN policy ELSE NoPolicy
      /\ UNCHANGED <<pause, closed, superseded, arms, answers, gone>>
  BY DEF Gate, GateAsks, MustGate, UsedPolicy, Inv, TypeOK, Unasked, Before
<1>2. \A d \in Calls : /\ stage'[d] = IF d = c THEN "gated" ELSE stage[d]
                       /\ ruling'[d] = IF d = c THEN policy ELSE ruling[d]
  BY DEF GateAsks, Inv, TypeOK
<1>3. policy # NoPolicy /\ policy.arm \in Nat \ {0}
  BY <1>1 DEF Policies, NoPolicy
<1>4. TypeOK'
  BY <1>1 DEF GateAsks, Inv, TypeOK, Stages
<1>5. Unasked'
  <2>1. \A r \in answers : r.call \in Calls /\ stage[r.call] \in Verdicts
    BY DEF Inv, TypeOK, Unasked
  <2>2. \A r \in answers' : stage'[r.call] \in Verdicts
    BY <1>1, <1>2, <2>1 DEF Verdicts
  <2> QED BY <1>1, <1>2, <1>3, <2>2 DEF Inv, Unasked, Before
<1>6. ArmsCounted'
  BY <1>1, <1>2, <1>3 DEF Inv, ArmsCounted, TypeOK, NoPolicy
<1>7. OneUse'
  <2>1. \A d \in Calls : ruling[d].arm = policy.arm => policy.persistent /\ ruling[d] = policy
    BY <1>3 DEF Inv, ArmsCounted
  <2> QED BY <1>2, <2>1 DEF Inv, OneUse
<1>8. RunsAsDecided'
  <2>1. \A e \in Calls : stage'[e] = "run" => e # c /\ stage[e] = "run" /\ ruling'[e] = ruling[e]
    BY <1>2
  <2> QED BY <1>1, <2>1 DEF Inv, RunsAsDecided
<1>9. PausedHasWaiters' /\ GoneRulesNothing' /\ ClosedHoldsNobody'
  <2>1. GoneRulesNothing'
    BY <1>1, <1>2, GatesAssumption DEF Inv, TypeOK, GoneRulesNothing, Gated, NoPolicy
  <2>2. PausedHasWaiters' /\ ClosedHoldsNobody'
    BY <1>1, <1>2 DEF Inv, PausedHasWaiters, ClosedHoldsNobody
  <2> QED BY <2>1, <2>2
<1> QED BY <1>4, <1>5, <1>6, <1>7, <1>8, <1>9 DEF Inv

LEMMA GateKeeps ==
    ASSUME Inv, NEW c \in Calls, Gate(c)
    PROVE  Inv'
<1>1. CASE GateAsks(c)
  BY <1>1, AsksKeeps
<1>2. CASE GateSkipped(c) \/ GateStale(c) \/ GateDuplicate(c) \/ GateUnknownTool(c) \/ GateThrows(c)
  <2>1. RulesKept
    BY <1>2 DEF Gate, GateSkipped, GateStale, GateDuplicate, GateUnknownTool, GateThrows,
                UsedPolicy, RulesKept
  <2>2. \E v \in Verdicts : stage' = [stage EXCEPT ![c] = v]
    BY <1>2 DEF GateSkipped, GateStale, GateDuplicate, GateUnknownTool, GateThrows, Verdicts
  <2> QED BY <2>1, <2>2, AnsweredAtOnceKeeps DEF Gate
<1> QED BY <1>1, <1>2 DEF Gate

----------------------------------------------------------------------------
(* The theorems *)

LEMMA NextInv == Inv /\ [Next]_vars => Inv'
<1>1. SUFFICES ASSUME Inv, [Next]_vars PROVE Inv'
  OBVIOUS
<1>2. ASSUME NEW c \in Calls, Begin(c) \/ Gate(c) \/ GateTimeout(c) PROVE Inv'
  BY <1>1, <1>2, BeginKeeps, GateKeeps, GateTimeoutKeeps
<1>3. CASE PauseTimeout
  BY <1>1, <1>3, PauseTimeoutKeeps
<1>4. ASSUME NEW l \in Leases, DashboardFrame(l) PROVE Inv'
  <2>1. ASSUME NEW m \in FailModes, NEW p \in BOOLEAN, NEW i \in BOOLEAN, Arm(l, m, p, i) PROVE Inv'
    BY <1>1, <2>1, ArmKeeps
  <2>2. ASSUME NEW c \in Calls, NEW d \in Decisions, Decide(c, l, d) PROVE Inv'
    BY <1>1, <2>2, DecideKeeps
  <2>3. ASSUME NEW m \in DisconnectModes, ArmPause(l, m) PROVE Inv'
    BY <1>1, <2>3, ArmPauseKeeps
  <2>4. CASE ResumePause(l) \/ LeaseEnds(l)
    BY <1>1, <2>4, ResumePauseKeeps, LeaseEndsKeeps
  <2> QED BY <1>4, <2>1, <2>2, <2>3, <2>4 DEF DashboardFrame
<1>5. CASE Abort \/ DaemonDisconnected \/ Shutdown
  BY <1>1, <1>5, AbortKeeps, DaemonDisconnectedKeeps, ShutdownKeeps
<1>6. CASE Supersede \/ UNCHANGED vars
  <2>1. UNCHANGED <<policy, ruling, stage, pause, closed, arms, answers, gone>> /\ superseded' \in BOOLEAN
    BY <1>1, <1>6 DEF Supersede, vars, Inv, TypeOK
  <2>2. TypeOK' /\ Unasked' /\ ArmsCounted'
    BY <1>1, <2>1 DEF Inv, TypeOK, Unasked, ArmsCounted
  <2>3. RunsAsDecided' /\ OneUse' /\ PausedHasWaiters'
    BY <1>1, <2>1 DEF Inv, RunsAsDecided, OneUse, PausedHasWaiters
  <2>4. GoneRulesNothing' /\ ClosedHoldsNobody'
    BY <1>1, <2>1 DEF Inv, GoneRulesNothing, ClosedHoldsNobody, Gated
  <2> QED BY <2>2, <2>3, <2>4 DEF Inv
<1> QED BY <1>1, <1>2, <1>3, <1>4, <1>5, <1>6 DEF Next

\* The invariant holds for ever, and with it everything below.
THEOREM GatesInvariant == Spec => []Inv
<1> QED BY InitInv, NextInv, PTL DEF Spec

\* The two controllers keep their types (gates.ts:19, 128).
THEOREM GatesTypes == Spec => []TypeOK
<1>1. Inv => TypeOK
  BY DEF Inv
<1> QED BY <1>1, GatesInvariant, PTL

\* A call that was put to a dashboard runs only as that dashboard allows, however many
\* calls, leases and policies there are (gates.ts:56-96).
THEOREM GatesRunAsDecided == Spec => []RunsAsDecided
<1>1. Inv => RunsAsDecided
  BY DEF Inv
<1> QED BY <1>1, GatesInvariant, PTL

\* A policy for one call is put to one call (gates.ts:42).
THEOREM GatesOneUse == Spec => []OneUse
<1>1. Inv => OneUse
  BY DEF Inv
<1> QED BY <1>1, GatesInvariant, PTL

\* The pause controller is paused exactly while it has waiters (gates.ts:139-152).
THEOREM GatesPausedHasWaiters == Spec => []PausedHasWaiters
<1>1. Inv => PausedHasWaiters
  BY DEF Inv
<1> QED BY <1>1, GatesInvariant, PTL

\* A lease of whose end the bridge was told rules no call any more (gates.ts:79, 149).
THEOREM GatesGoneRulesNothing == Spec => []GoneRulesNothing
<1>1. Inv => GoneRulesNothing
  BY DEF Inv
<1> QED BY <1>1, GatesInvariant, PTL

\* A runtime that was shut down holds no call (bridge.ts:92).
THEOREM GatesClosedHoldsNobody == Spec => []ClosedHoldsNobody
<1>1. Inv => ClosedHoldsNobody
  BY DEF Inv
<1> QED BY <1>1, GatesInvariant, PTL
=============================================================================

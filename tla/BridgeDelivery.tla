---------------------------- MODULE BridgeDelivery ----------------------------
(***************************************************************************)
(* How one Pi instance delivers its events: the connection half of         *)
(* pi-extension/remote-control/bridge.ts with its outbox, the handlers of  *)
(* daemon.ts for hello, process.register and event.publish, and the store, *)
(* of which only the promise is used: EventLedger, which DurableStore      *)
(* implements.                                                             *)
(*                                                                         *)
(* The instance runs several sessions, one after the other.  Each has a    *)
(* runtime with an outbox of its own, which starts from the spool of the   *)
(* instance.  Handlers of a runtime stay alive after its shutdown, as long *)
(* as its sockets do.  Both ends are single threads on one machine: what   *)
(* one process writes, over whatever sockets, the other reads in order.    *)
(***************************************************************************)
EXTENDS Outbox, NumberSets

CONSTANTS
    Instance,     \* processInstanceId
    EventKinds,   \* the kinds of events that occur
    MaxRuntimes,  \* bound: sessions of the instance
    NumSockets,   \* bound: sockets at a time
    MaxEvents,    \* bound: observations besides the three of every session
    BusySessions, \* bound: the sessions that have them, or a use of /remote-control-enable
    MaxFaults,    \* bound: broken sockets, failing dials, lost spools, uses of /remote-control-enable
    MaxCursor     \* Number.MAX_SAFE_INTEGER

ASSUME DeliveryAssumption ==
    /\ EventKinds \subseteq {"delta", "plain", "must"}
    /\ MaxRuntimes \in Nat /\ NumSockets \in Nat /\ MaxEvents \in Nat
    /\ MaxFaults \in Nat /\ MaxCursor \in Nat

FaultKinds == {"break", "loss", "enable"}
Runtimes == 1 .. MaxRuntimes
Sockets == 1 .. NumSockets
NoSocket == 0

VARIABLES
    runtime,    \* the latest runtime
    enabled,    \* config.enabled of it
    reached,    \* its `connection` is set: a daemon has been found
    phase,      \* of it: "none", "open", "closing" (shut down, its socket is not closed yet), "closed"
    box,        \* the outbox of each
    spool,      \* the file of the instance
    socket,     \* the variable `socket` of each runtime; NoSocket once that has closed
    connected,  \* the flag of each runtime
    timer,      \* reconnectTimer of the latest runtime is set
    dials,      \* calls of its connect() that await ensureDaemon()
    wire,       \* state of each socket at the bridge; "free" before and after its use
    owner,      \* the runtime whose handlers a socket has; 0 for a free one
    session,    \* state of each socket at the daemon
    refused,    \* those that the daemon has told to close
    up, down,   \* frames under way
    ledger, head, expected,  \* the store
    observed,   \* observations so far
    musts,      \* history: the mandatory ones of the latest runtime
    faults      \* how many there were so far, of each kind

bridgeVars == <<runtime, enabled, reached, phase, box, spool, socket, connected, timer, dials>>
wireVars == <<wire, owner, session, refused, up, down>>
storeVars == <<ledger, head, expected>>
vars == <<bridgeVars, wireVars, storeVars, observed, musts, faults>>

Published == [inst : {Instance}, seq : Nat \ {0}, event : Numbered]

Ledger == INSTANCE EventLedger
            WITH Producers <- {Instance}, Events <- Published, Notes <- {}, MaxCursor <- MaxCursor

Expected == expected[Instance]

\* A publish frame stands for the frames of one flush, which nothing comes between.
UpFrames == [type : {"hello", "register", "publish"}, socket : Sockets,
             batch : UNION {[S -> Numbered] : S \in SUBSET (Nat \ {0})}]
DownFrames == [type : {"welcome", "registered", "ack"}, socket : Sockets, n : Nat]

Hello(s) == [type |-> "hello", socket |-> s, batch |-> NoEvents]
Registration(s) == [type |-> "register", socket |-> s, batch |-> NoEvents]
Publish(s, events) == [type |-> "publish", socket |-> s, batch |-> events]
Welcome(s) == [type |-> "welcome", socket |-> s, n |-> 0]
Registered(s, n) == [type |-> "registered", socket |-> s, n |-> n]
Ack(s, n) == [type |-> "ack", socket |-> s, n |-> n]

Init ==
    /\ runtime = 0
    /\ enabled = TRUE
    /\ reached = FALSE
    /\ phase = "none"
    /\ box = [r \in Runtimes |-> Load(EmptySpool)]
    /\ spool = EmptySpool
    /\ socket = [r \in Runtimes |-> NoSocket]
    /\ connected = [r \in Runtimes |-> FALSE]
    /\ timer = FALSE
    /\ dials = 0
    /\ wire = [s \in Sockets |-> "free"]
    /\ owner = [s \in Sockets |-> 0]
    /\ session = [s \in Sockets |-> "fresh"]
    /\ refused = {}
    /\ up = <<>>
    /\ down = <<>>
    /\ Ledger!LedgerInit
    /\ observed = 0
    /\ musts = {}
    /\ faults = [k \in FaultKinds |-> 0]


----------------------------------------------------------------------------
(* What handlers share *)

\* `send` writes to the socket of the runtime, whichever that is, if it is open.
WireOf(r) == IF socket[r] = NoSocket THEN "free" ELSE wire[socket[r]]
Sendable(r) == WireOf(r) = "open"
Send(r, frame(_)) == up' = IF Sendable(r) THEN Append(up, frame(socket[r])) ELSE up

Keep(r, b) == box' = [box EXCEPT ![r] = b]
Persist(b) == spool' = SpoolOf(b)

\* `flush`, of a runtime that is connected or not, with outbox b.
FlushWhen(isConnected, r, b) ==
    IF isConnected /\ Sendable(r)
    THEN LET sent == Assign(b, r)
         IN  /\ Keep(r, sent)
             /\ Persist(sent)
             /\ up' = IF sent.assigned = NoEvents THEN up
                      ELSE Append(up, Publish(socket[r], sent.assigned))
    ELSE /\ Keep(r, b)
         /\ UNCHANGED <<spool, up>>

Happens(kind) ==
    /\ FoldFunction(+, 0, faults) < MaxFaults
    /\ faults' = [faults EXCEPT ![kind] = @ + 1]

Observation(kind, n) == [kind |-> kind, of |-> {n}]

----------------------------------------------------------------------------
(* The life of a runtime *)

\* createBridgeRuntime: the next generation of the instance, with the configuration of now.
CreateRuntime ==
    /\ runtime' = runtime + 1
    /\ enabled' \in BOOLEAN
    /\ reached' = FALSE

\* `start` of it, up to its call of connect.
StartRuntime ==
    LET started == Observe(Load(spool), Observation("must", observed + 1))
    IN  /\ Keep(runtime', Observe(started, Observation("snap", observed + 2)))
        /\ observed' = observed + 2
        /\ musts' = {observed + 1}
        /\ dials' = IF enabled' THEN 1 ELSE 0

\* `session_start` of the extension's entry, which goes on while no other runtime is active.
\* Pi waits for the shutdown of a session before it starts the next.
SessionStart ==
    /\ phase \in {"none", "closed"}
    /\ runtime + 1 \in Runtimes
    /\ phase' = "open"
    /\ CreateRuntime
    /\ StartRuntime
    /\ UNCHANGED <<spool, socket, connected, timer, wireVars, storeVars, faults>>

\* What hooks of Pi ask first.
IsCurrent == phase = "open"

EventPossible ==
    /\ runtime \in BusySessions
    /\ observed < 3 * runtime + MaxEvents - (IF phase = "open" THEN 1 ELSE 0)

\* `event`: a hook of Pi whose event is mapped.
Event(kind) ==
    /\ IsCurrent
    /\ EventPossible
    /\ FlushWhen(connected[runtime], runtime, Observe(box[runtime], Observation(kind, observed + 1)))
    /\ observed' = observed + 1
    /\ musts' = IF kind = "must" THEN musts \cup {observed + 1} ELSE musts
    /\ UNCHANGED <<runtime, enabled, reached, phase, socket, connected, timer, dials, wire, owner, session, refused, down, storeVars, faults>>

\* `audit`, by the gates, which flush nothing.  Calls that the shutdown cancels are audited
\* after it.
Audit ==
    /\ phase \in {"open", "closing"}
    /\ EventPossible
    /\ Keep(runtime, Observe(box[runtime], Observation("must", observed + 1)))
    /\ observed' = observed + 1
    /\ musts' = musts \cup {observed + 1}
    /\ UNCHANGED <<runtime, enabled, reached, phase, spool, socket, connected, timer, dials, wireVars, storeVars, faults>>

\* `shutdown`, up to its wait of 20 ms.
ShutdownRuntime ==
    /\ FlushWhen(connected[runtime], runtime, Observe(box[runtime], Observation("must", observed + 1)))
    /\ observed' = observed + 1
    /\ musts' = musts \cup {observed + 1}
    /\ phase' = "closing"
    /\ timer' = FALSE
    /\ dials' = 0

\* `session_shutdown` of the entry.
SessionShutdown ==
    /\ phase = "open"
    /\ ShutdownRuntime
    /\ UNCHANGED <<runtime, enabled, reached, socket, connected, wire, owner, session, refused, down, storeVars, faults>>

\* What is left of frames when those of socket s are lost.
Others(frames, s) ==
    LET kept == Ascending({k \in DOMAIN frames : frames[k].socket # s})
    IN  [i \in DOMAIN kept |-> frames[kept[i]]]

\* Nothing is heard of socket s any more, at either end; what was under way is lost.
Forget(s) ==
    /\ wire' = [wire EXCEPT ![s] = "free"]
    /\ owner' = [owner EXCEPT ![s] = 0]
    /\ socket' = [r \in Runtimes |-> IF socket[r] = s THEN NoSocket ELSE socket[r]]
    /\ session' = [session EXCEPT ![s] = "fresh"]
    /\ refused' = refused \ {s}
    /\ up' = Others(up, s)
    /\ down' = Others(down, s)

\* The rest of it.  A socket that is still connecting is given up at once.
EndSocket ==
    LET s == socket[runtime]
    IN  /\ phase = "closing"
        /\ phase' = "closed"
        /\ connected' = [connected EXCEPT ![runtime] = FALSE]
        /\ \/ /\ WireOf(runtime) = "connecting"
              /\ Forget(s)
           \/ /\ WireOf(runtime) = "open"
              /\ wire' = [wire EXCEPT ![s] = "closing"]
              /\ UNCHANGED <<socket, owner, session, refused, up, down>>
           \/ /\ WireOf(runtime) \in {"free", "closing"}
              /\ UNCHANGED <<socket, wireVars>>
        /\ UNCHANGED <<runtime, enabled, reached, box, spool, timer, dials, storeVars, observed, musts, faults>>

\* The file is read again when the next session starts, if it is there and in order.
LoseSpool ==
    /\ phase = "closed"
    /\ Happens("loss")
    /\ spool' = EmptySpool
    /\ UNCHANGED <<runtime, enabled, reached, phase, box, socket, connected, timer, dials, wireVars, storeVars,
                   observed, musts>>

----------------------------------------------------------------------------
(* Connecting *)

\* The reconnect timer.
TimerFires ==
    /\ timer
    /\ timer' = FALSE
    /\ dials' = dials + 1
    /\ UNCHANGED <<runtime, enabled, reached, phase, box, spool, socket, connected, wireVars, storeVars, observed, musts, faults>>

\* /remote-control-enable: `setEnabled`, which needs a daemon, and then `ensureConnected`,
\* which does not know of the timer.
EnsureConnected ==
    /\ phase = "open"
    /\ reached
    /\ runtime \in BusySessions
    /\ ~connected[runtime]
    /\ Happens("enable")
    /\ dials' = dials + 1
    /\ UNCHANGED <<runtime, enabled, reached, phase, box, spool, socket, connected, timer, wireVars, storeVars, observed, musts>>

Unused == {s \in Sockets : wire[s] = "free"}

\* `connect`, once the daemon is there: a new socket takes the place of the old.
Dialled ==
    /\ dials > 0
    /\ Unused # {}
    /\ LET s == CHOOSE s \in Unused : \A t \in Unused : s <= t
       IN  /\ socket' = [socket EXCEPT ![runtime] = s]
           /\ wire' = [wire EXCEPT ![s] = "connecting"]
           /\ owner' = [owner EXCEPT ![s] = runtime]
    /\ reached' = TRUE
    /\ dials' = dials - 1
    /\ UNCHANGED <<runtime, enabled, phase, box, spool, connected, timer, session, refused, up, down, storeVars, observed, musts, faults>>

ScheduleWhenClosed(r) ==
    /\ timer' = TRUE
    /\ connected' = [connected EXCEPT ![r] = FALSE]

ScheduleConnected(r) ==
    IF r = runtime /\ phase = "open" /\ ~timer /\ connected[r]
    THEN ScheduleWhenClosed(r)
    ELSE UNCHANGED <<timer, connected>>

\* `scheduleReconnect`, by a handler of runtime r.
ScheduleReconnect(r) ==
    IF r = runtime /\ phase = "open" /\ ~timer
    THEN /\ timer' = TRUE
         /\ connected' = [connected EXCEPT ![r] = FALSE]
    ELSE UNCHANGED <<timer, connected>>

\* `connect`, when ensureDaemon() fails.
DialFails ==
    /\ dials > 0
    /\ Happens("break")
    /\ dials' = dials - 1
    /\ ScheduleReconnect(runtime)
    /\ UNCHANGED <<runtime, enabled, reached, phase, box, spool, socket, wireVars, storeVars, observed, musts>>

\* The open event of socket s.
Open(s) ==
    /\ wire[s] = "connecting"
    /\ wire' = [wire EXCEPT ![s] = "open"]
    /\ LET t == socket[owner[s]]
       IN  up' = IF t = s \/ Sendable(owner[s]) THEN Append(up, Hello(t)) ELSE up
    /\ UNCHANGED <<bridgeVars, owner, session, refused, down, storeVars, observed, musts, faults>>

\* The close event of socket s, after either end has closed it, or because it broke.  What
\* the daemon had still read of it counts as read before.
Close(s) ==
    /\ wire[s] # "free"
    /\ \/ /\ wire[s] = "closing" \/ s \in refused
          /\ UNCHANGED faults
       \/ Happens("break")
    /\ ScheduleReconnect(owner[s])
    /\ Forget(s)
    /\ UNCHANGED <<runtime, enabled, reached, phase, box, spool, dials, storeVars, observed, musts>>

----------------------------------------------------------------------------
(* Frames that reach the bridge.  No handler asks whether its socket is the  *)
(* current one, nor whether the runtime has been shut down.                  *)

Receives(type) ==
    /\ down # <<>>
    /\ Head(down).type = type
    /\ down' = Tail(down)

Welcomed ==
    LET r == owner[Head(down).socket]
        sent == Assign(box[r], r)
    IN  /\ Receives("welcome")
        /\ Keep(r, sent)
        /\ Persist(sent)
        /\ Send(r, Registration)
        /\ UNCHANGED <<runtime, enabled, reached, phase, socket, connected, timer, dials, wire, owner, session, refused,
                       storeVars, observed, musts, faults>>

ResumeConflicts ==
    LET s == Head(down).socket
    IN  /\ Receives("registered")
        /\ ~Resumable(box[owner[s]], Head(down).n)
        /\ wire' = [wire EXCEPT ![s] = "closing"]
        /\ UNCHANGED <<bridgeVars, owner, session, refused, up, storeVars, observed, musts, faults>>

Resumed ==
    LET r == owner[Head(down).socket]
        n == Head(down).n
        b == ResumeFrom(box[r], n)
    IN  /\ Receives("registered")
        /\ Resumable(box[r], n)
        /\ connected' = [connected EXCEPT ![r] = TRUE]
        /\ IF Sendable(r)
           THEN FlushWhen(TRUE, r, b)
           ELSE /\ Keep(r, b)
                /\ Persist(b)
                /\ UNCHANGED up
        /\ UNCHANGED <<runtime, enabled, reached, phase, socket, timer, dials, wire, owner, session, refused,
                       storeVars, observed, musts, faults>>

Acknowledged ==
    LET r == owner[Head(down).socket]
        b == Acknowledge(box[r], Head(down).n)
    IN  /\ Receives("ack")
        /\ Keep(r, b)
        /\ Persist(b)
        /\ UNCHANGED <<runtime, enabled, reached, phase, socket, connected, timer, dials, wire, owner, session, refused, up,
                       storeVars, observed, musts, faults>>

----------------------------------------------------------------------------
(* Frames that reach the daemon, also those that had been sent when it       *)
(* refused an earlier one.                                                   *)

Reaches(type) ==
    /\ up # <<>>
    /\ Head(up).type = type

\* What is queued in the turn of the refusal is still written.
Reply(s, frame) ==
    \/ down' = Append(down, frame)
    \/ s \in refused /\ UNCHANGED down

\* protocolError: the daemon reports it and closes the socket.
Refuse(s) ==
    /\ refused' = refused \cup {s}
    /\ UNCHANGED down

\* ProtocolSession.receive, and process.register; a second one of either is refused.
Greets ==
    LET s == Head(up).socket
    IN  /\ \/ Reaches("hello") \/ Reaches("register")
        /\ up' = Tail(up)
        /\ \/ /\ Head(up).type = "hello" /\ session[s] = "fresh"
              /\ session' = [session EXCEPT ![s] = "welcomed"]
              /\ Reply(s, Welcome(s))
              /\ UNCHANGED refused
           \/ /\ Head(up).type = "register" /\ session[s] = "welcomed"
              /\ session' = [session EXCEPT ![s] = "bound"]
              /\ Reply(s, Registered(s, Expected))
              /\ UNCHANGED refused
           \/ /\ ~(Head(up).type = "hello" /\ session[s] = "fresh")
              /\ ~(Head(up).type = "register" /\ session[s] = "welcomed")
              /\ Refuse(s)
              /\ UNCHANGED session
        /\ UNCHANGED <<bridgeVars, wire, owner, storeVars, observed, musts, faults>>

\* The first event of a batch.
First(batch) == CHOOSE n \in DOMAIN batch : \A m \in DOMAIN batch : n <= m
Record(batch) == [inst |-> Instance, seq |-> First(batch), event |-> batch[First(batch)]]

\* The row under number n.  Retention deletes rows too, but none as young as those that are
\* sent again; DurableStore has it.
Recorded(n) == {e \in {q.event : q \in ledger} : e.seq = n}

Rest(frame) ==
    LET left == DOMAIN frame.batch \ {First(frame.batch)}
    IN  IF left = {} THEN Tail(up)
        ELSE <<[frame EXCEPT !.batch = Restrict(@, left)]>> \o Tail(up)

Commits ==
    LET s == Head(up).socket
        e == Record(Head(up).batch)
    IN  /\ Reaches("publish")
        /\ session[s] = "bound"
        /\ Ledger!Admit(e)
        /\ Reply(s, Ack(s, e.seq))
        /\ up' = Rest(Head(up))
        /\ UNCHANGED <<bridgeVars, wire, owner, session, refused, observed, musts, faults>>

\* A duplicate, whose row is still there.
Recognises ==
    LET s == Head(up).socket
        e == Record(Head(up).batch)
    IN  /\ Reaches("publish")
        /\ session[s] = "bound"
        /\ e \in Recorded(e.seq)
        /\ Reply(s, Ack(s, Expected - 1))
        /\ up' = Rest(Head(up))
        /\ UNCHANGED <<bridgeVars, wire, owner, session, refused, storeVars, observed, musts, faults>>

\* producer_not_registered; event_conflict; process_sequence_gap, for a number that is too
\* high; cursor_exhausted.
Refuses ==
    LET s == Head(up).socket
        e == Record(Head(up).batch)
    IN  /\ Reaches("publish")
        /\ session[s] = "bound" => e \notin Recorded(e.seq) /\ (e.seq # Expected \/ head >= MaxCursor)
        /\ up' = Rest(Head(up))
        /\ Refuse(s)
        /\ UNCHANGED <<bridgeVars, wire, owner, session, storeVars, observed, musts, faults>>

----------------------------------------------------------------------------
BridgeReceives == Welcomed \/ ResumeConflicts \/ Resumed \/ Acknowledged
DaemonReceives == Greets \/ Commits \/ Recognises \/ Refuses

Next ==
    \/ SessionStart \/ Audit \/ SessionShutdown \/ EndSocket \/ LoseSpool
    \/ \E kind \in EventKinds : Event(kind)
    \/ TimerFires \/ EnsureConnected \/ Dialled \/ DialFails
    \/ \E s \in Sockets : Open(s) \/ Close(s)
    \/ BridgeReceives \/ DaemonReceives

Fairness ==
    /\ WF_vars(BridgeReceives)
    /\ WF_vars(DaemonReceives)
    /\ WF_vars(TimerFires)
    /\ WF_vars(Dialled)
    /\ WF_vars(EndSocket)
    /\ \A s \in Sockets : WF_vars(Open(s)) /\ WF_vars((wire[s] = "closing" \/ s \in refused) /\ Close(s))

Spec == Init /\ [][Next]_vars /\ Fairness

----------------------------------------------------------------------------
(* Properties *)

TypeOK ==
    /\ runtime \in 0 .. MaxRuntimes
    /\ enabled \in BOOLEAN
    /\ reached \in BOOLEAN
    /\ phase \in {"none", "open", "closing", "closed"}
    /\ socket \in [Runtimes -> Sockets \cup {NoSocket}]
    /\ connected \in [Runtimes -> BOOLEAN]
    /\ timer \in BOOLEAN
    /\ dials \in Nat
    /\ wire \in [Sockets -> {"free", "connecting", "open", "closing"}]
    /\ owner \in [Sockets -> 0 .. runtime]
    /\ session \in [Sockets -> {"fresh", "welcomed", "bound"}]
    /\ refused \subseteq Sockets
    /\ observed \in Nat
    /\ faults \in [FaultKinds -> Nat]
    /\ \A s \in Sockets : wire[s] = "free" <=> owner[s] = 0
    /\ \A r \in Runtimes : socket[r] # NoSocket => owner[socket[r]] = r
    /\ \A k \in DOMAIN up : up[k].socket \in Sockets /\ wire[up[k].socket] # "free"
    /\ \A k \in DOMAIN down : down[k].socket \in Sockets /\ wire[down[k].socket] # "free"
    /\ phase # "open" => ~timer /\ dials = 0

SpoolKept == faults["loss"] = 0

\* "Assigned events are retained until daemon acknowledgement and resume without
\* renumbering" (README of the extension): whatever the daemon does not have yet of the
\* numbers given out is there to be sent, in the running outbox and in the file that the
\* next session starts from.
Retains(b) ==
    /\ Expected <= b.next
    /\ \A n \in Expected .. (b.next - 1) : n \in DOMAIN b.assigned

RetainedUntilCommitted ==
    SpoolKept =>
        /\ runtime > 0 => Retains(box[runtime])
        /\ Retains(spool)

\* The daemon never meets a number of the instance with another event under it, although
\* several outboxes give out numbers and acknowledgements of old sockets come late.
NeverRenumbered ==
    \A k \in DOMAIN up : \A n \in DOMAIN up[k].batch :
        /\ \A e \in Recorded(n) : e.event = up[k].batch[n]
        /\ n >= Expected /\ n \in DOMAIN box[runtime].assigned
             => up[k].batch[n] = box[runtime].assigned[n]

\* Mandatory events get their cursors in the order in which Pi saw them happen, over
\* reconnects, retransmissions and sessions.
CommittedInOrder ==
    \A q, p \in ledger :
        /\ q.event.event.item.kind = "must"
        /\ p.event.event.item.kind = "must"
        /\ q.cursor < p.cursor
        => \A m \in q.event.event.item.of, n \in p.event.event.item.of : m < n

\* While a runtime lives, no mandatory event of it goes unaccounted for: it waits, is
\* assigned, is committed, or stands behind a gap record that is one of these.
MandatoryAccounted ==
    phase = "open" /\ SpoolKept =>
        \A m \in musts :
            \/ m \in PendingObservations(box[runtime])
            \/ \E n \in DOMAIN box[runtime].assigned : m \in box[runtime].assigned[n].item.of
            \/ \E q \in ledger : m \in q.event.event.item.of

\* What a runtime has assigned reaches the daemon while the session lasts, once sockets
\* stop breaking, if no second connection is made beside the first: two may drive one
\* another out for ever.
AssignedIsCommitted ==
    phase = "open" /\ enabled /\ SpoolKept /\ faults["enable"] = 0 /\ Expected < box[runtime].next
        ~> phase # "open" \/ faults["enable"] > 0 \/ Expected = box[runtime].next
=============================================================================

---------------------------- MODULE PhoneSessions ----------------------------
(***************************************************************************)
(* The daemon's server for phones (protocol v2): http-server.ts, with      *)
(* V2SessionManager of v2-session.ts, the v2 half of daemon.ts and the     *)
(* table v2_assignments.                                                   *)
(*                                                                         *)
(* A phone connects with a token.  The token is assigned to one process,   *)
(* whose retained history the phone gets, whose new events follow, and to  *)
(* which its commands go.  A phone that comes while no process is live is  *)
(* kept pending and bound later.  The server also spawns Pi sessions and   *)
(* remembers them in a file.                                               *)
(*                                                                         *)
(* Every handler runs without an await.  A phone here is one socket at a  *)
(* time: after its close it may come back with another one.                *)
(***************************************************************************)
EXTENDS Integers, Sequences, SequencesExt, NumberSets

CONSTANTS
    Processes,   \* Pi processes
    Tokens,      \* v2 tokens, as their verifiers
    Legacy,      \* the configured one
    Unnamed,     \* the verifier of "loopback", that phones with no token in their URL have; the
                 \* other tokens are issued
    Phones,      \* sockets of phones
    Bypassing,   \* those on the daemon's own machine, if allowNoAuthFromLoopback is set
    Pids,        \* process ids of the machine
    NoProcess,
    Talking,     \* bound: the processes that commit events
    MaxEvents,   \* bound: how many each of them
    MayRestart,  \* bound: whether the daemon is ever restarted
    Together     \* bound: whether there are phones and spawned sessions in one behaviour

ASSUME PhoneAssumption ==
    /\ Legacy \in Tokens /\ Unnamed # Legacy
    /\ Bypassing \subseteq Phones
    /\ NoProcess \notin Processes
    /\ Talking \subseteq Processes
    /\ MaxEvents \in Nat /\ MayRestart \in BOOLEAN /\ Together \in BOOLEAN

VARIABLES
    known,      \* processes that registered since the daemon started
    live,       \* those with Process.live, by registeredAt
    count,      \* events of each process that were ever committed
    rows,       \* those that are retained
    memory,     \* #assignments
    disk,       \* v2_assignments
    enabled,    \* of the server
    accepted,   \* AuthService: tokens that are not revoked
    sock,       \* state of a phone's socket; "leaked" is one that has closed but stays in v2Clients
    token,      \* the token it came with, of those that are there
    clients,    \* v2Clients
    pending,    \* v2Pending
    handler,    \* whom its message handler routes to, NoProcess for the handler of a pending phone
    heard,      \* the events that were sent to it
    proc,       \* what runs under a pid: "none", a "session" that a daemon has spawned, the same
                \* once it was asked to close ("closing"), any "other" process
    spawned,    \* of the server
    children,   \* pids whose exit the daemon hears of
    file,       \* the pids in spawned-sessions.json, none if what is there cannot be parsed
    saved,      \* whether persistSpawned wrote the whole file when the daemon called it last
    lost,       \* history: running sessions that were not in the file when a daemon started, the
                \* one before it having ended with the file incomplete
    served      \* history: the processes that phones with a token have had to do with

producerVars == <<known, live, count, rows>>
assignVars == <<memory, disk>>
phoneVars == <<sock, token, clients, pending, handler, heard>>
spawnVars == <<proc, spawned, children, file, saved, lost>>
vars == <<producerVars, assignVars, enabled, accepted, phoneVars, spawnVars, served>>

Init ==
    /\ known = {}
    /\ live = <<>>
    /\ count = [p \in Processes |-> 0]
    /\ rows = [p \in Processes |-> {}]
    /\ memory = [t \in Tokens |-> NoProcess]
    /\ disk = [t \in Tokens |-> NoProcess]
    /\ enabled = TRUE
    /\ accepted = {Legacy}
    /\ sock = [w \in Phones |-> "none"]
    /\ token = [w \in Phones |-> Legacy]
    /\ clients = [w \in Phones |-> NoProcess]
    /\ pending = {}
    /\ handler = [w \in Phones |-> NoProcess]
    /\ heard = [w \in Phones |-> <<>>]
    /\ proc = [pid \in Pids |-> "none"]
    /\ spawned = {}
    /\ children = {}
    /\ file = {}
    /\ saved = TRUE
    /\ lost = {}
    /\ served = [t \in Tokens |-> {}]

\* Phones and spawned sessions share nothing but the restart of the daemon.
NoPhones ==
    /\ known = {} /\ \A w \in Phones : sock[w] = "none"
    /\ \A p \in Processes : count[p] = 0
    /\ \A t \in Tokens : disk[t] = NoProcess
NoSessions == file = {} /\ saved /\ \A pid \in Pids : proc[pid] = "none"

----------------------------------------------------------------------------
(* Producers.  Whether a process is live is decided by the control plane.   *)

\* Without p among them.  The order is by registeredAt; two registrations of one millisecond
\* count as being in order.
LiveWithout(p) ==
    IF p \in Range(live)
    THEN RemoveAt(live, CHOOSE k \in DOMAIN live : live[k] = p)
    ELSE live

\* `process.register`
Registers(p) ==
    /\ Together \/ NoSessions
    /\ known' = known \cup {p}
    /\ live' = Append(LiveWithout(p), p)
    /\ UNCHANGED <<count, rows, assignVars, enabled, accepted, phoneVars, spawnVars, served>>

\* A verdict of the sweep, or the close of a bridge's socket: setLive(p, false).  Only a
\* registration makes it live again.
GoesAway(p) ==
    /\ p \in Range(live)
    /\ live' = LiveWithout(p)
    /\ UNCHANGED <<known, count, rows, assignVars, enabled, accepted, phoneVars, spawnVars, served>>

\* publishV2 sends to the open sockets bound to p.
Listening(p) == {w \in Phones : clients[w] = p /\ sock[w] = "open"}

\* `event.publish` of an event that toV2Event maps: appendEvent, then publish.
Commits(p) ==
    /\ p \in known \cap Talking
    /\ count[p] < MaxEvents
    /\ count' = [count EXCEPT ![p] = @ + 1]
    /\ rows' = [rows EXCEPT ![p] = @ \cup {count[p] + 1}]
    /\ heard' = [w \in Phones |-> IF w \in Listening(p) THEN Append(heard[w], count[p] + 1) ELSE heard[w]]
    /\ served' = [t \in Tokens |-> IF \E w \in Listening(p) : token[w] = t
                                   THEN served[t] \cup {p} ELSE served[t]]
    /\ UNCHANGED <<known, live, assignVars, enabled, accepted, sock, token, clients, pending, handler, spawnVars>>

\* Retention deletes by the producers' clocks, so that any row may go.
Retain(p) ==
    /\ \E n \in rows[p] : rows' = [rows EXCEPT ![p] = @ \ {n}]
    /\ UNCHANGED <<known, live, count, assignVars, enabled, accepted, phoneVars, spawnVars, served>>

----------------------------------------------------------------------------
(* V2SessionManager *)

Assigned(t) == IF memory[t] # NoProcess THEN memory[t] ELSE disk[t]

\* bindLegacy(t) returns TargetOf(t), or throws process_unavailable if not Bindable(t).
Bindable(t) == IF Assigned(t) # NoProcess THEN Assigned(t) \in Range(live) ELSE live # <<>>

TargetInMemory(t) == IF memory[t] # NoProcess THEN memory[t] ELSE Head(live)

TargetOf(t) == IF Assigned(t) # NoProcess THEN Assigned(t) ELSE Head(live)

\* INSERT OR IGNORE
SaveAssignments(bound) ==
    disk' = [t \in Tokens |-> IF t \in DOMAIN bound /\ disk[t] = NoProcess THEN bound[t] ELSE disk[t]]

\* What the calls bindLegacy(t), t \in ts, all of which succeed, keep.
BindLegacy(ts) ==
    LET chosen == [t \in {u \in ts : Assigned(u) = NoProcess} |-> Head(live)]
    IN  /\ memory' = [t \in Tokens |-> IF t \in DOMAIN chosen THEN chosen[t] ELSE memory[t]]
        /\ SaveAssignments(chosen)

\* The retained history of p, as it is replayed to a phone.
History(p) == Ascending(rows[p])

\* Hello and history for phones ws, which get their processes.
Welcome(ws) ==
    /\ clients' = [w \in Phones |-> IF w \in ws THEN TargetOf(token'[w]) ELSE clients[w]]
    /\ heard' = [w \in Phones |-> IF w \in ws /\ sock'[w] = "open"
                                  THEN heard[w] \o History(TargetOf(token'[w])) ELSE heard[w]]
    /\ served' = [t \in Tokens |-> IF \E w \in ws : token'[w] = t
                                   THEN served[t] \cup {TargetOf(t)} ELSE served[t]]

----------------------------------------------------------------------------
(* Administration *)

\* POST /admin/v2-token; a token that cannot be assigned is revoked before anyone has it.
Pair(p, t) ==
    /\ t \notin accepted \cup {Legacy, Unnamed}
    /\ disk[t] = NoProcess
    /\ \A w \in Phones : token[w] # t
    /\ p \in Range(live)
    /\ accepted' = accepted \cup {t}
    /\ memory' = [memory EXCEPT ![t] = p]
    /\ SaveAssignments([u \in {t} |-> p])
    /\ UNCHANGED <<producerVars, enabled, phoneVars, spawnVars, served>>

CloseSockets(ws) ==
    sock' = [w \in Phones |-> IF w \in ws /\ sock[w] = "open" THEN "closing" ELSE sock[w]]

\* POST /admin/v2-rotate
Rotate ==
    /\ accepted' = {}
    /\ CloseSockets({w \in Phones : clients[w] # NoProcess})
    /\ UNCHANGED <<producerVars, assignVars, enabled, token, clients, pending, handler, heard, spawnVars, served>>

\* POST /admin/disable
Disable ==
    /\ enabled' = FALSE
    /\ CloseSockets(Phones)
    /\ UNCHANGED <<producerVars, assignVars, accepted, token, clients, pending, handler, heard, spawnVars, served>>

\* POST /admin/enable
Enable ==
    /\ enabled' = TRUE
    /\ UNCHANGED <<producerVars, assignVars, accepted, phoneVars, spawnVars, served>>

----------------------------------------------------------------------------
(* Phones *)

\* `authorize` of the upgrade.  A phone with no token in its URL may have a valid one in its
\* header.
Admitted(w, t) == w \in Bypassing \/ t \in accepted \/ (t = Unnamed /\ accepted # {})

Upgrade(w, t) ==
    /\ Together \/ NoSessions
    /\ sock[w] = "none"
    /\ enabled
    /\ Admitted(w, t)
    /\ sock' = [sock EXCEPT ![w] = "open"]
    /\ token' = [token EXCEPT ![w] = t]

ConnectBound(w, t) ==
    /\ Upgrade(w, t)
    /\ Bindable(t)
    /\ BindLegacy({t})
    /\ Welcome({w})
    /\ handler' = [handler EXCEPT ![w] = TargetOf(t)]
    /\ UNCHANGED <<producerVars, enabled, accepted, pending, spawnVars>>

\* No session yet: hello with noSession, and handlers that answer no_session.
ConnectPending(w, t) ==
    /\ Upgrade(w, t)
    /\ ~Bindable(t)
    /\ pending' = pending \cup {w}
    /\ UNCHANGED <<producerVars, assignVars, enabled, accepted, clients, handler, heard, spawnVars, served>>

Ready == {w \in pending : Bindable(token[w])}

BindAll ==
    /\ pending # {}
    /\ Ready = pending
    /\ pending' = {}
    /\ BindLegacy({token[w] : w \in pending})
    /\ UNCHANGED <<sock, token>>
    /\ Welcome(pending)
    /\ UNCHANGED <<producerVars, enabled, accepted, handler, spawnVars>>

BindAgain ==
    /\ Ready # {}
    /\ BindLegacy({token[w] : w \in Ready})
    /\ UNCHANGED <<sock, token>>
    /\ Welcome(Ready)
    /\ UNCHANGED <<producerVars, enabled, accepted, pending, handler, spawnVars>>

\* tryBindPending, every two seconds.  The handlers of the phones it binds stay.
TryBindPending ==
    /\ Ready # {}
    /\ pending' = pending \ Ready
    /\ BindLegacy({token[w] : w \in Ready})
    /\ UNCHANGED <<sock, token>>
    /\ Welcome(Ready)
    /\ UNCHANGED <<producerVars, enabled, accepted, handler, spawnVars>>

\* A command of a bound phone reaches the router, if that has a bridge for the process;
\* otherwise the phone hears target_unavailable.
Command(w) ==
    /\ sock[w] \in {"open", "closing"}
    /\ handler[w] # NoProcess
    /\ served' = [served EXCEPT ![token[w]] = @ \cup {handler[w]}]
    /\ UNCHANGED <<producerVars, assignVars, enabled, accepted, phoneVars, spawnVars>>

\* A message that is no command closes the socket of a phone that was bound at once.
BadMessage(w) ==
    /\ sock[w] = "open"
    /\ handler[w] # NoProcess
    /\ CloseSockets({w})
    /\ UNCHANGED <<producerVars, assignVars, enabled, accepted, token, clients, pending, handler, heard, spawnVars, served>>

\* The close event, after either end has closed the socket or because it broke.  The close
\* handler is the one that was registered at the connect: that of a pending phone does not
\* know of v2Clients.
CloseEvent(w) ==
    /\ sock[w] \in {"open", "closing"}
    /\ LET leaks == handler[w] = NoProcess /\ clients[w] # NoProcess
       IN  /\ sock' = [sock EXCEPT ![w] = IF leaks THEN "leaked" ELSE "none"]
           /\ clients' = IF leaks THEN clients ELSE [clients EXCEPT ![w] = NoProcess]
    /\ pending' = pending \ {w}
    /\ token' = [token EXCEPT ![w] = Legacy]
    /\ handler' = [handler EXCEPT ![w] = NoProcess]
    /\ heard' = [heard EXCEPT ![w] = <<>>]
    /\ UNCHANGED <<producerVars, assignVars, enabled, accepted, spawnVars, served>>

----------------------------------------------------------------------------
(* Spawned sessions, and the end of the daemon *)

\* GET /admin/sessions, of those that it shows alive.
Listed == {pid \in spawned : proc[pid] # "none"}

Forgotten == {pid \in Pids : proc[pid] = "session" /\ pid \notin Listed}

\* What the server has at its start: the sessions of the file that are still alive, or pids
\* that others have by now.
Starts ==
    /\ enabled' = TRUE
    /\ spawned' = {pid \in file' : proc'[pid] # "none"}
    /\ children' = {}
    /\ saved' = TRUE

\* The sockets of the daemon that ends.
Stops ==
    /\ sock' = [w \in Phones |-> "none"]
    /\ token' = [w \in Phones |-> Legacy]
    /\ handler' = [w \in Phones |-> NoProcess]
    /\ clients' = [w \in Phones |-> NoProcess]
    /\ pending' = {}
    /\ heard' = [w \in Phones |-> <<>>]

NextDaemon ==
    /\ MayRestart
    /\ Stops
    /\ Starts
    /\ known' = {}
    /\ live' = <<>>
    /\ memory' = [t \in Tokens |-> NoProcess]
    /\ accepted' = {Legacy}
    /\ UNCHANGED <<count, rows, disk>>

\* The daemon stops or crashes, and the next one starts.  A spawn whose command is not there
\* does that too: nobody listens to the error event of the child.
Restart ==
    /\ UNCHANGED <<proc, file, served>>
    /\ NextDaemon
    /\ lost' = IF saved THEN lost ELSE Forgotten'

PersistLater ==
    /\ UNCHANGED file
    /\ saved' = TRUE

\* persistSpawned: the file is truncated, then written, and an error is swallowed.
PersistSpawned ==
    \/ file' = spawned' /\ saved' = TRUE
    \/ file' \in {file, {}} /\ saved' = FALSE

\* The daemon ends before or within its call of persistSpawned, and the next one starts.
DiesPersisting ==
    /\ file' \in {file, {}}
    /\ NextDaemon
    /\ lost' = Forgotten'

\* What such a handler leaves alone if the daemon survives it.
GoesOn == UNCHANGED <<producerVars, assignVars, enabled, accepted, phoneVars>>

\* POST /admin/sessions/spawn: the child runs before the file is written.
Spawn(pid) ==
    /\ Together \/ NoPhones
    /\ proc[pid] = "none"
    /\ proc' = [proc EXCEPT ![pid] = "session"]
    /\ \/ /\ spawned' = spawned \cup {pid}
          /\ children' = children \cup {pid}
          /\ PersistSpawned
          /\ UNCHANGED lost
          /\ GoesOn
       \/ DiesPersisting
    /\ UNCHANGED served

\* A session ends: of itself, because it was asked to, or because its stdin has closed.  The
\* daemon hears of those it has spawned since it started.
SessionEnds(pid) ==
    /\ proc[pid] \in {"session", "closing"}
    /\ proc' = [proc EXCEPT ![pid] = "none"]
    /\ \/ /\ IF pid \in children
             THEN spawned' = spawned \ {pid} /\ PersistSpawned
             ELSE UNCHANGED <<spawned, file, saved>>
          /\ children' = children \ {pid}
          /\ lost' = lost \ {pid}
          /\ GoesOn
       \/ pid \in children /\ DiesPersisting
    /\ UNCHANGED served

\* The operating system reuses the pid of a process that has ended.
OtherProcess(pid) ==
    /\ Together \/ NoPhones
    /\ \/ proc[pid] = "none" /\ proc' = [proc EXCEPT ![pid] = "other"]
       \/ proc[pid] = "other" /\ proc' = [proc EXCEPT ![pid] = "none"]
    /\ UNCHANGED <<spawned, children, file, saved, lost, served>>
    /\ GoesOn

\* POST /admin/sessions/close: SIGTERM, for whatever runs under the pid.
CloseSession(pid) ==
    /\ pid \in spawned
    /\ proc' = [proc EXCEPT ![pid] = IF @ = "session" THEN "closing" ELSE @]
    /\ \/ /\ spawned' = spawned \ {pid}
          /\ PersistSpawned
          /\ UNCHANGED <<children, lost>>
          /\ GoesOn
       \/ DiesPersisting
    /\ UNCHANGED served

----------------------------------------------------------------------------
Next ==
    \/ \E p \in Processes : Registers(p) \/ GoesAway(p) \/ Commits(p) \/ Retain(p)
    \/ \E p \in Processes, t \in Tokens : Pair(p, t)
    \/ Rotate \/ Disable \/ Enable
    \/ \E w \in Phones, t \in Tokens : ConnectBound(w, t) \/ ConnectPending(w, t)
    \/ TryBindPending
    \/ \E w \in Phones : Command(w) \/ BadMessage(w) \/ CloseEvent(w)
    \/ \E pid \in Pids : Spawn(pid) \/ SessionEnds(pid) \/ OtherProcess(pid) \/ CloseSession(pid)
    \/ Restart

Spec == Init /\ [][Next]_vars /\ WF_vars(TryBindPending)

----------------------------------------------------------------------------
(* Properties *)

StateTypes ==
    /\ known \subseteq Processes
    /\ live \in Seq(known)
    /\ count \in [Processes -> Nat]
    /\ rows \in [Processes -> SUBSET Nat]
    /\ \A p \in Processes : rows[p] \subseteq 1 .. count[p]
    /\ memory \in [Tokens -> Processes \cup {NoProcess}]
    /\ disk \in [Tokens -> Processes \cup {NoProcess}]
    /\ enabled \in BOOLEAN
    /\ accepted \subseteq Tokens
    /\ sock \in [Phones -> {"none", "open", "closing", "leaked"}]
    /\ token \in [Phones -> Tokens]
    /\ clients \in [Phones -> Processes \cup {NoProcess}]
    /\ handler \in [Phones -> Processes \cup {NoProcess}]
    /\ pending \subseteq {w \in Phones : sock[w] \in {"open", "closing"} /\ clients[w] = NoProcess}
    /\ proc \in [Pids -> {"none", "session", "closing", "other"}]
    /\ spawned \subseteq Pids /\ file \subseteq Pids /\ saved \in BOOLEAN
    /\ saved => spawned \subseteq file
    /\ lost \subseteq Pids
    /\ children \subseteq {pid \in Pids : proc[pid] \in {"session", "closing"}}
    /\ served \in [Tokens -> SUBSET Processes]

TypeOK == StateTypes /\ heard \in [Phones -> Seq(Nat)]

\* A token stands for one process as long as the profile lasts: over reconnects, late
\* bindings, new sessions and restarts of the daemon, its phones never get the events of a
\* second process, and no second process gets their commands.
OneProcess == \A t \in Tokens : \A p, q \in served[t] : p = q

\* A phone with a process hears that process from the start of what is retained, in order,
\* each event once, with no hole where history ends and live events begin.
StreamWhole ==
    \A w \in Phones :
        sock[w] = "open" /\ clients[w] # NoProcess =>
            /\ \A i, j \in DOMAIN heard[w] : i < j => heard[w][i] < heard[w][j]
            /\ rows[clients[w]] \subseteq Range(heard[w])

\* A phone that waits gets its process if that is live, whoever else waits in vain.
PendingGetsBound ==
    \A w \in Phones :
        w \in pending /\ Bindable(token[w]) ~> w \notin pending \/ ~Bindable(token[w])

\* A session that a daemon has spawned, that runs and that nobody has asked to close can be
\* listed and closed, also by the daemons that come after that one.  Only the end of a daemon
\* that had not written the file since forgets a session: the write that failed or was cut
\* short is made good by any later one that succeeds, and a crash at any other moment, or
\* another session's end, takes none away.
SessionsRemembered ==
    \A pid \in Pids : proc[pid] = "session" => pid \in Listed \cup lost

\* "No active Pi session. Create one from the sessions drawer." (http-server.ts): the
\* handler that answers so serves phones without a session.
NoSessionMeansNone ==
    \A w \in Phones :
        sock[w] = "open" /\ handler[w] = NoProcess => clients[w] = NoProcess
=============================================================================

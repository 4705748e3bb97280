----------------------------- MODULE CommandPath -----------------------------
(***************************************************************************)
(* Commands from a client through the daemon to a bridge and back: the     *)
(* commands table of store.ts, command-router.ts and the bridge's handler  *)
(* in controls.ts, composed with the sockets and rows of ControlPlane.     *)
(* A command is kept twice, in the table and in the router's memory; the   *)
(* second copy dies with the daemon.  Frames between daemon and bridge     *)
(* take time, and those on a socket are lost when it closes.  Dashboards   *)
(* have no part in this.                                                   *)
(***************************************************************************)
EXTENDS ControlPlane

CONSTANTS
    Cmds,      \* command ids
    Requests,  \* what a request says besides its id and target: principal, payload, deadline
    Clients,   \* sockets of clients
    Runtimes,  \* bound: the sessions that the runtimes of an instance are started for
    MaxMissed  \* bound: how long a bridge is silent, as in `missed`

ASSUME CommandAssumption ==
    /\ None \notin Clients \cup Requests
    /\ Runtimes \in [Insts -> SUBSET Sessions]
    /\ MaxMissed \in 0 .. 2

VARIABLES
    rows,        \* the commands table
    items,       \* CommandRouter's #commands
    toBridge,    \* commands sent to a bridge and not yet handled there
    fromBridge,  \* answers of a bridge not yet handled by the daemon
    ending,      \* sockets that one end has closed for an answer's sake; the daemon will see it
    work,        \* at the bridge: commands the running runtime is executing
    cache,       \* at the bridge: the results that runtime remembers
    invoked,     \* history: how often a command was executed
    heard        \* history: the results a client was sent

wireVars == <<toBridge, fromBridge, ending>>
bridgeVars == <<work, cache, invoked>>
commandVars == <<rows, items, heard, wireVars, bridgeVars>>
pathVars == <<vars, commandVars>>

\* The results, as far as they differ: the daemon makes up "rejected" and "disconnected",
\* and any two of them are different to `completeCommand`.
Answers == {"completed", "failed"}
Outcomes == Answers \cup {"rejected", "disconnected"}

NoRow == [state |-> "none", inst |-> NoInst, request |-> None]

\* `restored` is history: the item was copied from a row that was there already.
NoItem == [state |-> "none", inst |-> NoInst, request |-> None, client |-> None, restored |-> FALSE]

CommandInit ==
    /\ rows = [k \in Cmds |-> NoRow]
    /\ items = [k \in Cmds |-> NoItem]
    /\ toBridge = {}
    /\ fromBridge = {}
    /\ ending = {}
    /\ work = [i \in Insts |-> {}]
    /\ cache = [i \in Insts |-> [k \in Cmds |-> "none"]]
    /\ invoked = [k \in Cmds |-> 0]
    /\ heard = [a \in Clients |-> [k \in Cmds |-> {}]]

----------------------------------------------------------------------------
(* Accepting *)

ResendAll(k, i, r, a) ==
    /\ rows[k].inst = i
    /\ rows[k].request = r
    /\ items' = [items EXCEPT ![k] = [state |-> rows[k].state, inst |-> i, request |-> r,
                                      client |-> a, restored |-> TRUE]]
    /\ toBridge' = toBridge \cup {[conn |-> routes[i], cmd |-> k]}
    /\ UNCHANGED <<rows, heard>>

\* `acceptCommand` of an id that is in the table, with the same request for the same
\* instance: the row is copied, and a result that is there is sent at once.
AcceptKnown(k, i, r, a) ==
    /\ rows[k].inst = i
    /\ rows[k].request = r
    /\ items' = [items EXCEPT ![k] = [state |-> rows[k].state, inst |-> i, request |-> r,
                                      client |-> a, restored |-> TRUE]]
    /\ heard' = IF a # None /\ rows[k].state \in Outcomes
                THEN [heard EXCEPT ![a][k] = @ \cup {rows[k].state}] ELSE heard
    /\ UNCHANGED <<rows, toBridge>>

\* ... of an id that is new: only now it is sent to the bridge.
AcceptNew(k, i, r, a) ==
    /\ rows[k] = NoRow
    /\ rows' = [rows EXCEPT ![k] = [state |-> "accepted", inst |-> i, request |-> r]]
    /\ items' = [items EXCEPT ![k] = [state |-> "accepted", inst |-> i, request |-> r,
                                      client |-> a, restored |-> FALSE]]
    /\ toBridge' = toBridge \cup {[conn |-> routes[i], cmd |-> k]}
    /\ UNCHANGED heard

AcceptUnbound(k, i, r, a) ==
    /\ items[k] = NoItem
    /\ CanRoute(i)
    /\ AcceptKnown(k, i, r, a) \/ AcceptNew(k, i, r, a)
    /\ UNCHANGED <<vars, fromBridge, ending, bridgeVars>>

\* `CommandRouter.accept`.  An id that the router knows changes nothing: the reply is
\* "duplicate" or command_conflict.
Accept(k, i, r, a) ==
    /\ items[k] = NoItem
    /\ routes[i] # None
    /\ CanRoute(i)
    /\ AcceptKnown(k, i, r, a) \/ AcceptNew(k, i, r, a)
    /\ UNCHANGED <<vars, fromBridge, ending, bridgeVars>>

RequestAnySession(a, k, p, s, r) ==
    LET i == CurrentInstance(p)
    IN  i # NoInst /\ procState[p] = "live" /\ CanRoute(i) /\ Accept(k, i, r, a)

\* `command.request` of a client, for the session s or for any (None).
Request(a, k, p, s, r) ==
    LET i == CurrentInstance(p)
    IN  /\ i # NoInst
        /\ procState[p] = "live"
        /\ CanRoute(i)
        /\ s \in {None, procSession[p]}
        /\ Accept(k, i, r, a)

\* `routeV2`: a phone's command, with nobody to notify.
RouteV2(k, p, r) ==
    LET i == CurrentInstance(p)
    IN  i # NoInst /\ Accept(k, i, r, None)

----------------------------------------------------------------------------
(* At the bridge *)

\* The sockets by which the daemon hears the running runtime of i.
OpenSockets(i) == {c \in Conns : binding[c] = i /\ session[c] = runtime[i]}

NoAnswer(i, k, o) == UNCHANGED <<fromBridge, ending>>

\* The runtime of i sends an answer, unless the socket has closed at this end already:
\* then the answer is lost, and the daemon will see the close.
Answer(i, k, o) ==
    \/ /\ \E c \in OpenSockets(i) :
             fromBridge' = fromBridge \cup {[conn |-> c, cmd |-> k, outcome |-> o]}
       /\ UNCHANGED ending
    \/ /\ ending' = ending \cup OpenSockets(i)
       /\ UNCHANGED fromBridge

\* `handle`: a command arrives over a socket.  An ended runtime executes nothing and cannot
\* answer; the running one answers again what it remembers, rejects, or executes.
Handle(f) ==
    LET i == binding[f.conn]
        k == f.cmd
    IN  /\ f \in toBridge
        /\ toBridge' = toBridge \ {f}
        /\ \/ /\ session[f.conn] # runtime[i]
              /\ UNCHANGED <<fromBridge, ending, work, invoked>>
           \/ /\ session[f.conn] = runtime[i]
              /\ cache[i][k] # "none"
              /\ Answer(i, k, cache[i][k])
              /\ UNCHANGED <<work, invoked>>
           \/ /\ session[f.conn] = runtime[i]
              /\ cache[i][k] = "none"
              /\ Answer(i, k, "rejected")
              /\ UNCHANGED <<work, invoked>>
           \/ /\ session[f.conn] = runtime[i]
              /\ cache[i][k] = "none"
              /\ work' = [work EXCEPT ![i] = @ \cup {k}]
              /\ invoked' = [invoked EXCEPT ![k] = @ + 1]
              /\ UNCHANGED <<fromBridge, ending>>
        /\ UNCHANGED <<vars, rows, items, heard, cache>>

\* The rest of `handle`, once Pi has done what the command says.
Finish(i, k, o) ==
    /\ k \in work[i]
    /\ work' = [work EXCEPT ![i] = @ \ {k}]
    /\ cache' = [cache EXCEPT ![i][k] = o]
    /\ Answer(i, k, o)
    /\ UNCHANGED <<vars, rows, items, heard, toBridge, invoked>>

----------------------------------------------------------------------------
(* Answers at the daemon *)

CompletesLoose(k, o) == TRUE

\* `completeCommand` takes a result for a row that has none, or the same again.
Completes(k, o) == rows[k].state \in {"accepted", o}

\* `ack` (of a rejection) and `complete`.  An answer to a command that the router does not
\* know, or knows as another instance's, or that has another result by now is an error,
\* which closes the socket.
Receive(f) ==
    LET k == f.cmd
        o == f.outcome
    IN  /\ f \in fromBridge
        /\ fromBridge' = fromBridge \ {f}
        /\ IF items[k] # NoItem /\ items[k].inst = binding[f.conn] /\ Completes(k, o)
           THEN /\ rows' = [rows EXCEPT ![k].state = o]
                /\ items' = [items EXCEPT ![k].state = o]
                /\ heard' = IF items[k].client = None THEN heard
                            ELSE [heard EXCEPT ![items[k].client][k] = @ \cup {o}]
                /\ UNCHANGED ending
           ELSE /\ ending' = ending \cup {f.conn}
                /\ UNCHANGED <<rows, items, heard>>
        /\ UNCHANGED <<vars, toBridge, bridgeVars>>

----------------------------------------------------------------------------
(* Sockets and the daemon's life *)

Lost(i) == {k \in Cmds : rows[k].inst = i /\ rows[k].state = "accepted"}

DroppedAll(i) == {k \in Cmds : items[k].inst = i}

DroppedNone(i) == {}

\* The items that `disconnect` fails.
Dropped(i) == {k \in Cmds : items[k].inst = i /\ items[k].state = "accepted"}

NoneLost(i) == rows

\* `failCommandsForInstance`.
RowsFailed(i) == [k \in Cmds |-> IF k \in Lost(i) THEN [rows[k] EXCEPT !.state = "disconnected"] ELSE rows[k]]

OnOther(c, frames) == {f \in frames : f.conn # c}

\* The "close" of a bridge's socket, with `CommandRouter.disconnect`.
CloseBridge(c) ==
    /\ Close(c)
    /\ LET i == binding[c]
       IN  /\ rows' = RowsFailed(i)
           /\ items' = [k \in Cmds |-> IF k \in Dropped(i) THEN [items[k] EXCEPT !.state = "disconnected"]
                                       ELSE items[k]]
           /\ heard' = [a \in Clients |-> [k \in Cmds |->
                  IF k \in Dropped(i) /\ items[k].client = a THEN heard[a][k] \cup {"disconnected"}
                  ELSE heard[a][k]]]
    /\ toBridge' = OnOther(c, toBridge)
    /\ fromBridge' = OnOther(c, fromBridge)
    /\ ending' = ending \ {c}
    /\ UNCHANGED bridgeVars

\* A registration.  A new runtime knows nothing of the commands of the old one.
RegisterBridge(c, i, s) ==
    /\ s \in Runtimes[i]
    /\ Register(c, i, s)
    /\ work' = IF runtime[i] = s THEN work ELSE [work EXCEPT ![i] = {}]
    /\ cache' = IF runtime[i] = s THEN cache ELSE [cache EXCEPT ![i] = [k \in Cmds |-> "none"]]
    /\ UNCHANGED <<rows, items, heard, wireVars, invoked>>

RestartDaemon ==
    /\ Restart
    /\ items' = [k \in Cmds |-> NoItem]
    /\ toBridge' = {}
    /\ fromBridge' = {}
    /\ ending' = {}
    /\ UNCHANGED <<rows, heard, bridgeVars>>

\* What the control plane does besides.
Otherwise ==
    /\ \/ \E c \in Conns : Heartbeat(c)
       \/ \E i \in Insts : missed[i] < MaxMissed /\ Miss(i)
       \/ Sweep
    /\ UNCHANGED commandVars

----------------------------------------------------------------------------
PathInit == ControlInit /\ CommandInit

Commanded == [conn : Conns, cmd : Cmds]
Answered == [conn : Conns, cmd : Cmds, outcome : Answers \cup {"rejected"}]

PathNext ==
    \/ \E a \in Clients, k \in Cmds, p \in Procs, s \in Sessions \cup {None}, r \in Requests : Request(a, k, p, s, r)
    \/ \E k \in Cmds, p \in Procs, r \in Requests : RouteV2(k, p, r)
    \/ \E f \in Commanded : Handle(f)
    \/ \E i \in Insts, k \in Cmds, o \in Answers : Finish(i, k, o)
    \/ \E f \in Answered : Receive(f)
    \/ \E c \in Conns : CloseBridge(c)
    \/ \E c \in Conns, i \in Insts, s \in Sessions : RegisterBridge(c, i, s)
    \/ RestartDaemon
    \/ Otherwise

\* The runtime of a socket has ended: `shutdown` closes it.
Abandoned(c) == binding[c] # NoInst /\ session[c] # runtime[binding[c]]

\* Frames and closes arrive, for bridge and daemon share a machine, shutdown closes its
\* socket, and what Pi is asked to do ends (which the extension takes for granted).
PathFairness ==
    /\ \A f \in Commanded : WF_pathVars(Handle(f))
    /\ \A f \in Answered : WF_pathVars(Receive(f))
    /\ \A i \in Insts, k \in Cmds : WF_pathVars(\E o \in Answers : Finish(i, k, o))
    /\ \A c \in Conns : WF_pathVars(c \in ending /\ CloseBridge(c)) /\ WF_pathVars(Abandoned(c) /\ CloseBridge(c))

PathSpec == PathInit /\ [][PathNext]_pathVars /\ PathFairness

----------------------------------------------------------------------------
(* Properties *)

\* Type invariant.
PathTypeOK ==
    /\ TypeOK
    /\ rows \in [Cmds -> [state : {"accepted"} \cup Outcomes, inst : Insts, request : Requests] \cup {NoRow}]
    /\ items \in [Cmds -> [state : {"accepted"} \cup Outcomes, inst : Insts, request : Requests,
                           client : Clients \cup {None}, restored : BOOLEAN] \cup {NoItem}]
    /\ toBridge \subseteq Commanded
    /\ fromBridge \subseteq Answered
    /\ ending \subseteq Conns
    /\ work \in [Insts -> SUBSET Cmds]
    /\ cache \in [Insts -> [Cmds -> Answers \cup {"none"}]]
    /\ invoked \in [Cmds -> Nat]
    /\ heard \in [Clients -> [Cmds -> SUBSET Outcomes]]

\* A command is executed once at most, however often it is sent, and although the daemon
\* restarts, bridges reconnect, and instances of the process replace each other.
InvokedOnce == \A k \in Cmds : invoked[k] <= 1

\* The two copies of a command agree, although a disconnect fails the one by instance in
\* a query and the other by key in a loop.
CopiesAgree ==
    \A k \in Cmds : items[k] # NoItem =>
        /\ rows[k].state = items[k].state
        /\ rows[k].inst = items[k].inst
        /\ rows[k].request = items[k].request

\* Whatever a client was told of a command, early or late, is what the table says.
HeardAgrees == \A a \in Clients, k \in Cmds : heard[a][k] \subseteq {rows[k].state}

\* While a command is open in the router, a socket of its instance is: when the last one
\* closes it has failed.
OpenHasBridge ==
    \A k \in Cmds : items[k].state = "accepted" => \E c \in Conns : binding[c] = items[k].inst

\* The table of commands is the reference CommandLedger: an id keeps its request for ever
\* and gets one result, whoever gives it.
Ledger == INSTANCE CommandLedger
            WITH Commands <- Cmds, Unknown <- None,
                 Requests <- [inst : Insts, request : Requests],
                 commands <- [k \in Cmds |->
                     IF rows[k] = NoRow THEN None
                     ELSE [request |-> [inst |-> rows[k].inst, request |-> rows[k].request],
                           outcome |-> IF rows[k].state = "accepted" THEN None ELSE rows[k].state]]

ImplementsCommandLedger == Ledger!LedgerSpec

\* A command for a session goes to the socket of that session, as long as a single
\* instance of the process is live.  (The frame names no session: nobody checks again.)
ReachesSession ==
    [][\A a \in Clients, k \in Cmds, p \in Procs, s \in Sessions, r \in Requests :
          /\ Request(a, k, p, s, r)
          /\ Cardinality({i \in Insts : ProcOf[i] = p /\ instState[i] = "live"}) = 1
          => \A f \in toBridge' \ toBridge : session[f.conn] = s]_pathVars

\* A command that was sent to a bridge gets a result: an answer, or the notice that the
\* bridge is gone.  Only a restart of the daemon, which forgets it, is an excuse.
SentIsAnswered ==
    \A k \in Cmds : items[k].state = "accepted" /\ ~items[k].restored ~> items[k].state # "accepted"
=============================================================================

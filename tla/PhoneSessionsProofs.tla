------------------------- MODULE PhoneSessionsProofs -------------------------
(***************************************************************************)
(* A token has to do with one process only, a phone hears all of it, and   *)
(* spawned sessions are remembered, for any number of processes, phones,   *)
(* tokens, events and pids, and any number of restarts of the daemon.      *)
(***************************************************************************)
EXTENDS PhoneSessions, NumberSetsProofs, SequenceTheorems

----------------------------------------------------------------------------
(* The inductive invariant *)

\* What is in memory is on the disk.
MemorySaved == \A t \in Tokens : memory[t] # NoProcess => disk[t] = memory[t]

\* Phones that are bound, and their handlers, are so to the process on the disk.
BoundAsSaved ==
    \A w \in Phones :
        /\ sock[w] \in {"open", "closing"} /\ clients[w] # NoProcess => clients[w] = disk[token[w]]
        /\ handler[w] # NoProcess => sock[w] \in {"open", "closing"} /\ handler[w] = disk[token[w]]
        /\ sock[w] = "none" => clients[w] = NoProcess

ServedAsSaved == \A t \in Tokens : \A p \in served[t] : p = disk[t]

PhoneInv ==
    /\ StateTypes
    /\ MemorySaved
    /\ BoundAsSaved
    /\ ServedAsSaved
    /\ SessionsRemembered

\* A token that has a process keeps it.
DiskKept == \A t \in Tokens : disk[t] # NoProcess => disk'[t] = disk[t]

----------------------------------------------------------------------------
(* What actions share *)

LEMMA LiveWithoutTypes ==
  ASSUME StateTypes, NEW p
  PROVE  LiveWithout(p) \in Seq(known)
<1> DEFINE k == CHOOSE k \in DOMAIN live : live[k] = p
<1>1. live \in Seq(known)
  BY DEF StateTypes
<1>2. CASE p \in Range(live)
  <2>1. k \in DOMAIN live
    BY <1>2 DEF Range
  <2>2. k \in 1 .. Len(live) /\ Len(live) \in Nat
    BY <1>1, <2>1, LenProperties
  <2> HIDE DEF k
  <2>3. \A i \in 1 .. Len(live) : live[i] \in known
    BY <1>1, ElementOfSeq
  <2>4. SubSeq(live, 1, k - 1) \in Seq(known)
    <3>1. \A i \in 1 .. (k - 1) : live[i] \in known
      BY <2>2, <2>3
    <3>2. 1 \in Int /\ k - 1 \in Int
      BY <2>2
    <3> QED BY <3>1, <3>2, SubSeqProperties
  <2>5. SubSeq(live, k + 1, Len(live)) \in Seq(known)
    <3>1. \A i \in (k + 1) .. Len(live) : live[i] \in known
      BY <2>2, <2>3
    <3>2. k + 1 \in Int /\ Len(live) \in Int
      BY <2>2
    <3> QED BY <3>1, <3>2, SubSeqProperties
  <2>6. RemoveAt(live, k) \in Seq(known)
    BY <2>4, <2>5, ConcatProperties DEF RemoveAt
  <2> QED BY <1>2, <2>6 DEF LiveWithout, k
<1>3. CASE p \notin Range(live)
  BY <1>1, <1>3 DEF LiveWithout
<1> QED BY <1>2, <1>3

LEMMA LiveKnown ==
  ASSUME StateTypes
  PROVE  /\ Range(live) \subseteq Processes
         /\ live # <<>> => Head(live) \in Processes
<1>1. live \in Seq(known) /\ known \subseteq Processes
  BY DEF StateTypes
<1>2. \A i \in DOMAIN live : live[i] \in known
  BY <1>1, ElementOfSeq, LenProperties
<1>3. live # <<>> => Head(live) \in known
  BY <1>1, HeadTailProperties
<1> QED BY <1>1, <1>2, <1>3 DEF Range

\* A token with a process, and one that can get one, has that process on the disk.
LEMMA TargetSaved ==
  ASSUME StateTypes, MemorySaved, NEW ts \in SUBSET Tokens, BindLegacy(ts),
         \A t \in ts : Bindable(t)
  PROVE  /\ DiskKept
         /\ memory' \in [Tokens -> Processes \cup {NoProcess}]
         /\ disk' \in [Tokens -> Processes \cup {NoProcess}]
         /\ MemorySaved'
         /\ \A t \in ts : TargetOf(t) \in Processes /\ disk'[t] = TargetOf(t)
<1> USE DEF StateTypes, Assigned
<1> DEFINE fresh == {u \in ts : Assigned(u) = NoProcess}
<1>1. NoProcess \notin Processes
  BY PhoneAssumption
<1>2. /\ memory' = [t \in Tokens |-> IF t \in fresh THEN Head(live) ELSE memory[t]]
      /\ disk' = [t \in Tokens |-> IF t \in fresh /\ disk[t] = NoProcess THEN Head(live) ELSE disk[t]]
  BY DEF BindLegacy, SaveAssignments
<1>3. \A t \in fresh : Head(live) \in Processes
  BY LiveKnown DEF Bindable
<1>4. \A t \in ts : TargetOf(t) \in Processes /\ disk'[t] = TargetOf(t)
  BY <1>1, <1>2, <1>3 DEF TargetOf, MemorySaved
<1>5. MemorySaved'
  BY <1>1, <1>2, <1>3 DEF MemorySaved
<1>6. DiskKept
  BY <1>2 DEF DiskKept
<1> QED BY <1>2, <1>3, <1>4, <1>5, <1>6

\* A step that changes no assignment and binds no phone.
LEMMA ServedKept ==
  ASSUME PhoneInv, DiskKept, served' = served
  PROVE  ServedAsSaved'
<1>1. \A t \in Tokens : \A p \in served[t] : p # NoProcess
  BY PhoneAssumption DEF PhoneInv, StateTypes
<1> QED BY <1>1 DEF PhoneInv, ServedAsSaved, DiskKept

\* The phones ws get their processes; token' is what they came with, and `others` stay as
\* they are.
LEMMA WelcomeBinds ==
  ASSUME PhoneInv, NEW ws \in SUBSET Phones, NEW ts \in SUBSET Tokens,
         Welcome(ws), BindLegacy(ts),
         sock' \in [Phones -> {"none", "open", "closing", "leaked"}],
         token' \in [Phones -> Tokens],
         \A t \in ts : Bindable(t),
         \A w \in ws : token'[w] \in ts /\ sock'[w] \in {"open", "closing"},
         \A w \in Phones \ ws : sock'[w] = sock[w] /\ token'[w] = token[w]
  PROVE  /\ DiskKept
         /\ memory' \in [Tokens -> Processes \cup {NoProcess}]
         /\ disk' \in [Tokens -> Processes \cup {NoProcess}]
         /\ clients' \in [Phones -> Processes \cup {NoProcess}]
         /\ served' \in [Tokens -> SUBSET Processes]
         /\ \A w \in Phones : clients'[w] = IF w \in ws THEN disk'[token'[w]] ELSE clients[w]
         /\ \A t \in ts : disk'[t] = TargetOf(t)
         /\ MemorySaved'
         /\ ServedAsSaved'
<1>1. StateTypes /\ MemorySaved /\ ServedAsSaved
  BY DEF PhoneInv
<1>2. /\ DiskKept
      /\ memory' \in [Tokens -> Processes \cup {NoProcess}]
      /\ disk' \in [Tokens -> Processes \cup {NoProcess}]
      /\ MemorySaved'
      /\ \A t \in ts : TargetOf(t) \in Processes /\ disk'[t] = TargetOf(t)
  BY <1>1, TargetSaved
<1>3. clients' = [w \in Phones |-> IF w \in ws THEN TargetOf(token'[w]) ELSE clients[w]]
  BY DEF Welcome
<1>4. served' = [t \in Tokens |-> IF \E w \in ws : token'[w] = t
                                  THEN served[t] \cup {TargetOf(t)} ELSE served[t]]
  BY DEF Welcome
<1>5. clients \in [Phones -> Processes \cup {NoProcess}] /\ served \in [Tokens -> SUBSET Processes]
  BY <1>1 DEF StateTypes
<1>6. clients' \in [Phones -> Processes \cup {NoProcess}]
  BY <1>2, <1>3, <1>5
<1>7. \A w \in Phones : clients'[w] = IF w \in ws THEN disk'[token'[w]] ELSE clients[w]
  BY <1>2, <1>3
<1>8. served' \in [Tokens -> SUBSET Processes]
  BY <1>2, <1>4, <1>5
<1>9. ASSUME NEW t \in Tokens, NEW p \in served'[t] PROVE p = disk'[t]
  <2>1. CASE \E w \in ws : token'[w] = t
    <3>1. t \in ts /\ disk'[t] = TargetOf(t)
      BY <1>2, <2>1
    <3>2. p \in served[t] \/ p = TargetOf(t)
      BY <1>4, <1>9, <2>1
    <3>3. p \in served[t] => p = disk[t] /\ p # NoProcess
      BY <1>1, <1>5, PhoneAssumption DEF ServedAsSaved
    <3> QED BY <1>2, <3>1, <3>2, <3>3 DEF DiskKept
  <2>2. CASE ~ \E w \in ws : token'[w] = t
    <3>1. p \in served[t]
      BY <1>4, <1>9, <2>2
    <3>2. p = disk[t] /\ p # NoProcess
      BY <1>1, <1>5, <3>1, PhoneAssumption DEF ServedAsSaved
    <3> QED BY <1>2, <3>2 DEF DiskKept
  <2> QED BY <2>1, <2>2
<1>10. ServedAsSaved'
  BY <1>9 DEF ServedAsSaved
<1> QED BY <1>2, <1>6, <1>7, <1>8, <1>10

----------------------------------------------------------------------------
(* Initial states and steps *)

LEMMA PhoneInit == Init => PhoneInv
<1> SUFFICES ASSUME Init PROVE PhoneInv
  OBVIOUS
<1>1. Legacy \in Tokens
  BY PhoneAssumption
<1>2. StateTypes
  <2>1. live \in Seq(known)
    BY EmptySeq DEF Init
  <2> QED BY <1>1, <2>1 DEF Init, StateTypes
<1>3. MemorySaved /\ BoundAsSaved /\ ServedAsSaved /\ SessionsRemembered
  BY DEF Init, MemorySaved, BoundAsSaved, ServedAsSaved, SessionsRemembered
<1> QED BY <1>2, <1>3 DEF PhoneInv

\* Steps of producers.
LEMMA ProducerSteps ==
  ASSUME PhoneInv, NEW p \in Processes, Registers(p) \/ GoesAway(p) \/ Commits(p) \/ Retain(p)
  PROVE  PhoneInv'
<1>1. StateTypes /\ live \in Seq(known)
  BY DEF PhoneInv, StateTypes
<1>2. UNCHANGED <<memory, disk, enabled, accepted, sock, token, clients, pending, handler, spawnVars>>
  BY DEF Registers, GoesAway, Commits, Retain, assignVars, phoneVars
<1>3. MemorySaved' /\ BoundAsSaved' /\ DiskKept
  BY <1>2 DEF PhoneInv, MemorySaved, BoundAsSaved, DiskKept
<1>4. SessionsRemembered'
  BY <1>2 DEF PhoneInv, SessionsRemembered, Listed, spawnVars
<1>5. /\ known' \subseteq Processes /\ live' \in Seq(known')
      /\ count' \in [Processes -> Nat] /\ rows' \in [Processes -> SUBSET Nat]
      /\ \A q \in Processes : rows'[q] \subseteq 1 .. count'[q]
  <2>1. CASE Registers(p)
    <3>1. LiveWithout(p) \in Seq(known \cup {p})
      BY <1>1, LiveWithoutTypes, SeqMonotonic, known \subseteq known \cup {p}
    <3>2. Append(LiveWithout(p), p) \in Seq(known \cup {p})
      BY <3>1, AppendProperties
    <3> QED BY <1>1, <2>1, <3>2 DEF Registers, StateTypes
  <2>2. CASE GoesAway(p)
    BY <1>1, <2>2, LiveWithoutTypes DEF GoesAway, StateTypes
  <2>3. CASE Commits(p)
    BY <1>1, <2>3 DEF Commits, StateTypes
  <2>4. CASE Retain(p)
    BY <1>1, <2>4 DEF Retain, StateTypes
  <2> QED BY <2>1, <2>2, <2>3, <2>4
<1>6. served' \in [Tokens -> SUBSET Processes] /\ ServedAsSaved'
  <2>1. CASE served' = served
    BY <1>1, <1>3, <2>1, ServedKept DEF StateTypes
  <2>2. CASE Commits(p)
    <3>1. served' = [t \in Tokens |-> IF \E w \in Listening(p) : token[w] = t
                                      THEN served[t] \cup {p} ELSE served[t]]
      BY <2>2 DEF Commits
    <3>2. ASSUME NEW t \in Tokens, NEW w \in Listening(p), token[w] = t PROVE p = disk[t]
      BY <3>2, PhoneAssumption DEF Listening, PhoneInv, BoundAsSaved
    <3>3. ServedAsSaved'
      BY <1>2, <3>1, <3>2 DEF PhoneInv, ServedAsSaved
    <3> QED BY <1>1, <3>1, <3>3 DEF StateTypes
  <2> QED BY <2>1, <2>2 DEF Registers, GoesAway, Retain
<1>7. StateTypes'
  BY <1>1, <1>2, <1>5, <1>6 DEF StateTypes, spawnVars
<1> QED BY <1>3, <1>4, <1>6, <1>7 DEF PhoneInv

\* Administration.
LEMMA AdminSteps ==
  ASSUME PhoneInv,
         (\E p \in Processes, t \in Tokens : Pair(p, t)) \/ Rotate \/ Disable \/ Enable
  PROVE  PhoneInv'
<1>1. StateTypes
  BY DEF PhoneInv
<1>2. CASE \E p \in Processes, t \in Tokens : Pair(p, t)
  <2>1. PICK p \in Processes, t \in Tokens : Pair(p, t)
    BY <1>2
  <2>2. disk[t] = NoProcess /\ disk' = [disk EXCEPT ![t] = p] /\ memory' = [memory EXCEPT ![t] = p]
    BY <1>1, <2>1 DEF Pair, SaveAssignments, StateTypes
  <2>3. /\ UNCHANGED <<known, live, count, rows, enabled, sock, token, clients, pending, handler, spawnVars, served>>
        /\ accepted' = accepted \cup {t}
    BY <2>1 DEF Pair, producerVars, phoneVars
  <2>4. StateTypes'
    BY <1>1, <2>2, <2>3 DEF StateTypes, spawnVars
  <2>5. MemorySaved' /\ DiskKept
    BY <1>1, <2>2 DEF PhoneInv, MemorySaved, DiskKept, StateTypes
  <2>6. BoundAsSaved'
    BY <1>1, <2>3, <2>5 DEF PhoneInv, BoundAsSaved, DiskKept, StateTypes
  <2>7. SessionsRemembered'
    BY <2>3 DEF PhoneInv, SessionsRemembered, Listed, spawnVars
  <2> QED BY <2>3, <2>4, <2>5, <2>6, <2>7, ServedKept DEF PhoneInv
<1>3. CASE Rotate \/ Disable \/ Enable
  <2>1. /\ UNCHANGED <<known, live, count, rows, memory, disk, token, clients, pending, handler, spawnVars, served>>
        /\ accepted' \subseteq accepted /\ enabled' \in BOOLEAN
        /\ sock' = sock \/ \E ws \in SUBSET Phones : CloseSockets(ws)
    BY <1>1, <1>3 DEF Rotate, Disable, Enable, producerVars, assignVars, phoneVars, StateTypes
  <2>2. /\ sock' \in [Phones -> {"none", "open", "closing", "leaked"}]
        /\ \A w \in Phones : /\ sock'[w] \in {"open", "closing"} <=> sock[w] \in {"open", "closing"}
                             /\ sock'[w] = "none" <=> sock[w] = "none"
    BY <1>1, <2>1 DEF CloseSockets, StateTypes
  <2>3. StateTypes'
    BY <1>1, <2>1, <2>2 DEF StateTypes, spawnVars
  <2>4. MemorySaved' /\ DiskKept /\ BoundAsSaved'
    BY <1>1, <2>1, <2>2 DEF PhoneInv, MemorySaved, DiskKept, BoundAsSaved, StateTypes
  <2>5. SessionsRemembered'
    BY <2>1 DEF PhoneInv, SessionsRemembered, Listed, spawnVars
  <2> QED BY <2>1, <2>3, <2>4, <2>5, ServedKept DEF PhoneInv
<1> QED BY <1>2, <1>3

\* Steps of phones, and the timer that binds those that wait.
LEMMA PhoneSteps ==
  ASSUME PhoneInv,
         \/ \E w \in Phones, t \in Tokens : ConnectBound(w, t) \/ ConnectPending(w, t)
         \/ TryBindPending
         \/ \E w \in Phones : Command(w) \/ BadMessage(w) \/ CloseEvent(w)
  PROVE  PhoneInv'
<1>1. StateTypes
  BY DEF PhoneInv
<1>2. UNCHANGED <<known, live, count, rows, enabled, accepted, spawnVars>>
  BY DEF ConnectBound, ConnectPending, TryBindPending, Command, BadMessage, CloseEvent, producerVars, assignVars, phoneVars
<1>3. SessionsRemembered'
  BY <1>2 DEF PhoneInv, SessionsRemembered, Listed, spawnVars
<1>4. ASSUME NEW w \in Phones, NEW t \in Tokens, ConnectBound(w, t) PROVE PhoneInv'
  <2>1. /\ sock[w] = "none" /\ handler[w] = NoProcess /\ clients[w] = NoProcess /\ w \notin pending
        /\ sock' = [sock EXCEPT ![w] = "open"] /\ token' = [token EXCEPT ![w] = t]
        /\ handler' = [handler EXCEPT ![w] = TargetOf(t)] /\ pending' = pending
        /\ Bindable(t) /\ BindLegacy({t}) /\ Welcome({w})
    BY <1>1, <1>4 DEF ConnectBound, Upgrade, PhoneInv, BoundAsSaved, StateTypes
  <2>2. /\ sock' \in [Phones -> {"none", "open", "closing", "leaked"}] /\ token' \in [Phones -> Tokens]
        /\ token'[w] = t /\ sock'[w] = "open"
        /\ \A v \in Phones \ {w} : sock'[v] = sock[v] /\ token'[v] = token[v]
    BY <1>1, <2>1 DEF StateTypes
  <2>3. /\ DiskKept
        /\ memory' \in [Tokens -> Processes \cup {NoProcess}]
        /\ disk' \in [Tokens -> Processes \cup {NoProcess}]
        /\ clients' \in [Phones -> Processes \cup {NoProcess}]
        /\ served' \in [Tokens -> SUBSET Processes]
        /\ \A v \in Phones : clients'[v] = IF v \in {w} THEN disk'[token'[v]] ELSE clients[v]
        /\ \A u \in {t} : disk'[u] = TargetOf(u)
        /\ MemorySaved'
        /\ ServedAsSaved'
    <3>1. /\ {w} \in SUBSET Phones /\ {t} \in SUBSET Tokens
          /\ \A u \in {t} : Bindable(u)
          /\ \A v \in {w} : token'[v] \in {t} /\ sock'[v] \in {"open", "closing"}
      BY <2>1, <2>2
    <3> QED BY <2>1, <2>2, <3>1, WelcomeBinds
  <2>4. handler' \in [Phones -> Processes \cup {NoProcess}]
    BY <1>1, <2>1, <2>3 DEF StateTypes
  <2>5. StateTypes'
    BY <1>1, <1>2, <2>1, <2>2, <2>3, <2>4 DEF StateTypes, spawnVars
  <2>6. BoundAsSaved'
    BY <1>1, <2>1, <2>2, <2>3 DEF PhoneInv, BoundAsSaved, DiskKept, StateTypes
  <2> QED BY <1>3, <2>3, <2>5, <2>6 DEF PhoneInv
<1>5. ASSUME NEW w \in Phones, NEW t \in Tokens, ConnectPending(w, t) PROVE PhoneInv'
  <2>1. /\ sock[w] = "none" /\ handler[w] = NoProcess /\ clients[w] = NoProcess
        /\ sock' = [sock EXCEPT ![w] = "open"] /\ token' = [token EXCEPT ![w] = t]
        /\ pending' = pending \cup {w}
        /\ UNCHANGED <<memory, disk, clients, handler, served>>
    BY <1>1, <1>5 DEF ConnectPending, Upgrade, PhoneInv, BoundAsSaved, assignVars
  <2>2. StateTypes'
    BY <1>1, <1>2, <2>1 DEF StateTypes, spawnVars
  <2>3. MemorySaved' /\ DiskKept /\ BoundAsSaved'
    BY <1>1, <2>1 DEF PhoneInv, MemorySaved, DiskKept, BoundAsSaved, StateTypes
  <2> QED BY <1>3, <2>1, <2>2, <2>3, ServedKept DEF PhoneInv
<1>6. CASE TryBindPending
  <2> DEFINE ts == {token[w] : w \in Ready}
  <2>1. /\ pending' = pending \ Ready /\ UNCHANGED <<sock, token, handler>>
        /\ Ready \subseteq pending
        /\ BindLegacy(ts) /\ Welcome(Ready) /\ \A t \in ts : Bindable(t)
    BY <1>6 DEF TryBindPending, Ready
  <2>2. /\ Ready \in SUBSET Phones /\ ts \in SUBSET Tokens
        /\ \A w \in Ready : token'[w] \in ts /\ sock'[w] \in {"open", "closing"} /\ clients[w] = NoProcess
    BY <1>1, <2>1 DEF StateTypes
  <2> HIDE DEF ts
  <2>3. /\ DiskKept
        /\ memory' \in [Tokens -> Processes \cup {NoProcess}]
        /\ disk' \in [Tokens -> Processes \cup {NoProcess}]
        /\ clients' \in [Phones -> Processes \cup {NoProcess}]
        /\ served' \in [Tokens -> SUBSET Processes]
        /\ \A v \in Phones : clients'[v] = IF v \in Ready THEN disk'[token'[v]] ELSE clients[v]
        /\ MemorySaved'
        /\ ServedAsSaved'
    <3>1. sock' \in [Phones -> {"none", "open", "closing", "leaked"}] /\ token' \in [Phones -> Tokens]
      BY <1>1, <2>1 DEF StateTypes
    <3> QED BY <2>1, <2>2, <3>1, WelcomeBinds
  <2>4. StateTypes'
    BY <1>1, <1>2, <2>1, <2>2, <2>3 DEF StateTypes, spawnVars
  <2>5. BoundAsSaved'
    BY <1>1, <2>1, <2>2, <2>3 DEF PhoneInv, BoundAsSaved, DiskKept, StateTypes
  <2> QED BY <1>3, <2>3, <2>4, <2>5 DEF PhoneInv
<1>7. ASSUME NEW w \in Phones, Command(w) PROVE PhoneInv'
  <2>1. /\ handler[w] # NoProcess /\ served' = [served EXCEPT ![token[w]] = @ \cup {handler[w]}]
        /\ UNCHANGED <<memory, disk, sock, token, clients, pending, handler>>
    BY <1>7 DEF Command, assignVars, phoneVars
  <2>2. handler[w] = disk[token[w]] /\ handler[w] \in Processes /\ token[w] \in Tokens
    BY <1>1, <2>1 DEF PhoneInv, BoundAsSaved, StateTypes
  <2>3. StateTypes'
    BY <1>1, <1>2, <2>1, <2>2 DEF StateTypes, spawnVars
  <2>4. MemorySaved' /\ BoundAsSaved' /\ ServedAsSaved'
    BY <1>1, <2>1, <2>2 DEF PhoneInv, MemorySaved, BoundAsSaved, ServedAsSaved, StateTypes
  <2> QED BY <1>3, <2>3, <2>4 DEF PhoneInv
<1>8. ASSUME NEW w \in Phones, BadMessage(w) \/ CloseEvent(w) PROVE PhoneInv'
  <2>1. UNCHANGED <<memory, disk, served>>
    BY <1>8 DEF BadMessage, CloseEvent, assignVars
  <2>2. StateTypes'
    <3>1. CASE BadMessage(w)
      BY <1>1, <1>2, <2>1, <3>1 DEF BadMessage, CloseSockets, StateTypes, spawnVars
    <3>2. CASE CloseEvent(w)
      BY <1>1, <1>2, <2>1, <3>2, PhoneAssumption DEF CloseEvent, StateTypes, spawnVars
    <3> QED BY <1>8, <3>1, <3>2
  <2>3. BoundAsSaved'
    <3>1. CASE BadMessage(w)
      BY <1>1, <2>1, <3>1 DEF BadMessage, CloseSockets, PhoneInv, BoundAsSaved, StateTypes
    <3>2. CASE CloseEvent(w)
      BY <1>1, <2>1, <3>2 DEF CloseEvent, PhoneInv, BoundAsSaved, StateTypes
    <3> QED BY <1>8, <3>1, <3>2
  <2>4. MemorySaved' /\ DiskKept
    BY <2>1 DEF PhoneInv, MemorySaved, DiskKept
  <2> QED BY <1>3, <2>1, <2>2, <2>3, <2>4, ServedKept DEF PhoneInv
<1> QED BY <1>4, <1>5, <1>6, <1>7, <1>8

\* What the next daemon starts with, whatever the one before it left in the file.
LEMMA NextDaemonInv ==
  ASSUME PhoneInv, NextDaemon, served' = served, file' \subseteq Pids, lost' \subseteq Pids,
         proc' \in [Pids -> {"none", "session", "closing", "other"}], SessionsRemembered'
  PROVE  PhoneInv'
<1>1. StateTypes
  BY DEF PhoneInv
<1>2. /\ known' = {} /\ live' = <<>> /\ memory' = [t \in Tokens |-> NoProcess] /\ accepted' = {Legacy}
      /\ UNCHANGED <<count, rows, disk, served>>
      /\ enabled' = TRUE /\ children' = {} /\ pending' = {} /\ saved' = TRUE
      /\ spawned' = {pid \in file' : proc'[pid] # "none"}
      /\ sock' = [w \in Phones |-> "none"] /\ token' = [w \in Phones |-> Legacy]
      /\ handler' = [w \in Phones |-> NoProcess] /\ clients' = [w \in Phones |-> NoProcess]
  BY DEF NextDaemon, Starts, Stops
<1>3. StateTypes'
  <2>1. live' \in Seq(known')
    BY <1>2, EmptySeq
  <2>2. /\ spawned' \subseteq Pids /\ (saved' => spawned' \subseteq file')
        /\ saved' \in BOOLEAN /\ children' \subseteq {pid \in Pids : proc'[pid] \in {"session", "closing"}}
    BY <1>2
  <2> QED BY <1>1, <1>2, <2>1, <2>2, PhoneAssumption DEF StateTypes
<1>4. MemorySaved' /\ BoundAsSaved' /\ DiskKept
  BY <1>2 DEF MemorySaved, BoundAsSaved, DiskKept
<1> QED BY <1>2, <1>3, <1>4, ServedKept DEF PhoneInv

\* The daemon that does not get its list written forgets what it says it forgets.
LEMMA DiesPersistingInv ==
  ASSUME PhoneInv, DiesPersisting, served' = served,
         proc' \in [Pids -> {"none", "session", "closing", "other"}]
  PROVE  PhoneInv'
<1>1. /\ NextDaemon /\ lost' = Forgotten'
      /\ file' \in {file, {}}
  BY DEF DiesPersisting
<1>2. file' \subseteq Pids
  BY <1>1 DEF PhoneInv, StateTypes
<1>3. lost' \subseteq Pids /\ SessionsRemembered'
  BY <1>1 DEF Forgotten, SessionsRemembered
<1> QED BY <1>1, <1>2, <1>3, NextDaemonInv

\* Spawned sessions, while the daemon goes on and when it ends.
LEMMA SessionSteps ==
  ASSUME PhoneInv,
         \/ \E pid \in Pids : Spawn(pid) \/ SessionEnds(pid) \/ OtherProcess(pid) \/ CloseSession(pid)
         \/ Restart
  PROVE  PhoneInv'
<1>1. StateTypes
  BY DEF PhoneInv
<1>2. ASSUME NEW pid \in Pids, GoesOn, served' = served,
             Spawn(pid) \/ SessionEnds(pid) \/ OtherProcess(pid) \/ CloseSession(pid),
             ~DiesPersisting
      PROVE  PhoneInv'
  <2>1. UNCHANGED <<known, live, count, rows, memory, disk, enabled, accepted, sock, token, clients, pending, handler, served>>
    BY <1>2 DEF GoesOn, producerVars, assignVars, phoneVars
  <2>2. /\ proc \in [Pids -> {"none", "session", "closing", "other"}]
        /\ spawned \subseteq Pids /\ file \subseteq Pids /\ saved \in BOOLEAN
        /\ saved => spawned \subseteq file
        /\ lost \subseteq Pids
        /\ children \subseteq {i \in Pids : proc[i] \in {"session", "closing"}}
        /\ \A i \in Pids : proc[i] = "session" => i \in Listed \cup lost
    BY <1>1 DEF StateTypes, PhoneInv, SessionsRemembered
  <2>3. ASSUME PersistSpawned, spawned' \subseteq Pids
        PROVE  file' \subseteq Pids /\ saved' \in BOOLEAN /\ (saved' => spawned' \subseteq file')
    BY <2>2, <2>3 DEF PersistSpawned
  <2>4. /\ proc' \in [Pids -> {"none", "session", "closing", "other"}]
        /\ spawned' \subseteq Pids /\ file' \subseteq Pids /\ saved' \in BOOLEAN
        /\ saved' => spawned' \subseteq file'
        /\ lost' \subseteq Pids
        /\ children' \subseteq {i \in Pids : proc'[i] \in {"session", "closing"}}
        /\ SessionsRemembered'
    <3>1. CASE Spawn(pid)
      <4>1. /\ proc' = [proc EXCEPT ![pid] = "session"] /\ PersistSpawned /\ lost' = lost
            /\ spawned' = spawned \cup {pid} /\ children' = children \cup {pid}
        BY <1>2, <3>1 DEF Spawn
      <4>2. SessionsRemembered'
        BY <2>2, <4>1 DEF SessionsRemembered, Listed
      <4> QED BY <2>2, <2>3, <4>1, <4>2
    <3>2. CASE SessionEnds(pid)
      <4>1. /\ proc' = [proc EXCEPT ![pid] = "none"] /\ lost' = lost \ {pid}
            /\ children' = children \ {pid}
            /\ \/ spawned' = spawned \ {pid} /\ PersistSpawned
               \/ UNCHANGED <<spawned, file, saved>>
        BY <1>2, <3>2 DEF SessionEnds
      <4>2. SessionsRemembered'
        BY <2>2, <4>1 DEF SessionsRemembered, Listed
      <4> QED BY <2>2, <2>3, <4>1, <4>2
    <3>3. CASE OtherProcess(pid)
      <4>1. /\ UNCHANGED <<spawned, children, file, saved, lost>>
            /\ \/ proc[pid] = "none" /\ proc' = [proc EXCEPT ![pid] = "other"]
               \/ proc[pid] = "other" /\ proc' = [proc EXCEPT ![pid] = "none"]
        BY <3>3 DEF OtherProcess
      <4>2. SessionsRemembered'
        BY <2>2, <4>1 DEF SessionsRemembered, Listed
      <4> QED BY <2>2, <4>1, <4>2
    <3>4. CASE CloseSession(pid)
      <4>1. /\ proc' = [proc EXCEPT ![pid] = IF @ = "session" THEN "closing" ELSE @]
            /\ spawned' = spawned \ {pid} /\ PersistSpawned /\ UNCHANGED <<children, lost>>
        BY <1>2, <3>4 DEF CloseSession
      <4>2. SessionsRemembered'
        BY <2>2, <4>1 DEF SessionsRemembered, Listed
      <4> QED BY <2>2, <2>3, <4>1, <4>2
    <3> QED BY <1>2, <3>1, <3>2, <3>3, <3>4
  <2>5. StateTypes'
    BY <1>1, <2>1, <2>4 DEF StateTypes
  <2>6. MemorySaved' /\ BoundAsSaved' /\ ServedAsSaved'
    BY <2>1 DEF PhoneInv, MemorySaved, BoundAsSaved, ServedAsSaved
  <2> QED BY <2>4, <2>5, <2>6 DEF PhoneInv
<1>3. ASSUME NEW pid \in Pids, DiesPersisting,
             Spawn(pid) \/ SessionEnds(pid) \/ OtherProcess(pid) \/ CloseSession(pid)
      PROVE  PhoneInv'
  <2>1. proc' \in [Pids -> {"none", "session", "closing", "other"}] /\ served' = served
    BY <1>1, <1>3 DEF Spawn, SessionEnds, OtherProcess, CloseSession, StateTypes
  <2> QED BY <1>3, <2>1, DiesPersistingInv
<1>4. CASE Restart
  <2>1. /\ NextDaemon /\ UNCHANGED <<proc, file, served>> /\ lost' = IF saved THEN lost ELSE Forgotten'
        /\ spawned' = {pid \in file' : proc'[pid] # "none"}
    BY <1>4 DEF Restart, NextDaemon, Starts
  <2>2. proc' \in [Pids -> {"none", "session", "closing", "other"}] /\ file' \subseteq Pids
    BY <1>1, <2>1 DEF StateTypes
  <2>3. lost' \subseteq Pids /\ SessionsRemembered'
    <3>1. CASE saved
      BY <1>1, <2>1, <3>1 DEF PhoneInv, SessionsRemembered, Listed, StateTypes
    <3>2. CASE ~saved
      BY <2>1, <3>2 DEF Forgotten, SessionsRemembered
    <3> QED BY <3>1, <3>2
  <2> QED BY <2>1, <2>2, <2>3, NextDaemonInv
<1>5. ASSUME NEW pid \in Pids, Spawn(pid) \/ SessionEnds(pid) \/ OtherProcess(pid) \/ CloseSession(pid)
      PROVE  PhoneInv'
  <2>1. (GoesOn \/ DiesPersisting) /\ served' = served
    BY <1>5 DEF Spawn, SessionEnds, OtherProcess, CloseSession
  <2> QED BY <1>2, <1>3, <1>5, <2>1
<1> QED BY <1>4, <1>5

LEMMA PhoneInvariant == Spec => []PhoneInv
<1>1. PhoneInv /\ UNCHANGED vars => PhoneInv'
  BY DEF PhoneInv, vars, producerVars, assignVars, phoneVars, spawnVars, StateTypes, MemorySaved, BoundAsSaved,
         ServedAsSaved, SessionsRemembered, Listed
<1>2. PhoneInv /\ Next => PhoneInv'
  BY ProducerSteps, AdminSteps, PhoneSteps, SessionSteps DEF Next
<1> QED BY PhoneInit, <1>1, <1>2, PTL DEF Spec

----------------------------------------------------------------------------
(* What phones hear *)

\* s goes up to c at most, in order, and has all that R retains.
Whole(s, c, R) ==
    /\ \A i, j \in DOMAIN s : i < j => s[i] < s[j]
    /\ \A i \in DOMAIN s : s[i] <= c
    /\ R \subseteq Range(s)

\* A phone without a process has heard nothing, so that its history starts its stream; one
\* with a process has heard no event that is still to come, so that live events continue it.
Hears(w) ==
    /\ clients[w] = NoProcess => heard[w] = <<>>
    /\ sock[w] = "open" /\ clients[w] # NoProcess => Whole(heard[w], count[clients[w]], rows[clients[w]])

HeardInv ==
    /\ heard \in [Phones -> Seq(Nat)]
    /\ \A w \in Phones : Hears(w)

LEMMA WholeAppend ==
  ASSUME NEW s \in Seq(Nat), NEW c \in Nat, NEW R, Whole(s, c, R)
  PROVE  Append(s, c + 1) \in Seq(Nat) /\ Whole(Append(s, c + 1), c + 1, R \cup {c + 1})
<1> DEFINE a == Append(s, c + 1)
<1>1. /\ Len(s) \in Nat /\ DOMAIN s = 1 .. Len(s)
      /\ a \in Seq(Nat) /\ DOMAIN a = 1 .. (Len(s) + 1)
      /\ \A i \in 1 .. Len(s) : a[i] = s[i] /\ s[i] \in Nat
      /\ a[Len(s) + 1] = c + 1
  OBVIOUS
<1> HIDE DEF a
<1>2. \A i \in 1 .. Len(s) : s[i] <= c
  BY <1>1 DEF Whole
<1>3. \A i, j \in 1 .. Len(s) : i < j => s[i] < s[j]
  BY <1>1 DEF Whole
<1>4. \A i \in DOMAIN a : a[i] <= c + 1
  BY <1>1, <1>2
<1>5. ASSUME NEW i \in DOMAIN a, NEW j \in DOMAIN a, i < j PROVE a[i] < a[j]
  <2>1. i \in 1 .. Len(s) /\ i \in Int /\ j \in Int /\ a[i] = s[i] /\ s[i] \in Nat
    BY <1>1, <1>5
  <2>2. CASE j \in 1 .. Len(s)
    BY <1>1, <1>3, <1>5, <2>1, <2>2
  <2>3. CASE j = Len(s) + 1
    BY <1>1, <1>2, <2>1, <2>3
  <2> QED BY <1>1, <2>2, <2>3
<1>6. R \cup {c + 1} \subseteq Range(a)
  <2>1. \A n \in R : \E i \in 1 .. Len(s) : n = s[i]
    BY <1>1 DEF Whole, Range
  <2>2. ASSUME NEW n \in R PROVE \E i \in DOMAIN a : n = a[i]
    <3>1. PICK i \in 1 .. Len(s) : n = s[i]
      BY <2>1
    <3>2. i \in DOMAIN a /\ n = a[i]
      BY <1>1, <3>1
    <3> QED BY <3>2
  <2>3. \E i \in DOMAIN a : c + 1 = a[i]
    <3>1. Len(s) + 1 \in 1 .. (Len(s) + 1)
      BY <1>1
    <3>2. Len(s) + 1 \in DOMAIN a /\ a[Len(s) + 1] = c + 1
      BY <1>1, <3>1
    <3> QED BY <3>2
  <2> QED BY <2>2, <2>3 DEF Range
<1>7. Whole(a, c + 1, R \cup {c + 1})
  BY <1>4, <1>5, <1>6 DEF Whole
<1> QED BY <1>1, <1>7 DEF a

LEMMA WholeHistory ==
  ASSUME NEW c \in Nat, NEW R \in SUBSET (1 .. c)
  PROVE  Ascending(R) \in Seq(Nat) /\ Whole(Ascending(R), c, R)
<1>1. IsFiniteSet(R) /\ R \in SUBSET Int /\ \A n \in R : n \in Nat /\ n <= c
  <2>1. IsFiniteSet(1 .. c)
    BY FS_Interval
  <2>2. IsFiniteSet(R)
    BY <2>1, FS_Subset
  <2>3. \A n \in 1 .. c : n \in Nat /\ n \in Int /\ n <= c
    OBVIOUS
  <2>4. R \subseteq 1 .. c
    OBVIOUS
  <2> QED BY <2>2, <2>3, <2>4
<1> DEFINE a == Ascending(R)
           N == Cardinality(R)
<1>2. /\ N \in Nat /\ a \in [1 .. N -> R]
      /\ \A i, j \in 1 .. N : i < j => a[i] < a[j]
      /\ \A n \in R : \E i \in 1 .. N : a[i] = n
  BY <1>1, AscendingEnumerates
<1> HIDE DEF a, N
<1>3. DOMAIN a = 1 .. N /\ \A i \in 1 .. N : a[i] \in R
  BY <1>2
<1>4. a \in Seq(Nat)
  <2>1. \A i \in 1 .. N : a[i] \in Nat
    BY <1>1, <1>3
  <2>2. a \in [1 .. N -> Nat]
    BY <1>2, <2>1
  <2> QED BY <1>2, <2>2
<1>5. \A i \in DOMAIN a : a[i] <= c
  BY <1>1, <1>3
<1>6. \A i, j \in DOMAIN a : i < j => a[i] < a[j]
  BY <1>2, <1>3
<1>7. R \subseteq Range(a)
  BY <1>2, <1>3 DEF Range
<1>8. Whole(a, c, R)
  BY <1>5, <1>6, <1>7 DEF Whole
<1> QED BY <1>4, <1>8 DEF a

\* Phones to which a step sends nothing.
LEMMA HearsKept ==
  ASSUME StateTypes, NEW w \in Phones, Hears(w),
         heard'[w] = heard[w], clients'[w] = clients[w],
         sock'[w] = "open" => sock[w] = "open" \/ clients[w] = NoProcess,
         count' = count, \A q \in Processes : rows'[q] \subseteq rows[q]
  PROVE  Hears(w)'
<1>1. clients[w] \in Processes \cup {NoProcess}
  BY DEF StateTypes
<1>2. clients'[w] = NoProcess => heard'[w] = <<>>
  BY DEF Hears
<1>3. ASSUME sock'[w] = "open", clients'[w] # NoProcess
      PROVE  Whole(heard'[w], count'[clients'[w]], rows'[clients'[w]])
  <2>1. Whole(heard[w], count[clients[w]], rows[clients[w]])
    BY <1>3 DEF Hears
  <2>2. rows'[clients[w]] \subseteq rows[clients[w]]
    BY <1>1, <1>3
  <2> QED BY <2>1, <2>2 DEF Whole
<1> QED BY <1>2, <1>3 DEF Hears

\* Phones that get their processes have heard nothing before.
LEMMA WelcomeHeard ==
  ASSUME PhoneInv, HeardInv, NEW ws \in SUBSET Phones, NEW ts \in SUBSET Tokens,
         Welcome(ws), BindLegacy(ts), count' = count, rows' = rows,
         \A t \in ts : Bindable(t),
         \A w \in ws : token'[w] \in ts /\ clients[w] = NoProcess,
         \A w \in Phones \ ws : sock'[w] = sock[w]
  PROVE  HeardInv'
<1>1. StateTypes /\ MemorySaved
  BY DEF PhoneInv
<1>2. \A t \in ts : TargetOf(t) \in Processes
  BY <1>1, TargetSaved
<1>3. /\ heard' = [w \in Phones |-> IF w \in ws /\ sock'[w] = "open"
                                    THEN heard[w] \o History(TargetOf(token'[w])) ELSE heard[w]]
      /\ clients' = [w \in Phones |-> IF w \in ws THEN TargetOf(token'[w]) ELSE clients[w]]
  BY DEF Welcome
<1>4. \A w \in ws : heard[w] = <<>>
  BY DEF HeardInv, Hears
<1>5. ASSUME NEW w \in ws PROVE heard'[w] \in Seq(Nat) /\ Hears(w)'
  <2> DEFINE p == TargetOf(token'[w])
  <2>1. p \in Processes /\ p # NoProcess /\ clients'[w] = p
    BY <1>2, <1>3, PhoneAssumption
  <2>2. count[p] \in Nat /\ rows[p] \in SUBSET (1 .. count[p])
    BY <1>1, <2>1 DEF StateTypes
  <2>3. History(p) \in Seq(Nat) /\ Whole(History(p), count[p], rows[p])
    BY <2>2, WholeHistory DEF History
  <2>4. CASE sock'[w] = "open"
    <3>1. heard'[w] = <<>> \o History(p)
      BY <1>3, <1>4, <2>4
    <3> HIDE DEF p
    <3>2. heard'[w] = History(p)
      BY <2>3, <3>1
    <3>3. Whole(heard'[w], count'[clients'[w]], rows'[clients'[w]])
      BY <2>1, <2>3, <3>2
    <3> QED BY <2>1, <2>3, <3>2, <3>3 DEF Hears
  <2>5. CASE sock'[w] # "open"
    <3>1. heard'[w] = <<>>
      BY <1>3, <1>4, <2>5
    <3> HIDE DEF p
    <3>2. heard'[w] \in Seq(Nat)
      BY <3>1
    <3> QED BY <2>1, <2>5, <3>2 DEF Hears
  <2> QED BY <2>4, <2>5
<1>6. ASSUME NEW w \in Phones \ ws PROVE heard'[w] \in Seq(Nat) /\ Hears(w)'
  <2>1. heard'[w] = heard[w] /\ clients'[w] = clients[w] /\ sock'[w] = sock[w] /\ Hears(w)
    BY <1>3 DEF HeardInv
  <2>2. Hears(w)'
    BY <1>1, <2>1, HearsKept
  <2> QED BY <2>1, <2>2 DEF HeardInv
<1>7. heard' \in [Phones -> Seq(Nat)]
  <2>1. DOMAIN heard' = Phones /\ heard' = [w \in Phones |-> heard'[w]]
    BY <1>3
  <2>2. \A w \in Phones : heard'[w] \in Seq(Nat)
    BY <1>5, <1>6
  <2> QED BY <2>1, <2>2
<1> QED BY <1>5, <1>6, <1>7 DEF HeardInv

\* An event reaches the phones that are bound to its process and open.
LEMMA CommitHeard ==
  ASSUME PhoneInv, HeardInv, NEW p \in Processes, Commits(p)
  PROVE  HeardInv'
<1>1. StateTypes /\ p # NoProcess
  BY PhoneAssumption DEF PhoneInv
<1>2. /\ count' = [count EXCEPT ![p] = @ + 1]
      /\ rows' = [rows EXCEPT ![p] = @ \cup {count[p] + 1}]
      /\ heard' = [w \in Phones |-> IF w \in Listening(p) THEN Append(heard[w], count[p] + 1) ELSE heard[w]]
      /\ UNCHANGED <<sock, clients>>
  BY DEF Commits
<1>3. /\ count[p] \in Nat /\ count'[p] = count[p] + 1
      /\ rows'[p] = rows[p] \cup {count[p] + 1}
      /\ \A q \in Processes \ {p} : count'[q] = count[q] /\ rows'[q] = rows[q]
  <2>1. count \in [Processes -> Nat]
    BY <1>1 DEF StateTypes
  <2>2. count[p] \in Nat /\ count'[p] = count[p] + 1 /\ \A q \in Processes \ {p} : count'[q] = count[q]
    BY <1>2, <2>1
  <2>3. rows'[p] = rows[p] \cup {count[p] + 1} /\ \A q \in Processes \ {p} : rows'[q] = rows[q]
    BY <1>1, <1>2 DEF StateTypes
  <2> QED BY <2>2, <2>3
<1>4. ASSUME NEW w \in Listening(p) PROVE heard'[w] \in Seq(Nat) /\ Hears(w)'
  <2>1. w \in Phones /\ clients[w] = p /\ sock[w] = "open"
    BY DEF Listening
  <2>2. heard[w] \in Seq(Nat) /\ Whole(heard[w], count[p], rows[p])
    BY <1>1, <2>1 DEF HeardInv, Hears
  <2>3. heard'[w] = Append(heard[w], count[p] + 1)
    BY <1>2, <2>1
  <2>4. heard'[w] \in Seq(Nat) /\ Whole(heard'[w], count'[p], rows'[p])
    BY <1>3, <2>2, <2>3, WholeAppend
  <2>5. clients'[w] = p
    BY <1>2, <2>1
  <2> QED BY <1>1, <2>4, <2>5 DEF Hears
<1>5. ASSUME NEW w \in Phones \ Listening(p) PROVE heard'[w] \in Seq(Nat) /\ Hears(w)'
  <2>1. heard'[w] = heard[w] /\ heard[w] \in Seq(Nat) /\ clients'[w] = clients[w] /\ sock'[w] = sock[w] /\ Hears(w)
    BY <1>2 DEF HeardInv
  <2>2. sock[w] = "open" /\ clients[w] # NoProcess => clients[w] \in Processes \ {p}
    BY <1>1 DEF Listening, StateTypes
  <2>3. Hears(w)'
    BY <1>3, <2>1, <2>2 DEF Hears
  <2> QED BY <2>1, <2>3
<1>6. heard' \in [Phones -> Seq(Nat)]
  <2>1. heard' = [w \in Phones |-> heard'[w]]
    BY <1>2
  <2>2. \A w \in Phones : heard'[w] \in Seq(Nat)
    BY <1>4, <1>5
  <2> QED BY <2>1, <2>2
<1> QED BY <1>4, <1>5, <1>6 DEF HeardInv

\* Steps that send nothing to a phone that goes on.
LEMMA SilentHeard ==
  ASSUME StateTypes, HeardInv, UNCHANGED <<heard, clients, count>>,
         \A q \in Processes : rows'[q] \subseteq rows[q],
         \A w \in Phones : sock'[w] = "open" => sock[w] = "open" \/ clients[w] = NoProcess
  PROVE  HeardInv'
<1>1. ASSUME NEW w \in Phones PROVE Hears(w)'
  <2>1. Hears(w) /\ heard'[w] = heard[w] /\ clients'[w] = clients[w]
    BY DEF HeardInv
  <2> QED BY <2>1, HearsKept
<1> QED BY <1>1 DEF HeardInv

LEMMA HeardInit == Init => HeardInv
<1> SUFFICES ASSUME Init PROVE HeardInv
  OBVIOUS
<1>1. heard = [w \in Phones |-> <<>>] /\ clients = [w \in Phones |-> NoProcess]
  BY DEF Init
<1>2. <<>> \in Seq(Nat)
  OBVIOUS
<1>3. heard \in [Phones -> Seq(Nat)]
  BY <1>1, <1>2
<1>4. \A w \in Phones : heard[w] = <<>> /\ clients[w] = NoProcess
  BY <1>1
<1> QED BY <1>3, <1>4 DEF HeardInv, Hears

\* A daemon starts without phones.
LEMMA NextDaemonHeard == NextDaemon => HeardInv'
<1> SUFFICES ASSUME NextDaemon PROVE HeardInv'
  OBVIOUS
<1>1. heard' = [w \in Phones |-> <<>>] /\ clients' = [w \in Phones |-> NoProcess]
  BY DEF NextDaemon, Stops
<1>2. <<>> \in Seq(Nat)
  OBVIOUS
<1>3. heard' \in [Phones -> Seq(Nat)] /\ \A w \in Phones : heard'[w] = <<>> /\ clients'[w] = NoProcess
  BY <1>1, <1>2
<1> QED BY <1>3 DEF HeardInv, Hears

LEMMA HeardNext ==
  ASSUME PhoneInv, HeardInv, Next
  PROVE  HeardInv'
<1>2. StateTypes
  BY DEF PhoneInv
<1>3. ASSUME NEW p \in Processes, Registers(p) \/ GoesAway(p) \/ Retain(p) PROVE HeardInv'
  <2>1. UNCHANGED <<heard, clients, count, sock>>
    BY <1>3 DEF Registers, GoesAway, Retain, phoneVars
  <2>2. \A q \in Processes : rows'[q] \subseteq rows[q]
    <3>1. CASE Registers(p) \/ GoesAway(p)
      BY <3>1 DEF Registers, GoesAway
    <3>2. CASE Retain(p)
      BY <3>2 DEF Retain
    <3> QED BY <1>3, <3>1, <3>2
  <2> QED BY <1>2, <2>1, <2>2, SilentHeard
<1>4. ASSUME NEW p \in Processes, Commits(p) PROVE HeardInv'
  BY <1>4, CommitHeard
<1>5. CASE (\E p \in Processes, t \in Tokens : Pair(p, t)) \/ Rotate \/ Disable \/ Enable
  <2>1. UNCHANGED <<heard, clients, count, rows>> /\ (sock' = sock \/ \E ws \in SUBSET Phones : CloseSockets(ws))
    BY <1>5 DEF Pair, Rotate, Disable, Enable, producerVars, phoneVars
  <2>2. \A w \in Phones : sock'[w] = "open" => sock[w] = "open"
    BY <2>1 DEF CloseSockets
  <2> QED BY <1>2, <2>1, <2>2, SilentHeard
<1>6. ASSUME NEW w \in Phones, NEW t \in Tokens, ConnectBound(w, t) PROVE HeardInv'
  <2>1. /\ sock[w] = "none" /\ clients[w] = NoProcess
        /\ sock' = [sock EXCEPT ![w] = "open"] /\ token' = [token EXCEPT ![w] = t]
        /\ Bindable(t) /\ BindLegacy({t}) /\ Welcome({w})
        /\ UNCHANGED <<count, rows>>
    BY <1>6 DEF ConnectBound, Upgrade, PhoneInv, BoundAsSaved, producerVars
  <2>2. token'[w] = t /\ \A v \in Phones \ {w} : sock'[v] = sock[v]
    BY <1>2, <2>1 DEF StateTypes
  <2>3. /\ {w} \in SUBSET Phones /\ {t} \in SUBSET Tokens
        /\ \A u \in {t} : Bindable(u)
        /\ \A v \in {w} : token'[v] \in {t} /\ clients[v] = NoProcess
    BY <2>1, <2>2
  <2> QED BY <2>1, <2>2, <2>3, WelcomeHeard
<1>7. ASSUME NEW w \in Phones, NEW t \in Tokens, ConnectPending(w, t) PROVE HeardInv'
  <2>1. /\ UNCHANGED <<heard, clients, count, rows>> /\ clients[w] = NoProcess
        /\ sock' = [sock EXCEPT ![w] = "open"]
    BY <1>7 DEF ConnectPending, Upgrade, PhoneInv, BoundAsSaved, producerVars
  <2>2. \A v \in Phones : sock'[v] = "open" => sock[v] = "open" \/ clients[v] = NoProcess
    BY <1>2, <2>1 DEF StateTypes
  <2> QED BY <1>2, <2>1, <2>2, SilentHeard
<1>8. CASE TryBindPending
  <2> DEFINE ts == {token[w] : w \in Ready}
  <2>1. /\ UNCHANGED <<sock, token, count, rows>>
        /\ BindLegacy(ts) /\ Welcome(Ready) /\ \A t \in ts : Bindable(t)
    BY <1>8 DEF TryBindPending, Ready, producerVars
  <2>2. /\ Ready \in SUBSET Phones /\ ts \in SUBSET Tokens
        /\ \A w \in Ready : token'[w] \in ts /\ clients[w] = NoProcess
    BY <1>2, <2>1 DEF StateTypes, Ready
  <2> HIDE DEF ts
  <2> QED BY <2>1, <2>2, WelcomeHeard
<1>9. ASSUME NEW w \in Phones, Command(w) \/ BadMessage(w) PROVE HeardInv'
  <2>1. UNCHANGED <<heard, clients, count, rows>> /\ (sock' = sock \/ CloseSockets({w}))
    BY <1>9 DEF Command, BadMessage, producerVars, phoneVars
  <2>2. \A v \in Phones : sock'[v] = "open" => sock[v] = "open"
    BY <2>1 DEF CloseSockets
  <2> QED BY <1>2, <2>1, <2>2, SilentHeard
<1>10. ASSUME NEW w \in Phones, CloseEvent(w) PROVE HeardInv'
  <2>1. /\ heard' = [heard EXCEPT ![w] = <<>>] /\ UNCHANGED <<count, rows>>
        /\ \A v \in Phones \ {w} : sock'[v] = sock[v] /\ clients'[v] = clients[v]
        /\ sock'[w] # "open"
    BY <1>2, <1>10 DEF CloseEvent, StateTypes, producerVars
  <2>2. heard \in [Phones -> Seq(Nat)]
    BY DEF HeardInv
  <2>3. heard' \in [Phones -> Seq(Nat)] /\ heard'[w] = <<>> /\ \A v \in Phones \ {w} : heard'[v] = heard[v]
    BY <2>1, <2>2
  <2>4. Hears(w)'
    BY <2>1, <2>3 DEF Hears
  <2>5. ASSUME NEW v \in Phones \ {w} PROVE Hears(v)'
    <3>1. Hears(v) /\ heard'[v] = heard[v] /\ clients'[v] = clients[v] /\ sock'[v] = sock[v]
      BY <2>1, <2>3 DEF HeardInv
    <3> QED BY <1>2, <2>1, <3>1, HearsKept
  <2> QED BY <2>3, <2>4, <2>5 DEF HeardInv
<1>11. ASSUME NEW pid \in Pids, Spawn(pid) \/ SessionEnds(pid) \/ OtherProcess(pid) \/ CloseSession(pid)
       PROVE  HeardInv'
  <2>1. CASE GoesOn
    <3>1. UNCHANGED <<heard, clients, count, rows, sock>>
      BY <2>1 DEF GoesOn, producerVars, phoneVars
    <3> QED BY <1>2, <3>1, SilentHeard
  <2>2. CASE NextDaemon
    BY <2>2, NextDaemonHeard
  <2> QED BY <1>11, <2>1, <2>2 DEF Spawn, SessionEnds, OtherProcess, CloseSession, DiesPersisting
<1>12. CASE Restart
  BY <1>12, NextDaemonHeard DEF Restart
<1> QED BY <1>3, <1>4, <1>5, <1>6, <1>7, <1>8, <1>9, <1>10, <1>11, <1>12 DEF Next

LEMMA HeardInvariant == Spec => []HeardInv
<1>1. HeardInv /\ UNCHANGED vars => HeardInv'
  BY DEF HeardInv, Hears, vars, producerVars, phoneVars
<1>2. PhoneInv /\ HeardInv /\ [Next]_vars => HeardInv'
  BY <1>1, HeardNext
<1> QED BY HeardInit, <1>2, PhoneInvariant, PTL DEF Spec

----------------------------------------------------------------------------
(* Results *)

\* The fields of the server, its tables, the streams of its phones and the spawned sessions
\* have the types that the handlers of http-server.ts and v2-session.ts count on.
THEOREM PhoneTypes == Spec => []TypeOK
<1>1. PhoneInv /\ HeardInv => TypeOK
  BY DEF PhoneInv, HeardInv, TypeOK
<1> QED BY <1>1, PhoneInvariant, HeardInvariant, PTL

\* The phones of a token get the events of one process, and that one gets their commands, over
\* late bindings, administration, and restarts of the daemon.
THEOREM PhoneOneProcess == Spec => []OneProcess
<1>1. PhoneInv => OneProcess
  BY DEF PhoneInv, ServedAsSaved, OneProcess
<1> QED BY <1>1, PhoneInvariant, PTL

\* A phone that has a process hears it from the start of what is retained, in order, each event
\* once, and without a hole between history and live events, however late it was bound, while
\* retention goes on and others come and go.
THEOREM PhoneStreamWhole == Spec => []StreamWhole
<1>1. PhoneInv /\ HeardInv => StreamWhole
  BY DEF HeardInv, Hears, Whole, StreamWhole
<1> QED BY <1>1, PhoneInvariant, HeardInvariant, PTL

\* A session that runs and that nobody has asked to close is in the list of every daemon, unless
\* one ended with the file of its sessions incomplete: after a write that failed, within a write,
\* or between the spawn and the write.
THEOREM PhoneSessionsRemembered == Spec => []SessionsRemembered
<1>1. PhoneInv => SessionsRemembered
  BY DEF PhoneInv
<1> QED BY <1>1, PhoneInvariant, PTL
=============================================================================

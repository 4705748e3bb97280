---------------------------- MODULE DurableStore ----------------------------
(***************************************************************************)
(* The durable event store of the daemon, packages/daemon/src/store.ts:    *)
(* the tables events, pins, replay_leases and the cursor high-water mark,  *)
(* over the instance rows of InstanceRows.  Every public operation that    *)
(* writes is one action, because each is one SQLite transaction: a crash   *)
(* of the daemon falls between actions.  Recover is what the next start    *)
(* does.                                                                   *)
(***************************************************************************)
EXTENDS InstanceRows, Functions

CONSTANTS
    EventIds,     \* event ids that producers may send
    Synthetic,    \* stands for the fresh UUID of a record the daemon writes itself
    Times,        \* occurredAt stamps, from the producers' own clocks
    Leases,       \* replay lease ids
    MaxCursor,    \* Number.MAX_SAFE_INTEGER, where appendEvent reports cursor_exhausted
    MaxEvents,    \* the retention option maxEvents
    MaxPins,      \* bound: rows pinned
    MaxRows,      \* bound: rows ever inserted, beyond which no restart is modelled
    MaxPublished  \* bound: rows inserted for producers

ASSUME StoreAssumption ==
    /\ Synthetic \notin EventIds
    /\ Times \subseteq Nat
    /\ MaxCursor \in Nat
    /\ MaxEvents \in Nat
    /\ MaxPins \in Nat
    /\ MaxRows \in Nat
    /\ MaxPublished \in Nat

VARIABLES
    head,        \* schema_meta.cursor_high_water
    events,      \* rows of the events table
    nextSeq,     \* process_instances.next_sequence
    lastCursor,  \* processes.last_cursor
    pins,        \* cursors in the pins table
    leases,      \* unexpired rows of replay_leases, by id
    committed    \* history: every row ever inserted into events

storeVars == <<head, events, nextSeq, lastCursor, pins, leases, committed>>
vars == <<rowVars, storeVars>>

----------------------------------------------------------------------------
Published == [id : EventIds, inst : Insts, seq : 1 .. MaxCursor, occ : Times]
Noted == [id : {Synthetic}, inst : Insts, seq : {n \in Int : n <= 0}, occ : Times]
Row == [cursor : Nat \ {0}, event : Published \cup Noted]

\* A lease protects the rows from `min` on; `promised` is history, the rows at
\* or after `min` that were there when the lease was given.
NoLease == [min |-> 0, promised |-> {}]
Active(l) == leases[l].min > 0

ClashesByNumber(e, f) == e.inst = f.inst /\ e.seq = f.seq

\* UNIQUE(event_id) and UNIQUE(instance_id, process_sequence).
Clashes(e, f) == e.id = f.id \/ (e.inst = f.inst /\ e.seq = f.seq)

StoreInit ==
    /\ RowsInit
    /\ head = 0
    /\ events = {}
    /\ nextSeq = [i \in Insts |-> 1]
    /\ lastCursor = [p \in Procs |-> 0]
    /\ pins = {}
    /\ leases = [l \in Leases |-> NoLease]
    /\ committed = {}

----------------------------------------------------------------------------
(* Reads *)

MinimumCursorBehind ==
    IF events = {} THEN head
    ELSE CHOOSE c \in {r.cursor : r \in events} : \A r \in events : c <= r.cursor

\* `minimumCursor`: the least cursor in the table, one past the head when it is empty.
MinimumCursor ==
    IF events = {} THEN head + 1
    ELSE CHOOSE c \in {r.cursor : r \in events} : \A r \in events : c <= r.cursor

\* `replay`: the errors it can raise, and the rows it returns otherwise.
ReplayError(after) == after > head \/ after < MinimumCursor - 1
Replay(after) == {r \in events : r.cursor > after}

----------------------------------------------------------------------------
(* Registration and liveness rows *)

RegisterRenumbers(i) ==
    /\ RegisterRows(i)
    /\ nextSeq' = [nextSeq EXCEPT ![i] = 1]
    /\ UNCHANGED <<head, events, lastCursor, pins, leases, committed>>

\* `register`: the upsert of an instance row leaves its next_sequence alone.
Register(i) ==
    /\ RegisterRows(i)
    /\ UNCHANGED storeVars

Heartbeat(i) ==
    /\ HeartbeatRow(i)
    /\ UNCHANGED storeVars

Demote(i, s) ==
    /\ SetInstanceState(i, s)
    /\ UNCHANGED storeVars

----------------------------------------------------------------------------
(* Events *)

NextCursorLate == head

\* The cursor of the next row, from the persisted high-water mark.
NextCursor == head + 1

\* The producer's numbers are contiguous.
IsNext(e) == e.seq = nextSeq[e.inst]

\* `appendEvent`, the transaction that commits.  The replies that change nothing
\* (duplicate, event_conflict, producer_not_registered, process_sequence_gap,
\* cursor_exhausted) are its negated guards.
AppendEvent(e) ==
    /\ HasRow(e.inst)
    /\ \A r \in events : ~Clashes(r.event, e)
    /\ IsNext(e)
    /\ head < MaxCursor
    /\ Cardinality({r \in committed : r.event.seq > 0}) < MaxPublished
    /\ LET row == [cursor |-> NextCursor, event |-> e]
       IN  /\ events' = events \cup {row}
           /\ committed' = committed \cup {row}
    /\ head' = head + 1
    /\ nextSeq' = [nextSeq EXCEPT ![e.inst] = @ + 1]
    /\ lastCursor' = [lastCursor EXCEPT ![ProcOf[e.inst]] = NextCursor]
    /\ UNCHANGED <<rowVars, pins, leases>>

LostSequenceZero(i) == 0

\* The number of the `instance_lost` record: 0, or one below the lowest number the
\* instance still has in the table when that is not positive.
LostSequence(i) ==
    LET below == {r.event.seq : r \in {s \in events : s.event.inst = i /\ s.event.seq <= 0}}
    IN  IF below = {} THEN 0
        ELSE (CHOOSE n \in below : \A m \in below : n <= m) - 1

LostEvent(i, t) == [id |-> Synthetic, inst |-> i, seq |-> LostSequence(i), occ |-> t]

FirstOf(p, cursorOf) ==
    LET mine == {cursorOf[i] : i \in {j \in Interrupted : ProcOf[j] = p}}
    IN  IF mine = {} THEN lastCursor[p] ELSE CHOOSE c \in mine : \A d \in mine : c <= d

\* last_cursor after the loop: each record of the process overwrites it.
LatestOf(p, cursorOf) ==
    LET mine == {cursorOf[i] : i \in {j \in Interrupted : ProcOf[j] = p}}
    IN  IF mine = {} THEN lastCursor[p] ELSE CHOOSE c \in mine : \A d \in mine : d <= c

\* `recoverAfterRestart`: one record for each interrupted instance, under the next
\* cursors, in the order in which the query returns the rows.
Recover(t) ==
    /\ Interrupted # {}
    /\ head + Cardinality(Interrupted) <= MaxRows
    /\ \E cursorOf \in Bijection(Interrupted, (head + 1) .. (head + Cardinality(Interrupted))) :
         LET rows == {[cursor |-> cursorOf[i], event |-> LostEvent(i, t)] : i \in Interrupted}
         IN  /\ events' = events \cup rows
             /\ committed' = committed \cup rows
             /\ lastCursor' = [p \in Procs |-> LatestOf(p, cursorOf)]
    /\ head' = head + Cardinality(Interrupted)
    /\ LoseInterrupted
    /\ UNCHANGED <<nextSeq, pins, leases>>

----------------------------------------------------------------------------
(* Retention *)

\* `pin`, of a row that is there.
Pin(c) ==
    /\ Cardinality(pins) < MaxPins
    /\ \E r \in events : r.cursor = c
    /\ pins' = pins \cup {c}
    /\ UNCHANGED <<rowVars, head, events, nextSeq, lastCursor, leases, committed>>

\* `leaseReplay`, called with afterCursor + 1 before the cursor is looked at: it may lie
\* beyond the head.  (Bound: not beyond the last cursor.)
LeaseReplay(l, m) ==
    /\ ~Active(l)
    /\ leases' = [leases EXCEPT ![l] =
                    [min |-> m, promised |-> {r \in events : r.cursor >= m}]]
    /\ UNCHANGED <<rowVars, head, events, nextSeq, lastCursor, pins, committed>>

\* `releaseReplay`, or the passing of expires_at: retention treats both alike.
EndLease(l) ==
    /\ Active(l)
    /\ leases' = [leases EXCEPT ![l] = NoLease]
    /\ UNCHANGED <<rowVars, head, events, nextSeq, lastCursor, pins, committed>>

UnprotectedLoose(r) ==
    /\ \A l \in Leases : Active(l) => r.cursor <= leases[l].min
    /\ r.cursor \notin pins

\* cursor < protectedCursor: the least minimum of the unexpired leases, or the last cursor
\* while there is no lease.
Unprotected(r) ==
    /\ \A l \in Leases : Active(l) => r.cursor < leases[l].min
    /\ (\A l \in Leases : ~Active(l)) => r.cursor < MaxCursor
    /\ r.cursor \notin pins

\* `retain`: rows beyond the count, or older than the cut-off, go.
Retain(cut) ==
    /\ LET expired == {r \in events : /\ Unprotected(r)
                                      /\ \/ r.cursor + MaxEvents <= head
                                         \/ r.event.occ < cut}
       IN  /\ expired # {}
           /\ events' = events \ expired
    /\ UNCHANGED <<rowVars, head, nextSeq, lastCursor, pins, leases, committed>>

----------------------------------------------------------------------------
StoreNext ==
    \/ \E i \in Insts : Register(i)
    \/ \E i \in Insts : Heartbeat(i)
    \/ \E i \in Insts, s \in {"stale", "dead"} : Demote(i, s)
    \/ \E e \in Published : AppendEvent(e)
    \/ \E t \in Times : Recover(t)
    \/ \E c \in 1 .. MaxCursor : Pin(c)
    \/ \E l \in Leases, m \in 1 .. MaxCursor : LeaseReplay(l, m)
    \/ \E l \in Leases : EndLease(l)
    \/ \E cut \in Times : Retain(cut)

Spec == StoreInit /\ [][StoreNext]_vars

----------------------------------------------------------------------------
(* Properties *)

\* Type invariant of the tables and of the histories kept beside them.
TypeOK ==
    /\ RowsTypeOK
    /\ head \in Nat
    /\ committed \subseteq Row
    /\ events \subseteq committed
    /\ nextSeq \in [Insts -> Nat \ {0}]
    /\ lastCursor \in [Procs -> Nat]
    /\ pins \subseteq 1 .. MaxCursor
    /\ DOMAIN leases = Leases
    /\ \A l \in Leases : /\ DOMAIN leases[l] = {"min", "promised"}
                         /\ leases[l].min \in Nat
                         /\ leases[l].promised \subseteq committed

\* The history of inserted rows is a ledger: the store with its tables, retention and
\* restarts implements the reference stores of the protocol package, except that it knows an
\* event id only as long as it has the row.  A step whose event has an id that retention
\* has deleted may be none of theirs; every other step is one, or changes nothing they have.
Ledger == INSTANCE EventLedger
            WITH Producers <- Insts, Events <- Published, Notes <- Noted, ledger <- committed, expected <- nextSeq

RecallsIds ==
    \A new \in committed' \ committed, old \in committed \ events :
        new.event.id = old.event.id => new.event.id = Synthetic

ImplementsLedger ==
    Ledger!LedgerInit /\ [][RecallsIds => Ledger!LedgerNext]_(Ledger!ledgerVars)

\* A retransmission is never committed a second time, although retention has deleted
\* the row by which appendEvent would recognise it, and although the instance lost its
\* registration in between: next_sequence alone has to refuse it.
CommittedOnce == Ledger!AdmittedOnce

\* The UNIQUE constraints of the events table.  appendEvent checks them before it
\* inserts; recoverAfterRestart inserts unchecked records whose numbers it takes from
\* what retention left, and a clash there would keep the daemon from starting.
RowsUnique ==
    \A r, s \in events :
        r # s => /\ r.event.inst = s.event.inst => r.event.seq # s.event.seq
                 /\ r.event.id = s.event.id => r.event.id = Synthetic

\* While a replay lease lasts, every row that was there when it was given and that it
\* covers is still there, whatever retention ran in between.
LeasedRowsKept == \A l \in Leases : Active(l) => leases[l].promised \subseteq events

\* processes.last_cursor is the cursor of the last record any instance of the process
\* has in the history, the records of a restart included.
LastCursorCurrent ==
    \A p \in Procs :
        LET own == {r.cursor : r \in {q \in committed : ProcOf[q.event.inst] = p}}
        IN  /\ own = {} => lastCursor[p] = 0
            /\ own # {} => lastCursor[p] \in own /\ \A c \in own : c <= lastCursor[p]

\* A replay is refused, or answered, as by the reference store that got the same history and
\* has expired what lies below the least cursor: so nothing is missing from an answer.
Reference == INSTANCE CursorStore
Remembered == Reference!ExpireThrough(Reference!History(head, committed), MinimumCursor - 1)

ReplayComplete ==
    \A after \in 0 .. (head + 1) :
        IF Reference!Refuses(Remembered, after)
        THEN ReplayError(after)
        ELSE ~ReplayError(after) /\ Replay(after) = Reference!ReplayOf(Remembered, after)

\* That holds as long as nothing is pinned and the producers' stamps grow with the
\* cursor: then retention only ever removes a prefix, and cursor_expired tells.
StampsInOrder ==
    \A r, s \in committed : r.cursor < s.cursor => r.event.occ <= s.event.occ

OrderedReplayComplete == pins = {} /\ StampsInOrder => ReplayComplete
=============================================================================

----------------------------- MODULE EventLedger -----------------------------
(***************************************************************************)
(* What the durable event history promises, without tables, retention or   *)
(* restarts: the reference stores of packages/protocol/src/index.ts        *)
(* (ProducerLedger and the append half of CursorStore).  A ledger is a set *)
(* of records under dense, never reused cursors.  Each producer's events   *)
(* enter it once, in the order of their sequence numbers, and under event  *)
(* ids that nothing in the ledger has.  The daemon itself may also add     *)
(* notes about a producer, numbered from 0 downwards, which the reference  *)
(* stores do not have.  NumberedSpec is the same without the rule about    *)
(* event ids: what numbers alone promise.                                  *)
(***************************************************************************)
EXTENDS Integers, FiniteSets

CONSTANTS
    Producers,
    Events,     \* what producers may publish: records with an event id `id`, a producer `inst`
                \* and a number `seq`
    Notes,      \* what the daemon may add: the same, numbered 0, -1, -2, ...
    MaxCursor   \* the last cursor a published event can get

LedgerAssumption ==
    /\ \A e \in Events : e.inst \in Producers /\ e.seq \in Nat \ {0}
    /\ \A n \in Notes : n.inst \in Producers /\ n.seq \in Int /\ n.seq <= 0

VARIABLES ledger, head, expected

ledgerVars == <<ledger, head, expected>>

LedgerTypeOK ==
    /\ ledger \subseteq [cursor : Nat, event : Events \cup Notes]
    /\ head \in Nat
    /\ expected \in [Producers -> Nat \ {0}]

LedgerInit ==
    /\ ledger = {}
    /\ head = 0
    /\ expected = [p \in Producers |-> 1]

\* The next event of its producer gets the next cursor.
Admit(e) ==
    /\ e.seq = expected[e.inst]
    /\ head < MaxCursor
    /\ ledger' = ledger \cup {[cursor |-> head + 1, event |-> e]}
    /\ head' = head + 1
    /\ expected' = [expected EXCEPT ![e.inst] = @ + 1]

\* ProducerLedger.commit: it never forgets an event id, and answers one that is used again
\* with a duplicate or event_conflict.
Commit(e) ==
    /\ \A r \in ledger : r.event.id # e.id
    /\ Admit(e)

\* The daemon's own notes: they take cursors, and no producer's number.
Note(records) ==
    /\ records \subseteq [cursor : Nat, event : Notes]
    /\ {r.cursor : r \in records} = (head + 1) .. head'
    /\ \A r, s \in records : r.cursor = s.cursor => r = s
    /\ ledger' = ledger \cup records
    /\ UNCHANGED expected

Noting ==
    /\ head' \in Nat
    /\ head' >= head
    /\ ledger \subseteq ledger'
    /\ Note(ledger' \ ledger)

LedgerNext == (\E e \in Events : Commit(e)) \/ Noting

LedgerSpec == LedgerInit /\ [][LedgerNext]_ledgerVars

\* A ledger that may forget the event ids it has seen, but no number.
NumberedNext == (\E e \in Events : Admit(e)) \/ Noting

NumberedSpec == LedgerInit /\ [][NumberedNext]_ledgerVars

----------------------------------------------------------------------------
(* What follows from the numbers, and what a consumer of the history relies on *)

\* Every cursor up to the head names exactly one record: none is skipped, and none
\* is used again.
CursorsDense ==
    /\ {r.cursor : r \in ledger} = 1 .. head
    /\ \A r, s \in ledger : r.cursor = s.cursor => r = s

\* No two records carry the same number of the same producer (docs: "use eventId and
\* cursor to deduplicate": a retransmission must not get a second cursor).
AdmittedOnce ==
    \A r, s \in ledger :
        r.event.inst = s.event.inst /\ r.event.seq = s.event.seq /\ r.event.seq > 0 => r = s

\* A producer's records appear in its own order, with no number left out before
\* the next expected one.
ProducerOrder ==
    /\ \A r, s \in ledger :
          r.event.inst = s.event.inst /\ 0 < r.event.seq /\ r.event.seq < s.event.seq
             => r.cursor < s.cursor
    /\ \A p \in Producers :
          {r.event.seq : r \in {q \in ledger : q.event.inst = p /\ q.event.seq > 0}}
             = 1 .. (expected[p] - 1)
=============================================================================

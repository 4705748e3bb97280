------------------------- MODULE DurableStoreProofs -------------------------
(***************************************************************************)
(* The event store implements the ledger, and keeps the promises its       *)
(* tables add to it, for every set of instances, events and leases and for *)
(* every setting of the retention options.                                 *)
(***************************************************************************)
EXTENDS DurableStore, NumberSetsProofs

----------------------------------------------------------------------------
(* The inductive invariant *)

\* What the rows ever inserted have in common: their cursors are behind the head, and
\* the numbers of the daemon's own records reach no further down than the head is up,
\* so that the least of them exists.
RowsBounded == \A r \in committed : r.cursor <= head /\ -head <= r.event.seq

\* A lease promises nothing below its minimum.
LeasesCover == \A l \in Leases : \A r \in leases[l].promised : leases[l].min <= r.cursor

StoreInv ==
    /\ TypeOK
    /\ RowsBounded
    /\ RowsUnique
    /\ LeasesCover
    /\ LeasedRowsKept
    /\ LastCursorCurrent

\* The row inserted for a new instance is numbered.
LEMMA RegisterTypes ==
  ASSUME RowsTypeOK, NEW i \in Insts, RegisterRows(i)
  PROVE  RowsTypeOK'
<1>1. Cardinality({j \in Insts : HasRow(j)}) \in Nat
  <2>1. {j \in Insts : HasRow(j)} \subseteq Insts
    OBVIOUS
  <2> QED BY <2>1, InstanceAssumption, FS_Subset, FS_CardinalityType
<1> DEFINE n == 1 + Cardinality({j \in Insts : HasRow(j)})
<1>2. n \in Nat
  BY <1>1
<1> HIDE DEF n
<1>3. /\ instState' = [instState EXCEPT ![i] = "live"]
      /\ rowid' = IF HasRow(i) THEN rowid ELSE [rowid EXCEPT ![i] = n]
      /\ procState' = [procState EXCEPT ![ProcOf[i]] = "live"]
  BY DEF RegisterRows, n
<1> QED BY <1>2, <1>3 DEF RowsTypeOK, States

\* A restart inserts finitely many records.
LEMMA InterruptedFinite == Cardinality(Interrupted) \in Nat
<1>1. Interrupted \subseteq Insts
  BY DEF Interrupted
<1> QED BY <1>1, InstanceAssumption, FS_Subset, FS_CardinalityType

\* The number of a lost record is not positive, and below all such numbers that its
\* instance still has in the table.
LEMMA LostSequenceFresh ==
  ASSUME TypeOK, RowsBounded, NEW i \in Insts
  PROVE  /\ LostSequence(i) \in Int
         /\ LostSequence(i) <= 0
         /\ -head - 1 <= LostSequence(i)
         /\ \A r \in events : r.event.inst = i => r.event.seq # LostSequence(i)
<1> DEFINE below == {r.event.seq : r \in {s \in events : s.event.inst = i /\ s.event.seq <= 0}}
<1>1. /\ head \in Nat
      /\ \A r \in events : r.event.seq \in Int /\ -head <= r.event.seq
  BY DEF TypeOK, RowsBounded, Row, Published, Noted
<1>2. \A n \in below : n \in Int /\ -head <= n /\ n <= 0
  BY <1>1
<1>3. \A r \in events : r.event.inst = i /\ r.event.seq <= 0 => r.event.seq \in below
  OBVIOUS
<1>4. LostSequence(i) = IF below = {} THEN 0
                        ELSE (CHOOSE n \in below : \A m \in below : n <= m) - 1
  BY DEF LostSequence
<1> HIDE DEF below
<1>5. CASE below = {}
  BY <1>1, <1>3, <1>4, <1>5
<1>6. CASE below # {}
  <2> DEFINE least == CHOOSE n \in below : \A m \in below : n <= m
  <2>1. \E n \in below : \A m \in below : n <= m
    <3>1. below \subseteq Int /\ -head \in Int /\ \A n \in below : -head <= n
      BY <1>1, <1>2
    <3> QED BY <3>1, <1>6, LeastExists
  <2>2. least \in below /\ \A m \in below : least <= m
    BY <2>1
  <2>3. LostSequence(i) = least - 1
    BY <1>4, <1>6
  <2> HIDE DEF least
  <2> QED BY <2>2, <2>3, <1>1, <1>2, <1>3
<1> QED BY <1>5, <1>6

----------------------------------------------------------------------------
(* The steps *)

\* Nothing is there at first.
LEMMA InitInv == StoreInit => StoreInv
  BY DEF StoreInit, RowsInit, StoreInv, TypeOK, RowsTypeOK, States, RowsBounded, RowsUnique,
         LeasesCover, LeasedRowsKept, LastCursorCurrent, NoLease, Active

\* Steps that touch instance rows only.
LEMMA RowsStepInv ==
  ASSUME StoreInv, RowsTypeOK', UNCHANGED storeVars
  PROVE  StoreInv'
  BY DEF StoreInv, storeVars, TypeOK, RowsBounded, RowsUnique, LeasesCover, LeasedRowsKept,
         LastCursorCurrent, Active

\* Appending: the new row is above all others, and meets no row that is there.
LEMMA AppendInv ==
  ASSUME StoreInv, NEW e \in Published, AppendEvent(e)
  PROVE  StoreInv'
<1> DEFINE row == [cursor |-> head + 1, event |-> e]
<1> USE DEF StoreInv
<1>1. /\ events' = events \cup {row}
      /\ committed' = committed \cup {row}
      /\ head' = head + 1
      /\ nextSeq' = [nextSeq EXCEPT ![e.inst] = @ + 1]
      /\ lastCursor' = [lastCursor EXCEPT ![ProcOf[e.inst]] = head + 1]
      /\ UNCHANGED <<rowVars, pins, leases>>
      /\ \A r \in events : ~Clashes(r.event, e)
  BY DEF AppendEvent, NextCursor
<1>2. /\ e.inst \in Insts
      /\ e.seq \in Nat
      /\ ProcOf[e.inst] \in Procs
      /\ head \in Nat
      /\ lastCursor \in [Procs -> Nat]
      /\ \A r \in committed : r.cursor \in Nat /\ r.cursor <= head
  BY StoreAssumption, InstanceAssumption DEF Published, TypeOK, RowsBounded, Row
<1>3. row.cursor = head + 1 /\ row.event = e
  OBVIOUS
<1>4. row \in Row
  BY <1>2 DEF Row
<1> HIDE DEF row
<1>5. TypeOK'
  <2>1. nextSeq' \in [Insts -> Nat \ {0}]
    BY <1>1, <1>2 DEF TypeOK
  <2>2. lastCursor' \in [Procs -> Nat]
    BY <1>1, <1>2
  <2>3. RowsTypeOK'
    BY <1>1 DEF TypeOK, RowsTypeOK, rowVars
  <2> QED BY <1>1, <1>2, <1>4, <2>1, <2>2, <2>3 DEF TypeOK
<1>6. RowsBounded'
  <2>1. \A r \in committed : r.event.seq \in Int
    BY DEF TypeOK, Row, Published, Noted
  <2> QED BY <1>1, <1>2, <1>3, <2>1 DEF RowsBounded
<1>7. RowsUnique'
  BY <1>1, <1>3 DEF RowsUnique, Clashes
<1>8. LeasesCover'
  BY <1>1 DEF LeasesCover
<1>9. LeasedRowsKept'
  BY <1>1 DEF LeasedRowsKept, Active
<1>10. LastCursorCurrent'
  <2> SUFFICES ASSUME NEW p \in Procs
               PROVE  LET own == {r.cursor : r \in {q \in committed' : ProcOf[q.event.inst] = p}}
                      IN  /\ own = {} => lastCursor'[p] = 0
                          /\ own # {} => lastCursor'[p] \in own /\ \A c \in own : c <= lastCursor'[p]
    BY DEF LastCursorCurrent
  <2>1. CASE p = ProcOf[e.inst]
    BY <2>1, <1>1, <1>2, <1>3
  <2>2. CASE p # ProcOf[e.inst]
    <3>1. {q \in committed' : ProcOf[q.event.inst] = p} = {q \in committed : ProcOf[q.event.inst] = p}
      BY <2>2, <1>1, <1>3
    <3>2. lastCursor'[p] = lastCursor[p]
      BY <2>2, <1>1, <1>2
    <3> QED BY <3>1, <3>2 DEF LastCursorCurrent
  <2> QED BY <2>1, <2>2
<1> QED BY <1>5, <1>6, <1>7, <1>8, <1>9, <1>10

\* Pinning, and giving or ending a lease.
LEMMA ProtectInv ==
  ASSUME StoreInv,
         \/ \E c \in 1 .. MaxCursor : Pin(c)
         \/ \E l \in Leases, m \in 1 .. MaxCursor : LeaseReplay(l, m)
         \/ \E l \in Leases : EndLease(l)
  PROVE  StoreInv'
<1> USE DEF StoreInv
<1>1. ASSUME NEW c \in 1 .. MaxCursor, Pin(c) PROVE StoreInv'
  BY <1>1 DEF Pin, rowVars, TypeOK, RowsTypeOK, RowsBounded, RowsUnique, LeasesCover,
              LeasedRowsKept, LastCursorCurrent, Active
<1>2. ASSUME UNCHANGED <<rowVars, head, events, nextSeq, lastCursor, pins, committed>>,
             NEW l \in Leases, NEW m \in Nat, NEW promised \in SUBSET events,
             \A r \in promised : m <= r.cursor,
             leases' = [leases EXCEPT ![l] = [min |-> m, promised |-> promised]]
      PROVE  StoreInv'
  <2>1. /\ leases'[l] = [min |-> m, promised |-> promised]
        /\ DOMAIN leases' = Leases
        /\ \A k \in Leases : k # l => leases'[k] = leases[k]
    BY <1>2 DEF TypeOK
  <2>2. TypeOK'
    <3>1. RowsTypeOK'
      BY <1>2 DEF TypeOK, RowsTypeOK, rowVars
    <3> QED BY <1>2, <2>1, <3>1 DEF TypeOK
  <2>3. RowsBounded' /\ RowsUnique' /\ LastCursorCurrent'
    BY <1>2 DEF RowsBounded, RowsUnique, LastCursorCurrent
  <2>4. LeasesCover'
    BY <1>2, <2>1 DEF LeasesCover
  <2>5. LeasedRowsKept'
    BY <1>2, <2>1 DEF LeasedRowsKept, Active
  <2> QED BY <2>2, <2>3, <2>4, <2>5
<1>3. ASSUME NEW l \in Leases, NEW m \in 1 .. MaxCursor, LeaseReplay(l, m) PROVE StoreInv'
  <2>1. m \in Nat
    BY StoreAssumption
  <2> QED BY <2>1, <1>2, <1>3 DEF LeaseReplay
<1>4. ASSUME NEW l \in Leases, EndLease(l) PROVE StoreInv'
  <2>1. /\ UNCHANGED <<rowVars, head, events, nextSeq, lastCursor, pins, committed>>
        /\ leases' = [leases EXCEPT ![l] = [min |-> 0, promised |-> {}]]
    BY <1>4 DEF EndLease, NoLease
  <2>2. 0 \in Nat /\ {} \in SUBSET events /\ \A r \in {} : 0 <= r.cursor
    OBVIOUS
  <2> QED BY <2>1, <2>2, <1>2
<1> QED BY <1>1, <1>3, <1>4

\* Retention: no row that an active lease promises is below the lease's minimum, so
\* none is unprotected.
LEMMA RetainInv ==
  ASSUME StoreInv, NEW cut \in Times, Retain(cut)
  PROVE  StoreInv'
<1> USE DEF StoreInv
<1>1. PICK expired \in SUBSET events :
         /\ \A r \in expired : Unprotected(r)
         /\ events' = events \ expired
         /\ UNCHANGED <<rowVars, head, nextSeq, lastCursor, pins, leases, committed>>
  <2> DEFINE gone == {r \in events : /\ Unprotected(r)
                                    /\ \/ r.cursor + MaxEvents <= head
                                       \/ r.event.occ < cut}
  <2>1. gone \in SUBSET events /\ \A r \in gone : Unprotected(r)
    OBVIOUS
  <2>2. events' = events \ gone /\ UNCHANGED <<rowVars, head, nextSeq, lastCursor, pins, leases, committed>>
    BY DEF Retain
  <2> HIDE DEF gone
  <2> QED BY <2>1, <2>2
<1>2. TypeOK'
  BY <1>1 DEF TypeOK, RowsTypeOK, rowVars
<1>3. RowsBounded' /\ LeasesCover' /\ LastCursorCurrent'
  BY <1>1 DEF RowsBounded, LeasesCover, LastCursorCurrent
<1>4. RowsUnique'
  BY <1>1 DEF RowsUnique
<1>5. LeasedRowsKept'
  <2> SUFFICES ASSUME NEW l \in Leases, Active(l), NEW r \in leases[l].promised PROVE r \in events'
    BY <1>1 DEF LeasedRowsKept, Active
  <2>1. r \in events
    BY DEF LeasedRowsKept
  <2>2. leases[l].min \in Nat /\ r.cursor \in Nat /\ leases[l].min <= r.cursor
    BY DEF TypeOK, Row, LeasesCover
  <2>3. ~ Unprotected(r)
    BY <2>2 DEF Unprotected
  <2> QED BY <1>1, <2>1, <2>3
<1> QED BY <1>2, <1>3, <1>4, <1>5

\* A restart: each interrupted instance gets one record, under its own cursor and a
\* number no row of it has, and the process the last of its instances' cursors.
LEMMA RecoverInv ==
  ASSUME StoreInv, NEW t \in Times, Recover(t)
  PROVE  /\ StoreInv'
         /\ Ledger!Note(committed' \ committed)
         /\ head' \in Nat
         /\ head' >= head
         /\ \E rows : /\ events' = events \cup rows
                      /\ committed' = committed \cup rows
                      /\ \A r \in rows : head < r.cursor
<1> USE DEF StoreInv
<1> DEFINE n == Cardinality(Interrupted)
<1>1. PICK cursorOf \in Bijection(Interrupted, (head + 1) .. (head + n)) :
         LET rows == {[cursor |-> cursorOf[i], event |-> LostEvent(i, t)] : i \in Interrupted}
         IN  /\ events' = events \cup rows
             /\ committed' = committed \cup rows
             /\ lastCursor' = [p \in Procs |-> LatestOf(p, cursorOf)]
  BY DEF Recover
<1>2. /\ head' = head + n
      /\ LoseInterrupted
      /\ UNCHANGED <<nextSeq, pins, leases>>
  BY DEF Recover
<1> DEFINE rows == {[cursor |-> cursorOf[i], event |-> LostEvent(i, t)] : i \in Interrupted}
<1>3. events' = events \cup rows /\ committed' = committed \cup rows
  BY <1>1
<1>4. n \in Nat /\ head \in Nat
  BY InterruptedFinite DEF TypeOK
<1> HIDE DEF n
<1>5. /\ cursorOf \in [Interrupted -> (head + 1) .. (head + n)]
      /\ \A i, j \in Interrupted : cursorOf[i] = cursorOf[j] => i = j
      /\ \A c \in (head + 1) .. (head + n) : \E i \in Interrupted : cursorOf[i] = c
  BY DEF Bijection, Injection, Surjection, IsInjective
<1>6. Interrupted \subseteq Insts
  BY DEF Interrupted
<1>7. \A i \in Interrupted :
         /\ cursorOf[i] \in Nat /\ head < cursorOf[i] /\ cursorOf[i] <= head + n
         /\ LostEvent(i, t) \in Noted
         /\ LostEvent(i, t).inst = i
         /\ LostEvent(i, t).id = Synthetic
         /\ LostEvent(i, t).seq = LostSequence(i)
         /\ -head - 1 <= LostSequence(i)
         /\ \A r \in events : r.event.inst = i => r.event.seq # LostSequence(i)
  <2> SUFFICES ASSUME NEW i \in Interrupted
               PROVE  /\ cursorOf[i] \in Nat /\ head < cursorOf[i] /\ cursorOf[i] <= head + n
                      /\ LostEvent(i, t) \in Noted
                      /\ LostEvent(i, t).inst = i
                      /\ LostEvent(i, t).id = Synthetic
                      /\ LostEvent(i, t).seq = LostSequence(i)
                      /\ -head - 1 <= LostSequence(i)
                      /\ \A r \in events : r.event.inst = i => r.event.seq # LostSequence(i)
    OBVIOUS
  <2>1. cursorOf[i] \in Nat /\ head < cursorOf[i] /\ cursorOf[i] <= head + n
    BY <1>4, <1>5
  <2>2. i \in Insts
    BY <1>6
  <2>3. /\ LostSequence(i) \in Int
        /\ LostSequence(i) <= 0
        /\ -head - 1 <= LostSequence(i)
        /\ \A r \in events : r.event.inst = i => r.event.seq # LostSequence(i)
    BY <2>2, LostSequenceFresh
  <2> QED BY <2>1, <2>2, <2>3 DEF LostEvent, Noted
<1>8. \A r \in rows : \E i \in Interrupted : r.cursor = cursorOf[i] /\ r.event = LostEvent(i, t)
                                           /\ r = [cursor |-> cursorOf[i], event |-> LostEvent(i, t)]
  OBVIOUS
<1>9. \A i \in Interrupted : \E r \in rows : r.cursor = cursorOf[i] /\ r.event = LostEvent(i, t)
  <2> SUFFICES ASSUME NEW i \in Interrupted
               PROVE  \E r \in rows : r.cursor = cursorOf[i] /\ r.event = LostEvent(i, t)
    OBVIOUS
  <2> DEFINE row == [cursor |-> cursorOf[i], event |-> LostEvent(i, t)]
  <2>1. row \in rows /\ row.cursor = cursorOf[i] /\ row.event = LostEvent(i, t)
    OBVIOUS
  <2> QED BY <2>1
<1> HIDE DEF rows
<1>10. \A r, s \in rows : r.cursor = s.cursor \/ r.event.inst = s.event.inst => r = s
  BY <1>5, <1>7, <1>8
<1>11. \A r \in committed : /\ r.cursor \in Nat /\ r.cursor <= head
                            /\ r.event.seq \in Int /\ -head <= r.event.seq
  BY DEF TypeOK, RowsBounded, Row, Published, Noted
<1>12. {r.cursor : r \in rows} = (head + 1) .. (head + n)
  <2>1. \A r \in rows : r.cursor \in (head + 1) .. (head + n)
    BY <1>5, <1>8
  <2>2. \A c \in (head + 1) .. (head + n) : \E r \in rows : r.cursor = c
    BY <1>5, <1>9
  <2> QED BY <2>1, <2>2
<1>13. rows \subseteq Row /\ rows \subseteq [cursor : Nat, event : Noted]
  BY <1>4, <1>7, <1>8 DEF Row
<1>14. LastCursorCurrent' /\ lastCursor' \in [Procs -> Nat]
  <2>1. lastCursor' = [p \in Procs |-> LatestOf(p, cursorOf)]
    BY <1>1
  <2>2. ASSUME NEW p \in Procs
        PROVE  LET own == {r.cursor : r \in {q \in committed' : ProcOf[q.event.inst] = p}}
               IN  /\ LatestOf(p, cursorOf) \in Nat
                   /\ own = {} => LatestOf(p, cursorOf) = 0
                   /\ own # {} => /\ LatestOf(p, cursorOf) \in own
                                  /\ \A c \in own : c <= LatestOf(p, cursorOf)
    <3> DEFINE own == {r.cursor : r \in {q \in committed : ProcOf[q.event.inst] = p}}
               mine == {cursorOf[i] : i \in {j \in Interrupted : ProcOf[j] = p}}
    <3>1. /\ LatestOf(p, cursorOf) = IF mine = {} THEN lastCursor[p]
                                     ELSE CHOOSE c \in mine : \A d \in mine : d <= c
          /\ lastCursor[p] \in Nat
          /\ own = {} => lastCursor[p] = 0
          /\ own # {} => lastCursor[p] \in own /\ \A c \in own : c <= lastCursor[p]
      BY DEF LatestOf, LastCursorCurrent, TypeOK
    <3>2. {r.cursor : r \in {q \in committed' : ProcOf[q.event.inst] = p}} = own \cup mine
      <4>1. \A q \in rows : ProcOf[q.event.inst] = p => q.cursor \in mine
        BY <1>7, <1>8
      <4>2. \A c \in mine : \E q \in rows : ProcOf[q.event.inst] = p /\ q.cursor = c
        BY <1>7, <1>9
      <4> QED BY <4>1, <4>2, <1>3
    <3>3. /\ \A c \in mine : c \in Nat /\ head < c /\ c <= head + n
          /\ \A c \in own : c \in Nat /\ c <= head
      BY <1>7, <1>11
    <3> HIDE DEF own, mine
    <3>4. CASE mine = {}
      BY <3>1, <3>2, <3>4
    <3>5. CASE mine # {}
      <4>1. \E c \in mine : \A d \in mine : d <= c
        <5>1. mine \subseteq Int /\ head + n \in Int /\ \A c \in mine : c <= head + n
          BY <1>4, <3>3
        <5> QED BY <5>1, <3>5, GreatestExists
      <4>2. LatestOf(p, cursorOf) \in mine /\ \A d \in mine : d <= LatestOf(p, cursorOf)
        BY <3>1, <3>5, <4>1
      <4> QED BY <4>2, <3>2, <3>3, <1>4
    <3> QED BY <3>4, <3>5
  <2> QED BY <2>1, <2>2 DEF LastCursorCurrent
<1>15. TypeOK'
  <2>1. RowsTypeOK'
    BY <1>2 DEF LoseInterrupted, TypeOK, RowsTypeOK, States
  <2> QED BY <1>2, <1>3, <1>4, <1>13, <1>14, <2>1 DEF TypeOK
<1>16. RowsBounded'
  <2>1. \A r \in rows : r.cursor <= head' /\ -head' <= r.event.seq
    <3> SUFFICES ASSUME NEW r \in rows PROVE r.cursor <= head' /\ -head' <= r.event.seq
      OBVIOUS
    <3>1. PICK i \in Interrupted : r.cursor = cursorOf[i] /\ r.event = LostEvent(i, t)
      BY <1>8
    <3>2. i \in Insts /\ LostSequence(i) \in Int
      BY <1>6, LostSequenceFresh
    <3> QED BY <3>1, <3>2, <1>2, <1>4, <1>7
  <2> QED BY <2>1, <1>2, <1>3, <1>4, <1>11 DEF RowsBounded
<1>17. RowsUnique'
  BY <1>3, <1>7, <1>8, <1>10 DEF RowsUnique
<1>18. LeasesCover' /\ LeasedRowsKept'
  BY <1>2, <1>3 DEF LeasesCover, LeasedRowsKept, Active
<1>19. Ledger!Note(committed' \ committed)
  <2>1. committed' \ committed = rows
    BY <1>3, <1>7, <1>8, <1>11, <1>4
  <2> QED BY <2>1, <1>2, <1>3, <1>10, <1>12, <1>13 DEF Ledger!Note
<1>20. \A r \in rows : head < r.cursor
  BY <1>7, <1>8
<1> QED BY <1>2, <1>3, <1>4, <1>14, <1>15, <1>16, <1>17, <1>18, <1>19, <1>20

----------------------------------------------------------------------------
(* The theorems *)

\* The daemon's own records and the producers' events are as the ledger expects them.
LEMMA LedgerAssumed == Ledger!LedgerAssumption
  BY StoreAssumption DEF Ledger!LedgerAssumption, Published, Noted

\* What a step is for the ledger: an append, a note or nothing.
LedgerStep ==
    (\E e \in Published : AppendEvent(e)) \/ [Ledger!Noting]_(Ledger!ledgerVars)

\* Every step keeps the invariant, and is one of these.
LEMMA StepInv ==
  ASSUME StoreInv, [StoreNext]_vars
  PROVE  StoreInv' /\ LedgerStep
<1> USE DEF StoreInv
<1>1. ASSUME RowsTypeOK', UNCHANGED storeVars
      PROVE  StoreInv' /\ LedgerStep
  <2>1. StoreInv'
    BY <1>1, RowsStepInv
  <2> QED BY <1>1, <2>1 DEF storeVars, LedgerStep, Ledger!ledgerVars
<1>2. ASSUME NEW i \in Insts, Register(i)
      PROVE  StoreInv' /\ LedgerStep
  <2>1. RowsTypeOK'
    BY <1>2, RegisterTypes DEF Register, TypeOK
  <2> QED BY <1>1, <1>2, <2>1 DEF Register
<1>3. ASSUME NEW i \in Insts, Heartbeat(i)
      PROVE  StoreInv' /\ LedgerStep
  <2>1. RowsTypeOK'
    BY <1>3 DEF Heartbeat, HeartbeatRow, TypeOK, RowsTypeOK, States
  <2> QED BY <1>1, <1>3, <2>1 DEF Heartbeat
<1>4. ASSUME NEW i \in Insts, NEW s \in {"stale", "dead"}, Demote(i, s)
      PROVE  StoreInv' /\ LedgerStep
  <2>1. RowsTypeOK'
    BY <1>4 DEF Demote, SetInstanceState, TypeOK, RowsTypeOK, States
  <2> QED BY <1>1, <1>4, <2>1 DEF Demote
<1>5. ASSUME NEW e \in Published, AppendEvent(e)
      PROVE  StoreInv' /\ LedgerStep
  <2>1. StoreInv'
    BY <1>5, AppendInv
  <2> QED BY <1>5, <2>1 DEF LedgerStep
<1>6. ASSUME NEW t \in Times, Recover(t)
      PROVE  StoreInv' /\ LedgerStep
  <2>1. /\ StoreInv'
        /\ Ledger!Note(committed' \ committed)
        /\ head' \in Nat
        /\ head' >= head
    BY <1>6, RecoverInv
  <2>2. committed \subseteq committed'
    BY <1>6 DEF Recover
  <2> QED BY <2>1, <2>2 DEF LedgerStep, Ledger!Noting
<1>7. ASSUME NEW c \in 1 .. MaxCursor, Pin(c)
      PROVE  StoreInv' /\ LedgerStep
  <2>1. StoreInv'
    BY <1>7, ProtectInv
  <2> QED BY <1>7, <2>1 DEF Pin, LedgerStep, Ledger!ledgerVars
<1>8. ASSUME NEW l \in Leases, NEW m \in 1 .. MaxCursor, LeaseReplay(l, m)
      PROVE  StoreInv' /\ LedgerStep
  <2>1. StoreInv'
    BY <1>8, ProtectInv
  <2> QED BY <1>8, <2>1 DEF LeaseReplay, LedgerStep, Ledger!ledgerVars
<1>9. ASSUME NEW l \in Leases, EndLease(l)
      PROVE  StoreInv' /\ LedgerStep
  <2>1. StoreInv'
    BY <1>9, ProtectInv
  <2> QED BY <1>9, <2>1 DEF EndLease, LedgerStep, Ledger!ledgerVars
<1>10. ASSUME NEW cut \in Times, Retain(cut)
       PROVE  StoreInv' /\ LedgerStep
  <2>1. StoreInv'
    BY <1>10, RetainInv
  <2> QED BY <1>10, <2>1 DEF Retain, LedgerStep, Ledger!ledgerVars
<1>11. CASE UNCHANGED vars
  <2>1. RowsTypeOK' /\ UNCHANGED storeVars
    BY <1>11 DEF vars, rowVars, TypeOK, RowsTypeOK
  <2> QED BY <2>1, <1>1
<1> QED BY <1>2, <1>3, <1>4, <1>5, <1>6, <1>7, <1>8, <1>9, <1>10, <1>11 DEF StoreNext

\* An append gives the next number the next cursor.
LEMMA AppendAdmits ==
  ASSUME NEW e \in Published, AppendEvent(e)
  PROVE  Ledger!Admit(e)
  BY DEF AppendEvent, IsNext, NextCursor, Ledger!Admit

\* So every step is one of a numbered ledger.
LEMMA StepNumbered ==
  ASSUME LedgerStep
  PROVE  [Ledger!NumberedNext]_(Ledger!ledgerVars)
  BY AppendAdmits DEF LedgerStep, Ledger!NumberedNext

\* It is a step of the reference ledger unless retention has deleted the row of its event id:
\* of the rows that are there, the lookup by event_id refuses it.
LEMMA StepRecalls ==
  ASSUME StoreInv, LedgerStep, RecallsIds
  PROVE  [Ledger!LedgerNext]_(Ledger!ledgerVars)
<1>1. ASSUME NEW e \in Published, AppendEvent(e) PROVE Ledger!Commit(e)
  <2> DEFINE row == [cursor |-> head + 1, event |-> e]
  <2>1. /\ committed' = committed \cup {row}
        /\ \A r \in events : r.event.id # e.id
    BY <1>1 DEF AppendEvent, NextCursor, Clashes
  <2>2. row.cursor = head + 1 /\ row.event = e
    OBVIOUS
  <2>3. head \in Nat /\ \A r \in committed : r.cursor \in Nat /\ r.cursor <= head
    BY DEF StoreInv, TypeOK, RowsBounded, Row
  <2> HIDE DEF row
  <2>4. row \in committed' \ committed
    BY <2>1, <2>2, <2>3
  <2>5. e.id # Synthetic
    BY StoreAssumption DEF Published
  <2>6. ASSUME NEW r \in committed \ events PROVE r.event.id # e.id
    BY <2>2, <2>4, <2>5 DEF RecallsIds
  <2> QED BY <1>1, <2>1, <2>6, AppendAdmits DEF Ledger!Commit
<1> QED BY <1>1 DEF LedgerStep, Ledger!LedgerNext

\* The store's invariant holds throughout.
THEOREM StoreInvariant == Spec => []StoreInv
  BY InitInv, StepInv, PTL DEF Spec

\* The tables keep their types: in particular recoverAfterRestart always finds a number
\* for its record.
THEOREM StoreTypeOK == Spec => []TypeOK
<1>1. StoreInv => TypeOK
  BY DEF StoreInv
<1> QED BY <1>1, StoreInvariant, PTL

\* The UNIQUE constraints never fail a restart.
THEOREM StoreRowsUnique == Spec => []RowsUnique
<1>1. StoreInv => RowsUnique
  BY DEF StoreInv
<1> QED BY <1>1, StoreInvariant, PTL

\* Retention takes nothing that an active replay lease covers.
THEOREM StoreLeasedRowsKept == Spec => []LeasedRowsKept
<1>1. StoreInv => LeasedRowsKept
  BY DEF StoreInv
<1> QED BY <1>1, StoreInvariant, PTL

\* last_cursor is current, after events and after restarts.
THEOREM StoreLastCursor == Spec => []LastCursorCurrent
<1>1. StoreInv => LastCursorCurrent
  BY DEF StoreInv
<1> QED BY <1>1, StoreInvariant, PTL

\* The store implements the reference ledger, as far as it remembers event ids.
THEOREM StoreImplementsLedger == Spec => ImplementsLedger
<1>1. StoreInit => Ledger!LedgerInit
  BY DEF StoreInit, Ledger!LedgerInit
<1>2. StoreInv /\ [StoreNext]_vars => [RecallsIds => Ledger!LedgerNext]_(Ledger!ledgerVars)
  BY StepInv, StepRecalls
<1> QED BY <1>1, <1>2, StoreInvariant, PTL DEF Spec, ImplementsLedger

\* It implements the numbered ledger without exception, so it never commits a
\* retransmission twice.
Promises == INSTANCE EventLedgerProofs
              WITH Producers <- Insts, Events <- Published, Notes <- Noted, ledger <- committed, expected <- nextSeq

\* The promises of the ledger, carried over to the store.
LEMMA StorePromises == Spec => [](Promises!CursorsDense /\ Promises!AdmittedOnce)
<1>1. Promises!NumberedSpec => [](Promises!CursorsDense /\ Promises!AdmittedOnce /\ Promises!ProducerOrder)
  <2>1. Promises!LedgerAssumption
    BY LedgerAssumed DEF Promises!LedgerAssumption, Ledger!LedgerAssumption
  <2>2. Promises!LedgerSpec \/ Promises!NumberedSpec
          => [](Promises!CursorsDense /\ Promises!AdmittedOnce /\ Promises!ProducerOrder)
    BY <2>1, Promises!LedgerPromises
  <2> QED BY <2>2, PTL
<1>2. StoreInit => Promises!LedgerInit
  BY DEF StoreInit, Promises!LedgerInit
<1>3. StoreInv /\ [StoreNext]_vars => [Promises!NumberedNext]_(Promises!ledgerVars)
  <2>1. [Ledger!NumberedNext]_(Ledger!ledgerVars) => [Promises!NumberedNext]_(Promises!ledgerVars)
    BY DEF Ledger!NumberedNext, Ledger!ledgerVars, Ledger!Admit, Ledger!Noting, Ledger!Note,
           Promises!NumberedNext, Promises!ledgerVars, Promises!Admit, Promises!Noting, Promises!Note
  <2> QED BY <2>1, StepInv, StepNumbered
<1> QED BY <1>1, <1>2, <1>3, StoreInvariant, PTL DEF Spec, Promises!NumberedSpec

\* A retransmission is never committed twice.
THEOREM StoreCommittedOnce == Spec => []CommittedOnce
<1>1. Promises!AdmittedOnce => CommittedOnce
  BY DEF CommittedOnce, Ledger!AdmittedOnce, Promises!AdmittedOnce
<1> QED BY <1>1, StorePromises, PTL

----------------------------------------------------------------------------
(* When a replay is complete *)

\* With nothing pinned and stamps in order, the table is a suffix of the history.
SuffixKept ==
    pins = {} /\ StampsInOrder =>
        \A r \in events, s \in committed : r.cursor < s.cursor => s \in events

\* Retention that removes a row has a reason that applies to every row before it.
LEMMA SuffixStep ==
  ASSUME StoreInv, SuffixKept, [StoreNext]_vars
  PROVE  SuffixKept'
<1> SUFFICES ASSUME pins' = {}, StampsInOrder',
                    NEW r \in events', NEW s \in committed', r.cursor < s.cursor
             PROVE  s \in events'
  BY DEF SuffixKept
<1>1. /\ head \in Nat
      /\ MaxEvents \in Nat
      /\ Times \subseteq Nat
      /\ events \subseteq committed
      /\ \A q \in committed : /\ q.cursor \in Nat
                              /\ q.cursor <= head
                              /\ q.event.occ \in Times
      /\ \A l \in Leases : leases[l].min \in Nat
  BY StoreAssumption DEF StoreInv, TypeOK, RowsBounded, Row, Published, Noted
<1>2. ASSUME pins = {}, committed \subseteq committed', r \in events, s \in committed
      PROVE  s \in events
  BY <1>2 DEF SuffixKept, StampsInOrder
<1>3. ASSUME pins' = pins,
             NEW rows, events' = events \cup rows, committed' = committed \cup rows,
             \A q \in rows : head < q.cursor /\ q.cursor \in Nat
      PROVE  s \in events'
  BY <1>1, <1>2, <1>3
<1>4. CASE events' = events /\ committed' = committed /\ pins \subseteq pins'
  BY <1>2, <1>4
<1>5. ASSUME NEW e \in Published, AppendEvent(e) PROVE s \in events'
  <2> DEFINE rows == {[cursor |-> head + 1, event |-> e]}
  <2>1. \A q \in rows : head < q.cursor /\ q.cursor \in Nat
    BY <1>1
  <2>2. pins' = pins /\ events' = events \cup rows /\ committed' = committed \cup rows
    BY <1>5 DEF AppendEvent, NextCursor
  <2> QED BY <2>1, <2>2, <1>3
<1>6. ASSUME NEW t \in Times, Recover(t) PROVE s \in events'
  <2>1. PICK rows : /\ events' = events \cup rows
                    /\ committed' = committed \cup rows
                    /\ \A q \in rows : head < q.cursor
    BY <1>6, RecoverInv
  <2>2. pins' = pins /\ committed' \subseteq Row
    BY <1>6, RecoverInv DEF Recover, StoreInv, TypeOK
  <2>3. \A q \in rows : q.cursor \in Nat
    BY <2>1, <2>2 DEF Row
  <2> QED BY <2>1, <2>2, <2>3, <1>3
<1>7. ASSUME NEW cut \in Times, Retain(cut) PROVE s \in events'
  <2>1. /\ pins = {}
        /\ committed' = committed
        /\ events' = events \ {q \in events : /\ Unprotected(q)
                                              /\ \/ q.cursor + MaxEvents <= head
                                                 \/ q.event.occ < cut}
    BY <1>7 DEF Retain
  <2>2. s \in events
    BY <2>1, <1>2
  <2>3. /\ r \in committed /\ r.event.occ <= s.event.occ
        /\ r.cursor \in Nat /\ s.cursor \in Nat
        /\ r.event.occ \in Nat /\ s.event.occ \in Nat /\ cut \in Nat
    BY <2>1, <1>1 DEF StampsInOrder
  <2>4. SUFFICES ASSUME Unprotected(s), s.cursor + MaxEvents <= head \/ s.event.occ < cut
                 PROVE  FALSE
    BY <2>1, <2>2
  <2>5. Unprotected(r)
    <3>1. MaxCursor \in Nat
      BY StoreAssumption
    <3>2. r.cursor < s.cursor /\ r.cursor \in Nat /\ s.cursor \in Nat
      BY <2>3
    <3>3. ASSUME NEW l \in Leases, Active(l) PROVE r.cursor < leases[l].min
      <4>1. s.cursor < leases[l].min /\ leases[l].min \in Nat
        BY <1>1, <2>4, <3>3 DEF Unprotected
      <4> QED BY <3>2, <4>1
    <3>4. (\A l \in Leases : ~Active(l)) => r.cursor < MaxCursor
      BY <2>4, <3>1, <3>2 DEF Unprotected
    <3> QED BY <2>1, <3>3, <3>4 DEF Unprotected
  <2>6. r.cursor + MaxEvents <= head \/ r.event.occ < cut
    BY <2>1, <2>2, <2>3, <2>4, <1>1
  <2> QED BY <2>1, <2>5, <2>6
<1> QED
  BY <1>4, <1>5, <1>6, <1>7
     DEF StoreNext, vars, storeVars, Register, Heartbeat, Demote, Pin, LeaseReplay, EndLease

\* Then a replay that raises no error leaves nothing out.
THEOREM StoreOrderedReplay == Spec => []OrderedReplayComplete
<1>1. StoreInit => SuffixKept
  BY DEF StoreInit, SuffixKept
<1>2. ASSUME StoreInv, SuffixKept, Promises!CursorsDense PROVE OrderedReplayComplete
  <2> SUFFICES ASSUME pins = {}, StampsInOrder PROVE ReplayComplete
    BY DEF OrderedReplayComplete
  <2>1. /\ head \in Nat
        /\ events \subseteq committed
        /\ \A q \in committed : q.cursor \in Nat /\ 1 <= q.cursor /\ q.cursor <= head
        /\ \A q, s \in committed : q.cursor = s.cursor => q = s
    BY <1>2 DEF StoreInv, TypeOK, RowsBounded, Row, Promises!CursorsDense
  <2>2. CASE events = {}
    <3>1. MinimumCursor = head + 1
      BY <2>2 DEF MinimumCursor
    <3>2. /\ Remembered.events = {}
          /\ Remembered.head = head
          /\ Remembered.minimumCursor = head + 1
      <4>1. {q \in committed : q.cursor > (head + 1) - 1} = {}
        BY <2>1
      <4>2. ((head + 1) - 1) + 1 = head + 1 /\ (head + 1 > 1 \/ head + 1 = 1)
        BY <2>1
      <4> QED BY <3>1, <4>1, <4>2 DEF Remembered, Reference!ExpireThrough, Reference!History
    <3> QED BY <2>2, <3>1, <3>2
            DEF ReplayComplete, Reference!Refuses, Reference!ReplayOf, ReplayError, Replay
  <2>3. CASE events # {}
    <3> DEFINE cursors == {q.cursor : q \in events}
    <3>1. \E c \in cursors : \A d \in cursors : c <= d
      <4>1. cursors \subseteq Nat /\ cursors # {}
        BY <2>1, <2>3
      <4> HIDE DEF cursors
      <4> QED BY <4>1, LeastNatural
    <3>2. MinimumCursor \in cursors /\ \A q \in events : MinimumCursor <= q.cursor
      <4>1. \E c \in cursors : \A q \in events : c <= q.cursor
        BY <3>1
      <4> QED BY <2>3, <4>1 DEF MinimumCursor
    <3>3. PICK r \in events : r.cursor = MinimumCursor
      BY <3>2
    <3>4. MinimumCursor \in Nat /\ 1 <= MinimumCursor /\ MinimumCursor <= head
      BY <2>1, <3>3
    <3>5. ASSUME NEW s \in committed, MinimumCursor <= s.cursor PROVE s \in events
      <4>1. CASE r.cursor = s.cursor
        BY <2>1, <3>5, <4>1
      <4>2. CASE r.cursor < s.cursor
        BY <1>2, <3>5, <4>2 DEF SuffixKept
      <4> QED BY <2>1, <3>3, <3>4, <3>5, <4>1, <4>2
    <3>6. events = {q \in committed : q.cursor > MinimumCursor - 1}
      <4>1. \A q \in committed : q.cursor > MinimumCursor - 1 <=> MinimumCursor <= q.cursor
        BY <2>1, <3>4
      <4> QED BY <2>1, <3>2, <3>5, <4>1
    <3>7. /\ Remembered.events = events
          /\ Remembered.head = head
          /\ Remembered.minimumCursor = MinimumCursor
      <4>1. MinimumCursor - 1 + 1 = MinimumCursor /\ (MinimumCursor > 1 \/ MinimumCursor = 1)
        BY <3>4
      <4> QED BY <3>6, <4>1 DEF Remembered, Reference!ExpireThrough, Reference!History
    <3> QED BY <3>7
            DEF ReplayComplete, Reference!Refuses, Reference!ReplayOf, ReplayError, Replay
  <2> QED BY <2>2, <2>3
<1> QED BY <1>1, <1>2, SuffixStep, StoreInvariant, StorePromises, PTL DEF Spec
=============================================================================

-------------------------- MODULE EventLedgerProofs --------------------------
(***************************************************************************)
(* The consequences of the ledger specification, for every set of          *)
(* producers and events.  None needs the rule about event ids, so they are *)
(* proved of NumberedSpec, and DurableStoreProofs inherits them.           *)
(***************************************************************************)
EXTENDS EventLedger, TLAPS

\* The numbers admitted for a producer are exactly those below the expected one; the
\* inductive form of the second half of ProducerOrder.
NumbersAdmitted ==
    /\ \A r \in ledger : r.event.seq < expected[r.event.inst]
    /\ \A p \in Producers : \A n \in Nat \ {0} :
          n < expected[p] => \E r \in ledger : r.event.inst = p /\ r.event.seq = n

OrderedBySeq ==
    \A r, s \in ledger :
        r.event.inst = s.event.inst /\ 0 < r.event.seq /\ r.event.seq < s.event.seq
            => r.cursor < s.cursor

LedgerInv ==
    /\ LedgerTypeOK
    /\ CursorsDense
    /\ AdmittedOnce
    /\ OrderedBySeq
    /\ NumbersAdmitted

\* Initially nothing is admitted.
LEMMA LedgerInitInv == ASSUME LedgerAssumption PROVE LedgerInit => LedgerInv
  BY DEF LedgerAssumption, LedgerInit, LedgerInv, LedgerTypeOK, CursorsDense, AdmittedOnce,
         OrderedBySeq, NumbersAdmitted

\* Admitting an event keeps the invariant: the new number is above all admitted ones of its
\* producer, and the new cursor above all others.
LEMMA AdmitInv ==
  ASSUME LedgerAssumption, LedgerInv, NEW e \in Events, Admit(e)
  PROVE  LedgerInv'
<1> DEFINE row == [cursor |-> head + 1, event |-> e]
<1> USE DEF LedgerInv
<1>1. /\ e.inst \in Producers
      /\ e.seq \in Nat \ {0}
      /\ e.seq = expected[e.inst]
      /\ ledger' = ledger \cup {row}
      /\ head' = head + 1
      /\ expected' = [expected EXCEPT ![e.inst] = @ + 1]
  BY DEF LedgerAssumption, Admit
<1>2. /\ head \in Nat
      /\ expected \in [Producers -> Nat \ {0}]
      /\ \A r \in ledger : /\ r.cursor \in 1 .. head
                           /\ r.event.inst \in Producers
                           /\ r.event.seq \in Int
                           /\ r.event.seq < expected[r.event.inst]
  BY DEF LedgerAssumption, LedgerTypeOK, CursorsDense, NumbersAdmitted
<1>3. /\ row.cursor = head + 1
      /\ row.event = e
  OBVIOUS
<1> HIDE DEF row
<1>4. LedgerTypeOK'
  <2>1. row \in [cursor : Nat, event : Events \cup Notes]
    BY <1>2 DEF row
  <2>2. expected' \in [Producers -> Nat \ {0}]
    BY <1>1, <1>2
  <2> QED BY <1>1, <1>2, <2>1, <2>2 DEF LedgerTypeOK
<1>5. CursorsDense'
  <2>1. {r.cursor : r \in ledger'} = {r.cursor : r \in ledger} \cup {head + 1}
    BY <1>1, <1>3
  <2>2. 1 .. (head + 1) = (1 .. head) \cup {head + 1}
    BY <1>2
  <2>3. ASSUME NEW r \in ledger', NEW s \in ledger', r.cursor = s.cursor PROVE r = s
    BY <1>1, <1>2, <1>3, <2>3 DEF CursorsDense
  <2> QED BY <1>1, <2>1, <2>2, <2>3 DEF CursorsDense
<1>6. AdmittedOnce'
  BY <1>1, <1>2, <1>3 DEF AdmittedOnce
<1>7. OrderedBySeq'
  BY <1>1, <1>2, <1>3 DEF OrderedBySeq
<1>8. NumbersAdmitted'
  <2>1. \A r \in ledger' : r.event.seq < expected'[r.event.inst]
    BY <1>1, <1>2, <1>3
  <2>2. ASSUME NEW p \in Producers, NEW n \in Nat \ {0}, n < expected'[p]
        PROVE  \E r \in ledger' : r.event.inst = p /\ r.event.seq = n
    <3>1. CASE p = e.inst /\ n = e.seq
      BY <3>1, <1>1, <1>3
    <3>2. CASE ~(p = e.inst /\ n = e.seq)
      <4>1. n < expected[p]
        BY <3>2, <2>2, <1>1, <1>2
      <4> QED BY <4>1, <1>1 DEF NumbersAdmitted
    <3> QED BY <3>1, <3>2
  <2> QED BY <2>1, <2>2 DEF NumbersAdmitted
<1> QED BY <1>4, <1>5, <1>6, <1>7, <1>8

\* So does a set of daemon notes: their numbers are not positive, so they meet no
\* producer's number, and their cursors continue the ledger's.
LEMMA NoteInv ==
  ASSUME LedgerAssumption, LedgerInv, NEW records, Note(records), head' \in Nat, head' >= head
  PROVE  LedgerInv'
<1> USE DEF LedgerInv
<1>1. /\ ledger' = ledger \cup records
      /\ expected' = expected
      /\ {r.cursor : r \in records} = (head + 1) .. head'
      /\ \A r, s \in records : r.cursor = s.cursor => r = s
      /\ records \subseteq [cursor : Nat, event : Notes]
  BY DEF Note
<1>2. \A r \in records : /\ r.cursor \in (head + 1) .. head'
                         /\ r.event \in Notes
                         /\ r.event.inst \in Producers
                         /\ r.event.seq \in Int
                         /\ r.event.seq <= 0
  BY <1>1 DEF LedgerAssumption
<1>3. /\ head \in Nat
      /\ expected \in [Producers -> Nat \ {0}]
      /\ \A r \in ledger : /\ r.cursor \in 1 .. head
                           /\ r.event.inst \in Producers
                           /\ r.event.seq \in Int
                           /\ r.event.seq < expected[r.event.inst]
  BY DEF LedgerAssumption, LedgerTypeOK, CursorsDense, NumbersAdmitted
<1>4. LedgerTypeOK'
  BY <1>1, <1>3 DEF LedgerTypeOK
<1>5. CursorsDense'
  <2>1. {r.cursor : r \in ledger'} = {r.cursor : r \in ledger} \cup {r.cursor : r \in records}
    BY <1>1
  <2>2. 1 .. head' = (1 .. head) \cup ((head + 1) .. head')
    BY <1>3
  <2>3. ASSUME NEW r \in ledger', NEW s \in ledger', r.cursor = s.cursor PROVE r = s
    BY <1>1, <1>2, <1>3, <2>3 DEF CursorsDense
  <2> QED BY <1>1, <2>1, <2>2, <2>3 DEF CursorsDense
<1>6. AdmittedOnce'
  BY <1>1, <1>2, <1>3 DEF AdmittedOnce
<1>7. OrderedBySeq'
  BY <1>1, <1>2, <1>3 DEF OrderedBySeq
<1>8. NumbersAdmitted'
  <2>1. \A r \in ledger' : r.event.seq < expected'[r.event.inst]
    BY <1>1, <1>2, <1>3
  <2> QED BY <2>1, <1>1 DEF NumbersAdmitted
<1> QED BY <1>4, <1>5, <1>6, <1>7, <1>8

\* The invariant holds throughout.
THEOREM LedgerInvariant == ASSUME LedgerAssumption PROVE NumberedSpec => []LedgerInv
<1>1. LedgerInv /\ [NumberedNext]_ledgerVars => LedgerInv'
  <2> SUFFICES ASSUME LedgerInv, [NumberedNext]_ledgerVars PROVE LedgerInv'
    OBVIOUS
  <2>1. ASSUME NEW e \in Events, Admit(e) PROVE LedgerInv'
    BY <2>1, AdmitInv
  <2>2. CASE Noting
    BY <2>2, NoteInv DEF Noting
  <2>3. CASE UNCHANGED ledgerVars
    BY <2>3 DEF ledgerVars, LedgerInv, LedgerTypeOK, CursorsDense, AdmittedOnce, OrderedBySeq,
                NumbersAdmitted
  <2> QED BY <2>1, <2>2, <2>3 DEF NumberedNext
<1> QED BY <1>1, LedgerInitInv, PTL DEF NumberedSpec

\* The reference ledger is a numbered ledger.
LEMMA LedgerIsNumbered == LedgerSpec => NumberedSpec
<1>1. [LedgerNext]_ledgerVars => [NumberedNext]_ledgerVars
  BY DEF LedgerNext, NumberedNext, Commit
<1> QED BY <1>1, PTL DEF LedgerSpec, NumberedSpec

\* The invariant gives the producer order in the form stated for readers.
LEMMA ProducerOrderFromInv == ASSUME LedgerAssumption, LedgerInv PROVE ProducerOrder
<1> USE DEF LedgerInv
<1>1. ASSUME NEW p \in Producers
      PROVE  {r.event.seq : r \in {q \in ledger : q.event.inst = p /\ q.event.seq > 0}}
                = 1 .. (expected[p] - 1)
  <2>1. /\ expected[p] \in Nat \ {0}
        /\ \A r \in ledger : r.event.seq \in Int /\ r.event.seq < expected[r.event.inst]
    BY DEF LedgerAssumption, LedgerTypeOK, NumbersAdmitted
  <2>2. \A n \in 1 .. (expected[p] - 1) : \E r \in ledger : r.event.inst = p /\ r.event.seq = n
    BY <2>1 DEF NumbersAdmitted
  <2> QED BY <2>1, <2>2
<1> QED BY <1>1 DEF ProducerOrder, OrderedBySeq

\* What a consumer of the ledger relies on: of the reference ledger, and of one that forgets
\* event ids.
THEOREM LedgerPromises ==
  ASSUME LedgerAssumption
  PROVE  LedgerSpec \/ NumberedSpec => [](CursorsDense /\ AdmittedOnce /\ ProducerOrder)
<1>1. LedgerInv => CursorsDense /\ AdmittedOnce /\ ProducerOrder
  BY ProducerOrderFromInv DEF LedgerInv
<1> QED BY <1>1, LedgerInvariant, LedgerIsNumbered, PTL
=============================================================================

-------------------------------- MODULE Outbox --------------------------------
(***************************************************************************)
(* The outbox of a bridge, DurableOutbox of                                *)
(* pi-extension/remote-control/outbox.ts, as operators on its fields.      *)
(*                                                                         *)
(* What Pi does is observed, waits as pending, and is then assigned to     *)
(* numbers that it keeps.  Assigned events stay, in memory and in the      *)
(* spool file, until the daemon acknowledges them.  An outbox that grows   *)
(* beyond its limit replaces what is pending by a gap record, and is       *)
(* degraded until that record is acknowledged.                             *)
(*                                                                         *)
(* Observations are numbered, which the code does not do: `of` says which  *)
(* ones an item carries or, for a gap, stands for.                         *)
(***************************************************************************)
EXTENDS Integers, Sequences, FiniteSets, Functions

CONSTANTS
    MaxItems,   \* options.maxItems
    MaxBytes    \* options.maxBytes; here an observation is the unit

ASSUME OutboxAssumption == MaxItems \in Nat /\ MaxBytes \in Nat

\* "delta" has a coalesceKey, "must" is mandatory, "snap" is mandatory and a snapshot,
\* "plain" is none of these.
Kinds == {"delta", "plain", "must", "snap", "gap"}
Items == [kind : Kinds, of : SUBSET Nat]

\* `number` is processSequence; `by` tells apart the UUIDs that different outboxes give.
Numbered == [number : Nat \ {0}, by : Nat, item : Items]

NoEvents == [n \in {} |-> 0]

EmptySpool == [assigned |-> NoEvents, next |-> 1, degraded |-> FALSE, through |-> 0]

\* The file, as #persist writes it; `through` is #recoveryThroughSequence, 0 for undefined.
SpoolOf(b) == [assigned |-> b.assigned, next |-> b.next,
               degraded |-> b.degraded, through |-> b.through]

\* The constructor.
Load(s) == [pending |-> <<>>, assigned |-> s.assigned, next |-> s.next,
            degraded |-> s.degraded, through |-> s.through]

----------------------------------------------------------------------------
PendingOf(b, kind) == {k \in DOMAIN b.pending : b.pending[k].kind = kind}

\* What is pending, and what would be sent with it.
PendingObservations(b) == UNION {b.pending[k].of : k \in DOMAIN b.pending}
Carried(b) ==
    UNION {b.pending[k].of : k \in DOMAIN b.pending \ PendingOf(b, "gap")}
       \cup UNION {b.assigned[n].item.of : n \in {m \in DOMAIN b.assigned : b.assigned[m].item.kind # "gap"}}

\* #fits
Fits(b) ==
    /\ Cardinality(DOMAIN b.assigned) + Len(b.pending) <= MaxItems
    /\ Cardinality(Carried(b)) <= MaxBytes

Gap(observations) == [kind |-> "gap", of |-> observations]

DegradeAll(b) == [b EXCEPT !.degraded = TRUE, !.pending = <<Gap({})>>, !.assigned = NoEvents]

\* #degrade: a gap record and the latest snapshot, if that fits, replace what is pending.
Degrade(b) ==
    LET bare == [b EXCEPT !.degraded = TRUE, !.pending = <<Gap(PendingObservations(b))>>]
        with(k) == [bare EXCEPT !.pending = <<Gap(PendingObservations(b) \ b.pending[k].of), b.pending[k]>>]
    IN  IF \E k \in PendingOf(b, "snap") : Fits(with(k))
        THEN with(CHOOSE k \in PendingOf(b, "snap") : Fits(with(k)))
        ELSE bare

Bounded(b) == IF Fits(b) THEN b ELSE Degrade(b)

Coalesced(b, i) ==
    LET k == CHOOSE k \in PendingOf(b, "delta") : TRUE
    IN  [b EXCEPT !.pending[k].of = @ \cup i.of]

\* A new snapshot supersedes the one that is pending; there is never more than one.
Unsuperseded(b, i) ==
    IF i.kind = "snap" /\ PendingOf(b, "snap") # {}
    THEN LET k == CHOOSE k \in PendingOf(b, "snap") : TRUE
         IN  [j \in 1 .. (Len(b.pending) - 1) |-> b.pending[IF j < k THEN j ELSE j + 1]]
    ELSE b.pending

ObserveMuteless(b, i) ==
    IF i.kind = "delta" /\ PendingOf(b, "delta") # {}
    THEN Bounded(Coalesced(b, i))
    ELSE Bounded([b EXCEPT !.pending = <<i>> \o Unsuperseded(b, i)])

\* `observe`.  A degraded outbox takes mandatory items and snapshots only.
Observe(b, i) ==
    IF b.degraded /\ i.kind \notin {"must", "snap"}
    THEN b
    ELSE IF i.kind = "delta" /\ PendingOf(b, "delta") # {}
    THEN Bounded(Coalesced(b, i))
    ELSE Bounded([b EXCEPT !.pending = Append(Unsuperseded(b, i), i)])

\* `assign`, by outbox r: what is pending gets the next numbers.
Assign(b, r) ==
    LET last == b.next + Len(b.pending) - 1
    IN  [pending |-> <<>>,
         assigned |-> [n \in DOMAIN b.assigned \cup (b.next .. last) |->
                         IF n < b.next THEN b.assigned[n]
                         ELSE [number |-> n, by |-> r, item |-> b.pending[n - b.next + 1]]],
         next |-> last + 1,
         degraded |-> b.degraded,
         through |-> IF b.degraded /\ b.through = 0 /\ PendingOf(b, "gap") # {}
                     THEN last ELSE b.through]

ResumableAlways(b, n) == 1 <= n

\* `resumeFrom` accepts what the daemon says, or throws resume_conflict.
Resumable(b, n) == 1 <= n /\ n <= b.next
ResumeFrom(b, n) == [b EXCEPT !.assigned = Restrict(@, {m \in DOMAIN @ : m >= n})]

AcknowledgeEarly(b, n) == [b EXCEPT !.assigned = Restrict(@, {m \in DOMAIN @ : m > n + 1})]

\* `acknowledge`
Acknowledge(b, n) ==
    LET kept == [b EXCEPT !.assigned = Restrict(@, {m \in DOMAIN @ : m > n})]
    IN  IF b.degraded /\ b.through # 0 /\ n >= b.through
        THEN [kept EXCEPT !.degraded = FALSE, !.through = 0]
        ELSE kept
=============================================================================

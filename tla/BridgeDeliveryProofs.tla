------------------------- MODULE BridgeDeliveryProofs -------------------------
(***************************************************************************)
(* What an instance has numbered is kept until it is committed, no number  *)
(* is used for two events, mandatory events are committed in order and     *)
(* none goes unaccounted for: for any limits of the outbox, any number of  *)
(* sessions, sockets, observations and faults.                             *)
(***************************************************************************)
EXTENDS BridgeDelivery, NumberSetsProofs, SequenceTheorems

----------------------------------------------------------------------------
(* Batches and boxes *)

Batches == UNION {[S -> Numbered] : S \in SUBSET (Nat \ {0})}
Boxes == [pending : Seq(Items), assigned : Batches, next : Nat \ {0}, degraded : BOOLEAN, through : Nat]
Spools == [assigned : Batches, next : Nat \ {0}, degraded : BOOLEAN, through : Nat]

LEMMA BatchShape ==
  ASSUME NEW f \in Batches
  PROVE  /\ DOMAIN f \subseteq Nat \ {0}
         /\ f = [n \in DOMAIN f |-> f[n]]
         /\ \A n \in DOMAIN f : f[n] \in Numbered /\ f[n].item \in Items
  BY DEF Batches, Numbered

LEMMA IsBatch ==
  ASSUME NEW S \in SUBSET (Nat \ {0}), NEW f \in [S -> Numbered]
  PROVE  f \in Batches
  BY DEF Batches

LEMMA NoBatch == NoEvents \in Batches /\ DOMAIN NoEvents = {}
<1>1. {} \in SUBSET (Nat \ {0}) /\ NoEvents \in [{} -> Numbered] /\ DOMAIN NoEvents = {}
  BY DEF NoEvents
<1> QED BY <1>1, IsBatch

LEMMA BoxShape ==
  ASSUME NEW b \in Boxes
  PROVE  /\ b.pending \in Seq(Items) /\ Len(b.pending) \in Nat /\ DOMAIN b.pending = 1 .. Len(b.pending)
         /\ \A k \in DOMAIN b.pending : b.pending[k] \in Items
         /\ b.assigned \in Batches /\ b.next \in Nat \ {0} /\ b.degraded \in BOOLEAN /\ b.through \in Nat
         /\ PendingObservations(b) \in SUBSET Nat
<1>1. b.pending \in Seq(Items)
  BY DEF Boxes
<1>2. \A k \in DOMAIN b.pending : b.pending[k] \in Items
  BY <1>1
<1>3. PendingObservations(b) \in SUBSET Nat
  BY <1>2 DEF PendingObservations, Items
<1> QED BY <1>1, <1>2, <1>3 DEF Boxes

\* c has the numbers of b.
SameNumbers(c, b) ==
    /\ c.assigned = b.assigned
    /\ c.next = b.next
    /\ c.through = b.through

\* c is b with what was pending replaced by a gap record and perhaps its snapshot.
Gapped(c, b) ==
    /\ SameNumbers(c, b)
    /\ PendingObservations(c) = PendingObservations(b)
    /\ \A k \in DOMAIN c.pending :
          /\ c.pending[k].kind # "must"
          /\ c.pending[k].kind = "snap" => \E j \in DOMAIN b.pending : c.pending[k] = b.pending[j]

LEMMA DegradeShape ==
  ASSUME NEW b \in Boxes
  PROVE  Degrade(b) \in Boxes /\ Gapped(Degrade(b), b)
<1> DEFINE bare == [b EXCEPT !.degraded = TRUE, !.pending = <<Gap(PendingObservations(b))>>]
           with(k) == [bare EXCEPT !.pending = <<Gap(PendingObservations(b) \ b.pending[k].of), b.pending[k]>>]
<1>1. /\ PendingObservations(b) \in SUBSET Nat
      /\ \A k \in DOMAIN b.pending : b.pending[k] \in Items
  BY BoxShape
<1>2. \A S \in SUBSET Nat : Gap(S) \in Items /\ Gap(S).of = S /\ Gap(S).kind = "gap"
  BY DEF Gap, Items, Kinds
<1>3. bare \in Boxes /\ Gapped(bare, b)
  <2>1. <<Gap(PendingObservations(b))>> \in Seq(Items)
    BY <1>1, <1>2
  <2>2. bare \in Boxes
    BY <2>1 DEF Boxes
  <2>3. bare.pending = <<Gap(PendingObservations(b))>> /\ SameNumbers(bare, b)
    BY DEF Boxes, SameNumbers
  <2>4. PendingObservations(bare) = PendingObservations(b)
    BY <1>1, <1>2, <2>3 DEF PendingObservations
  <2> HIDE DEF bare
  <2> QED BY <1>1, <1>2, <2>2, <2>3, <2>4 DEF Gapped
<1>4. ASSUME NEW k \in PendingOf(b, "snap") PROVE with(k) \in Boxes /\ Gapped(with(k), b)
  <2> DEFINE rest == PendingObservations(b) \ b.pending[k].of
             two == <<Gap(rest), b.pending[k]>>
  <2>1. k \in DOMAIN b.pending /\ rest \in SUBSET Nat /\ b.pending[k] \in Items /\ b.pending[k].kind = "snap"
    BY <1>1 DEF PendingOf
  <2>2. b.pending[k].of \subseteq PendingObservations(b)
    BY <2>1 DEF PendingObservations
  <2>3. two \in Seq(Items) /\ DOMAIN two = 1 .. 2 /\ two[1] = Gap(rest) /\ two[2] = b.pending[k]
    BY <1>2, <2>1
  <2>4. with(k) \in Boxes /\ with(k).pending = two /\ SameNumbers(with(k), b)
    BY <1>3, <2>3 DEF Boxes, SameNumbers
  <2>5. UNION {two[j].of : j \in DOMAIN two} = two[1].of \cup two[2].of
    <3> HIDE DEF two
    <3> QED BY <2>3
  <2>6. PendingObservations(with(k)) = PendingObservations(b)
    <3> HIDE DEF with, two
    <3> QED BY <1>2, <2>1, <2>2, <2>3, <2>4, <2>5 DEF PendingObservations
  <2>7. \A j \in DOMAIN two : two[j] = Gap(rest) \/ two[j] = b.pending[k]
    <3> HIDE DEF two
    <3> QED BY <2>3
  <2> HIDE DEF with, two
  <2> QED BY <1>2, <2>1, <2>4, <2>6, <2>7 DEF Gapped
<1> HIDE DEF bare, with
<1>5. Degrade(b) = IF \E k \in PendingOf(b, "snap") : Fits(with(k))
                   THEN with(CHOOSE k \in PendingOf(b, "snap") : Fits(with(k))) ELSE bare
  BY DEF Degrade, with, bare
<1> QED BY <1>3, <1>4, <1>5

LEMMA BoundedShape ==
  ASSUME NEW b \in Boxes
  PROVE  Bounded(b) \in Boxes /\ (Bounded(b) = b \/ Gapped(Bounded(b), b))
  BY DegradeShape DEF Bounded

\* What i may change when it is observed in b.  Nothing but a superseded snapshot goes
\* unaccounted for, and mandatory items keep their order, with i after them.
Taken(c, b, i) ==
    /\ SameNumbers(c, b)
    /\ \A m \in PendingObservations(c) : m \in PendingObservations(b) \cup i.of
    /\ i.kind \in {"must", "snap"} => i.of \subseteq PendingObservations(c)
    /\ \A j \in DOMAIN b.pending :
          b.pending[j].kind # "snap" => b.pending[j].of \subseteq PendingObservations(c)
    /\ \A k \in DOMAIN c.pending : c.pending[k].kind \in {"must", "snap"} =>
          c.pending[k] = i \/ \E j \in DOMAIN b.pending : c.pending[k] = b.pending[j]
    /\ \A k, l \in DOMAIN c.pending : k < l /\ c.pending[k].kind = "must" /\ c.pending[l].kind = "must" =>
          \E j \in DOMAIN b.pending :
             /\ c.pending[k] = b.pending[j]
             /\ c.pending[l] = i \/ \E h \in DOMAIN b.pending : j < h /\ c.pending[l] = b.pending[h]

LEMMA CoalescedShape ==
  ASSUME NEW b \in Boxes, NEW i \in Items, i.kind = "delta", PendingOf(b, "delta") # {}
  PROVE  Coalesced(b, i) \in Boxes /\ Taken(Coalesced(b, i), b, i)
<1> DEFINE d == CHOOSE k \in PendingOf(b, "delta") : TRUE
           c == Coalesced(b, i)
<1>1. d \in DOMAIN b.pending /\ b.pending[d].kind = "delta"
  BY DEF PendingOf
<1>2. c = [b EXCEPT !.pending[d].of = @ \cup i.of]
  BY DEF Coalesced
<1> HIDE DEF d, c
<1>3. /\ b.pending \in Seq(Items) /\ DOMAIN b.pending = 1 .. Len(b.pending) /\ Len(b.pending) \in Nat
      /\ \A k \in DOMAIN b.pending : b.pending[k] \in Items
  BY BoxShape
<1> DEFINE more == [b.pending[d] EXCEPT !.of = @ \cup i.of]
<1>4. more \in Items /\ more.kind = "delta" /\ more.of = b.pending[d].of \cup i.of
  BY <1>1, <1>3 DEF Items
<1>5. c.pending = [b.pending EXCEPT ![d] = more] /\ SameNumbers(c, b) /\ c.degraded = b.degraded
  BY <1>2 DEF Boxes, SameNumbers
<1> HIDE DEF more
<1>6. /\ c.pending \in Seq(Items) /\ DOMAIN c.pending = DOMAIN b.pending
      /\ \A k \in DOMAIN b.pending : c.pending[k] = IF k = d THEN more ELSE b.pending[k]
  <2> HIDE DEF c
  <2> QED BY <1>1, <1>3, <1>4, <1>5, ExceptSeq
<1>7. c \in Boxes
  <2>1. c = [pending |-> c.pending, assigned |-> b.assigned, next |-> b.next,
             degraded |-> b.degraded, through |-> b.through]
    BY <1>2 DEF Boxes
  <2> QED BY <2>1, <1>6 DEF Boxes
<1>8. Taken(c, b, i)
  <2>1. \A k \in DOMAIN c.pending : c.pending[k].of \subseteq PendingObservations(b) \cup i.of
    BY <1>1, <1>4, <1>6 DEF PendingObservations
  <2>2. \A j \in DOMAIN b.pending : b.pending[j].of \subseteq PendingObservations(c)
    BY <1>1, <1>4, <1>6 DEF PendingObservations
  <2>3. i.of \subseteq PendingObservations(c)
    BY <1>1, <1>4, <1>6 DEF PendingObservations
  <2>4. \A m \in PendingObservations(c) : m \in PendingObservations(b) \cup i.of
    BY <2>1 DEF PendingObservations
  <2>5. \A k \in DOMAIN c.pending : c.pending[k].kind \in {"must", "snap"} => k # d /\ c.pending[k] = b.pending[k]
    BY <1>4, <1>6
  <2> QED BY <1>3, <1>5, <1>6, <2>2, <2>3, <2>4, <2>5 DEF Taken
<1> QED BY <1>7, <1>8 DEF c

LEMMA UnsupersededShape ==
  ASSUME NEW b \in Boxes, NEW i \in Items
  PROVE  LET u == Unsuperseded(b, i)
         IN  /\ u \in Seq(Items)
             /\ \A k \in DOMAIN u : \E j \in DOMAIN b.pending : u[k] = b.pending[j]
             /\ \A k, l \in DOMAIN u : k < l =>
                   \E j, h \in DOMAIN b.pending : j < h /\ u[k] = b.pending[j] /\ u[l] = b.pending[h]
             /\ \A j \in DOMAIN b.pending : b.pending[j].kind # "snap" => \E k \in DOMAIN u : u[k] = b.pending[j]
<1> DEFINE u == Unsuperseded(b, i)
           p == b.pending
<1>1. p \in Seq(Items) /\ DOMAIN p = 1 .. Len(p) /\ Len(p) \in Nat /\ \A k \in DOMAIN p : p[k] \in Items
  BY BoxShape
<1>2. CASE i.kind = "snap" /\ PendingOf(b, "snap") # {}
  <2> DEFINE d == CHOOSE k \in PendingOf(b, "snap") : TRUE
  <2>1. d \in DOMAIN p /\ p[d].kind = "snap"
    BY <1>2 DEF PendingOf
  <2>2. u = [j \in 1 .. (Len(p) - 1) |-> p[IF j < d THEN j ELSE j + 1]]
    BY <1>2 DEF Unsuperseded
  <2> HIDE DEF d, u, p
  <2>3. \A j \in 1 .. (Len(p) - 1) : (IF j < d THEN j ELSE j + 1) \in DOMAIN p
    BY <1>1, <2>1
  <2>4. u \in Seq(Items) /\ DOMAIN u = 1 .. (Len(p) - 1)
    BY <1>1, <2>1, <2>2, <2>3
  <2>5. ASSUME NEW k \in DOMAIN u, NEW l \in DOMAIN u, k < l
        PROVE  \E j, h \in DOMAIN p : j < h /\ u[k] = p[j] /\ u[l] = p[h]
    <3>1. /\ u[k] = p[IF k < d THEN k ELSE k + 1]
          /\ u[l] = p[IF l < d THEN l ELSE l + 1]
          /\ (IF k < d THEN k ELSE k + 1) < (IF l < d THEN l ELSE l + 1)
      BY <1>1, <2>1, <2>2, <2>4, <2>5
    <3> QED BY <2>3, <2>4, <3>1
  <2>6. ASSUME NEW j \in DOMAIN p, p[j].kind # "snap" PROVE \E k \in DOMAIN u : u[k] = p[j]
    <3>1. CASE j < d
      BY <1>1, <2>1, <2>2, <2>4, <3>1
    <3>2. CASE j > d
      <4>1. j - 1 \in DOMAIN u /\ u[j - 1] = p[j]
        BY <1>1, <2>1, <2>2, <2>4, <3>2
      <4> QED BY <4>1
    <3> QED BY <1>1, <2>1, <2>6, <3>1, <3>2
  <2>7. \A k \in DOMAIN u : \E j \in DOMAIN p : u[k] = p[j]
    BY <2>2, <2>3, <2>4
  <2> QED BY <2>4, <2>5, <2>6, <2>7 DEF u, p
<1>3. CASE ~(i.kind = "snap" /\ PendingOf(b, "snap") # {})
  <2>1. u = p
    BY <1>3 DEF Unsuperseded
  <2> HIDE DEF u, p
  <2>2. \A k, l \in DOMAIN u : k < l => \E j, h \in DOMAIN p : j < h /\ u[k] = p[j] /\ u[l] = p[h]
    BY <2>1
  <2> QED BY <1>1, <2>1, <2>2 DEF u, p
<1> QED BY <1>2, <1>3

LEMMA AppendedShape ==
  ASSUME NEW b \in Boxes, NEW i \in Items
  PROVE  LET c == [b EXCEPT !.pending = Append(Unsuperseded(b, i), i)]
         IN  c \in Boxes /\ Taken(c, b, i)
<1> DEFINE u == Unsuperseded(b, i)
           q == Append(u, i)
           c == [b EXCEPT !.pending = q]
<1>1. /\ u \in Seq(Items)
      /\ \A k \in DOMAIN u : \E j \in DOMAIN b.pending : u[k] = b.pending[j]
      /\ \A k, l \in DOMAIN u : k < l =>
            \E j, h \in DOMAIN b.pending : j < h /\ u[k] = b.pending[j] /\ u[l] = b.pending[h]
      /\ \A j \in DOMAIN b.pending : b.pending[j].kind # "snap" => \E k \in DOMAIN u : u[k] = b.pending[j]
  BY UnsupersededShape
<1> HIDE DEF u
<1>2. /\ q \in Seq(Items) /\ Len(u) \in Nat /\ DOMAIN u = 1 .. Len(u) /\ DOMAIN q = 1 .. (Len(u) + 1)
      /\ \A k \in DOMAIN u : q[k] = u[k]
      /\ q[Len(u) + 1] = i
  BY <1>1
<1> HIDE DEF q
<1>3. c \in Boxes /\ c.pending = q /\ SameNumbers(c, b)
  BY <1>2 DEF Boxes, SameNumbers
<1> HIDE DEF c
<1>4. \A k \in DOMAIN q : q[k] = i \/ (k \in DOMAIN u /\ q[k] = u[k])
  BY <1>2
<1>5. \A k \in DOMAIN q : q[k] = i \/ \E j \in DOMAIN b.pending : q[k] = b.pending[j]
  BY <1>1, <1>4
<1>6. ASSUME NEW k \in DOMAIN q, NEW l \in DOMAIN q, k < l
      PROVE  \E j \in DOMAIN b.pending :
                /\ q[k] = b.pending[j]
                /\ q[l] = i \/ \E h \in DOMAIN b.pending : j < h /\ q[l] = b.pending[h]
  <2>1. k \in DOMAIN u /\ q[k] = u[k]
    BY <1>2, <1>6
  <2>2. CASE l = Len(u) + 1
    BY <1>1, <1>2, <2>1, <2>2
  <2>3. CASE l # Len(u) + 1
    <3>1. l \in DOMAIN u /\ q[l] = u[l]
      BY <1>2, <2>3
    <3> QED BY <1>1, <1>6, <2>1, <3>1
  <2> QED BY <2>2, <2>3
<1>7. \A m \in PendingObservations(c) : m \in PendingObservations(b) \cup i.of
  BY <1>3, <1>5 DEF PendingObservations
<1>8. i.of \subseteq PendingObservations(c)
  <2>1. Len(u) + 1 \in DOMAIN q
    BY <1>2
  <2> QED BY <1>2, <1>3, <2>1 DEF PendingObservations
<1>9. ASSUME NEW j \in DOMAIN b.pending, b.pending[j].kind # "snap"
      PROVE  b.pending[j].of \subseteq PendingObservations(c)
  <2>1. PICK k \in DOMAIN u : u[k] = b.pending[j]
    BY <1>1, <1>9
  <2>2. k \in DOMAIN q /\ q[k] = b.pending[j]
    BY <1>2, <2>1
  <2> QED BY <1>3, <2>2 DEF PendingObservations
<1>10. Taken(c, b, i)
  BY <1>3, <1>5, <1>6, <1>7, <1>8, <1>9 DEF Taken
<1> QED BY <1>3, <1>10 DEF c, q, u

LEMMA TakenBounded ==
  ASSUME NEW b \in Boxes, NEW i \in Items, NEW c \in Boxes, Taken(c, b, i)
  PROVE  Bounded(c) \in Boxes /\ Taken(Bounded(c), b, i)
<1>1. Bounded(c) \in Boxes /\ (Bounded(c) = c \/ Gapped(Bounded(c), c))
  BY BoundedShape
<1>2. ASSUME NEW g, Gapped(g, c) PROVE Taken(g, b, i)
  <2>1. SameNumbers(g, b)
    BY <1>2 DEF Gapped, Taken, SameNumbers
  <2>2. PendingObservations(g) = PendingObservations(c)
    BY <1>2 DEF Gapped
  <2>3. \A k \in DOMAIN g.pending :
           /\ g.pending[k].kind # "must"
           /\ g.pending[k].kind = "snap" =>
                 g.pending[k] = i \/ \E j \in DOMAIN b.pending : g.pending[k] = b.pending[j]
    BY <1>2 DEF Gapped, Taken
  <2> QED BY <2>1, <2>2, <2>3 DEF Taken
<1> QED BY <1>1, <1>2

\* What an observation does to an outbox.
LEMMA ObserveShape ==
  ASSUME NEW b \in Boxes, NEW i \in Items
  PROVE  Observe(b, i) \in Boxes /\ Taken(Observe(b, i), b, i)
<1>1. CASE b.degraded /\ i.kind \notin {"must", "snap"}
  <2>1. Observe(b, i) = b
    BY <1>1 DEF Observe
  <2>2. \A j \in DOMAIN b.pending : b.pending[j].of \subseteq PendingObservations(b)
    BY DEF PendingObservations
  <2>3. Taken(b, b, i)
    BY <1>1, <2>2 DEF Taken, SameNumbers
  <2> QED BY <2>1, <2>3
<1>2. CASE ~(b.degraded /\ i.kind \notin {"must", "snap"}) /\ i.kind = "delta" /\ PendingOf(b, "delta") # {}
  <2>1. Observe(b, i) = Bounded(Coalesced(b, i))
    BY <1>2 DEF Observe
  <2> QED BY <1>2, <2>1, CoalescedShape, TakenBounded
<1>3. CASE ~(b.degraded /\ i.kind \notin {"must", "snap"}) /\ ~(i.kind = "delta" /\ PendingOf(b, "delta") # {})
  <2>1. Observe(b, i) = Bounded([b EXCEPT !.pending = Append(Unsuperseded(b, i), i)])
    BY <1>3 DEF Observe
  <2> QED BY <2>1, AppendedShape, TakenBounded
<1> QED BY <1>1, <1>2, <1>3

\* What an assignment does to it.
LEMMA AssignShape ==
  ASSUME NEW b \in Boxes, NEW r \in Nat, \A n \in DOMAIN b.assigned : n < b.next
  PROVE  LET c == Assign(b, r)
             last == b.next + Len(b.pending) - 1
         IN  /\ c \in Boxes
             /\ c.pending = <<>>
             /\ last + 1 \in Nat \ {0}
             /\ b.next <= last + 1
             /\ c.next = last + 1
             /\ DOMAIN c.assigned = DOMAIN b.assigned \cup (b.next .. last)
             /\ \A n \in DOMAIN b.assigned : c.assigned[n] = b.assigned[n]
             /\ \A n \in b.next .. last :
                   /\ n - b.next + 1 \in DOMAIN b.pending
                   /\ c.assigned[n] = [number |-> n, by |-> r, item |-> b.pending[n - b.next + 1]]
<1> DEFINE last == b.next + Len(b.pending) - 1
           new == [n \in DOMAIN b.assigned \cup (b.next .. last) |->
                     IF n < b.next THEN b.assigned[n]
                     ELSE [number |-> n, by |-> r, item |-> b.pending[n - b.next + 1]]]
           through == IF b.degraded /\ b.through = 0 /\ PendingOf(b, "gap") # {} THEN last ELSE b.through
<1>1. /\ DOMAIN b.pending = 1 .. Len(b.pending) /\ Len(b.pending) \in Nat
      /\ \A k \in DOMAIN b.pending : b.pending[k] \in Items
      /\ b.next \in Nat \ {0} /\ b.degraded \in BOOLEAN /\ b.through \in Nat
      /\ b.assigned \in Batches
  BY BoxShape
<1>2. DOMAIN b.assigned \subseteq Nat \ {0} /\ \A n \in DOMAIN b.assigned : b.assigned[n] \in Numbered
  BY <1>1, BatchShape
<1>3. last \in Nat /\ last + 1 \in Nat \ {0} /\ b.next <= last + 1
  BY <1>1
<1> HIDE DEF last
<1>4. ASSUME NEW n \in b.next .. last
      PROVE  /\ n \in Nat \ {0} /\ ~(n < b.next)
             /\ n - b.next + 1 \in DOMAIN b.pending
             /\ new[n] = [number |-> n, by |-> r, item |-> b.pending[n - b.next + 1]]
             /\ new[n] \in Numbered
  <2>1. n \in Nat \ {0} /\ ~(n < b.next) /\ n - b.next + 1 \in DOMAIN b.pending
    BY <1>1, <1>3 DEF last
  <2>2. new[n] = [number |-> n, by |-> r, item |-> b.pending[n - b.next + 1]]
    BY <2>1
  <2> HIDE DEF new
  <2> QED BY <1>1, <2>1, <2>2 DEF Numbered
<1>5. \A n \in DOMAIN b.assigned : new[n] = b.assigned[n]
  OBVIOUS
<1>6. DOMAIN new = DOMAIN b.assigned \cup (b.next .. last)
  OBVIOUS
<1>7. new \in Batches
  <2>1. new \in [DOMAIN new -> Numbered]
    BY <1>2, <1>4, <1>5, <1>6
  <2>2. DOMAIN new \in SUBSET (Nat \ {0})
    BY <1>2, <1>4, <1>6
  <2> HIDE DEF new
  <2> QED BY <2>1, <2>2, IsBatch
<1>8. Assign(b, r) = [pending |-> <<>>, assigned |-> new, next |-> last + 1, degraded |-> b.degraded, through |-> through]
  BY DEF Assign, last
<1>9. through \in Nat
  BY <1>1, <1>3
<1> HIDE DEF new, through
<1>10. Assign(b, r) \in Boxes
  BY <1>1, <1>3, <1>7, <1>8, <1>9 DEF Boxes
<1> QED BY <1>3, <1>4, <1>5, <1>6, <1>8, <1>10 DEF last

\* c is b without its numbers below n.
Trimmed(c, b, n) ==
    /\ c.pending = b.pending
    /\ c.next = b.next
    /\ DOMAIN c.assigned = {m \in DOMAIN b.assigned : m >= n}
    /\ \A m \in DOMAIN c.assigned : c.assigned[m] = b.assigned[m]

LEMMA RestrictBatch ==
  ASSUME NEW f \in Batches, NEW S \in SUBSET DOMAIN f
  PROVE  /\ Restrict(f, S) \in Batches
         /\ DOMAIN Restrict(f, S) = S
         /\ \A m \in S : Restrict(f, S)[m] = f[m]
<1>1. Restrict(f, S) \in [S -> Numbered] /\ S \in SUBSET (Nat \ {0})
  BY BatchShape DEF Restrict
<1> QED BY <1>1, IsBatch DEF Restrict

LEMMA ResumeShape ==
  ASSUME NEW b \in Boxes, NEW n \in Nat
  PROVE  ResumeFrom(b, n) \in Boxes /\ Trimmed(ResumeFrom(b, n), b, n)
<1> DEFINE S == {m \in DOMAIN b.assigned : m >= n}
           f == Restrict(b.assigned, S)
<1>1. f \in Batches /\ DOMAIN f = S /\ \A m \in S : f[m] = b.assigned[m]
  BY BoxShape, RestrictBatch
<1>2. ResumeFrom(b, n) = [b EXCEPT !.assigned = f]
  BY DEF ResumeFrom, Boxes
<1> HIDE DEF f
<1> QED BY <1>1, <1>2 DEF Boxes, Trimmed

LEMMA AcknowledgeShape ==
  ASSUME NEW b \in Boxes, NEW n \in Nat
  PROVE  Acknowledge(b, n) \in Boxes /\ Trimmed(Acknowledge(b, n), b, n + 1)
<1> DEFINE S == {m \in DOMAIN b.assigned : m > n}
           f == Restrict(b.assigned, S)
           kept == [b EXCEPT !.assigned = f]
<1>1. f \in Batches /\ DOMAIN f = S /\ \A m \in S : f[m] = b.assigned[m]
  BY BoxShape, RestrictBatch
<1>2. \A m \in DOMAIN b.assigned : m > n <=> m >= n + 1
  BY BoxShape, BatchShape
<1>3. Acknowledge(b, n) = kept \/ Acknowledge(b, n) = [kept EXCEPT !.degraded = FALSE, !.through = 0]
  BY DEF Acknowledge, Boxes
<1> HIDE DEF f
<1>4. kept \in Boxes /\ Trimmed(kept, b, n + 1)
  BY <1>1, <1>2 DEF Boxes, Trimmed
<1> HIDE DEF kept
<1>5. ASSUME NEW c, c = [kept EXCEPT !.degraded = FALSE, !.through = 0]
      PROVE  c \in Boxes /\ Trimmed(c, b, n + 1)
  <2>1. c \in Boxes /\ c.pending = kept.pending /\ c.next = kept.next /\ c.assigned = kept.assigned
    BY <1>4, <1>5 DEF Boxes
  <2> QED BY <1>4, <2>1 DEF Trimmed
<1> QED BY <1>3, <1>4, <1>5

\* The file, and the outbox that the next session starts from it.
LEMMA SavedShape ==
  ASSUME NEW b \in Boxes
  PROVE  /\ SpoolOf(b) \in Spools
         /\ Load(SpoolOf(b)) \in Boxes
         /\ Load(SpoolOf(b)).pending = <<>>
         /\ SameNumbers(Load(SpoolOf(b)), b)
  BY DEF SpoolOf, Load, Spools, Boxes, SameNumbers

LEMMA LoadShape ==
  ASSUME NEW s \in Spools
  PROVE  Load(s) \in Boxes /\ Load(s).pending = <<>> /\ Load(s).assigned = s.assigned /\ Load(s).next = s.next
  BY DEF Load, Spools, Boxes

LEMMA EmptyShape ==
  /\ EmptySpool \in Spools
  /\ DOMAIN EmptySpool.assigned = {}
  /\ EmptySpool.next = 1
  BY NoBatch DEF EmptySpool, Spools

----------------------------------------------------------------------------
(* What an outbox has to do with the events under way and in the store     *)

\* Mandatory items are observed one after the other.
InOrder(i, j) == i.kind = "must" /\ j.kind = "must" => \A m \in i.of, n \in j.of : m < n

\* Item i comes before all that b has above number n, and before all that is pending.
Precedes(i, b, n) ==
    /\ \A m \in DOMAIN b.assigned : m > n => InOrder(i, b.assigned[m].item)
    /\ \A k \in DOMAIN b.pending : InOrder(i, b.pending[k])

Numbering(b) == \A n \in DOMAIN b.assigned : n < b.next /\ b.assigned[n].number = n

\* Only what has been observed, up to `top`.
Within(b, top) ==
    /\ \A n \in DOMAIN b.assigned : b.assigned[n].item.of \subseteq 1 .. top
    /\ \A k \in DOMAIN b.pending : b.pending[k].of \subseteq 1 .. top

MustsAscend(b) ==
    /\ \A n \in DOMAIN b.assigned : Precedes(b.assigned[n].item, b, n)
    /\ \A j, k \in DOMAIN b.pending : j < k => InOrder(b.pending[j], b.pending[k])

\* While the spool is kept: b has all numbers that were given out from `next` on, those
\* under way among them, and what it has below is in the store.
Keeps(b, sent, done, next) ==
    /\ next <= b.next
    /\ \A n \in next .. (b.next - 1) : n \in DOMAIN b.assigned
    /\ \A e \in sent : e.number < b.next
    /\ \A n \in DOMAIN b.assigned : n < next => b.assigned[n] \in done

\* b is an outbox that goes with the events that are under way, `sent`, and in the store,
\* `done`, which expects number `next`.
Follows(b, top, sent, done, next, kept) ==
    /\ Numbering(b)
    /\ Within(b, top)
    /\ MustsAscend(b)
    /\ \A e \in sent : e.number \in DOMAIN b.assigned => b.assigned[e.number] = e
    /\ \A e \in sent : e.number >= next => Precedes(e.item, b, e.number)
    /\ \A e \in done : Precedes(e.item, b, next - 1)
    /\ kept => Keeps(b, sent, done, next)

\* All observations that are under way or in the store are old.
Old(sent, done, top) == \A e \in sent \cup done : e.item.of \subseteq 1 .. top

LEMMA FollowsLess ==
  ASSUME NEW b \in Boxes, NEW top \in Nat, NEW top2 \in Nat, NEW sent, NEW sent2 \in SUBSET sent, NEW done,
         NEW next, NEW kept \in BOOLEAN, NEW kept2 \in BOOLEAN,
         Follows(b, top, sent, done, next, kept), top <= top2, kept2 => kept
  PROVE  Follows(b, top2, sent2, done, next, kept2)
<1>1. Within(b, top2)
  BY DEF Follows, Within
<1>2. kept2 => Keeps(b, sent2, done, next)
  BY DEF Follows, Keeps
<1> QED BY <1>1, <1>2 DEF Follows

\* An item that is new.
LEMMA FollowsObserve ==
  ASSUME NEW b \in Boxes, NEW top \in Nat, NEW sent \in SUBSET Numbered, NEW done \in SUBSET Numbered,
         NEW next \in Nat \ {0}, NEW kept \in BOOLEAN, NEW i \in Items,
         Follows(b, top, sent, done, next, kept), Old(sent, done, top), i.of = {top + 1}
  PROVE  Follows(Observe(b, i), top + 1, sent, done, next, kept)
<1> DEFINE c == Observe(b, i)
<1>1. c \in Boxes /\ Taken(c, b, i)
  BY ObserveShape
<1> HIDE DEF c
<1>2. c.assigned = b.assigned /\ c.next = b.next
  BY <1>1 DEF Taken, SameNumbers
<1>3. \A k \in DOMAIN c.pending : c.pending[k].kind = "must" =>
         c.pending[k] = i \/ \E j \in DOMAIN b.pending : c.pending[k] = b.pending[j]
  BY <1>1 DEF Taken
<1>4. \A j \in Items : j.of \subseteq 1 .. top => InOrder(j, i)
  BY DEF InOrder, Items
<1>5. \A n \in DOMAIN b.assigned : b.assigned[n].item \in Items /\ b.assigned[n].item.of \subseteq 1 .. top
  BY BoxShape, BatchShape DEF Follows, Within
<1>6. \A k \in DOMAIN b.pending : b.pending[k] \in Items /\ b.pending[k].of \subseteq 1 .. top
  BY BoxShape DEF Follows, Within
<1>7. Within(c, top + 1)
  <2>1. \A S : S \subseteq 1 .. top => S \subseteq 1 .. (top + 1)
    OBVIOUS
  <2>2. \A m \in PendingObservations(c) : m \in 1 .. (top + 1)
    <3>1. \A m \in PendingObservations(b) : m \in 1 .. top
      BY <1>6 DEF PendingObservations
    <3> QED BY <1>1, <3>1 DEF Taken
  <2>3. \A k \in DOMAIN c.pending : c.pending[k].of \subseteq PendingObservations(c)
    BY DEF PendingObservations
  <2> QED BY <1>2, <1>5, <2>1, <2>2, <2>3 DEF Within
<1>8. ASSUME NEW j \in Items, NEW n, Precedes(j, b, n), j.of \subseteq 1 .. top PROVE Precedes(j, c, n)
  <2>1. ASSUME NEW k \in DOMAIN c.pending PROVE InOrder(j, c.pending[k])
    <3>1. CASE c.pending[k].kind # "must"
      BY <3>1 DEF InOrder
    <3>2. CASE c.pending[k].kind = "must"
      BY <1>3, <1>4, <1>8, <3>2 DEF Precedes
    <3> QED BY <3>1, <3>2
  <2> QED BY <1>2, <1>8, <2>1 DEF Precedes
<1>9. MustsAscend(c)
  <2>1. \A n \in DOMAIN c.assigned : Precedes(c.assigned[n].item, c, n)
    BY <1>2, <1>5, <1>8 DEF Follows, MustsAscend
  <2>2. ASSUME NEW k \in DOMAIN c.pending, NEW l \in DOMAIN c.pending, k < l
        PROVE  InOrder(c.pending[k], c.pending[l])
    <3>1. CASE ~(c.pending[k].kind = "must" /\ c.pending[l].kind = "must")
      BY <3>1 DEF InOrder
    <3>2. CASE c.pending[k].kind = "must" /\ c.pending[l].kind = "must"
      <4>1. PICK j \in DOMAIN b.pending :
               /\ c.pending[k] = b.pending[j]
               /\ c.pending[l] = i \/ \E h \in DOMAIN b.pending : j < h /\ c.pending[l] = b.pending[h]
        BY <1>1, <2>2, <3>2 DEF Taken
      <4> QED BY <1>4, <1>6, <4>1 DEF Follows, MustsAscend
    <3> QED BY <3>1, <3>2
  <2> QED BY <2>1, <2>2 DEF MustsAscend
<1>10. \A e \in sent \cup done : e.item \in Items /\ e.item.of \subseteq 1 .. top
  BY DEF Old, Numbered
<1>11. \A e \in sent : e.number >= next => Precedes(e.item, c, e.number)
  BY <1>8, <1>10 DEF Follows
<1>12. \A e \in done : Precedes(e.item, c, next - 1)
  BY <1>8, <1>10 DEF Follows
<1>13. Numbering(c) /\ (kept => Keeps(c, sent, done, next))
  BY <1>2 DEF Follows, Numbering, Keeps
<1>14. \A e \in sent : e.number \in DOMAIN c.assigned => c.assigned[e.number] = e
  BY <1>2 DEF Follows
<1> QED BY <1>7, <1>9, <1>11, <1>12, <1>13, <1>14 DEF Follows, c

\* Numbers for what is pending, when none of those under way is as high.
LEMMA FollowsAssign ==
  ASSUME NEW b \in Boxes, NEW r \in Nat, NEW top \in Nat, NEW sent \in SUBSET Numbered,
         NEW done \in SUBSET Numbered, NEW next \in Nat \ {0}, NEW kept \in BOOLEAN,
         Follows(b, top, sent, done, next, kept), \A e \in sent : e.number < b.next
  PROVE  Follows(Assign(b, r), top, sent, done, next, kept)
<1> DEFINE c == Assign(b, r)
           last == b.next + Len(b.pending) - 1
<1>1. \A n \in DOMAIN b.assigned : n < b.next
  BY DEF Follows, Numbering
<1>2. /\ c \in Boxes
      /\ c.pending = <<>>
      /\ last + 1 \in Nat \ {0}
      /\ b.next <= last + 1
      /\ c.next = last + 1
      /\ DOMAIN c.assigned = DOMAIN b.assigned \cup (b.next .. last)
      /\ \A n \in DOMAIN b.assigned : c.assigned[n] = b.assigned[n]
      /\ \A n \in b.next .. last :
            /\ n - b.next + 1 \in DOMAIN b.pending
            /\ c.assigned[n] = [number |-> n, by |-> r, item |-> b.pending[n - b.next + 1]]
  BY <1>1, AssignShape
<1> HIDE DEF c, last
<1>3. b.next \in Nat \ {0} /\ last \in Int /\ DOMAIN b.assigned \subseteq Nat \ {0} /\ DOMAIN b.pending \subseteq Int
  <2>1. b.next \in Nat \ {0} /\ Len(b.pending) \in Nat /\ DOMAIN b.pending = 1 .. Len(b.pending)
    BY BoxShape
  <2>2. DOMAIN b.assigned \subseteq Nat \ {0}
    BY BoxShape, BatchShape
  <2> QED BY <2>1, <2>2 DEF last
<1>4. DOMAIN c.pending = {}
  BY <1>2
<1>5. ASSUME NEW n \in b.next .. last
      PROVE  c.assigned[n].item = b.pending[n - b.next + 1] /\ c.assigned[n].number = n
  <2>1. c.assigned[n] = [number |-> n, by |-> r, item |-> b.pending[n - b.next + 1]]
    BY <1>2
  <2> QED BY <2>1
<1>6. Numbering(c)
  BY <1>2, <1>3, <1>5 DEF Follows, Numbering
<1>7. Within(c, top)
  BY <1>2, <1>4, <1>5 DEF Follows, Within
<1>8. ASSUME NEW i, NEW n, Precedes(i, b, n) PROVE Precedes(i, c, n)
  <2>1. ASSUME NEW m \in DOMAIN c.assigned, m > n PROVE InOrder(i, c.assigned[m].item)
    <3>1. CASE m \in DOMAIN b.assigned
      BY <1>2, <1>8, <2>1, <3>1 DEF Precedes
    <3>2. CASE m \in b.next .. last
      BY <1>2, <1>5, <1>8, <3>2 DEF Precedes
    <3> QED BY <1>2, <2>1, <3>1, <3>2
  <2> QED BY <1>4, <2>1 DEF Precedes
<1>9. ASSUME NEW n \in DOMAIN c.assigned PROVE Precedes(c.assigned[n].item, c, n)
  <2>1. CASE n \in DOMAIN b.assigned
    BY <1>2, <1>8, <2>1 DEF Follows, MustsAscend
  <2>2. CASE n \in b.next .. last
    <3>1. ASSUME NEW m \in DOMAIN c.assigned, m > n PROVE InOrder(c.assigned[n].item, c.assigned[m].item)
      <4>1. m \in b.next .. last
        BY <1>1, <1>2, <1>3, <2>2, <3>1
      <4>2. /\ n - b.next + 1 \in DOMAIN b.pending /\ m - b.next + 1 \in DOMAIN b.pending
            /\ n - b.next + 1 < m - b.next + 1
        <5>1. n - b.next + 1 \in DOMAIN b.pending /\ m - b.next + 1 \in DOMAIN b.pending
          BY <1>2, <2>2, <4>1
        <5>2. n - b.next + 1 < m - b.next + 1
          BY <1>3, <2>2, <3>1, <4>1
        <5> QED BY <5>1, <5>2
      <4>3. InOrder(b.pending[n - b.next + 1], b.pending[m - b.next + 1])
        BY <4>2 DEF Follows, MustsAscend
      <4> QED BY <1>5, <2>2, <4>1, <4>3
    <3> QED BY <1>4, <3>1 DEF Precedes
  <2> QED BY <1>2, <1>9, <2>1, <2>2
<1>10. MustsAscend(c)
  BY <1>4, <1>9 DEF MustsAscend
<1>11. \A e \in sent : e.number \in DOMAIN c.assigned => c.assigned[e.number] = e
  <2>1. \A e \in sent : e.number \in DOMAIN c.assigned => e.number \in DOMAIN b.assigned
    BY <1>2, <1>3 DEF Numbered
  <2> QED BY <1>2, <2>1 DEF Follows
<1>12. kept => Keeps(c, sent, done, next)
  <2> SUFFICES ASSUME kept PROVE Keeps(c, sent, done, next)
    OBVIOUS
  <2>1. Keeps(b, sent, done, next)
    BY DEF Follows
  <2>2. next <= c.next /\ \A e \in sent : e.number < c.next
    BY <1>2, <1>3, <2>1 DEF Keeps, Numbered
  <2>3. \A n \in next .. (c.next - 1) : n \in DOMAIN c.assigned
    BY <1>2, <1>3, <2>1 DEF Keeps
  <2>4. \A n \in DOMAIN c.assigned : n < next => n \in DOMAIN b.assigned
    BY <1>2, <1>3, <2>1 DEF Keeps
  <2>5. \A n \in DOMAIN c.assigned : n < next => c.assigned[n] \in done
    BY <1>2, <2>1, <2>4 DEF Keeps
  <2> QED BY <2>2, <2>3, <2>5 DEF Keeps
<1>13. /\ \A e \in sent : e.number >= next => Precedes(e.item, c, e.number)
       /\ \A e \in done : Precedes(e.item, c, next - 1)
  BY <1>8 DEF Follows
<1> QED BY <1>6, <1>7, <1>10, <1>11, <1>12, <1>13 DEF Follows, c

\* Numbers are dropped that the store does not expect any more.
LEMMA FollowsTrim ==
  ASSUME NEW b \in Boxes, NEW c \in Boxes, NEW n \in Nat, NEW top \in Nat, NEW sent \in SUBSET Numbered,
         NEW done, NEW next \in Nat \ {0}, NEW kept \in BOOLEAN,
         Follows(b, top, sent, done, next, kept), Trimmed(c, b, n), n <= next
  PROVE  Follows(c, top, sent, done, next, kept)
<1>1. /\ c.pending = b.pending /\ c.next = b.next
      /\ DOMAIN c.assigned \subseteq DOMAIN b.assigned
      /\ \A m \in DOMAIN c.assigned : c.assigned[m] = b.assigned[m]
  BY DEF Trimmed
<1>2. \A i, k : Precedes(i, b, k) => Precedes(i, c, k)
  BY <1>1 DEF Precedes
<1>3. Numbering(c) /\ Within(c, top)
  BY <1>1 DEF Follows, Numbering, Within
<1>4. MustsAscend(c)
  BY <1>1, <1>2 DEF Follows, MustsAscend
<1>5. kept => Keeps(c, sent, done, next)
  <2> SUFFICES ASSUME kept PROVE Keeps(c, sent, done, next)
    OBVIOUS
  <2>1. Keeps(b, sent, done, next) /\ b.next \in Nat
    BY BoxShape DEF Follows
  <2>2. \A m \in next .. (c.next - 1) : m \in DOMAIN c.assigned
    BY <1>1, <2>1 DEF Keeps, Trimmed
  <2> QED BY <1>1, <2>1, <2>2 DEF Keeps
<1>6. \A e \in sent : e.number \in DOMAIN c.assigned => c.assigned[e.number] = e
  BY <1>1 DEF Follows
<1> QED BY <1>2, <1>3, <1>4, <1>5, <1>6 DEF Follows

\* The file.
LEMMA FollowsSaved ==
  ASSUME NEW b \in Boxes, NEW top \in Nat, NEW sent, NEW done, NEW next, NEW kept \in BOOLEAN,
         Follows(b, top, sent, done, next, kept)
  PROVE  Follows(Load(SpoolOf(b)), top, sent, done, next, kept)
<1> DEFINE c == Load(SpoolOf(b))
<1>1. c.assigned = b.assigned /\ c.next = b.next /\ c.pending = <<>>
  BY SavedShape DEF SameNumbers
<1> HIDE DEF c
<1>2. DOMAIN c.pending = {}
  BY <1>1
<1>3. \A i, k : Precedes(i, b, k) => Precedes(i, c, k)
  BY <1>1, <1>2 DEF Precedes
<1>4. Numbering(c) /\ Within(c, top) /\ MustsAscend(c) /\ (kept => Keeps(c, sent, done, next))
  BY <1>1, <1>2, <1>3 DEF Follows, Numbering, Within, MustsAscend, Keeps
<1> QED BY <1>1, <1>3, <1>4 DEF Follows, c

\* No file, or one that cannot be read.
LEMMA FollowsEmpty ==
  ASSUME NEW top, NEW sent, NEW done, NEW next, NEW kept, ~kept
  PROVE  Follows(Load(EmptySpool), top, sent, done, next, kept)
<1> DEFINE c == Load(EmptySpool)
<1>1. DOMAIN c.assigned = {} /\ DOMAIN c.pending = {}
  <2>1. c.pending = <<>>
    BY EmptyShape, LoadShape
  <2>2. DOMAIN c.assigned = {}
    BY EmptyShape, LoadShape
  <2> QED BY <2>1, <2>2
<1> HIDE DEF c
<1> QED BY <1>1 DEF Follows, Numbering, Within, MustsAscend, Precedes, c

\* The next event is committed.
LEMMA FollowsCommit ==
  ASSUME NEW b \in Boxes, NEW top \in Nat, NEW sent \in SUBSET Numbered, NEW sent2 \in SUBSET sent,
         NEW done \in SUBSET Numbered, NEW next \in Nat \ {0}, NEW kept \in BOOLEAN,
         Follows(b, top, sent, done, next, kept), NEW e \in sent, e.number = next
  PROVE  Follows(b, top, sent2, done \cup {e}, next + 1, kept)
<1>1. DOMAIN b.assigned \subseteq Nat /\ b.next \in Nat
  BY BoxShape, BatchShape
<1>2. \A i : Precedes(i, b, next - 1) => Precedes(i, b, next)
  BY <1>1 DEF Precedes
<1>3. \A d \in done \cup {e} : Precedes(d.item, b, (next + 1) - 1)
  <2>1. Precedes(e.item, b, next)
    BY DEF Follows
  <2>2. \A d \in done : Precedes(d.item, b, next)
    BY <1>2 DEF Follows
  <2>3. (next + 1) - 1 = next
    OBVIOUS
  <2> QED BY <2>1, <2>2, <2>3
<1>4. \A d \in sent2 : d.number >= next + 1 => Precedes(d.item, b, d.number)
  BY DEF Follows, Numbered
<1>5. kept => Keeps(b, sent2, done \cup {e}, next + 1)
  <2> SUFFICES ASSUME kept PROVE Keeps(b, sent2, done \cup {e}, next + 1)
    OBVIOUS
  <2>1. Keeps(b, sent, done, next)
    BY DEF Follows
  <2>2. next + 1 <= b.next
    BY <1>1, <2>1 DEF Keeps
  <2>3. \A n \in (next + 1) .. (b.next - 1) : n \in DOMAIN b.assigned
    BY <1>1, <2>1 DEF Keeps
  <2>4. \A n \in DOMAIN b.assigned : n < next + 1 => b.assigned[n] \in done \cup {e}
    <3> SUFFICES ASSUME NEW n \in DOMAIN b.assigned, n < next + 1 PROVE b.assigned[n] \in done \cup {e}
      OBVIOUS
    <3>1. CASE n = next
      BY <3>1 DEF Follows
    <3>2. CASE n # next
      BY <1>1, <2>1, <3>2 DEF Keeps
    <3> QED BY <3>1, <3>2
  <2> QED BY <2>1, <2>2, <2>3, <2>4 DEF Keeps
<1> QED BY <1>3, <1>4, <1>5 DEF Follows

\* An outbox sends what it has assigned, and is saved.
EventsOf(f) == {f[n] : n \in DOMAIN f}

LEMMA FollowsPublish ==
  ASSUME NEW b \in Boxes, NEW top \in Nat, NEW sent, NEW done, NEW next, NEW kept \in BOOLEAN,
         Follows(b, top, sent, done, next, kept)
  PROVE  Follows(b, top, sent \cup EventsOf(b.assigned), done, next, kept)
<1>1. \A e \in EventsOf(b.assigned) : e.number \in DOMAIN b.assigned /\ b.assigned[e.number] = e /\ e.number < b.next
  BY DEF EventsOf, Follows, Numbering
<1>2. \A e \in EventsOf(b.assigned) : Precedes(e.item, b, e.number)
  BY <1>1 DEF Follows, MustsAscend
<1>3. kept => Keeps(b, sent \cup EventsOf(b.assigned), done, next)
  BY <1>1 DEF Follows, Keeps
<1> QED BY <1>1, <1>2, <1>3 DEF Follows

----------------------------------------------------------------------------
(* Frames under way and the runtimes they belong to                        *)

UpOwner(k) == owner[up[k].socket]
DownOwner(k) == owner[down[k].socket]

FrameTypes ==
    /\ up \in Seq(UpFrames)
    /\ down \in Seq(DownFrames)
    /\ \A k \in DOMAIN up : up[k].type = "publish" <=> DOMAIN up[k].batch # {}

\* A runtime that has been replaced writes no more: its socket is closed or being closed.
Gone ==
    /\ runtime = 0 <=> phase = "none"
    /\ \A r \in Runtimes : r < runtime \/ (r = runtime /\ phase = "closed") => WireOf(r) \in {"free", "closing"}
    /\ \A r \in Runtimes : r > runtime => ~connected[r]

\* Frames of an earlier runtime are before those of a later one, on the way to the daemon,
\* on the way back and from the one to the other.
InTurn ==
    /\ \A i, j \in DOMAIN up : i < j => UpOwner(i) <= UpOwner(j)
    /\ \A i, j \in DOMAIN down : i < j => DownOwner(i) <= DownOwner(j)
    /\ \A i \in DOMAIN down, j \in DOMAIN up : DownOwner(i) <= UpOwner(j)

\* No frame of a runtime before r is under way.
Leads(r) ==
    /\ \A k \in DOMAIN up : r <= UpOwner(k)
    /\ \A k \in DOMAIN down : r <= DownOwner(k)

\* Who has been registered, and who publishes, has outlived the frames of its predecessors.
Leading ==
    /\ \A r \in Runtimes : r = runtime /\ connected[r] => Leads(r)
    /\ \A k \in DOMAIN up : up[k].type = "publish" => Leads(UpOwner(k))

\* The parts of TypeOK.
PlainTypes ==
    /\ runtime \in 0 .. MaxRuntimes
    /\ enabled \in BOOLEAN
    /\ reached \in BOOLEAN
    /\ phase \in {"none", "open", "closing", "closed"}
    /\ socket \in [Runtimes -> Sockets \cup {NoSocket}]
    /\ connected \in [Runtimes -> BOOLEAN]
    /\ timer \in BOOLEAN
    /\ dials \in Nat
    /\ wire \in [Sockets -> {"free", "connecting", "open", "closing"}]
    /\ owner \in [Sockets -> 0 .. runtime]
    /\ session \in [Sockets -> {"fresh", "welcomed", "bound"}]
    /\ refused \subseteq Sockets
    /\ observed \in Nat
    /\ faults \in [FaultKinds -> Nat]
    /\ phase # "open" => ~timer /\ dials = 0

OwnedSockets ==
    /\ \A s \in Sockets : wire[s] = "free" <=> owner[s] = 0
    /\ \A r \in Runtimes : socket[r] # NoSocket => owner[socket[r]] = r

HeldFrames ==
    /\ \A k \in DOMAIN up : up[k].socket \in Sockets /\ wire[up[k].socket] # "free"
    /\ \A k \in DOMAIN down : down[k].socket \in Sockets /\ wire[down[k].socket] # "free"

FramesInv ==
    /\ HeldFrames
    /\ FrameTypes
    /\ InTurn
    /\ Leading

Boxed ==
    /\ box \in [Runtimes -> Boxes]
    /\ spool \in Spools
    /\ \A r \in Runtimes : Numbering(box[r])
    /\ Numbering(Load(spool))

WireInv ==
    /\ PlainTypes
    /\ OwnedSockets
    /\ Gone
    /\ FramesInv
    /\ Boxed

LEMMA FrameShape ==
  /\ \A f \in UpFrames : f.type \in {"hello", "register", "publish"} /\ f.socket \in Sockets /\ f.batch \in Batches
  /\ \A f \in DownFrames : f.type \in {"welcome", "registered", "ack"} /\ f.socket \in Sockets /\ f.n \in Nat
  /\ \A s \in Sockets : Hello(s) \in UpFrames /\ Registration(s) \in UpFrames
  /\ \A s \in Sockets, f \in Batches : Publish(s, f) \in UpFrames
  /\ \A s \in Sockets, n \in Nat : Welcome(s) \in DownFrames /\ Registered(s, n) \in DownFrames /\ Ack(s, n) \in DownFrames
<1>1. UpFrames = [type : {"hello", "register", "publish"}, socket : Sockets, batch : Batches]
  BY DEF UpFrames, Batches
<1>2. \A s \in Sockets, f \in Batches : Publish(s, f) \in UpFrames
  BY <1>1 DEF Publish
<1>3. \A s \in Sockets : Hello(s) \in UpFrames /\ Registration(s) \in UpFrames
  BY <1>1, NoBatch DEF Hello, Registration
<1>4. \A s \in Sockets, n \in Nat : Welcome(s) \in DownFrames /\ Registered(s, n) \in DownFrames /\ Ack(s, n) \in DownFrames
  BY DEF Welcome, Registered, Ack, DownFrames
<1> QED BY <1>1, <1>2, <1>3, <1>4 DEF DownFrames

\* What is left of frames when those of a socket are lost, in order.
LEMMA OthersShape ==
  ASSUME NEW F, NEW frames \in Seq(F), NEW s
  PROVE  /\ Others(frames, s) \in Seq(F)
         /\ \A i \in DOMAIN Others(frames, s) : Others(frames, s)[i].socket # s
         /\ \E at \in [DOMAIN Others(frames, s) -> DOMAIN frames] :
               /\ \A i \in DOMAIN Others(frames, s) : Others(frames, s)[i] = frames[at[i]]
               /\ \A i, j \in DOMAIN Others(frames, s) : i < j => at[i] < at[j]
<1> DEFINE S == {k \in DOMAIN frames : frames[k].socket # s}
           at == Ascending(S)
           N == Cardinality(S)
           left == Others(frames, s)
<1>1. DOMAIN frames = 1 .. Len(frames) /\ Len(frames) \in Nat
  BY LenProperties
<1>2. S \in SUBSET Int /\ S \in SUBSET (1 .. Len(frames))
  BY <1>1
<1>3. IsFiniteSet(S)
  <2> HIDE DEF S
  <2>1. IsFiniteSet(1 .. Len(frames))
    BY <1>1, FS_Interval
  <2> QED BY <1>2, <2>1, FS_Subset
<1>4. /\ N \in Nat /\ at \in [1 .. N -> S]
      /\ \A i, j \in 1 .. N : i < j => at[i] < at[j]
  <2> HIDE DEF S
  <2> QED BY <1>2, <1>3, AscendingEnumerates
<1>5. left = [i \in DOMAIN at |-> frames[at[i]]]
  BY DEF Others
<1> HIDE DEF at, N, left
<1>6. DOMAIN left = 1 .. N /\ \A i \in 1 .. N : left[i] = frames[at[i]] /\ at[i] \in DOMAIN frames /\ left[i].socket # s
  BY <1>4, <1>5
<1>7. left \in Seq(F)
  <2>1. \A i \in 1 .. N : left[i] \in F
    BY <1>1, <1>6
  <2>2. left \in [1 .. N -> F]
    BY <1>5, <1>6, <2>1
  <2> QED BY <1>4, <2>2
<1>8. at \in [DOMAIN left -> DOMAIN frames]
  BY <1>4, <1>6
<1>9. \A i \in DOMAIN left : left[i] = frames[at[i]]
  BY <1>6
<1>10. \A i, j \in DOMAIN left : i < j => at[i] < at[j]
  BY <1>4, <1>6
<1>11. \E a \in [DOMAIN left -> DOMAIN frames] :
          /\ \A i \in DOMAIN left : left[i] = frames[a[i]]
          /\ \A i, j \in DOMAIN left : i < j => a[i] < a[j]
  BY <1>8, <1>9, <1>10
<1>12. \A i \in DOMAIN left : left[i].socket # s
  BY <1>6
<1> QED BY <1>7, <1>11, <1>12 DEF left

\* What a step leaves of frame g.
PartOf(f, g) ==
    /\ f.type = g.type
    /\ f.socket = g.socket
    /\ DOMAIN f.batch \subseteq DOMAIN g.batch
    /\ DOMAIN f.batch = {} => DOMAIN g.batch = {}
    /\ \A n \in DOMAIN f.batch : f.batch[n] = g.batch[n]

\* A step keeps frames, or loses some.
UpLess ==
    /\ up' \in Seq(UpFrames)
    /\ \E at \in [DOMAIN up' -> DOMAIN up] :
          /\ \A i \in DOMAIN up' : PartOf(up'[i], up[at[i]]) /\ owner'[up'[i].socket] = UpOwner(at[i])
          /\ \A i, j \in DOMAIN up' : i < j => at[i] < at[j]

DownLess ==
    /\ down' \in Seq(DownFrames)
    /\ \E at \in [DOMAIN down' -> DOMAIN down] :
          /\ \A i \in DOMAIN down' : down'[i] = down[at[i]] /\ owner'[down'[i].socket] = DownOwner(at[i])
          /\ \A i, j \in DOMAIN down' : i < j => at[i] < at[j]

\* Or it appends frame f of the latest runtime, or an answer to its first frame.
UpMore(f) ==
    /\ up' = Append(up, f)
    /\ f \in UpFrames
    /\ owner'[f.socket] = runtime
    /\ \A k \in DOMAIN up : owner'[up[k].socket] = UpOwner(k)

DownMore(f) ==
    /\ down' = Append(down, f)
    /\ f \in DownFrames
    /\ up # <<>>
    /\ owner'[f.socket] = UpOwner(1)
    /\ \A k \in DOMAIN down : owner'[down[k].socket] = DownOwner(k)

LEMMA UpSame ==
  ASSUME FrameTypes, up' = up, \A k \in DOMAIN up : owner'[up[k].socket] = UpOwner(k)
  PROVE  UpLess
<1> DEFINE at == [i \in DOMAIN up |-> i]
<1>1. at \in [DOMAIN up' -> DOMAIN up]
  BY DEF FrameTypes
<1>2. \A i, j \in DOMAIN up' : i < j => at[i] < at[j]
  BY DEF FrameTypes
<1>3. \A i \in DOMAIN up' : PartOf(up'[i], up[at[i]]) /\ owner'[up'[i].socket] = UpOwner(at[i])
  BY DEF PartOf
<1> HIDE DEF at
<1> QED BY <1>1, <1>2, <1>3 DEF UpLess, FrameTypes

LEMMA DownSame ==
  ASSUME FrameTypes, down' = down, \A k \in DOMAIN down : owner'[down[k].socket] = DownOwner(k)
  PROVE  DownLess
<1> DEFINE at == [i \in DOMAIN down |-> i]
<1>1. at \in [DOMAIN down' -> DOMAIN down]
  BY DEF FrameTypes
<1>2. \A i, j \in DOMAIN down' : i < j => at[i] < at[j]
  BY DEF FrameTypes
<1>3. \A i \in DOMAIN down' : down'[i] = down[at[i]] /\ owner'[down'[i].socket] = DownOwner(at[i])
  OBVIOUS
<1> HIDE DEF at
<1> QED BY <1>1, <1>2, <1>3 DEF DownLess, FrameTypes

\* The first frame has been handled.
LEMMA DownTail ==
  ASSUME FrameTypes, down # <<>>, down' = Tail(down), owner' = owner
  PROVE  DownLess /\ 1 \in DOMAIN down /\ Head(down) = down[1] /\ down[1] \in DownFrames
<1> DEFINE at == [i \in DOMAIN down' |-> i + 1]
<1>1. /\ down' \in Seq(DownFrames) /\ DOMAIN down' = 1 .. (Len(down) - 1) /\ Len(down) \in Nat
      /\ DOMAIN down = 1 .. Len(down)
      /\ \A i \in DOMAIN down' : down'[i] = down[i + 1]
      /\ 1 \in DOMAIN down /\ Head(down) = down[1] /\ down[1] \in DownFrames
  BY DEF FrameTypes
<1>2. at \in [DOMAIN down' -> DOMAIN down]
  BY <1>1
<1>3. \A i, j \in DOMAIN down' : i < j => at[i] < at[j]
  BY <1>1
<1>4. \A i \in DOMAIN down' : down'[i] = down[at[i]] /\ owner'[down'[i].socket] = DownOwner(at[i])
  BY <1>1 DEF DownOwner
<1> HIDE DEF at
<1> QED BY <1>1, <1>2, <1>3, <1>4 DEF DownLess

LEMMA UpTail ==
  ASSUME FrameTypes, up # <<>>, up' = Tail(up), owner' = owner
  PROVE  UpLess
<1> DEFINE at == [i \in DOMAIN up' |-> i + 1]
<1>1. /\ up' \in Seq(UpFrames) /\ DOMAIN up' = 1 .. (Len(up) - 1) /\ Len(up) \in Nat
      /\ DOMAIN up = 1 .. Len(up)
      /\ \A i \in DOMAIN up' : up'[i] = up[i + 1]
  BY DEF FrameTypes
<1>2. at \in [DOMAIN up' -> DOMAIN up]
  BY <1>1
<1>3. \A i, j \in DOMAIN up' : i < j => at[i] < at[j]
  BY <1>1
<1>4. \A i \in DOMAIN up' : PartOf(up'[i], up[at[i]]) /\ owner'[up'[i].socket] = UpOwner(at[i])
  BY <1>1 DEF UpOwner, PartOf
<1> HIDE DEF at
<1> QED BY <1>1, <1>2, <1>3, <1>4 DEF UpLess

LEMMA UpHead ==
  ASSUME FrameTypes, up # <<>>
  PROVE  1 \in DOMAIN up /\ Head(up) = up[1] /\ up[1] \in UpFrames
  BY DEF FrameTypes

LEMMA ForgetFrames ==
  ASSUME PlainTypes, HeldFrames, FrameTypes, NEW s \in Sockets, Forget(s)
  PROVE  /\ UpLess /\ DownLess
         /\ \A k \in DOMAIN up' : up'[k].socket # s
         /\ \A k \in DOMAIN down' : down'[k].socket # s
<1>1. owner' = [owner EXCEPT ![s] = 0] /\ up' = Others(up, s) /\ down' = Others(down, s)
  BY DEF Forget
<1>2. /\ \A k \in DOMAIN up : up[k].socket \in Sockets
      /\ \A k \in DOMAIN down : down[k].socket \in Sockets
      /\ \A t \in Sockets : t # s => owner'[t] = owner[t]
  BY <1>1 DEF PlainTypes, HeldFrames
<1>3. UpLess /\ \A k \in DOMAIN up' : up'[k].socket # s
  <2> DEFINE left == Others(up, s)
  <2>0. /\ left \in Seq(UpFrames)
        /\ \A i \in DOMAIN left : left[i].socket # s
        /\ \E at \in [DOMAIN left -> DOMAIN up] :
              /\ \A i \in DOMAIN left : left[i] = up[at[i]]
              /\ \A i, j \in DOMAIN left : i < j => at[i] < at[j]
    <3>1. up \in Seq(UpFrames)
      BY DEF FrameTypes
    <3> QED BY <3>1, OthersShape, Zenon
  <2> HIDE DEF left
  <2>1. up' = left
    BY <1>1 DEF left
  <2>2. PICK at \in [DOMAIN up' -> DOMAIN up] :
           /\ \A i \in DOMAIN up' : up'[i] = up[at[i]]
           /\ \A i, j \in DOMAIN up' : i < j => at[i] < at[j]
    BY <2>0, <2>1, Zenon
  <2>3. ASSUME NEW i \in DOMAIN up'
        PROVE  PartOf(up'[i], up[at[i]]) /\ owner'[up'[i].socket] = UpOwner(at[i])
    <3>1. up'[i] = up[at[i]] /\ at[i] \in DOMAIN up /\ up'[i].socket # s
      BY <2>0, <2>1, <2>2
    <3>2. owner'[up'[i].socket] = owner[up'[i].socket]
      BY <1>2, <3>1
    <3> QED BY <3>1, <3>2 DEF PartOf, UpOwner
  <2> QED BY <2>0, <2>1, <2>2, <2>3 DEF UpLess
<1>4. DownLess /\ \A k \in DOMAIN down' : down'[k].socket # s
  <2> DEFINE left == Others(down, s)
  <2>0. /\ left \in Seq(DownFrames)
        /\ \A i \in DOMAIN left : left[i].socket # s
        /\ \E at \in [DOMAIN left -> DOMAIN down] :
              /\ \A i \in DOMAIN left : left[i] = down[at[i]]
              /\ \A i, j \in DOMAIN left : i < j => at[i] < at[j]
    <3>1. down \in Seq(DownFrames)
      BY DEF FrameTypes
    <3> QED BY <3>1, OthersShape, Zenon
  <2> HIDE DEF left
  <2>1. down' = left
    BY <1>1 DEF left
  <2>2. PICK at \in [DOMAIN down' -> DOMAIN down] :
           /\ \A i \in DOMAIN down' : down'[i] = down[at[i]]
           /\ \A i, j \in DOMAIN down' : i < j => at[i] < at[j]
    BY <2>0, <2>1, Zenon
  <2>3. ASSUME NEW i \in DOMAIN down'
        PROVE  down'[i] = down[at[i]] /\ owner'[down'[i].socket] = DownOwner(at[i])
    <3>1. down'[i] = down[at[i]] /\ at[i] \in DOMAIN down /\ down'[i].socket # s
      BY <2>0, <2>1, <2>2
    <3>2. owner'[down'[i].socket] = owner[down'[i].socket]
      BY <1>2, <3>1
    <3> QED BY <3>1, <3>2 DEF DownOwner
  <2> QED BY <2>0, <2>1, <2>2, <2>3 DEF DownLess
<1> QED BY <1>3, <1>4

\* Frames belong to runtimes.
LEMMA FrameOwners ==
  ASSUME PlainTypes, OwnedSockets, HeldFrames
  PROVE  /\ runtime \in Nat
         /\ \A s \in Sockets : wire[s] # "free" => owner[s] \in Runtimes /\ owner[s] <= runtime
         /\ \A k \in DOMAIN up : UpOwner(k) \in Runtimes /\ UpOwner(k) <= runtime
         /\ \A k \in DOMAIN down : DownOwner(k) \in Runtimes /\ DownOwner(k) <= runtime
<1>1. runtime \in Nat /\ runtime <= MaxRuntimes /\ MaxRuntimes \in Nat
  BY DeliveryAssumption DEF PlainTypes
<1>2. ASSUME NEW s \in Sockets, wire[s] # "free" PROVE owner[s] \in Runtimes /\ owner[s] <= runtime
  <2>1. owner[s] \in 0 .. runtime /\ owner[s] # 0
    BY <1>2 DEF PlainTypes, OwnedSockets
  <2> QED BY <1>1, <2>1 DEF Runtimes
<1> QED BY <1>1, <1>2 DEF HeldFrames, UpOwner, DownOwner

LEMMA LessLeads ==
  ASSUME NEW r, Leads(r), UpLess, DownLess
  PROVE  Leads(r)'
<1>1. PICK at \in [DOMAIN up' -> DOMAIN up] : \A i \in DOMAIN up' : owner'[up'[i].socket] = UpOwner(at[i])
  BY DEF UpLess
<1>2. PICK at2 \in [DOMAIN down' -> DOMAIN down] :
         \A i \in DOMAIN down' : owner'[down'[i].socket] = DownOwner(at2[i])
  BY DEF DownLess
<1>3. \A k \in DOMAIN up' : r <= owner'[up'[k].socket]
  BY <1>1 DEF Leads
<1>4. \A k \in DOMAIN down' : r <= owner'[down'[k].socket]
  BY <1>2 DEF Leads
<1> QED BY <1>3, <1>4 DEF Leads, UpOwner, DownOwner

LEMMA LessKeepsLeads ==
  ASSUME WireInv, UpLess, DownLess, OwnedSockets',
         \A r \in Runtimes : r = runtime' /\ connected'[r] => Leads(r)
  PROVE  FramesInv'
<1>0. PlainTypes /\ OwnedSockets /\ HeldFrames /\ FrameTypes /\ InTurn /\ Leading
  BY DEF WireInv, FramesInv
<1>1. PICK at \in [DOMAIN up' -> DOMAIN up] :
         /\ \A i \in DOMAIN up' : PartOf(up'[i], up[at[i]]) /\ owner'[up'[i].socket] = UpOwner(at[i])
         /\ \A i, j \in DOMAIN up' : i < j => at[i] < at[j]
  BY DEF UpLess
<1>2. PICK at2 \in [DOMAIN down' -> DOMAIN down] :
         /\ \A i \in DOMAIN down' : down'[i] = down[at2[i]] /\ owner'[down'[i].socket] = DownOwner(at2[i])
         /\ \A i, j \in DOMAIN down' : i < j => at2[i] < at2[j]
  BY DEF DownLess
<1>3. /\ \A i \in DOMAIN up' : at[i] \in DOMAIN up /\ UpOwner(at[i]) \in Runtimes
      /\ \A i \in DOMAIN down' : at2[i] \in DOMAIN down /\ DownOwner(at2[i]) \in Runtimes
      /\ 0 \notin Runtimes
  BY <1>0, FrameOwners DEF Runtimes
<1>4. HeldFrames'
  <2>1. \A i \in DOMAIN up' : up'[i].socket \in Sockets /\ owner'[up'[i].socket] # 0
    BY <1>0, <1>1, <1>3 DEF HeldFrames, PartOf
  <2>2. \A i \in DOMAIN down' : down'[i].socket \in Sockets /\ owner'[down'[i].socket] # 0
    BY <1>0, <1>2, <1>3 DEF HeldFrames
  <2> QED BY <2>1, <2>2 DEF HeldFrames, OwnedSockets
<1>5. FrameTypes'
  <2>1. \A i \in DOMAIN up' : up'[i].type = "publish" <=> DOMAIN up'[i].batch # {}
    <3> TAKE i \in DOMAIN up'
    <3>1. at[i] \in DOMAIN up /\ PartOf(up'[i], up[at[i]])
      BY <1>1, <1>3
    <3>2. up[at[i]].type = "publish" <=> DOMAIN up[at[i]].batch # {}
      BY <1>0, <3>1 DEF FrameTypes
    <3> QED BY <3>1, <3>2 DEF PartOf
  <2> QED BY <2>1 DEF FrameTypes, UpLess, DownLess
<1>6. InTurn'
  <2>1. \A i, j \in DOMAIN up' : i < j => owner'[up'[i].socket] <= owner'[up'[j].socket]
    BY <1>0, <1>1, <1>3 DEF InTurn
  <2>2. \A i, j \in DOMAIN down' : i < j => owner'[down'[i].socket] <= owner'[down'[j].socket]
    BY <1>0, <1>2, <1>3 DEF InTurn
  <2>3. \A i \in DOMAIN down', j \in DOMAIN up' : owner'[down'[i].socket] <= owner'[up'[j].socket]
    BY <1>0, <1>1, <1>2, <1>3 DEF InTurn
  <2> QED BY <2>1, <2>2, <2>3 DEF InTurn, UpOwner, DownOwner
<1>7. Leading'
  <2>1. \A r \in Runtimes : r = runtime' /\ connected'[r] => Leads(r)'
    BY LessLeads
  <2>2. ASSUME NEW k \in DOMAIN up', up'[k].type = "publish" PROVE Leads(UpOwner(k))'
    <3>1. at[k] \in DOMAIN up /\ up[at[k]].type = "publish" /\ UpOwner(k)' = UpOwner(at[k])
      BY <1>1, <1>3, <2>2 DEF PartOf, UpOwner
    <3>2. Leads(UpOwner(at[k]))
      BY <1>0, <3>1 DEF Leading
    <3> DEFINE o == UpOwner(k)'
    <3>3. o = UpOwner(at[k])
      BY <3>1
    <3> HIDE DEF o
    <3>4. /\ \A i \in DOMAIN up' : o <= owner'[up'[i].socket]
          /\ \A i \in DOMAIN down' : o <= owner'[down'[i].socket]
      BY <1>1, <1>2, <1>3, <3>2, <3>3 DEF Leads
    <3> QED BY <3>4 DEF Leads, UpOwner, DownOwner, o
  <2> QED BY <2>1, <2>2 DEF Leading
<1> QED BY <1>4, <1>5, <1>6, <1>7 DEF FramesInv

LEMMA LessKeeps ==
  ASSUME WireInv, UpLess, DownLess, OwnedSockets',
         \A r \in Runtimes : r = runtime' /\ connected'[r] => r = runtime /\ connected[r]
  PROVE  FramesInv'
  BY LessKeepsLeads DEF WireInv, FramesInv, Leading

\* The latest runtime writes a frame, and frames to the bridge stay or are handled.
LEMMA SendKeeps ==
  ASSUME WireInv, NEW f, UpMore(f), DownLess, OwnedSockets', runtime' = runtime, runtime \in Runtimes,
         f.type = "publish" <=> DOMAIN f.batch # {},
         f.type = "publish" \/ connected'[runtime] => Leads(runtime)
  PROVE  FramesInv'
<1>0. PlainTypes /\ OwnedSockets /\ HeldFrames /\ FrameTypes /\ InTurn /\ Leading
  BY DEF WireInv, FramesInv
<1>1. /\ Len(up) \in Nat /\ DOMAIN up = 1 .. Len(up) /\ DOMAIN up' = 1 .. (Len(up) + 1)
      /\ \A k \in DOMAIN up : up'[k] = up[k]
      /\ up'[Len(up) + 1] = f
      /\ up' \in Seq(UpFrames)
      /\ f.socket \in Sockets
  BY <1>0, FrameShape DEF FrameTypes, UpMore
<1>2. PICK at2 \in [DOMAIN down' -> DOMAIN down] :
         /\ \A i \in DOMAIN down' : down'[i] = down[at2[i]] /\ owner'[down'[i].socket] = DownOwner(at2[i])
         /\ \A i, j \in DOMAIN down' : i < j => at2[i] < at2[j]
  BY DEF DownLess
<1>3. /\ \A k \in DOMAIN up : UpOwner(k) \in Runtimes /\ UpOwner(k) <= runtime
      /\ \A i \in DOMAIN down' : at2[i] \in DOMAIN down /\ DownOwner(at2[i]) \in Runtimes /\ DownOwner(at2[i]) <= runtime
      /\ 0 \notin Runtimes /\ runtime \in Nat
  BY <1>0, FrameOwners DEF Runtimes
<1>4. /\ owner'[f.socket] = runtime
      /\ \A k \in DOMAIN up : owner'[up[k].socket] = UpOwner(k)
  BY DEF UpMore
<1>5. \A k \in DOMAIN up' : \/ k \in DOMAIN up /\ up'[k] = up[k] /\ owner'[up'[k].socket] = UpOwner(k)
                            \/ k = Len(up) + 1 /\ up'[k] = f /\ owner'[up'[k].socket] = runtime
  BY <1>1, <1>4
<1>6. HeldFrames'
  <2>1. \A i \in DOMAIN up' : up'[i].socket \in Sockets /\ owner'[up'[i].socket] # 0
    BY <1>0, <1>1, <1>3, <1>5 DEF HeldFrames
  <2>2. \A i \in DOMAIN down' : down'[i].socket \in Sockets /\ owner'[down'[i].socket] # 0
    BY <1>0, <1>2, <1>3 DEF HeldFrames
  <2> QED BY <2>1, <2>2 DEF HeldFrames, OwnedSockets
<1>7. FrameTypes'
  <2>1. \A i \in DOMAIN up' : up'[i].type = "publish" <=> DOMAIN up'[i].batch # {}
    BY <1>0, <1>5 DEF FrameTypes
  <2> QED BY <1>1, <2>1 DEF FrameTypes, DownLess
<1>8. InTurn'
  <2>1. ASSUME NEW i \in DOMAIN up', NEW j \in DOMAIN up', i < j
        PROVE  owner'[up'[i].socket] <= owner'[up'[j].socket]
    <3>1. i \in DOMAIN up /\ owner'[up'[i].socket] = UpOwner(i)
      BY <1>1, <1>5, <2>1
    <3> QED BY <1>0, <1>3, <1>5, <2>1, <3>1 DEF InTurn
  <2>2. \A i, j \in DOMAIN down' : i < j => owner'[down'[i].socket] <= owner'[down'[j].socket]
    BY <1>0, <1>2, <1>3 DEF InTurn
  <2>3. \A i \in DOMAIN down', j \in DOMAIN up' : owner'[down'[i].socket] <= owner'[up'[j].socket]
    BY <1>0, <1>2, <1>3, <1>5 DEF InTurn
  <2> QED BY <2>1, <2>2, <2>3 DEF InTurn, UpOwner, DownOwner
<1>9. ASSUME NEW r \in Runtimes, Leads(r), r <= runtime
      PROVE  /\ \A k \in DOMAIN up' : r <= owner'[up'[k].socket]
             /\ \A k \in DOMAIN down' : r <= owner'[down'[k].socket]
  BY <1>2, <1>3, <1>5, <1>9 DEF Leads
<1>10. Leading'
  <2>1. ASSUME NEW r \in Runtimes, r = runtime', connected'[r] PROVE Leads(r)'
    BY <1>3, <1>9, <2>1 DEF Leads, UpOwner, DownOwner
  <2>2. ASSUME NEW k \in DOMAIN up', up'[k].type = "publish" PROVE Leads(UpOwner(k))'
    <3> DEFINE o == owner'[up'[k].socket]
    <3>1. o \in Runtimes /\ o <= runtime /\ Leads(o)
      BY <1>0, <1>3, <1>5, <2>2 DEF Leading
    <3> HIDE DEF o
    <3>2. /\ \A i \in DOMAIN up' : o <= owner'[up'[i].socket]
          /\ \A i \in DOMAIN down' : o <= owner'[down'[i].socket]
      BY <1>9, <3>1
    <3> QED BY <3>2 DEF Leads, UpOwner, DownOwner, o
  <2> QED BY <2>1, <2>2 DEF Leading
<1> QED BY <1>6, <1>7, <1>8, <1>10 DEF FramesInv

\* The daemon answers the first frame.
LEMMA ReplyKeeps ==
  ASSUME WireInv, UpLess, NEW f, DownMore(f), OwnedSockets', runtime' = runtime, connected' = connected
  PROVE  FramesInv'
<1>0. PlainTypes /\ OwnedSockets /\ HeldFrames /\ FrameTypes /\ InTurn /\ Leading
  BY DEF WireInv, FramesInv
<1>1. /\ Len(down) \in Nat /\ DOMAIN down = 1 .. Len(down) /\ DOMAIN down' = 1 .. (Len(down) + 1)
      /\ \A k \in DOMAIN down : down'[k] = down[k]
      /\ down'[Len(down) + 1] = f
      /\ down' \in Seq(DownFrames)
      /\ f.socket \in Sockets
      /\ DOMAIN up \subseteq Nat \ {0} /\ 1 \in DOMAIN up
  BY <1>0, FrameShape DEF FrameTypes, DownMore
<1>2. PICK at \in [DOMAIN up' -> DOMAIN up] :
         /\ \A i \in DOMAIN up' : PartOf(up'[i], up[at[i]]) /\ owner'[up'[i].socket] = UpOwner(at[i])
         /\ \A i, j \in DOMAIN up' : i < j => at[i] < at[j]
  BY DEF UpLess
<1>3. /\ \A i \in DOMAIN up' : at[i] \in DOMAIN up /\ UpOwner(at[i]) \in Runtimes
      /\ \A k \in DOMAIN down : DownOwner(k) \in Runtimes
      /\ UpOwner(1) \in Runtimes
      /\ 0 \notin Runtimes /\ Runtimes \subseteq Nat
  BY <1>0, <1>1, FrameOwners DEF Runtimes
<1>4. /\ owner'[f.socket] = UpOwner(1)
      /\ \A k \in DOMAIN down : owner'[down[k].socket] = DownOwner(k)
  BY DEF DownMore
<1>5. \A k \in DOMAIN down' : \/ k \in DOMAIN down /\ down'[k] = down[k] /\ owner'[down'[k].socket] = DownOwner(k)
                              \/ k = Len(down) + 1 /\ down'[k] = f /\ owner'[down'[k].socket] = UpOwner(1)
  BY <1>1, <1>4
<1>6. HeldFrames'
  <2>1. \A i \in DOMAIN up' : up'[i].socket \in Sockets /\ owner'[up'[i].socket] # 0
    BY <1>0, <1>2, <1>3 DEF HeldFrames, PartOf
  <2>2. \A i \in DOMAIN down' : down'[i].socket \in Sockets /\ owner'[down'[i].socket] # 0
    BY <1>0, <1>1, <1>3, <1>5 DEF HeldFrames
  <2> QED BY <2>1, <2>2 DEF HeldFrames, OwnedSockets
<1>7. FrameTypes'
  <2>1. \A i \in DOMAIN up' : up'[i].type = "publish" <=> DOMAIN up'[i].batch # {}
    <3> TAKE i \in DOMAIN up'
    <3>1. at[i] \in DOMAIN up /\ PartOf(up'[i], up[at[i]])
      BY <1>2, <1>3
    <3>2. up[at[i]].type = "publish" <=> DOMAIN up[at[i]].batch # {}
      BY <1>0, <3>1 DEF FrameTypes
    <3> QED BY <3>1, <3>2 DEF PartOf
  <2> QED BY <1>1, <2>1 DEF FrameTypes, UpLess
<1>8. ASSUME NEW k \in DOMAIN up PROVE UpOwner(1) <= UpOwner(k)
  <2>1. CASE k = 1
    <3>1. UpOwner(1) \in Nat
      BY <1>3
    <3>2. UpOwner(1) <= UpOwner(1)
      BY <3>1
    <3> QED BY <2>1, <3>2, Zenon
  <2>2. CASE k # 1
    <3>1. 1 < k
      BY <1>1, <2>2
    <3> QED BY <1>0, <1>1, <3>1 DEF InTurn
  <2> QED BY <2>1, <2>2
<1>9. InTurn'
  <2>1. \A i, j \in DOMAIN up' : i < j => owner'[up'[i].socket] <= owner'[up'[j].socket]
    BY <1>0, <1>2, <1>3 DEF InTurn
  <2>2. ASSUME NEW i \in DOMAIN down', NEW j \in DOMAIN down', i < j
        PROVE  owner'[down'[i].socket] <= owner'[down'[j].socket]
    <3>1. i \in DOMAIN down /\ owner'[down'[i].socket] = DownOwner(i)
      BY <1>1, <1>5, <2>2
    <3> QED BY <1>0, <1>1, <1>5, <2>2, <3>1 DEF InTurn
  <2>3. ASSUME NEW i \in DOMAIN down', NEW j \in DOMAIN up' PROVE owner'[down'[i].socket] <= owner'[up'[j].socket]
    <3>1. owner'[up'[j].socket] = UpOwner(at[j]) /\ at[j] \in DOMAIN up
      BY <1>2, <1>3
    <3> QED BY <1>0, <1>5, <1>8, <3>1 DEF InTurn
  <2> QED BY <2>1, <2>2, <2>3 DEF InTurn, UpOwner, DownOwner
<1>10. ASSUME NEW r \in Runtimes, Leads(r)
       PROVE  /\ \A k \in DOMAIN up' : r <= owner'[up'[k].socket]
              /\ \A k \in DOMAIN down' : r <= owner'[down'[k].socket]
  BY <1>1, <1>2, <1>3, <1>5, <1>10 DEF Leads
<1>11. Leading'
  <2>1. ASSUME NEW r \in Runtimes, r = runtime', connected'[r] PROVE Leads(r)'
    BY <1>0, <1>10, <2>1 DEF Leads, Leading, UpOwner, DownOwner
  <2>2. ASSUME NEW k \in DOMAIN up', up'[k].type = "publish" PROVE Leads(UpOwner(k))'
    <3> DEFINE o == owner'[up'[k].socket]
    <3>1. o = UpOwner(at[k]) /\ at[k] \in DOMAIN up /\ up[at[k]].type = "publish"
      BY <1>2, <1>3, <2>2 DEF PartOf
    <3>2. o \in Runtimes /\ Leads(o)
      BY <1>0, <1>3, <3>1 DEF Leading
    <3> HIDE DEF o
    <3>3. /\ \A i \in DOMAIN up' : o <= owner'[up'[i].socket]
          /\ \A i \in DOMAIN down' : o <= owner'[down'[i].socket]
      BY <1>10, <3>2
    <3> QED BY <3>3 DEF Leads, UpOwner, DownOwner, o
  <2> QED BY <2>1, <2>2 DEF Leading
<1> QED BY <1>6, <1>7, <1>9, <1>11 DEF FramesInv

\* The first event of a publish frame has been handled.
LEMMA UpRest ==
  ASSUME FrameTypes, up # <<>>, Head(up).type = "publish", up' = Rest(Head(up)), owner' = owner
  PROVE  UpLess
<1> DEFINE g == up[1]
           left == DOMAIN g.batch \ {First(g.batch)}
           f == [g EXCEPT !.batch = Restrict(@, left)]
<1>1. 1 \in DOMAIN up /\ Head(up) = g /\ g \in UpFrames
  BY UpHead
<1>2. CASE left = {}
  BY <1>1, <1>2, UpTail DEF Rest
<1>3. CASE left # {}
  <2>1. up' = <<f>> \o Tail(up)
    BY <1>1, <1>3 DEF Rest
  <2>2. g.batch \in Batches
    BY <1>1, FrameShape
  <2>3. Restrict(g.batch, left) \in Batches /\ DOMAIN Restrict(g.batch, left) = left
        /\ \A m \in left : Restrict(g.batch, left)[m] = g.batch[m]
    BY <2>2, RestrictBatch
  <2> DEFINE rest == Restrict(g.batch, left)
  <2>4. f = [g EXCEPT !.batch = rest]
    BY <1>1 DEF UpFrames
  <2> HIDE DEF rest, f, left
  <2>5. f \in UpFrames /\ f.type = g.type /\ f.socket = g.socket /\ f.batch = rest
    BY <1>1, <2>3, <2>4 DEF UpFrames, Batches, rest
  <2>6. PartOf(f, g)
    BY <1>3, <2>3, <2>5 DEF PartOf, rest, left
  <2> HIDE DEF g
  <2>7. /\ up' \in Seq(UpFrames) /\ DOMAIN up' = DOMAIN up
        /\ \A i \in DOMAIN up : up'[i] = IF i = 1 THEN f ELSE up[i]
    <3>1. up \in Seq(UpFrames) /\ up # <<>>
      BY DEF FrameTypes
    <3> QED BY <2>1, <2>5, <3>1
  <2>8. \A i \in DOMAIN up' : PartOf(up'[i], up[i]) /\ owner'[up'[i].socket] = UpOwner(i)
    <3>1. \A i \in DOMAIN up' : PartOf(up'[i], up[i])
      BY <2>6, <2>7 DEF PartOf, g
    <3> QED BY <3>1 DEF PartOf, UpOwner
  <2> DEFINE at == [i \in DOMAIN up' |-> i]
  <2>9. /\ at \in [DOMAIN up' -> DOMAIN up]
        /\ \A i \in DOMAIN up' : at[i] = i
    BY <2>7
  <2> HIDE DEF at
  <2>10. /\ \A i \in DOMAIN up' : PartOf(up'[i], up[at[i]]) /\ owner'[up'[i].socket] = UpOwner(at[i])
         /\ \A i, j \in DOMAIN up' : i < j => at[i] < at[j]
    BY <2>8, <2>9
  <2> QED BY <2>7, <2>9, <2>10 DEF UpLess
<1> QED BY <1>2, <1>3

\* An outbox that changes.
Sound(b) == b \in Boxes /\ Numbering(b)

LEMMA SoundObserve ==
  ASSUME NEW b, Sound(b), NEW i \in Items
  PROVE  Sound(Observe(b, i)) /\ SameNumbers(Observe(b, i), b)
<1>1. Observe(b, i) \in Boxes /\ SameNumbers(Observe(b, i), b)
  BY ObserveShape DEF Sound, Taken
<1> QED BY <1>1 DEF Sound, Numbering, SameNumbers

LEMMA SoundAssign ==
  ASSUME NEW b, Sound(b), NEW r \in Nat
  PROVE  Sound(Assign(b, r))
<1> DEFINE c == Assign(b, r)
           last == b.next + Len(b.pending) - 1
<1>1. /\ c \in Boxes
      /\ b.next <= last + 1
      /\ c.next = last + 1
      /\ DOMAIN c.assigned = DOMAIN b.assigned \cup (b.next .. last)
      /\ \A n \in DOMAIN b.assigned : c.assigned[n] = b.assigned[n]
      /\ \A n \in b.next .. last : c.assigned[n] = [number |-> n, by |-> r, item |-> b.pending[n - b.next + 1]]
  BY AssignShape DEF Sound, Numbering
<1>2. b.next \in Nat /\ Len(b.pending) \in Nat /\ DOMAIN b.assigned \subseteq Nat
  BY BoxShape, BatchShape DEF Sound
<1>3. last \in Int
  BY <1>2
<1> HIDE DEF c, last
<1>4. \A n \in DOMAIN b.assigned : n < c.next /\ c.assigned[n].number = n
  BY <1>1, <1>2, <1>3 DEF Sound, Numbering
<1>5. ASSUME NEW n \in b.next .. last PROVE n < c.next /\ c.assigned[n].number = n
  <2>1. c.assigned[n] = [number |-> n, by |-> r, item |-> b.pending[n - b.next + 1]]
    BY <1>1
  <2>2. n < c.next
    BY <1>1, <1>2, <1>3
  <2> QED BY <2>1, <2>2
<1> QED BY <1>1, <1>4, <1>5 DEF Sound, Numbering, c

LEMMA SoundTrim ==
  ASSUME NEW b, Sound(b), NEW n \in Nat
  PROVE  Sound(ResumeFrom(b, n)) /\ Sound(Acknowledge(b, n))
  BY ResumeShape, AcknowledgeShape DEF Sound, Numbering, Trimmed

LEMMA BoxStep ==
  ASSUME Boxed, NEW r \in Runtimes, NEW c, Sound(c), box' = [box EXCEPT ![r] = c],
         spool' = spool \/ spool' = SpoolOf(c)
  PROVE  Boxed'
<1>1. box' \in [Runtimes -> Boxes] /\ \A q \in Runtimes : box'[q] = IF q = r THEN c ELSE box[q]
  BY DEF Boxed, Sound
<1>2. \A q \in Runtimes : Numbering(box'[q])
  BY <1>1 DEF Boxed, Sound
<1>3. SpoolOf(c) \in Spools /\ Numbering(Load(SpoolOf(c)))
  BY SavedShape DEF Sound, Numbering, SameNumbers
<1>4. spool' \in Spools /\ Numbering(Load(spool'))
  BY <1>3 DEF Boxed
<1> QED BY <1>1, <1>2, <1>4 DEF Boxed

LEMMA NothingAssigned ==
  ASSUME NEW f \in Batches
  PROVE  f = NoEvents <=> DOMAIN f = {}
<1>1. DOMAIN f = {} => f = [n \in {} |-> f[n]]
  BY BatchShape
<1>2. [n \in {} |-> f[n]] = NoEvents
  BY DEF NoEvents
<1>3. DOMAIN NoEvents = {}
  BY NoBatch
<1> QED BY <1>1, <1>2, <1>3

\* `flush`.
LEMMA FlushShape ==
  ASSUME NEW b, Sound(b), NEW r \in Runtimes, NEW x \in BOOLEAN, FlushWhen(x, r, b)
  PROVE  \E c :
            /\ Sound(c)
            /\ box' = [box EXCEPT ![r] = c]
            /\ \/ c = b /\ spool' = spool /\ up' = up
               \/ /\ x /\ Sendable(r)
                  /\ c = Assign(b, r)
                  /\ spool' = SpoolOf(c)
                  /\ \/ DOMAIN c.assigned = {} /\ up' = up
                     \/ DOMAIN c.assigned # {} /\ up' = Append(up, Publish(socket[r], c.assigned))
<1>1. CASE ~(x /\ Sendable(r))
  BY <1>1 DEF FlushWhen, Keep
<1>2. CASE x /\ Sendable(r)
  <2> DEFINE c == Assign(b, r)
  <2>1. Sound(c)
    BY SoundAssign DEF Runtimes
  <2>2. /\ box' = [box EXCEPT ![r] = c]
        /\ spool' = SpoolOf(c)
        /\ up' = IF c.assigned = NoEvents THEN up ELSE Append(up, Publish(socket[r], c.assigned))
    BY <1>2 DEF FlushWhen, Keep, Persist
  <2> HIDE DEF c
  <2>3. c.assigned = NoEvents <=> DOMAIN c.assigned = {}
    BY <2>1, NothingAssigned, BoxShape DEF Sound
  <2>4. c = Assign(b, r)
    BY DEF c
  <2> QED BY <1>2, <2>1, <2>2, <2>3, <2>4
<1> QED BY <1>1, <1>2

\* The steps, as far as sockets and frames go.
LEMMA QuietWire ==
  ASSUME WireInv, UNCHANGED wireVars, UNCHANGED socket,
         \A r \in Runtimes : r = runtime' /\ connected'[r] => r = runtime /\ connected[r]
  PROVE  /\ OwnedSockets' /\ FramesInv'
         /\ \A r \in Runtimes : WireOf(r)' = WireOf(r)
<1>1. UNCHANGED <<wire, owner, up, down, socket>>
  BY DEF wireVars
<1>2. OwnedSockets'
  BY <1>1 DEF WireInv, OwnedSockets
<1>3. UpLess /\ DownLess
  BY <1>1, UpSame, DownSame DEF WireInv, FramesInv, UpOwner, DownOwner
<1> QED BY <1>1, <1>2, <1>3, LessKeeps DEF WireOf

LEMMA HappensShape ==
  ASSUME NEW k \in FaultKinds, PlainTypes, Happens(k)
  PROVE  /\ faults' \in [FaultKinds -> Nat]
         /\ k # "loss" => faults'["loss"] = faults["loss"]
         /\ k = "loss" => faults'["loss"] # 0
<1>1. faults' = [faults EXCEPT ![k] = @ + 1] /\ faults \in [FaultKinds -> Nat]
  BY DEF Happens, PlainTypes
<1>2. faults[k] \in Nat
  BY <1>1
<1> QED BY <1>1, <1>2 DEF FaultKinds

LEMMA RunningRuntime ==
  ASSUME WireInv, phase # "none"
  PROVE  runtime \in Runtimes /\ runtime \in Nat \ {0}
  BY DeliveryAssumption DEF WireInv, Gone, PlainTypes, Runtimes

LEMMA SessionStartWire ==
  ASSUME WireInv, SessionStart
  PROVE  WireInv'
<1> DEFINE R == runtime + 1
           first == Observe(Load(spool), Observation("must", observed + 1))
           c == Observe(first, Observation("snap", observed + 2))
<1>1. /\ PlainTypes /\ OwnedSockets /\ Gone /\ Boxed
      /\ runtime \in Nat /\ observed \in Nat /\ MaxRuntimes \in Nat
  BY DeliveryAssumption DEF WireInv, PlainTypes
<1>2. /\ phase \in {"none", "closed"} /\ phase' = "open"
      /\ R \in Runtimes /\ runtime' = R
      /\ enabled' \in BOOLEAN /\ reached' = FALSE /\ dials' \in {0, 1} /\ observed' = observed + 2
      /\ box' = [box EXCEPT ![R] = c]
      /\ UNCHANGED <<spool, socket, connected, timer, faults>> /\ UNCHANGED wireVars
  BY DEF SessionStart, CreateRuntime, StartRuntime, Keep
<1>3. \A r \in Runtimes : r = runtime' /\ connected'[r] => r = runtime /\ connected[r]
  BY <1>1, <1>2 DEF Gone
<1>4. OwnedSockets' /\ FramesInv' /\ \A r \in Runtimes : WireOf(r)' = WireOf(r)
  BY <1>2, <1>3, QuietWire
<1>5. PlainTypes'
  <2>1. owner' \in [Sockets -> 0 .. runtime']
    BY <1>1, <1>2 DEF PlainTypes, wireVars
  <2>2. runtime' \in 0 .. MaxRuntimes
    BY <1>1, <1>2 DEF Runtimes
  <2>3. (phase # "open" => ~timer /\ dials = 0)'
    BY <1>2
  <2>4. phase' \in {"none", "open", "closing", "closed"} /\ dials' \in Nat
    BY <1>2
  <2>5. enabled' \in BOOLEAN /\ reached' \in BOOLEAN
    BY <1>2
  <2>6. observed' \in Nat
    BY <1>1, <1>2
  <2> QED BY <1>1, <1>2, <2>1, <2>2, <2>3, <2>4, <2>5, <2>6 DEF PlainTypes, wireVars
<1>6. Gone'
  <2>1. \A r \in Runtimes : r < runtime' => WireOf(r) \in {"free", "closing"}
    BY <1>1, <1>2 DEF Gone, Runtimes
  <2>2. \A r \in Runtimes : r > runtime' => ~connected'[r]
    BY <1>1, <1>2 DEF Gone, Runtimes
  <2> QED BY <1>1, <1>2, <1>4, <2>1, <2>2 DEF Gone
<1>7. Boxed'
  <2>1. Sound(Load(spool))
    BY <1>1, LoadShape DEF Boxed, Sound
  <2>2. Observation("must", observed + 1) \in Items /\ Observation("snap", observed + 2) \in Items
    BY <1>1 DEF Observation, Items, Kinds
  <2>3. Sound(first)
    BY <2>1, <2>2, SoundObserve
  <2>4. Sound(c)
    BY <2>2, <2>3, SoundObserve
  <2> HIDE DEF c
  <2> QED BY <1>1, <1>2, <2>4, BoxStep
<1> QED BY <1>4, <1>5, <1>6, <1>7 DEF WireInv

\* The latest runtime takes an observation, and flushes or not.
LEMMA ObservesWire ==
  ASSUME WireInv, runtime \in Runtimes, NEW kind \in Kinds,
         FlushWhen(connected[runtime], runtime, Observe(box[runtime], Observation(kind, observed + 1))),
         UNCHANGED <<runtime, socket, connected, wire, owner, session, refused, down>>
  PROVE  Boxed' /\ OwnedSockets' /\ FramesInv' /\ \A r \in Runtimes : WireOf(r)' = WireOf(r)
<1> DEFINE b == Observe(box[runtime], Observation(kind, observed + 1))
<1>1. /\ PlainTypes /\ OwnedSockets /\ FramesInv /\ Boxed
      /\ connected[runtime] \in BOOLEAN
  BY DEF WireInv, PlainTypes
<1>2. Sound(b)
  <2>1. Observation(kind, observed + 1) \in Items
    BY <1>1 DEF Observation, Items, PlainTypes
  <2> QED BY <1>1, <2>1, SoundObserve DEF Boxed, Sound
<1>3. PICK c :
         /\ Sound(c)
         /\ box' = [box EXCEPT ![runtime] = c]
         /\ \/ c = b /\ spool' = spool /\ up' = up
            \/ /\ connected[runtime] /\ Sendable(runtime)
               /\ c = Assign(b, runtime)
               /\ spool' = SpoolOf(c)
               /\ \/ DOMAIN c.assigned = {} /\ up' = up
                  \/ DOMAIN c.assigned # {} /\ up' = Append(up, Publish(socket[runtime], c.assigned))
  <2> HIDE DEF b
  <2>1. FlushWhen(connected[runtime], runtime, b)
    BY DEF b
  <2> QED BY <1>1, <1>2, <2>1, FlushShape
<1> HIDE DEF b
<1>4. Boxed'
  BY <1>1, <1>3, BoxStep
<1>5. OwnedSockets'
  BY <1>1 DEF OwnedSockets
<1>6. DownLess
  BY <1>1, DownSame DEF FramesInv, DownOwner
<1>7. CASE up' = up
  <2>1. UpLess
    BY <1>1, <1>7, UpSame DEF FramesInv, UpOwner
  <2> QED BY <1>4, <1>5, <1>6, <2>1, LessKeeps DEF WireOf
<1>8. CASE up' # up
  <2> DEFINE f == Publish(socket[runtime], c.assigned)
  <2>1. /\ connected[runtime] /\ Sendable(runtime)
        /\ DOMAIN c.assigned # {} /\ up' = Append(up, f)
        /\ c.assigned \in Batches
    BY <1>3, <1>8, BoxShape DEF Sound
  <2>2. socket[runtime] \in Sockets /\ owner[socket[runtime]] = runtime
    BY <1>1, <2>1 DEF Sendable, WireOf, PlainTypes, OwnedSockets
  <2>3. f \in UpFrames /\ f.type = "publish" /\ f.batch = c.assigned /\ f.socket = socket[runtime]
    BY <2>1, <2>2, FrameShape DEF Publish
  <2> HIDE DEF f
  <2>4. UpMore(f)
    BY <2>1, <2>2, <2>3 DEF UpMore, UpOwner
  <2>5. Leads(runtime)
    BY <1>1, <2>1 DEF FramesInv, Leading
  <2>6. FramesInv'
    BY <1>5, <1>6, <2>1, <2>3, <2>4, <2>5, SendKeeps
  <2> QED BY <1>4, <1>5, <2>6 DEF WireOf
<1> QED BY <1>7, <1>8

LEMMA EventWire ==
  ASSUME WireInv, NEW kind \in EventKinds, Event(kind)
  PROVE  WireInv'
<1>1. kind \in Kinds
  BY DeliveryAssumption DEF Kinds
<1>2. runtime \in Runtimes
  BY RunningRuntime DEF Event, IsCurrent
<1>3. Boxed' /\ OwnedSockets' /\ FramesInv' /\ \A r \in Runtimes : WireOf(r)' = WireOf(r)
  BY <1>1, <1>2, ObservesWire DEF Event
<1>4. UNCHANGED <<runtime, enabled, reached, phase, socket, connected, timer, dials, wire, owner, session, refused, faults>>
      /\ observed' = observed + 1
  BY DEF Event
<1>5. PlainTypes'
  BY <1>4 DEF WireInv, PlainTypes
<1>6. Gone'
  BY <1>3, <1>4 DEF WireInv, Gone
<1> QED BY <1>3, <1>5, <1>6 DEF WireInv

LEMMA AuditWire ==
  ASSUME WireInv, Audit
  PROVE  WireInv'
<1> DEFINE c == Observe(box[runtime], Observation("must", observed + 1))
<1>1. runtime \in Runtimes
  BY RunningRuntime DEF Audit
<1>2. /\ UNCHANGED <<runtime, enabled, reached, phase, spool, socket, connected, timer, dials, faults>>
      /\ UNCHANGED wireVars
      /\ observed' = observed + 1 /\ box' = [box EXCEPT ![runtime] = c]
  BY DEF Audit, Keep
<1>3. OwnedSockets' /\ FramesInv' /\ \A r \in Runtimes : WireOf(r)' = WireOf(r)
  BY <1>2, QuietWire
<1>4. PlainTypes'
  BY <1>2 DEF WireInv, PlainTypes, wireVars
<1>5. Gone'
  BY <1>2, <1>3 DEF WireInv, Gone
<1>6. Boxed'
  <2>1. Observation("must", observed + 1) \in Items /\ Sound(box[runtime]) /\ Boxed
    BY <1>1 DEF Observation, Items, Kinds, WireInv, PlainTypes, Boxed, Sound
  <2>2. Sound(c)
    BY <2>1, SoundObserve
  <2> HIDE DEF c
  <2> QED BY <1>1, <1>2, <2>1, <2>2, BoxStep
<1> QED BY <1>3, <1>4, <1>5, <1>6 DEF WireInv

LEMMA SessionShutdownWire ==
  ASSUME WireInv, SessionShutdown
  PROVE  WireInv'
<1>1. runtime \in Runtimes
  BY RunningRuntime DEF SessionShutdown
<1>2. Boxed' /\ OwnedSockets' /\ FramesInv' /\ \A r \in Runtimes : WireOf(r)' = WireOf(r)
  <2>1. "must" \in Kinds
    BY DEF Kinds
  <2> QED BY <1>1, <2>1, ObservesWire DEF SessionShutdown, ShutdownRuntime
<1>3. /\ UNCHANGED <<runtime, enabled, reached, socket, connected, wire, owner, session, refused, faults>>
      /\ observed' = observed + 1 /\ phase = "open" /\ phase' = "closing" /\ timer' = FALSE /\ dials' = 0
  BY DEF SessionShutdown, ShutdownRuntime
<1>4. PlainTypes'
  <2>1. (phase # "open" => ~timer /\ dials = 0)'
    BY <1>3, Zenon
  <2>2. timer' \in BOOLEAN /\ dials' \in Nat /\ phase' \in {"none", "open", "closing", "closed"}
    BY <1>3
  <2>3. observed' \in Nat
    BY <1>3 DEF WireInv, PlainTypes
  <2> QED BY <1>3, <2>1, <2>2, <2>3 DEF WireInv, PlainTypes
<1>5. Gone'
  BY <1>2, <1>3 DEF WireInv, Gone
<1> QED BY <1>2, <1>4, <1>5 DEF WireInv

\* A socket that is forgotten.
LEMMA ForgetOwned ==
  ASSUME WireInv, NEW s \in Sockets, Forget(s)
  PROVE  /\ OwnedSockets'
         /\ UpLess /\ DownLess
         /\ \A r \in Runtimes : WireOf(r)' = IF socket[r] = s THEN "free" ELSE WireOf(r)
         /\ socket' \in [Runtimes -> Sockets \cup {NoSocket}]
         /\ wire' \in [Sockets -> {"free", "connecting", "open", "closing"}]
         /\ owner' \in [Sockets -> 0 .. runtime]
         /\ session' \in [Sockets -> {"fresh", "welcomed", "bound"}]
         /\ refused' \subseteq Sockets
<1>1. PlainTypes /\ OwnedSockets /\ HeldFrames /\ FrameTypes /\ runtime \in Nat
  BY DEF WireInv, FramesInv, PlainTypes
<1>2. /\ wire' = [wire EXCEPT ![s] = "free"]
      /\ owner' = [owner EXCEPT ![s] = 0]
      /\ socket' = [r \in Runtimes |-> IF socket[r] = s THEN NoSocket ELSE socket[r]]
      /\ session' = [session EXCEPT ![s] = "fresh"]
      /\ refused' = refused \ {s}
  BY DEF Forget
<1>3. UpLess /\ DownLess
  BY <1>1, ForgetFrames
<1>4. s # NoSocket
  BY DEF Sockets, NoSocket
<1>5. \A r \in Runtimes : WireOf(r)' = IF socket[r] = s THEN "free" ELSE WireOf(r)
  <2> TAKE r \in Runtimes
  <2>1. socket[r] \in Sockets \cup {NoSocket} /\ socket'[r] = IF socket[r] = s THEN NoSocket ELSE socket[r]
    BY <1>1, <1>2 DEF PlainTypes
  <2>2. CASE socket[r] = s
    BY <2>1, <2>2 DEF WireOf
  <2>3. CASE socket[r] # s
    BY <1>1, <1>2, <2>1, <2>3 DEF WireOf, PlainTypes
  <2> QED BY <2>2, <2>3
<1>6. OwnedSockets'
  <2>1. \A t \in Sockets : wire'[t] = "free" <=> owner'[t] = 0
    BY <1>1, <1>2 DEF PlainTypes, OwnedSockets
  <2>2. \A r \in Runtimes : socket'[r] # NoSocket => owner'[socket'[r]] = r
    <3> TAKE r \in Runtimes
    <3>1. socket[r] \in Sockets \cup {NoSocket} /\ socket'[r] = IF socket[r] = s THEN NoSocket ELSE socket[r]
      BY <1>1, <1>2 DEF PlainTypes
    <3> QED BY <1>1, <1>2, <3>1 DEF PlainTypes, OwnedSockets
  <2> QED BY <2>1, <2>2 DEF OwnedSockets
<1> QED BY <1>1, <1>2, <1>3, <1>5, <1>6 DEF PlainTypes

LEMMA EndSocketWire ==
  ASSUME WireInv, EndSocket
  PROVE  WireInv'
<1> DEFINE s == socket[runtime]
<1>1. /\ PlainTypes /\ OwnedSockets /\ FramesInv /\ Gone /\ Boxed
      /\ runtime \in Runtimes /\ runtime \in Nat \ {0}
      /\ s \in Sockets \cup {NoSocket}
  BY RunningRuntime DEF EndSocket, WireInv, PlainTypes
<1>2. /\ phase = "closing" /\ phase' = "closed" /\ connected' = [connected EXCEPT ![runtime] = FALSE]
      /\ UNCHANGED <<runtime, enabled, reached, box, spool, timer, dials, observed, musts, faults>>
  BY DEF EndSocket
<1>3. \A r \in Runtimes : connected'[r] => connected[r] /\ r # runtime
  BY <1>1, <1>2 DEF PlainTypes
<1>4. Boxed'
  BY <1>1, <1>2 DEF Boxed
<1>5. /\ OwnedSockets' /\ UpLess /\ DownLess
      /\ \A r \in Runtimes : r # runtime => WireOf(r)' = WireOf(r)
      /\ WireOf(runtime)' \in {"free", "closing"}
      /\ socket' \in [Runtimes -> Sockets \cup {NoSocket}]
      /\ wire' \in [Sockets -> {"free", "connecting", "open", "closing"}]
      /\ owner' \in [Sockets -> 0 .. runtime]
      /\ session' \in [Sockets -> {"fresh", "welcomed", "bound"}]
      /\ refused' \subseteq Sockets
  <2>1. CASE WireOf(runtime) = "connecting" /\ Forget(s)
    <3>1. s \in Sockets
      BY <1>1, <2>1 DEF WireOf
    <3>2. \A r \in Runtimes : socket[r] = s => r = runtime
      BY <1>1, <3>1 DEF OwnedSockets, NoSocket, Sockets
    <3> HIDE DEF s
    <3>3. socket[runtime] = s
      BY DEF s
    <3>4. \A r \in Runtimes : WireOf(r)' = IF r = runtime THEN "free" ELSE WireOf(r)
      BY <2>1, <3>1, <3>2, <3>3, ForgetOwned
    <3>5. /\ OwnedSockets' /\ UpLess /\ DownLess
          /\ socket' \in [Runtimes -> Sockets \cup {NoSocket}]
          /\ wire' \in [Sockets -> {"free", "connecting", "open", "closing"}]
          /\ owner' \in [Sockets -> 0 .. runtime]
          /\ session' \in [Sockets -> {"fresh", "welcomed", "bound"}]
          /\ refused' \subseteq Sockets
      BY <2>1, <3>1, ForgetOwned
    <3>6. runtime' = runtime
      BY <1>2
    <3> QED BY <1>1, <3>4, <3>5, <3>6 DEF WireOf
  <2>2. CASE /\ WireOf(runtime) = "open"
             /\ wire' = [wire EXCEPT ![s] = "closing"]
             /\ UNCHANGED <<socket, owner, session, refused, up, down>>
    <3>1. s \in Sockets /\ wire[s] = "open"
      BY <1>1, <2>2 DEF WireOf
    <3>2. \A r \in Runtimes : socket[r] = s => r = runtime
      BY <1>1, <3>1 DEF OwnedSockets, NoSocket, Sockets
    <3>3. UpLess /\ DownLess
      BY <1>1, <2>2, UpSame, DownSame DEF FramesInv, UpOwner, DownOwner
    <3>4. OwnedSockets'
      BY <1>1, <2>2, <3>1 DEF OwnedSockets, PlainTypes
    <3>5. \A r \in Runtimes : WireOf(r)' = IF r = runtime THEN "closing" ELSE WireOf(r)
      <4> TAKE r \in Runtimes
      <4>1. socket[r] \in Sockets \cup {NoSocket} /\ socket'[r] = socket[r] /\ (r # runtime => socket[r] # s)
        BY <1>1, <2>2, <3>2 DEF PlainTypes
      <4>2. s # NoSocket
        BY <3>1 DEF Sockets, NoSocket
      <4>3. \A t \in Sockets : wire'[t] = IF t = s THEN "closing" ELSE wire[t]
        BY <1>1, <2>2 DEF PlainTypes
      <4> QED BY <3>1, <4>1, <4>2, <4>3 DEF WireOf
    <3>6. runtime' = runtime
      BY <1>2
    <3>7. wire' \in [Sockets -> {"free", "connecting", "open", "closing"}]
      BY <1>1, <2>2 DEF PlainTypes
    <3>8. WireOf(runtime)' = "closing" /\ \A r \in Runtimes : r # runtime => WireOf(r)' = WireOf(r)
      BY <1>1, <3>5, <3>6 DEF WireOf
    <3> QED BY <1>1, <2>2, <3>3, <3>4, <3>7, <3>8 DEF PlainTypes
  <2>3. CASE WireOf(runtime) \in {"free", "closing"} /\ UNCHANGED <<socket, wireVars>>
    <3>1. UpLess /\ DownLess
      BY <1>1, <2>3, UpSame, DownSame DEF FramesInv, UpOwner, DownOwner, wireVars
    <3>2. OwnedSockets'
      BY <1>1, <2>3 DEF OwnedSockets, wireVars
    <3>3. \A r \in Runtimes : WireOf(r)' = WireOf(r)
      BY <2>3 DEF WireOf, wireVars
    <3>4. WireOf(runtime)' = WireOf(runtime)
      BY <1>2, <2>3 DEF WireOf, wireVars
    <3> QED BY <1>1, <2>3, <3>1, <3>2, <3>3, <3>4 DEF PlainTypes, wireVars
  <2> QED BY <2>1, <2>2, <2>3 DEF EndSocket
<1>6. FramesInv'
  BY <1>2, <1>3, <1>5, LessKeeps
<1>7. PlainTypes'
  BY <1>1, <1>2, <1>5 DEF PlainTypes
<1>8. Gone'
  <2>1. \A r \in Runtimes : r < runtime => WireOf(r)' \in {"free", "closing"}
    BY <1>1, <1>5 DEF Gone
  <2>2. \A r \in Runtimes : r > runtime => ~connected'[r]
    BY <1>1, <1>3 DEF Gone
  <2> QED BY <1>1, <1>2, <1>5, <2>1, <2>2 DEF Gone
<1> QED BY <1>4, <1>5, <1>6, <1>7, <1>8 DEF WireInv

LEMMA LoseSpoolWire ==
  ASSUME WireInv, LoseSpool
  PROVE  WireInv'
<1>1. /\ UNCHANGED <<runtime, enabled, reached, phase, box, socket, connected, timer, dials, observed>>
      /\ UNCHANGED wireVars /\ spool' = EmptySpool
  BY DEF LoseSpool
<1>2. OwnedSockets' /\ FramesInv' /\ \A r \in Runtimes : WireOf(r)' = WireOf(r)
  BY <1>1, QuietWire
<1>3. faults' \in [FaultKinds -> Nat]
  BY HappensShape DEF LoseSpool, WireInv, FaultKinds
<1>4. PlainTypes'
  BY <1>1, <1>3 DEF WireInv, PlainTypes, wireVars
<1>5. Gone'
  BY <1>1, <1>2 DEF WireInv, Gone
<1>6. Boxed'
  <2>1. DOMAIN Load(EmptySpool).assigned = {}
    BY EmptyShape, LoadShape
  <2>2. Numbering(Load(EmptySpool))
    BY <2>1 DEF Numbering
  <2> QED BY <1>1, <2>2, EmptyShape DEF WireInv, Boxed
<1> QED BY <1>2, <1>4, <1>5, <1>6 DEF WireInv

\* Steps that touch neither sockets nor outboxes.
LEMMA IdleWire ==
  ASSUME WireInv, UNCHANGED <<runtime, enabled, phase, box, spool, socket, observed>>, UNCHANGED wireVars,
         reached' \in BOOLEAN, timer' \in BOOLEAN, dials' \in Nat, phase # "open" => timer' = FALSE /\ dials' = 0,
         connected' \in [Runtimes -> BOOLEAN], \A r \in Runtimes : connected'[r] => connected[r],
         faults' \in [FaultKinds -> Nat]
  PROVE  WireInv'
<1>1. OwnedSockets' /\ FramesInv' /\ \A r \in Runtimes : WireOf(r)' = WireOf(r)
  BY QuietWire
<1>2. PlainTypes'
  BY DEF WireInv, PlainTypes, wireVars
<1>3. Gone'
  BY <1>1 DEF WireInv, Gone
<1>4. Boxed'
  BY DEF WireInv, Boxed
<1> QED BY <1>1, <1>2, <1>3, <1>4 DEF WireInv

LEMMA ScheduleShape ==
  ASSUME PlainTypes, NEW r, ScheduleReconnect(r)
  PROVE  /\ timer' \in BOOLEAN
         /\ phase # "open" => timer' = FALSE
         /\ connected' \in [Runtimes -> BOOLEAN]
         /\ \A q \in Runtimes : connected'[q] => connected[q]
<1>1. CASE r = runtime /\ phase = "open" /\ ~timer
  <2>1. timer' = TRUE /\ connected' = [connected EXCEPT ![r] = FALSE]
    BY <1>1 DEF ScheduleReconnect
  <2> QED BY <1>1, <2>1 DEF PlainTypes
<1>2. CASE ~(r = runtime /\ phase = "open" /\ ~timer)
  <2>1. timer' = timer /\ connected' = connected
    BY <1>2, Zenon DEF ScheduleReconnect
  <2>2. phase # "open" => timer = FALSE
    BY DEF PlainTypes
  <2> QED BY <2>1, <2>2 DEF PlainTypes
<1> QED BY <1>1, <1>2

LEMMA ConnectingWire ==
  ASSUME WireInv, TimerFires \/ EnsureConnected \/ DialFails
  PROVE  WireInv'
<1>1. PlainTypes
  BY DEF WireInv
<1>2. CASE TimerFires
  <2>1. /\ UNCHANGED <<runtime, enabled, reached, phase, box, spool, socket, connected, observed, faults>>
        /\ UNCHANGED wireVars /\ timer = TRUE /\ timer' = FALSE /\ dials' = dials + 1
    BY <1>1, <1>2 DEF TimerFires, PlainTypes
  <2>2. phase = "open"
    BY <1>1, <2>1 DEF PlainTypes
  <2>3. timer' \in BOOLEAN
    BY <2>1
  <2>4. dials' \in Nat /\ reached' \in BOOLEAN /\ faults' \in [FaultKinds -> Nat]
    BY <1>1, <2>1 DEF PlainTypes
  <2>5. connected' \in [Runtimes -> BOOLEAN] /\ \A r \in Runtimes : connected'[r] => connected[r]
    BY <1>1, <2>1 DEF PlainTypes
  <2> QED BY <2>1, <2>2, <2>3, <2>4, <2>5, IdleWire
<1>3. CASE EnsureConnected
  <2>1. /\ UNCHANGED <<runtime, enabled, reached, phase, box, spool, socket, connected, timer, observed>>
        /\ UNCHANGED wireVars /\ phase = "open" /\ dials' = dials + 1
    BY <1>3 DEF EnsureConnected
  <2>2. faults' \in [FaultKinds -> Nat]
    BY <1>1, <1>3, HappensShape DEF EnsureConnected, FaultKinds
  <2> QED BY <1>1, <2>1, <2>2, IdleWire DEF PlainTypes
<1>4. CASE DialFails
  <2>1. /\ UNCHANGED <<runtime, enabled, reached, phase, box, spool, socket, observed>>
        /\ UNCHANGED wireVars /\ dials > 0 /\ dials' = dials - 1
    BY <1>4 DEF DialFails
  <2>2. faults' \in [FaultKinds -> Nat]
    BY <1>1, <1>4, HappensShape DEF DialFails, FaultKinds
  <2>3. dials' \in Nat /\ phase = "open"
    BY <1>1, <2>1 DEF PlainTypes
  <2>4. /\ timer' \in BOOLEAN
        /\ connected' \in [Runtimes -> BOOLEAN]
        /\ \A q \in Runtimes : connected'[q] => connected[q]
    BY <1>1, <1>4, ScheduleShape DEF DialFails
  <2> QED BY <1>1, <2>1, <2>2, <2>3, <2>4, IdleWire DEF PlainTypes
<1> QED BY <1>2, <1>3, <1>4

LEMMA DialledWire ==
  ASSUME WireInv, Dialled
  PROVE  WireInv'
<1> DEFINE s == CHOOSE s \in Unused : \A t \in Unused : s <= t
<1>1. /\ PlainTypes /\ OwnedSockets /\ FramesInv /\ HeldFrames /\ FrameTypes /\ Gone /\ Boxed
  BY DEF WireInv, FramesInv
<1>2. s \in Sockets /\ wire[s] = "free"
  <2>1. Unused \subseteq Nat /\ Unused # {}
    BY DEF Dialled, Unused, Sockets
  <2>2. \E t \in Unused : \A u \in Unused : t <= u
    BY <2>1, LeastNatural
  <2>3. s \in Unused
    BY <2>2, Zenon
  <2> QED BY <2>3 DEF Unused
<1>3. /\ dials > 0 /\ reached' = TRUE /\ dials' = dials - 1
      /\ socket' = [socket EXCEPT ![runtime] = s]
      /\ wire' = [wire EXCEPT ![s] = "connecting"]
      /\ owner' = [owner EXCEPT ![s] = runtime]
      /\ UNCHANGED <<runtime, enabled, phase, box, spool, connected, timer, session, refused, up, down, observed, faults>>
  BY DEF Dialled
<1> HIDE DEF s
<1>4. dials' \in Nat /\ phase = "open"
  BY <1>1, <1>3 DEF PlainTypes
<1>5. runtime \in Runtimes /\ runtime \in Nat \ {0}
  BY <1>4, RunningRuntime
<1>6. s # NoSocket /\ owner[s] = 0
  BY <1>1, <1>2 DEF OwnedSockets, Sockets, NoSocket
<1>7. \A r \in Runtimes : socket[r] # s
  BY <1>1, <1>5, <1>6 DEF OwnedSockets, Runtimes
<1>8. /\ \A t \in Sockets : wire'[t] = IF t = s THEN "connecting" ELSE wire[t]
      /\ \A t \in Sockets : owner'[t] = IF t = s THEN runtime ELSE owner[t]
      /\ \A r \in Runtimes : socket'[r] = IF r = runtime THEN s ELSE socket[r]
  BY <1>1, <1>3 DEF PlainTypes
<1>9. OwnedSockets'
  BY <1>1, <1>2, <1>5, <1>6, <1>7, <1>8 DEF OwnedSockets, PlainTypes
<1>10. /\ \A k \in DOMAIN up : owner'[up[k].socket] = UpOwner(k)
       /\ \A k \in DOMAIN down : owner'[down[k].socket] = DownOwner(k)
  BY <1>1, <1>2, <1>8 DEF HeldFrames, UpOwner, DownOwner
<1>11. UpLess /\ DownLess
  BY <1>1, <1>3, <1>10, UpSame, DownSame
<1>12. FramesInv'
  BY <1>3, <1>9, <1>11, LessKeeps
<1>13. PlainTypes'
  <2>1. wire' \in [Sockets -> {"free", "connecting", "open", "closing"}]
    BY <1>1, <1>2, <1>3 DEF PlainTypes
  <2>2. owner' \in [Sockets -> 0 .. runtime]
    BY <1>1, <1>2, <1>3, <1>5 DEF PlainTypes
  <2>3. socket' \in [Runtimes -> Sockets \cup {NoSocket}]
    BY <1>1, <1>2, <1>3 DEF PlainTypes
  <2>4. reached' \in BOOLEAN
    BY <1>3
  <2> QED BY <1>1, <1>3, <1>4, <2>1, <2>2, <2>3, <2>4 DEF PlainTypes
<1>14. Gone'
  <2>1. \A r \in Runtimes : r # runtime => WireOf(r)' = WireOf(r)
    <3> TAKE r \in Runtimes
    <3> HAVE r # runtime
    <3>1. socket'[r] = socket[r] /\ socket[r] # s /\ socket[r] \in Sockets \cup {NoSocket}
      BY <1>1, <1>7, <1>8 DEF PlainTypes
    <3> QED BY <1>8, <3>1 DEF WireOf
  <2>2. \A r \in Runtimes : r < runtime => WireOf(r)' \in {"free", "closing"}
    BY <1>1, <1>5, <2>1 DEF Gone
  <2> QED BY <1>1, <1>3, <1>4, <2>2 DEF Gone
<1>15. Boxed'
  BY <1>1, <1>3 DEF Boxed
<1> QED BY <1>9, <1>12, <1>13, <1>14, <1>15 DEF WireInv

LEMMA OpenWire ==
  ASSUME WireInv, NEW s \in Sockets, Open(s)
  PROVE  WireInv'
<1> DEFINE r == owner[s]
           t == socket[r]
<1>1. /\ PlainTypes /\ OwnedSockets /\ FramesInv /\ HeldFrames /\ FrameTypes /\ Gone /\ Boxed
  BY DEF WireInv, FramesInv
<1>2. /\ wire[s] = "connecting" /\ wire' = [wire EXCEPT ![s] = "open"]
      /\ up' = IF t = s \/ Sendable(r) THEN Append(up, Hello(t)) ELSE up
      /\ UNCHANGED <<runtime, enabled, reached, phase, box, spool, socket, connected, timer, dials>>
      /\ UNCHANGED <<owner, session, refused, down, observed, faults>>
  BY DEF Open, bridgeVars
<1>3. r \in Runtimes /\ r \in Nat /\ r <= runtime /\ runtime \in Nat
  BY <1>1, <1>2, FrameOwners DEF Runtimes
<1> HIDE DEF r, t
<1>4. \A u \in Sockets : wire'[u] = IF u = s THEN "open" ELSE wire[u]
  BY <1>1, <1>2 DEF PlainTypes
<1>5. OwnedSockets'
  BY <1>1, <1>2, <1>4 DEF OwnedSockets
<1>6. ASSUME t = s \/ Sendable(r)
      PROVE  r = runtime /\ phase # "closed" /\ t \in Sockets /\ owner[t] = r
  <2>1. t \in Sockets /\ WireOf(r) \in {"connecting", "open"}
    <3>1. t \in Sockets \cup {NoSocket} /\ t = socket[r] /\ s # NoSocket
      BY <1>1, <1>3 DEF PlainTypes, t, Sockets, NoSocket
    <3> QED BY <1>2, <1>6, <3>1 DEF Sendable, WireOf
  <2>2. owner[t] = r
    BY <1>1, <1>3, <2>1 DEF OwnedSockets, t, Sockets, NoSocket
  <2> QED BY <1>1, <1>3, <2>1, <2>2 DEF Gone
<1>7. DownLess
  BY <1>1, <1>2, DownSame DEF DownOwner
<1>8. FramesInv'
  <2>1. CASE t = s \/ Sendable(r)
    <3>1. Hello(t) \in UpFrames /\ Hello(t).socket = t /\ Hello(t).type = "hello" /\ DOMAIN Hello(t).batch = {}
      BY <1>6, <2>1, FrameShape, NoBatch DEF Hello
    <3>2. UpMore(Hello(t))
      BY <1>2, <1>6, <2>1, <3>1 DEF UpMore, UpOwner
    <3>3. runtime \in Runtimes /\ runtime' = runtime
      BY <1>2, <1>3, <1>6, <2>1
    <3>4. connected'[runtime] => Leads(runtime)
      BY <1>1, <1>2, <3>3 DEF FramesInv, Leading
    <3> QED BY <1>5, <1>7, <3>1, <3>2, <3>3, <3>4, SendKeeps
  <2>2. CASE ~(t = s \/ Sendable(r))
    <3>1. up' = up
      BY <1>2, <2>2
    <3>2. UpLess
      BY <1>1, <1>2, <3>1, UpSame DEF UpOwner
    <3> QED BY <1>2, <1>5, <1>7, <3>2, LessKeeps
  <2> QED BY <2>1, <2>2
<1>9. PlainTypes'
  <2>1. wire' \in [Sockets -> {"free", "connecting", "open", "closing"}]
    BY <1>1, <1>2 DEF PlainTypes
  <2> QED BY <1>1, <1>2, <2>1 DEF PlainTypes
<1>10. Gone'
  <2>1. ASSUME NEW q \in Runtimes, q < runtime \/ (q = runtime /\ phase = "closed")
        PROVE  WireOf(q)' \in {"free", "closing"}
    <3>1. WireOf(q) \in {"free", "closing"}
      BY <1>1, <2>1 DEF Gone
    <3>2. socket[q] # s
      BY <1>2, <3>1 DEF WireOf, Sockets, NoSocket
    <3>3. WireOf(q)' = WireOf(q)
      BY <1>1, <1>2, <1>4, <3>2 DEF WireOf, PlainTypes
    <3> QED BY <3>1, <3>3
  <2> QED BY <1>1, <1>2, <2>1 DEF Gone
<1>11. Boxed'
  BY <1>1, <1>2 DEF Boxed
<1> QED BY <1>5, <1>8, <1>9, <1>10, <1>11 DEF WireInv

LEMMA CloseWire ==
  ASSUME WireInv, NEW s \in Sockets, Close(s)
  PROVE  WireInv'
<1>1. /\ PlainTypes /\ OwnedSockets /\ FramesInv /\ Gone /\ Boxed
  BY DEF WireInv
<1>2. /\ Forget(s) /\ ScheduleReconnect(owner[s])
      /\ UNCHANGED <<runtime, enabled, reached, phase, box, spool, dials, observed>>
  BY DEF Close
<1>3. faults' \in [FaultKinds -> Nat]
  <2>1. CASE UNCHANGED faults
    BY <1>1, <2>1 DEF PlainTypes
  <2>2. CASE Happens("break")
    BY <1>1, <2>2, HappensShape DEF FaultKinds
  <2> QED BY <2>1, <2>2 DEF Close
<1>4. /\ OwnedSockets'
      /\ UpLess /\ DownLess
      /\ \A r \in Runtimes : WireOf(r)' = IF socket[r] = s THEN "free" ELSE WireOf(r)
      /\ socket' \in [Runtimes -> Sockets \cup {NoSocket}]
      /\ wire' \in [Sockets -> {"free", "connecting", "open", "closing"}]
      /\ owner' \in [Sockets -> 0 .. runtime]
      /\ session' \in [Sockets -> {"fresh", "welcomed", "bound"}]
      /\ refused' \subseteq Sockets
  BY <1>2, ForgetOwned
<1>5. /\ timer' \in BOOLEAN
      /\ phase # "open" => timer' = FALSE
      /\ connected' \in [Runtimes -> BOOLEAN]
      /\ \A q \in Runtimes : connected'[q] => connected[q]
  BY <1>1, <1>2, ScheduleShape
<1>6. FramesInv'
  BY <1>2, <1>4, <1>5, LessKeeps
<1>7. PlainTypes'
  BY <1>1, <1>2, <1>3, <1>4, <1>5 DEF PlainTypes
<1>8. Gone'
  BY <1>1, <1>2, <1>4, <1>5 DEF Gone
<1>9. Boxed'
  BY <1>1, <1>2 DEF Boxed
<1> QED BY <1>4, <1>6, <1>7, <1>8, <1>9 DEF WireInv

\* A frame reaches the bridge: its runtime.
LEMMA ReceivesShape ==
  ASSUME WireInv, NEW type, Receives(type), owner' = owner
  PROVE  /\ DownLess
         /\ 1 \in DOMAIN down /\ Head(down) = down[1] /\ down[1] \in DownFrames /\ down[1].type = type
         /\ down[1].socket \in Sockets /\ wire[down[1].socket] # "free" /\ down[1].n \in Nat
         /\ DownOwner(1) \in Runtimes /\ DownOwner(1) <= runtime /\ runtime \in Nat
<1>1. FrameTypes /\ PlainTypes /\ OwnedSockets /\ HeldFrames
  BY DEF WireInv, FramesInv
<1>2. down # <<>> /\ Head(down).type = type /\ down' = Tail(down)
  BY DEF Receives
<1>3. DownLess /\ 1 \in DOMAIN down /\ Head(down) = down[1] /\ down[1] \in DownFrames
  BY <1>1, <1>2, DownTail
<1>4. down[1].n \in Nat
  BY <1>3 DEF DownFrames
<1> QED BY <1>1, <1>2, <1>3, <1>4, FrameOwners DEF HeldFrames

\* What handlers of it leave alone.
LEMMA HandlerWire ==
  ASSUME WireInv, UNCHANGED <<runtime, enabled, reached, phase, socket, timer, dials>>,
         UNCHANGED <<wire, owner, session, refused, observed, faults>>,
         connected' \in [Runtimes -> BOOLEAN], \A r \in Runtimes : r > runtime => ~connected'[r],
         Boxed', OwnedSockets' => FramesInv'
  PROVE  WireInv'
<1>1. OwnedSockets'
  BY DEF WireInv, OwnedSockets
<1>2. PlainTypes'
  BY DEF WireInv, PlainTypes
<1>3. Gone'
  BY DEF WireInv, Gone, WireOf
<1> QED BY <1>1, <1>2, <1>3 DEF WireInv

\* Only the latest runtime can send.
LEMMA SendableIsLatest ==
  ASSUME WireInv, NEW r \in Runtimes, r <= runtime, Sendable(r)
  PROVE  r = runtime /\ phase # "closed" /\ socket[r] \in Sockets /\ owner[socket[r]] = r
<1>1. PlainTypes /\ Gone /\ OwnedSockets
  BY DEF WireInv
<1>2. r = runtime /\ phase # "closed"
  BY <1>1 DEF Sendable, Gone, Runtimes, PlainTypes
<1>3. socket[r] \in Sockets /\ socket[r] # NoSocket
  BY <1>1 DEF Sendable, WireOf, PlainTypes
<1> QED BY <1>1, <1>2, <1>3 DEF OwnedSockets

LEMMA WelcomedWire ==
  ASSUME WireInv, Welcomed
  PROVE  WireInv'
<1> DEFINE r == DownOwner(1)
           c == Assign(box[r], r)
<1>1. /\ UNCHANGED <<runtime, enabled, reached, phase, socket, connected, timer, dials>>
      /\ UNCHANGED <<wire, owner, session, refused, observed, faults>>
      /\ Receives("welcome")
  BY DEF Welcomed
<1>2. /\ DownLess /\ Head(down) = down[1]
      /\ r \in Runtimes /\ r \in Nat /\ r <= runtime /\ runtime \in Nat
  BY <1>1, ReceivesShape DEF Runtimes
<1>3. /\ box' = [box EXCEPT ![r] = c] /\ spool' = SpoolOf(c)
      /\ up' = IF Sendable(r) THEN Append(up, Registration(socket[r])) ELSE up
  BY <1>2 DEF Welcomed, Keep, Persist, Send, DownOwner
<1>4. PlainTypes /\ FrameTypes /\ FramesInv /\ Boxed /\ Gone
  BY DEF WireInv, FramesInv
<1>5. Sound(c)
  BY <1>2, <1>4, SoundAssign DEF Boxed, Sound
<1> HIDE DEF r, c
<1>6. Boxed'
  BY <1>2, <1>3, <1>4, <1>5, BoxStep
<1>7. ASSUME OwnedSockets' PROVE FramesInv'
  <2>1. CASE Sendable(r)
    <3>1. r = runtime /\ socket[r] \in Sockets /\ owner[socket[r]] = r
      BY <1>2, <2>1, SendableIsLatest
    <3> DEFINE f == Registration(socket[r])
    <3>2. f \in UpFrames /\ f.socket = socket[r] /\ f.type = "register" /\ DOMAIN f.batch = {}
      BY <3>1, FrameShape, NoBatch DEF Registration
    <3> HIDE DEF f
    <3>3. UpMore(f)
      BY <1>1, <1>3, <2>1, <3>1, <3>2 DEF UpMore, UpOwner, f
    <3>4. connected'[runtime] => Leads(runtime)
      BY <1>1, <1>2, <1>4, <3>1 DEF FramesInv, Leading
    <3> QED BY <1>1, <1>2, <1>7, <3>1, <3>2, <3>3, <3>4, SendKeeps
  <2>2. CASE ~Sendable(r)
    <3>1. UpLess
      BY <1>1, <1>3, <1>4, <2>2, UpSame DEF UpOwner
    <3> QED BY <1>1, <1>2, <1>7, <3>1, LessKeeps
  <2> QED BY <2>1, <2>2
<1>8. connected' \in [Runtimes -> BOOLEAN] /\ \A q \in Runtimes : q > runtime => ~connected'[q]
  BY <1>1, <1>4 DEF PlainTypes, Gone
<1> QED BY <1>1, <1>6, <1>7, <1>8, HandlerWire

LEMMA ResumeConflictsWire ==
  ASSUME WireInv, ResumeConflicts
  PROVE  WireInv'
<1> DEFINE s == down[1].socket
<1>1. /\ UNCHANGED <<runtime, enabled, reached, phase, box, spool, socket, connected, timer, dials>>
      /\ UNCHANGED <<owner, session, refused, up, observed, faults>>
      /\ Receives("registered")
      /\ wire' = [wire EXCEPT ![Head(down).socket] = "closing"]
  BY DEF ResumeConflicts, bridgeVars
<1>2. DownLess /\ Head(down) = down[1] /\ s \in Sockets /\ wire[s] # "free"
  BY <1>1, ReceivesShape
<1> HIDE DEF s
<1>3. wire' = [wire EXCEPT ![s] = "closing"]
  BY <1>1, <1>2 DEF s
<1>4. PlainTypes /\ OwnedSockets /\ FramesInv /\ FrameTypes /\ Gone /\ Boxed
  BY DEF WireInv, FramesInv
<1>5. \A t \in Sockets : wire'[t] = IF t = s THEN "closing" ELSE wire[t]
  BY <1>3, <1>4 DEF PlainTypes
<1>6. OwnedSockets'
  BY <1>1, <1>2, <1>4, <1>5 DEF OwnedSockets
<1>7. UpLess
  BY <1>1, <1>4, UpSame DEF UpOwner
<1>8. FramesInv'
  BY <1>1, <1>2, <1>6, <1>7, LessKeeps
<1>9. PlainTypes'
  BY <1>1, <1>3, <1>4 DEF PlainTypes
<1>10. Gone'
  <2>1. \A r \in Runtimes : WireOf(r)' = WireOf(r) \/ WireOf(r)' = "closing"
    BY <1>1, <1>4, <1>5 DEF WireOf, PlainTypes
  <2> QED BY <1>1, <1>4, <2>1 DEF Gone
<1>11. Boxed'
  BY <1>1, <1>4 DEF Boxed
<1> QED BY <1>6, <1>8, <1>9, <1>10, <1>11 DEF WireInv

\* The outbox after a resumption, sent if its runtime is connected.
LEMMA ResumedShape ==
  ASSUME WireInv, Resumed
  PROVE  LET r == DownOwner(1)
             b == ResumeFrom(box[r], down[1].n)
         IN  \E c :
               /\ Sound(b) /\ Sound(c)
               /\ box' = [box EXCEPT ![r] = c] /\ spool' = SpoolOf(c)
               /\ \/ c = b /\ up' = up
                  \/ /\ Sendable(r)
                     /\ c = Assign(b, r)
                     /\ \/ DOMAIN c.assigned = {} /\ up' = up
                        \/ DOMAIN c.assigned # {} /\ up' = Append(up, Publish(socket[r], c.assigned))
<1> DEFINE r == DownOwner(1)
           b == ResumeFrom(box[r], down[1].n)
<1>1. Receives("registered") /\ owner' = owner
  BY DEF Resumed
<1>2. Head(down) = down[1] /\ r \in Runtimes /\ down[1].n \in Nat
  BY <1>1, ReceivesShape
<1>3. IF Sendable(r) THEN FlushWhen(TRUE, r, b) ELSE box' = [box EXCEPT ![r] = b] /\ spool' = SpoolOf(b) /\ UNCHANGED up
  BY <1>2 DEF Resumed, DownOwner, Keep, Persist
<1>4. Sound(b)
  BY <1>2, SoundTrim DEF WireInv, Boxed, Sound
<1> HIDE DEF r, b
<1>5. CASE ~Sendable(r)
  BY <1>3, <1>4, <1>5 DEF r, b
<1>6. CASE Sendable(r)
  <2>1. FlushWhen(TRUE, r, b)
    BY <1>3, <1>6
  <2> DEFINE c == Assign(b, r)
  <2>2. Sound(c)
    BY <1>2, <1>4, SoundAssign DEF Runtimes
  <2>3. /\ box' = [box EXCEPT ![r] = c]
        /\ spool' = SpoolOf(c)
        /\ up' = IF c.assigned = NoEvents THEN up ELSE Append(up, Publish(socket[r], c.assigned))
    BY <1>6, <2>1 DEF FlushWhen, Keep, Persist
  <2>4. c = Assign(b, r)
    OBVIOUS
  <2> HIDE DEF c
  <2>5. c.assigned = NoEvents <=> DOMAIN c.assigned = {}
    BY <2>2, NothingAssigned, BoxShape DEF Sound
  <2>6. \/ DOMAIN c.assigned = {} /\ up' = up
        \/ DOMAIN c.assigned # {} /\ up' = Append(up, Publish(socket[r], c.assigned))
    BY <2>3, <2>5
  <2> QED BY <1>4, <1>6, <2>2, <2>3, <2>4, <2>6 DEF r, b
<1> QED BY <1>5, <1>6

LEMMA ResumedWire ==
  ASSUME WireInv, Resumed
  PROVE  WireInv'
<1> DEFINE r == DownOwner(1)
<1>1. /\ UNCHANGED <<runtime, enabled, reached, phase, socket, timer, dials>>
      /\ UNCHANGED <<wire, owner, session, refused, observed, faults>>
      /\ Receives("registered")
  BY DEF Resumed
<1>2. /\ DownLess /\ Head(down) = down[1] /\ 1 \in DOMAIN down
      /\ r \in Runtimes /\ r \in Nat /\ r <= runtime /\ runtime \in Nat
  BY <1>1, ReceivesShape DEF Runtimes
<1>3. connected' = [connected EXCEPT ![r] = TRUE]
  BY <1>2 DEF Resumed, DownOwner
<1>4. PlainTypes /\ OwnedSockets /\ HeldFrames /\ FrameTypes /\ FramesInv /\ InTurn /\ Boxed /\ Gone
  BY DEF WireInv, FramesInv
<1>5. Leads(r)
  <2>1. \A k \in DOMAIN up : r <= UpOwner(k)
    BY <1>2, <1>4 DEF InTurn
  <2>2. ASSUME NEW k \in DOMAIN down PROVE r <= DownOwner(k)
    <3>1. CASE k = 1
      BY <1>2, <3>1
    <3>2. CASE k # 1
      <4>1. 1 < k
        BY <1>4, <3>2 DEF FrameTypes
      <4> QED BY <1>2, <1>4, <4>1 DEF InTurn
    <3> QED BY <3>1, <3>2
  <2> QED BY <2>1, <2>2 DEF Leads
<1>6. PICK b, c :
         /\ Sound(c)
         /\ box' = [box EXCEPT ![r] = c] /\ spool' = SpoolOf(c)
         /\ \/ up' = up
            \/ Sendable(r) /\ DOMAIN c.assigned # {} /\ up' = Append(up, Publish(socket[r], c.assigned))
  BY ResumedShape
<1> HIDE DEF r
<1>7. Boxed'
  BY <1>2, <1>4, <1>6, BoxStep
<1>8. connected' \in [Runtimes -> BOOLEAN] /\ \A q \in Runtimes : q > runtime => ~connected'[q]
  BY <1>2, <1>3, <1>4 DEF PlainTypes, Gone
<1>9. \A q \in Runtimes : q = runtime' /\ connected'[q] => Leads(q)
  BY <1>1, <1>2, <1>3, <1>4, <1>5 DEF PlainTypes, FramesInv, Leading
<1>10. ASSUME OwnedSockets' PROVE FramesInv'
  <2>1. CASE up' = up
    <3>1. UpLess
      BY <1>1, <1>4, <2>1, UpSame DEF UpOwner
    <3> QED BY <1>1, <1>2, <1>9, <1>10, <3>1, LessKeepsLeads
  <2>2. CASE Sendable(r) /\ DOMAIN c.assigned # {} /\ up' = Append(up, Publish(socket[r], c.assigned))
    <3>1. r = runtime /\ socket[r] \in Sockets /\ owner[socket[r]] = r
      BY <1>2, <2>2, SendableIsLatest
    <3> DEFINE f == Publish(socket[r], c.assigned)
    <3>2. f \in UpFrames /\ f.socket = socket[r] /\ f.type = "publish" /\ DOMAIN f.batch # {}
      BY <1>6, <2>2, <3>1, FrameShape, BoxShape DEF Publish, Sound
    <3>3. up' = Append(up, f)
      BY <2>2
    <3> HIDE DEF f
    <3>4. UpMore(f)
      BY <1>1, <3>1, <3>2, <3>3 DEF UpMore, UpOwner
    <3> QED BY <1>1, <1>2, <1>5, <1>10, <3>1, <3>2, <3>4, SendKeeps
  <2> QED BY <1>6, <2>1, <2>2
<1> QED BY <1>1, <1>7, <1>8, <1>10, HandlerWire

LEMMA AcknowledgedWire ==
  ASSUME WireInv, Acknowledged
  PROVE  WireInv'
<1> DEFINE r == DownOwner(1)
           c == Acknowledge(box[r], down[1].n)
<1>1. /\ UNCHANGED <<runtime, enabled, reached, phase, socket, connected, timer, dials>>
      /\ UNCHANGED <<wire, owner, session, refused, up, observed, faults>>
      /\ Receives("ack")
  BY DEF Acknowledged
<1>2. DownLess /\ Head(down) = down[1] /\ r \in Runtimes /\ down[1].n \in Nat
  BY <1>1, ReceivesShape
<1>3. box' = [box EXCEPT ![r] = c] /\ spool' = SpoolOf(c)
  BY <1>2 DEF Acknowledged, Keep, Persist, DownOwner
<1>4. PlainTypes /\ FrameTypes /\ FramesInv /\ Boxed /\ Gone
  BY DEF WireInv, FramesInv
<1>5. Sound(c)
  BY <1>2, <1>4, SoundTrim DEF Boxed, Sound
<1> HIDE DEF r, c
<1>6. Boxed'
  BY <1>2, <1>3, <1>4, <1>5, BoxStep
<1>7. UpLess
  BY <1>1, <1>4, UpSame DEF UpOwner
<1>8. OwnedSockets' => FramesInv'
  BY <1>1, <1>2, <1>7, LessKeeps
<1>9. connected' \in [Runtimes -> BOOLEAN] /\ \A q \in Runtimes : q > runtime => ~connected'[q]
  BY <1>1, <1>4 DEF PlainTypes, Gone
<1> QED BY <1>1, <1>6, <1>8, <1>9, HandlerWire

\* The daemon handles a frame, and answers it, refuses it or does neither.
LEMMA DaemonWire ==
  ASSUME WireInv, up # <<>>, UpLess, UNCHANGED bridgeVars, UNCHANGED <<wire, owner, observed, faults>>,
         session' \in [Sockets -> {"fresh", "welcomed", "bound"}],
         refused' = refused \/ refused' = refused \cup {up[1].socket},
         \/ down' = down
         \/ \E f \in DownFrames : f.socket = up[1].socket /\ down' = Append(down, f)
  PROVE  WireInv'
<1>1. UNCHANGED <<runtime, enabled, reached, phase, box, spool, socket, connected, timer, dials>>
  BY DEF bridgeVars
<1>2. PlainTypes /\ OwnedSockets /\ HeldFrames /\ FrameTypes /\ FramesInv /\ Gone /\ Boxed
  BY DEF WireInv, FramesInv
<1>3. 1 \in DOMAIN up
  BY <1>2, UpHead
<1>4. OwnedSockets'
  BY <1>1, <1>2 DEF OwnedSockets
<1>5. PlainTypes'
  <2>1. refused' \subseteq Sockets
    BY <1>2, <1>3 DEF PlainTypes, HeldFrames
  <2> QED BY <1>1, <1>2, <2>1 DEF PlainTypes
<1>6. Gone' /\ Boxed'
  BY <1>1, <1>2 DEF Gone, Boxed, WireOf
<1>7. FramesInv'
  <2>1. CASE down' = down
    <3>1. DownLess
      BY <1>2, <2>1, DownSame DEF DownOwner
    <3> QED BY <1>1, <1>4, <3>1, LessKeeps
  <2>2. ASSUME NEW f \in DownFrames, f.socket = up[1].socket, down' = Append(down, f)
        PROVE  FramesInv'
    <3>1. DownMore(f)
      BY <2>2 DEF DownMore, UpOwner, DownOwner
    <3> QED BY <1>1, <1>4, <3>1, ReplyKeeps
  <2> QED BY <2>1, <2>2
<1> QED BY <1>4, <1>5, <1>6, <1>7 DEF WireInv

LEMMA GreetsWire ==
  ASSUME WireInv, Expected \in Nat, Greets
  PROVE  WireInv'
<1> DEFINE s == up[1].socket
<1>1. PlainTypes /\ OwnedSockets /\ HeldFrames /\ FrameTypes
  BY DEF WireInv, FramesInv
<1>2. /\ up # <<>> /\ up' = Tail(up)
      /\ UNCHANGED bridgeVars /\ UNCHANGED <<wire, owner, observed, faults>>
  BY DEF Greets, Reaches
<1>3. 1 \in DOMAIN up /\ Head(up) = up[1] /\ s \in Sockets
  BY <1>1, <1>2, UpHead DEF HeldFrames
<1>4. UpLess
  BY <1>1, <1>2, UpTail
<1>5. session' = session \/ session' = [session EXCEPT ![s] = "welcomed"] \/ session' = [session EXCEPT ![s] = "bound"]
  BY <1>3 DEF Greets
<1>6. session' \in [Sockets -> {"fresh", "welcomed", "bound"}]
  BY <1>1, <1>5 DEF PlainTypes
<1>7. refused' = refused \/ refused' = refused \cup {s}
  BY <1>3 DEF Greets, Refuse
<1>8. \/ down' = down
      \/ \E f \in DownFrames : f.socket = s /\ down' = Append(down, f)
  <2>1. /\ Welcome(s) \in DownFrames /\ Welcome(s).socket = s
        /\ Registered(s, Expected) \in DownFrames /\ Registered(s, Expected).socket = s
    BY <1>3, FrameShape DEF Welcome, Registered
  <2>2. \/ down' = down
        \/ down' = Append(down, Welcome(s))
        \/ down' = Append(down, Registered(s, Expected))
    BY <1>3 DEF Greets, Refuse, Reply
  <2> QED BY <2>1, <2>2
<1> QED BY <1>2, <1>4, <1>6, <1>7, <1>8, DaemonWire

\* A publish frame reaches the daemon, and its first event is handled.
LEMMA ReachesShape ==
  ASSUME WireInv, Reaches("publish"), up' = Rest(Head(up)), owner' = owner
  PROVE  /\ up # <<>> /\ UpLess
         /\ 1 \in DOMAIN up /\ Head(up) = up[1] /\ up[1] \in UpFrames /\ up[1].type = "publish"
         /\ up[1].socket \in Sockets /\ up[1].batch \in Batches
         /\ First(up[1].batch) \in DOMAIN up[1].batch /\ First(up[1].batch) \in Nat \ {0}
         /\ up[1].batch[First(up[1].batch)] \in Numbered
         /\ Record(up[1].batch) \in Published
         /\ Record(up[1].batch).seq = First(up[1].batch)
         /\ Record(up[1].batch).inst = Instance
         /\ Record(up[1].batch).event = up[1].batch[First(up[1].batch)]
<1> DEFINE f == up[1].batch
<1>1. FrameTypes /\ HeldFrames
  BY DEF WireInv, FramesInv
<1>2. up # <<>> /\ 1 \in DOMAIN up /\ Head(up) = up[1] /\ up[1] \in UpFrames /\ up[1].type = "publish"
  BY <1>1, UpHead DEF Reaches
<1>3. UpLess
  BY <1>1, <1>2, UpRest
<1>4. f \in Batches /\ DOMAIN f # {} /\ up[1].socket \in Sockets
  BY <1>1, <1>2, FrameShape DEF FrameTypes
<1> HIDE DEF f
<1>5. DOMAIN f \subseteq Nat \ {0} /\ \A n \in DOMAIN f : f[n] \in Numbered
  BY <1>4, BatchShape
<1>6. First(f) \in DOMAIN f
  <2>1. \E n \in DOMAIN f : \A m \in DOMAIN f : n <= m
    BY <1>4, <1>5, LeastNatural
  <2> QED BY <2>1, Zenon DEF First
<1>7. Record(f) \in Published /\ Record(f).seq = First(f) /\ Record(f).inst = Instance /\ Record(f).event = f[First(f)]
  BY <1>5, <1>6 DEF Record, Published
<1> QED BY <1>2, <1>3, <1>4, <1>5, <1>6, <1>7 DEF f

LEMMA PublishWire ==
  ASSUME WireInv, Expected \in Nat \ {0}, Commits \/ Recognises \/ Refuses
  PROVE  WireInv'
<1> DEFINE s == up[1].socket
<1>1. PlainTypes /\ HeldFrames
  BY DEF WireInv, FramesInv
<1>2. /\ Reaches("publish") /\ up' = Rest(Head(up))
      /\ UNCHANGED bridgeVars /\ UNCHANGED <<wire, owner, session, observed, faults>>
  BY DEF Commits, Recognises, Refuses
<1>3. up # <<>> /\ UpLess /\ Head(up) = up[1] /\ s \in Sockets /\ Record(up[1].batch).seq \in Nat
  BY <1>2, ReachesShape
<1>4. refused' = refused \/ refused' = refused \cup {s}
  BY <1>3 DEF Commits, Recognises, Refuses, Refuse
<1>5. \/ down' = down
      \/ \E f \in DownFrames : f.socket = s /\ down' = Append(down, f)
  <2>1. /\ \A n \in Nat : Ack(s, n) \in DownFrames /\ Ack(s, n).socket = s
        /\ Expected - 1 \in Nat
    BY <1>3, FrameShape DEF Ack
  <2>2. \/ down' = down
        \/ down' = Append(down, Ack(s, Record(up[1].batch).seq))
        \/ down' = Append(down, Ack(s, Expected - 1))
    BY <1>3 DEF Commits, Recognises, Refuses, Refuse, Reply
  <2> QED BY <1>3, <2>1, <2>2
<1>6. session' \in [Sockets -> {"fresh", "welcomed", "bound"}]
  BY <1>1, <1>2 DEF PlainTypes
<1> QED BY <1>2, <1>3, <1>4, <1>5, <1>6, DaemonWire

LEMMA InitWire == Init => WireInv
<1> SUFFICES ASSUME Init PROVE WireInv
  OBVIOUS
<1>1. PlainTypes
  <2>1. runtime \in 0 .. MaxRuntimes /\ owner \in [Sockets -> 0 .. runtime]
    BY DeliveryAssumption DEF Init
  <2>2. enabled \in BOOLEAN /\ reached \in BOOLEAN /\ timer \in BOOLEAN
    BY DEF Init
  <2>3. connected \in [Runtimes -> BOOLEAN]
    BY DEF Init
  <2>4. phase \in {"none", "open", "closing", "closed"} /\ dials \in Nat /\ observed \in Nat /\ refused \subseteq Sockets
    BY DEF Init
  <2>5. /\ socket \in [Runtimes -> Sockets \cup {NoSocket}]
        /\ wire \in [Sockets -> {"free", "connecting", "open", "closing"}]
        /\ session \in [Sockets -> {"fresh", "welcomed", "bound"}]
        /\ faults \in [FaultKinds -> Nat]
    BY DEF Init
  <2>6. timer = FALSE /\ dials = 0
    BY DEF Init
  <2> QED BY <2>1, <2>2, <2>3, <2>4, <2>5, <2>6 DEF PlainTypes
<1>2. OwnedSockets
  BY DEF Init, OwnedSockets
<1>3. Gone
  BY DEF Init, Gone, WireOf, Runtimes
<1>4. up = <<>> /\ down = <<>>
  BY DEF Init
<1>5. FramesInv
  BY <1>4 DEF Init, FramesInv, HeldFrames, FrameTypes, InTurn, Leading, Leads
<1>6. Boxed
  <2>1. Load(EmptySpool) \in Boxes /\ DOMAIN Load(EmptySpool).assigned = {} /\ EmptySpool \in Spools
    BY EmptyShape, LoadShape
  <2>2. Numbering(Load(EmptySpool))
    BY <2>1 DEF Numbering
  <2> QED BY <2>1, <2>2 DEF Init, Boxed
<1> QED BY <1>1, <1>2, <1>3, <1>5, <1>6 DEF WireInv

\* Every step of the instance and of the daemon keeps the invariant of the wire.
LEMMA NextWire ==
  ASSUME WireInv, Expected \in Nat \ {0}, [Next]_vars
  PROVE  WireInv'
<1>1. CASE UNCHANGED vars
  <2>1. /\ UNCHANGED <<runtime, enabled, reached, phase, box, spool, socket, connected, timer, dials, observed, faults>>
        /\ UNCHANGED wireVars
    BY <1>1 DEF vars, bridgeVars
  <2> QED BY <2>1, IdleWire DEF WireInv, PlainTypes
<1>2. CASE SessionStart \/ Audit \/ SessionShutdown \/ EndSocket \/ LoseSpool
  BY <1>2, SessionStartWire, AuditWire, SessionShutdownWire, EndSocketWire, LoseSpoolWire
<1>3. ASSUME NEW kind \in EventKinds, Event(kind) PROVE WireInv'
  BY <1>3, EventWire
<1>4. CASE TimerFires \/ EnsureConnected \/ Dialled \/ DialFails
  BY <1>4, ConnectingWire, DialledWire
<1>5. ASSUME NEW s \in Sockets, Open(s) \/ Close(s) PROVE WireInv'
  BY <1>5, OpenWire, CloseWire
<1>6. CASE BridgeReceives
  BY <1>6, WelcomedWire, ResumeConflictsWire, ResumedWire, AcknowledgedWire DEF BridgeReceives
<1>7. CASE DaemonReceives
  BY <1>7, GreetsWire, PublishWire DEF DaemonReceives
<1> QED BY <1>1, <1>2, <1>3, <1>4, <1>5, <1>6, <1>7 DEF Next

----------------------------------------------------------------------------
(* What is under way, and what the store and the outboxes have of it       *)

Promises == INSTANCE EventLedgerProofs
              WITH Producers <- {Instance}, Events <- Published, Notes <- {}, MaxCursor <- MaxCursor

UnderWay == UNION {EventsOf(up[k].batch) : k \in DOMAIN up}
Done == {q.event.event : q \in ledger}

\* Runtimes whose outboxes can still change or be sent from.
Acting(r) ==
    \/ r = runtime
    \/ \E k \in DOMAIN up : UpOwner(k) = r
    \/ \E k \in DOMAIN down : DownOwner(k) = r

StoreInv ==
    /\ Promises!LedgerInv
    /\ \A q \in ledger : q.event.seq = q.event.event.number

FollowsNow(b) == Follows(b, observed, UnderWay, Done, Expected, SpoolKept)

Sourced ==
    /\ \A r \in Runtimes : Acting(r) => FollowsNow(box[r])
    /\ FollowsNow(Load(spool))

\* What is under way has come from the outbox of its runtime, which keeps it as long as the
\* store may need it.
Backed ==
    \A k \in DOMAIN up : \A n \in DOMAIN up[k].batch :
        /\ up[k].batch[n].number = n
        /\ n < box[UpOwner(k)].next
        /\ n >= Expected => n \in DOMAIN box[UpOwner(k)].assigned

Unclashing == \A e \in UnderWay, d \in Done : e.number = d.number => e = d

\* From number n on, b has nothing else than the store.
Clear(b, n, done) ==
    \A d \in done : d.number >= n /\ d.number \in DOMAIN b.assigned => b.assigned[d.number] = d

\* An answer f to the runtime with outbox b.
Answers(f, b, done, next) ==
    /\ f.type = "ack" => f.n < next
    /\ f.type = "registered" =>
          /\ 1 <= f.n /\ f.n <= next
          /\ f.n = next \/ next <= b.next
          /\ Clear(b, f.n, done)

Answered == \A k \in DOMAIN down : Answers(down[k], box[DownOwner(k)], Done, Expected)

\* Who has been registered has been told what the store expects.
Resumes ==
    \A r \in Runtimes : r = runtime /\ connected[r] => Clear(box[r], 1, Done) /\ Expected <= box[r].next

\* Where the mandatory observations ms are, of outbox b and the store.
Covers(b, ms, done) ==
    \A m \in ms :
        \/ m \in PendingObservations(b)
        \/ \E n \in DOMAIN b.assigned : m \in b.assigned[n].item.of
        \/ \E d \in done : m \in d.item.of

\* A snapshot, which may be superseded, is none of them.
Unsnapped(b, ms) ==
    \A k \in DOMAIN b.pending : b.pending[k].kind = "snap" => b.pending[k].of \cap ms = {}

Accounted ==
    /\ musts \subseteq 1 .. observed
    /\ \A r \in Runtimes : r = runtime =>
          /\ Unsnapped(box[r], musts)
          /\ phase = "open" /\ SpoolKept => Covers(box[r], musts, Done)

DataInv ==
    /\ StoreInv
    /\ Sourced
    /\ Old(UnderWay, Done, observed)
    /\ Backed
    /\ Unclashing
    /\ Answered
    /\ Resumes
    /\ CommittedInOrder
    /\ Accounted

DeliveryInv == WireInv /\ DataInv

LEMMA PromisesAssumption == Promises!LedgerAssumption
  BY DEF Promises!LedgerAssumption, Published

LEMMA StoreShape ==
  ASSUME StoreInv
  PROVE  /\ Expected \in Nat \ {0} /\ head \in Nat
         /\ \A q \in ledger : q.event \in Published /\ q.event.inst = Instance /\ q.cursor \in 1 .. head
         /\ Done \in SUBSET Numbered
         /\ \A d \in Done : d.number < Expected /\ d.number \in Nat
         /\ expected \in [{Instance} -> Nat \ {0}]
<1>1. /\ ledger \subseteq [cursor : Nat, event : Published \cup {}]
      /\ head \in Nat
      /\ expected \in [{Instance} -> Nat \ {0}]
  BY DEF StoreInv, Promises!LedgerInv, Promises!LedgerTypeOK
<1>2. \A q \in ledger : q.event \in Published /\ q.event.inst = Instance /\ q.event.event \in Numbered
  BY <1>1 DEF Published
<1>3. \A q \in ledger : q.cursor \in 1 .. head
  BY DEF StoreInv, Promises!LedgerInv, Promises!CursorsDense
<1>4. \A q \in ledger : q.event.seq < expected[q.event.inst]
  BY DEF StoreInv, Promises!LedgerInv, Promises!NumbersAdmitted
<1>5. \A q \in ledger : q.event.event.number < Expected
  BY <1>2, <1>4 DEF StoreInv, Expected
<1>6. Done \in SUBSET Numbered /\ \A d \in Done : d.number < Expected
  BY <1>2, <1>5 DEF Done
<1> QED BY <1>1, <1>2, <1>3, <1>6 DEF Expected, Numbered

LEMMA UnderWayTypes ==
  ASSUME FrameTypes
  PROVE  UnderWay \in SUBSET Numbered
<1>1. ASSUME NEW k \in DOMAIN up PROVE EventsOf(up[k].batch) \subseteq Numbered
  <2>1. up[k] \in UpFrames
    BY DEF FrameTypes
  <2>2. up[k].batch \in Batches
    BY <2>1, FrameShape
  <2> QED BY <2>2, BatchShape DEF EventsOf
<1> QED BY <1>1 DEF UnderWay

\* Every frame to the daemon was there before, or is of the latest runtime and carries g.
UpFrom(g) ==
    \A k \in DOMAIN up' :
        \/ \E j \in DOMAIN up : PartOf(up'[k], up[j]) /\ owner'[up'[k].socket] = UpOwner(j)
        \/ up'[k].batch = g /\ owner'[up'[k].socket] = runtime

\* Every frame to the bridge was there before, or is one of T and answers the first one.
DownFrom(T) ==
    \A k \in DOMAIN down' :
        \/ \E j \in DOMAIN down : down'[k] = down[j] /\ owner'[down'[k].socket] = DownOwner(j)
        \/ 1 \in DOMAIN up /\ down'[k] \in T /\ owner'[down'[k].socket] = UpOwner(1)

LEMMA LessFrom ==
  /\ UpLess => UpFrom(NoEvents)
  /\ DownLess => DownFrom({})
<1>1. ASSUME UpLess PROVE UpFrom(NoEvents)
  <2>1. PICK at \in [DOMAIN up' -> DOMAIN up] :
           \A i \in DOMAIN up' : PartOf(up'[i], up[at[i]]) /\ owner'[up'[i].socket] = UpOwner(at[i])
    BY <1>1 DEF UpLess
  <2> QED BY <2>1 DEF UpFrom
<1>2. ASSUME DownLess PROVE DownFrom({})
  <2>1. PICK at \in [DOMAIN down' -> DOMAIN down] :
           \A i \in DOMAIN down' : down'[i] = down[at[i]] /\ owner'[down'[i].socket] = DownOwner(at[i])
    BY <1>2 DEF DownLess
  <2> QED BY <2>1 DEF DownFrom
<1> QED BY <1>1, <1>2

LEMMA UpMoreFrom ==
  ASSUME FrameTypes, NEW f, UpMore(f)
  PROVE  UpFrom(f.batch)
<1>1. /\ Len(up) \in Nat /\ DOMAIN up = 1 .. Len(up) /\ DOMAIN up' = 1 .. (Len(up) + 1)
      /\ \A k \in DOMAIN up : up'[k] = up[k]
      /\ up'[Len(up) + 1] = f
  BY DEF FrameTypes, UpMore
<1>2. owner'[f.socket] = runtime /\ \A k \in DOMAIN up : owner'[up[k].socket] = UpOwner(k)
  BY DEF UpMore
<1>3. \A k \in DOMAIN up : PartOf(up[k], up[k])
  BY DEF PartOf
<1>4. ASSUME NEW k \in DOMAIN up'
      PROVE  \/ \E j \in DOMAIN up : PartOf(up'[k], up[j]) /\ owner'[up'[k].socket] = UpOwner(j)
             \/ up'[k].batch = f.batch /\ owner'[up'[k].socket] = runtime
  <2>1. CASE k \in DOMAIN up
    BY <1>1, <1>2, <1>3, <2>1
  <2>2. CASE k = Len(up) + 1
    BY <1>1, <1>2, <2>2
  <2> QED BY <1>1, <2>1, <2>2
<1> QED BY <1>4 DEF UpFrom

LEMMA DownMoreFrom ==
  ASSUME FrameTypes, NEW f, DownMore(f)
  PROVE  DownFrom({f})
<1>1. /\ Len(down) \in Nat /\ DOMAIN down = 1 .. Len(down) /\ DOMAIN down' = 1 .. (Len(down) + 1)
      /\ \A k \in DOMAIN down : down'[k] = down[k]
      /\ down'[Len(down) + 1] = f
      /\ 1 \in DOMAIN up
  BY UpHead DEF FrameTypes, DownMore
<1>2. owner'[f.socket] = UpOwner(1) /\ \A k \in DOMAIN down : owner'[down[k].socket] = DownOwner(k)
  BY DEF DownMore
<1>3. ASSUME NEW k \in DOMAIN down'
      PROVE  \/ \E j \in DOMAIN down : down'[k] = down[j] /\ owner'[down'[k].socket] = DownOwner(j)
             \/ 1 \in DOMAIN up /\ down'[k] \in {f} /\ owner'[down'[k].socket] = UpOwner(1)
  <2>1. CASE k \in DOMAIN down
    BY <1>1, <1>2, <2>1
  <2>2. CASE k = Len(down) + 1
    BY <1>1, <1>2, <2>2
  <2> QED BY <1>1, <2>1, <2>2
<1> QED BY <1>3 DEF DownFrom

LEMMA UnderWayFrom ==
  ASSUME NEW g, UpFrom(g)
  PROVE  UnderWay' \subseteq UnderWay \cup EventsOf(g)
<1>1. ASSUME NEW k \in DOMAIN up', NEW n \in DOMAIN up'[k].batch
      PROVE  up'[k].batch[n] \in UnderWay \cup EventsOf(g)
  BY DEF UpFrom, PartOf, UnderWay, EventsOf
<1> QED BY <1>1 DEF UnderWay, EventsOf

LEMMA ActingFrom ==
  ASSUME NEW g, UpFrom(g), NEW T, DownFrom(T), runtime' = runtime, NEW r, Acting(r)'
  PROVE  Acting(r)
<1>1. CASE r = runtime'
  BY <1>1 DEF Acting
<1>2. CASE \E k \in DOMAIN up' : owner'[up'[k].socket] = r
  BY <1>2 DEF Acting, UpFrom
<1>3. CASE \E k \in DOMAIN down' : owner'[down'[k].socket] = r
  BY <1>3 DEF Acting, DownFrom
<1> QED BY <1>1, <1>2, <1>3 DEF Acting, UpOwner, DownOwner

\* What may become of an outbox b that acts.
Grows(c, b, done, next) ==
    /\ b.next <= c.next
    /\ \A n \in DOMAIN b.assigned : n >= next => n \in DOMAIN c.assigned
    /\ \A n \in Nat : 1 <= n /\ n <= next /\ (n = next \/ next <= b.next) /\ Clear(b, n, done) => Clear(c, n, done)

LEMMA GrowsSame ==
  ASSUME NEW b \in Boxes, NEW c, SameNumbers(c, b), NEW done, NEW next
  PROVE  Grows(c, b, done, next)
<1>1. b.next \in Nat
  BY BoxShape
<1> QED BY <1>1 DEF Grows, SameNumbers, Clear

LEMMA GrowsAssign ==
  ASSUME NEW b, Sound(b), NEW r \in Nat, NEW done \in SUBSET Numbered, NEW next \in Nat \ {0},
         \A d \in done : d.number < next
  PROVE  /\ Grows(Assign(b, r), b, done, next)
         /\ next <= b.next => next <= Assign(b, r).next
<1> DEFINE c == Assign(b, r)
           last == b.next + Len(b.pending) - 1
<1>1. /\ b.next <= last + 1
      /\ c.next = last + 1
      /\ DOMAIN c.assigned = DOMAIN b.assigned \cup (b.next .. last)
      /\ \A n \in DOMAIN b.assigned : c.assigned[n] = b.assigned[n]
  BY AssignShape DEF Sound, Numbering
<1>2. b.next \in Nat /\ last \in Int /\ DOMAIN b.assigned \subseteq Nat
  BY BoxShape, BatchShape DEF Sound
<1> HIDE DEF c, last
<1>3. ASSUME NEW n \in Nat, n <= next, n = next \/ next <= b.next, Clear(b, n, done)
      PROVE  Clear(c, n, done)
  <2>1. ASSUME NEW d \in done, d.number >= n, d.number \in DOMAIN c.assigned
        PROVE  c.assigned[d.number] = d
    <3>1. d.number \in Nat /\ d.number < next
      BY DEF Numbered
    <3>2. d.number < b.next
      BY <1>2, <1>3, <2>1, <3>1
    <3>3. d.number \in DOMAIN b.assigned
      BY <1>1, <1>2, <2>1, <3>1, <3>2
    <3> QED BY <1>1, <1>3, <2>1, <3>3 DEF Clear
  <2> QED BY <2>1 DEF Clear
<1>4. Grows(c, b, done, next)
  BY <1>1, <1>3 DEF Grows
<1>5. next <= b.next => next <= c.next
  BY <1>1, <1>2
<1> QED BY <1>4, <1>5 DEF c

LEMMA GrowsTrim ==
  ASSUME NEW b \in Boxes, NEW c, NEW n \in Nat, Trimmed(c, b, n), NEW done, NEW next \in Nat, n <= next
  PROVE  Grows(c, b, done, next)
<1>1. b.next \in Nat /\ DOMAIN b.assigned \subseteq Nat
  BY BoxShape, BatchShape
<1>2. \A m \in DOMAIN b.assigned : m >= next => m \in DOMAIN c.assigned
  BY <1>1 DEF Trimmed
<1> QED BY <1>1, <1>2 DEF Grows, Trimmed, Clear

LEMMA GrowsTwice ==
  ASSUME NEW b \in Boxes, NEW c \in Boxes, NEW d \in Boxes, NEW done, NEW next \in Nat,
         Grows(c, b, done, next), Grows(d, c, done, next)
  PROVE  Grows(d, b, done, next)
<1>1. b.next \in Nat /\ c.next \in Nat /\ d.next \in Nat
  BY BoxShape
<1>2. b.next <= d.next /\ (next <= b.next => next <= c.next)
  BY <1>1 DEF Grows
<1> QED BY <1>2 DEF Grows

\* Steps that leave the store alone and start no session.
LEMMA StepData ==
  ASSUME WireInv, DataInv, UNCHANGED storeVars, runtime' = runtime, observed' \in Nat, observed <= observed',
         SpoolKept' => SpoolKept, NEW g \in Batches, UpFrom(g), NEW T, DownFrom(T),
         \A q \in Runtimes : Acting(q) =>
            /\ box'[q] \in Boxes
            /\ Follows(box'[q], observed', UnderWay \cup EventsOf(g), Done, Expected, SpoolKept')
            /\ Grows(box'[q], box[q], Done, Expected),
         Load(spool') \in Boxes,
         Follows(Load(spool'), observed', UnderWay \cup EventsOf(g), Done, Expected, SpoolKept'),
         \A n \in DOMAIN g :
            /\ g[n].number = n /\ n < box'[runtime].next /\ n \in DOMAIN box'[runtime].assigned
            /\ g[n].item.of \subseteq 1 .. observed'
            /\ \A d \in Done : d.number = n => d = g[n],
         1 \in DOMAIN up => \A f \in T : Answers(f, box'[UpOwner(1)], Done, Expected),
         Resumes', Accounted'
  PROVE  DataInv'
<1>0. /\ PlainTypes /\ OwnedSockets /\ HeldFrames /\ FrameTypes /\ Boxed
      /\ StoreInv /\ Sourced /\ Old(UnderWay, Done, observed) /\ Backed /\ Unclashing /\ Answered /\ CommittedInOrder
  BY DEF WireInv, FramesInv, DataInv
<1>1. UNCHANGED <<ledger, head, expected>> /\ Done' = Done /\ Expected' = Expected
  BY DEF storeVars, Done, Expected
<1>2. StoreInv'
  BY <1>0, <1>1 DEF StoreInv, Promises!LedgerInv, Promises!LedgerTypeOK, Promises!CursorsDense, Promises!AdmittedOnce,
                    Promises!OrderedBySeq, Promises!NumbersAdmitted
<1>3. /\ Expected \in Nat \ {0} /\ Done \in SUBSET Numbered /\ UnderWay \in SUBSET Numbered
      /\ observed \in Nat /\ SpoolKept' \in BOOLEAN
      /\ UnderWay' \subseteq UnderWay \cup EventsOf(g)
      /\ EventsOf(g) \in SUBSET Numbered
  <2>1. EventsOf(g) \in SUBSET Numbered
    BY BatchShape DEF EventsOf
  <2> QED BY <1>0, <2>1, StoreShape, UnderWayTypes, UnderWayFrom DEF PlainTypes, SpoolKept
<1>4. Sourced'
  <2>1. ASSUME NEW b \in Boxes,
               Follows(b, observed', UnderWay \cup EventsOf(g), Done, Expected, SpoolKept')
        PROVE  Follows(b, observed', UnderWay', Done', Expected', SpoolKept')
    BY <1>1, <1>3, <2>1, FollowsLess
  <2>2. ASSUME NEW r \in Runtimes, Acting(r)' PROVE FollowsNow(box[r])'
    <3>1. Acting(r)
      BY <2>2, ActingFrom
    <3> QED BY <2>1, <3>1 DEF FollowsNow
  <2>3. FollowsNow(Load(spool))'
    BY <2>1 DEF FollowsNow
  <2> QED BY <2>2, <2>3 DEF Sourced
<1>5. Old(UnderWay, Done, observed)'
  <2>1. \A e \in EventsOf(g) : e.item.of \subseteq 1 .. observed'
    BY DEF EventsOf
  <2>2. \A S : S \subseteq 1 .. observed => S \subseteq 1 .. observed'
    BY <1>3
  <2>3. \A e \in UnderWay \cup Done : e.item.of \subseteq 1 .. observed'
    BY <1>0, <2>2 DEF Old
  <2> QED BY <1>1, <1>3, <2>1, <2>3 DEF Old
<1>6. Unclashing'
  <2>1. ASSUME NEW e \in EventsOf(g), NEW d \in Done, e.number = d.number PROVE e = d
    BY <2>1 DEF EventsOf
  <2> QED BY <1>0, <1>1, <1>3, <2>1 DEF Unclashing
<1>7. /\ runtime \in Nat
      /\ \A j \in DOMAIN up : UpOwner(j) \in Runtimes /\ Acting(UpOwner(j))
      /\ \A j \in DOMAIN down : DownOwner(j) \in Runtimes /\ Acting(DownOwner(j))
  BY <1>0, FrameOwners DEF Acting
<1>8. Backed'
  <2>1. ASSUME NEW k \in DOMAIN up', NEW n \in DOMAIN up'[k].batch
        PROVE  /\ up'[k].batch[n].number = n
               /\ n < box'[owner'[up'[k].socket]].next
               /\ n >= Expected => n \in DOMAIN box'[owner'[up'[k].socket]].assigned
    <3>1. CASE up'[k].batch = g /\ owner'[up'[k].socket] = runtime
      BY <3>1, <2>1
    <3>2. ASSUME NEW j \in DOMAIN up, PartOf(up'[k], up[j]), owner'[up'[k].socket] = UpOwner(j)
          PROVE  /\ up'[k].batch[n].number = n
                 /\ n < box'[owner'[up'[k].socket]].next
                 /\ n >= Expected => n \in DOMAIN box'[owner'[up'[k].socket]].assigned
      <4> DEFINE o == UpOwner(j)
      <4>1. n \in DOMAIN up[j].batch /\ up'[k].batch[n] = up[j].batch[n]
        BY <2>1, <3>2 DEF PartOf
      <4>2. /\ up[j].batch[n].number = n
            /\ n < box[o].next
            /\ n >= Expected => n \in DOMAIN box[o].assigned
        BY <1>0, <4>1 DEF Backed
      <4>3. o \in Runtimes /\ Acting(o)
        BY <1>7
      <4> HIDE DEF o
      <4>4. Grows(box'[o], box[o], Done, Expected) /\ box'[o] \in Boxes /\ box[o] \in Boxes
        BY <1>0, <4>3 DEF Boxed
      <4>5. box[o].next \in Nat /\ box'[o].next \in Nat /\ n \in Nat
        <5>1. up[j] \in UpFrames
          BY <1>0 DEF FrameTypes
        <5>2. up[j].batch \in Batches
          BY <5>1, FrameShape
        <5> QED BY <4>1, <4>4, <5>2, BoxShape, BatchShape
      <4>6. n < box'[o].next
        BY <4>2, <4>4, <4>5 DEF Grows
      <4>7. n >= Expected => n \in DOMAIN box'[o].assigned
        BY <4>2, <4>4 DEF Grows
      <4> QED BY <3>2, <4>1, <4>2, <4>6, <4>7 DEF o
    <3> QED BY <3>1, <3>2 DEF UpFrom
  <2> QED BY <1>1, <2>1 DEF Backed, UpOwner
<1>9. Answered'
  <2>1. ASSUME NEW k \in DOMAIN down' PROVE Answers(down'[k], box'[owner'[down'[k].socket]], Done, Expected)
    <3>1. CASE 1 \in DOMAIN up /\ down'[k] \in T /\ owner'[down'[k].socket] = UpOwner(1)
      BY <3>1
    <3>2. ASSUME NEW j \in DOMAIN down, down'[k] = down[j], owner'[down'[k].socket] = DownOwner(j)
          PROVE  Answers(down'[k], box'[owner'[down'[k].socket]], Done, Expected)
      <4> DEFINE o == DownOwner(j)
                 f == down[j]
      <4>1. Answers(f, box[o], Done, Expected) /\ f \in DownFrames
        BY <1>0 DEF Answered, FrameTypes
      <4>2. o \in Runtimes /\ Acting(o)
        BY <1>7
      <4> HIDE DEF o, f
      <4>3. Grows(box'[o], box[o], Done, Expected) /\ box'[o] \in Boxes /\ box[o] \in Boxes
        BY <1>0, <4>2 DEF Boxed
      <4>4. box[o].next \in Nat /\ box'[o].next \in Nat /\ f.n \in Nat
        BY <4>1, <4>3, BoxShape, FrameShape
      <4>5. Expected <= box[o].next => Expected <= box'[o].next
        BY <1>3, <4>3, <4>4 DEF Grows
      <4>6. f.type = "registered" => Clear(box'[o], f.n, Done)
        BY <4>1, <4>3, <4>4 DEF Answers, Grows
      <4>7. Answers(f, box'[o], Done, Expected)
        BY <4>1, <4>5, <4>6 DEF Answers
      <4> QED BY <3>2, <4>7 DEF o, f
    <3> QED BY <3>1, <3>2 DEF DownFrom
  <2> QED BY <1>1, <2>1 DEF Answered, DownOwner
<1>10. CommittedInOrder'
  BY <1>0, <1>1 DEF CommittedInOrder
<1> QED BY <1>2, <1>4, <1>5, <1>6, <1>8, <1>9, <1>10 DEF DataInv

LEMMA ResumesGrown ==
  ASSUME WireInv, DataInv, UNCHANGED storeVars, runtime' = runtime,
         \A r \in Runtimes : r = runtime /\ connected'[r] => connected[r],
         \A r \in Runtimes : r = runtime => box'[r] \in Boxes /\ Grows(box'[r], box[r], Done, Expected)
  PROVE  Resumes'
<1>1. Done' = Done /\ Expected' = Expected
  BY DEF storeVars, Done, Expected
<1>2. ASSUME NEW r \in Runtimes, r = runtime, connected'[r]
      PROVE  Clear(box'[r], 1, Done) /\ Expected <= box'[r].next
  <2>1. Clear(box[r], 1, Done) /\ Expected <= box[r].next
    BY <1>2 DEF DataInv, Resumes
  <2>2. Expected \in Nat \ {0} /\ box[r].next \in Nat /\ box'[r].next \in Nat
    BY <1>2, StoreShape, BoxShape DEF DataInv, WireInv, Boxed
  <2> QED BY <1>2, <2>1, <2>2 DEF Grows
<1> QED BY <1>1, <1>2 DEF Resumes

\* Steps of sockets, and answers of the daemon.
LEMMA QuietData ==
  ASSUME WireInv, DataInv, UNCHANGED storeVars, UNCHANGED <<runtime, box, spool, observed, musts>>,
         SpoolKept' => SpoolKept, UpFrom(NoEvents), NEW T, DownFrom(T),
         1 \in DOMAIN up => \A f \in T : Answers(f, box[UpOwner(1)], Done, Expected),
         \A r \in Runtimes : r = runtime /\ connected'[r] => connected[r],
         phase' = "open" => phase = "open"
  PROVE  DataInv'
<1>0. Boxed /\ StoreInv /\ Sourced /\ Accounted
  BY DEF WireInv, DataInv
<1>1. Done' = Done /\ Expected' = Expected /\ Expected \in Nat \ {0} /\ Done \in SUBSET Numbered
  BY <1>0, StoreShape DEF storeVars, Done, Expected
<1>2. EventsOf(NoEvents) = {} /\ NoEvents \in Batches /\ DOMAIN NoEvents = {}
  BY NoBatch DEF EventsOf
<1>3. UnderWay \cup EventsOf(NoEvents) = UnderWay
  BY <1>2
<1>4. observed \in Nat /\ observed' \in Nat /\ observed <= observed' /\ SpoolKept \in BOOLEAN /\ SpoolKept' \in BOOLEAN
  BY DEF WireInv, PlainTypes, SpoolKept
<1>5. ASSUME NEW b \in Boxes, FollowsNow(b)
      PROVE  Follows(b, observed', UnderWay \cup EventsOf(NoEvents), Done, Expected, SpoolKept')
  BY <1>3, <1>4, <1>5, FollowsLess DEF FollowsNow
<1>6. ASSUME NEW q \in Runtimes, Acting(q)
      PROVE  /\ box'[q] \in Boxes
             /\ Follows(box'[q], observed', UnderWay \cup EventsOf(NoEvents), Done, Expected, SpoolKept')
             /\ Grows(box'[q], box[q], Done, Expected)
  <2>1. box[q] \in Boxes /\ FollowsNow(box[q]) /\ box'[q] = box[q]
    BY <1>0, <1>6 DEF Boxed, Sourced
  <2>2. Grows(box[q], box[q], Done, Expected)
    BY <2>1, GrowsSame DEF SameNumbers
  <2> QED BY <1>5, <2>1, <2>2
<1>7. Load(spool') \in Boxes /\ Follows(Load(spool'), observed', UnderWay \cup EventsOf(NoEvents), Done, Expected, SpoolKept')
  BY <1>0, <1>5, LoadShape DEF Boxed, Sourced
<1>8. Resumes'
  <2>1. \A r \in Runtimes : r = runtime => box'[r] \in Boxes /\ Grows(box'[r], box[r], Done, Expected)
    BY <1>6 DEF Acting
  <2> QED BY <2>1, ResumesGrown
<1>9. Accounted'
  BY <1>0, <1>1 DEF Accounted
<1>10. \A n \in DOMAIN NoEvents :
          /\ NoEvents[n].number = n /\ n < box'[runtime].next /\ n \in DOMAIN box'[runtime].assigned
          /\ NoEvents[n].item.of \subseteq 1 .. observed'
          /\ \A d \in Done : d.number = n => d = NoEvents[n]
  BY <1>2
<1> QED BY <1>2, <1>4, <1>6, <1>7, <1>8, <1>9, <1>10, StepData

\* Steps that change an outbox, and send no events.
LEMMA BoxData ==
  ASSUME WireInv, DataInv, UNCHANGED storeVars, UNCHANGED <<runtime, faults>>,
         observed' \in Nat, observed <= observed', UpFrom(NoEvents), DownFrom({}),
         NEW r \in Runtimes, Acting(r), NEW c, Sound(c), box' = [box EXCEPT ![r] = c],
         spool' = spool \/ spool' = SpoolOf(c),
         Follows(c, observed', UnderWay, Done, Expected, SpoolKept), Grows(c, box[r], Done, Expected),
         Resumes', Accounted'
  PROVE  DataInv'
<1>0. Boxed /\ StoreInv /\ Sourced
  BY DEF WireInv, DataInv
<1>1. Expected \in Nat \ {0} /\ Done \in SUBSET Numbered
  BY <1>0, StoreShape
<1>2. EventsOf(NoEvents) = {} /\ NoEvents \in Batches /\ DOMAIN NoEvents = {}
  BY NoBatch DEF EventsOf
<1>3. UnderWay \cup EventsOf(NoEvents) = UnderWay
  BY <1>2
<1>4. observed \in Nat /\ SpoolKept \in BOOLEAN /\ SpoolKept' = SpoolKept
  BY DEF WireInv, PlainTypes, SpoolKept
<1>5. ASSUME NEW b \in Boxes, FollowsNow(b)
      PROVE  Follows(b, observed', UnderWay \cup EventsOf(NoEvents), Done, Expected, SpoolKept')
  BY <1>3, <1>4, <1>5, FollowsLess DEF FollowsNow
<1>6. ASSUME NEW q \in Runtimes, Acting(q)
      PROVE  /\ box'[q] \in Boxes
             /\ Follows(box'[q], observed', UnderWay \cup EventsOf(NoEvents), Done, Expected, SpoolKept')
             /\ Grows(box'[q], box[q], Done, Expected)
  <2>1. CASE q = r
    <3>1. box'[q] = c /\ c \in Boxes
      BY <1>0, <2>1 DEF Boxed, Sound
    <3> QED BY <1>3, <1>4, <2>1, <3>1
  <2>2. CASE q # r
    <3>1. box[q] \in Boxes /\ FollowsNow(box[q]) /\ box'[q] = box[q]
      BY <1>0, <1>6, <2>2 DEF Boxed, Sourced
    <3>2. Grows(box[q], box[q], Done, Expected)
      BY <3>1, GrowsSame DEF SameNumbers
    <3> QED BY <1>5, <3>1, <3>2
  <2> QED BY <2>1, <2>2
<1>7. Load(spool') \in Boxes /\ Follows(Load(spool'), observed', UnderWay \cup EventsOf(NoEvents), Done, Expected, SpoolKept')
  <2>1. CASE spool' = spool
    BY <1>0, <1>5, <2>1, LoadShape DEF Boxed, Sourced
  <2>2. CASE spool' = SpoolOf(c)
    <3>1. Load(SpoolOf(c)) \in Boxes /\ Follows(Load(SpoolOf(c)), observed', UnderWay, Done, Expected, SpoolKept)
      BY <1>4, SavedShape, FollowsSaved DEF Sound
    <3> QED BY <1>3, <1>4, <2>2, <3>1
  <2> QED BY <2>1, <2>2
<1>8. \A n \in DOMAIN NoEvents :
         /\ NoEvents[n].number = n /\ n < box'[runtime].next /\ n \in DOMAIN box'[runtime].assigned
         /\ NoEvents[n].item.of \subseteq 1 .. observed'
         /\ \A d \in Done : d.number = n => d = NoEvents[n]
  BY <1>2
<1> QED BY <1>2, <1>4, <1>6, <1>7, <1>8, StepData

\* A runtime that leads is alone.
LEMMA OnlyLatestActs ==
  ASSUME WireInv, Leads(runtime), NEW q \in Runtimes, Acting(q)
  PROVE  q = runtime
<1>1. PlainTypes /\ OwnedSockets /\ HeldFrames
  BY DEF WireInv, FramesInv
<1>2. runtime \in Nat
  BY <1>1 DEF PlainTypes
<1>3. /\ \A k \in DOMAIN up : UpOwner(k) \in Nat /\ UpOwner(k) <= runtime
      /\ \A k \in DOMAIN down : DownOwner(k) \in Nat /\ DownOwner(k) <= runtime
  BY <1>1, FrameOwners DEF Runtimes
<1> QED BY <1>2, <1>3 DEF Leads, Acting

\* Steps that change the outbox of the latest runtime and send it.
LEMMA PublishData ==
  ASSUME WireInv, DataInv, UNCHANGED storeVars, UNCHANGED <<runtime, faults>>,
         observed' \in Nat, observed <= observed', DownFrom({}),
         runtime \in Runtimes, Leads(runtime), NEW c, Sound(c), box' = [box EXCEPT ![runtime] = c],
         spool' = SpoolOf(c), UpFrom(c.assigned),
         Follows(c, observed', UnderWay, Done, Expected, SpoolKept), Grows(c, box[runtime], Done, Expected),
         Clear(c, 1, Done), Resumes', Accounted'
  PROVE  DataInv'
<1>0. Boxed /\ StoreInv /\ Sourced
  BY DEF WireInv, DataInv
<1>1. Expected \in Nat \ {0} /\ Done \in SUBSET Numbered
  BY <1>0, StoreShape
<1> DEFINE g == c.assigned
<1>2. g \in Batches /\ c \in Boxes /\ DOMAIN g \subseteq Nat \ {0} /\ box'[runtime] = c
  BY <1>0, BoxShape, BatchShape DEF Sound, Boxed
<1>3. SpoolKept \in BOOLEAN /\ SpoolKept' = SpoolKept
  BY DEF SpoolKept
<1>4. Follows(c, observed', UnderWay \cup EventsOf(g), Done, Expected, SpoolKept')
  BY <1>2, <1>3, FollowsPublish
<1>5. Load(spool') \in Boxes /\ Follows(Load(spool'), observed', UnderWay \cup EventsOf(g), Done, Expected, SpoolKept')
  BY <1>2, <1>3, <1>4, SavedShape, FollowsSaved
<1>6. ASSUME NEW n \in DOMAIN g
      PROVE  /\ g[n].number = n /\ n < box'[runtime].next /\ n \in DOMAIN box'[runtime].assigned
             /\ g[n].item.of \subseteq 1 .. observed'
             /\ \A d \in Done : d.number = n => d = g[n]
  <2>1. g[n].number = n /\ n < c.next
    BY DEF Sound, Numbering
  <2>2. g[n].item.of \subseteq 1 .. observed'
    BY DEF Follows, Within
  <2>3. \A d \in Done : d.number = n => d = g[n]
    BY <1>2 DEF Clear
  <2> QED BY <1>2, <2>1, <2>2, <2>3
<1>7. ASSUME NEW q \in Runtimes, Acting(q)
      PROVE  /\ box'[q] \in Boxes
             /\ Follows(box'[q], observed', UnderWay \cup EventsOf(g), Done, Expected, SpoolKept')
             /\ Grows(box'[q], box[q], Done, Expected)
  <2>1. q = runtime
    BY <1>7, OnlyLatestActs
  <2> QED BY <1>2, <1>4, <2>1
<1> HIDE DEF g
<1>8. UpFrom(g)
  BY DEF g
<1>9. SpoolKept' => SpoolKept
  BY <1>3
<1>10. 1 \in DOMAIN up => \A f \in {} : Answers(f, box'[UpOwner(1)], Done, Expected)
  OBVIOUS
<1> QED BY <1>2, <1>5, <1>6, <1>7, <1>8, <1>9, <1>10, StepData

\* Mandatory observations while an outbox changes.
LEMMA CoversObserve ==
  ASSUME NEW b \in Boxes, NEW i \in Items, NEW top \in Nat, i.of = {top + 1}, Within(b, top),
         NEW ms \in SUBSET (1 .. top), NEW done, Unsnapped(b, ms)
  PROVE  LET c == Observe(b, i)
             more == IF i.kind = "must" THEN ms \cup {top + 1} ELSE ms
         IN  Unsnapped(c, more) /\ (Covers(b, ms, done) => Covers(c, more, done))
<1> DEFINE c == Observe(b, i)
           more == IF i.kind = "must" THEN ms \cup {top + 1} ELSE ms
<1>1. c \in Boxes /\ Taken(c, b, i)
  BY ObserveShape
<1> HIDE DEF c
<1>2. c.assigned = b.assigned
  BY <1>1 DEF Taken, SameNumbers
<1>3. \A m \in more : m \in ms \/ (i.kind = "must" /\ m = top + 1)
  OBVIOUS
<1>4. \A k \in DOMAIN b.pending : b.pending[k].of \subseteq 1 .. top
  BY DEF Within
<1>5. top + 1 \notin 1 .. top
  OBVIOUS
<1> HIDE DEF more
<1>6. Unsnapped(c, more)
  <2>1. ASSUME NEW k \in DOMAIN c.pending, c.pending[k].kind = "snap" PROVE c.pending[k].of \cap more = {}
    <3>1. CASE c.pending[k] = i
      <4>1. more = ms /\ i.of = {top + 1}
        BY <2>1, <3>1 DEF more
      <4> QED BY <1>5, <3>1, <4>1
    <3>2. ASSUME NEW j \in DOMAIN b.pending, c.pending[k] = b.pending[j] PROVE c.pending[k].of \cap more = {}
      <4>1. b.pending[j].of \cap ms = {} /\ b.pending[j].of \subseteq 1 .. top
        BY <1>4, <2>1, <3>2 DEF Unsnapped
      <4> QED BY <1>3, <1>5, <3>2, <4>1
    <3> QED BY <1>1, <2>1, <3>1, <3>2 DEF Taken
  <2> QED BY <2>1 DEF Unsnapped
<1>7. ASSUME NEW m \in ms, m \in PendingObservations(b) PROVE m \in PendingObservations(c)
  <2>1. PICK j \in DOMAIN b.pending : m \in b.pending[j].of
    BY <1>7 DEF PendingObservations
  <2>2. b.pending[j].kind # "snap"
    BY <2>1 DEF Unsnapped
  <2> QED BY <1>1, <2>1, <2>2 DEF Taken
<1>8. i.kind = "must" => top + 1 \in PendingObservations(c)
  BY <1>1 DEF Taken
<1>9. ASSUME Covers(b, ms, done) PROVE Covers(c, more, done)
  <2>1. ASSUME NEW m \in ms
        PROVE  \/ m \in PendingObservations(c)
               \/ \E n \in DOMAIN c.assigned : m \in c.assigned[n].item.of
               \/ \E d \in done : m \in d.item.of
    BY <1>2, <1>7, <1>9 DEF Covers
  <2> QED BY <1>3, <1>8, <2>1 DEF Covers
<1> QED BY <1>6, <1>9 DEF c, more

LEMMA CoversAssign ==
  ASSUME NEW b, Sound(b), NEW r \in Nat, NEW ms, NEW done
  PROVE  Unsnapped(Assign(b, r), ms) /\ (Covers(b, ms, done) => Covers(Assign(b, r), ms, done))
<1> DEFINE c == Assign(b, r)
           last == b.next + Len(b.pending) - 1
<1>1. /\ c.pending = <<>>
      /\ DOMAIN c.assigned = DOMAIN b.assigned \cup (b.next .. last)
      /\ \A n \in DOMAIN b.assigned : c.assigned[n] = b.assigned[n]
      /\ \A n \in b.next .. last : c.assigned[n] = [number |-> n, by |-> r, item |-> b.pending[n - b.next + 1]]
  BY AssignShape DEF Sound, Numbering
<1>2. b.next \in Nat /\ DOMAIN b.pending = 1 .. Len(b.pending) /\ Len(b.pending) \in Nat /\ last = b.next + Len(b.pending) - 1
  BY BoxShape DEF Sound
<1> HIDE DEF c, last
<1>3. Unsnapped(c, ms)
  BY <1>1 DEF Unsnapped
<1>4. ASSUME NEW m \in PendingObservations(b) PROVE \E n \in DOMAIN c.assigned : m \in c.assigned[n].item.of
  <2>1. PICK j \in DOMAIN b.pending : m \in b.pending[j].of
    BY DEF PendingObservations
  <2> DEFINE n == b.next + j - 1
  <2>2. n \in b.next .. last /\ n - b.next + 1 = j
    BY <1>2
  <2> HIDE DEF n
  <2>3. c.assigned[n] = [number |-> n, by |-> r, item |-> b.pending[j]]
    BY <1>1, <2>2
  <2>4. c.assigned[n].item = b.pending[j]
    BY <2>3
  <2> QED BY <1>1, <2>1, <2>2, <2>4
<1>5. ASSUME Covers(b, ms, done) PROVE Covers(c, ms, done)
  <2>1. ASSUME NEW m, \E n \in DOMAIN b.assigned : m \in b.assigned[n].item.of
        PROVE  \E n \in DOMAIN c.assigned : m \in c.assigned[n].item.of
    BY <1>1, <2>1
  <2> QED BY <1>4, <1>5, <2>1 DEF Covers
<1> QED BY <1>3, <1>5 DEF c

LEMMA CoversTrim ==
  ASSUME NEW b \in Boxes, NEW c, NEW n \in Nat, Trimmed(c, b, n), NEW ms, NEW sent, NEW done, NEW next \in Nat,
         n <= next
  PROVE  /\ Unsnapped(b, ms) => Unsnapped(c, ms)
         /\ Keeps(b, sent, done, next) /\ Covers(b, ms, done) => Covers(c, ms, done)
<1>1. DOMAIN b.assigned \subseteq Nat
  BY BoxShape, BatchShape
<1>2. c.pending = b.pending /\ PendingObservations(c) = PendingObservations(b)
  BY DEF Trimmed, PendingObservations
<1>3. ASSUME Keeps(b, sent, done, next), NEW m, NEW k \in DOMAIN b.assigned, m \in b.assigned[k].item.of
      PROVE  \/ \E l \in DOMAIN c.assigned : m \in c.assigned[l].item.of
             \/ \E d \in done : m \in d.item.of
  <2>1. CASE k >= n
    <3>1. k \in DOMAIN c.assigned /\ c.assigned[k] = b.assigned[k]
      BY <2>1 DEF Trimmed
    <3> QED BY <1>3, <3>1
  <2>2. CASE ~(k >= n)
    <3>1. b.assigned[k] \in done
      BY <1>1, <1>3, <2>2 DEF Keeps
    <3> QED BY <1>3, <3>1
  <2> QED BY <2>1, <2>2
<1> QED BY <1>2, <1>3 DEF Unsnapped, Covers

LEMMA AccountedBox ==
  ASSUME Accounted, box \in [Runtimes -> Boxes], NEW r \in Runtimes, NEW c, box' = [box EXCEPT ![r] = c],
         UNCHANGED <<runtime, observed, musts, phase, faults>>, UNCHANGED storeVars,
         Unsnapped(box[r], musts) => Unsnapped(c, musts),
         SpoolKept /\ Covers(box[r], musts, Done) => Covers(c, musts, Done)
  PROVE  Accounted'
<1>1. Done' = Done /\ SpoolKept' = SpoolKept
  BY DEF storeVars, Done, SpoolKept
<1>2. ASSUME NEW q \in Runtimes, q = runtime
      PROVE  /\ Unsnapped(box'[q], musts)
             /\ phase = "open" /\ SpoolKept => Covers(box'[q], musts, Done)
  <2>1. /\ Unsnapped(box[q], musts)
        /\ phase = "open" /\ SpoolKept => Covers(box[q], musts, Done)
    BY <1>2 DEF Accounted
  <2>2. box'[q] = IF q = r THEN c ELSE box[q]
    OBVIOUS
  <2> QED BY <2>1, <2>2
<1> QED BY <1>1, <1>2 DEF Accounted

\* Numbers under way are below the next one of the runtime that publishes.
LEMMA SentBelow ==
  ASSUME WireInv, DataInv, NEW r \in Runtimes,
         \A k \in DOMAIN up : up[k].type = "publish" => UpOwner(k) = r
  PROVE  \A e \in UnderWay : e.number < box[r].next
<1>1. ASSUME NEW k \in DOMAIN up, NEW n \in DOMAIN up[k].batch PROVE up[k].batch[n].number < box[r].next
  <2>1. up[k].type = "publish"
    BY <1>1 DEF WireInv, FramesInv, FrameTypes
  <2> QED BY <2>1 DEF DataInv, Backed
<1> QED BY <1>1 DEF UnderWay, EventsOf

LEMMA AssignData ==
  ASSUME WireInv, DataInv, NEW r \in Runtimes, NEW top \in Nat, NEW b, Sound(b), b.next = box[r].next,
         \A k \in DOMAIN up : up[k].type = "publish" => UpOwner(k) = r,
         Follows(b, top, UnderWay, Done, Expected, SpoolKept)
  PROVE  /\ Follows(Assign(b, r), top, UnderWay, Done, Expected, SpoolKept)
         /\ Sound(Assign(b, r))
         /\ Grows(Assign(b, r), b, Done, Expected)
         /\ Expected <= b.next => Expected <= Assign(b, r).next
<1>1. /\ Expected \in Nat \ {0} /\ Done \in SUBSET Numbered /\ UnderWay \in SUBSET Numbered
      /\ r \in Nat /\ SpoolKept \in BOOLEAN /\ b \in Boxes
      /\ \A d \in Done : d.number < Expected
  BY StoreShape, UnderWayTypes DEF DataInv, WireInv, FramesInv, SpoolKept, Runtimes, Sound
<1>2. \A e \in UnderWay : e.number < b.next
  BY SentBelow
<1>3. Follows(Assign(b, r), top, UnderWay, Done, Expected, SpoolKept)
  BY <1>1, <1>2, FollowsAssign
<1>4. Sound(Assign(b, r))
  BY <1>1, SoundAssign
<1> QED BY <1>1, <1>3, <1>4, GrowsAssign

\* The latest runtime takes an observation, and flushes or not.
LEMMA ObservesData ==
  ASSUME WireInv, DataInv, runtime \in Runtimes, NEW kind \in Kinds,
         NEW x \in BOOLEAN, x => connected[runtime],
         FlushWhen(x, runtime, Observe(box[runtime], Observation(kind, observed + 1))),
         UNCHANGED <<runtime, faults, connected, owner, down>>, UNCHANGED storeVars, observed' = observed + 1,
         musts' = IF kind = "must" THEN musts \cup {observed + 1} ELSE musts,
         phase' = "open" => phase = "open"
  PROVE  DataInv'
<1> DEFINE i == Observation(kind, observed + 1)
           b == Observe(box[runtime], i)
<1>0. /\ PlainTypes /\ OwnedSockets /\ Boxed /\ FrameTypes /\ FramesInv
      /\ StoreInv /\ Sourced /\ Accounted /\ Resumes /\ Old(UnderWay, Done, observed)
  BY DEF WireInv, FramesInv, DataInv
<1>1. /\ Expected \in Nat \ {0} /\ Done \in SUBSET Numbered /\ UnderWay \in SUBSET Numbered
      /\ observed \in Nat /\ SpoolKept \in BOOLEAN /\ SpoolKept' = SpoolKept
      /\ Done' = Done /\ Expected' = Expected
  BY <1>0, StoreShape, UnderWayTypes DEF PlainTypes, SpoolKept, storeVars, Done, Expected
<1>2. /\ box[runtime] \in Boxes /\ Sound(box[runtime])
      /\ Follows(box[runtime], observed, UnderWay, Done, Expected, SpoolKept)
  BY <1>0 DEF Boxed, Sound, Sourced, FollowsNow, Acting
<1>3. i \in Items /\ i.of = {observed + 1} /\ i.kind = kind
  BY <1>1 DEF Observation, Items
<1> HIDE DEF i
<1>4. /\ Sound(b) /\ SameNumbers(b, box[runtime]) /\ b \in Boxes
      /\ Follows(b, observed + 1, UnderWay, Done, Expected, SpoolKept)
      /\ Grows(b, box[runtime], Done, Expected)
  <2>1. Sound(b) /\ SameNumbers(b, box[runtime])
    BY <1>2, <1>3, SoundObserve
  <2>2. Follows(b, observed + 1, UnderWay, Done, Expected, SpoolKept)
    BY <1>0, <1>1, <1>2, <1>3, FollowsObserve
  <2> HIDE DEF b
  <2> QED BY <1>2, <2>1, <2>2, GrowsSame DEF Sound
<1>5. /\ Unsnapped(b, musts')
      /\ phase' = "open" /\ SpoolKept => Covers(b, musts', Done)
  <2>1. /\ Unsnapped(box[runtime], musts) /\ musts \in SUBSET (1 .. observed) /\ Within(box[runtime], observed)
        /\ phase = "open" /\ SpoolKept => Covers(box[runtime], musts, Done)
    BY <1>0, <1>2 DEF Accounted, Follows
  <2> DEFINE more == IF i.kind = "must" THEN musts \cup {observed + 1} ELSE musts
  <2>2. musts' = more
    BY <1>3
  <2>3. /\ Unsnapped(Observe(box[runtime], i), more)
        /\ Covers(box[runtime], musts, Done) => Covers(Observe(box[runtime], i), more, Done)
    BY <1>1, <1>2, <1>3, <2>1, CoversObserve
  <2> HIDE DEF more
  <2> QED BY <2>1, <2>2, <2>3
<1>6. PICK c :
         /\ Sound(c)
         /\ box' = [box EXCEPT ![runtime] = c]
         /\ \/ c = b /\ spool' = spool /\ up' = up
            \/ /\ x /\ Sendable(runtime)
               /\ c = Assign(b, runtime)
               /\ spool' = SpoolOf(c)
               /\ \/ DOMAIN c.assigned = {} /\ up' = up
                  \/ DOMAIN c.assigned # {} /\ up' = Append(up, Publish(socket[runtime], c.assigned))
  <2>1. FlushWhen(x, runtime, b)
    BY DEF i
  <2> HIDE DEF b
  <2> QED BY <1>4, <2>1, FlushShape
<1> HIDE DEF b
<1>7. runtime \in Nat
  BY DEF Runtimes
<1>8. c # b => connected[runtime] /\ c = Assign(b, runtime) /\ Leads(runtime)
  BY <1>0, <1>6 DEF FramesInv, Leading
<1>9. c # b => \A k \in DOMAIN up : up[k].type = "publish" => UpOwner(k) = runtime
  <2>1. \A k \in DOMAIN up : UpOwner(k) \in Runtimes /\ Acting(UpOwner(k))
    BY <1>0, FrameOwners DEF FramesInv, Acting
  <2> QED BY <1>8, <2>1, OnlyLatestActs
<1>10. /\ c \in Boxes
       /\ Follows(c, observed + 1, UnderWay, Done, Expected, SpoolKept)
       /\ Grows(c, box[runtime], Done, Expected)
  <2>1. CASE c = b
    BY <1>4, <2>1
  <2>2. CASE c # b
    <3>1. /\ Follows(c, observed + 1, UnderWay, Done, Expected, SpoolKept)
          /\ Grows(c, b, Done, Expected)
      BY <1>1, <1>4, <1>8, <1>9, <2>2, AssignData DEF SameNumbers
    <3>2. c \in Boxes
      BY <1>6 DEF Sound
    <3> QED BY <1>1, <1>2, <1>4, <3>1, <3>2, GrowsTwice
  <2> QED BY <2>1, <2>2
<1>11. /\ Unsnapped(c, musts')
       /\ phase' = "open" /\ SpoolKept => Covers(c, musts', Done)
  <2>1. CASE c = b
    BY <1>5, <2>1
  <2>2. CASE c # b
    BY <1>4, <1>5, <1>7, <1>8, <2>2, CoversAssign
  <2> QED BY <2>1, <2>2
<1>12. box'[runtime] = c
  BY <1>0, <1>6 DEF Boxed
<1>13. Accounted'
  <2>1. musts' \subseteq 1 .. (observed + 1)
    BY <1>0, <1>1 DEF Accounted
  <2> QED BY <1>1, <1>11, <1>12, <2>1 DEF Accounted
<1>14. Resumes'
  BY <1>10, <1>12, ResumesGrown
<1>15. /\ observed' \in Nat /\ observed <= observed'
       /\ Follows(c, observed', UnderWay, Done, Expected, SpoolKept)
  BY <1>1, <1>10
<1>16. DownFrom({})
  <2>1. DownLess
    BY <1>0, DownSame DEF DownOwner
  <2> QED BY <2>1, LessFrom
<1>17. CASE up' = up
  <2>1. UpFrom(NoEvents)
    <3>1. UpLess
      BY <1>0, <1>17, UpSame DEF UpOwner
    <3> QED BY <3>1, LessFrom
  <2>2. Acting(runtime)
    BY DEF Acting
  <2>3. spool' = spool \/ spool' = SpoolOf(c)
    BY <1>6
  <2> QED BY <1>6, <1>10, <1>13, <1>14, <1>15, <1>16, <2>1, <2>2, <2>3, BoxData
<1>18. CASE up' # up
  <2> DEFINE f == Publish(socket[runtime], c.assigned)
  <2>1. /\ x /\ Sendable(runtime) /\ up' = Append(up, f) /\ spool' = SpoolOf(c)
        /\ connected[runtime] /\ Leads(runtime)
    BY <1>0, <1>6, <1>18 DEF FramesInv, Leading
  <2>2. socket[runtime] \in Sockets /\ owner[socket[runtime]] = runtime
    BY <1>0, <2>1 DEF Sendable, WireOf, PlainTypes, OwnedSockets
  <2>3. f \in UpFrames /\ f.batch = c.assigned /\ f.socket = socket[runtime]
    BY <1>10, <2>2, FrameShape, BoxShape DEF Publish
  <2> HIDE DEF f
  <2>4. UpMore(f)
    BY <2>1, <2>2, <2>3 DEF UpMore, UpOwner
  <2>5. UpFrom(c.assigned)
    BY <1>0, <2>3, <2>4, UpMoreFrom
  <2>6. Clear(c, 1, Done)
    <3>1. Clear(box[runtime], 1, Done) /\ Expected <= box[runtime].next
      BY <1>0, <2>1 DEF Resumes
    <3> QED BY <1>1, <1>10, <3>1 DEF Grows
  <2> QED BY <1>6, <1>10, <1>13, <1>14, <1>15, <1>16, <2>1, <2>5, <2>6, PublishData
<1> QED BY <1>17, <1>18

LEMMA EventData ==
  ASSUME WireInv, DataInv, NEW kind \in EventKinds, Event(kind)
  PROVE  DataInv'
<1>1. phase = "open" /\ runtime \in Runtimes
  BY RunningRuntime DEF Event, IsCurrent
<1>2. kind \in Kinds
  BY DeliveryAssumption DEF Kinds
<1>3. connected[runtime] \in BOOLEAN
  BY <1>1 DEF WireInv, PlainTypes
<1>4. /\ FlushWhen(connected[runtime], runtime, Observe(box[runtime], Observation(kind, observed + 1)))
      /\ UNCHANGED <<runtime, phase, faults, connected, owner, down>> /\ UNCHANGED storeVars
      /\ observed' = observed + 1
      /\ musts' = IF kind = "must" THEN musts \cup {observed + 1} ELSE musts
  BY DEF Event
<1> QED BY <1>1, <1>2, <1>3, <1>4, ObservesData

LEMMA AuditData ==
  ASSUME WireInv, DataInv, Audit
  PROVE  DataInv'
<1>1. runtime \in Runtimes /\ "must" \in Kinds
  BY RunningRuntime DEF Audit, Kinds
<1>2. /\ Keep(runtime, Observe(box[runtime], Observation("must", observed + 1)))
      /\ UNCHANGED <<runtime, phase, spool, faults, connected>> /\ UNCHANGED wireVars /\ UNCHANGED storeVars
      /\ observed' = observed + 1
      /\ musts' = musts \cup {observed + 1}
  BY DEF Audit
<1>3. UNCHANGED <<owner, up, down>>
  BY <1>2 DEF wireVars
<1>4. FlushWhen(FALSE, runtime, Observe(box[runtime], Observation("must", observed + 1)))
  BY <1>2, <1>3 DEF FlushWhen
<1> QED BY <1>1, <1>2, <1>3, <1>4, ObservesData

LEMMA SessionShutdownData ==
  ASSUME WireInv, DataInv, SessionShutdown
  PROVE  DataInv'
<1>1. phase = "open" /\ runtime \in Runtimes /\ "must" \in Kinds
  BY RunningRuntime DEF SessionShutdown, Kinds
<1>2. connected[runtime] \in BOOLEAN
  BY <1>1 DEF WireInv, PlainTypes
<1>3. /\ FlushWhen(connected[runtime], runtime, Observe(box[runtime], Observation("must", observed + 1)))
      /\ UNCHANGED <<runtime, faults, connected, owner, down>> /\ UNCHANGED storeVars
      /\ observed' = observed + 1
      /\ musts' = musts \cup {observed + 1}
  BY DEF SessionShutdown, ShutdownRuntime
<1> QED BY <1>1, <1>2, <1>3, ObservesData

\* Steps that lose frames at most.
LEMMA LessData ==
  ASSUME WireInv, DataInv, UNCHANGED storeVars, UNCHANGED <<runtime, box, spool, observed, musts>>,
         SpoolKept' => SpoolKept, UpLess, DownLess,
         \A r \in Runtimes : r = runtime /\ connected'[r] => connected[r],
         phase' = "open" => phase = "open"
  PROVE  DataInv'
<1>1. UpFrom(NoEvents) /\ DownFrom({})
  BY LessFrom
<1>2. 1 \in DOMAIN up => \A f \in {} : Answers(f, box[UpOwner(1)], Done, Expected)
  OBVIOUS
<1> QED BY <1>1, <1>2, QuietData

LEMMA SameFrames ==
  ASSUME WireInv, UNCHANGED <<up, down>>, \A s \in Sockets : wire[s] # "free" => owner'[s] = owner[s]
  PROVE  UpLess /\ DownLess
<1>1. FrameTypes /\ HeldFrames
  BY DEF WireInv, FramesInv
<1>2. /\ \A k \in DOMAIN up : owner'[up[k].socket] = UpOwner(k)
      /\ \A k \in DOMAIN down : owner'[down[k].socket] = DownOwner(k)
  BY <1>1 DEF HeldFrames, UpOwner, DownOwner
<1> QED BY <1>1, <1>2, UpSame, DownSame

LEMMA EndSocketData ==
  ASSUME WireInv, DataInv, EndSocket
  PROVE  DataInv'
<1>1. /\ UNCHANGED <<runtime, box, spool, observed, musts, faults>> /\ UNCHANGED storeVars
      /\ phase' = "closed" /\ connected' = [connected EXCEPT ![runtime] = FALSE]
  BY DEF EndSocket
<1>2. SpoolKept' => SpoolKept
  BY <1>1 DEF SpoolKept
<1>3. \A r \in Runtimes : r = runtime /\ connected'[r] => connected[r]
  BY <1>1 DEF WireInv, PlainTypes
<1>4. UpLess /\ DownLess
  <2>1. CASE WireOf(runtime) = "connecting" /\ Forget(socket[runtime])
    <3>1. socket[runtime] \in Sockets
      BY <2>1, RunningRuntime DEF EndSocket, WireInv, PlainTypes, WireOf
    <3> QED BY <2>1, <3>1, ForgetOwned
  <2>2. CASE UNCHANGED <<owner, up, down>>
    BY <2>2, SameFrames
  <2> QED BY <2>1, <2>2 DEF EndSocket, wireVars
<1> QED BY <1>1, <1>2, <1>3, <1>4, LessData

\* The file is lost: the next session numbers its events from 1, which the daemon refuses.
LEMMA LoseSpoolData ==
  ASSUME WireInv, DataInv, LoseSpool
  PROVE  DataInv'
<1>1. /\ UNCHANGED <<runtime, phase, box, connected, observed, musts>> /\ UNCHANGED wireVars /\ UNCHANGED storeVars
      /\ phase = "closed" /\ spool' = EmptySpool
  BY DEF LoseSpool
<1>2. ~SpoolKept'
  BY HappensShape DEF LoseSpool, WireInv, FaultKinds, SpoolKept
<1>3. Boxed /\ StoreInv /\ Sourced /\ Accounted /\ observed \in Nat
  BY DEF WireInv, DataInv, PlainTypes
<1>4. Expected \in Nat \ {0} /\ Done \in SUBSET Numbered /\ SpoolKept \in BOOLEAN /\ SpoolKept' \in BOOLEAN
  BY <1>3, StoreShape DEF SpoolKept
<1>5. EventsOf(NoEvents) = {} /\ NoEvents \in Batches /\ DOMAIN NoEvents = {}
  BY NoBatch DEF EventsOf
<1>6. UnderWay \cup EventsOf(NoEvents) = UnderWay
  BY <1>5
<1>7. ASSUME NEW q \in Runtimes, Acting(q)
      PROVE  /\ box'[q] \in Boxes
             /\ Follows(box'[q], observed', UnderWay \cup EventsOf(NoEvents), Done, Expected, SpoolKept')
             /\ Grows(box'[q], box[q], Done, Expected)
  <2>1. box[q] \in Boxes /\ FollowsNow(box[q]) /\ box'[q] = box[q]
    BY <1>1, <1>3, <1>7 DEF Boxed, Sourced
  <2>2. Grows(box[q], box[q], Done, Expected)
    BY <2>1, GrowsSame DEF SameNumbers
  <2>3. Follows(box[q], observed', UnderWay, Done, Expected, SpoolKept')
    BY <1>1, <1>2, <1>3, <1>4, <2>1, FollowsLess DEF FollowsNow
  <2> QED BY <1>6, <2>1, <2>2, <2>3
<1>8. Load(spool') \in Boxes /\ Follows(Load(spool'), observed', UnderWay \cup EventsOf(NoEvents), Done, Expected, SpoolKept')
  <2>1. Load(EmptySpool) \in Boxes
    BY EmptyShape, LoadShape
  <2>2. Follows(Load(EmptySpool), observed', UnderWay, Done, Expected, SpoolKept')
    BY <1>2, FollowsEmpty
  <2> QED BY <1>1, <1>6, <2>1, <2>2
<1>9. UpFrom(NoEvents) /\ DownFrom({})
  <2>1. UpLess /\ DownLess
    BY <1>1, SameFrames DEF wireVars
  <2> QED BY <2>1, LessFrom
<1>10. Resumes'
  BY <1>1 DEF DataInv, Resumes, storeVars, Done, Expected
<1>11. Accounted'
  BY <1>1, <1>3 DEF Accounted
<1>12. 1 \in DOMAIN up => \A f \in {} : Answers(f, box'[UpOwner(1)], Done, Expected)
  OBVIOUS
<1>13. \A n \in DOMAIN NoEvents :
          /\ NoEvents[n].number = n /\ n < box'[runtime].next /\ n \in DOMAIN box'[runtime].assigned
          /\ NoEvents[n].item.of \subseteq 1 .. observed'
          /\ \A d \in Done : d.number = n => d = NoEvents[n]
  BY <1>5
<1>14. runtime' = runtime /\ observed' \in Nat /\ observed <= observed' /\ (SpoolKept' => SpoolKept)
  BY <1>1, <1>2, <1>3
<1> QED BY <1>1, <1>5, <1>7, <1>8, <1>9, <1>10, <1>11, <1>12, <1>13, <1>14, StepData

LEMMA FaultKept ==
  ASSUME NEW k \in FaultKinds, k # "loss", WireInv, Happens(k)
  PROVE  SpoolKept' = SpoolKept
  BY HappensShape DEF WireInv, SpoolKept

LEMMA ConnectingData ==
  ASSUME WireInv, DataInv, TimerFires \/ EnsureConnected \/ DialFails
  PROVE  DataInv'
<1>1. /\ UNCHANGED <<runtime, phase, box, spool, observed, musts>> /\ UNCHANGED wireVars /\ UNCHANGED storeVars
  BY DEF TimerFires, EnsureConnected, DialFails
<1>2. SpoolKept' = SpoolKept
  <2>1. CASE UNCHANGED faults
    BY <2>1 DEF SpoolKept
  <2>2. CASE Happens("enable")
    BY <2>2, FaultKept DEF FaultKinds
  <2>3. CASE Happens("break")
    BY <2>3, FaultKept DEF FaultKinds
  <2> QED BY <2>1, <2>2, <2>3 DEF TimerFires, EnsureConnected, DialFails
<1>3. \A r \in Runtimes : r = runtime /\ connected'[r] => connected[r]
  BY ScheduleShape DEF TimerFires, EnsureConnected, DialFails, WireInv
<1>4. UpLess /\ DownLess
  BY <1>1, SameFrames DEF wireVars
<1> QED BY <1>1, <1>2, <1>3, <1>4, LessData

LEMMA DialledData ==
  ASSUME WireInv, DataInv, Dialled
  PROVE  DataInv'
<1> DEFINE s == CHOOSE s \in Unused : \A t \in Unused : s <= t
<1>1. s \in Sockets /\ wire[s] = "free"
  <2>1. Unused \subseteq Nat /\ Unused # {}
    BY DEF Dialled, Unused, Sockets
  <2>2. \E t \in Unused : \A u \in Unused : t <= u
    BY <2>1, LeastNatural
  <2>3. s \in Unused
    BY <2>2, Zenon
  <2> QED BY <2>3 DEF Unused
<1>2. /\ owner' = [owner EXCEPT ![s] = runtime]
      /\ UNCHANGED <<runtime, phase, box, spool, connected, up, down, observed, musts, faults>> /\ UNCHANGED storeVars
  BY DEF Dialled
<1> HIDE DEF s
<1>3. UpLess /\ DownLess
  BY <1>1, <1>2, SameFrames DEF WireInv, PlainTypes
<1>4. SpoolKept' = SpoolKept
  BY <1>2 DEF SpoolKept
<1> QED BY <1>2, <1>3, <1>4, LessData

LEMMA CloseData ==
  ASSUME WireInv, DataInv, NEW s \in Sockets, Close(s)
  PROVE  DataInv'
<1>1. /\ Forget(s) /\ ScheduleReconnect(owner[s])
      /\ UNCHANGED <<runtime, phase, box, spool, observed, musts>> /\ UNCHANGED storeVars
  BY DEF Close
<1>2. SpoolKept' = SpoolKept
  <2>1. CASE UNCHANGED faults
    BY <2>1 DEF SpoolKept
  <2>2. CASE Happens("break")
    BY <2>2, FaultKept DEF FaultKinds
  <2> QED BY <2>1, <2>2 DEF Close
<1>3. UpLess /\ DownLess
  BY <1>1, ForgetOwned
<1>4. \A r \in Runtimes : connected'[r] => connected[r]
  BY <1>1, ScheduleShape DEF WireInv
<1> QED BY <1>1, <1>2, <1>3, <1>4, LessData

LEMMA OpenData ==
  ASSUME WireInv, DataInv, NEW s \in Sockets, Open(s)
  PROVE  DataInv'
<1> DEFINE r == owner[s]
           t == socket[r]
<1>1. PlainTypes /\ OwnedSockets /\ FrameTypes /\ FramesInv /\ Gone
  BY DEF WireInv, FramesInv
<1>2. /\ wire[s] = "connecting"
      /\ up' = IF t = s \/ Sendable(r) THEN Append(up, Hello(t)) ELSE up
      /\ UNCHANGED <<runtime, phase, box, spool, connected, owner, down, observed, musts, faults>> /\ UNCHANGED storeVars
  BY DEF Open, bridgeVars
<1>3. r \in Runtimes /\ r \in Nat /\ r <= runtime /\ runtime \in Nat
  BY <1>1, <1>2, FrameOwners DEF Runtimes, FramesInv
<1> HIDE DEF r, t
<1>4. ASSUME t = s \/ Sendable(r)
      PROVE  r = runtime /\ t \in Sockets /\ owner[t] = r
  <2>1. t \in Sockets /\ WireOf(r) \in {"connecting", "open"}
    <3>1. t \in Sockets \cup {NoSocket} /\ t = socket[r] /\ s # NoSocket
      BY <1>1, <1>3 DEF PlainTypes, t, Sockets, NoSocket
    <3> QED BY <1>2, <1>4, <3>1 DEF Sendable, WireOf
  <2>2. owner[t] = r
    BY <1>1, <1>3, <2>1 DEF OwnedSockets, t, Sockets, NoSocket
  <2> QED BY <1>1, <1>3, <2>1, <2>2 DEF Gone
<1>5. DownFrom({})
  <2>1. DownLess
    BY <1>1, <1>2, DownSame DEF DownOwner
  <2> QED BY <2>1, LessFrom
<1>6. UpFrom(NoEvents)
  <2>1. CASE t = s \/ Sendable(r)
    <3>1. Hello(t) \in UpFrames /\ Hello(t).socket = t /\ Hello(t).batch = NoEvents
      BY <1>4, <2>1, FrameShape DEF Hello
    <3>2. UpMore(Hello(t))
      BY <1>2, <1>4, <2>1, <3>1 DEF UpMore, UpOwner
    <3>3. UpFrom(Hello(t).batch)
      BY <1>1, <3>2, UpMoreFrom
    <3> QED BY <3>1, <3>3
  <2>2. CASE ~(t = s \/ Sendable(r))
    <3>1. up' = up
      BY <1>2, <2>2
    <3>2. UpLess
      BY <1>1, <1>2, <3>1, UpSame DEF UpOwner
    <3> QED BY <3>2, LessFrom
  <2> QED BY <2>1, <2>2
<1>7. SpoolKept' = SpoolKept
  BY <1>2 DEF SpoolKept
<1>8. 1 \in DOMAIN up => \A f \in {} : Answers(f, box[UpOwner(1)], Done, Expected)
  OBVIOUS
<1> QED BY <1>2, <1>5, <1>6, <1>7, <1>8, QuietData

LEMMA ResumeConflictsData ==
  ASSUME WireInv, DataInv, ResumeConflicts
  PROVE  DataInv'
<1>1. /\ UNCHANGED <<runtime, phase, box, spool, connected, observed, musts, faults, owner, up>> /\ UNCHANGED storeVars
      /\ Receives("registered")
  BY DEF ResumeConflicts, bridgeVars
<1>2. DownLess
  BY <1>1, ReceivesShape
<1>3. UpLess
  BY <1>1, UpSame DEF WireInv, FramesInv, UpOwner
<1>4. SpoolKept' = SpoolKept
  BY <1>1 DEF SpoolKept
<1> QED BY <1>1, <1>2, <1>3, <1>4, LessData

\* The first frame to the bridge: no other runtime before its own, and none that publishes.
LEMMA FirstLeads ==
  ASSUME WireInv, 1 \in DOMAIN down
  PROVE  /\ Leads(DownOwner(1))
         /\ \A k \in DOMAIN up : up[k].type = "publish" => UpOwner(k) = DownOwner(1)
<1> DEFINE r == DownOwner(1)
<1>1. /\ PlainTypes /\ OwnedSockets /\ HeldFrames /\ FrameTypes /\ InTurn /\ Leading
  BY DEF WireInv, FramesInv
<1>2. \A k \in DOMAIN up : r <= UpOwner(k)
  BY <1>1 DEF InTurn
<1>3. ASSUME NEW k \in DOMAIN down PROVE r <= DownOwner(k)
  <2>1. r \in Nat
    BY <1>1, FrameOwners DEF Runtimes
  <2>2. CASE k = 1
    BY <2>1, <2>2
  <2>3. CASE k # 1
    <3>1. 1 < k
      BY <1>1, <2>3 DEF FrameTypes
    <3> QED BY <1>1, <3>1 DEF InTurn
  <2> QED BY <2>2, <2>3
<1>4. ASSUME NEW k \in DOMAIN up, up[k].type = "publish" PROVE UpOwner(k) = r
  <2>1. UpOwner(k) <= r
    BY <1>1, <1>4 DEF Leading, Leads
  <2>2. r <= UpOwner(k)
    BY <1>2
  <2>3. r \in Nat /\ UpOwner(k) \in Nat
    BY <1>1, FrameOwners DEF Runtimes
  <2> QED BY <2>1, <2>2, <2>3
<1> QED BY <1>2, <1>3, <1>4 DEF Leads

\* What an answer meets at the bridge.
LEMMA ReceivesData ==
  ASSUME WireInv, DataInv, NEW type, Receives(type), owner' = owner
  PROVE  LET r == DownOwner(1)
         IN  /\ Answers(down[1], box[r], Done, Expected)
             /\ Acting(r) /\ Sound(box[r]) /\ box[r] \in Boxes
             /\ Follows(box[r], observed, UnderWay, Done, Expected, SpoolKept)
             /\ SpoolKept => Keeps(box[r], UnderWay, Done, Expected)
             /\ DownFrom({})
             /\ Expected \in Nat \ {0} /\ Done \in SUBSET Numbered /\ UnderWay \in SUBSET Numbered
             /\ observed \in Nat /\ SpoolKept \in BOOLEAN
             /\ \A d \in Done : d.number < Expected /\ d.number \in Nat
<1> DEFINE r == DownOwner(1)
<1>1. r \in Runtimes /\ 1 \in DOMAIN down /\ DownLess
  BY ReceivesShape
<1>2. Answers(down[1], box[r], Done, Expected)
  BY <1>1 DEF DataInv, Answered
<1>3. Acting(r)
  BY <1>1 DEF Acting
<1>4. Sound(box[r]) /\ box[r] \in Boxes
  BY <1>1 DEF WireInv, Boxed, Sound
<1>5. Follows(box[r], observed, UnderWay, Done, Expected, SpoolKept)
  BY <1>1, <1>3 DEF DataInv, Sourced, FollowsNow
<1>6. DownFrom({})
  BY <1>1, LessFrom
<1>7. /\ Expected \in Nat \ {0} /\ Done \in SUBSET Numbered /\ UnderWay \in SUBSET Numbered
      /\ \A d \in Done : d.number < Expected /\ d.number \in Nat
  BY StoreShape, UnderWayTypes DEF DataInv, WireInv, FramesInv
<1>8. SpoolKept => Keeps(box[r], UnderWay, Done, Expected)
  BY <1>5 DEF Follows
<1> QED BY <1>2, <1>3, <1>4, <1>5, <1>6, <1>7, <1>8 DEF WireInv, PlainTypes, SpoolKept

LEMMA WelcomedData ==
  ASSUME WireInv, DataInv, Welcomed
  PROVE  DataInv'
<1> DEFINE r == DownOwner(1)
           c == Assign(box[r], r)
<1>1. /\ UNCHANGED <<runtime, phase, socket, connected, owner, observed, musts, faults>> /\ UNCHANGED storeVars
      /\ Receives("welcome")
  BY DEF Welcomed
<1>2. /\ Head(down) = down[1] /\ 1 \in DOMAIN down
      /\ r \in Runtimes /\ r \in Nat /\ r <= runtime /\ runtime \in Nat
  BY <1>1, ReceivesShape DEF Runtimes
<1>3. /\ box' = [box EXCEPT ![r] = c] /\ spool' = SpoolOf(c)
      /\ up' = IF Sendable(r) THEN Append(up, Registration(socket[r])) ELSE up
  BY <1>2 DEF Welcomed, Keep, Persist, Send, DownOwner
<1>4. /\ Acting(r) /\ Sound(box[r]) /\ box[r] \in Boxes
      /\ Follows(box[r], observed, UnderWay, Done, Expected, SpoolKept)
      /\ DownFrom({}) /\ observed \in Nat
  BY <1>1, ReceivesData
<1>5. \A k \in DOMAIN up : up[k].type = "publish" => UpOwner(k) = r
  BY <1>2, FirstLeads
<1>6. /\ Follows(c, observed, UnderWay, Done, Expected, SpoolKept)
      /\ Sound(c) /\ c \in Boxes
      /\ Grows(c, box[r], Done, Expected)
  <2>1. /\ Follows(c, observed, UnderWay, Done, Expected, SpoolKept)
        /\ Sound(c)
        /\ Grows(c, box[r], Done, Expected)
    <3> HIDE DEF r
    <3> QED BY <1>2, <1>4, <1>5, AssignData
  <2> HIDE DEF c
  <2> QED BY <2>1 DEF Sound
<1>7. Unsnapped(c, musts) /\ (Covers(box[r], musts, Done) => Covers(c, musts, Done))
  <2> HIDE DEF r
  <2> QED BY <1>2, <1>4, CoversAssign
<1> HIDE DEF r, c
<1>8. UpFrom(NoEvents)
  <2>1. FrameTypes
    BY DEF WireInv, FramesInv
  <2>2. CASE Sendable(r)
    <3> DEFINE f == Registration(socket[r])
    <3>1. r = runtime /\ socket[r] \in Sockets /\ owner[socket[r]] = r
      BY <1>2, <2>2, SendableIsLatest
    <3>2. f \in UpFrames /\ f.socket = socket[r] /\ f.batch = NoEvents
      BY <3>1, FrameShape DEF Registration
    <3>3. up' = Append(up, f)
      BY <1>3, <2>2
    <3> HIDE DEF f
    <3>4. UpMore(f)
      BY <1>1, <3>1, <3>2, <3>3 DEF UpMore, UpOwner
    <3> QED BY <2>1, <3>2, <3>4, UpMoreFrom
  <2>3. CASE ~Sendable(r)
    <3>1. UpLess
      BY <1>1, <1>3, <2>1, <2>3, UpSame DEF UpOwner
    <3> QED BY <3>1, LessFrom
  <2> QED BY <2>2, <2>3
<1>9. box \in [Runtimes -> Boxes] /\ \A q \in Runtimes : box'[q] = IF q = r THEN c ELSE box[q]
  BY <1>3 DEF WireInv, Boxed
<1>10. Resumes'
  <2>1. \A q \in Runtimes : q = runtime => box'[q] \in Boxes /\ Grows(box'[q], box[q], Done, Expected)
    <3>1. \A q \in Runtimes : Grows(box[q], box[q], Done, Expected)
      BY <1>9, GrowsSame DEF SameNumbers
    <3> QED BY <1>6, <1>9, <3>1
  <2> QED BY <1>1, <2>1, ResumesGrown
<1>11. Accounted'
  BY <1>1, <1>2, <1>3, <1>7, <1>9, AccountedBox DEF DataInv
<1>12. observed' \in Nat /\ observed <= observed' /\ Follows(c, observed', UnderWay, Done, Expected, SpoolKept)
  BY <1>1, <1>4, <1>6
<1> QED BY <1>1, <1>2, <1>3, <1>4, <1>6, <1>8, <1>10, <1>11, <1>12, BoxData

LEMMA AcknowledgedData ==
  ASSUME WireInv, DataInv, Acknowledged
  PROVE  DataInv'
<1> DEFINE r == DownOwner(1)
           n == down[1].n
           c == Acknowledge(box[r], n)
<1>1. /\ UNCHANGED <<runtime, phase, connected, owner, up, observed, musts, faults>> /\ UNCHANGED storeVars
      /\ Receives("ack")
  BY DEF Acknowledged
<1>2. /\ Head(down) = down[1] /\ 1 \in DOMAIN down /\ down[1].type = "ack"
      /\ r \in Runtimes /\ n \in Nat
  BY <1>1, ReceivesShape
<1>3. box' = [box EXCEPT ![r] = c] /\ spool' = SpoolOf(c)
  BY <1>2 DEF Acknowledged, Keep, Persist, DownOwner
<1>4. /\ Answers(down[1], box[r], Done, Expected)
      /\ Acting(r) /\ Sound(box[r]) /\ box[r] \in Boxes
      /\ Follows(box[r], observed, UnderWay, Done, Expected, SpoolKept)
      /\ SpoolKept => Keeps(box[r], UnderWay, Done, Expected)
      /\ DownFrom({}) /\ observed \in Nat
      /\ Expected \in Nat \ {0} /\ Done \in SUBSET Numbered /\ UnderWay \in SUBSET Numbered /\ SpoolKept \in BOOLEAN
  BY <1>1, ReceivesData
<1>5. n + 1 \in Nat /\ n + 1 <= Expected
  BY <1>2, <1>4 DEF Answers
<1>6. Sound(c) /\ c \in Boxes /\ Trimmed(c, box[r], n + 1)
  BY <1>2, <1>4, SoundTrim, AcknowledgeShape
<1> HIDE DEF r, c, n
<1>7. Follows(c, observed, UnderWay, Done, Expected, SpoolKept)
  BY <1>4, <1>5, <1>6, FollowsTrim
<1>8. Grows(c, box[r], Done, Expected)
  BY <1>4, <1>5, <1>6, GrowsTrim
<1>9. /\ Unsnapped(box[r], musts) => Unsnapped(c, musts)
      /\ SpoolKept /\ Covers(box[r], musts, Done) => Covers(c, musts, Done)
  BY <1>4, <1>5, <1>6, CoversTrim
<1>10. UpFrom(NoEvents)
  <2>1. UpLess
    BY <1>1, UpSame DEF WireInv, FramesInv, UpOwner
  <2> QED BY <2>1, LessFrom
<1>11. box \in [Runtimes -> Boxes] /\ \A q \in Runtimes : box'[q] = IF q = r THEN c ELSE box[q]
  BY <1>3 DEF WireInv, Boxed
<1>12. Resumes'
  <2>1. \A q \in Runtimes : q = runtime => box'[q] \in Boxes /\ Grows(box'[q], box[q], Done, Expected)
    <3>1. \A q \in Runtimes : Grows(box[q], box[q], Done, Expected)
      BY <1>11, GrowsSame DEF SameNumbers
    <3> QED BY <1>6, <1>8, <1>11, <3>1
  <2> QED BY <1>1, <2>1, ResumesGrown
<1>13. Accounted'
  BY <1>1, <1>2, <1>3, <1>9, <1>11, AccountedBox DEF DataInv
<1>14. observed' \in Nat /\ observed <= observed' /\ Follows(c, observed', UnderWay, Done, Expected, SpoolKept)
  BY <1>1, <1>4, <1>7
<1> QED BY <1>1, <1>2, <1>3, <1>4, <1>6, <1>8, <1>10, <1>12, <1>13, <1>14, BoxData

LEMMA ResumedData ==
  ASSUME WireInv, DataInv, Resumed
  PROVE  DataInv'
<1> DEFINE r == DownOwner(1)
           n == down[1].n
           b == ResumeFrom(box[r], n)
<1>1. /\ UNCHANGED <<runtime, phase, socket, owner, observed, musts, faults>> /\ UNCHANGED storeVars
      /\ Receives("registered")
  BY DEF Resumed
<1>2. /\ Head(down) = down[1] /\ 1 \in DOMAIN down /\ down[1].type = "registered"
      /\ r \in Runtimes /\ r \in Nat /\ r <= runtime /\ runtime \in Nat /\ n \in Nat
  BY <1>1, ReceivesShape DEF Runtimes
<1>3. Resumable(box[r], n) /\ connected' = [connected EXCEPT ![r] = TRUE]
  BY <1>2 DEF Resumed, DownOwner
<1>4. /\ Answers(down[1], box[r], Done, Expected)
      /\ Acting(r) /\ Sound(box[r]) /\ box[r] \in Boxes
      /\ Follows(box[r], observed, UnderWay, Done, Expected, SpoolKept)
      /\ SpoolKept => Keeps(box[r], UnderWay, Done, Expected)
      /\ DownFrom({}) /\ observed \in Nat
      /\ Expected \in Nat \ {0} /\ Done \in SUBSET Numbered /\ UnderWay \in SUBSET Numbered /\ SpoolKept \in BOOLEAN
      /\ \A d \in Done : d.number < Expected /\ d.number \in Nat
  BY <1>1, ReceivesData
<1>5. /\ 1 <= n /\ n <= Expected /\ n <= box[r].next
      /\ n = Expected \/ Expected <= box[r].next
      /\ Clear(box[r], n, Done)
  BY <1>2, <1>3, <1>4 DEF Answers, Resumable
<1>6. Sound(b) /\ b \in Boxes /\ Trimmed(b, box[r], n)
  BY <1>2, <1>4, SoundTrim, ResumeShape
<1>7. \A k \in DOMAIN up : up[k].type = "publish" => UpOwner(k) = r
  BY <1>2, FirstLeads
<1>8. Leads(r)
  BY <1>2, FirstLeads
<1>9. PICK c :
         /\ Sound(c)
         /\ box' = [box EXCEPT ![r] = c] /\ spool' = SpoolOf(c)
         /\ \/ c = b /\ up' = up
            \/ /\ Sendable(r)
               /\ c = Assign(b, r)
               /\ \/ DOMAIN c.assigned = {} /\ up' = up
                  \/ DOMAIN c.assigned # {} /\ up' = Append(up, Publish(socket[r], c.assigned))
  BY ResumedShape
<1> HIDE DEF r, b, n
<1>10. /\ Follows(b, observed, UnderWay, Done, Expected, SpoolKept)
       /\ Grows(b, box[r], Done, Expected)
       /\ Unsnapped(box[r], musts) => Unsnapped(b, musts)
       /\ SpoolKept /\ Covers(box[r], musts, Done) => Covers(b, musts, Done)
  <2>1. Follows(b, observed, UnderWay, Done, Expected, SpoolKept)
    BY <1>2, <1>4, <1>5, <1>6, FollowsTrim
  <2>2. Grows(b, box[r], Done, Expected)
    BY <1>2, <1>4, <1>5, <1>6, GrowsTrim
  <2>3. /\ Unsnapped(box[r], musts) => Unsnapped(b, musts)
        /\ SpoolKept /\ Covers(box[r], musts, Done) => Covers(b, musts, Done)
    BY <1>2, <1>4, <1>5, <1>6, CoversTrim
  <2> QED BY <2>1, <2>2, <2>3
<1>11. Clear(b, 1, Done) /\ Expected <= b.next /\ b.next = box[r].next
  <2>1. b.next = box[r].next /\ Expected <= b.next
    BY <1>2, <1>4, <1>5, <1>6 DEF Trimmed
  <2>2. ASSUME NEW d \in Done, d.number \in DOMAIN b.assigned PROVE b.assigned[d.number] = d
    BY <1>5, <1>6, <2>2 DEF Trimmed, Clear
  <2> QED BY <2>1, <2>2 DEF Clear
<1>12. /\ Follows(c, observed, UnderWay, Done, Expected, SpoolKept)
       /\ Grows(c, box[r], Done, Expected)
       /\ Clear(c, 1, Done) /\ Expected <= c.next
       /\ Unsnapped(box[r], musts) => Unsnapped(c, musts)
       /\ SpoolKept /\ Covers(box[r], musts, Done) => Covers(c, musts, Done)
       /\ c \in Boxes
  <2>1. CASE c = b
    BY <1>6, <1>10, <1>11, <2>1
  <2>2. CASE c = Assign(b, r)
    <3>1. c \in Boxes
      BY <1>9 DEF Sound
    <3>2. /\ Follows(c, observed, UnderWay, Done, Expected, SpoolKept)
          /\ Grows(c, b, Done, Expected)
          /\ Expected <= c.next
      BY <1>2, <1>4, <1>6, <1>7, <1>10, <1>11, <2>2, AssignData
    <3>3. Unsnapped(c, musts) /\ (Covers(b, musts, Done) => Covers(c, musts, Done))
      BY <1>2, <1>6, <2>2, CoversAssign
    <3>4. Grows(c, box[r], Done, Expected)
      BY <1>4, <1>6, <1>10, <3>1, <3>2, GrowsTwice
    <3>5. Clear(c, 1, Done)
      BY <1>4, <1>11, <3>2 DEF Grows
    <3> QED BY <1>10, <3>1, <3>2, <3>3, <3>4, <3>5
  <2> QED BY <1>9, <2>1, <2>2
<1>13. box \in [Runtimes -> Boxes] /\ \A q \in Runtimes : box'[q] = IF q = r THEN c ELSE box[q]
  BY <1>9 DEF WireInv, Boxed
<1>14. Resumes'
  <2>1. Done' = Done /\ Expected' = Expected
    BY <1>1 DEF storeVars, Done, Expected
  <2>2. ASSUME NEW q \in Runtimes, q = runtime, connected'[q]
        PROVE  Clear(box'[q], 1, Done) /\ Expected <= box'[q].next
    <3>1. CASE q = r
      BY <1>12, <1>13, <3>1
    <3>2. CASE q # r
      <4>1. connected[q] /\ box'[q] = box[q]
        BY <1>3, <1>13, <2>2, <3>2 DEF WireInv, PlainTypes
      <4> QED BY <2>2, <4>1 DEF DataInv, Resumes
    <3> QED BY <3>1, <3>2
  <2> QED BY <1>1, <2>1, <2>2 DEF Resumes
<1>15. Accounted'
  BY <1>1, <1>2, <1>9, <1>12, <1>13, AccountedBox DEF DataInv
<1>16. observed' \in Nat /\ observed <= observed' /\ Follows(c, observed', UnderWay, Done, Expected, SpoolKept)
  BY <1>1, <1>4, <1>12
<1>17. FrameTypes
  BY DEF WireInv, FramesInv
<1>18. CASE up' = up
  <2>1. UpFrom(NoEvents)
    <3>1. UpLess
      BY <1>1, <1>17, <1>18, UpSame DEF UpOwner
    <3> QED BY <3>1, LessFrom
  <2> QED BY <1>1, <1>2, <1>4, <1>9, <1>12, <1>14, <1>15, <1>16, <2>1, BoxData
<1>19. CASE Sendable(r) /\ up' = Append(up, Publish(socket[r], c.assigned))
  <2> DEFINE f == Publish(socket[r], c.assigned)
  <2>1. r = runtime /\ socket[r] \in Sockets /\ owner[socket[r]] = r
    BY <1>2, <1>19, SendableIsLatest
  <2>2. f \in UpFrames /\ f.socket = socket[r] /\ f.batch = c.assigned
    BY <1>12, <2>1, FrameShape, BoxShape DEF Publish
  <2>3. up' = Append(up, f)
    BY <1>19
  <2> HIDE DEF f
  <2>4. UpMore(f)
    BY <1>1, <2>1, <2>2, <2>3 DEF UpMore, UpOwner
  <2>5. UpFrom(c.assigned)
    BY <1>17, <2>2, <2>4, UpMoreFrom
  <2>6. runtime \in Runtimes /\ Leads(runtime) /\ box' = [box EXCEPT ![runtime] = c] /\ Grows(c, box[runtime], Done, Expected)
    BY <1>2, <1>8, <1>9, <1>12, <2>1
  <2> QED BY <1>1, <1>4, <1>9, <1>12, <1>14, <1>15, <1>16, <2>5, <2>6, PublishData
<1> QED BY <1>9, <1>18, <1>19

LEMMA AnsweredData ==
  ASSUME WireInv, DataInv, up # <<>>, UpLess, UNCHANGED bridgeVars, UNCHANGED storeVars,
         UNCHANGED <<owner, observed, musts, faults>>,
         \/ down' = down
         \/ \E f \in DownFrames :
               f.socket = up[1].socket /\ down' = Append(down, f) /\ Answers(f, box[UpOwner(1)], Done, Expected)
  PROVE  DataInv'
<1>1. UNCHANGED <<runtime, phase, box, spool, connected>> /\ SpoolKept' = SpoolKept
  BY DEF bridgeVars, SpoolKept
<1>2. FrameTypes /\ UpFrom(NoEvents)
  BY LessFrom DEF WireInv, FramesInv
<1>3. CASE down' = down
  <2>1. DownLess
    BY <1>2, <1>3, DownSame DEF DownOwner
  <2> QED BY <1>1, <2>1, LessData
<1>4. ASSUME NEW f \in DownFrames, f.socket = up[1].socket, down' = Append(down, f),
             Answers(f, box[UpOwner(1)], Done, Expected)
      PROVE  DataInv'
  <2>1. DownMore(f)
    BY <1>4 DEF DownMore, UpOwner, DownOwner
  <2>2. DownFrom({f})
    BY <1>2, <2>1, DownMoreFrom
  <2>3. 1 \in DOMAIN up => \A g \in {f} : Answers(g, box[UpOwner(1)], Done, Expected)
    BY <1>4
  <2> QED BY <1>1, <1>2, <2>2, <2>3, QuietData
<1> QED BY <1>3, <1>4

LEMMA GreetsData ==
  ASSUME WireInv, DataInv, Greets
  PROVE  DataInv'
<1> DEFINE s == up[1].socket
           b == box[UpOwner(1)]
<1>1. FrameTypes /\ HeldFrames /\ StoreInv
  BY DEF WireInv, FramesInv, DataInv
<1>2. /\ up # <<>> /\ up' = Tail(up)
      /\ UNCHANGED bridgeVars /\ UNCHANGED storeVars /\ UNCHANGED <<wire, owner, observed, musts, faults>>
  BY DEF Greets, Reaches
<1>3. 1 \in DOMAIN up /\ Head(up) = up[1] /\ s \in Sockets
  BY <1>1, <1>2, UpHead DEF HeldFrames
<1>4. UpLess
  BY <1>1, <1>2, UpTail
<1>5. Expected \in Nat \ {0} /\ \A d \in Done : d.number < Expected /\ d.number \in Nat
  BY <1>1, StoreShape
<1>6. /\ Welcome(s) \in DownFrames /\ Welcome(s).socket = s
      /\ Answers(Welcome(s), b, Done, Expected)
  BY <1>3, FrameShape DEF Welcome, Answers
<1>7. /\ Registered(s, Expected) \in DownFrames /\ Registered(s, Expected).socket = s
      /\ Answers(Registered(s, Expected), b, Done, Expected)
  <2>1. \A d \in Done : ~(d.number >= Expected)
    BY <1>5
  <2>2. Clear(b, Expected, Done)
    BY <2>1 DEF Clear
  <2> QED BY <1>3, <1>5, <2>2, FrameShape DEF Registered, Answers
<1>8. \/ down' = down
      \/ down' = Append(down, Welcome(s))
      \/ down' = Append(down, Registered(s, Expected))
  BY <1>3 DEF Greets, Refuse, Reply
<1> HIDE DEF s, b
<1>9. \/ down' = down
      \/ \E f \in DownFrames : f.socket = s /\ down' = Append(down, f) /\ Answers(f, b, Done, Expected)
  BY <1>6, <1>7, <1>8
<1> QED BY <1>2, <1>4, <1>9, AnsweredData DEF s, b

LEMMA RecognisesData ==
  ASSUME WireInv, DataInv, Recognises \/ Refuses
  PROVE  DataInv'
<1> DEFINE s == up[1].socket
           b == box[UpOwner(1)]
<1>1. /\ Reaches("publish") /\ up' = Rest(Head(up))
      /\ UNCHANGED bridgeVars /\ UNCHANGED storeVars /\ UNCHANGED <<wire, owner, observed, musts, faults>>
  BY DEF Recognises, Refuses
<1>2. up # <<>> /\ UpLess /\ Head(up) = up[1] /\ s \in Sockets
  BY <1>1, ReachesShape
<1>3. Expected \in Nat \ {0}
  BY StoreShape DEF DataInv
<1>4. /\ Ack(s, Expected - 1) \in DownFrames /\ Ack(s, Expected - 1).socket = s
      /\ Answers(Ack(s, Expected - 1), b, Done, Expected)
  <2>1. Expected - 1 \in Nat /\ Expected - 1 < Expected
    BY <1>3
  <2> QED BY <1>2, <2>1, FrameShape DEF Ack, Answers
<1>5. down' = down \/ down' = Append(down, Ack(s, Expected - 1))
  BY <1>2 DEF Recognises, Refuses, Refuse, Reply
<1> HIDE DEF s, b
<1>6. \/ down' = down
      \/ \E f \in DownFrames : f.socket = s /\ down' = Append(down, f) /\ Answers(f, b, Done, Expected)
  BY <1>4, <1>5
<1> QED BY <1>1, <1>2, <1>6, AnsweredData DEF s, b

\* A session starts with an outbox that follows as the file does.
LEMMA SessionStartData ==
  ASSUME WireInv, DataInv, SessionStart
  PROVE  DataInv'
<1> DEFINE R == runtime + 1
           i == Observation("must", observed + 1)
           j == Observation("snap", observed + 2)
           a == Load(spool)
           b == Observe(a, i)
           c == Observe(b, j)
<1>1. /\ PlainTypes /\ OwnedSockets /\ HeldFrames /\ FrameTypes /\ Gone /\ Boxed
      /\ StoreInv /\ Sourced /\ Old(UnderWay, Done, observed)
      /\ Backed /\ Unclashing /\ Answered /\ CommittedInOrder
      /\ runtime \in Nat /\ observed \in Nat
  BY DEF WireInv, FramesInv, DataInv, PlainTypes
<1>2. /\ R \in Runtimes /\ runtime' = R /\ observed' = observed + 2 /\ musts' = {observed + 1}
      /\ box' = [box EXCEPT ![R] = c]
      /\ UNCHANGED <<spool, connected, faults>> /\ UNCHANGED wireVars /\ UNCHANGED storeVars
  BY DEF SessionStart, CreateRuntime, StartRuntime, Keep
<1>3. /\ UNCHANGED <<owner, up, down, ledger, head, expected>>
      /\ Done' = Done /\ Expected' = Expected /\ UnderWay' = UnderWay /\ SpoolKept' = SpoolKept
  BY <1>2 DEF wireVars, storeVars, Done, Expected, UnderWay, SpoolKept
<1>4. /\ Expected \in Nat \ {0} /\ Done \in SUBSET Numbered /\ UnderWay \in SUBSET Numbered /\ SpoolKept \in BOOLEAN
  BY <1>1, StoreShape, UnderWayTypes DEF SpoolKept
<1>5. /\ i \in Items /\ i.of = {observed + 1} /\ i.kind = "must"
      /\ j \in Items /\ j.of = {observed + 2} /\ j.kind = "snap"
      /\ (observed + 1) + 1 = observed + 2
  BY <1>1 DEF Observation, Items, Kinds
<1>6. Old(UnderWay, Done, observed + 1) /\ Old(UnderWay, Done, observed + 2)
  <2>1. \A S : S \subseteq 1 .. observed => S \subseteq 1 .. (observed + 1) /\ S \subseteq 1 .. (observed + 2)
    BY <1>1
  <2> QED BY <1>1, <2>1 DEF Old
<1>7. /\ a \in Boxes /\ Sound(a) /\ DOMAIN a.pending = {}
      /\ Follows(a, observed, UnderWay, Done, Expected, SpoolKept)
  BY <1>1, LoadShape DEF Boxed, Sound, Sourced, FollowsNow
<1> HIDE DEF i, j, a
<1>8. /\ b \in Boxes /\ Sound(b)
      /\ Follows(b, observed + 1, UnderWay, Done, Expected, SpoolKept)
  <2>1. Sound(b)
    BY <1>5, <1>7, SoundObserve
  <2>2. Follows(b, observed + 1, UnderWay, Done, Expected, SpoolKept)
    BY <1>1, <1>4, <1>5, <1>7, FollowsObserve
  <2> QED BY <2>1, <2>2 DEF Sound
<1>9. Unsnapped(b, {observed + 1}) /\ Covers(b, {observed + 1}, Done)
  <2>1. Unsnapped(a, {}) /\ Covers(a, {}, Done) /\ Within(a, observed)
    BY <1>7 DEF Unsnapped, Covers, Follows
  <2>2. {} \in SUBSET (1 .. observed) /\ {} \cup {observed + 1} = {observed + 1}
    OBVIOUS
  <2>3. LET more == IF i.kind = "must" THEN {} \cup {observed + 1} ELSE {}
        IN  Unsnapped(b, more) /\ (Covers(a, {}, Done) => Covers(b, more, Done))
    <3> HIDE DEF b
    <3> QED BY <1>1, <1>5, <1>7, <2>1, <2>2, CoversObserve DEF b
  <2> HIDE DEF b
  <2> QED BY <1>5, <2>1, <2>2, <2>3
<1> HIDE DEF b
<1>10. /\ c \in Boxes /\ Sound(c)
       /\ Follows(c, observed + 2, UnderWay, Done, Expected, SpoolKept)
  <2>1. Sound(c)
    BY <1>5, <1>8, SoundObserve
  <2>2. observed + 1 \in Nat /\ j.of = {(observed + 1) + 1}
    BY <1>1, <1>5
  <2>3. Follows(c, (observed + 1) + 1, UnderWay, Done, Expected, SpoolKept)
    BY <1>4, <1>5, <1>6, <1>8, <2>2, FollowsObserve
  <2> HIDE DEF c
  <2> QED BY <1>5, <2>1, <2>3 DEF Sound
<1>11. Unsnapped(c, {observed + 1}) /\ Covers(c, {observed + 1}, Done)
  <2>1. observed + 1 \in Nat /\ j.of = {(observed + 1) + 1} /\ Within(b, observed + 1)
    BY <1>1, <1>5, <1>8 DEF Follows
  <2>2. {observed + 1} \in SUBSET (1 .. (observed + 1))
    BY <1>1
  <2>3. LET more == IF j.kind = "must" THEN {observed + 1} \cup {(observed + 1) + 1} ELSE {observed + 1}
        IN  Unsnapped(c, more) /\ (Covers(b, {observed + 1}, Done) => Covers(c, more, Done))
    BY <1>5, <1>8, <1>9, <2>1, <2>2, CoversObserve
  <2> HIDE DEF c
  <2> QED BY <1>5, <1>9, <2>3
<1> HIDE DEF c
<1>12. /\ box'[R] = c
       /\ \A q \in Runtimes : q <= runtime => box'[q] = box[q]
  BY <1>1, <1>2 DEF Boxed, Runtimes
<1>13. /\ \A k \in DOMAIN up : UpOwner(k) \in Runtimes /\ UpOwner(k) <= runtime /\ UpOwner(k)' = UpOwner(k)
       /\ \A k \in DOMAIN down : DownOwner(k) \in Runtimes /\ DownOwner(k) <= runtime /\ DownOwner(k)' = DownOwner(k)
  BY <1>1, <1>3, FrameOwners DEF UpOwner, DownOwner
<1>14. StoreInv'
  BY <1>1, <1>3 DEF StoreInv, Promises!LedgerInv, Promises!LedgerTypeOK, Promises!CursorsDense, Promises!AdmittedOnce,
                    Promises!OrderedBySeq, Promises!NumbersAdmitted
<1>15. Sourced'
  <2>1. ASSUME NEW d \in Boxes, FollowsNow(d)
        PROVE  Follows(d, observed + 2, UnderWay, Done, Expected, SpoolKept)
    BY <1>1, <1>4, <2>1, FollowsLess DEF FollowsNow
  <2>2. ASSUME NEW q \in Runtimes, Acting(q)' PROVE Follows(box'[q], observed + 2, UnderWay, Done, Expected, SpoolKept)
    <3>1. CASE q = R
      BY <1>10, <1>12, <3>1
    <3>2. CASE q # R
      <4>1. Acting(q) /\ q <= runtime
        BY <1>2, <1>3, <1>13, <2>2, <3>2 DEF Acting
      <4>2. box[q] \in Boxes /\ FollowsNow(box[q]) /\ box'[q] = box[q]
        BY <1>1, <1>12, <4>1 DEF Boxed, Sourced
      <4> QED BY <2>1, <4>2
    <3> QED BY <3>1, <3>2
  <2>3. Follows(Load(spool), observed + 2, UnderWay, Done, Expected, SpoolKept)
    <3>1. a \in Boxes /\ FollowsNow(a)
      BY <1>7 DEF FollowsNow
    <3> QED BY <2>1, <3>1 DEF a
  <2> QED BY <1>2, <1>3, <2>2, <2>3 DEF Sourced, FollowsNow
<1>16. Old(UnderWay, Done, observed)'
  BY <1>2, <1>3, <1>6
<1>17. Backed'
  BY <1>1, <1>3, <1>12, <1>13 DEF Backed
<1>18. Unclashing'
  BY <1>1, <1>3 DEF Unclashing
<1>19. Answered'
  <2>1. ASSUME NEW k \in DOMAIN down PROVE Answers(down[k], box'[DownOwner(k)], Done, Expected)
    BY <1>1, <1>12, <1>13 DEF Answered
  <2> QED BY <1>3, <1>13, <2>1 DEF Answered
<1>20. Resumes'
  <2>1. ~connected'[R]
    BY <1>1, <1>2 DEF Gone
  <2> QED BY <1>2, <2>1 DEF Resumes
<1>21. CommittedInOrder'
  BY <1>1, <1>3 DEF CommittedInOrder
<1>22. Accounted'
  <2>1. {observed + 1} \subseteq 1 .. (observed + 2)
    BY <1>1
  <2> QED BY <1>2, <1>3, <1>11, <1>12, <2>1 DEF Accounted
<1> QED BY <1>14, <1>15, <1>16, <1>17, <1>18, <1>19, <1>20, <1>21, <1>22 DEF DataInv

\* All that is published is of one runtime, and what the bridge has still to read of it too.
LEMMA OnePublisher ==
  ASSUME WireInv, 1 \in DOMAIN up, up[1].type = "publish"
  PROVE  /\ \A k \in DOMAIN up : up[k].type = "publish" => UpOwner(k) = UpOwner(1)
         /\ \A k \in DOMAIN down : DownOwner(k) = UpOwner(1)
         /\ \A r \in Runtimes : r = runtime /\ connected[r] => r = UpOwner(1)
<1>1. PlainTypes /\ OwnedSockets /\ HeldFrames /\ FrameTypes /\ InTurn /\ Leading
  BY DEF WireInv, FramesInv
<1>2. /\ \A k \in DOMAIN up : UpOwner(k) \in Nat /\ UpOwner(k) <= runtime
      /\ \A k \in DOMAIN down : DownOwner(k) \in Nat
      /\ runtime \in Nat
  BY <1>1, FrameOwners DEF Runtimes
<1>3. ASSUME NEW k \in DOMAIN up, up[k].type = "publish" PROVE UpOwner(k) = UpOwner(1)
  <2>1. UpOwner(k) <= UpOwner(1) /\ UpOwner(1) <= UpOwner(k)
    BY <1>1, <1>3 DEF Leading, Leads
  <2> QED BY <1>2, <1>3, <2>1
<1>4. ASSUME NEW k \in DOMAIN down PROVE DownOwner(k) = UpOwner(1)
  <2>1. DownOwner(k) <= UpOwner(1) /\ UpOwner(1) <= DownOwner(k)
    BY <1>1 DEF InTurn, Leading, Leads
  <2> QED BY <1>2, <2>1
<1>5. ASSUME NEW r \in Runtimes, r = runtime, connected[r] PROVE r = UpOwner(1)
  <2>1. r <= UpOwner(1)
    BY <1>1, <1>5 DEF Leading, Leads
  <2> QED BY <1>2, <1>5, <2>1
<1> QED BY <1>3, <1>4, <1>5

\* The store takes the next event of the instance.
LEMMA CommitData ==
  ASSUME WireInv, DataInv, Commits
  PROVE  DataInv'
<1> DEFINE s == up[1].socket
           e == Record(up[1].batch)
           d == up[1].batch[First(up[1].batch)]
           o == UpOwner(1)
           row == [cursor |-> head + 1, event |-> e]
<1>1. /\ WireInv /\ PlainTypes /\ OwnedSockets /\ HeldFrames /\ FrameTypes /\ Boxed
      /\ StoreInv /\ Sourced /\ Old(UnderWay, Done, observed)
      /\ Backed /\ Unclashing /\ Answered /\ Resumes /\ CommittedInOrder /\ Accounted
      /\ observed \in Nat
  BY DEF WireInv, FramesInv, DataInv, PlainTypes
<1>2. /\ Reaches("publish") /\ up' = Rest(Head(up))
      /\ UNCHANGED <<runtime, phase, box, spool, connected, owner, observed, musts, faults>>
  BY DEF Commits, bridgeVars
<1>3. /\ UpLess /\ 1 \in DOMAIN up /\ Head(up) = up[1] /\ up[1].type = "publish" /\ s \in Sockets
      /\ First(up[1].batch) \in DOMAIN up[1].batch
      /\ d \in Numbered /\ e \in Published
      /\ e.seq = First(up[1].batch) /\ e.inst = Instance /\ e.event = d
  BY <1>2, ReachesShape
<1>4. Ledger!Admit(e) /\ (down' = down \/ down' = Append(down, Ack(s, e.seq)))
  BY <1>3 DEF Commits, Reply
<1>5. d \in UnderWay /\ d.number = e.seq
  BY <1>1, <1>3 DEF UnderWay, EventsOf, Backed
<1>6. /\ Expected \in Nat \ {0} /\ head \in Nat /\ Done \in SUBSET Numbered /\ UnderWay \in SUBSET Numbered
      /\ \A q \in ledger : q.cursor \in 1 .. head
      /\ expected \in [{Instance} -> Nat \ {0}]
  BY <1>1, StoreShape, UnderWayTypes
<1> HIDE DEF e, d, s, o
<1>7. /\ e.seq = Expected
      /\ ledger' = ledger \cup {row} /\ row.cursor = head + 1 /\ row.event = e
      /\ Expected' = Expected + 1
  <2>1. /\ e.seq = expected[e.inst]
        /\ ledger' = ledger \cup {row}
        /\ expected' = [expected EXCEPT ![e.inst] = @ + 1]
    BY <1>4 DEF Ledger!Admit
  <2> QED BY <1>3, <1>6, <2>1 DEF Expected
<1> HIDE DEF row
<1>8. Done' = Done \cup {d}
  BY <1>3, <1>7 DEF Done
<1>9. StoreInv'
  <2>1. Promises!Admit(e)
    BY <1>4 DEF Ledger!Admit, Promises!Admit
  <2>2. Promises!LedgerInv'
    BY <1>1, <1>3, <2>1, PromisesAssumption, Promises!AdmitInv DEF StoreInv
  <2> QED BY <1>1, <1>3, <1>5, <1>7, <2>2 DEF StoreInv
<1>10. /\ UpFrom(NoEvents)
       /\ \E T : DownFrom(T)
  <2>1. CASE down' = down
    <3>1. DownLess
      BY <1>1, <1>2, <2>1, DownSame DEF DownOwner
    <3> QED BY <1>3, <3>1, LessFrom
  <2>2. CASE down' = Append(down, Ack(s, e.seq))
    <3>1. Ack(s, e.seq) \in DownFrames /\ Ack(s, e.seq).socket = s
      BY <1>3, <1>6, <1>7, FrameShape DEF Ack
    <3>2. up # <<>>
      BY <1>2 DEF Reaches
    <3>3. DownMore(Ack(s, e.seq))
      BY <1>2, <2>2, <3>1, <3>2 DEF DownMore, UpOwner, DownOwner, s
    <3>4. DownFrom({Ack(s, e.seq)})
      BY <1>1, <3>3, DownMoreFrom
    <3> QED BY <1>3, <3>4, LessFrom
  <2> QED BY <1>4, <2>1, <2>2
<1>11. UnderWay' \in SUBSET UnderWay
  <2>1. EventsOf(NoEvents) = {}
    BY NoBatch DEF EventsOf
  <2> QED BY <1>10, <2>1, UnderWayFrom
<1>12. /\ o \in Runtimes /\ Acting(o)
       /\ \A k \in DOMAIN up : up[k].type = "publish" => UpOwner(k) = o
       /\ \A k \in DOMAIN down : DownOwner(k) = o
       /\ \A r \in Runtimes : r = runtime /\ connected[r] => r = o
  BY <1>1, <1>3, FrameOwners, OnePublisher DEF Acting, o
<1>13. /\ box[o] \in Boxes /\ box[o].next \in Nat /\ FollowsNow(box[o])
       /\ Expected \in DOMAIN box[o].assigned /\ box[o].assigned[Expected] = d
       /\ Expected + 1 <= box[o].next
  <2>1. box[o] \in Boxes /\ box[o].next \in Nat /\ FollowsNow(box[o])
    BY <1>1, <1>12, BoxShape DEF Boxed, Sourced
  <2>2. Expected \in DOMAIN box[o].assigned
    BY <1>1, <1>3, <1>6, <1>7 DEF Backed, o
  <2>3. box[o].assigned[Expected] = d
    BY <1>5, <1>7, <2>1, <2>2 DEF FollowsNow, Follows
  <2>4. Expected < box[o].next
    BY <2>1, <2>2 DEF FollowsNow, Follows, Numbering
  <2> QED BY <1>6, <2>1, <2>2, <2>3, <2>4
<1>14. SpoolKept \in BOOLEAN /\ SpoolKept' = SpoolKept
  BY <1>2 DEF SpoolKept
<1>15. Sourced'
  <2>1. ASSUME NEW b \in Boxes, FollowsNow(b) PROVE Follows(b, observed, UnderWay', Done', Expected', SpoolKept)
    BY <1>1, <1>5, <1>6, <1>7, <1>8, <1>11, <1>14, <2>1, FollowsCommit DEF FollowsNow
  <2>2. ASSUME NEW r \in Runtimes, Acting(r)' PROVE Follows(box[r], observed, UnderWay', Done', Expected', SpoolKept)
    <3>1. Acting(r)
      BY <1>2, <1>10, <2>2, ActingFrom
    <3> QED BY <1>1, <2>1, <3>1 DEF Sourced, Boxed
  <2>3. Follows(Load(spool), observed, UnderWay', Done', Expected', SpoolKept)
    BY <1>1, <2>1, LoadShape DEF Sourced, Boxed
  <2> QED BY <1>2, <1>14, <2>2, <2>3 DEF Sourced, FollowsNow
<1>16. Old(UnderWay, Done, observed)'
  BY <1>1, <1>2, <1>5, <1>8, <1>11 DEF Old
<1>17. Backed'
  <2>1. ASSUME NEW k \in DOMAIN up', NEW n \in DOMAIN up'[k].batch
        PROVE  /\ up'[k].batch[n].number = n
               /\ n < box[owner[up'[k].socket]].next
               /\ n >= Expected + 1 => n \in DOMAIN box[owner[up'[k].socket]].assigned
    <3>1. PICK j \in DOMAIN up : PartOf(up'[k], up[j]) /\ owner'[up'[k].socket] = UpOwner(j)
      <4>1. DOMAIN NoEvents = {}
        BY NoBatch
      <4> QED BY <1>10, <2>1, <4>1 DEF UpFrom
    <3>2. n \in DOMAIN up[j].batch /\ up'[k].batch[n] = up[j].batch[n] /\ owner[up'[k].socket] = UpOwner(j)
      BY <1>2, <2>1, <3>1 DEF PartOf
    <3>3. n \in Nat
      <4>1. up[j].batch \in Batches
        BY <1>1, FrameShape DEF FrameTypes
      <4> QED BY <3>2, <4>1, BatchShape
    <3>4. n >= Expected + 1 => n >= Expected
      BY <1>6, <3>3
    <3> QED BY <1>1, <3>2, <3>4 DEF Backed
  <2> QED BY <1>2, <1>7, <2>1 DEF Backed, UpOwner
<1>18. Unclashing'
  <2>1. ASSUME NEW g \in UnderWay, g.number = d.number PROVE g = d
    <3>1. box[o].assigned[Expected] = g
      BY <1>5, <1>7, <1>13, <2>1 DEF FollowsNow, Follows
    <3> QED BY <1>13, <3>1
  <2> QED BY <1>1, <1>8, <1>11, <2>1 DEF Unclashing
<1>19. \A n \in Nat : Clear(box[o], n, Done) => Clear(box[o], n, Done \cup {d})
  BY <1>5, <1>7, <1>13 DEF Clear
<1>20. Answered'
  <2>1. ASSUME NEW k \in DOMAIN down PROVE Answers(down[k], box[DownOwner(k)], Done', Expected')
    <3>1. DownOwner(k) = o /\ Answers(down[k], box[o], Done, Expected) /\ down[k].n \in Nat
      <4>1. down[k] \in DownFrames
        BY <1>1 DEF FrameTypes
      <4> QED BY <1>1, <1>12, <4>1, FrameShape DEF Answered
    <3>2. Answers(down[k], box[o], Done \cup {d}, Expected + 1)
      <4>1. down[k].type = "ack" => down[k].n < Expected + 1
        BY <1>6, <3>1 DEF Answers
      <4>2. down[k].type = "registered" => 1 <= down[k].n /\ down[k].n <= Expected + 1 /\ Clear(box[o], down[k].n, Done \cup {d})
        BY <1>6, <1>19, <3>1 DEF Answers
      <4> QED BY <1>13, <4>1, <4>2 DEF Answers
    <3> QED BY <1>7, <1>8, <3>1, <3>2
  <2>2. CASE down' = down
    BY <1>2, <2>1, <2>2 DEF Answered, DownOwner
  <2>3. CASE down' = Append(down, Ack(s, e.seq))
    <3> DEFINE f == Ack(s, e.seq)
    <3>1. \A b : Answers(f, b, Done', Expected')
      BY <1>6, <1>7 DEF Ack, Answers
    <3> HIDE DEF f
    <3>2. /\ DOMAIN down' = 1 .. (Len(down) + 1) /\ DOMAIN down = 1 .. Len(down) /\ Len(down) \in Nat
          /\ \A k \in DOMAIN down : down'[k] = down[k]
          /\ down'[Len(down) + 1] = f
      BY <1>1, <2>3 DEF FrameTypes, f
    <3>3. ASSUME NEW k \in DOMAIN down' PROVE Answers(down'[k], box[owner[down'[k].socket]], Done', Expected')
      <4>1. CASE k \in DOMAIN down
        BY <2>1, <3>2, <4>1 DEF DownOwner
      <4>2. CASE k = Len(down) + 1
        BY <3>1, <3>2, <4>2
      <4> QED BY <3>2, <4>1, <4>2
    <3> QED BY <1>2, <3>3 DEF Answered, DownOwner
  <2> QED BY <1>4, <2>2, <2>3
<1>21. Resumes'
  <2>1. ASSUME NEW r \in Runtimes, r = runtime, connected[r]
        PROVE  Clear(box[r], 1, Done \cup {d}) /\ Expected + 1 <= box[r].next
    <3>1. r = o /\ Clear(box[r], 1, Done)
      BY <1>1, <1>12, <2>1 DEF Resumes
    <3> QED BY <1>13, <1>19, <3>1
  <2> QED BY <1>2, <1>7, <1>8, <2>1 DEF Resumes
<1>22. CommittedInOrder'
  <2>1. ASSUME NEW q \in ledger, q.event.event.item.kind = "must", d.item.kind = "must"
        PROVE  \A m \in q.event.event.item.of, n \in d.item.of : m < n
    <3>1. Precedes(q.event.event.item, box[o], Expected - 1)
      BY <1>13 DEF FollowsNow, Follows, Done
    <3>2. Expected > Expected - 1
      BY <1>6
    <3>3. InOrder(q.event.event.item, d.item)
      BY <1>13, <3>1, <3>2 DEF Precedes
    <3> QED BY <2>1, <3>3 DEF InOrder
  <2>2. ASSUME NEW q \in ledger', NEW p \in ledger',
               q.event.event.item.kind = "must", p.event.event.item.kind = "must", q.cursor < p.cursor
        PROVE  \A m \in q.event.event.item.of, n \in p.event.event.item.of : m < n
    <3>1. CASE q \in ledger /\ p \in ledger
      BY <1>1, <2>2, <3>1 DEF CommittedInOrder
    <3>2. CASE q \in ledger /\ p = row
      BY <1>3, <1>7, <2>1, <2>2, <3>2
    <3>3. CASE q = row
      <4>1. p.cursor <= head + 1
        BY <1>6, <1>7, <2>2
      <4> QED BY <1>6, <1>7, <2>2, <3>3, <4>1
    <3> QED BY <1>7, <2>2, <3>1, <3>2, <3>3
  <2> QED BY <2>2 DEF CommittedInOrder
<1>23. Accounted'
  <2>1. \A r \in Runtimes : Covers(box[r], musts, Done) => Covers(box[r], musts, Done \cup {d})
    BY DEF Covers
  <2> QED BY <1>1, <1>2, <1>8, <1>14, <2>1 DEF Accounted
<1> QED BY <1>9, <1>15, <1>16, <1>17, <1>18, <1>20, <1>21, <1>22, <1>23 DEF DataInv

LEMMA InitData == Init => DataInv
<1> SUFFICES ASSUME Init PROVE DataInv
  OBVIOUS
<1>1. /\ up = <<>> /\ down = <<>> /\ ledger = {} /\ runtime = 0 /\ phase = "none" /\ spool = EmptySpool
      /\ observed = 0 /\ musts = {} /\ Ledger!LedgerInit
  BY DEF Init, Ledger!LedgerInit
<1>2. DOMAIN up = {} /\ DOMAIN down = {} /\ UnderWay = {} /\ Done = {} /\ Expected = 1
  BY <1>1 DEF UnderWay, Done, Expected, Ledger!LedgerInit
<1>3. StoreInv
  <2>1. Promises!LedgerInit
    BY <1>1 DEF Ledger!LedgerInit, Promises!LedgerInit
  <2>2. Promises!LedgerInv
    BY <2>1, PromisesAssumption, Promises!LedgerInitInv
  <2> QED BY <1>1, <2>2 DEF StoreInv
<1>4. 0 \notin Runtimes
  BY DEF Runtimes
<1>5. Sourced
  <2> DEFINE b == Load(EmptySpool)
  <2>1. Follows(b, observed, {}, {}, 1, FALSE)
    BY FollowsEmpty
  <2>2. DOMAIN b.assigned = {} /\ b.next = 1
    BY EmptyShape, LoadShape
  <2> HIDE DEF b
  <2>3. Keeps(b, {}, {}, 1)
    BY <2>2 DEF Keeps
  <2>4. Follows(b, observed, {}, {}, 1, SpoolKept)
    BY <2>1, <2>3 DEF Follows
  <2> QED BY <1>1, <1>2, <1>4, <2>4 DEF Sourced, Acting, FollowsNow, b
<1>6. Old(UnderWay, Done, observed) /\ Backed /\ Unclashing /\ Answered
  BY <1>2 DEF Old, Backed, Unclashing, Answered
<1>7. Resumes /\ Accounted
  BY <1>1, <1>4 DEF Resumes, Accounted
<1>8. CommittedInOrder
  BY <1>1 DEF CommittedInOrder
<1> QED BY <1>3, <1>5, <1>6, <1>7, <1>8 DEF DataInv

LEMMA StillData ==
  ASSUME WireInv, DataInv, UNCHANGED vars
  PROVE  DataInv'
<1>1. /\ UNCHANGED <<runtime, phase, box, spool, connected, owner, up, down, observed, musts, faults>>
      /\ UNCHANGED storeVars
  BY DEF vars, bridgeVars, wireVars
<1>2. UpLess /\ DownLess
  BY <1>1, SameFrames
<1>3. SpoolKept' = SpoolKept
  BY <1>1 DEF SpoolKept
<1> QED BY <1>1, <1>2, <1>3, LessData

\* Every step keeps the invariant of what is sent and stored.
LEMMA NextData ==
  ASSUME WireInv, DataInv, [Next]_vars
  PROVE  DataInv'
<1>1. CASE UNCHANGED vars
  BY <1>1, StillData
<1>2. CASE SessionStart \/ Audit \/ SessionShutdown \/ EndSocket \/ LoseSpool
  BY <1>2, SessionStartData, AuditData, SessionShutdownData, EndSocketData, LoseSpoolData
<1>3. ASSUME NEW kind \in EventKinds, Event(kind) PROVE DataInv'
  BY <1>3, EventData
<1>4. CASE TimerFires \/ EnsureConnected \/ Dialled \/ DialFails
  BY <1>4, ConnectingData, DialledData
<1>5. ASSUME NEW s \in Sockets, Open(s) \/ Close(s) PROVE DataInv'
  BY <1>5, OpenData, CloseData
<1>6. CASE BridgeReceives
  BY <1>6, WelcomedData, ResumeConflictsData, ResumedData, AcknowledgedData DEF BridgeReceives
<1>7. CASE DaemonReceives
  BY <1>7, GreetsData, CommitData, RecognisesData DEF DaemonReceives
<1> QED BY <1>1, <1>2, <1>3, <1>4, <1>5, <1>6, <1>7 DEF Next

----------------------------------------------------------------------------
(* The theorems                                                            *)

\* Sockets, frames, outboxes, the file and the store fit together throughout: every number
\* that a frame or an outbox uses means the event that the store has or will get under it.
THEOREM DeliveryInvariant == Spec => []DeliveryInv
<1>1. Init => DeliveryInv
  BY InitWire, InitData DEF DeliveryInv
<1>2. DeliveryInv /\ [Next]_vars => DeliveryInv'
  <2> SUFFICES ASSUME DeliveryInv, [Next]_vars PROVE DeliveryInv'
    OBVIOUS
  <2>1. WireInv /\ DataInv
    BY DEF DeliveryInv
  <2>2. Expected \in Nat \ {0}
    BY <2>1, StoreShape DEF DataInv
  <2>3. WireInv'
    BY <2>1, <2>2, NextWire
  <2>4. DataInv'
    BY <2>1, NextData
  <2> QED BY <2>3, <2>4 DEF DeliveryInv
<1> QED BY <1>1, <1>2, PTL DEF Spec

\* The variables of both ends have their types, frames are on sockets that are in use, and
\* a runtime that has been shut down has neither a timer nor a dial.
THEOREM DeliveryTypes == Spec => []TypeOK
<1>1. DeliveryInv => TypeOK
  BY DEF DeliveryInv, WireInv, FramesInv, PlainTypes, OwnedSockets, HeldFrames, TypeOK
<1> QED BY <1>1, DeliveryInvariant, PTL

\* While the spool is kept, the running outbox and the file have every number that has been
\* given out and not been committed: `flush`, `persist`, `resumeFrom` and `acknowledge` of
\* bridge.ts and outbox.ts lose none, whatever late answers they are called with.
THEOREM DeliveryRetained == Spec => []RetainedUntilCommitted
<1>1. DeliveryInv => RetainedUntilCommitted
  <2> SUFFICES ASSUME DeliveryInv, SpoolKept PROVE (runtime > 0 => Retains(box[runtime])) /\ Retains(spool)
    BY DEF RetainedUntilCommitted
  <2>1. PlainTypes /\ Boxed /\ Sourced
    BY DEF DeliveryInv, WireInv, DataInv
  <2>2. ASSUME runtime > 0 PROVE Retains(box[runtime])
    <3>1. runtime \in Runtimes /\ Acting(runtime)
      BY <2>1, <2>2, DeliveryAssumption DEF PlainTypes, Runtimes, Acting
    <3> QED BY <2>1, <3>1 DEF Sourced, FollowsNow, Follows, Keeps, Retains
  <2>3. Retains(spool)
    <3>1. Load(spool).assigned = spool.assigned /\ Load(spool).next = spool.next
      BY <2>1, LoadShape DEF Boxed
    <3> QED BY <2>1, <3>1 DEF Sourced, FollowsNow, Follows, Keeps, Retains
  <2> QED BY <2>2, <2>3
<1> QED BY <1>1, DeliveryInvariant, PTL

\* The daemon never meets a number with another event under it than the one it has or the
\* running outbox has: several outboxes give out numbers, one after the other, from what
\* the file and the acknowledgements leave them.
THEOREM DeliveryNeverRenumbered == Spec => []NeverRenumbered
<1>1. DeliveryInv => NeverRenumbered
  <2> SUFFICES ASSUME DeliveryInv, NEW k \in DOMAIN up, NEW n \in DOMAIN up[k].batch
               PROVE  /\ \A e \in Recorded(n) : e.event = up[k].batch[n]
                      /\ n >= Expected /\ n \in DOMAIN box[runtime].assigned
                           => up[k].batch[n] = box[runtime].assigned[n]
    BY DEF NeverRenumbered
  <2>1. PlainTypes /\ OwnedSockets /\ HeldFrames /\ StoreInv /\ Sourced /\ Backed /\ Unclashing
    BY DEF DeliveryInv, WireInv, FramesInv, DataInv
  <2>2. up[k].batch[n] \in UnderWay /\ up[k].batch[n].number = n
    BY <2>1 DEF Backed, UnderWay, EventsOf
  <2>3. ASSUME NEW e \in Recorded(n) PROVE e.event = up[k].batch[n]
    <3>1. PICK q \in ledger : e = q.event /\ q.event.seq = n
      BY DEF Recorded
    <3>2. q.event.event \in Done /\ q.event.event.number = n
      BY <2>1, <3>1 DEF Done, StoreInv
    <3> QED BY <2>1, <2>2, <3>1, <3>2 DEF Unclashing
  <2>4. ASSUME n \in DOMAIN box[runtime].assigned PROVE up[k].batch[n] = box[runtime].assigned[n]
    <3>1. runtime \in Runtimes
      <4>1. UpOwner(k) \in Runtimes /\ UpOwner(k) <= runtime /\ runtime \in 0 .. MaxRuntimes /\ MaxRuntimes \in Nat
        BY <2>1, FrameOwners, DeliveryAssumption DEF PlainTypes
      <4> QED BY <4>1 DEF Runtimes
    <3> QED BY <2>1, <2>2, <2>4, <3>1 DEF Sourced, Acting, FollowsNow, Follows
  <2> QED BY <2>3, <2>4
<1> QED BY <1>1, DeliveryInvariant, PTL

\* Mandatory events get their cursors in the order in which Pi saw them happen.
THEOREM DeliveryInOrder == Spec => []CommittedInOrder
<1>1. DeliveryInv => CommittedInOrder
  BY DEF DeliveryInv, DataInv
<1> QED BY <1>1, DeliveryInvariant, PTL

\* No mandatory event of a living runtime is lost by a full outbox, a reconnect or a late
\* answer: `degrade` of outbox.ts puts a gap record in its place at worst.
THEOREM DeliveryAccounted == Spec => []MandatoryAccounted
<1>1. DeliveryInv => MandatoryAccounted
  <2> SUFFICES ASSUME DeliveryInv, phase = "open", SpoolKept, NEW m \in musts
               PROVE  \/ m \in PendingObservations(box[runtime])
                      \/ \E n \in DOMAIN box[runtime].assigned : m \in box[runtime].assigned[n].item.of
                      \/ \E q \in ledger : m \in q.event.event.item.of
    BY DEF MandatoryAccounted
  <2>1. runtime \in Runtimes
    BY RunningRuntime DEF DeliveryInv
  <2>2. Covers(box[runtime], musts, Done)
    BY <2>1 DEF DeliveryInv, DataInv, Accounted
  <2> QED BY <2>2 DEF Covers, Done
<1> QED BY <1>1, DeliveryInvariant, PTL
=============================================================================

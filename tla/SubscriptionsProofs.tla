------------------------- MODULE SubscriptionsProofs -------------------------
(***************************************************************************)
(* A consumer's checkpoint is never ahead of what it has received, for     *)
(* every size of the queue and every number of events.                     *)
(***************************************************************************)
EXTENDS Subscriptions, SequenceTheorems, NaturalsInduction, WellFoundedInduction, TLAPS

----------------------------------------------------------------------------
(* Sequences of cursors out of a set W *)

\* Sequence s ascends and leaves out nothing between `from` and any of its own.
Seamless(s, from, W) ==
    \A k \in 1 .. Len(s) :
        /\ s[k] > from
        /\ \A j \in 1 .. (k - 1) : s[j] < s[k]
        /\ \A c \in W : from < c /\ c < s[k] => \E j \in 1 .. (k - 1) : s[j] = c

\* Whatever lies beyond `from` is in the sequence, or in R, which comes after it.
Covers(s, from, W, R) ==
    /\ \A c \in W : c > from => c \in R \/ \E k \in 1 .. Len(s) : s[k] = c
    /\ \A k \in 1 .. Len(s) : \A d \in R : s[k] < d

LEMMA SeamlessGrows ==
  ASSUME NEW h \in Nat, NEW W \in SUBSET (1 .. h), NEW s \in Seq(W), NEW from \in 0 .. h,
         Seamless(s, from, W)
  PROVE  /\ Seamless(s, from, W \cup {h + 1})
         /\ Covers(s, from, W, {}) => Covers(s, from, W \cup {h + 1}, {h + 1})
<1>1. \A k \in 1 .. Len(s) : s[k] \in 1 .. h
  BY ElementOfSeq
<1>2. ASSUME NEW k \in 1 .. Len(s), NEW c \in W \cup {h + 1}, from < c, c < s[k]
      PROVE  \E j \in 1 .. (k - 1) : s[j] = c
  <2>1. c \in W
    BY <1>1, <1>2
  <2> QED BY <1>2, <2>1 DEF Seamless
<1>3. Seamless(s, from, W \cup {h + 1})
  BY <1>2 DEF Seamless
<1>4. ASSUME Covers(s, from, W, {}) PROVE Covers(s, from, W \cup {h + 1}, {h + 1})
  BY <1>1, <1>4 DEF Covers
<1> QED BY <1>3, <1>4

LEMMA SeamlessAppends ==
  ASSUME NEW W \in SUBSET Nat, NEW s \in Seq(W), NEW from \in Nat, NEW R \in SUBSET W,
         Seamless(s, from, W), Covers(s, from, W, R),
         NEW c \in R, c > from, \A d \in R : c <= d
  PROVE  /\ Append(s, c) \in Seq(W)
         /\ Seamless(Append(s, c), from, W)
         /\ Covers(Append(s, c), from, W, R \ {c})
<1> DEFINE t == Append(s, c)
<1>1. /\ t \in Seq(W)
      /\ Len(s) \in Nat
      /\ Len(t) = Len(s) + 1
      /\ \A k \in 1 .. Len(s) : t[k] = s[k]
      /\ t[Len(s) + 1] = c
  BY AppendProperties, LenProperties
<1> HIDE DEF t
<1>2. ASSUME NEW k \in 1 .. Len(t)
      PROVE  /\ t[k] > from
             /\ \A j \in 1 .. (k - 1) : t[j] < t[k]
             /\ \A d \in W : from < d /\ d < t[k] => \E j \in 1 .. (k - 1) : t[j] = d
  <2>1. CASE k = Len(s) + 1
    <3>1. ASSUME NEW d \in W, from < d, d < c PROVE \E j \in 1 .. Len(s) : s[j] = d
      BY <3>1 DEF Covers
    <3>2. \A j \in 1 .. Len(s) : s[j] < c
      BY DEF Covers
    <3> QED BY <1>1, <2>1, <3>1, <3>2
  <2>2. CASE k \in 1 .. Len(s)
    <3>1. t[k] = s[k] /\ \A j \in 1 .. (k - 1) : j \in 1 .. Len(s) /\ t[j] = s[j]
      BY <1>1, <2>2
    <3>2. /\ s[k] > from
          /\ \A j \in 1 .. (k - 1) : s[j] < s[k]
          /\ \A d \in W : from < d /\ d < s[k] => \E j \in 1 .. (k - 1) : s[j] = d
      BY <2>2 DEF Seamless
    <3> QED BY <3>1, <3>2
  <2> QED BY <1>1, <1>2, <2>1, <2>2
<1>3. ASSUME NEW d \in W, d > from, d \notin R \ {c} PROVE \E k \in 1 .. Len(t) : t[k] = d
  <2>1. CASE d = c
    BY <1>1, <2>1
  <2>2. CASE d # c
    BY <1>1, <1>3, <2>2 DEF Covers
  <2> QED BY <2>1, <2>2
<1>4. ASSUME NEW k \in 1 .. Len(t), NEW d \in R \ {c} PROVE t[k] < d
  <2>1. c < d
    BY <1>4
  <2>2. CASE k = Len(s) + 1
    BY <1>1, <2>1, <2>2
  <2>3. CASE k \in 1 .. Len(s)
    BY <1>1, <1>4, <2>3 DEF Covers
  <2> QED BY <1>1, <1>4, <2>2, <2>3
<1>5. Seamless(t, from, W)
  BY <1>2 DEF Seamless
<1>6. Covers(t, from, W, R \ {c})
  BY <1>3, <1>4 DEF Covers
<1> QED BY <1>1, <1>5, <1>6 DEF t

\* Sequence s starts with t.
StartsWith(s, t) == Len(t) <= Len(s) /\ \A k \in 1 .. Len(t) : t[k] = s[k]

LEMMA SeamlessStart ==
  ASSUME NEW W, NEW s \in Seq(W), NEW t \in Seq(W), NEW from \in Nat,
         Seamless(s, from, W), StartsWith(s, t)
  PROVE  Seamless(t, from, W)
<1>1. Len(s) \in Nat /\ Len(t) \in Nat
  BY LenProperties
<1>2. ASSUME NEW k \in 1 .. Len(t)
      PROVE  /\ t[k] > from
             /\ \A j \in 1 .. (k - 1) : t[j] < t[k]
             /\ \A d \in W : from < d /\ d < t[k] => \E j \in 1 .. (k - 1) : t[j] = d
  <2>1. k \in 1 .. Len(s) /\ t[k] = s[k]
    BY <1>1 DEF StartsWith
  <2>2. \A j \in 1 .. (k - 1) : t[j] = s[j]
    BY <1>1 DEF StartsWith
  <2>3. /\ s[k] > from
        /\ \A j \in 1 .. (k - 1) : s[j] < s[k]
        /\ \A d \in W : from < d /\ d < s[k] => \E j \in 1 .. (k - 1) : s[j] = d
    BY <2>1 DEF Seamless
  <2> QED BY <2>1, <2>2, <2>3
<1> QED BY <1>2 DEF Seamless

LEMMA SeamlessTail ==
  ASSUME NEW W \in SUBSET Nat, NEW s \in Seq(W), NEW from \in Nat, s # <<>>,
         Seamless(s, from, W)
  PROVE  /\ \A c \in W : from < c /\ c <= Head(s) => c = Head(s)
         /\ Seamless(Tail(s), Head(s), W)
         /\ \A R : Covers(s, from, W, R) => Covers(Tail(s), Head(s), W, R)
<1> DEFINE t == Tail(s)
<1>1. /\ Len(s) \in Nat \ {0}
      /\ Head(s) = s[1]
      /\ Len(t) = Len(s) - 1
      /\ \A k \in 1 .. Len(t) : t[k] = s[k + 1]
  BY HeadTailProperties, EmptySeq
<1>2. \A k \in 1 .. Len(s) : s[k] \in Nat
  BY ElementOfSeq
<1> HIDE DEF t
<1>3. s[1] > from /\ \A c \in W : from < c => ~(c < s[1])
  BY <1>1 DEF Seamless
<1>4. ASSUME NEW k \in 1 .. Len(t)
      PROVE  /\ t[k] > s[1]
             /\ \A j \in 1 .. (k - 1) : t[j] < t[k]
             /\ \A c \in W : s[1] < c /\ c < t[k] => \E j \in 1 .. (k - 1) : t[j] = c
  <2>1. k + 1 \in 1 .. Len(s) /\ t[k] = s[k + 1] /\ Len(t) = Len(s) - 1
    BY <1>1, <1>4
  <2>2. s[1] < s[k + 1]
    BY <2>1 DEF Seamless
  <2>3. ASSUME NEW j \in 1 .. (k - 1) PROVE t[j] < t[k]
    <3>1. j \in 1 .. Len(t) /\ j + 1 \in 1 .. ((k + 1) - 1)
      BY <1>1, <2>1, <2>3
    <3>2. s[j + 1] < s[k + 1]
      BY <2>1, <3>1 DEF Seamless
    <3> QED BY <1>1, <2>1, <3>1, <3>2
  <2>4. ASSUME NEW c \in W, s[1] < c, c < t[k] PROVE \E j \in 1 .. (k - 1) : t[j] = c
    <3>1. from < c
      BY <1>1, <1>2, <1>3, <2>4
    <3>2. PICK i \in 1 .. ((k + 1) - 1) : s[i] = c
      BY <2>1, <2>4, <3>1 DEF Seamless
    <3>3. i # 1
      BY <1>2, <2>4, <3>2
    <3>4. i - 1 \in 1 .. (k - 1) /\ i - 1 \in 1 .. Len(t) /\ (i - 1) + 1 = i
      BY <1>1, <2>1, <3>3
    <3> QED BY <1>1, <3>2, <3>4
  <2> QED BY <2>1, <2>2, <2>3, <2>4
<1>5. ASSUME NEW R, Covers(s, from, W, R) PROVE Covers(t, s[1], W, R)
  <2>1. ASSUME NEW c \in W, c > s[1], c \notin R PROVE \E k \in 1 .. Len(t) : t[k] = c
    <3>1. from < c
      BY <1>1, <1>2, <1>3, <2>1
    <3>2. PICK i \in 1 .. Len(s) : s[i] = c
      BY <1>5, <2>1, <3>1 DEF Covers
    <3>3. i # 1
      BY <1>2, <2>1, <3>2
    <3>4. i - 1 \in 1 .. Len(t) /\ (i - 1) + 1 = i
      BY <1>1, <3>3
    <3> QED BY <1>1, <3>2, <3>4
  <2>2. ASSUME NEW k \in 1 .. Len(t), NEW d \in R PROVE t[k] < d
    <3>1. k + 1 \in 1 .. Len(s)
      BY <1>1, <2>2
    <3> QED BY <1>1, <1>5, <2>2, <3>1 DEF Covers
  <2> QED BY <2>1, <2>2 DEF Covers
<1>6. \A c \in W : from < c /\ c <= s[1] => c = s[1]
  BY <1>1, <1>2, <1>3
<1>7. Seamless(t, s[1], W)
  BY <1>4 DEF Seamless
<1> QED BY <1>1, <1>5, <1>6, <1>7 DEF t

----------------------------------------------------------------------------
(* The inductive invariant *)

\* What the consumer will get, if the socket lasts.
Stream == wire \o queue

SubInv ==
    /\ TypeOK
    /\ Checkpointed
    /\ Seamless(wire, checkpoint, Wanted)
    /\ sock = "open" => /\ Seamless(Stream, checkpoint, Wanted)
                        /\ Covers(Stream, checkpoint, Wanted, rest)
    /\ sock = "none" => wire = <<>> /\ queue = <<>> /\ rest = {}
    /\ \A c \in rest : c > checkpoint

\* Sending the next event keeps an open stream seamless, or closes it.
LEMMA SendKeeps ==
  ASSUME NEW W \in SUBSET Nat, NEW R \in SUBSET W, NEW c \in R,
         wire \in Seq(W), queue \in Seq(W), checkpoint \in Nat, sock \in {"open", "closing"},
         sock = "open" => Seamless(Stream, checkpoint, W) /\ Covers(Stream, checkpoint, W, R),
         c > checkpoint, \A d \in R : c <= d,
         Send(c)
  PROVE  /\ queue' \in Seq(W)
         /\ sock' \in {"open", "closing"}
         /\ sock' = "open" => /\ Seamless(wire \o queue', checkpoint, W)
                              /\ Covers(wire \o queue', checkpoint, W, R \ {c})
<1>1. CASE Fits(c)
  <2>1. queue' = Append(queue, c) /\ sock' = sock
    BY <1>1 DEF Send
  <2>2. <<c>> \in Seq(W)
    OBVIOUS
  <2>3. wire \o queue' = Append(Stream, c)
    <3>1. Stream \in Seq(W)
      BY ConcatProperties DEF Stream
    <3>2. Append(queue, c) = queue \o <<c>> /\ Append(Stream, c) = Stream \o <<c>>
      BY <3>1, AppendIsConcat
    <3>3. (wire \o queue) \o <<c>> = wire \o (queue \o <<c>>)
      BY <2>2, ConcatAssociative
    <3> QED BY <2>1, <3>2, <3>3 DEF Stream
  <2>4. Stream \in Seq(W)
    BY ConcatProperties DEF Stream
  <2>5. queue' \in Seq(W)
    BY <2>1, AppendProperties
  <2>6. ASSUME sock = "open"
        PROVE  Seamless(Append(Stream, c), checkpoint, W) /\ Covers(Append(Stream, c), checkpoint, W, R \ {c})
    BY <2>4, <2>6, SeamlessAppends
  <2> QED BY <2>1, <2>3, <2>5, <2>6
<1>2. CASE ~Fits(c)
  BY <1>2 DEF Send
<1> QED BY <1>1, <1>2

LEMMA LeastOfRest ==
  ASSUME TypeOK, rest # {}
  PROVE  LET c == CHOOSE c \in rest : \A d \in rest : c <= d
         IN  c \in rest /\ \A d \in rest : c <= d
<1> DEFINE Less == {pair \in Nat \X Nat : pair[1] < pair[2]}
<1>1. rest \subseteq Nat
  BY DEF TypeOK
<1>2. IsWellFoundedOn(Less, Nat)
  BY NatLessThanWellFounded, Zenon DEF OpToRel
<1>3. \A x, y \in Nat : y < x => <<y, x>> \in Less
  OBVIOUS
<1> HIDE DEF Less
<1>4. PICK n \in rest : \A m \in rest : ~ (<<m, n>> \in Less)
  BY <1>1, <1>2, WFMin
<1>5. ASSUME NEW m \in rest PROVE n <= m
  <2>1. m \in Nat /\ n \in Nat /\ ~ (m < n)
    BY <1>1, <1>3, <1>4
  <2> QED BY <2>1
<1> QED BY <1>5

----------------------------------------------------------------------------
(* Every step keeps the invariant *)

LEMMA SubscribeStep == ASSUME SubInv, Subscribe PROVE SubInv'
<1> USE DEF Subscribe, SubInv
<1>1. wire = <<>> /\ queue = <<>> /\ Stream' = <<>> /\ Wanted' = Wanted
  BY DEF Stream, Wanted
<1>2. TypeOK'
  BY DEF TypeOK, Replayed, Wanted
<1>3. Checkpointed'
  BY DEF Checkpointed, Wanted
<1>4. /\ Seamless(<<>>, checkpoint, Wanted)
      /\ Covers(<<>>, checkpoint, Wanted, rest')
  BY DEF Seamless, Covers, Replayed
<1> QED BY <1>1, <1>2, <1>3, <1>4 DEF Replayed

LEMMA DeliverNextStep == ASSUME SubInv, DeliverNext PROVE SubInv'
<1> DEFINE c == CHOOSE c \in rest : \A d \in rest : c <= d
<1>1. /\ rest # {} /\ rest' = rest \ {c} /\ last' = c /\ size' = size /\ Send(c)
      /\ UNCHANGED <<head, wire, checkpoint, received, faults>>
  BY DEF DeliverNext
<1>2. c \in rest /\ \A d \in rest : c <= d
  BY <1>1, LeastOfRest DEF SubInv
<1> HIDE DEF c
<1>3. /\ Wanted \in SUBSET Nat /\ Wanted \subseteq 1 .. head /\ head \in Nat
      /\ rest \in SUBSET Wanted
      /\ wire \in Seq(Wanted) /\ queue \in Seq(Wanted) /\ checkpoint \in Nat
      /\ sock \in {"open", "closing"} /\ c > checkpoint
  BY <1>1, <1>2 DEF SubInv, TypeOK
<1>4. sock = "open" => Seamless(Stream, checkpoint, Wanted) /\ Covers(Stream, checkpoint, Wanted, rest)
  BY DEF SubInv
<1>5. /\ queue' \in Seq(Wanted)
      /\ sock' \in {"open", "closing"}
      /\ sock' = "open" => /\ Seamless(wire \o queue', checkpoint, Wanted)
                           /\ Covers(wire \o queue', checkpoint, Wanted, rest \ {c})
  BY <1>1, <1>2, <1>3, <1>4, SendKeeps
<1>6. TypeOK'
  BY <1>1, <1>2, <1>3, <1>5 DEF SubInv, TypeOK, Wanted
<1> QED BY <1>1, <1>5, <1>6 DEF SubInv, Stream, Checkpointed, Wanted

LEMMA PublishStep == ASSUME SubInv, NEW wanted \in BOOLEAN, Publish(wanted) PROVE SubInv'
<1>1. /\ head \in Nat /\ Wanted \in SUBSET (1 .. head) /\ rest = {} /\ rest' = {}
      /\ head' = head + 1 /\ checkpoint \in 0 .. head /\ last \in 0 .. head
      /\ wire \in Seq(Wanted) /\ queue \in Seq(Wanted)
      /\ UNCHANGED <<wire, checkpoint, received, faults>>
  BY DEF Publish, SubInv, TypeOK
<1>2. CASE ~wanted
  <2>1. UNCHANGED <<size, sock, queue, last>> /\ Wanted' = Wanted
    BY <1>2 DEF Publish, Wanted
  <2>2. TypeOK'
    BY <1>1, <2>1 DEF SubInv, TypeOK
  <2> QED BY <1>1, <2>1, <2>2 DEF SubInv, Stream, Checkpointed
<1>3. CASE wanted
  <2> DEFINE c == head + 1
             W == Wanted \cup {c}
  <2>1. Wanted' = W /\ Deliver(c)
    BY <1>1, <1>3 DEF Publish, Wanted
  <2>2. wire \in Seq(W) /\ queue \in Seq(W) /\ W \in SUBSET Nat
    BY <1>1, SeqMonotonic
  <2>3. Seamless(wire, checkpoint, W)
    BY <1>1, SeamlessGrows DEF SubInv
  <2>4. ASSUME sock = "open"
        PROVE  Seamless(Stream, checkpoint, W) /\ Covers(Stream, checkpoint, W, {c})
    <3>1. Stream \in Seq(Wanted)
      BY <1>1, ConcatProperties DEF Stream
    <3>2. Seamless(Stream, checkpoint, Wanted) /\ Covers(Stream, checkpoint, Wanted, {})
      BY <1>1, <2>4 DEF SubInv
    <3> QED BY <1>1, <3>1, <3>2, SeamlessGrows
  <2>5. Checkpointed'
    BY <1>1, <2>1 DEF SubInv, Checkpointed
  <2>6. CASE sock = "none"
    <3>1. UNCHANGED <<sock, queue, last>>
      BY <2>1, <2>6 DEF Deliver
    <3>2. TypeOK'
      BY <1>1, <2>1, <2>2, <3>1 DEF SubInv, TypeOK
    <3> QED BY <1>1, <2>1, <2>3, <2>5, <2>6, <3>1, <3>2 DEF SubInv
  <2>7. CASE sock # "none"
    <3>1. last' = c /\ Send(c) /\ sock \in {"open", "closing"}
      BY <1>1, <2>1, <2>7 DEF Deliver, SubInv, TypeOK
    <3>2. /\ c \in {c} /\ {c} \in SUBSET W /\ c > checkpoint /\ \A d \in {c} : c <= d
          /\ checkpoint \in Nat
      BY <1>1
    <3> HIDE DEF c, W
    <3>3. /\ queue' \in Seq(W)
          /\ sock' \in {"open", "closing"}
          /\ sock' = "open" => /\ Seamless(wire \o queue', checkpoint, W)
                               /\ Covers(wire \o queue', checkpoint, W, {c} \ {c})
      BY <1>1, <2>2, <2>4, <3>1, <3>2, SendKeeps
    <3>4. TypeOK'
      BY <1>1, <2>1, <2>2, <3>1, <3>3 DEF SubInv, TypeOK, c, W
    <3>5. {c} \ {c} = {}
      OBVIOUS
    <3> QED BY <1>1, <2>1, <2>3, <2>5, <3>3, <3>4, <3>5 DEF SubInv, Stream
  <2> QED BY <2>6, <2>7
<1> QED BY <1>2, <1>3

LEMMA FlushStep == ASSUME SubInv, Flush PROVE SubInv'
<1>1. /\ UNCHANGED <<head, size, sock, rest, last, checkpoint, received, faults>>
      /\ sock = "open" /\ wire' = Stream /\ queue' = <<>> /\ Wanted' = Wanted
  BY DEF Flush, Stream, Wanted
<1>2. Stream \in Seq(Wanted)
  BY ConcatProperties DEF SubInv, TypeOK, Stream
<1>3. Stream' = Stream
  BY <1>1, <1>2, ConcatEmptySeq DEF Stream
<1>4. TypeOK'
  BY <1>1, <1>2 DEF SubInv, TypeOK
<1> QED BY <1>1, <1>3, <1>4 DEF SubInv, Checkpointed

LEMMA FlushChokesStep == ASSUME SubInv, FlushChokes PROVE SubInv'
<1>1. PICK k \in 0 .. Len(queue) : /\ wire' = wire \o SubSeq(queue, 1, k)
                                   /\ queue' = SubSeq(queue, k + 1, Len(queue))
  BY DEF FlushChokes
<1>2. /\ UNCHANGED <<head, size, rest, last, checkpoint, received, faults>>
      /\ sock = "open" /\ sock' = "closing" /\ Wanted' = Wanted
  BY DEF FlushChokes, Wanted
<1>3. wire \in Seq(Wanted) /\ queue \in Seq(Wanted) /\ Len(queue) \in Nat /\ Len(wire) \in Nat
  BY LenProperties DEF SubInv, TypeOK
<1> DEFINE some == SubSeq(queue, 1, k)
<1>4. /\ some \in Seq(Wanted) /\ Len(some) = k /\ \A i \in 1 .. k : some[i] = queue[i]
      /\ queue' \in Seq(Wanted)
  <2>1. \A i \in 1 .. Len(queue) : queue[i] \in Wanted
    BY <1>3, ElementOfSeq
  <2>2. (\A i \in 1 .. k : queue[i] \in Wanted) /\ (\A i \in (k + 1) .. Len(queue) : queue[i] \in Wanted)
    BY <1>3, <2>1
  <2> QED BY <1>1, <1>3, <2>2, SubSeqProperties
<1> HIDE DEF some
<1>5. /\ wire \o some \in Seq(Wanted) /\ Stream \in Seq(Wanted)
      /\ StartsWith(Stream, wire \o some)
  <2>1. /\ Len(Stream) = Len(wire) + Len(queue) /\ Stream \in Seq(Wanted)
        /\ \A i \in 1 .. Len(wire) + Len(queue) :
             Stream[i] = IF i <= Len(wire) THEN wire[i] ELSE queue[i - Len(wire)]
    BY <1>3, ConcatProperties DEF Stream
  <2>2. /\ Len(wire \o some) = Len(wire) + k /\ wire \o some \in Seq(Wanted)
        /\ \A i \in 1 .. Len(wire) + k :
             (wire \o some)[i] = IF i <= Len(wire) THEN wire[i] ELSE some[i - Len(wire)]
    BY <1>3, <1>4, ConcatProperties
  <2>3. ASSUME NEW i \in 1 .. Len(wire) + k PROVE (wire \o some)[i] = Stream[i]
    <3>1. i \in 1 .. Len(wire) + Len(queue)
      BY <1>3, <2>3
    <3>2. i > Len(wire) => i - Len(wire) \in 1 .. k
      BY <1>3, <2>3
    <3>3. CASE i <= Len(wire)
      <4>1. (wire \o some)[i] = wire[i]
        BY <2>2, <2>3, <3>3
      <4>2. Stream[i] = wire[i]
        BY <2>1, <3>1, <3>3
      <4> QED BY <4>1, <4>2
    <3>4. CASE i > Len(wire)
      <4>1. (wire \o some)[i] = some[i - Len(wire)]
        BY <1>3, <2>2, <2>3, <3>4
      <4>2. Stream[i] = queue[i - Len(wire)]
        BY <1>3, <2>1, <3>1, <3>4
      <4>3. some[i - Len(wire)] = queue[i - Len(wire)]
        BY <1>4, <3>2, <3>4
      <4> QED BY <4>1, <4>2, <4>3
    <3>5. i <= Len(wire) \/ i > Len(wire)
      BY <1>3, <2>3
    <3> QED BY <3>3, <3>4, <3>5
  <2> QED BY <1>3, <2>1, <2>2, <2>3 DEF StartsWith
<1>6. Seamless(wire', checkpoint, Wanted) /\ wire' \in Seq(Wanted)
  <2>1. Seamless(Stream, checkpoint, Wanted) /\ checkpoint \in Nat
    BY <1>2 DEF SubInv, TypeOK
  <2>2. wire' = wire \o some
    BY <1>1 DEF some
  <2> QED BY <1>5, <2>1, <2>2, SeamlessStart
<1>7. TypeOK'
  BY <1>2, <1>4, <1>6 DEF SubInv, TypeOK
<1> QED BY <1>2, <1>6, <1>7 DEF SubInv, Checkpointed

LEMMA GivesUpStep ==
  ASSUME SubInv, GivesUp, rest = {}, faults' \in Nat,
         UNCHANGED <<head, size, rest, last, checkpoint, received>>
  PROVE  SubInv'
<1>1. sock' = "none" /\ wire' = <<>> /\ queue' = <<>> /\ Wanted' = Wanted
  BY DEF GivesUp, Wanted
<1>2. TypeOK'
  BY <1>1 DEF SubInv, TypeOK
<1> QED BY <1>1, <1>2 DEF SubInv, Checkpointed, Seamless

LEMMA ReceiveStep == ASSUME SubInv, Receive PROVE SubInv'
<1>1. /\ wire # <<>> /\ wire' = Tail(wire) /\ checkpoint' = Head(wire)
      /\ received' = received \cup {Head(wire)} /\ rest = {} /\ Wanted' = Wanted
      /\ UNCHANGED <<head, size, sock, rest, last, queue, faults>>
  BY DEF Receive, Wanted
<1>2. /\ Wanted \in SUBSET Nat /\ Wanted \subseteq 1 .. head /\ head \in Nat /\ checkpoint \in Nat
      /\ wire \in Seq(Wanted) /\ queue \in Seq(Wanted) /\ Stream \in Seq(Wanted)
  BY ConcatProperties DEF SubInv, TypeOK, Stream
<1>3. /\ Head(wire) \in Wanted /\ Tail(wire) \in Seq(Wanted)
      /\ \A c \in Wanted : checkpoint < c /\ c <= Head(wire) => c = Head(wire)
      /\ Seamless(Tail(wire), Head(wire), Wanted)
  BY <1>1, <1>2, HeadTailProperties, SeamlessTail DEF SubInv
<1>4. Checkpointed'
  BY <1>1, <1>2, <1>3 DEF SubInv, Checkpointed
<1>5. Stream # <<>> /\ Head(Stream) = Head(wire) /\ Stream' = Tail(Stream)
  <2>1. /\ Len(wire) \in Nat \ {0} /\ Len(queue) \in Nat
        /\ Len(Stream) = Len(wire) + Len(queue)
        /\ \A i \in 1 .. Len(wire) + Len(queue) :
             Stream[i] = IF i <= Len(wire) THEN wire[i] ELSE queue[i - Len(wire)]
    BY <1>1, <1>2, EmptySeq, LenProperties, ConcatProperties DEF Stream
  <2>2. Stream # <<>> /\ Head(Stream) = Head(wire)
    <3>1. Stream # <<>>
      BY <1>2, <2>1, EmptySeq
    <3>2. Head(Stream) = Stream[1] /\ Head(wire) = wire[1]
      BY <1>1, <1>2, <3>1
    <3> QED BY <2>1, <3>1, <3>2
  <2>3. /\ Len(Tail(wire)) = Len(wire) - 1
        /\ \A i \in 1 .. Len(wire) - 1 : Tail(wire)[i] = wire[i + 1]
        /\ Len(Tail(Stream)) = Len(Stream) - 1 /\ Tail(Stream) \in Seq(Wanted)
        /\ \A i \in 1 .. Len(Stream) - 1 : Tail(Stream)[i] = Stream[i + 1]
    BY <1>1, <1>2, <2>2, HeadTailProperties
  <2>4. /\ Stream' = Tail(wire) \o queue
        /\ Tail(wire) \o queue \in Seq(Wanted)
        /\ Len(Tail(wire) \o queue) = Len(wire) - 1 + Len(queue)
        /\ \A i \in 1 .. Len(wire) - 1 + Len(queue) :
             (Tail(wire) \o queue)[i] = IF i <= Len(wire) - 1 THEN Tail(wire)[i] ELSE queue[i - (Len(wire) - 1)]
    BY <1>1, <1>2, <1>3, <2>3, ConcatProperties DEF Stream
  <2>5. ASSUME NEW i \in 1 .. Len(wire) - 1 + Len(queue) PROVE (Tail(wire) \o queue)[i] = Tail(Stream)[i]
    <3>1. Tail(Stream)[i] = Stream[i + 1] /\ i + 1 \in 1 .. Len(wire) + Len(queue)
      BY <2>1, <2>3, <2>5
    <3>2. CASE i <= Len(wire) - 1
      <4>1. (Tail(wire) \o queue)[i] = wire[i + 1]
        BY <2>1, <2>3, <2>4, <3>2
      <4> QED BY <2>1, <3>1, <3>2, <4>1
    <3>3. CASE i > Len(wire) - 1
      <4>1. i - (Len(wire) - 1) = (i + 1) - Len(wire) /\ ~(i <= Len(wire) - 1) /\ ~(i + 1 <= Len(wire))
        BY <2>1, <3>3
      <4> QED BY <2>1, <2>4, <3>1, <4>1
    <3> QED BY <2>1, <3>2, <3>3
  <2>6. Tail(wire) \o queue = Tail(Stream)
    BY <2>1, <2>3, <2>4, <2>5, SeqEqual
  <2> QED BY <2>2, <2>4, <2>6
<1>6. ASSUME sock = "open"
      PROVE  Seamless(Stream', Head(wire), Wanted) /\ Covers(Stream', Head(wire), Wanted, {})
  <2>1. Seamless(Stream, checkpoint, Wanted) /\ Covers(Stream, checkpoint, Wanted, {})
    BY <1>1, <1>6 DEF SubInv
  <2> QED BY <1>2, <1>5, <2>1, SeamlessTail
<1>7. TypeOK'
  <2>1. Head(wire) \in 0 .. head
    <3>1. Head(wire) \in 1 .. head
      BY <1>2, <1>3, Zenon
    <3> QED BY <1>2, <3>1
  <2>2. received' \subseteq Wanted
    BY <1>1, <1>3 DEF SubInv, TypeOK
  <2>3. wire' \in Seq(Wanted) /\ checkpoint' \in 0 .. head
    BY <1>1, <1>3, <2>1
  <2> QED BY <1>1, <2>2, <2>3 DEF SubInv, TypeOK
<1> QED BY <1>1, <1>3, <1>4, <1>6, <1>7 DEF SubInv

----------------------------------------------------------------------------
LEMMA SubInvariant == Spec => []SubInv
<1>1. Init => SubInv
  BY DEF Init, SubInv, TypeOK, Checkpointed, Seamless, Wanted
<1>2. SubInv /\ [Next]_vars => SubInv'
  <2> SUFFICES ASSUME SubInv, [Next]_vars PROVE SubInv'
    OBVIOUS
  <2>1. CASE Closed
    BY <2>1, GivesUpStep DEF Closed, SubInv, TypeOK
  <2>2. CASE Breaks
    BY <2>2, GivesUpStep DEF Breaks, SubInv, TypeOK
  <2>3. CASE UNCHANGED vars
    BY <2>3 DEF vars, SubInv, TypeOK, Checkpointed, Stream, Wanted
  <2> QED
    BY <2>1, <2>2, <2>3, SubscribeStep, DeliverNextStep, PublishStep, FlushStep, FlushChokesStep,
       ReceiveStep DEF Next
<1> QED BY <1>1, <1>2, PTL DEF Spec

\* Frames, queue and cursors are what they should be.
THEOREM SubscriptionTypes == Spec => []TypeOK
<1>1. SubInv => TypeOK
  BY DEF SubInv
<1> QED BY <1>1, SubInvariant, PTL

\* No event that a consumer wants is ever left behind its checkpoint, over overflows, choked
\* flushes and broken sockets.
THEOREM SubscriptionCheckpointed == Spec => []Checkpointed
<1>1. SubInv => Checkpointed
  BY DEF SubInv
<1> QED BY <1>1, SubInvariant, PTL
=============================================================================

---------------------------- MODULE Subscriptions ----------------------------
(***************************************************************************)
(* How a consumer of protocol v3 follows the events: events.subscribe and  *)
(* publish of daemon.ts, ReplaySubscription of subscriptions.ts, and the   *)
(* way out, Sender of daemon.ts with the BoundedQueue of backpressure.ts.  *)
(*                                                                         *)
(* The consumer is no part of the repository.  It does what the protocol   *)
(* asks of it: one subscription per socket, after the last cursor that it  *)
(* has received.  Retention is left to DurableStore; here no cursor ever   *)
(* expires.                                                                *)
(*                                                                         *)
(* A replay is a loop of the daemon that waits for nothing but itself: no  *)
(* frame and no timer comes between (`rest` # {}).  So nothing is ever     *)
(* buffered by a subscription, which the class could do.                   *)
(***************************************************************************)
EXTENDS Integers, Sequences, FiniteSets, Functions

CONSTANTS
    MaxItems,   \* maxOutboundItems
    MaxBytes,   \* of the queue
    Sizes,      \* sizes of frames
    MaxHead,    \* bound: events
    MaxFaults   \* bound: broken sockets

ASSUME SubscriptionAssumption ==
    /\ MaxItems \in Nat \ {0}
    /\ MaxBytes \in Nat
    /\ Sizes \subseteq 1 .. MaxBytes
    /\ MaxHead \in Nat /\ MaxFaults \in Nat

VARIABLES
    head,        \* headCursor of the store
    size,        \* of the frames of those events that pass the filter processIds
    sock,        \* "none", "open", "closing": the daemon has closed it
    rest,        \* what the replay has still to deliver
    last,        \* #last
    queue,       \* of the sender
    wire,        \* frames under way
    checkpoint,  \* of the consumer
    received,    \* what it ever got
    faults       \* how many there were so far

vars == <<head, size, sock, rest, last, queue, wire, checkpoint, received, faults>>

Wanted == DOMAIN size

Init ==
    /\ head = 0
    /\ size = [c \in {} |-> 0]
    /\ sock = "none"
    /\ rest = {}
    /\ last = 0
    /\ queue = <<>>
    /\ wire = <<>>
    /\ checkpoint = 0
    /\ received = {}
    /\ faults = 0

----------------------------------------------------------------------------
(* The daemon *)

Bytes(cursors, sizes) == FoldFunctionOnSet(+, 0, sizes, cursors)

\* BoundedQueue.push throws nothing.
Fits(c) ==
    /\ Len(queue) < MaxItems
    /\ Bytes(Range(queue), size) + size'[c] <= MaxBytes

SendDrops(c) ==
    /\ queue' = IF Fits(c) THEN Append(queue, c) ELSE queue
    /\ UNCHANGED sock

\* `send`: an event that does not fit closes the socket.
Send(c) ==
    IF Fits(c)
    THEN /\ queue' = Append(queue, c)
         /\ UNCHANGED sock
    ELSE /\ sock' = "closing"
         /\ UNCHANGED queue

ReplayedAll == Wanted

\* replay, of what is after the checkpoint.
Replayed == {c \in Wanted : c > checkpoint}

\* `events.subscribe`, of a consumer that has connected.
Subscribe ==
    /\ sock = "none"
    /\ sock' = "open"
    /\ rest' = Replayed
    /\ last' = 0
    /\ UNCHANGED <<head, size, queue, wire, checkpoint, received, faults>>

\* `start`: the next item of the replay.
DeliverNext ==
    /\ rest # {}
    /\ LET c == CHOOSE c \in rest : \A d \in rest : c <= d
       IN  /\ rest' = rest \ {c}
           /\ last' = c
           /\ UNCHANGED size
           /\ Send(c)
    /\ UNCHANGED <<head, wire, checkpoint, received, faults>>

\* `buffer` of a subscription that has started.
Deliver(c) ==
    IF sock # "none" /\ c > last
    THEN /\ last' = c
         /\ Send(c)
    ELSE UNCHANGED <<sock, queue, last>>

\* A producer's event is committed: `publish`.
Publish(wanted) ==
    /\ rest = {}
    /\ head < MaxHead
    /\ head' = head + 1
    /\ \/ /\ wanted
          /\ \E n \in Sizes : size' = [c \in Wanted \cup {head'} |-> IF c = head' THEN n ELSE size[c]]
          /\ Deliver(head')
       \/ /\ ~wanted
          /\ UNCHANGED <<size, sock, queue, last>>
    /\ UNCHANGED <<rest, wire, checkpoint, received, faults>>

\* `flush`, a turn later.
Flush ==
    /\ rest = {}
    /\ sock = "open"
    /\ queue # <<>>
    /\ wire' = wire \o queue
    /\ queue' = <<>>
    /\ UNCHANGED <<head, size, sock, rest, last, checkpoint, received, faults>>

\* bufferedAmount is too high, which is tested before each frame and after the last one: the
\* first k frames are sent, or none because of what is under way.
FlushChokes ==
    /\ rest = {}
    /\ sock = "open"
    /\ queue # <<>>
    /\ \E k \in 0 .. Len(queue) :
         /\ wire # <<>> \/ k > 0
         /\ wire' = wire \o SubSeq(queue, 1, k)
         /\ queue' = SubSeq(queue, k + 1, Len(queue))
    /\ sock' = "closing"
    /\ UNCHANGED <<head, size, rest, last, checkpoint, received, faults>>

GivesUp ==
    /\ sock' = "none"
    /\ queue' = <<>>
    /\ wire' = <<>>

\* The close event of a socket that the daemon has closed, once what it had written before
\* is through.
Closed ==
    /\ rest = {}
    /\ sock = "closing"
    /\ wire = <<>>
    /\ GivesUp
    /\ UNCHANGED <<head, size, rest, last, checkpoint, received, faults>>

\* The close event of a socket that broke, or that the daemon's end took with it.
Breaks ==
    /\ rest = {}
    /\ sock # "none"
    /\ faults < MaxFaults
    /\ faults' = faults + 1
    /\ GivesUp
    /\ UNCHANGED <<head, size, rest, last, checkpoint, received>>

----------------------------------------------------------------------------
\* The consumer
Receive ==
    /\ rest = {}
    /\ wire # <<>>
    /\ wire' = Tail(wire)
    /\ checkpoint' = Head(wire)
    /\ received' = received \cup {Head(wire)}
    /\ UNCHANGED <<head, size, sock, rest, last, queue, faults>>

----------------------------------------------------------------------------
Next ==
    \/ Subscribe \/ DeliverNext \/ Flush \/ FlushChokes \/ Closed \/ Breaks
    \/ \E wanted \in BOOLEAN : Publish(wanted)
    \/ Receive

Fairness ==
    /\ WF_vars(Subscribe)
    /\ WF_vars(DeliverNext)
    /\ WF_vars(Flush \/ FlushChokes)
    /\ WF_vars(Closed)
    /\ WF_vars(Receive)

Spec == Init /\ [][Next]_vars /\ Fairness

----------------------------------------------------------------------------
(* Properties *)

TypeOK ==
    /\ head \in Nat
    /\ Wanted \subseteq 1 .. head
    /\ sock \in {"none", "open", "closing"}
    /\ rest \subseteq Wanted
    /\ last \in 0 .. head
    /\ queue \in Seq(Wanted)
    /\ wire \in Seq(Wanted)
    /\ checkpoint \in 0 .. head
    /\ received \subseteq Wanted
    /\ faults \in Nat

\* "Consumers receive durable events at least once and checkpoint global cursors" (README
\* of the protocol package): what lies at or below the checkpoint was received.  A consumer
\* that came back after an overflow, a choked flush or a broken socket would never ask for
\* an event that was left out before.
Checkpointed == \A c \in Wanted : c <= checkpoint => c \in received

\* What the consumer has yet to receive, and whether an empty queue can take it at once.
Behind == {c \in Wanted : c > checkpoint}
Digestible == Cardinality(Behind) <= MaxItems /\ Bytes(Behind, size) <= MaxBytes

\* A consumer that keeps coming back gets all it is behind with, however often its sockets
\* overflow, choke or break; but only if that fits the queue of the sender.  A consumer
\* that is further behind is closed before the first frame, each time anew.
CatchesUp == Behind # {} /\ Digestible ~> Behind = {} \/ ~Digestible
=============================================================================

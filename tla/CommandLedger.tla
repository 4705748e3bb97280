---------------------------- MODULE CommandLedger ----------------------------
(***************************************************************************)
(* What a command id promises to whoever sends it: the reference store     *)
(* CommandLedger of packages/protocol/src/index.ts.  An id stands for one  *)
(* request for ever, and gets at most one result.  Several commands may    *)
(* get theirs at once, which the reference store, one call at a time,      *)
(* leaves open.                                                            *)
(***************************************************************************)
CONSTANTS
    Commands,  \* command ids
    Requests,  \* what an id may stand for
    Outcomes,  \* results
    Unknown    \* "this id was never accepted"

VARIABLE commands

Accepted(r) == [request |-> r, outcome |-> Unknown]
Answered(r, o) == [request |-> r, outcome |-> o]

LedgerInit == commands = [k \in Commands |-> Unknown]

\* `accept` of an id that is new.
Accept(k) == commands[k] = Unknown /\ \E r \in Requests : commands'[k] = Accepted(r)

\* `complete`, once.
Complete(k) ==
    \E r \in Requests, o \in Outcomes :
        commands[k] = Accepted(r) /\ commands'[k] = Answered(r, o)

LedgerNext ==
    /\ DOMAIN commands' = Commands
    /\ \A k \in Commands : Accept(k) \/ Complete(k) \/ commands'[k] = commands[k]

LedgerSpec == LedgerInit /\ [][LedgerNext]_commands
=============================================================================

----------------------------- MODULE CursorStore -----------------------------
(***************************************************************************)
(* CursorStore of packages/protocol/src/index.ts as operators on its       *)
(* fields: how a history with cursors answers those who replay it.         *)
(***************************************************************************)
EXTENDS Integers

\* A history up to cursor `last`, of which nothing has expired.
History(last, rows) == [head |-> last, minimumCursor |-> 1, events |-> rows]

\* `expireThrough`
ExpireThrough(s, c) ==
    [s EXCEPT !.events = {r \in @ : r.cursor > c},
              !.minimumCursor = IF c + 1 > @ THEN c + 1 ELSE @]

\* `replay`: when it throws cursor_ahead or cursor_expired, and what it returns otherwise.
Refuses(s, after) == after > s.head \/ after < s.minimumCursor - 1
ReplayOf(s, after) == {r \in s.events : r.cursor > after}
=============================================================================

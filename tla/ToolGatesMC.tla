----------------------------- MODULE ToolGatesMC -----------------------------
(***************************************************************************)
(* TLC instance of ToolGates: two tool calls with the same id, one of them *)
(* with arguments that cannot be copied, and a context hook.               *)
(***************************************************************************)
EXTENDS ToolGates, TLC

CONSTANTS call1, call2, ctx1, id1, id2, l1, l2

McCalls == {call1, call2, ctx1}
McTools == {call1, call2}
McContexts == {ctx1}
McToolCallIdOf == call1 :> id1 @@ call2 :> id1 @@ ctx1 :> id2
McOddArguments == {call2}
McLeases == {l1, l2}
=============================================================================

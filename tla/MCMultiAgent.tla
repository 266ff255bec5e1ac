----------------------------- MODULE MCMultiAgent -----------------------------
(***************************************************************************)
(* The agent board under TLC: MCBoardFaulty.cfg lets the gateway fail and  *)
(* looks at the cards, MCBoardFair.cfg asks for progress and for what a    *)
(* quiet board shows and leaves behind.                                    *)
(***************************************************************************)
EXTENDS MultiAgent, TLC

CONSTANT c1
=============================================================================

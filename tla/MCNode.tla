------------------------------- MODULE MCNode -------------------------------
(***************************************************************************)
(* Instances of Node for TLC.  The blocks: g0 the big bang block, h0 the   *)
(* big bang block of another configuration, a1 a2 a3 a chain above g0, b2  *)
(* a second block with number 2.  Block a3 does not satisfy its            *)
(* predicates.                                                             *)
(***************************************************************************)
EXTENDS Node, TLC

CONSTANTS g0, h0, a1, a2, a3, b2

MCBlocks == {g0, h0, a1, a2, a3, b2}

MCNumber == g0 :> 0 @@ h0 :> 0 @@ a1 :> 1 @@ a2 :> 2 @@ b2 :> 2 @@ a3 :> 3

MCValid == MCBlocks \ {a3}

\* One solution set per block, all different.
OwnSets == [b \in MCBlocks |-> <<b>>]

\* One source with one chain; its last block is invalid.
HonestSource == {{g0, a1, a2, a3}}

\* A source without an invalid block.
ValidSource == {{g0, a1, a2}}

\* A source that may have been replaced between two connections: by one that
\* forked at number 2, or by one with another big bang block.
ChangingSource == {{g0, a1, a2, a3}, {g0, a1, b2}, {h0, a1}}
=============================================================================

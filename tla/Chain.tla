------------------------------- MODULE Chain -------------------------------
(***************************************************************************)
(* What a node promises to those who read its database: a chain of         *)
(* finalized blocks that only grows, one block at a time and one block per *)
(* number, and a validated prefix of that chain that only grows, one valid *)
(* block at a time.  Crashes, restarts, disconnects, retries and the       *)
(* interleaving of the streams are invisible here.                         *)
(***************************************************************************)
EXTENDS Integers

CONSTANTS
    Blocks,   \* block content addresses
    Number,   \* Number[b]: the block number in b's header
    Valid,    \* the blocks whose solution sets satisfy their predicates
    NoBlock   \* no block

VARIABLES
    chain,     \* the finalized blocks
    validated  \* the last block of the validated prefix, or NoBlock

vars == <<chain, validated>>

Init == chain = {} /\ validated = NoBlock

\* b is the next block of the chain: block 0, or the successor of the tip.
Extends(b) ==
    /\ \A c \in chain : Number[c] < Number[b]
    /\ Number[b] = 0 \/ \E c \in chain : Number[b] = Number[c] + 1

Finalize(b) ==
    /\ Extends(b)
    /\ chain' = chain \cup {b}
    /\ UNCHANGED validated

\* Validation starts from block 0, which is not validated itself.
Begin(b) ==
    /\ validated = NoBlock
    /\ b \in chain
    /\ Number[b] = 0
    /\ validated' = b
    /\ UNCHANGED chain

Validate(b) ==
    /\ validated # NoBlock
    /\ b \in chain \cap Valid
    /\ Number[b] = Number[validated] + 1
    /\ validated' = b
    /\ UNCHANGED chain

Next == \E b \in Blocks : Finalize(b) \/ Begin(b) \/ Validate(b)

Spec == Init /\ [][Next]_vars
=============================================================================

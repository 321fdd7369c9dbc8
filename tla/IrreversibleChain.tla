-------------------------- MODULE IrreversibleChain --------------------------
(***************************************************************************)
(* What a node promises about irreversible blocks: a chain that starts at  *)
(* the genesis block and only ever grows, by one child of its last block   *)
(* at a time.  Nothing is rewritten, skipped or taken back.                *)
(***************************************************************************)
EXTENDS Naturals, Sequences

CONSTANTS Block, Genesis, Parent, Number

VARIABLE chain

Last == chain[Len(chain)]

Init == chain = <<Genesis>>

Confirm(b) ==
    /\ Parent[b] = Last
    /\ Number[b] = Number[Last] + 1
    /\ chain' = Append(chain, b)

Next == \E b \in Block : Confirm(b)

Spec == Init /\ [][Next]_chain
=============================================================================

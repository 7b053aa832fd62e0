------------------------------ MODULE MCProposal ------------------------------
(***************************************************************************)
(* Values of the constants of Proposal for TLC.                            *)
(***************************************************************************)
EXTENDS Proposal

CONSTANTS
    Gaps, Counts,
    MaxLength      \* BOUND: the longest result of the compression

\* Three blocks: how far they are from each other, how many transactions each
\* has beside its anchor.  No two transactions are equal.
Txs(n, count) == <<Anchor>> \o [i \in 1..count |-> <<n, i>>]
MCChains ==
    { <<[timestamp |-> 7, txs |-> Txs(1, c[1])],
        [timestamp |-> 7 + g[1], txs |-> Txs(2, c[2])],
        [timestamp |-> 7 + g[1] + g[2], txs |-> Txs(3, c[3])]>> :
      g \in [1..2 -> Gaps], c \in [1..3 -> Counts] }

\* Bytes of every length, all of them with every bit set, or with
\* values that go through all residues.  No byte at an end is zero.
MCStreams ==
    { [i \in 1..n |-> 255] : n \in 1..MaxLength }
    \cup { [i \in 1..n |-> ((37 * i) % 255) + 1] : n \in 1..MaxLength }
=============================================================================

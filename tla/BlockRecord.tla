----------------------------- MODULE BlockRecord -----------------------------
(***************************************************************************)
(* What the miner takes its work block to be: a record whose fields can be *)
(* set one at a time, a nonce that counts through all its values, and a    *)
(* list of transactions that grows while it stays below a limit.           *)
(***************************************************************************)
EXTENDS Integers, Sequences

CONSTANTS
    NoBlock,      \* memory nobody has written a header to
    Unset,        \* the merkle root of a new header
    Headers,      \* the headers a block may start with
    Tx, TxSize,   \* transactions and their sizes
    HeaderSize, SizeLimit,
    NonceCount,   \* the values of a nonce
    Times

VARIABLE block

RecordSize(txs) ==
    LET size[n \in 0..Len(txs)] ==
            IF n = 0 THEN HeaderSize ELSE size[n - 1] + TxSize[txs[n]]
    IN  size[Len(txs)]

Begun(h) ==
    [time |-> h.time, height |-> h.height, prev |-> h.prev,
     target |-> h.target, root |-> Unset, nonce |-> 0, txs |-> <<>>]

\* What one step may make of block b: a new time, the next nonce, or one more
\* transaction if it stays below the limit.
Successors(b) ==
    {[b EXCEPT !.time = now] : now \in Times}
    \cup {[b EXCEPT !.nonce = (@ + 1) % NonceCount]}
    \cup {[b EXCEPT !.txs = Append(@, t)] :
             t \in {u \in Tx : RecordSize(b.txs) + TxSize[u] < SizeLimit}}

RecordInit == block = NoBlock

RecordNext ==
    \/ block' \in {Begun(h) : h \in Headers}
    \/ block # NoBlock /\ block' \in Successors(block)

RecordSpec == RecordInit /\ [][RecordNext]_block

==============================================================================

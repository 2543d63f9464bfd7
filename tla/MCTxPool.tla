------------------------------ MODULE MCTxPool ------------------------------
(***************************************************************************)
(* Transactions for TLC: a transaction is <<sender, nonce, price, cost>>.  *)
(***************************************************************************)
EXTENDS TxPool

CONSTANTS alice, bob

\* Account alice has three nonces and a replacement for the second, which is too
\* expensive for a poor account; bob has two.
MCTxs == {<<alice, 0, 20, 1>>, <<alice, 1, 20, 2>>, <<alice, 1, 30, 1>>, <<alice, 2, 10, 1>>,
          <<bob, 0, 10, 1>>, <<bob, 1, 30, 1>>}

\* Only account alice, and one transaction of bob to fill the pool with.
FewTxs == {<<alice, 0, 20, 1>>, <<alice, 1, 20, 1>>, <<alice, 2, 20, 1>>, <<bob, 0, 10, 1>>}

MCSender == [t \in Txs |-> t[1]]
MCNonce  == [t \in Txs |-> t[2]]
MCPrice  == [t \in Txs |-> t[3]]
MCCost   == [t \in Txs |-> t[4]]

LocalTxs == {<<bob, 1, 30, 1>>}
=============================================================================

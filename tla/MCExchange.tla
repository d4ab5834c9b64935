----------------------------- MODULE MCExchange ------------------------------
(***************************************************************************)
(* Small instances for TLC of what a node takes from its peers and gives   *)
(* to them: the transaction pool, the blocks a leader makes from it, and   *)
(* the protocol by which nodes fetch blocks.  The first state chooses the  *)
(* part that is explored.                                                  *)
(***************************************************************************)
EXTENDS Mempool, BlockAssembly, ChainSync

CONSTANTS t1, c1, b1, b2

VARIABLE part

exchangeVars == <<poolVars, assemblyVars, syncVars, part>>

------------------------------------------------------------------------------
\* The pool: c1 holds a claim anchored at b1.

MCAnchors   == (t1 :> {}) @@ (c1 :> {b1})
MCSlotOf    == (b1 :> 1) @@ (b2 :> 5)
MCSlotStart == (b1 :> 0) @@ (b2 :> 1)
MCTxsOf     == (b1 :> {t1, c1}) @@ (b2 :> {c1})
\* In the second era the digest of c1 is not accepted any more.
MCFits      == <<{t1, c1}, {t1, c1}>>
MCDigests   == <<{t1, c1}, {t1}>>

\* The transactions of the leader: a chain of two, two that spend the same
\* note, one too large for a block, and one that uses most of its gas.

Tx(spends, makes, size, gas) ==
  [spends |-> spends, makes |-> makes, size |-> size, gas |-> gas]
MCTransactions ==
  {Tx({1}, {3}, 2, 1), Tx({3}, {4}, 1, 1), Tx({2}, {6}, 1, 2),
   Tx({2}, {7}, 4, 1), Tx({1}, {8}, 1, 3)}

------------------------------------------------------------------------------
ExchangeInit ==
  PoolInit /\ AssemblyInit /\ SyncInit /\ part \in {"pool", "leader", "sync"}

ExchangeNext ==
  \/ part = "pool" /\ PoolNext /\ UNCHANGED <<assemblyVars, syncVars, part>>
  \/ part = "leader" /\ AssemblyNext /\ UNCHANGED <<poolVars, syncVars, part>>
  \/ part = "sync" /\ SyncNext /\ UNCHANGED <<poolVars, assemblyVars, part>>

ExchangeSpec ==
  ExchangeInit /\ [][ExchangeNext]_exchangeVars /\ SyncFairness

==============================================================================

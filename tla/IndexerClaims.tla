--------------------------- MODULE IndexerClaims ---------------------------
(***************************************************************************)
(* What the repository's documents and messages say of the indexer and its *)
(* code does not do: each is a property that a run refutes.                *)
(***************************************************************************)
EXTENDS Indexer

(* docs/integration/light-client.md:322 "The indexer ensures no gaps in    *)
(* the block sequence": once no backfill is pending, every block up to the *)
(* watermark is stored.                                                    *)
GapFree == meta # NoRow /\ ~meta.backfilling => 0 .. meta.latest \subseteq headers

(* docs/getting-started/quick-start.md:222-224: after Ctrl+C every service *)
(* completed normally.  A process that met no fault ends without an error. *)
GracefulShutdown == faults = 0 => exitCode # "error"

(* src/rpc/mod.rs:611 "Application must stop to prevent data gaps": when   *)
(* the quick indexer has failed, the process ends.                         *)
FailureStopsProcess == qpc = "failed" ~> phase = "down"

(* README.md:259 "Whether to index transaction data": with the option set, *)
(* a process that met no fault and was not told to stop goes on indexing.  *)
IndexesTransactions ==
  ShouldIndexTxs /\ faults = 0 /\ ~shouldTerminate
    => qpc # "failed" /\ bpc # "failed"
=============================================================================

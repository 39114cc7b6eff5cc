----------------------------- MODULE IndexStore -----------------------------
(***************************************************************************)
(* What the two indexing services of fossil-headers-db share: the          *)
(* PostgreSQL tables blockheaders and index_metadata, the Ethereum node    *)
(* they ask for headers, and the flag should_terminate.                    *)
(*                                                                         *)
(* A stored header is represented by its block number (the primary key of  *)
(* blockheaders; a finalized block has one content, so an upsert of a      *)
(* stored number changes nothing).  index_metadata holds at most one row.  *)
(* Queries and transactions are atomic; each may fail, and a commit may    *)
(* take effect although its acknowledgement is lost.                       *)
(***************************************************************************)
EXTENDS IndexMetadata, FiniteSets

CONSTANTS
  MaxBlock,   \* bound: the highest block the chain reaches
  MaxLag,     \* bound: how far behind the chain a node may answer
  Faults,     \* the kinds of fault the environment may inject
  MaxFaults,  \* bound: how many of them in one behaviour
  BatchSize,  \* index_batch_size, the same for both services
  MaxRetries, \* max_retries, the same for both services
  Cursors,    \* bound: the backfilling_block_number values others write
  ShouldIndexTxs, \* should_index_txs, the option INDEX_TRANSACTIONS
  TxBlocks    \* the blocks of the chain that contain transactions

FaultKinds == {"rpcTip", "rpcBlock", "dbRead", "dbWrite", "lostAck",
               "router", "crash", "timeout"}

ASSUME BoundAssumption == MaxBlock \in Nat /\ MaxLag \in Nat /\ MaxFaults \in Nat
ASSUME FaultAssumption == Faults \subseteq FaultKinds
ASSUME ConfigAssumption == BatchSize \in Nat \ {0} /\ MaxRetries \in Nat \ {0}
ASSUME TransactionsAssumption == ShouldIndexTxs \in BOOLEAN /\ TxBlocks \subseteq Nat

VARIABLES
  headers,          \* the block numbers stored in blockheaders
  meta,             \* the row of index_metadata, or NoRow
  finalized,        \* the latest finalized block of the chain
  shouldTerminate,  \* set by the Ctrl-C handler, polled by every service
  faults            \* how many faults were injected so far

storeVars == <<headers, meta, finalized, shouldTerminate, faults>>

Blocks == 0..MaxBlock

ASSUME CursorAssumption == Cursors \subseteq Int \cup {NULL}

StoreTypeOK ==
  /\ headers \subseteq Int
  /\ meta \in MetaRow \cup {NoRow}
  /\ finalized \in Nat
  /\ shouldTerminate \in BOOLEAN
  /\ faults \in Nat

-----------------------------------------------------------------------------
(* find_missing_blocks over one range: one SELECT.                         *)
Missing(from, to) == (from .. to) \ headers

-----------------------------------------------------------------------------
(* Faults: each consumes one unit of the budget MaxFaults.                 *)
Fault(kind) ==
  /\ kind \in Faults
  /\ faults < MaxFaults
  /\ faults' = faults + 1

(* An RPC call or a query answers (ok) or fails.                           *)
Outcome(ok, kind) == IF ok THEN UNCHANGED faults ELSE Fault(kind)

Query(ok) == Outcome(ok, "dbRead")

(* Faults that hit other parts of the program spend the same budget.       *)
FaultsElsewhere == faults' \in faults .. MaxFaults

(* Bug: the row is updated outside of the transaction, which then fails.   *)
Transaction_NotAtomic(h, m, ok) ==
  \/ /\ headers' = h /\ meta' = m
     /\ Outcome(ok, "lostAck")
  \/ /\ ~ok
     /\ meta' = m /\ UNCHANGED headers
     /\ Fault("dbWrite")

(* A transaction that leaves the tables as h and m.  When the caller is    *)
(* told of an error (~ok) the tables are unchanged, or the commit did take *)
(* effect and only its acknowledgement was lost.                           *)
Transaction(h, m, ok) ==
  \/ /\ headers' = h /\ meta' = m
     /\ Outcome(ok, "lostAck")
  \/ /\ ~ok
     /\ UNCHANGED <<headers, meta>>
     /\ Fault("dbWrite")

(* try_convert_full_tx_vector: the client requests every block with the    *)
(* hashes of its transactions only, and a hash does not convert into a     *)
(* Transaction.  insert_block_header_only_query does not look at them.     *)
Convertible(new) == ShouldIndexTxs => new \cap TxBlocks = {}

(* The transaction of a service that inserts headers and leaves the row as *)
(* m.  A header that does not convert rolls it back before any statement   *)
(* (one without a root or with a number that is no hexadecimal number is a *)
(* fault of the node; one whose transactions are hashes is not).           *)
StoreHeaders(new, m, ok) ==
  \/ Convertible(new) /\ Transaction(headers \cup new, m, ok)
  \/ ~Convertible(new) /\ ~ok /\ UNCHANGED <<headers, meta, faults>>

(* The node's answer to a request for the latest finalized block: nodes    *)
(* behind one endpoint may lag the chain.                                  *)
TipAnswers == {t \in 0 .. finalized : finalized - MaxLag <= t}

(* What a node may answer to requests for the headers of blocks asked: a   *)
(* header that carries some number, or an error or a timeout (NULL).       *)
HeaderAnswers(asked) == [asked -> Blocks \cup {NULL}]

(* An answer is honest when every header carries the requested number.     *)
Honest(answer) == \A b \in DOMAIN answer : answer[b] = b

Received(answer) == {answer[b] : b \in DOMAIN answer}

-----------------------------------------------------------------------------
(* The chain finalizes one more block.                                     *)
FinalizeBlock ==
  /\ finalized < MaxBlock
  /\ finalized' = finalized + 1
  /\ UNCHANGED <<headers, meta, shouldTerminate, faults>>

(* The Ctrl-C handler.                                                     *)
CtrlC ==
  /\ ~shouldTerminate
  /\ shouldTerminate' = TRUE
  /\ UNCHANGED <<headers, meta, finalized, faults>>
=============================================================================

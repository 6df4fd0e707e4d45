------------------------------- MODULE Ledger -------------------------------
(***************************************************************************)
(* Payments: the UTXO set (core/utxo.go), the mempool and the templates of *)
(* BlockchainV2 (core/blockchain.go), and the way of a transaction through *)
(* sendTransaction, createBlockTemplate, the miner and submitBlock         *)
(* (rpc/server_v2.go, cmd/kalon-miner-v2/main.go).                         *)
(*                                                                         *)
(* addBlockV2 holds bc.mu from its validation to its append, but the UTXO  *)
(* set and the mempool have locks of their own: sendTransaction takes only *)
(* those, and a template reads the best block under bc.mu and the mempool  *)
(* after that.  So each access to the two is a step, and other calls run   *)
(* between the steps of an addBlockV2.                                     *)
(*                                                                         *)
(* Storage, timestamps and proof of work are in module ChainStore, and so  *)
(* is what a restart finds in the store: a prefix of the chain, or one with*)
(* a number missing.  Definitions named X_Y are X with one mistake.        *)
(***************************************************************************)
EXTENDS Integers, Sequences, SequencesExt, FiniteSetsExt

CONSTANTS
    Accounts,        \* addresses of wallets and miners
    Miners,          \* those that mine
    NoAccount,       \* Address{}, the sender of a reward
    Payments,        \* what wallets ask for: [from, to, amount, fee]
    BlockReward,     \* calculateBlockReward, before the first halving
    InputFormats,    \* how submitters write the hash of an input: "hex", "array"
    PaymentsRepeat,  \* whether a payment may be asked for again
    MaxTemplates,    \* bound: the templates created
    MaxRestarts,     \* bound: how often the node is restarted
    MaxForgotten     \* bound: the blocks that a restart forgets

ASSUME LedgerAssumption ==
    /\ Miners \subseteq Accounts /\ NoAccount \notin Accounts
    /\ Payments \subseteq [from : Accounts, to : Accounts, amount : Nat, fee : Nat]
    /\ BlockReward \in Nat \ {0}
    /\ InputFormats \subseteq {"hex", "array"}
    /\ PaymentsRepeat \in BOOLEAN
    /\ MaxTemplates \in Nat /\ MaxRestarts \in Nat /\ MaxForgotten \in Nat

VARIABLES
    blocks,     \* the chain: each block's hash, parent hash and transactions
    utxos,      \* UTXOSet.utxos: [owner, amount, spent] by <<tx hash, index>>
    mempool,    \* Mempool.transactions, by hash
    adding,     \* the block whose addBlockV2 holds bc.mu, and how far it is
    created,    \* transactions between CreateTransaction and AddTransaction
    mined,      \* sealed templates in the hands of miners
    nextHash,   \* the hash of the next template sealed
    requests,   \* how often each payment was asked for and accepted
    pending,    \* hashes answered with status "pending", with restarts then
    restarts,   \* how often the node was restarted
    givenUp     \* whether the load of the last restart was given up

Unlocked == [mu |-> "unlocked"]   \* adding, when bc.mu is free
calls == <<created, pending>>
starts == <<restarts, givenUp>>
vars == <<blocks, utxos, mempool, adding, calls, mined, nextHash, requests, starts>>

-----------------------------------------------------------------------------
(* Transactions.                                                           *)

ZeroHash == <<>>

PaymentHash_PartiesOnly(p) == <<p.from, p.to>>

(* Transaction.CalculateHash: parties, amount and fee.  Nonce, gas and data*)
(* are never set; inputs, outputs and timestamp are not hashed.            *)
PaymentHash(p) == <<p.from, p.to, p.amount, p.fee>>

(* createBlockRewardTransaction: its hash has the time in nanoseconds, so  *)
(* that each template has a reward of its own, here number n.              *)
RewardTx(m, n) ==
    [hash |-> <<NoAccount, m, n>>, from |-> NoAccount, to |-> m, amount |-> BlockReward,
     fee |-> 0, inputs |-> {}, outputs |-> <<[owner |-> m, amount |-> BlockReward]>>]

(* getKey, for each output of a transaction                                *)
Keys(tx) == {<<tx.hash, i - 1>> : i \in 1..Len(tx.outputs)}

(* What the outputs of u with these keys are worth together.               *)
Amount(u, keys) == SumFunctionOnSet([k \in DOMAIN u |-> u[k].amount], keys)

(* GetUTXOs and GetBalance                                                 *)
GetUTXOs(a) == {k \in DOMAIN utxos : utxos[k].owner = a /\ ~utxos[k].spent}
GetBalance(a) == Amount(utxos, GetUTXOs(a))

(* Which outputs a payment takes: map order decides, until they suffice; so*)
(* the last one was needed, and a payment of nothing takes none.           *)
Suffices(S, need) ==
    /\ Amount(utxos, S) >= need
    /\ S = {} \/ \E k \in S : Amount(utxos, S \ {k}) < need

Transaction(p, S, outputs) ==
    [hash |-> PaymentHash(p), from |-> p.from, to |-> p.to, amount |-> p.amount,
     fee |-> p.fee, inputs |-> S, outputs |-> outputs]

Transactions_FeeNotPaid(p) ==
    LET Outputs(S) == <<[owner |-> p.to, amount |-> p.amount],
                        [owner |-> p.from, amount |-> Amount(utxos, S) - p.amount]>>
    IN  {Transaction(p, S, Outputs(S)) :
            S \in {T \in SUBSET GetUTXOs(p.from) : Suffices(T, p.amount)}}

Transactions_NoChange(p) ==
    {Transaction(p, S, <<[owner |-> p.to, amount |-> p.amount]>>) :
        S \in {T \in SUBSET GetUTXOs(p.from) : Suffices(T, p.amount + p.fee)}}

(* What CreateTransaction may return: what the outputs it takes exceed the *)
(* need by goes back to the sender.                                        *)
Transactions(p) ==
    LET need == p.amount + p.fee
        Outputs(S) ==
            LET change == Amount(utxos, S) - need
                paid   == [owner |-> p.to, amount |-> p.amount]
            IN  IF change > 0 THEN <<paid, [owner |-> p.from, amount |-> change]>>
                              ELSE <<paid>>
    IN  {Transaction(p, S, Outputs(S)) :
            S \in {T \in SUBSET GetUTXOs(p.from) : Suffices(T, need)}}

(* SpendUTXO of inputs: one that is not found is passed over.              *)
Spend(u, inputs) ==
    [k \in DOMAIN u |-> IF k \in inputs THEN [u[k] EXCEPT !.spent = TRUE] ELSE u[k]]

(* AddUTXO of the outputs of tx with these keys: what a key had is         *)
(* overwritten.                                                            *)
Create(u, tx, keys) ==
    [k \in DOMAIN u \cup keys |->
        IF k \in keys THEN [owner  |-> tx.outputs[k[2] + 1].owner,
                            amount |-> tx.outputs[k[2] + 1].amount,
                            spent  |-> FALSE]
                      ELSE u[k]]

(* processTransactionUTXOs of one transaction, and of a block's when no    *)
(* other call runs.                                                        *)
ProcessTx(u, tx) == Create(Spend(u, tx.inputs), tx, Keys(tx))
ProcessTxs(u, txs) == FoldLeft(ProcessTx, u, txs)

(* The UTXO set that loadChainFromStorage builds from a chain.             *)
Replay(chain) == FoldLeft(LAMBDA u, b : ProcessTxs(u, b.txs), <<>>, chain)

-----------------------------------------------------------------------------
(* The chain so far.                                                       *)

BestBlock == blocks[Len(blocks)]

GenesisBlock == [hash |-> 1, parent |-> 0, txs |-> <<>>]

(* Where the chain has transactions, by block and place in the block, and  *)
(* where it has those with hash h.                                         *)
Positions == UNION {{i} \X (1..Len(blocks[i].txs)) : i \in 1..Len(blocks)}
Tx(c) == blocks[c[1]].txs[c[2]]
Confirmations(h) == {c \in Positions : Tx(c).hash = h}

Init ==
    /\ blocks = <<GenesisBlock>>
    /\ utxos = <<>> /\ mempool = <<>>
    /\ adding = Unlocked
    /\ created = {} /\ pending = {}
    /\ mined = {} /\ nextHash = 2
    /\ requests = [p \in Payments |-> 0]
    /\ restarts = 0 /\ givenUp = FALSE

-----------------------------------------------------------------------------
(* sendTransaction.                                                        *)

(* handleSendTransaction up to CreateTransaction, which reads the UTXO set *)
(* once and fails when the balance does not suffice.  The server checks no *)
(* more than that: PaymentsRepeat is about wallets.                        *)
CreateTransaction(p) ==
    /\ ~PaymentsRepeat => requests[p] = 0
    /\ \E tx \in Transactions(p) : created' = created \cup {tx}
    /\ requests' = [requests EXCEPT ![p] = @ + 1]
    /\ UNCHANGED <<blocks, utxos, mempool, adding, mined, nextHash, pending, starts>>

(* AddTransaction, and the answer "pending".                               *)
AddTransaction(tx) ==
    /\ mempool' = [h \in DOMAIN mempool \cup {tx.hash} |->
                      IF h = tx.hash THEN tx ELSE mempool[h]]
    /\ created' = created \ {tx}
    /\ pending' = pending \cup {<<tx.hash, restarts>>}
    /\ UNCHANGED <<blocks, utxos, adding, mined, nextHash, requests, starts>>

-----------------------------------------------------------------------------
(* createBlockTemplate and mining.                                         *)

(* CreateNewBlockV2, and a miner that seals the template.  The parent was  *)
(* read earlier, under bc.mu: any block that was the best then.  The       *)
(* mempool is read now, in the order of its map.                           *)
CreateNewBlock(m, i) ==
    /\ nextHash <= MaxTemplates + 1
    /\ \E txs \in SetToSeqs({mempool[h] : h \in DOMAIN mempool}) :
          mined' = mined \cup {[hash |-> nextHash, parent |-> blocks[i].hash,
                                txs |-> <<RewardTx(m, nextHash)>> \o txs]}
    /\ nextHash' = nextHash + 1
    /\ UNCHANGED <<blocks, utxos, mempool, adding, calls, requests, starts>>

-----------------------------------------------------------------------------
(* submitBlock.                                                            *)

(* parseBlockData: the hash of an input is only read from a hex string. The*)
(* miner's AddBlock passes its []TxInput to the JSON encoder, which writes *)
(* a Hash as an array of numbers: it stays the zero hash.                  *)
ParseInputs(inputs, format) ==
    CASE format = "hex"   -> inputs
      [] format = "array" -> {<<ZeroHash, k[2]>> : k \in inputs}

ParseTxs(txs, format) ==
    [i \in 1..Len(txs) |-> [txs[i] EXCEPT !.inputs = ParseInputs(@, format)]]

(* handleSubmitBlockV2 up to validateBlockV2, which takes bc.mu.  Templates*)
(* number their block by their parent, so the parent decides.              *)
SubmitBlock(b, format) ==
    /\ adding = Unlocked
    /\ b.parent = BestBlock.hash
    /\ LET block == [b EXCEPT !.txs = ParseTxs(@, format)]
       IN  adding' = [block |-> block, next |-> 1, spent |-> {}, made |-> 0]
    /\ UNCHANGED <<blocks, utxos, mempool, calls, mined, nextHash, requests, starts>>

(* The transaction at which addBlockV2 is, if any is left.                 *)
IsAtTx == adding # Unlocked /\ adding.next <= Len(adding.block.txs)
TxAt == adding.block.txs[adding.next]

(* processTransactionUTXOs: the inputs one by one, each under the lock of  *)
(* the UTXO set,                                                           *)
SpendInput(k) ==
    /\ IsAtTx /\ k \in TxAt.inputs \ adding.spent
    /\ utxos' = Spend(utxos, {k})
    /\ adding' = [adding EXCEPT !.spent = @ \cup {k}]
    /\ UNCHANGED <<blocks, mempool, calls, mined, nextHash, requests, starts>>

(* and then the outputs.                                                   *)
CreateOutput ==
    /\ IsAtTx /\ adding.spent = TxAt.inputs /\ adding.made < Len(TxAt.outputs)
    /\ utxos' = Create(utxos, TxAt, {<<TxAt.hash, adding.made>>})
    /\ adding' = [adding EXCEPT !.made = @ + 1]
    /\ UNCHANGED <<blocks, mempool, calls, mined, nextHash, requests, starts>>

(* The inputs and outputs of the transaction are done with.                *)
NextTx ==
    /\ IsAtTx /\ adding.spent = TxAt.inputs /\ adding.made = Len(TxAt.outputs)
    /\ adding' = [adding EXCEPT !.next = @ + 1, !.spent = {}, !.made = 0]
    /\ UNCHANGED <<blocks, utxos, calls, mined, nextHash, requests, starts>>

RemoveTransaction_Keeps == NextTx /\ UNCHANGED mempool
RemoveTransaction_Clears == NextTx /\ mempool' = <<>>

(* What is in the block is no longer pending.                              *)
RemoveTransaction ==
    /\ NextTx
    /\ mempool' = [h \in DOMAIN mempool \ {TxAt.hash} |-> mempool[h]]

(* The rest of addBlockV2 under bc.mu.                                     *)
AppendBlock ==
    /\ adding # Unlocked /\ adding.next > Len(adding.block.txs)
    /\ blocks' = Append(blocks, adding.block)
    /\ adding' = Unlocked
    /\ UNCHANGED <<utxos, mempool, calls, mined, nextHash, requests, starts>>

-----------------------------------------------------------------------------
(* The node is restarted: what was only in memory is gone, the mempool and *)
(* the calls with it.  After a load that was given up it is not restarted  *)
(* again (bound: what the store has then is in ChainStore).                *)
Dies ==
    /\ restarts < MaxRestarts /\ ~givenUp
    /\ restarts' = restarts + 1
    /\ mempool' = <<>> /\ adding' = Unlocked /\ created' = {}
    /\ UNCHANGED <<mined, nextHash, requests, pending>>

Restart_NoUtxos(n) ==
    /\ Dies /\ n >= Len(blocks) - MaxForgotten
    /\ blocks' = SubSeq(blocks, 1, n)
    /\ utxos' = <<>>
    /\ UNCHANGED givenUp

(* loadChainFromStorage loads the first n blocks, all up to its best block.*)
Restart(n) ==
    /\ Dies /\ n >= Len(blocks) - MaxForgotten
    /\ blocks' = SubSeq(blocks, 1, n)
    /\ utxos' = Replay(SubSeq(blocks, 1, n))
    /\ UNCHANGED givenUp

(* Or it finds the first n and not the next, though the best block comes   *)
(* later: it empties the chain, which starts again with the genesis block, *)
(* but not the UTXO set.                                                   *)
RestartGivenUp(n) ==
    /\ Dies /\ n <= Len(blocks) - 2
    /\ blocks' = <<GenesisBlock>>
    /\ utxos' = Replay(SubSeq(blocks, 1, n))
    /\ givenUp' = TRUE

Next ==
    \/ \E p \in Payments : CreateTransaction(p)
    \/ \E tx \in created : AddTransaction(tx)
    \/ \E m \in Miners, i \in 1..Len(blocks) : CreateNewBlock(m, i)
    \/ \E b \in mined, format \in InputFormats : SubmitBlock(b, format)
    \/ IsAtTx /\ \E k \in TxAt.inputs : SpendInput(k)
    \/ CreateOutput
    \/ RemoveTransaction
    \/ AppendBlock
    \/ \E n \in 1..Len(blocks) : Restart(n)
    \/ \E n \in 1..Len(blocks) : RestartGivenUp(n)

Spec == Init /\ [][Next]_vars

-----------------------------------------------------------------------------
(* Properties.                                                             *)

TxTypeOK(tx) ==
    /\ tx.from \in Accounts \cup {NoAccount} /\ tx.to \in Accounts
    /\ tx.amount \in Nat /\ tx.fee \in Nat
    /\ IsFiniteSet(tx.inputs)
    /\ Len(tx.outputs) \in {1, 2}
    /\ \A i \in 1..Len(tx.outputs) : tx.outputs[i] \in [owner : Accounts, amount : Nat]
    /\ Len(tx.outputs) = 2 => tx.outputs[2].amount # 0

(* Transactions, outputs, keys and counters have their types: no amount is *)
(* negative, no change worth nothing, a mempool entry has its transaction's*)
(* hash, and an addition is within its block.                              *)
TypeOK ==
    /\ \A c \in Positions : TxTypeOK(Tx(c))
    /\ \A k \in DOMAIN utxos :
          utxos[k] \in [owner : Accounts, amount : Nat, spent : BOOLEAN]
    /\ \A h \in DOMAIN mempool : TxTypeOK(mempool[h]) /\ mempool[h].hash = h
    /\ adding # Unlocked =>
          /\ adding.next \in 1..(Len(adding.block.txs) + 1)
          /\ IsAtTx => /\ TxTypeOK(TxAt)
                       /\ adding.spent \subseteq TxAt.inputs
                       /\ adding.made \in 0..Len(TxAt.outputs)
    /\ \A tx \in created : TxTypeOK(tx)
    /\ nextHash \in Nat /\ restarts \in 0..MaxRestarts /\ givenUp \in BOOLEAN
    /\ requests \in [Payments -> Nat]

(* What account a has after the chain in a ledger of accounts: each reward *)
(* and payment received once, each payment and fee sent paid once.         *)
AccountBalance(a) ==
    SumFunctionOnSet([c \in Positions |-> Tx(c).amount], {c \in Positions : Tx(c).to = a})
    - SumFunctionOnSet([c \in Positions |-> Tx(c).amount + Tx(c).fee],
                       {c \in Positions : Tx(c).from = a})

(* What payments name as inputs are outputs of transactions further down in*)
(* the chain, and no two payments take the same.  Nobody checks this when a*)
(* block is added: it is up to wallets and submitters, and after a restart *)
(* to templates that were made for a chain it forgot.                      *)
Precedes(c, d) == c[1] < d[1] \/ (c[1] = d[1] /\ c[2] < d[2])
InputsInOrder ==
    \A c \in Positions :
        /\ \A k \in Tx(c).inputs : \E d \in Positions : Precedes(d, c) /\ k \in Keys(Tx(d))
        /\ \A d \in Positions : d # c => Tx(c).inputs \cap Tx(d).inputs = {}

(* While no block is being added, and if the chain's inputs are in order,  *)
(* the balance that getBalance computes from outputs is the one of a ledger*)
(* of accounts, fees and change included.                                  *)
BalancesAreAccounts ==
    adding = Unlocked /\ ~givenUp /\ InputsInOrder =>
        \A a \in Accounts : GetBalance(a) = AccountBalance(a)

(* In order or not, no balance is below that of a ledger of accounts:      *)
(* nobody loses an output, whatever wallets, submitters, old templates and *)
(* restarts do.                                                            *)
BalancesCoverAccounts ==
    adding = Unlocked /\ ~givenUp =>
        \A a \in Accounts : GetBalance(a) >= AccountBalance(a)

(* A restart that forgets no block leaves the UTXO set as it was: what it  *)
(* replays is what additions, one access at a time and among other calls,  *)
(* rejected blocks and earlier restarts have made of it.                   *)
RestartKeepsUtxos ==
    [][restarts' # restarts /\ ~givenUp' /\ adding = Unlocked /\ blocks' = blocks
          => utxos' = utxos]_vars

(* No payment is in the chain more often than it was asked for, though it  *)
(* is in every template made while it is in the mempool, and miners submit *)
(* templates when and as often as they like.                               *)
ConfirmedAsOftenAsAsked ==
    \A p \in Payments : Cardinality(Confirmations(PaymentHash(p))) <= requests[p]

(* Hash h is in the mempool, in the chain, or in the block being added.    *)
IsKnown(h) ==
    \/ h \in DOMAIN mempool
    \/ Confirmations(h) # {}
    \/ adding # Unlocked /\ \E i \in 1..Len(adding.block.txs) : adding.block.txs[i].hash = h

(* A payment answered with "pending" is not lost while the node runs: blocks*)
(* that are rejected and blocks without it do not remove it.               *)
PendingIsNotLost == \A h \in {x[1] : x \in {y \in pending : y[2] = restarts}} : IsKnown(h)

(* Nor is it lost by a restart ("LevelDB speichert alles dauerhaft",       *)
(* docs/NETWORK_ARCHITECTURE.md:299).                                      *)
PendingSurvives == \A x \in pending : IsKnown(x[1])

(* While no block is being added, and before any restart, what a payment of*)
(* the chain names as its inputs are outputs of the chain, and they are    *)
(* spent ("Mark input UTXOs as spent", core/blockchain.go:275).            *)
InputsAreSpent ==
    adding = Unlocked /\ restarts = 0 =>
        \A c \in Positions : \A k \in Tx(c).inputs : k \in DOMAIN utxos /\ utxos[k].spent

(* Between restarts an output keeps its owner and amount for good, and is  *)
(* never unspent again once it was spent: a new output has a key of its own*)
(* ("creates a unique key for a UTXO", core/utxo.go:99).                   *)
OutputsAreKept ==
    [][restarts' = restarts /\ ~givenUp =>
          \A k \in DOMAIN utxos :
              /\ k \in DOMAIN utxos'
              /\ utxos'[k].owner = utxos[k].owner /\ utxos'[k].amount = utxos[k].amount
              /\ utxos[k].spent => utxos'[k].spent]_vars
=============================================================================

--------------------------- MODULE Ledger_proofs ---------------------------
(***************************************************************************)
(* Proofs about module Ledger, for any accounts, payments, rewards, miners *)
(* and restarts.                                                           *)
(*                                                                         *)
(* ShapeInv says what templates, blocks and calls consist of, TypesInv what*)
(* they hold.  UtxosInv says of the UTXO set between any two steps of an   *)
(* addBlockV2 what it is, by the chain and the part of the block that was  *)
(* gone through.  PendingKept says where what was answered with "pending"  *)
(* is.  UniqueInv says where the hash of a payment can be, so that no block*)
(* has one that an ancestor has.  OutInv says that there is a set of all   *)
(* outputs ever made, which never change, and that no transaction takes    *)
(* from it more than it pays.                                              *)
(*                                                                         *)
(* The UTXO set and the balances are folds and sums.  FoldFacts has them   *)
(* as steps; what follows from the steps is proved by induction on sets of *)
(* numbers.                                                                *)
(***************************************************************************)
EXTENDS Ledger, TLAPS, SequenceTheorems, FiniteSetTheorems

-----------------------------------------------------------------------------
(* Sequences whose elements have no set to be taken from.                  *)

IsSeq(s) == s \in Seq(Range(s))

LEMMA SeqIsSeq ==
    ASSUME NEW S, NEW s \in Seq(S)
    PROVE  IsSeq(s)
<1>1. s \in [1..Len(s) -> S] /\ Len(s) \in Nat /\ DOMAIN s = 1..Len(s)
  BY LenProperties
<1>2. s \in [1..Len(s) -> Range(s)]
  BY <1>1 DEF Range
<1> QED BY <1>1, <1>2 DEF IsSeq

LEMMA IsSeqProperties ==
    ASSUME NEW s, IsSeq(s)
    PROVE  /\ Len(s) \in Nat /\ DOMAIN s = 1..Len(s)
           /\ s = [i \in 1..Len(s) |-> s[i]]
           /\ Len(s) = 0 <=> s = <<>>
<1>1. s \in Seq(Range(s))
  BY DEF IsSeq
<1>2. Len(s) \in Nat /\ s \in [1..Len(s) -> Range(s)] /\ DOMAIN s = 1..Len(s)
  BY <1>1, LenProperties
<1>3. Len(s) = 0 <=> s = <<>>
  BY <1>1
<1> QED BY <1>2, <1>3

LEMMA TailProperties ==
    ASSUME NEW s, IsSeq(s), s # <<>>
    PROVE  /\ IsSeq(Tail(s)) /\ Len(s) \in Nat \ {0} /\ Len(Tail(s)) = Len(s) - 1
           /\ Head(s) = s[1]
           /\ \A i \in 1..(Len(s) - 1) : Tail(s)[i] = s[i + 1]
<1>1. s \in Seq(Range(s))
  BY DEF IsSeq
<1>2. Tail(s) \in Seq(Range(s)) /\ Len(Tail(s)) = Len(s) - 1
      /\ \A i \in 1..Len(Tail(s)) : Tail(s)[i] = s[i + 1]
  BY <1>1, HeadTailProperties
<1>3. IsSeq(Tail(s))
  BY <1>2, SeqIsSeq
<1>4. Len(s) \in Nat \ {0} /\ Head(s) = s[1]
  BY <1>1, EmptySeq
<1> QED BY <1>2, <1>3, <1>4

LEMMA AppendIsSeq ==
    ASSUME NEW s, IsSeq(s), NEW e
    PROVE  /\ IsSeq(Append(s, e)) /\ Len(Append(s, e)) = Len(s) + 1
           /\ \A i \in 1..Len(s) : Append(s, e)[i] = s[i]
           /\ Append(s, e)[Len(s) + 1] = e
<1> DEFINE S == Range(s) \cup {e}
<1>1. s \in Seq(S)
  BY SeqMonotonic DEF IsSeq
<1> HIDE DEF S
<1>2. e \in S
  BY DEF S
<1>3. Append(s, e) \in Seq(S)
  BY <1>1, <1>2
<1>4. IsSeq(Append(s, e))
  BY <1>3, SeqIsSeq
<1> QED BY <1>1, <1>2, <1>4

LEMMA PrefixIsSeq ==
    ASSUME NEW s, IsSeq(s), NEW n \in 0..Len(s)
    PROVE  /\ IsSeq(SubSeq(s, 1, n)) /\ Len(SubSeq(s, 1, n)) = n
           /\ \A i \in 1..n : SubSeq(s, 1, n)[i] = s[i]
<1>1. s \in Seq(Range(s)) /\ Len(s) \in Nat
  BY IsSeqProperties DEF IsSeq
<1>2. n \in Int /\ 1 \in Int /\ \A i \in 1..n : s[i] \in Range(s)
  BY <1>1, ElementOfSeq
<1>3. /\ SubSeq(s, 1, n) \in Seq(Range(s))
      /\ Len(SubSeq(s, 1, n)) = IF 1 <= n THEN n - 1 + 1 ELSE 0
      /\ \A i \in 1..(n - 1 + 1) : SubSeq(s, 1, n)[i] = s[1 + i - 1]
  BY <1>2, SubSeqProperties
<1>4. IsSeq(SubSeq(s, 1, n))
  BY <1>3, SeqIsSeq
<1>5. \A i \in 1..n : i \in 1..(n - 1 + 1) /\ 1 + i - 1 = i
  BY <1>1
<1> QED BY <1>1, <1>3, <1>4, <1>5

-----------------------------------------------------------------------------
(* Transactions and blocks.                                                *)

IsTx(tx) ==
    tx = [hash |-> tx.hash, from |-> tx.from, to |-> tx.to, amount |-> tx.amount,
          fee |-> tx.fee, inputs |-> tx.inputs, outputs |-> tx.outputs]

IsBlock(b) ==
    /\ b = [hash |-> b.hash, parent |-> b.parent, txs |-> b.txs]
    /\ IsSeq(b.txs)
    /\ \A j \in 1..Len(b.txs) : IsTx(b.txs[j])

PaymentHashes == {PaymentHash(p) : p \in Payments}
HashesOf(b) == {b.txs[j].hash : j \in 1..Len(b.txs)}

(* A template: no two of its transactions have the same hash, and its      *)
(* reward is its own.                                                      *)
IsTemplate(t) ==
    /\ IsBlock(t)
    /\ t.hash \in 2..(nextHash - 1) /\ t.parent \in 1..(t.hash - 1)
    /\ \A i, j \in 1..Len(t.txs) : t.txs[i].hash = t.txs[j].hash => i = j
    /\ \A h \in HashesOf(t) : h \in PaymentHashes \/ \E m \in Miners : h = <<NoAccount, m, t.hash>>

(* The block b that submitBlock reads was the template t: only what it     *)
(* names as inputs may differ, and then it is no key.                      *)
SameTx(x, y) ==
    /\ x.from = y.from /\ x.to = y.to /\ x.amount = y.amount /\ x.fee = y.fee
    /\ x.outputs = y.outputs
    /\ \A k \in x.inputs : k \in y.inputs \/ k[1] = ZeroHash

ReadFrom(b, t) ==
    /\ IsBlock(b) /\ b.hash = t.hash /\ b.parent = t.parent
    /\ Len(b.txs) = Len(t.txs)
    /\ \A j \in 1..Len(t.txs) : b.txs[j].hash = t.txs[j].hash /\ SameTx(b.txs[j], t.txs[j])

BlocksOK ==
    /\ IsSeq(blocks) /\ Len(blocks) >= 1 /\ blocks[1] = GenesisBlock
    /\ \A i \in 2..Len(blocks) : \E t \in mined : ReadFrom(blocks[i], t)

AddingOK ==
    adding # Unlocked =>
        /\ adding = [block |-> adding.block, next |-> adding.next,
                     spent |-> adding.spent, made |-> adding.made]
        /\ \E t \in mined : ReadFrom(adding.block, t)
        /\ adding.block.parent = BestBlock.hash
        /\ adding.next \in 1..(Len(adding.block.txs) + 1) /\ adding.made \in Nat
        /\ ~IsAtTx => adding.spent = {} /\ adding.made = 0
        /\ IsAtTx => /\ adding.spent \subseteq TxAt.inputs
                     /\ adding.made # 0 => adding.spent = TxAt.inputs

MempoolOK ==
    /\ mempool = [h \in DOMAIN mempool |-> mempool[h]]
    /\ IsFiniteSet(DOMAIN mempool)
    /\ \A h \in DOMAIN mempool :
          h \in PaymentHashes /\ IsTx(mempool[h]) /\ mempool[h].hash = h

MinedOK ==
    /\ nextHash \in Nat \ {0, 1}
    /\ \A t \in mined : IsTemplate(t)
    /\ \A t, u \in mined : t.hash = u.hash => t = u

CallsOK ==
    /\ requests \in [Payments -> Nat]
    /\ \A tx \in created : IsTx(tx) /\ tx.hash \in PaymentHashes

ShapeInv == BlocksOK /\ AddingOK /\ MempoolOK /\ MinedOK /\ CallsOK

-----------------------------------------------------------------------------
LEMMA TransactionShape ==
    ASSUME NEW p \in Payments, NEW tx \in Transactions(p)
    PROVE  IsTx(tx) /\ tx.hash = PaymentHash(p) /\ tx.inputs \subseteq DOMAIN utxos
<1>1. PICK S \in SUBSET GetUTXOs(p.from) : \E outputs : tx = Transaction(p, S, outputs)
  BY DEF Transactions
<1>2. S \subseteq DOMAIN utxos
  BY DEF GetUTXOs
<1> QED BY <1>1, <1>2 DEF IsTx, Transaction

LEMMA RewardShape ==
    ASSUME NEW m \in Miners, NEW n \in Nat
    PROVE  IsTx(RewardTx(m, n)) /\ RewardTx(m, n).hash = <<NoAccount, m, n>>
BY DEF RewardTx, IsTx

(* A reward is never taken for a payment, nor for that of another template.*)
LEMMA RewardHashes ==
    ASSUME NEW m \in Miners, NEW n \in Nat
    PROVE  /\ <<NoAccount, m, n>> \notin PaymentHashes
           /\ \A k \in Nat, l \in Miners : <<NoAccount, m, n>> = <<NoAccount, l, k>> => k = n
<1>1. \A p \in Payments : PaymentHash(p)[1] \in Accounts
  BY LedgerAssumption DEF PaymentHash
<1>2. <<NoAccount, m, n>>[1] \notin Accounts
  BY LedgerAssumption
<1> QED BY <1>1, <1>2 DEF PaymentHashes

LEMMA PaymentHashInjective ==
    ASSUME NEW p \in Payments, NEW q \in Payments, PaymentHash(p) = PaymentHash(q)
    PROVE  p = q
<1>1. /\ p \in [from : Accounts, to : Accounts, amount : Nat, fee : Nat]
      /\ q \in [from : Accounts, to : Accounts, amount : Nat, fee : Nat]
  BY LedgerAssumption
<1>2. p.from = q.from /\ p.to = q.to /\ p.amount = q.amount /\ p.fee = q.fee
  BY DEF PaymentHash
<1> QED BY <1>1, <1>2

(* What submitBlock reads from a template.                                 *)
LEMMA ReadBlock ==
    ASSUME NEW t \in mined, IsBlock(t), NEW format \in InputFormats,
           NEW b, b = [t EXCEPT !.txs = ParseTxs(@, format)]
    PROVE  ReadFrom(b, t)
<1>1. b = [hash |-> t.hash, parent |-> t.parent, txs |-> ParseTxs(t.txs, format)]
  BY DEF IsBlock
<1>2. Len(t.txs) \in Nat
  BY IsSeqProperties DEF IsBlock
<1>3. b.txs = [i \in 1..Len(t.txs) |-> [t.txs[i] EXCEPT !.inputs = ParseInputs(@, format)]]
  BY <1>1 DEF ParseTxs
<1>4. Len(b.txs) = Len(t.txs) /\ IsSeq(b.txs)
  <2>1. b.txs \in [1..Len(t.txs) -> Range(b.txs)]
    BY <1>3 DEF Range
  <2>2. b.txs \in Seq(Range(b.txs))
    BY <2>1, <1>2
  <2> QED BY <2>1, <2>2, <1>2 DEF IsSeq
<1>5. ASSUME NEW j \in 1..Len(t.txs)
      PROVE  /\ IsTx(b.txs[j]) /\ b.txs[j].hash = t.txs[j].hash
             /\ SameTx(b.txs[j], t.txs[j])
  <2> DEFINE tx == t.txs[j]
  <2>1. b.txs[j] = [tx EXCEPT !.inputs = ParseInputs(@, format)] /\ IsTx(tx)
    BY <1>3 DEF IsBlock
  <2> HIDE DEF tx
  <2>2. b.txs[j] = [hash |-> tx.hash, from |-> tx.from, to |-> tx.to, amount |-> tx.amount,
                    fee |-> tx.fee, inputs |-> ParseInputs(tx.inputs, format),
                    outputs |-> tx.outputs]
    BY <2>1 DEF IsTx
  <2>3. \A k \in ParseInputs(tx.inputs, format) : k \in tx.inputs \/ k[1] = ZeroHash
    <3>1. format = "hex" \/ format = "array"
      BY LedgerAssumption
    <3> QED BY <3>1 DEF ParseInputs
  <2>4. IsTx(b.txs[j]) /\ b.txs[j].hash = tx.hash
    BY <2>2 DEF IsTx
  <2>5. SameTx(b.txs[j], tx)
    BY <2>2, <2>3 DEF SameTx
  <2> QED BY <2>4, <2>5 DEF tx
<1> QED BY <1>1, <1>4, <1>5 DEF ReadFrom, IsBlock

LEMMA ReadSameHashes ==
    ASSUME NEW b, NEW t, ReadFrom(b, t)
    PROVE  HashesOf(b) = HashesOf(t)
BY DEF ReadFrom, HashesOf

LEMMA ChainHashes ==
    ASSUME BlocksOK, MinedOK, NEW i \in 1..Len(blocks)
    PROVE  blocks[i].hash \in 1..(nextHash - 1) /\ IsBlock(blocks[i])
<1>1. CASE i = 1
  <2>1. IsBlock(GenesisBlock) /\ GenesisBlock.hash = 1
    <3>1. IsSeq(<<>>) /\ Len(<<>>) = 0
      BY SeqIsSeq, EmptySeq
    <3> QED BY <3>1 DEF GenesisBlock, IsBlock
  <2> QED BY <1>1, <2>1 DEF BlocksOK, MinedOK
<1>2. CASE i # 1
  <2>1. i \in 2..Len(blocks)
    BY <1>2, IsSeqProperties DEF BlocksOK
  <2>2. PICK t \in mined : ReadFrom(blocks[i], t)
    BY <2>1 DEF BlocksOK
  <2>3. t.hash \in 2..(nextHash - 1) /\ nextHash \in Nat
    BY DEF MinedOK, IsTemplate
  <2> QED BY <2>2, <2>3 DEF ReadFrom
<1> QED BY <1>1, <1>2

(* The template that CreateNewBlock makes: its reward and the mempool.     *)
MadeOf(t, m, i) ==
    \E txs \in SetToSeqs({mempool[h] : h \in DOMAIN mempool}) :
        t = [hash |-> nextHash, parent |-> blocks[i].hash,
             txs |-> <<RewardTx(m, nextHash)>> \o txs]

LEMMA NewTemplate ==
    ASSUME MempoolOK, MinedOK, BlocksOK, NEW m \in Miners, NEW i \in 1..Len(blocks),
           NEW t, MadeOf(t, m, i)
    PROVE  /\ IsBlock(t) /\ t.hash = nextHash /\ t.parent = blocks[i].hash
           /\ \A j, k \in 1..Len(t.txs) : t.txs[j].hash = t.txs[k].hash => j = k
           /\ \A j \in 1..Len(t.txs) :
                 \/ t.txs[j] = RewardTx(m, nextHash)
                 \/ \E h \in DOMAIN mempool : t.txs[j] = mempool[h]
<1> DEFINE pool == {mempool[h] : h \in DOMAIN mempool}
           reward == RewardTx(m, nextHash)
<1>0. PICK txs \in SetToSeqs(pool) :
           t = [hash |-> nextHash, parent |-> blocks[i].hash,
                txs |-> <<reward>> \o txs]
  BY DEF MadeOf
<1>1. nextHash \in Nat
  BY DEF MinedOK
<1>2. IsFiniteSet(pool)
  <2>1. mempool \in Surjection(DOMAIN mempool, pool)
    BY DEF MempoolOK, Surjection
  <2> QED BY <2>1, FS_Surjection DEF MempoolOK
<1> DEFINE size == Cardinality(pool)
<1>3. size \in Nat
  BY <1>2, FS_CardinalityType
<1>4. txs \in [1..size -> pool] /\ \A j, k \in 1..size : j # k => txs[j] # txs[k]
  BY DEF SetToSeqs
<1> HIDE DEF size
<1>5. txs \in Seq(pool) /\ Len(txs) = size
  BY <1>3, <1>4
<1>6. IsTx(reward) /\ reward.hash = <<NoAccount, m, nextHash>> /\ reward.hash \notin PaymentHashes
  <2>1. IsTx(reward) /\ reward.hash = <<NoAccount, m, nextHash>>
    BY <1>1, RewardShape
  <2>2. <<NoAccount, m, nextHash>> \notin PaymentHashes
    BY <1>1, RewardHashes
  <2> QED BY <2>1, <2>2
<1> HIDE DEF reward
<1>7. \A tx \in pool : IsTx(tx) /\ tx.hash \in PaymentHashes
  BY DEF MempoolOK
<1>8. \A x, y \in pool : x.hash = y.hash => x = y
  BY DEF MempoolOK
<1>9. \A tx \in pool : \E h \in DOMAIN mempool : tx = mempool[h]
  OBVIOUS
<1> HIDE DEF pool
<1> DEFINE all == <<reward>> \o txs
<1>10. /\ all \in Seq(pool \cup {reward}) /\ Len(all) = 1 + Len(txs)
       /\ \A j \in 1..(1 + Len(txs)) : all[j] = IF j <= 1 THEN <<reward>>[j] ELSE txs[j - 1]
  <2>1. <<reward>> \in Seq(pool \cup {reward}) /\ Len(<<reward>>) = 1
    OBVIOUS
  <2>2. txs \in Seq(pool \cup {reward})
    BY <1>5, SeqMonotonic
  <2> HIDE DEF all
  <2> QED BY <2>1, <2>2, ConcatProperties DEF all
<1>11. \A j \in 1..Len(all) : all[j] = IF j = 1 THEN reward ELSE txs[j - 1]
  BY <1>10, <1>5, <1>3
<1>12. \A j \in 1..Len(all) : j # 1 => j - 1 \in 1..size
  BY <1>10, <1>5, <1>3
<1>13. \A j \in 1..Len(all) : j # 1 => all[j] \in pool
  BY <1>11, <1>12, <1>4
<1>14. IsSeq(all)
  BY <1>10, SeqIsSeq
<1>15. t.txs = all /\ t.hash = nextHash /\ t.parent = blocks[i].hash
  BY <1>0
<1> HIDE DEF all
<1>16. IsBlock(t)
  <2>1. t = [hash |-> t.hash, parent |-> t.parent, txs |-> t.txs]
    BY <1>0
  <2>2. \A j \in 1..Len(all) : IsTx(all[j])
    BY <1>13, <1>11, <1>7, <1>6
  <2> QED BY <2>1, <2>2, <1>14, <1>15 DEF IsBlock
<1>17. ASSUME NEW j \in 1..Len(all), NEW k \in 1..Len(all), all[j].hash = all[k].hash
       PROVE  j = k
  <2>1. CASE j = 1 /\ k = 1
    BY <2>1
  <2>2. CASE j = 1 /\ k # 1
    BY <2>2, <1>17, <1>13, <1>11, <1>7, <1>6
  <2>3. CASE j # 1 /\ k = 1
    BY <2>3, <1>17, <1>13, <1>11, <1>7, <1>6
  <2>4. CASE j # 1 /\ k # 1
    <3>1. all[j] = all[k]
      BY <2>4, <1>17, <1>13, <1>8
    <3>2. txs[j - 1] = txs[k - 1] /\ j - 1 \in 1..size /\ k - 1 \in 1..size
      BY <3>1, <2>4, <1>11, <1>12
    <3>3. j - 1 = k - 1
      BY <3>2, <1>4
    <3> QED BY <3>3
  <2> QED BY <2>1, <2>2, <2>3, <2>4
<1>18. \A j \in 1..Len(all) : all[j] = reward \/ \E h \in DOMAIN mempool : all[j] = mempool[h]
  BY <1>13, <1>11, <1>9
<1> QED BY <1>15, <1>16, <1>17, <1>18 DEF reward

LEMMA NewTemplateOK ==
    ASSUME MempoolOK, MinedOK, BlocksOK, NEW m \in Miners, NEW i \in 1..Len(blocks),
           nextHash' = nextHash + 1,
           NEW t, MadeOf(t, m, i)
    PROVE  /\ IsTemplate(t)'
           /\ HashesOf(t) \subseteq DOMAIN mempool \cup {<<NoAccount, m, nextHash>>}
<1>1. nextHash \in Nat \ {0, 1}
  BY DEF MinedOK
<1>2. /\ IsBlock(t) /\ t.hash = nextHash /\ t.parent = blocks[i].hash
      /\ \A j, k \in 1..Len(t.txs) : t.txs[j].hash = t.txs[k].hash => j = k
      /\ \A j \in 1..Len(t.txs) :
            \/ t.txs[j] = RewardTx(m, nextHash)
            \/ \E h \in DOMAIN mempool : t.txs[j] = mempool[h]
  BY NewTemplate
<1>3. \A h \in HashesOf(t) : h \in DOMAIN mempool \/ h = <<NoAccount, m, nextHash>>
  <2>1. RewardTx(m, nextHash).hash = <<NoAccount, m, nextHash>>
    BY <1>1, RewardShape
  <2>2. \A h \in DOMAIN mempool : mempool[h].hash = h
    BY DEF MempoolOK
  <2>3. ASSUME NEW j \in 1..Len(t.txs)
        PROVE  t.txs[j].hash \in DOMAIN mempool \/ t.txs[j].hash = <<NoAccount, m, nextHash>>
    <3>1. CASE t.txs[j] = RewardTx(m, nextHash)
      BY <3>1, <2>1
    <3>2. CASE \E h \in DOMAIN mempool : t.txs[j] = mempool[h]
      BY <3>2, <2>2
    <3> QED BY <1>2, <3>1, <3>2
  <2> QED BY <2>3 DEF HashesOf
<1>4. \A h \in DOMAIN mempool : h \in PaymentHashes
  BY DEF MempoolOK
<1>5. t.hash \in 2..nextHash /\ t.parent \in 1..(t.hash - 1)
  BY <1>1, <1>2, ChainHashes
<1>6. nextHash' - 1 = nextHash
  BY <1>1
<1> QED BY <1>1, <1>2, <1>3, <1>4, <1>5, <1>6 DEF IsTemplate

-----------------------------------------------------------------------------
(* Blocks, templates, mempool and calls keep their shape.                  *)

LEMMA ShapeInit == Init => ShapeInv
<1> SUFFICES ASSUME Init PROVE ShapeInv
  OBVIOUS
<1>1. IsSeq(<<GenesisBlock>>) /\ Len(<<GenesisBlock>>) = 1
  <2>1. <<GenesisBlock>> \in Seq({GenesisBlock})
    OBVIOUS
  <2> QED BY <2>1, SeqIsSeq
<1>2. BlocksOK
  BY <1>1 DEF Init, BlocksOK
<1>3. MempoolOK
  <2>1. DOMAIN mempool = {} /\ mempool = [h \in DOMAIN mempool |-> mempool[h]]
    BY DEF Init
  <2> QED BY <2>1, FS_EmptySet DEF MempoolOK
<1> QED BY <1>2, <1>3 DEF Init, ShapeInv, AddingOK, MinedOK, CallsOK

LEMMA TemplateStays ==
    ASSUME NEW t, IsTemplate(t), nextHash \in Nat, nextHash' \in Nat, nextHash' >= nextHash
    PROVE  IsTemplate(t)'
BY DEF IsTemplate

(* Steps that leave chain, templates and bc.mu alone.                      *)
LEMMA ShapeKept ==
    ASSUME ShapeInv, UNCHANGED <<blocks, adding, mined, nextHash>>
    PROVE  BlocksOK' /\ AddingOK' /\ MinedOK'
<1>1. \A t \in mined : IsTemplate(t)'
  BY DEF ShapeInv, MinedOK, IsTemplate
<1> QED BY <1>1 DEF ShapeInv, BlocksOK, AddingOK, MinedOK, BestBlock, IsAtTx, TxAt

LEMMA ShapeCreateTransaction ==
    ASSUME ShapeInv, NEW p \in Payments, CreateTransaction(p)
    PROVE  ShapeInv'
<1>1. BlocksOK' /\ AddingOK' /\ MinedOK'
  BY ShapeKept DEF CreateTransaction
<1>2. MempoolOK'
  BY DEF CreateTransaction, ShapeInv, MempoolOK
<1>3. CallsOK'
  <2>1. PICK tx \in Transactions(p) : created' = created \cup {tx}
    BY DEF CreateTransaction
  <2>2. IsTx(tx) /\ tx.hash \in PaymentHashes
    BY TransactionShape DEF PaymentHashes
  <2>3. requests' \in [Payments -> Nat]
    BY DEF CreateTransaction, ShapeInv, CallsOK
  <2> QED BY <2>1, <2>2, <2>3 DEF ShapeInv, CallsOK
<1> QED BY <1>1, <1>2, <1>3 DEF ShapeInv

LEMMA ShapeAddTransaction ==
    ASSUME ShapeInv, NEW tx \in created, AddTransaction(tx)
    PROVE  ShapeInv'
<1>1. BlocksOK' /\ AddingOK' /\ MinedOK'
  BY ShapeKept DEF AddTransaction
<1>2. MempoolOK'
  <2>1. mempool' = [h \in DOMAIN mempool \cup {tx.hash} |->
                       IF h = tx.hash THEN tx ELSE mempool[h]]
    BY DEF AddTransaction
  <2>2. IsFiniteSet(DOMAIN mempool \cup {tx.hash})
    BY FS_AddElement DEF ShapeInv, MempoolOK
  <2> QED BY <2>1, <2>2 DEF ShapeInv, MempoolOK, CallsOK
<1>3. CallsOK'
  BY DEF AddTransaction, ShapeInv, CallsOK
<1> QED BY <1>1, <1>2, <1>3 DEF ShapeInv

LEMMA ShapeCreateNewBlock ==
    ASSUME ShapeInv, NEW m \in Miners, NEW i \in 1..Len(blocks), CreateNewBlock(m, i)
    PROVE  /\ ShapeInv'
           /\ \E t : /\ MadeOf(t, m, i) /\ mined' = mined \cup {t}
                     /\ HashesOf(t) \subseteq DOMAIN mempool \cup {<<NoAccount, m, nextHash>>}
                     /\ t.hash = nextHash /\ t.parent = blocks[i].hash
<1>1. PICK t : MadeOf(t, m, i) /\ mined' = mined \cup {t}
  BY DEF CreateNewBlock, MadeOf
<1>2. nextHash' = nextHash + 1 /\ nextHash \in Nat \ {0, 1}
  BY DEF CreateNewBlock, ShapeInv, MinedOK
<1>3. /\ IsTemplate(t)' /\ t.hash = nextHash /\ t.parent = blocks[i].hash
      /\ HashesOf(t) \subseteq DOMAIN mempool \cup {<<NoAccount, m, nextHash>>}
  BY <1>1, <1>2, NewTemplateOK, NewTemplate DEF ShapeInv
<1>4. \A u \in mined : IsTemplate(u)' /\ u.hash \in 2..(nextHash - 1)
  BY <1>2, TemplateStays DEF ShapeInv, MinedOK, IsTemplate
<1>5. MinedOK'
  <2>1. \A u \in mined : u.hash # t.hash
    BY <1>2, <1>3, <1>4
  <2>2. \A u, v \in mined' : u.hash = v.hash => u = v
    BY <1>1, <2>1 DEF ShapeInv, MinedOK
  <2> QED BY <1>1, <1>2, <1>3, <1>4, <2>2 DEF MinedOK
<1>6. BlocksOK' /\ AddingOK' /\ MempoolOK' /\ CallsOK'
  BY <1>1 DEF CreateNewBlock, ShapeInv, BlocksOK, AddingOK, MempoolOK, CallsOK, BestBlock,
              IsAtTx, TxAt, calls
<1> QED BY <1>1, <1>3, <1>5, <1>6 DEF ShapeInv

LEMMA ShapeSubmitBlock ==
    ASSUME ShapeInv, NEW t \in mined, NEW format \in InputFormats, SubmitBlock(t, format)
    PROVE  /\ ShapeInv' /\ adding' # Unlocked
           /\ adding'.next = 1 /\ adding'.spent = {} /\ adding'.made = 0
           /\ ReadFrom(adding'.block, t)
<1> DEFINE block == [t EXCEPT !.txs = ParseTxs(@, format)]
<1>1. adding' = [block |-> block, next |-> 1, spent |-> {}, made |-> 0]
      /\ t.parent = BestBlock.hash
  BY DEF SubmitBlock
<1>2. IsBlock(t)
  BY DEF ShapeInv, MinedOK, IsTemplate
<1>3. ReadFrom(block, t)
  BY <1>2, ReadBlock
<1> HIDE DEF block
<1>4. IsSeq(block.txs) /\ Len(block.txs) \in Nat
  BY <1>3, IsSeqProperties DEF ReadFrom, IsBlock
<1>5. /\ adding'.block = block /\ adding'.next = 1 /\ adding'.spent = {} /\ adding'.made = 0
      /\ adding' # Unlocked
      /\ UNCHANGED <<blocks, mempool, mined, nextHash, requests, created>>
  BY <1>1 DEF SubmitBlock, calls, Unlocked
<1>6. AddingOK'
  <2>1. adding'.block.parent = BestBlock'.hash
    BY <1>1, <1>3, <1>5 DEF ReadFrom, BestBlock
  <2>2. 1 \in 1..(Len(block.txs) + 1) /\ 0 \in Nat
    BY <1>4
  <2> QED BY <1>1, <1>3, <1>5, <2>1, <2>2 DEF AddingOK
<1>7. BlocksOK' /\ MempoolOK' /\ MinedOK' /\ CallsOK'
  BY <1>5 DEF ShapeInv, BlocksOK, MempoolOK, MinedOK, CallsOK, IsTemplate
<1> QED BY <1>3, <1>5, <1>6, <1>7 DEF ShapeInv

(* The transaction at which addBlockV2 is.                                 *)
LEMMA AtTx ==
    ASSUME AddingOK, IsAtTx
    PROVE  /\ adding # Unlocked /\ IsSeq(adding.block.txs) /\ Len(adding.block.txs) \in Nat
           /\ adding.next \in 1..Len(adding.block.txs)
           /\ IsTx(TxAt) /\ TxAt.hash \in HashesOf(adding.block)
<1>1. adding # Unlocked /\ adding.next <= Len(adding.block.txs)
  BY DEF IsAtTx
<1>2. IsBlock(adding.block) /\ adding.next \in 1..(Len(adding.block.txs) + 1)
  BY <1>1 DEF AddingOK, ReadFrom
<1>3. IsSeq(adding.block.txs) /\ Len(adding.block.txs) \in Nat
  BY <1>2, IsSeqProperties DEF IsBlock
<1>4. adding.next \in 1..Len(adding.block.txs)
  BY <1>1, <1>2, <1>3
<1> QED BY <1>1, <1>2, <1>3, <1>4 DEF IsBlock, HashesOf, TxAt

(* A step of addBlockV2 within a transaction.                              *)
LEMMA ShapeApply ==
    ASSUME ShapeInv, CreateOutput \/ \E k \in TxAt.inputs : SpendInput(k)
    PROVE  /\ ShapeInv' /\ IsAtTx /\ IsAtTx'
           /\ adding # Unlocked /\ adding' # Unlocked
           /\ adding'.block = adding.block /\ adding'.next = adding.next /\ TxAt' = TxAt
           /\ UNCHANGED <<blocks, mempool, mined, nextHash, requests, calls, starts>>
<1>1. IsAtTx /\ UNCHANGED <<blocks, mempool, mined, nextHash, requests, calls, starts>>
  BY DEF CreateOutput, SpendInput
<1>2. /\ adding # Unlocked
      /\ adding = [block |-> adding.block, next |-> adding.next,
                   spent |-> adding.spent, made |-> adding.made]
      /\ adding.made \in Nat /\ adding.spent \subseteq TxAt.inputs
      /\ adding.made # 0 => adding.spent = TxAt.inputs
  BY <1>1 DEF IsAtTx, ShapeInv, AddingOK
<1>3. PICK spent \in SUBSET TxAt.inputs, made \in Nat :
          /\ adding' = [block |-> adding.block, next |-> adding.next,
                        spent |-> spent, made |-> made]
          /\ made # 0 => spent = TxAt.inputs
  <2>1. CASE CreateOutput
    <3>1. adding' = [adding EXCEPT !.made = @ + 1] /\ adding.spent = TxAt.inputs
      BY <2>1 DEF CreateOutput
    <3>2. adding' = [block |-> adding.block, next |-> adding.next,
                     spent |-> adding.spent, made |-> adding.made + 1]
      BY <1>2, <3>1
    <3> QED BY <1>2, <3>1, <3>2
  <2>2. ASSUME NEW k \in TxAt.inputs, SpendInput(k)
        PROVE  \E spent \in SUBSET TxAt.inputs, made \in Nat :
                   /\ adding' = [block |-> adding.block, next |-> adding.next,
                                 spent |-> spent, made |-> made]
                   /\ made # 0 => spent = TxAt.inputs
    <3>1. adding' = [adding EXCEPT !.spent = @ \cup {k}] /\ k \notin adding.spent
      BY <2>2 DEF SpendInput
    <3>2. adding' = [block |-> adding.block, next |-> adding.next,
                     spent |-> adding.spent \cup {k}, made |-> adding.made]
      BY <1>2, <3>1
    <3>3. adding.made = 0 /\ adding.spent \cup {k} \in SUBSET TxAt.inputs
      BY <1>2, <2>2, <3>1
    <3> QED BY <1>2, <3>2, <3>3
  <2> QED BY <2>1, <2>2
<1>4. /\ adding'.block = adding.block /\ adding'.next = adding.next
      /\ adding'.spent = spent /\ adding'.made = made /\ adding' # Unlocked
  BY <1>3 DEF Unlocked
<1>5. IsAtTx' /\ TxAt' = TxAt
  BY <1>1, <1>4 DEF IsAtTx, TxAt
<1>6. BlocksOK' /\ MempoolOK' /\ MinedOK' /\ CallsOK'
  BY <1>1 DEF ShapeInv, BlocksOK, MempoolOK, MinedOK, CallsOK, IsTemplate, calls
<1>7. AddingOK'
  BY <1>1, <1>2, <1>3, <1>4, <1>5 DEF ShapeInv, AddingOK, BestBlock
<1> QED BY <1>1, <1>2, <1>4, <1>5, <1>6, <1>7 DEF ShapeInv

LEMMA ShapeRemoveTransaction ==
    ASSUME ShapeInv, RemoveTransaction
    PROVE  /\ ShapeInv' /\ IsAtTx
           /\ adding # Unlocked /\ adding' # Unlocked
           /\ adding'.block = adding.block /\ adding'.next = adding.next + 1
           /\ adding'.spent = {} /\ adding'.made = 0
           /\ DOMAIN mempool' = DOMAIN mempool \ {TxAt.hash}
           /\ \A h \in DOMAIN mempool' : mempool'[h] = mempool[h]
           /\ UNCHANGED <<blocks, utxos, mined, nextHash, requests, calls, starts>>
<1>1. /\ IsAtTx /\ adding' = [adding EXCEPT !.next = @ + 1, !.spent = {}, !.made = 0]
      /\ mempool' = [h \in DOMAIN mempool \ {TxAt.hash} |-> mempool[h]]
      /\ UNCHANGED <<blocks, utxos, mined, nextHash, requests, calls, starts>>
  BY DEF RemoveTransaction, NextTx
<1>2. /\ adding # Unlocked /\ adding.next \in 1..Len(adding.block.txs)
      /\ Len(adding.block.txs) \in Nat
  BY <1>1, AtTx DEF ShapeInv
<1>3. adding = [block |-> adding.block, next |-> adding.next,
                spent |-> adding.spent, made |-> adding.made]
  BY <1>2 DEF ShapeInv, AddingOK
<1>4. adding' = [block |-> adding.block, next |-> adding.next + 1, spent |-> {}, made |-> 0]
  BY <1>1, <1>3
<1>5. /\ adding'.block = adding.block /\ adding'.next = adding.next + 1
      /\ adding'.spent = {} /\ adding'.made = 0 /\ adding' # Unlocked
  BY <1>4 DEF Unlocked
<1>6. BlocksOK' /\ MinedOK' /\ CallsOK'
  BY <1>1 DEF ShapeInv, BlocksOK, MinedOK, CallsOK, IsTemplate, calls
<1>7. MempoolOK'
  BY <1>1, FS_RemoveElement DEF ShapeInv, MempoolOK
<1>8. AddingOK'
  <2>1. adding.next + 1 \in 1..(Len(adding.block.txs) + 1) /\ 0 \in Nat
    BY <1>2
  <2> QED BY <1>1, <1>2, <1>4, <1>5, <2>1 DEF ShapeInv, AddingOK, BestBlock
<1> QED BY <1>1, <1>2, <1>5, <1>6, <1>7, <1>8 DEF ShapeInv

LEMMA ShapeAppendBlock ==
    ASSUME ShapeInv, AppendBlock
    PROVE  /\ ShapeInv'
           /\ adding # Unlocked /\ ~IsAtTx /\ adding' = Unlocked
           /\ adding.next = Len(adding.block.txs) + 1
           /\ Len(blocks) \in Nat /\ Len(blocks') = Len(blocks) + 1
           /\ \A i \in 1..Len(blocks) : blocks'[i] = blocks[i]
           /\ blocks'[Len(blocks) + 1] = adding.block
<1>1. adding # Unlocked /\ adding.next > Len(adding.block.txs)
      /\ blocks' = Append(blocks, adding.block)
      /\ adding' = Unlocked /\ UNCHANGED <<mempool, mined, nextHash, requests, created>>
  BY DEF AppendBlock, calls
<1>2. IsSeq(blocks) /\ Len(blocks) \in Nat /\ Len(blocks) >= 1
  BY IsSeqProperties DEF ShapeInv, BlocksOK
<1>3. /\ IsSeq(blocks') /\ Len(blocks') = Len(blocks) + 1
      /\ \A i \in 1..Len(blocks) : blocks'[i] = blocks[i]
      /\ blocks'[Len(blocks) + 1] = adding.block
  BY <1>1, <1>2, AppendIsSeq
<1>4. MempoolOK' /\ MinedOK' /\ CallsOK' /\ AddingOK'
  BY <1>1 DEF ShapeInv, MempoolOK, MinedOK, CallsOK, IsTemplate, AddingOK
<1>5. BlocksOK'
  <2>1. \E t \in mined : ReadFrom(adding.block, t)
    BY <1>1 DEF ShapeInv, AddingOK
  <2>2. blocks'[1] = GenesisBlock
    BY <1>2, <1>3 DEF ShapeInv, BlocksOK
  <2>3. ASSUME NEW i \in 2..Len(blocks')
        PROVE  \E t \in mined : ReadFrom(blocks'[i], t)
    <3>1. i \in 2..Len(blocks) \/ i = Len(blocks) + 1
      BY <1>2, <1>3
    <3> QED BY <1>2, <1>3, <2>1, <3>1 DEF ShapeInv, BlocksOK
  <2> QED BY <1>1, <1>2, <1>3, <2>2, <2>3 DEF BlocksOK
<1>6. ~IsAtTx /\ adding.next = Len(adding.block.txs) + 1
  <2>1. IsSeq(adding.block.txs) /\ adding.next \in 1..(Len(adding.block.txs) + 1)
    BY <1>1 DEF ShapeInv, AddingOK, ReadFrom, IsBlock
  <2>2. Len(adding.block.txs) \in Nat
    BY <2>1, IsSeqProperties
  <2> QED BY <1>1, <2>1, <2>2 DEF IsAtTx
<1> QED BY <1>1, <1>2, <1>3, <1>4, <1>5, <1>6 DEF ShapeInv

(* A restart, whether its load is given up or not: a prefix of the chain   *)
(* is left.                                                                *)
Restarts == \E n \in 1..Len(blocks) : Restart(n) \/ RestartGivenUp(n)

LEMMA ShapeRestart ==
    ASSUME ShapeInv, Restarts
    PROVE  /\ ShapeInv'
           /\ \E n \in 1..Len(blocks) :
                 Len(blocks') = n /\ \A i \in 1..n : blocks'[i] = blocks[i]
           /\ Len(blocks) \in Nat /\ IsSeq(blocks')
           /\ DOMAIN mempool' = {} /\ adding' = Unlocked /\ created' = {}
           /\ ~givenUp /\ restarts < MaxRestarts /\ restarts' = restarts + 1
           /\ UNCHANGED <<mined, nextHash, requests, pending>>
<1>1. /\ mempool' = <<>> /\ adding' = Unlocked /\ created' = {}
      /\ ~givenUp /\ restarts < MaxRestarts /\ restarts' = restarts + 1
      /\ UNCHANGED <<mined, nextHash, requests, pending>>
  BY DEF Restarts, Restart, RestartGivenUp, Dies
<1>2. IsSeq(blocks) /\ Len(blocks) \in Nat /\ Len(blocks) >= 1 /\ blocks[1] = GenesisBlock
  BY IsSeqProperties DEF ShapeInv, BlocksOK
<1>3. PICK n \in 1..Len(blocks) :
          IsSeq(blocks') /\ Len(blocks') = n /\ \A i \in 1..n : blocks'[i] = blocks[i]
  <2>1. ASSUME NEW n \in 1..Len(blocks), Restart(n)
        PROVE  IsSeq(blocks') /\ Len(blocks') = n /\ \A i \in 1..n : blocks'[i] = blocks[i]
    <3>1. blocks' = SubSeq(blocks, 1, n) /\ n \in 0..Len(blocks)
      BY <2>1, <1>2 DEF Restart
    <3> QED BY <1>2, <3>1, PrefixIsSeq
  <2>2. ASSUME NEW n \in 1..Len(blocks), RestartGivenUp(n)
        PROVE  IsSeq(blocks') /\ Len(blocks') = 1 /\ \A i \in 1..1 : blocks'[i] = blocks[i]
    <3>1. blocks' = <<GenesisBlock>>
      BY <2>2 DEF RestartGivenUp
    <3>2. <<GenesisBlock>> \in Seq({GenesisBlock}) /\ Len(<<GenesisBlock>>) = 1
          /\ <<GenesisBlock>>[1] = GenesisBlock
      OBVIOUS
    <3>3. IsSeq(<<GenesisBlock>>)
      BY <3>2, SeqIsSeq
    <3> QED BY <1>2, <3>1, <3>2, <3>3
  <2>3. 1 \in 1..Len(blocks)
    BY <1>2
  <2> QED BY <2>1, <2>2, <2>3 DEF Restarts
<1>4. BlocksOK'
  <2>1. \A i \in 2..n : i \in 2..Len(blocks) /\ blocks'[i] = blocks[i]
    BY <1>2, <1>3
  <2>2. blocks'[1] = GenesisBlock /\ n >= 1
    BY <1>2, <1>3
  <2> QED BY <1>1, <1>3, <2>1, <2>2 DEF ShapeInv, BlocksOK
<1>5. DOMAIN mempool' = {} /\ MempoolOK'
  <2>1. DOMAIN mempool' = {} /\ mempool' = [h \in DOMAIN mempool' |-> mempool'[h]]
    BY <1>1
  <2> QED BY <2>1, FS_EmptySet DEF MempoolOK
<1>6. MinedOK' /\ CallsOK' /\ AddingOK'
  BY <1>1 DEF ShapeInv, MinedOK, CallsOK, IsTemplate, AddingOK
<1> QED BY <1>1, <1>2, <1>3, <1>4, <1>5, <1>6 DEF ShapeInv

(* What a step can be, with its parameters.                                *)
LEMMA NextCases ==
    ASSUME [Next]_vars
    PROVE  \/ \E p \in Payments : CreateTransaction(p)
           \/ \E tx \in created : AddTransaction(tx)
           \/ \E m \in Miners, i \in 1..Len(blocks) : CreateNewBlock(m, i)
           \/ \E b \in mined, format \in InputFormats : SubmitBlock(b, format)
           \/ CreateOutput \/ \E k \in TxAt.inputs : SpendInput(k)
           \/ RemoveTransaction
           \/ AppendBlock
           \/ Restarts
           \/ UNCHANGED vars
BY DEF Next, Restarts

LEMMA ShapeStep == ShapeInv /\ [Next]_vars => ShapeInv'
<1> SUFFICES ASSUME ShapeInv, [Next]_vars PROVE ShapeInv'
  OBVIOUS
<1>1. ASSUME NEW p \in Payments, CreateTransaction(p) PROVE ShapeInv'
  BY <1>1, ShapeCreateTransaction
<1>2. ASSUME NEW tx \in created, AddTransaction(tx) PROVE ShapeInv'
  BY <1>2, ShapeAddTransaction
<1>3. ASSUME NEW m \in Miners, NEW i \in 1..Len(blocks), CreateNewBlock(m, i) PROVE ShapeInv'
  BY <1>3, ShapeCreateNewBlock
<1>4. ASSUME NEW b \in mined, NEW format \in InputFormats, SubmitBlock(b, format)
      PROVE  ShapeInv'
  BY <1>4, ShapeSubmitBlock
<1>5. CASE CreateOutput \/ \E k \in TxAt.inputs : SpendInput(k)
  BY <1>5, ShapeApply
<1>6. CASE RemoveTransaction
  BY <1>6, ShapeRemoveTransaction
<1>7. CASE AppendBlock
  BY <1>7, ShapeAppendBlock
<1>8. CASE Restarts
  BY <1>8, ShapeRestart
<1>9. CASE UNCHANGED vars
  BY <1>9 DEF vars, calls, ShapeInv, BlocksOK, AddingOK, MempoolOK, MinedOK, CallsOK,
              BestBlock, IsTemplate, IsAtTx, TxAt
<1> QED BY <1>1, <1>2, <1>3, <1>4, <1>5, <1>6, <1>7, <1>8, <1>9, NextCases

LEMMA ShapeAlways == Spec => []ShapeInv
BY ShapeInit, ShapeStep, PTL DEF Spec

(* The transactions of the block being added that were gone through.       *)
Done == adding.next - 1

LEMMA AddingHashesDiffer ==
    ASSUME ShapeInv, adding # Unlocked
    PROVE  \A i, j \in 1..Len(adding.block.txs) :
               adding.block.txs[i].hash = adding.block.txs[j].hash => i = j
<1>1. PICK t \in mined : ReadFrom(adding.block, t)
  BY DEF ShapeInv, AddingOK
<1> QED BY <1>1 DEF ShapeInv, MinedOK, IsTemplate, ReadFrom

(* Its next transaction is the one at which addBlockV2 is.                 *)
LEMMA AtDone ==
    ASSUME AddingOK, IsAtTx
    PROVE  /\ Done \in Nat /\ Done + 1 = adding.next /\ Done < Len(adding.block.txs)
           /\ Done + 1 \in 1..Len(adding.block.txs) /\ TxAt = adding.block.txs[Done + 1]
<1>1. adding.next \in 1..Len(adding.block.txs) /\ Len(adding.block.txs) \in Nat
  BY AtTx
<1>2. Done \in Nat /\ Done + 1 = adding.next
  BY <1>1 DEF Done
<1> QED BY <1>1, <1>2 DEF TxAt

-----------------------------------------------------------------------------
(* What blocks do to the UTXO set.                                         *)

TxStep(p, u, tx) == ProcessTx(u, tx)
BlockStep(p, u, b) == ProcessTxs(u, b.txs)

OfTxs == INSTANCE FoldFacts WITH Op <- TxStep
OfBlocks == INSTANCE FoldFacts WITH Op <- BlockStep

First(s, n) == SubSeq(s, 1, n)

LEMMA FirstIsAll ==
    ASSUME NEW s, IsSeq(s)
    PROVE  First(s, Len(s)) = s
<1>1. /\ Len(s) \in 0..Len(s) /\ s = [i \in 1..Len(s) |-> s[i]]
  BY IsSeqProperties
<1>2. /\ IsSeq(First(s, Len(s))) /\ Len(First(s, Len(s))) = Len(s)
      /\ \A i \in 1..Len(s) : First(s, Len(s))[i] = s[i]
  BY <1>1, PrefixIsSeq DEF First
<1>3. First(s, Len(s)) = [i \in 1..Len(s) |-> First(s, Len(s))[i]]
  BY <1>2, IsSeqProperties
<1> QED BY <1>1, <1>2, <1>3

LEMMA ProcessFold ==
    ASSUME NEW u, NEW txs
    PROVE  ProcessTxs(u, txs) = OfTxs!Fold(<<>>, u, txs)
BY DEF ProcessTxs, TxStep, OfTxs!Fold, FoldLeft, MapThenFoldSet, Max,
       OfTxs!FoldLeft, OfTxs!MapThenFoldSet, OfTxs!Max

LEMMA ReplayFold ==
    ASSUME NEW chain
    PROVE  Replay(chain) = OfBlocks!Fold(<<>>, <<>>, chain)
BY DEF Replay, BlockStep, OfBlocks!Fold, FoldLeft, MapThenFoldSet, Max,
       OfBlocks!FoldLeft, OfBlocks!MapThenFoldSet, OfBlocks!Max

(* No transaction, and one more.                                           *)
LEMMA ProcessNone ==
    ASSUME NEW u, NEW txs, IsSeq(txs)
    PROVE  ProcessTxs(u, First(txs, 0)) = u
<1>1. 0 \in 0..Len(txs)
  BY IsSeqProperties
<1>2. Len(First(txs, 0)) = 0 /\ IsSeq(First(txs, 0))
  BY <1>1, PrefixIsSeq DEF First
<1> QED BY <1>2, IsSeqProperties, ProcessFold, OfTxs!FoldOfNone

LEMMA ProcessOneMore ==
    ASSUME NEW u, NEW txs, IsSeq(txs), NEW n \in Nat, n < Len(txs)
    PROVE  ProcessTxs(u, First(txs, n + 1))
           = ProcessTx(ProcessTxs(u, First(txs, n)), txs[n + 1])
<1> DEFINE s == First(txs, n)
           t == First(txs, n + 1)
<1>1. n \in 0..Len(txs) /\ n + 1 \in 0..Len(txs) /\ n + 1 \in 1..(n + 1)
  BY IsSeqProperties
<1>2. /\ IsSeq(s) /\ Len(s) = n /\ \A i \in 1..n : s[i] = txs[i]
      /\ IsSeq(t) /\ Len(t) = n + 1 /\ \A i \in 1..(n + 1) : t[i] = txs[i]
  BY <1>1, PrefixIsSeq DEF First
<1> HIDE DEF s, t
<1>3. /\ DOMAIN s = 1..Len(s) /\ DOMAIN t = 1..Len(t) /\ Len(t) = Len(s) + 1
      /\ \A i \in 1..Len(s) : t[i] = s[i]
  BY <1>2, IsSeqProperties
<1>4. OfTxs!Fold(<<>>, u, t) = TxStep(<<>>, OfTxs!Fold(<<>>, u, s), t[n + 1])
  BY <1>2, <1>3, OfTxs!FoldOfOneMore
<1> QED BY <1>1, <1>2, <1>4, ProcessFold DEF TxStep, s, t

(* No block, and one more.                                                 *)
LEMMA ReplayNone ==
    ASSUME NEW chain, IsSeq(chain)
    PROVE  Replay(First(chain, 0)) = <<>>
<1>1. 0 \in 0..Len(chain)
  BY IsSeqProperties
<1>2. Len(First(chain, 0)) = 0 /\ IsSeq(First(chain, 0))
  BY <1>1, PrefixIsSeq DEF First
<1> QED BY <1>2, IsSeqProperties, ReplayFold, OfBlocks!FoldOfNone

LEMMA ReplayOneMore ==
    ASSUME NEW chain, IsSeq(chain), NEW n \in Nat, n < Len(chain)
    PROVE  Replay(First(chain, n + 1))
           = ProcessTxs(Replay(First(chain, n)), chain[n + 1].txs)
<1> DEFINE s == First(chain, n)
           t == First(chain, n + 1)
<1>1. n \in 0..Len(chain) /\ n + 1 \in 0..Len(chain) /\ n + 1 \in 1..(n + 1)
  BY IsSeqProperties
<1>2. /\ IsSeq(s) /\ Len(s) = n /\ \A i \in 1..n : s[i] = chain[i]
      /\ IsSeq(t) /\ Len(t) = n + 1 /\ \A i \in 1..(n + 1) : t[i] = chain[i]
  BY <1>1, PrefixIsSeq DEF First
<1> HIDE DEF s, t
<1>3. /\ DOMAIN s = 1..Len(s) /\ DOMAIN t = 1..Len(t) /\ Len(t) = Len(s) + 1
      /\ \A i \in 1..Len(s) : t[i] = s[i]
  BY <1>2, IsSeqProperties
<1>4. OfBlocks!Fold(<<>>, <<>>, t) = BlockStep(<<>>, OfBlocks!Fold(<<>>, <<>>, s), t[n + 1])
  BY <1>2, <1>3, OfBlocks!FoldOfOneMore
<1> QED BY <1>1, <1>2, <1>4, ReplayFold DEF BlockStep, s, t

(* A chain with one more block.                                            *)
LEMMA ReplayAppend ==
    ASSUME NEW chain, IsSeq(chain), NEW b
    PROVE  Replay(Append(chain, b)) = ProcessTxs(Replay(chain), b.txs)
<1>1. /\ IsSeq(Append(chain, b)) /\ Len(Append(chain, b)) = Len(chain) + 1
      /\ \A i \in 1..Len(chain) : Append(chain, b)[i] = chain[i]
      /\ Append(chain, b)[Len(chain) + 1] = b
  BY AppendIsSeq
<1>2. /\ Len(chain) \in Nat /\ DOMAIN chain = 1..Len(chain)
      /\ DOMAIN Append(chain, b) = 1..Len(Append(chain, b))
  BY <1>1, IsSeqProperties
<1>3. OfBlocks!Fold(<<>>, <<>>, Append(chain, b))
      = BlockStep(<<>>, OfBlocks!Fold(<<>>, <<>>, chain), Append(chain, b)[Len(chain) + 1])
  BY <1>1, <1>2, OfBlocks!FoldOfOneMore
<1> QED BY <1>1, <1>3, ReplayFold DEF BlockStep

-----------------------------------------------------------------------------
(* Types.                                                                  *)

(* FoldFacts is instantiated, so its sums are those of this module.        *)
LEMMA SameSums ==
    ASSUME NEW f, NEW S
    PROVE  OfTxs!SumFunctionOnSet(f, S) = SumFunctionOnSet(f, S)
BY DEF SumFunctionOnSet, FoldFunctionOnSet, MapThenFoldSet,
       OfTxs!SumFunctionOnSet, OfTxs!FoldFunctionOnSet, OfTxs!MapThenFoldSet

LEMMA SameFinite ==
    ASSUME NEW S
    PROVE  OfTxs!IsFiniteSet(S) <=> IsFiniteSet(S)
BY DEF IsFiniteSet, OfTxs!IsFiniteSet

UtxosTyped(u) ==
    /\ IsFiniteSet(DOMAIN u) /\ u = [k \in DOMAIN u |-> u[k]]
    /\ \A k \in DOMAIN u : u[k] \in [owner : Accounts, amount : Nat, spent : BOOLEAN]

TxsTyped(txs) == \A j \in 1..Len(txs) : TxTypeOK(txs[j])

TypesInv ==
    /\ UtxosTyped(utxos)
    /\ \A tx \in created : TxTypeOK(tx)
    /\ \A h \in DOMAIN mempool : TxTypeOK(mempool[h])
    /\ \A t \in mined : TxsTyped(t.txs)
    /\ \A i \in 1..Len(blocks) : TxsTyped(blocks[i].txs)
    /\ adding # Unlocked => TxsTyped(adding.block.txs)
    /\ IsAtTx => adding.made \in 0..Len(TxAt.outputs)
    /\ restarts \in 0..MaxRestarts /\ givenUp \in BOOLEAN

LEMMA AmountType ==
    ASSUME NEW u, UtxosTyped(u), NEW S \in SUBSET DOMAIN u
    PROVE  Amount(u, S) \in Nat
<1> DEFINE f == [k \in DOMAIN u |-> u[k].amount]
<1>1. IsFiniteSet(S) /\ \A k \in S : f[k] \in Int /\ f[k] \in Nat
  BY FS_Subset DEF UtxosTyped
<1> HIDE DEF f
<1>2. SumFunctionOnSet(f, S) \in Nat
  BY <1>1, SameSums, SameFinite, OfTxs!SumType
<1> QED BY <1>2 DEF Amount, f

(* CreateTransaction makes transactions of the type.                       *)
LEMMA TransactionTyped ==
    ASSUME UtxosTyped(utxos), NEW p \in Payments, NEW tx \in Transactions(p)
    PROVE  TxTypeOK(tx)
<1>1. p \in [from : Accounts, to : Accounts, amount : Nat, fee : Nat]
  BY LedgerAssumption
<1> DEFINE need == p.amount + p.fee
           paid == [owner |-> p.to, amount |-> p.amount]
           change(S) == [owner |-> p.from, amount |-> Amount(utxos, S) - need]
<1>2. PICK S \in SUBSET GetUTXOs(p.from) :
         /\ Amount(utxos, S) >= need
         /\ tx = Transaction(p, S, IF Amount(utxos, S) - need > 0 THEN <<paid, change(S)>>
                                                                  ELSE <<paid>>)
  BY DEF Transactions, Suffices
<1>3. S \in SUBSET DOMAIN utxos
  BY DEF GetUTXOs
<1>4. Amount(utxos, S) \in Nat /\ IsFiniteSet(S)
  BY <1>3, AmountType, FS_Subset DEF UtxosTyped
<1>5. paid \in [owner : Accounts, amount : Nat]
  BY <1>1
<1>6. need \in Nat
  BY <1>1
<1>9. tx.from = p.from /\ tx.to = p.to /\ tx.amount = p.amount /\ tx.fee = p.fee /\ tx.inputs = S
  BY <1>2 DEF Transaction
<1> HIDE DEF need
<1>7. CASE Amount(utxos, S) - need > 0
  <2>1. change(S) \in [owner : Accounts, amount : Nat] /\ change(S).amount # 0
    BY <1>1, <1>4, <1>6, <1>7
  <2> HIDE DEF paid, change
  <2>2. tx.outputs = <<paid, change(S)>>
    BY <1>2, <1>7 DEF Transaction
  <2>3. Len(tx.outputs) = 2 /\ tx.outputs[1] = paid /\ tx.outputs[2] = change(S)
    BY <2>2
  <2> QED BY <1>1, <1>9, <1>4, <1>5, <2>1, <2>3 DEF TxTypeOK
<1>8. CASE ~(Amount(utxos, S) - need > 0)
  <2> HIDE DEF paid, change
  <2>2. tx.outputs = <<paid>>
    BY <1>2, <1>8 DEF Transaction
  <2>3. Len(tx.outputs) = 1 /\ tx.outputs[1] = paid
    BY <2>2
  <2> QED BY <1>1, <1>9, <1>4, <1>5, <2>3 DEF TxTypeOK
<1> QED BY <1>7, <1>8

LEMMA RewardTyped ==
    ASSUME NEW m \in Miners, NEW n
    PROVE  TxTypeOK(RewardTx(m, n))
<1> DEFINE out == [owner |-> m, amount |-> BlockReward]
<1>1. m \in Accounts /\ BlockReward \in Nat \ {0} /\ out \in [owner : Accounts, amount : Nat]
  BY LedgerAssumption
<1>2. IsFiniteSet({})
  BY FS_EmptySet
<1> HIDE DEF out
<1>3. /\ RewardTx(m, n).from = NoAccount /\ RewardTx(m, n).to = m
      /\ RewardTx(m, n).amount = BlockReward /\ RewardTx(m, n).fee = 0
      /\ RewardTx(m, n).inputs = {} /\ RewardTx(m, n).outputs = <<out>>
  BY DEF RewardTx, out
<1>4. Len(<<out>>) = 1 /\ <<out>>[1] = out
  OBVIOUS
<1> QED BY <1>1, <1>2, <1>3, <1>4 DEF TxTypeOK

(* So do miners that send a transaction on.                                *)
LEMMA ParsedTyped ==
    ASSUME NEW txs, NEW format \in InputFormats, TxsTyped(txs),
           \A j \in 1..Len(txs) : IsTx(txs[j]), Len(txs) \in Nat
    PROVE  TxsTyped(ParseTxs(txs, format))
<1>1. Len(ParseTxs(txs, format)) = Len(txs)
  BY DEF ParseTxs
<1> SUFFICES ASSUME NEW j \in 1..Len(txs) PROVE TxTypeOK(ParseTxs(txs, format)[j])
  BY <1>1 DEF TxsTyped
<1> DEFINE tx == txs[j]
           S == ParseInputs(tx.inputs, format)
<1>2. ParseTxs(txs, format)[j] = [tx EXCEPT !.inputs = S] /\ IsTx(tx) /\ TxTypeOK(tx)
  BY DEF ParseTxs, TxsTyped
<1>3. IsFiniteSet(tx.inputs)
  BY <1>2 DEF TxTypeOK
<1> HIDE DEF tx
<1>4. IsFiniteSet(S)
  <2>1. CASE format = "hex"
    BY <1>3, <2>1 DEF ParseInputs
  <2>2. CASE format = "array"
    <3> DEFINE g == [k \in tx.inputs |-> <<ZeroHash, k[2]>>]
    <3>1. S = {g[k] : k \in tx.inputs}
      BY <2>2 DEF ParseInputs
    <3>2. g \in Surjection(tx.inputs, S)
      BY <3>1 DEF Surjection
    <3> QED BY <1>3, <3>2, FS_Surjection
  <2> QED BY <2>1, <2>2, LedgerAssumption
<1> HIDE DEF S
<1>5. [tx EXCEPT !.inputs = S]
      = [hash |-> tx.hash, from |-> tx.from, to |-> tx.to, amount |-> tx.amount,
         fee |-> tx.fee, inputs |-> S, outputs |-> tx.outputs]
  BY <1>2 DEF IsTx
<1> QED BY <1>2, <1>4, <1>5 DEF TxTypeOK

-----------------------------------------------------------------------------
(* What a transaction does to typed outputs.                               *)
LEMMA SpendTyped ==
    ASSUME NEW u, UtxosTyped(u), NEW inputs
    PROVE  UtxosTyped(Spend(u, inputs)) /\ DOMAIN Spend(u, inputs) = DOMAIN u
<1>1. DOMAIN Spend(u, inputs) = DOMAIN u
  BY DEF Spend
<1>2. ASSUME NEW k \in DOMAIN u
      PROVE  Spend(u, inputs)[k] \in [owner : Accounts, amount : Nat, spent : BOOLEAN]
  BY DEF Spend, UtxosTyped
<1>3. Spend(u, inputs) = [k \in DOMAIN Spend(u, inputs) |-> Spend(u, inputs)[k]]
  BY DEF Spend
<1> QED BY <1>1, <1>2, <1>3 DEF UtxosTyped

LEMMA KeysFinite ==
    ASSUME NEW tx, TxTypeOK(tx)
    PROVE  /\ IsFiniteSet(Keys(tx))
           /\ \A k \in Keys(tx) : k[1] = tx.hash /\ k[2] + 1 \in 1..Len(tx.outputs)
<1>1. Len(tx.outputs) \in {1, 2}
  BY DEF TxTypeOK
<1>2. Keys(tx) \subseteq {<<tx.hash, 0>>, <<tx.hash, 1>>}
  <2>1. ASSUME NEW i \in 1..Len(tx.outputs) PROVE i - 1 = 0 \/ i - 1 = 1
    <3> DEFINE n == Len(tx.outputs)
    <3>1. n \in {1, 2} /\ i \in 1..n
      BY <1>1
    <3> HIDE DEF n
    <3>2. n = 1 \/ n = 2
      BY <3>1
    <3> QED BY <3>1, <3>2
  <2> QED BY <2>1 DEF Keys
<1>3. IsFiniteSet({<<tx.hash, 0>>, <<tx.hash, 1>>})
  <2>1. IsFiniteSet({<<tx.hash, 0>>})
    BY FS_Singleton
  <2>2. IsFiniteSet({<<tx.hash, 0>>} \cup {<<tx.hash, 1>>})
    BY <2>1, FS_AddElement
  <2>3. {<<tx.hash, 0>>} \cup {<<tx.hash, 1>>} = {<<tx.hash, 0>>, <<tx.hash, 1>>}
    OBVIOUS
  <2> QED BY <2>2, <2>3
<1>4. IsFiniteSet(Keys(tx))
  BY <1>2, <1>3, FS_Subset
<1>5. ASSUME NEW k \in Keys(tx) PROVE k[1] = tx.hash /\ k[2] + 1 \in 1..Len(tx.outputs)
  <2>1. PICK i \in 1..Len(tx.outputs) : k = <<tx.hash, i - 1>>
    BY DEF Keys
  <2>2. k[1] = tx.hash /\ k[2] = i - 1 /\ (i - 1) + 1 = i
    BY <1>1, <2>1
  <2> QED BY <2>2
<1> QED BY <1>4, <1>5

LEMMA CreateTyped ==
    ASSUME NEW u, UtxosTyped(u), NEW tx, TxTypeOK(tx), NEW keys \in SUBSET Keys(tx)
    PROVE  UtxosTyped(Create(u, tx, keys)) /\ DOMAIN Create(u, tx, keys) = DOMAIN u \cup keys
<1>1. DOMAIN Create(u, tx, keys) = DOMAIN u \cup keys
  BY DEF Create
<1>2. IsFiniteSet(DOMAIN u \cup keys)
  BY KeysFinite, FS_Union, FS_Subset DEF UtxosTyped
<1>3. ASSUME NEW k \in DOMAIN u \cup keys
      PROVE  Create(u, tx, keys)[k] \in [owner : Accounts, amount : Nat, spent : BOOLEAN]
  <2>1. CASE k \in keys
    <3> DEFINE out == tx.outputs[k[2] + 1]
    <3>1. out \in [owner : Accounts, amount : Nat]
      BY <2>1, KeysFinite DEF TxTypeOK
    <3>2. Create(u, tx, keys)[k] = [owner |-> out.owner, amount |-> out.amount, spent |-> FALSE]
      BY <2>1 DEF Create
    <3> HIDE DEF out
    <3> QED BY <3>1, <3>2
  <2>2. CASE k \notin keys
    BY <2>2 DEF Create, UtxosTyped
  <2> QED BY <2>1, <2>2
<1>4. Create(u, tx, keys) = [k \in DOMAIN Create(u, tx, keys) |-> Create(u, tx, keys)[k]]
  BY DEF Create
<1> QED BY <1>1, <1>2, <1>3, <1>4 DEF UtxosTyped

LEMMA ProcessTyped ==
    ASSUME NEW u, UtxosTyped(u), NEW txs, IsSeq(txs), TxsTyped(txs),
           NEW n \in Nat, n <= Len(txs)
    PROVE  UtxosTyped(ProcessTxs(u, First(txs, n)))
<1> DEFINE N == {i \in Nat : i <= Len(txs) => UtxosTyped(ProcessTxs(u, First(txs, i)))}
<1>1. 0 \in N
  BY ProcessNone
<1>2. ASSUME NEW i \in Nat, i \in N PROVE i + 1 \in N
  <2> SUFFICES ASSUME i + 1 <= Len(txs) PROVE UtxosTyped(ProcessTxs(u, First(txs, i + 1)))
    OBVIOUS
  <2>1. Len(txs) \in Nat
    BY IsSeqProperties
  <2>2. UtxosTyped(ProcessTxs(u, First(txs, i))) /\ TxTypeOK(txs[i + 1])
    BY <1>2, <2>1 DEF TxsTyped
  <2>3. ProcessTxs(u, First(txs, i + 1)) = ProcessTx(ProcessTxs(u, First(txs, i)), txs[i + 1])
    BY <2>1, ProcessOneMore
  <2> DEFINE v == ProcessTxs(u, First(txs, i))
  <2>4. UtxosTyped(Spend(v, txs[i + 1].inputs))
    BY <2>2, SpendTyped
  <2> HIDE DEF v
  <2>5. UtxosTyped(Create(Spend(v, txs[i + 1].inputs), txs[i + 1], Keys(txs[i + 1])))
    BY <2>2, <2>4, CreateTyped
  <2> QED BY <2>3, <2>5 DEF ProcessTx, v
<1> HIDE DEF N
<1>3. Nat \subseteq N
  BY <1>1, <1>2, OfTxs!NumberInduction
<1> QED BY <1>3 DEF N

LEMMA ReplayTyped ==
    ASSUME NEW chain, IsSeq(chain), NEW n \in Nat, n <= Len(chain),
           \A i \in 1..Len(chain) : IsSeq(chain[i].txs) /\ TxsTyped(chain[i].txs)
    PROVE  UtxosTyped(Replay(First(chain, n)))
<1> DEFINE N == {i \in Nat : i <= Len(chain) => UtxosTyped(Replay(First(chain, i)))}
<1>1. 0 \in N
  <2>1. DOMAIN <<>> = {}
    OBVIOUS
  <2>2. UtxosTyped(<<>>)
    <3>1. <<>> = [k \in {} |-> <<>>[k]]
      OBVIOUS
    <3> QED BY <2>1, <3>1, FS_EmptySet DEF UtxosTyped
  <2> QED BY <2>2, ReplayNone
<1>2. ASSUME NEW i \in Nat, i \in N PROVE i + 1 \in N
  <2> SUFFICES ASSUME i + 1 <= Len(chain) PROVE UtxosTyped(Replay(First(chain, i + 1)))
    OBVIOUS
  <2> DEFINE txs == chain[i + 1].txs
  <2>1. Len(chain) \in Nat
    BY IsSeqProperties
  <2>2. UtxosTyped(Replay(First(chain, i))) /\ IsSeq(txs) /\ TxsTyped(txs)
    BY <1>2, <2>1
  <2>3. Replay(First(chain, i + 1)) = ProcessTxs(Replay(First(chain, i)), txs)
    BY <2>1, ReplayOneMore
  <2> HIDE DEF txs
  <2>4. Len(txs) \in Nat /\ First(txs, Len(txs)) = txs
    BY <2>2, FirstIsAll, IsSeqProperties
  <2>5. UtxosTyped(ProcessTxs(Replay(First(chain, i)), First(txs, Len(txs))))
    BY <2>2, <2>4, ProcessTyped
  <2> QED BY <2>3, <2>4, <2>5
<1> HIDE DEF N
<1>3. Nat \subseteq N
  BY <1>1, <1>2, OfTxs!NumberInduction
<1> QED BY <1>3 DEF N
-----------------------------------------------------------------------------
(* Each step keeps the types.                                              *)
LEMMA TypesInit == Init => TypesInv
<1> SUFFICES ASSUME Init PROVE TypesInv
  OBVIOUS
<1>1. UtxosTyped(utxos)
  <2>1. DOMAIN utxos = {} /\ utxos = [k \in DOMAIN utxos |-> utxos[k]]
    BY DEF Init
  <2> QED BY <2>1, FS_EmptySet DEF UtxosTyped
<1>2. Len(blocks) = 1 /\ Len(blocks[1].txs) = 0
  BY DEF Init, GenesisBlock
<1>3. /\ DOMAIN mempool = {} /\ created = {} /\ mined = {} /\ adding = Unlocked
      /\ restarts = 0 /\ givenUp = FALSE
  BY DEF Init
<1>4. 0 \in 0..MaxRestarts /\ ~IsAtTx
  BY <1>3, LedgerAssumption DEF IsAtTx
<1>5. \A i \in 1..Len(blocks) : TxsTyped(blocks[i].txs)
  BY <1>2 DEF TxsTyped
<1> QED BY <1>1, <1>3, <1>4, <1>5 DEF TypesInv

(* Steps that leave an addition where it is.                               *)
LEMMA MadeKept ==
    ASSUME TypesInv, UNCHANGED adding
    PROVE  IsAtTx' => adding'.made \in 0..Len(TxAt'.outputs)
BY DEF TypesInv, IsAtTx, TxAt

LEMMA TypesCalls ==
    ASSUME ShapeInv, TypesInv,
           \/ \E p \in Payments : CreateTransaction(p)
           \/ \E tx \in created : AddTransaction(tx)
    PROVE  TypesInv'
<1>1. ASSUME NEW p \in Payments, CreateTransaction(p) PROVE TypesInv'
  <2>1. /\ \E tx \in Transactions(p) : created' = created \cup {tx}
        /\ UNCHANGED <<blocks, utxos, mempool, adding, mined, restarts, givenUp>>
    BY <1>1 DEF CreateTransaction, starts
  <2>2. \A tx \in created' : TxTypeOK(tx)
    BY <2>1, TransactionTyped DEF TypesInv
  <2> QED BY <2>1, <2>2, MadeKept DEF TypesInv
<1>2. ASSUME NEW tx \in created, AddTransaction(tx) PROVE TypesInv'
  <2>1. /\ mempool' = [h \in DOMAIN mempool \cup {tx.hash} |->
                          IF h = tx.hash THEN tx ELSE mempool[h]]
        /\ created' = created \ {tx}
        /\ UNCHANGED <<blocks, utxos, adding, mined, restarts, givenUp>>
    BY <1>2 DEF AddTransaction, starts
  <2>2. \A h \in DOMAIN mempool' : mempool'[h] = tx \/ (h \in DOMAIN mempool /\ mempool'[h] = mempool[h])
    BY <2>1
  <2> QED BY <2>1, <2>2, MadeKept DEF TypesInv
<1> QED BY <1>1, <1>2

LEMMA TypesCreateNewBlock ==
    ASSUME ShapeInv, TypesInv, NEW m \in Miners, NEW i \in 1..Len(blocks),
           CreateNewBlock(m, i)
    PROVE  TypesInv'
<1>1. PICK t : MadeOf(t, m, i) /\ mined' = mined \cup {t}
  BY DEF CreateNewBlock, MadeOf
<1>2. UNCHANGED <<blocks, utxos, mempool, adding, created, restarts, givenUp>>
  BY DEF CreateNewBlock, calls, starts
<1>3. TxsTyped(t.txs)
  <2>1. \A j \in 1..Len(t.txs) :
            t.txs[j] = RewardTx(m, nextHash) \/ \E h \in DOMAIN mempool : t.txs[j] = mempool[h]
    BY <1>1, NewTemplate DEF ShapeInv
  <2> QED BY <2>1, RewardTyped DEF TypesInv, TxsTyped
<1> QED BY <1>1, <1>2, <1>3, MadeKept DEF TypesInv

(* After a step, too, addBlockV2 is at a transaction of its block.         *)
LEMMA AtTxThen ==
    ASSUME ShapeInv', IsAtTx'
    PROVE  adding'.next \in 1..Len(adding'.block.txs)
<1>1. adding' # Unlocked /\ adding'.next <= Len(adding'.block.txs)
  BY DEF IsAtTx
<1>2. IsBlock(adding'.block) /\ adding'.next \in 1..(Len(adding'.block.txs) + 1)
  BY <1>1 DEF ShapeInv, AddingOK, ReadFrom
<1>3. Len(adding'.block.txs) \in Nat
  BY <1>2, IsSeqProperties DEF IsBlock
<1> QED BY <1>1, <1>2, <1>3

LEMMA TypesSubmitBlock ==
    ASSUME ShapeInv, TypesInv, NEW t \in mined, NEW format \in InputFormats,
           SubmitBlock(t, format)
    PROVE  TypesInv'
<1> DEFINE block == [t EXCEPT !.txs = ParseTxs(@, format)]
<1>1. /\ adding' = [block |-> block, next |-> 1, spent |-> {}, made |-> 0]
      /\ UNCHANGED <<blocks, utxos, mempool, mined, created, restarts, givenUp>>
  BY DEF SubmitBlock, calls, starts
<1>2. IsBlock(t) /\ TxsTyped(t.txs)
  BY DEF ShapeInv, MinedOK, IsTemplate, TypesInv
<1>3. block.txs = ParseTxs(t.txs, format)
  BY <1>2 DEF IsBlock
<1>4. TxsTyped(ParseTxs(t.txs, format))
  BY <1>2, ParsedTyped, IsSeqProperties DEF IsBlock
<1>5. ShapeInv'
  BY ShapeSubmitBlock
<1> HIDE DEF block
<1>6. adding'.block = block /\ adding'.made = 0
  BY <1>1
<1>7. ASSUME IsAtTx' PROVE adding'.made \in 0..Len(TxAt'.outputs)
  <2>1. adding'.next \in 1..Len(adding'.block.txs) /\ TxAt' = adding'.block.txs[adding'.next]
    BY <1>5, <1>7, AtTxThen DEF TxAt
  <2>2. Len(TxAt'.outputs) \in {1, 2}
    BY <1>3, <1>4, <1>6, <2>1 DEF TxsTyped, TxTypeOK
  <2> QED BY <1>6, <2>2
<1> QED BY <1>1, <1>3, <1>4, <1>6, <1>7 DEF TypesInv

LEMMA AtTyped ==
    ASSUME ShapeInv, TypesInv, IsAtTx
    PROVE  TxTypeOK(TxAt)
BY AtTx DEF ShapeInv, TypesInv, TxsTyped, TxAt

LEMMA TypesApply ==
    ASSUME ShapeInv, TypesInv, CreateOutput \/ \E k \in TxAt.inputs : SpendInput(k)
    PROVE  TypesInv'
<1>1. /\ IsAtTx /\ adding # Unlocked /\ adding'.block = adding.block /\ TxAt' = TxAt
      /\ UNCHANGED <<blocks, mempool, mined, nextHash, requests, calls, starts>>
  BY ShapeApply
<1>2. TxTypeOK(TxAt) /\ adding.made \in 0..Len(TxAt.outputs) /\ Len(TxAt.outputs) \in Nat
  BY <1>1, AtTyped DEF TypesInv, TxTypeOK
<1>3. adding = [block |-> adding.block, next |-> adding.next,
                spent |-> adding.spent, made |-> adding.made]
  BY <1>1 DEF ShapeInv, AddingOK
<1>4. UtxosTyped(utxos') /\ adding'.made \in 0..Len(TxAt.outputs)
  <2>1. CASE CreateOutput
    <3>1. /\ utxos' = Create(utxos, TxAt, {<<TxAt.hash, adding.made>>})
          /\ adding.made < Len(TxAt.outputs) /\ adding' = [adding EXCEPT !.made = @ + 1]
      BY <2>1 DEF CreateOutput
    <3>2. adding'.made = adding.made + 1 /\ adding.made + 1 \in 1..Len(TxAt.outputs)
          /\ adding.made = (adding.made + 1) - 1
      BY <1>2, <1>3, <3>1
    <3>3. {<<TxAt.hash, adding.made>>} \in SUBSET Keys(TxAt)
      BY <3>2 DEF Keys
    <3>4. UtxosTyped(utxos')
      BY <1>2, <3>1, <3>3, CreateTyped DEF TypesInv
    <3> QED BY <1>2, <3>2, <3>4
  <2>2. ASSUME NEW k \in TxAt.inputs, SpendInput(k)
        PROVE  UtxosTyped(utxos') /\ adding'.made \in 0..Len(TxAt.outputs)
    <3>1. utxos' = Spend(utxos, {k}) /\ adding' = [adding EXCEPT !.spent = @ \cup {k}]
      BY <2>2 DEF SpendInput
    <3>2. adding'.made = adding.made
      BY <1>3, <3>1
    <3> QED BY <1>2, <3>1, <3>2, SpendTyped DEF TypesInv
  <2> QED BY <2>1, <2>2
<1> QED BY <1>1, <1>4 DEF TypesInv, calls, starts

LEMMA TypesRemoveTransaction ==
    ASSUME ShapeInv, TypesInv, RemoveTransaction
    PROVE  TypesInv'
<1>1. /\ ShapeInv' /\ adding # Unlocked /\ adding'.block = adding.block
      /\ adding'.made = 0
      /\ DOMAIN mempool' = DOMAIN mempool \ {TxAt.hash}
      /\ \A h \in DOMAIN mempool' : mempool'[h] = mempool[h]
      /\ UNCHANGED <<blocks, utxos, mined, nextHash, requests, calls, starts>>
  BY ShapeRemoveTransaction
<1>2. ASSUME IsAtTx' PROVE adding'.made \in 0..Len(TxAt'.outputs)
  <2>1. adding'.next \in 1..Len(adding'.block.txs) /\ TxAt' = adding'.block.txs[adding'.next]
    BY <1>1, <1>2, AtTxThen DEF TxAt
  <2>2. Len(TxAt'.outputs) \in {1, 2}
    BY <1>1, <2>1 DEF TypesInv, TxsTyped, TxTypeOK
  <2> QED BY <1>1, <2>2
<1> QED BY <1>1, <1>2 DEF TypesInv, calls, starts

LEMMA TypesAppendBlock ==
    ASSUME ShapeInv, TypesInv, AppendBlock
    PROVE  TypesInv'
<1>1. /\ adding # Unlocked /\ adding' = Unlocked
      /\ Len(blocks) \in Nat /\ Len(blocks') = Len(blocks) + 1
      /\ \A i \in 1..Len(blocks) : blocks'[i] = blocks[i]
      /\ blocks'[Len(blocks) + 1] = adding.block
  BY ShapeAppendBlock
<1>2. UNCHANGED <<utxos, mempool, mined, created, restarts, givenUp>>
  BY DEF AppendBlock, calls, starts
<1>3. ASSUME NEW i \in 1..Len(blocks') PROVE TxsTyped(blocks'[i].txs)
  <2>1. i \in 1..Len(blocks) \/ i = Len(blocks) + 1
    BY <1>1
  <2> QED BY <1>1, <2>1 DEF TypesInv
<1> QED BY <1>1, <1>2, <1>3 DEF TypesInv, IsAtTx

(* Both kinds of restart replay some of the blocks.                        *)
LEMMA RestartReplays ==
    ASSUME ShapeInv, Restarts
    PROVE  \E n \in 1..Len(blocks) : utxos' = Replay(First(blocks, n))
BY DEF Restarts, Restart, RestartGivenUp, First

LEMMA TypesRestart ==
    ASSUME ShapeInv, TypesInv, Restarts
    PROVE  TypesInv'
<1>1. /\ \E n \in 1..Len(blocks) :
            Len(blocks') = n /\ \A i \in 1..n : blocks'[i] = blocks[i]
      /\ Len(blocks) \in Nat /\ DOMAIN mempool' = {} /\ adding' = Unlocked /\ created' = {}
      /\ restarts < MaxRestarts /\ restarts' = restarts + 1 /\ UNCHANGED mined
  BY ShapeRestart
<1>2. PICK n \in 1..Len(blocks) : utxos' = Replay(First(blocks, n))
  BY RestartReplays
<1>3. \A i \in 1..Len(blocks) : IsSeq(blocks[i].txs) /\ TxsTyped(blocks[i].txs)
  BY ChainHashes DEF ShapeInv, IsBlock, TypesInv
<1>4. UtxosTyped(utxos')
  <2>1. n \in Nat /\ n <= Len(blocks)
    BY <1>1
  <2> QED BY <1>2, <1>3, <2>1, ReplayTyped DEF ShapeInv, BlocksOK
<1>5. restarts' \in 0..MaxRestarts
  BY <1>1, LedgerAssumption DEF TypesInv
<1>6. givenUp' \in BOOLEAN
  BY DEF Restarts, Restart, RestartGivenUp, TypesInv
<1>7. \A i \in 1..Len(blocks') : i \in 1..Len(blocks) /\ blocks'[i] = blocks[i]
  BY <1>1
<1> QED BY <1>1, <1>4, <1>5, <1>6, <1>7 DEF TypesInv, IsAtTx

LEMMA TypesStep ==
    ASSUME ShapeInv, TypesInv, [Next]_vars
    PROVE  TypesInv'
<1>1. ASSUME NEW m \in Miners, NEW i \in 1..Len(blocks), CreateNewBlock(m, i) PROVE TypesInv'
  BY <1>1, TypesCreateNewBlock
<1>2. ASSUME NEW b \in mined, NEW format \in InputFormats, SubmitBlock(b, format)
      PROVE  TypesInv'
  BY <1>2, TypesSubmitBlock
<1>3. CASE UNCHANGED vars
  BY <1>3, MadeKept DEF vars, calls, starts, TypesInv
<1> QED
  BY <1>1, <1>2, <1>3, TypesCalls, TypesApply, TypesRemoveTransaction, TypesAppendBlock,
     TypesRestart, NextCases

LEMMA TypesSuffice ==
    ASSUME ShapeInv, TypesInv
    PROVE  TypeOK
<1>1. \A c \in Positions : TxTypeOK(Tx(c))
  <2>1. ASSUME NEW c \in Positions
        PROVE  c[1] \in 1..Len(blocks) /\ c[2] \in 1..Len(blocks[c[1]].txs)
    BY DEF Positions
  <2> QED BY <2>1 DEF Tx, TypesInv, TxsTyped
<1>2. ASSUME adding # Unlocked
      PROVE  /\ adding.next \in 1..(Len(adding.block.txs) + 1)
             /\ IsAtTx => /\ TxTypeOK(TxAt) /\ adding.spent \subseteq TxAt.inputs
                          /\ adding.made \in 0..Len(TxAt.outputs)
  BY <1>2, AtTyped DEF ShapeInv, AddingOK, TypesInv
<1>3. \A h \in DOMAIN mempool : mempool[h].hash = h
  BY DEF ShapeInv, MempoolOK
<1>4. nextHash \in Nat /\ requests \in [Payments -> Nat]
  BY DEF ShapeInv, MinedOK, CallsOK
<1> QED BY <1>1, <1>2, <1>3, <1>4 DEF TypeOK, TypesInv, UtxosTyped

LEMMA TypesAlways == Spec => []TypesInv
<1>1. Init => TypesInv
  BY TypesInit
<1>2. ShapeInv /\ TypesInv /\ [Next]_vars => TypesInv'
  BY TypesStep
<1> QED BY <1>1, <1>2, ShapeAlways, PTL DEF Spec

(* Transactions, outputs, keys and counters have their types, for any      *)
(* payments, submitters and restarts: change is never negative or nothing, *)
(* whatever outputs CreateTransaction takes.                               *)
THEOREM TypeCorrect == Spec => []TypeOK
<1>1. ShapeInv /\ TypesInv => TypeOK
  BY TypesSuffice
<1> QED BY <1>1, ShapeAlways, TypesAlways, PTL

-----------------------------------------------------------------------------
(* The UTXO set between the steps of addBlockV2 is that of the chain, and  *)
(* of what was gone through of the block being added: transactions, and the*)
(* inputs and outputs of the one at which it is.                           *)
Applied == ProcessTxs(Replay(blocks), First(adding.block.txs, Done))
Made == {<<TxAt.hash, i - 1>> : i \in 1..adding.made}

UtxosInv ==
    ~givenUp =>
        /\ adding = Unlocked => utxos = Replay(blocks)
        /\ adding # Unlocked /\ ~IsAtTx => utxos = Applied
        /\ IsAtTx => utxos = Create(Spend(Applied, adding.spent), TxAt, Made)

(* Nothing spent and nothing created is no change; one more of each is.    *)
LEMMA NothingDone ==
    ASSUME NEW u, UtxosTyped(u), NEW tx
    PROVE  Create(Spend(u, {}), tx, {}) = u
<1>1. Spend(u, {}) = u
  BY DEF Spend, UtxosTyped
<1>2. Create(u, tx, {}) = u
  BY DEF Create, UtxosTyped
<1> QED BY <1>1, <1>2

LEMMA OneMoreSpent ==
    ASSUME NEW u, NEW S, NEW tx, NEW k, k \notin S
    PROVE  Spend(Create(Spend(u, S), tx, {}), {k}) = Create(Spend(u, S \cup {k}), tx, {})
<1> DEFINE v == Create(Spend(u, S), tx, {})
           w == Create(Spend(u, S \cup {k}), tx, {})
<1>1. /\ DOMAIN v = DOMAIN u /\ DOMAIN w = DOMAIN u
      /\ w = [j \in DOMAIN u |-> w[j]]
  BY DEF Spend, Create
<1>2. \A j \in DOMAIN u : v[j] = IF j \in S THEN [u[j] EXCEPT !.spent = TRUE] ELSE u[j]
  BY DEF Spend, Create
<1>3. \A j \in DOMAIN u :
          w[j] = IF j \in S \cup {k} THEN [u[j] EXCEPT !.spent = TRUE] ELSE u[j]
  BY DEF Spend, Create
<1> HIDE DEF v, w
<1>4. \A j \in DOMAIN u : (IF j \in {k} THEN [v[j] EXCEPT !.spent = TRUE] ELSE v[j]) = w[j]
  BY <1>2, <1>3
<1>5. Spend(v, {k}) = [j \in DOMAIN u |-> IF j \in {k} THEN [v[j] EXCEPT !.spent = TRUE] ELSE v[j]]
  BY <1>1 DEF Spend
<1>6. Spend(v, {k}) = w
  BY <1>1, <1>4, <1>5
<1> QED BY <1>6 DEF v, w

LEMMA OneMoreCreated ==
    ASSUME NEW u, NEW tx, NEW M, NEW k
    PROVE  Create(Create(u, tx, M), tx, {k}) = Create(u, tx, M \cup {k})
<1> DEFINE v == Create(u, tx, M)
           out(j) == [owner  |-> tx.outputs[j[2] + 1].owner,
                      amount |-> tx.outputs[j[2] + 1].amount, spent |-> FALSE]
<1>1. DOMAIN v = DOMAIN u \cup M /\ \A j \in DOMAIN v : v[j] = IF j \in M THEN out(j) ELSE u[j]
  BY DEF Create
<1>2. /\ Create(v, tx, {k}) = [j \in DOMAIN v \cup {k} |-> IF j \in {k} THEN out(j) ELSE v[j]]
      /\ Create(u, tx, M \cup {k})
         = [j \in DOMAIN u \cup (M \cup {k}) |-> IF j \in M \cup {k} THEN out(j) ELSE u[j]]
  BY DEF Create
<1> HIDE DEF v, out
<1>3. DOMAIN v \cup {k} = DOMAIN u \cup (M \cup {k})
  BY <1>1
<1>4. \A j \in DOMAIN v \cup {k} :
          (IF j \in {k} THEN out(j) ELSE v[j]) = (IF j \in M \cup {k} THEN out(j) ELSE u[j])
  BY <1>1
<1>5. Create(v, tx, {k}) = Create(u, tx, M \cup {k})
  BY <1>2, <1>3, <1>4
<1> QED BY <1>5 DEF v

(* Steps that neither write outputs nor go on with a block.                *)
LEMMA UtxosKept ==
    ASSUME UtxosInv, UNCHANGED <<blocks, utxos, adding, givenUp>>
    PROVE  UtxosInv'
BY DEF UtxosInv, Applied, Done, Made, IsAtTx, TxAt

(* What it takes that a transaction is begun with.                         *)
LEMMA UtxosBegin ==
    ASSUME TypesInv', utxos' = Applied', adding' # Unlocked,
           adding'.spent = {}, adding'.made = 0
    PROVE  UtxosInv'
<1>1. Made' = {}
  BY DEF Made
<1>2. Create(Spend(utxos', {}), TxAt', {}) = utxos'
  BY NothingDone DEF TypesInv
<1> QED BY <1>1, <1>2 DEF UtxosInv

LEMMA UtxosSubmitBlock ==
    ASSUME ShapeInv, TypesInv', UtxosInv, ~givenUp, NEW t \in mined,
           NEW format \in InputFormats, SubmitBlock(t, format)
    PROVE  UtxosInv'
<1>1. adding = Unlocked /\ UNCHANGED <<blocks, utxos>>
  BY DEF SubmitBlock
<1>2. /\ adding' # Unlocked /\ adding'.next = 1 /\ adding'.spent = {} /\ adding'.made = 0
      /\ IsSeq(adding'.block.txs)
  BY ShapeSubmitBlock DEF ReadFrom, IsBlock
<1>3. Done' = 0
  BY <1>2 DEF Done
<1>4. ProcessTxs(Replay(blocks), First(adding'.block.txs, 0)) = Replay(blocks)
  BY <1>2, ProcessNone
<1>5. Applied' = utxos'
  BY <1>1, <1>3, <1>4 DEF Applied, UtxosInv
<1> QED BY <1>2, <1>5, UtxosBegin

LEMMA UtxosApply ==
    ASSUME ShapeInv, UtxosInv, ~givenUp, CreateOutput \/ \E k \in TxAt.inputs : SpendInput(k)
    PROVE  UtxosInv'
<1>1. /\ IsAtTx /\ IsAtTx' /\ adding # Unlocked /\ adding' # Unlocked
      /\ adding'.block = adding.block /\ adding'.next = adding.next /\ TxAt' = TxAt
      /\ UNCHANGED blocks
  BY ShapeApply
<1>2. /\ utxos = Create(Spend(Applied, adding.spent), TxAt, Made) /\ Applied' = Applied
      /\ adding = [block |-> adding.block, next |-> adding.next,
                   spent |-> adding.spent, made |-> adding.made]
      /\ adding.made \in Nat /\ (adding.made # 0 => adding.spent = TxAt.inputs)
  BY <1>1 DEF UtxosInv, Applied, Done, ShapeInv, AddingOK
<1>3. utxos' = Create(Spend(Applied, adding'.spent), TxAt, Made')
  <2>1. CASE CreateOutput
    <3>1. /\ utxos' = Create(utxos, TxAt, {<<TxAt.hash, adding.made>>})
          /\ adding' = [adding EXCEPT !.made = @ + 1]
      BY <2>1 DEF CreateOutput
    <3>2. adding'.made = adding.made + 1 /\ adding'.spent = adding.spent
      BY <1>2, <3>1
    <3>3. Made' = Made \cup {<<TxAt.hash, adding.made>>}
      <4>1. \A i \in 1..(adding.made + 1) : i \in 1..adding.made \/ i - 1 = adding.made
        BY <1>2
      <4>2. /\ \A i \in 1..adding.made : i \in 1..(adding.made + 1)
            /\ adding.made + 1 \in 1..(adding.made + 1) /\ (adding.made + 1) - 1 = adding.made
        BY <1>2
      <4>3. Made' = {<<TxAt.hash, i - 1>> : i \in 1..(adding.made + 1)}
        BY <1>1, <3>2 DEF Made
      <4>4. ASSUME NEW k PROVE k \in Made' <=> k \in Made \cup {<<TxAt.hash, adding.made>>}
        BY <4>1, <4>2, <4>3 DEF Made
      <4> QED BY <4>4
    <3> DEFINE v == Spend(Applied, adding.spent)
               k == <<TxAt.hash, adding.made>>
    <3>4. utxos = Create(v, TxAt, Made) /\ utxos' = Create(utxos, TxAt, {k})
      BY <1>2, <3>1
    <3>5. Made' = Made \cup {k}
      BY <3>3
    <3> HIDE DEF v, k
    <3>6. Create(Create(v, TxAt, Made), TxAt, {k}) = Create(v, TxAt, Made \cup {k})
      BY OneMoreCreated
    <3>7. utxos' = Create(v, TxAt, Made')
      BY <3>4, <3>5, <3>6
    <3> QED BY <3>2, <3>7 DEF v
  <2>2. ASSUME NEW k \in TxAt.inputs, SpendInput(k)
        PROVE  utxos' = Create(Spend(Applied, adding'.spent), TxAt, Made')
    <3>1. /\ utxos' = Spend(utxos, {k}) /\ adding' = [adding EXCEPT !.spent = @ \cup {k}]
          /\ k \notin adding.spent
      BY <2>2 DEF SpendInput
    <3>2. adding'.spent = adding.spent \cup {k} /\ adding'.made = 0 /\ adding.made = 0
      BY <1>2, <3>1
    <3>3. Made = {} /\ Made' = {}
      BY <3>2 DEF Made
    <3> QED BY <1>2, <3>1, <3>2, <3>3, OneMoreSpent
  <2> QED BY <2>1, <2>2
<1> QED BY <1>1, <1>2, <1>3 DEF UtxosInv

LEMMA UtxosRemoveTransaction ==
    ASSUME ShapeInv, TypesInv', UtxosInv, ~givenUp, RemoveTransaction
    PROVE  UtxosInv'
<1>1. /\ IsAtTx /\ adding' # Unlocked
      /\ adding'.block = adding.block /\ adding'.next = adding.next + 1
      /\ adding'.spent = {} /\ adding'.made = 0 /\ UNCHANGED <<blocks, utxos>>
  BY ShapeRemoveTransaction
<1>2. adding.spent = TxAt.inputs /\ adding.made = Len(TxAt.outputs)
  BY DEF RemoveTransaction, NextTx
<1>3. /\ Done \in Nat /\ Done < Len(adding.block.txs) /\ TxAt = adding.block.txs[Done + 1]
      /\ Done + 1 = adding.next /\ IsSeq(adding.block.txs)
  BY <1>1, AtDone, AtTx DEF ShapeInv
<1>4. Done' = Done + 1
  <2>1. Done' = (Done + 1 + 1) - 1
    BY <1>1, <1>3 DEF Done
  <2> HIDE DEF Done
  <2> QED BY <1>3, <2>1
<1>5. Applied' = ProcessTx(Applied, TxAt)
  BY <1>1, <1>3, <1>4, ProcessOneMore DEF Applied
<1>6. utxos = ProcessTx(Applied, TxAt)
  BY <1>1, <1>2 DEF UtxosInv, ProcessTx, Made, Keys
<1> QED BY <1>1, <1>5, <1>6, UtxosBegin

LEMMA UtxosAppendBlock ==
    ASSUME ShapeInv, UtxosInv, ~givenUp, AppendBlock
    PROVE  UtxosInv'
<1>1. /\ adding # Unlocked /\ ~IsAtTx /\ adding' = Unlocked
      /\ adding.next = Len(adding.block.txs) + 1
      /\ blocks' = Append(blocks, adding.block) /\ UNCHANGED utxos
  BY ShapeAppendBlock DEF AppendBlock
<1>2. IsSeq(adding.block.txs) /\ IsSeq(blocks)
  BY <1>1 DEF ShapeInv, AddingOK, BlocksOK, ReadFrom, IsBlock
<1>3. Done = Len(adding.block.txs)
  BY <1>1, <1>2, IsSeqProperties DEF Done
<1>4. utxos = ProcessTxs(Replay(blocks), adding.block.txs)
  BY <1>1, <1>2, <1>3, FirstIsAll DEF UtxosInv, Applied
<1> QED BY <1>1, <1>2, <1>4, ReplayAppend DEF UtxosInv, IsAtTx

LEMMA UtxosRestart ==
    ASSUME Restarts, ~givenUp'
    PROVE  UtxosInv' /\ adding' = Unlocked /\ utxos' = Replay(blocks)'
<1>1. PICK n \in 1..Len(blocks) : Restart(n)
  BY DEF Restarts, RestartGivenUp
<1>2. utxos' = Replay(blocks)' /\ adding' = Unlocked
  BY <1>1 DEF Restart, Dies
<1> QED BY <1>2 DEF UtxosInv, IsAtTx

(* Only a restart changes what starts counts.                              *)
LEMMA OnlyRestarts ==
    ASSUME ShapeInv, [Next]_vars, ~Restarts
    PROVE  UNCHANGED starts
<1>1. ASSUME NEW p \in Payments, CreateTransaction(p) PROVE UNCHANGED starts
  BY <1>1 DEF CreateTransaction
<1>2. ASSUME NEW tx \in created, AddTransaction(tx) PROVE UNCHANGED starts
  BY <1>2 DEF AddTransaction
<1>3. ASSUME NEW m \in Miners, NEW i \in 1..Len(blocks), CreateNewBlock(m, i)
      PROVE  UNCHANGED starts
  BY <1>3 DEF CreateNewBlock
<1>4. ASSUME NEW b \in mined, NEW format \in InputFormats, SubmitBlock(b, format)
      PROVE  UNCHANGED starts
  BY <1>4 DEF SubmitBlock
<1>5. ASSUME CreateOutput \/ \E k \in TxAt.inputs : SpendInput(k) PROVE UNCHANGED starts
  BY <1>5, ShapeApply
<1>6. ASSUME RemoveTransaction PROVE UNCHANGED starts
  BY <1>6 DEF RemoveTransaction, NextTx
<1>7. ASSUME AppendBlock PROVE UNCHANGED starts
  BY <1>7 DEF AppendBlock
<1>8. ASSUME UNCHANGED vars PROVE UNCHANGED starts
  BY <1>8 DEF vars
<1> QED BY <1>1, <1>2, <1>3, <1>4, <1>5, <1>6, <1>7, <1>8, NextCases

LEMMA UtxosStep ==
    ASSUME ShapeInv, TypesInv', UtxosInv, [Next]_vars
    PROVE  UtxosInv'
<1> SUFFICES ASSUME ~givenUp' PROVE UtxosInv'
  BY DEF UtxosInv
<1>0. CASE Restarts
  BY <1>0, UtxosRestart
<1>1. CASE ~Restarts
  <2>0. ~givenUp /\ UNCHANGED givenUp
    BY <1>1, OnlyRestarts DEF starts
  <2>1. ASSUME NEW p \in Payments, CreateTransaction(p) PROVE UtxosInv'
    BY <2>0, <2>1, UtxosKept DEF CreateTransaction
  <2>2. ASSUME NEW tx \in created, AddTransaction(tx) PROVE UtxosInv'
    BY <2>0, <2>2, UtxosKept DEF AddTransaction
  <2>3. ASSUME NEW m \in Miners, NEW i \in 1..Len(blocks), CreateNewBlock(m, i)
        PROVE  UtxosInv'
    BY <2>0, <2>3, UtxosKept DEF CreateNewBlock
  <2>4. ASSUME NEW b \in mined, NEW format \in InputFormats, SubmitBlock(b, format)
        PROVE  UtxosInv'
    BY <2>0, <2>4, UtxosSubmitBlock
  <2>5. CASE CreateOutput \/ \E k \in TxAt.inputs : SpendInput(k)
    BY <2>0, <2>5, UtxosApply
  <2>6. CASE RemoveTransaction
    BY <2>0, <2>6, UtxosRemoveTransaction
  <2>7. CASE AppendBlock
    BY <2>0, <2>7, UtxosAppendBlock
  <2>8. CASE UNCHANGED vars
    BY <2>0, <2>8, UtxosKept DEF vars
  <2> QED BY <1>1, <2>1, <2>2, <2>3, <2>4, <2>5, <2>6, <2>7, <2>8, NextCases
<1> QED BY <1>0, <1>1

LEMMA UtxosInit == Init => UtxosInv
<1> SUFFICES ASSUME Init PROVE UtxosInv
  OBVIOUS
<1>1. blocks = <<GenesisBlock>> /\ utxos = <<>> /\ adding = Unlocked
  BY DEF Init
<1>2. IsSeq(blocks) /\ Len(blocks) = 1 /\ blocks[1].txs = <<>>
  <2>1. IsSeq(blocks)
    BY ShapeInit DEF ShapeInv, BlocksOK
  <2> QED BY <1>1, <2>1 DEF GenesisBlock
<1>3. IsSeq(<<>>) /\ Len(<<>>) = 0
  BY SeqIsSeq, EmptySeq
<1>4. Replay(First(blocks, 1)) = ProcessTxs(Replay(First(blocks, 0)), <<>>)
  <2>1. 0 \in Nat /\ 0 < Len(blocks) /\ 0 + 1 = 1
    BY <1>2
  <2>2. Replay(First(blocks, 0 + 1)) = ProcessTxs(Replay(First(blocks, 0)), blocks[0 + 1].txs)
    BY <1>2, <2>1, ReplayOneMore
  <2> QED BY <1>2, <2>1, <2>2
<1>5. ProcessTxs(<<>>, First(<<>>, 0)) = <<>> /\ First(<<>>, 0) = <<>>
  BY <1>3, ProcessNone, FirstIsAll
<1>6. Replay(First(blocks, 0)) = <<>> /\ First(blocks, 1) = blocks
  BY <1>2, ReplayNone, FirstIsAll
<1> QED BY <1>1, <1>4, <1>5, <1>6 DEF UtxosInv, IsAtTx

LEMMA UtxosAlways == Spec => []UtxosInv
<1>1. ShapeInv /\ TypesInv' /\ UtxosInv /\ [Next]_vars => UtxosInv'
  BY UtxosStep
<1> QED BY <1>1, UtxosInit, ShapeAlways, TypesAlways, PTL DEF Spec

(* A restart that forgets no block leaves the UTXO set as it was, for any  *)
(* payments and submitters and however often the node was restarted before:*)
(* the accesses of every addBlockV2, one input and one output at a time and*)
(* among other calls, come to what a replay of the chain makes.            *)
THEOREM RestartsKeepUtxos == Spec => RestartKeepsUtxos
<1>1. ASSUME ShapeInv, UtxosInv, [Next]_vars,
             restarts' # restarts, ~givenUp', adding = Unlocked, blocks' = blocks
      PROVE  utxos' = utxos
  <2>1. Restarts
    BY <1>1, OnlyRestarts DEF starts
  <2>2. utxos' = Replay(blocks)
    BY <1>1, <2>1, UtxosRestart
  <2>3. ~givenUp
    BY <1>1, <2>1, ShapeRestart
  <2> QED BY <1>1, <2>2, <2>3 DEF UtxosInv
<1>2. ShapeInv /\ UtxosInv /\ [Next]_vars =>
          [restarts' # restarts /\ ~givenUp' /\ adding = Unlocked /\ blocks' = blocks
              => utxos' = utxos]_vars
  BY <1>1
<1> QED BY <1>2, ShapeAlways, UtxosAlways, PTL DEF Spec, RestartKeepsUtxos

-----------------------------------------------------------------------------
(* Pending payments.                                                       *)

InChain(h) == \E i \in 1..Len(blocks) : h \in HashesOf(blocks[i])

LEMMA ConfirmedInChain ==
    ASSUME NEW h
    PROVE  Confirmations(h) # {} <=> InChain(h)
<1>1. ASSUME NEW i \in 1..Len(blocks), h \in HashesOf(blocks[i])
      PROVE  Confirmations(h) # {}
  <2>1. PICK j \in 1..Len(blocks[i].txs) : blocks[i].txs[j].hash = h
    BY <1>1 DEF HashesOf
  <2>2. <<i, j>> \in Positions /\ Tx(<<i, j>>).hash = h
    BY <2>1 DEF Positions, Tx
  <2> QED BY <2>2 DEF Confirmations
<1>2. ASSUME NEW c \in Confirmations(h)
      PROVE  InChain(h)
  <2>1. c \in Positions /\ blocks[c[1]].txs[c[2]].hash = h
    BY DEF Confirmations, Tx
  <2>2. c[1] \in 1..Len(blocks) /\ c[2] \in 1..Len(blocks[c[1]].txs)
    BY <2>1 DEF Positions
  <2> QED BY <2>1, <2>2 DEF InChain, HashesOf
<1> QED BY <1>1, <1>2 DEF InChain

(* PendingIsNotLost, by blocks; what was answered before a restart is told *)
(* by its number.                                                          *)
IsKept(h) ==
    \/ h \in DOMAIN mempool
    \/ InChain(h)
    \/ adding # Unlocked /\ h \in HashesOf(adding.block)

PendingKept ==
    \A x \in pending :
        /\ x[2] \in Nat /\ x[2] <= restarts
        /\ x[2] = restarts => IsKept(x[1])

LEMMA PendingKeptSuffices == PendingKept => PendingIsNotLost
BY ConfirmedInChain DEF PendingKept, PendingIsNotLost, IsKept, IsKnown, HashesOf

(* A step that is no restart loses no hash.                                *)
LEMMA HashesStay ==
    ASSUME ShapeInv, [Next]_vars, ~Restarts, NEW h, IsKept(h)
    PROVE  IsKept(h)'
<1>1. ASSUME NEW p \in Payments, CreateTransaction(p) PROVE IsKept(h)'
  BY <1>1 DEF CreateTransaction, IsKept, InChain
<1>2. ASSUME NEW tx \in created, AddTransaction(tx) PROVE IsKept(h)'
  <2>1. DOMAIN mempool' = DOMAIN mempool \cup {tx.hash} /\ UNCHANGED <<blocks, adding>>
    BY <1>2 DEF AddTransaction
  <2> QED BY <2>1 DEF IsKept, InChain
<1>3. ASSUME NEW m \in Miners, NEW i \in 1..Len(blocks), CreateNewBlock(m, i)
      PROVE  IsKept(h)'
  BY <1>3 DEF CreateNewBlock, IsKept, InChain
<1>4. ASSUME NEW b \in mined, NEW format \in InputFormats, SubmitBlock(b, format)
      PROVE  IsKept(h)'
  <2>1. adding = Unlocked /\ UNCHANGED <<blocks, mempool>>
    BY <1>4 DEF SubmitBlock
  <2> QED BY <2>1 DEF IsKept, InChain
<1>5. ASSUME CreateOutput \/ \E k \in TxAt.inputs : SpendInput(k) PROVE IsKept(h)'
  <2>1. adding' # Unlocked /\ adding'.block = adding.block /\ UNCHANGED <<blocks, mempool>>
    BY <1>5, ShapeApply
  <2> QED BY <2>1 DEF IsKept, InChain
<1>6. ASSUME RemoveTransaction PROVE IsKept(h)'
  <2>1. /\ IsAtTx /\ adding # Unlocked /\ adding' # Unlocked
        /\ adding'.block = adding.block /\ UNCHANGED blocks
        /\ DOMAIN mempool' = DOMAIN mempool \ {TxAt.hash}
    BY <1>6, ShapeRemoveTransaction
  <2>2. TxAt.hash \in HashesOf(adding.block)
    BY <2>1, AtTx DEF ShapeInv
  <2> QED BY <2>1, <2>2 DEF IsKept, InChain
<1>7. ASSUME AppendBlock PROVE IsKept(h)'
  <2>1. /\ Len(blocks) \in Nat /\ Len(blocks') = Len(blocks) + 1
        /\ \A i \in 1..Len(blocks) : blocks'[i] = blocks[i]
        /\ blocks'[Len(blocks) + 1] = adding.block /\ UNCHANGED mempool
    BY <1>7, ShapeAppendBlock DEF AppendBlock
  <2>2. InChain(h) \/ h \in HashesOf(adding.block) => InChain(h)'
    <3>1. ASSUME NEW i \in 1..Len(blocks), h \in HashesOf(blocks[i])
          PROVE  h \in HashesOf(blocks'[i]) /\ i \in 1..Len(blocks')
      BY <3>1, <2>1
    <3>2. Len(blocks) + 1 \in 1..Len(blocks')
      BY <2>1
    <3>3. HashesOf(blocks'[Len(blocks) + 1]) = HashesOf(adding.block)
      BY <2>1
    <3> QED BY <3>1, <3>2, <3>3 DEF InChain, HashesOf
  <2> QED BY <2>1, <2>2 DEF IsKept
<1>8. ASSUME UNCHANGED vars PROVE IsKept(h)'
  BY <1>8 DEF vars, IsKept, InChain
<1> QED BY <1>1, <1>2, <1>3, <1>4, <1>5, <1>6, <1>7, <1>8, NextCases

(* What is answered with "pending" is in the mempool then.                 *)
LEMMA PendingChanges ==
    ASSUME ShapeInv, [Next]_vars
    PROVE  \A x \in pending' :
              x \in pending \/ (x[2] = restarts /\ ~Restarts /\ x[1] \in DOMAIN mempool')
<1>1. ASSUME NEW p \in Payments, CreateTransaction(p) PROVE UNCHANGED pending
  BY <1>1 DEF CreateTransaction
<1>2. ASSUME NEW tx \in created, AddTransaction(tx)
      PROVE  /\ pending' = pending \cup {<<tx.hash, restarts>>}
             /\ ~Restarts /\ tx.hash \in DOMAIN mempool'
  <2>1. /\ pending' = pending \cup {<<tx.hash, restarts>>}
        /\ DOMAIN mempool' = DOMAIN mempool \cup {tx.hash}
    BY <1>2 DEF AddTransaction
  <2>2. DOMAIN mempool' # {}
    BY <2>1
  <2>3. ~Restarts
    BY <2>2, ShapeRestart
  <2> QED BY <2>1, <2>3
<1>3. ASSUME NEW m \in Miners, NEW i \in 1..Len(blocks), CreateNewBlock(m, i)
      PROVE  UNCHANGED pending
  BY <1>3 DEF CreateNewBlock, calls
<1>4. ASSUME NEW b \in mined, NEW format \in InputFormats, SubmitBlock(b, format)
      PROVE  UNCHANGED pending
  BY <1>4 DEF SubmitBlock, calls
<1>5. ASSUME CreateOutput \/ \E k \in TxAt.inputs : SpendInput(k) PROVE UNCHANGED pending
  BY <1>5, ShapeApply DEF calls
<1>6. ASSUME RemoveTransaction \/ AppendBlock PROVE UNCHANGED pending
  BY <1>6 DEF RemoveTransaction, NextTx, AppendBlock, calls
<1>7. ASSUME Restarts PROVE UNCHANGED pending
  BY <1>7, ShapeRestart
<1>8. ASSUME UNCHANGED vars PROVE UNCHANGED pending
  BY <1>8 DEF vars, calls
<1> QED BY <1>1, <1>2, <1>3, <1>4, <1>5, <1>6, <1>7, <1>8, NextCases

LEMMA PendingStep ==
    ASSUME ShapeInv, TypesInv, PendingKept, [Next]_vars
    PROVE  PendingKept'
<1>1. restarts \in Nat
  BY LedgerAssumption DEF TypesInv
<1>2. CASE Restarts
  <2>1. restarts' = restarts + 1 /\ UNCHANGED pending
    BY <1>2, ShapeRestart
  <2> QED BY <1>1, <2>1 DEF PendingKept
<1>3. CASE ~Restarts
  <2>1. UNCHANGED restarts
    BY <1>3, OnlyRestarts DEF starts
  <2>2. ASSUME NEW x \in pending'
        PROVE  x[2] \in Nat /\ x[2] <= restarts /\ (x[2] = restarts => IsKept(x[1])')
    <3>1. CASE x \in pending
      BY <1>3, <3>1, HashesStay DEF PendingKept
    <3>2. CASE x \notin pending
      <4>1. x[2] = restarts /\ x[1] \in DOMAIN mempool'
        BY <3>2, PendingChanges
      <4> QED BY <1>1, <4>1 DEF IsKept
    <3> QED BY <3>1, <3>2
  <2> QED BY <2>1, <2>2 DEF PendingKept
<1> QED BY <1>2, <1>3

(* Until the next restart a payment answered with "pending" is in the      *)
(* mempool, in the block being added, or in the chain, whatever blocks and *)
(* payments come in between; after it, that is so of those answered since. *)
(* (That a restart does lose those of the mempool is a run's finding.)     *)
THEOREM PendingNeverLost == Spec => []PendingIsNotLost
<1>1. Init => PendingKept
  BY DEF Init, PendingKept
<1>2. ShapeInv /\ TypesInv /\ PendingKept /\ [Next]_vars => PendingKept'
  BY PendingStep
<1> QED BY <1>1, <1>2, ShapeAlways, TypesAlways, PendingKeptSuffices, PTL DEF Spec

-----------------------------------------------------------------------------
(* Payments that are asked for once.                                       *)

(* Where the hash of a payment is: a transaction that is created, pending  *)
(* or in a template was asked for; what was created is in no template yet; *)
(* and what is pending is not in the chain, nor in that part of the block  *)
(* being added that was gone through.                                      *)
WhereHashesAre ==
    /\ \A p \in Payments : requests[p] = 0 =>
          /\ PaymentHash(p) \notin DOMAIN mempool
          /\ \A tx \in created : tx.hash # PaymentHash(p)
          /\ \A t \in mined : PaymentHash(p) \notin HashesOf(t)
    /\ \A tx \in created :
          /\ tx.hash \notin DOMAIN mempool
          /\ \A t \in mined : tx.hash \notin HashesOf(t)
    /\ \A tx, ty \in created : tx.hash = ty.hash => tx = ty
    /\ \A h \in DOMAIN mempool : ~InChain(h)
    /\ adding # Unlocked =>
          \A h \in DOMAIN mempool \cap HashesOf(adding.block) :
              \E i \in adding.next..Len(adding.block.txs) : adding.block.txs[i].hash = h

(* anc gives the hashes of a block's ancestors.  No template has a payment *)
(* in common with an ancestor, for what it took from the mempool was not in*)
(* the chain that it continues.                                            *)
AncestorsOK(anc) ==
    /\ \A h \in 1..(nextHash - 1) : anc[h] \subseteq 1..(h - 1)
    /\ \A t \in mined : anc[t.hash] = anc[t.parent] \cup {t.parent}
    /\ \A k \in 1..Len(blocks) : anc[blocks[k].hash] = {blocks[j].hash : j \in 1..(k - 1)}
    /\ \A t, x \in mined : x.hash \in anc[t.hash] => HashesOf(t) \cap HashesOf(x) = {}

UniqueInv == WhereHashesAre /\ \E anc : AncestorsOK(anc)

(* The payments of a block are those of the template it was read from.     *)
LEMMA ChainTemplate ==
    ASSUME ShapeInv, NEW i \in 1..Len(blocks), NEW h \in HashesOf(blocks[i])
    PROVE  \E t \in mined : /\ ReadFrom(blocks[i], t) /\ blocks[i].hash = t.hash
                            /\ HashesOf(blocks[i]) = HashesOf(t)
<1>1. CASE i = 1
  <2>1. Len(blocks[i].txs) = 0
    BY <1>1 DEF ShapeInv, BlocksOK, GenesisBlock
  <2> QED BY <2>1 DEF HashesOf
<1>2. CASE i # 1
  <2>1. i \in 2..Len(blocks)
    BY <1>2, IsSeqProperties DEF ShapeInv, BlocksOK
  <2>2. PICK t \in mined : ReadFrom(blocks[i], t)
    BY <2>1 DEF ShapeInv, BlocksOK
  <2> QED BY <2>2, ReadSameHashes DEF ReadFrom
<1> QED BY <1>1, <1>2

(* So what is in no template is not in the chain, nor being added.         *)
LEMMA NotInTemplates ==
    ASSUME ShapeInv, NEW h, \A t \in mined : h \notin HashesOf(t)
    PROVE  ~InChain(h) /\ (adding # Unlocked => h \notin HashesOf(adding.block))
<1>1. ~InChain(h)
  BY ChainTemplate DEF InChain
<1>2. ASSUME adding # Unlocked PROVE h \notin HashesOf(adding.block)
  <2>1. PICK t \in mined : ReadFrom(adding.block, t)
    BY <1>2 DEF ShapeInv, AddingOK
  <2> QED BY <2>1, ReadSameHashes
<1> QED BY <1>1, <1>2

(* The templates of two blocks of the chain have no payment in common.     *)
LEMMA BlocksDisjoint ==
    ASSUME ShapeInv, NEW anc, AncestorsOK(anc),
           NEW i \in 1..Len(blocks), NEW j \in 1..Len(blocks), i < j
    PROVE  HashesOf(blocks[i]) \cap HashesOf(blocks[j]) = {}
<1> SUFFICES ASSUME NEW h \in HashesOf(blocks[i]) \cap HashesOf(blocks[j]) PROVE FALSE
  OBVIOUS
<1>1. PICK x \in mined : blocks[i].hash = x.hash /\ HashesOf(blocks[i]) = HashesOf(x)
  BY ChainTemplate
<1>2. PICK t \in mined : blocks[j].hash = t.hash /\ HashesOf(blocks[j]) = HashesOf(t)
  BY ChainTemplate
<1>3. i \in 1..(j - 1)
  BY IsSeqProperties DEF ShapeInv, BlocksOK
<1>4. x.hash \in anc[t.hash]
  <2>1. anc[blocks[j].hash] = {blocks[k].hash : k \in 1..(j - 1)}
    BY DEF AncestorsOK
  <2> QED BY <1>1, <1>2, <1>3, <2>1
<1>5. HashesOf(t) \cap HashesOf(x) = {}
  BY <1>4 DEF AncestorsOK
<1> QED BY <1>1, <1>2, <1>5

(* A hash is in the chain at most once.                                    *)
LEMMA ConfirmedAtMostOnce ==
    ASSUME ShapeInv, UniqueInv, NEW h
    PROVE  Cardinality(Confirmations(h)) \in {0, 1}
<1>1. PICK anc : AncestorsOK(anc)
  BY DEF UniqueInv
<1>2. ASSUME NEW c \in Confirmations(h)
      PROVE  /\ c = <<c[1], c[2]>> /\ c[1] \in 1..Len(blocks)
             /\ c[2] \in 1..Len(blocks[c[1]].txs) /\ blocks[c[1]].txs[c[2]].hash = h
             /\ h \in HashesOf(blocks[c[1]])
  <2>1. c = <<c[1], c[2]>> /\ c[1] \in 1..Len(blocks)
        /\ c[2] \in 1..Len(blocks[c[1]].txs) /\ blocks[c[1]].txs[c[2]].hash = h
    BY DEF Confirmations, Positions, Tx
  <2> QED BY <2>1 DEF HashesOf
<1>3. ASSUME NEW c \in Confirmations(h), NEW d \in Confirmations(h) PROVE c = d
  <2>1. c[1] = d[1]
    <3>1. c[1] \in Int /\ d[1] \in Int
      BY <1>2
    <3>2. ~(c[1] < d[1]) /\ ~(d[1] < c[1])
      BY <1>1, <1>2, BlocksDisjoint
    <3> QED BY <3>1, <3>2
  <2>2. PICK t \in mined : ReadFrom(blocks[c[1]], t)
    BY <1>2, ChainTemplate
  <2>3. c[2] \in 1..Len(t.txs) /\ d[2] \in 1..Len(t.txs)
        /\ t.txs[c[2]].hash = h /\ t.txs[d[2]].hash = h
    BY <1>2, <2>1, <2>2 DEF ReadFrom
  <2>4. c[2] = d[2]
    BY <2>3 DEF ShapeInv, MinedOK, IsTemplate
  <2> QED BY <1>2, <2>1, <2>4
<1>4. CASE Confirmations(h) = {}
  BY <1>4, FS_EmptySet
<1>5. CASE Confirmations(h) # {}
  <2>1. PICK c : c \in Confirmations(h)
    BY <1>5
  <2>2. Confirmations(h) = {c}
    BY <1>3, <2>1
  <2> QED BY <2>2, FS_Singleton
<1> QED BY <1>4, <1>5

LEMMA UniqueSuffices ==
    ASSUME ShapeInv, UniqueInv
    PROVE  ConfirmedAsOftenAsAsked
<1> SUFFICES ASSUME NEW p \in Payments
             PROVE  Cardinality(Confirmations(PaymentHash(p))) <= requests[p]
  BY DEF ConfirmedAsOftenAsAsked
<1>1. Cardinality(Confirmations(PaymentHash(p))) \in {0, 1} /\ requests[p] \in Nat
  BY ConfirmedAtMostOnce DEF ShapeInv, CallsOK
<1>2. CASE requests[p] = 0
  <2>1. \A t \in mined : PaymentHash(p) \notin HashesOf(t)
    BY <1>2 DEF UniqueInv, WhereHashesAre
  <2>2. Confirmations(PaymentHash(p)) = {}
    BY <2>1, NotInTemplates, ConfirmedInChain
  <2> QED BY <1>2, <2>2, FS_EmptySet
<1> QED BY <1>1, <1>2

LEMMA UniqueInit == Init => UniqueInv
<1> SUFFICES ASSUME Init PROVE UniqueInv
  OBVIOUS
<1>1. blocks = <<GenesisBlock>> /\ Len(blocks) = 1 /\ mined = {} /\ nextHash = 2
      /\ blocks[1] = GenesisBlock
  BY DEF Init
<1>2. WhereHashesAre
  BY DEF Init, WhereHashesAre
<1>3. AncestorsOK([h \in {1} |-> {}])
  BY <1>1 DEF AncestorsOK, GenesisBlock
<1> QED BY <1>2, <1>3 DEF UniqueInv

(* The ancestors of templates and blocks stay the same while no template is*)
(* made and no block appended.                                             *)
LEMMA AncestorsKept ==
    ASSUME NEW anc, AncestorsOK(anc), UNCHANGED <<blocks, mined, nextHash>>
    PROVE  AncestorsOK(anc)'
<1>1. /\ \A h \in 1..(nextHash' - 1) : anc[h] \subseteq 1..(h - 1)
      /\ \A t \in mined' : anc[t.hash] = anc[t.parent] \cup {t.parent}
  BY DEF AncestorsOK
<1>2. \A k \in 1..Len(blocks') : anc[blocks'[k].hash] = {blocks'[j].hash : j \in 1..(k - 1)}
  <2>1. \A k \in 1..Len(blocks) : anc[blocks[k].hash] = {blocks[j].hash : j \in 1..(k - 1)}
    BY DEF AncestorsOK
  <2>2. blocks' = blocks
    OBVIOUS
  <2> QED BY SMTT(30), <2>1, <2>2
<1>3. \A t, x \in mined' : x.hash \in anc[t.hash] => HashesOf(t) \cap HashesOf(x) = {}
  BY DEF AncestorsOK
<1> QED BY <1>1, <1>2, <1>3 DEF AncestorsOK

LEMMA UniqueCreateTransaction ==
    ASSUME ShapeInv, UniqueInv, ~PaymentsRepeat, NEW p \in Payments, CreateTransaction(p)
    PROVE  UniqueInv'
<1>1. PICK tx \in Transactions(p) : created' = created \cup {tx}
  BY DEF CreateTransaction
<1>2. tx.hash = PaymentHash(p)
  BY TransactionShape
<1>3. requests[p] = 0 /\ requests' = [requests EXCEPT ![p] = @ + 1]
      /\ UNCHANGED <<blocks, mempool, adding, mined, nextHash>>
  BY DEF CreateTransaction
<1>4. requests'[p] # 0 /\ \A q \in Payments : q # p => requests'[q] = requests[q]
  BY <1>3 DEF ShapeInv, CallsOK
<1>5. WhereHashesAre'
  <2>1. \A q \in Payments : requests'[q] = 0 =>
            requests[q] = 0 /\ tx.hash # PaymentHash(q)
    BY <1>2, <1>4, PaymentHashInjective
  <2>2. /\ tx.hash \notin DOMAIN mempool
        /\ \A ty \in created : ty.hash # tx.hash
        /\ \A t \in mined : tx.hash \notin HashesOf(t)
    BY <1>2, <1>3 DEF UniqueInv, WhereHashesAre
  <2> QED BY <1>1, <1>3, <2>1, <2>2 DEF UniqueInv, WhereHashesAre, InChain
<1> QED BY <1>3, <1>5, AncestorsKept DEF UniqueInv

LEMMA UniqueAddTransaction ==
    ASSUME ShapeInv, UniqueInv, NEW tx \in created, AddTransaction(tx)
    PROVE  UniqueInv'
<1>1. /\ DOMAIN mempool' = DOMAIN mempool \cup {tx.hash} /\ created' = created \ {tx}
      /\ UNCHANGED <<blocks, adding, mined, nextHash, requests>>
  BY DEF AddTransaction
<1>2. ~InChain(tx.hash) /\ (adding # Unlocked => tx.hash \notin HashesOf(adding.block))
  BY NotInTemplates DEF UniqueInv, WhereHashesAre
<1>3. WhereHashesAre'
  <2>1. \A ty \in created' : ty.hash # tx.hash
    BY <1>1 DEF UniqueInv, WhereHashesAre
  <2> QED BY <1>1, <1>2, <2>1 DEF UniqueInv, WhereHashesAre, InChain
<1> QED BY <1>1, <1>3, AncestorsKept DEF UniqueInv

LEMMA UniqueCreateNewBlock ==
    ASSUME ShapeInv, UniqueInv, NEW m \in Miners, NEW i \in 1..Len(blocks),
           CreateNewBlock(m, i)
    PROVE  UniqueInv'
<1>1. PICK t : /\ mined' = mined \cup {t} /\ t.hash = nextHash /\ t.parent = blocks[i].hash
               /\ HashesOf(t) \subseteq DOMAIN mempool \cup {<<NoAccount, m, nextHash>>}
  BY ShapeCreateNewBlock
<1>2. /\ nextHash' = nextHash + 1 /\ nextHash \in Nat \ {0, 1}
      /\ UNCHANGED <<blocks, mempool, adding, created, requests>>
  BY DEF CreateNewBlock, ShapeInv, MinedOK, calls
<1>3. PICK anc : AncestorsOK(anc)
  BY DEF UniqueInv
<1>0. PICK new :
          new = [h \in 1..nextHash |->
                    IF h = nextHash THEN anc[blocks[i].hash] \cup {blocks[i].hash}
                                    ELSE anc[h]]
  OBVIOUS
<1> DEFINE reward == <<NoAccount, m, nextHash>>
<1>4. \A x \in mined : x.hash \in 2..(nextHash - 1) /\ x.parent \in 1..(x.hash - 1)
  BY DEF ShapeInv, MinedOK, IsTemplate
<1>5. \A k \in 1..Len(blocks) : blocks[k].hash \in 1..(nextHash - 1)
  BY ChainHashes DEF ShapeInv
<1>6. /\ \A h \in 1..(nextHash - 1) : h \in 1..nextHash /\ h # nextHash
      /\ nextHash \in 1..nextHash
      /\ \A h : h \in 1..(nextHash' - 1) <=> h \in 1..(nextHash - 1) \/ h = nextHash
  BY <1>2
<1>7. /\ \A h \in 1..(nextHash - 1) : new[h] = anc[h]
      /\ new[nextHash] = anc[blocks[i].hash] \cup {blocks[i].hash}
  BY <1>0, <1>6
<1>8. reward \notin PaymentHashes
  BY <1>2, RewardHashes
<1>9. \A x \in mined : reward \notin HashesOf(x)
  <2>1. ASSUME NEW x \in mined, reward \in HashesOf(x) PROVE FALSE
    <3>1. PICK l \in Miners : reward = <<NoAccount, l, x.hash>>
      BY <2>1, <1>8 DEF ShapeInv, MinedOK, IsTemplate
    <3>2. x.hash = nextHash
      BY <3>1
    <3> QED BY <3>2, <1>2, <1>4
  <2> QED BY <2>1
<1> HIDE DEF reward
<1>10. WhereHashesAre'
  <2>1. ASSUME NEW p \in Payments, requests[p] = 0
        PROVE  PaymentHash(p) \notin HashesOf(t)
    BY <2>1, <1>1, <1>8 DEF UniqueInv, WhereHashesAre, PaymentHashes, reward
  <2>2. ASSUME NEW tx \in created
        PROVE  tx.hash \notin HashesOf(t)
    BY <1>1, <1>8 DEF UniqueInv, WhereHashesAre, ShapeInv, CallsOK, reward
  <2> QED BY <1>1, <1>2, <2>1, <2>2 DEF UniqueInv, WhereHashesAre, InChain
<1>11. ASSUME NEW h \in 1..(nextHash' - 1) PROVE new[h] \subseteq 1..(h - 1)
  <2>1. CASE h \in 1..(nextHash - 1)
    BY <2>1, <1>3, <1>7 DEF AncestorsOK
  <2>2. CASE h = nextHash
    <3>1. blocks[i].hash \in 1..(nextHash - 1)
      BY <1>5
    <3>2. anc[blocks[i].hash] \subseteq 1..(blocks[i].hash - 1)
      BY <1>3, <3>1 DEF AncestorsOK
    <3>3. 1..(blocks[i].hash - 1) \subseteq 1..(nextHash - 1)
      BY <1>2, <3>1
    <3> QED BY <2>2, <1>7, <3>1, <3>2, <3>3
  <2> QED BY <1>6, <2>1, <2>2
<1>12. ASSUME NEW x \in mined' PROVE new[x.hash] = new[x.parent] \cup {x.parent}
  <2>1. CASE x \in mined
    <3>1. x.hash \in 1..(nextHash - 1) /\ x.parent \in 1..(nextHash - 1)
      BY <2>1, <1>2, <1>4
    <3> QED BY <2>1, <3>1, <1>3, <1>7 DEF AncestorsOK
  <2>2. CASE x = t
    BY <2>2, <1>1, <1>5, <1>7
  <2> QED BY <1>1, <2>1, <2>2
<1>13. ASSUME NEW k \in 1..Len(blocks)
       PROVE  new[blocks[k].hash] = {blocks[j].hash : j \in 1..(k - 1)}
  BY <1>3, <1>5, <1>7 DEF AncestorsOK
<1>14. ASSUME NEW x \in mined', NEW y \in mined', y.hash \in new[x.hash]
       PROVE  HashesOf(x) \cap HashesOf(y) = {}
  <2>1. x.hash \in 1..(nextHash' - 1) /\ y.hash \in 1..(x.hash - 1)
    <3>1. x.hash \in 1..(nextHash' - 1)
      BY <1>1, <1>2, <1>4
    <3> QED BY <3>1, <1>11, <1>14
  <2>2. y \in mined
    <3>1. y.hash # nextHash
      BY <1>2, <2>1
    <3> QED BY <1>1, <3>1
  <2>3. CASE x \in mined
    <3>1. x.hash \in 1..(nextHash - 1)
      BY <1>2, <1>4, <2>3
    <3> QED BY <1>3, <1>7, <1>14, <2>2, <2>3, <3>1 DEF AncestorsOK
  <2>4. CASE x = t
    <3>1. y.hash \in anc[blocks[i].hash] \cup {blocks[i].hash}
      BY <1>1, <1>7, <1>14, <2>4
    <3>2. PICK j \in 1..Len(blocks) : blocks[j].hash = y.hash
      <4>1. CASE y.hash = blocks[i].hash
        BY <4>1
      <4>2. CASE y.hash \in anc[blocks[i].hash]
        <5>0. anc[blocks[i].hash] = {blocks[k].hash : k \in 1..(i - 1)}
          BY <1>3 DEF AncestorsOK
        <5>1. PICK j \in 1..(i - 1) : y.hash = blocks[j].hash
          BY <4>2, <5>0
        <5>2. j \in 1..Len(blocks)
          BY <5>1, IsSeqProperties DEF ShapeInv, BlocksOK
        <5> QED BY <5>1, <5>2
      <4> QED BY <3>1, <4>1, <4>2
    <3>3. j # 1
      BY <1>4, <2>2, <3>2 DEF ShapeInv, BlocksOK, GenesisBlock
    <3>4. HashesOf(blocks[j]) = HashesOf(y)
      <4>1. j \in 2..Len(blocks)
        BY <3>3, IsSeqProperties DEF ShapeInv, BlocksOK
      <4>2. PICK z \in mined : ReadFrom(blocks[j], z)
        BY <4>1 DEF ShapeInv, BlocksOK
      <4>3. z = y
        BY <4>2, <3>2, <2>2 DEF ShapeInv, MinedOK, ReadFrom
      <4> QED BY <4>2, <4>3, ReadSameHashes
    <3>5. \A h \in DOMAIN mempool : h \notin HashesOf(y)
      BY <3>4 DEF UniqueInv, WhereHashesAre, InChain
    <3> QED BY <1>1, <1>9, <2>2, <2>4, <3>5 DEF reward
  <2> QED BY <1>1, <2>3, <2>4
<1>15. AncestorsOK(new)'
  <2>1. \A k \in 1..Len(blocks') :
            new[blocks'[k].hash] = {blocks'[j].hash : j \in 1..(k - 1)}
    BY <1>2, <1>13
  <2> QED BY <1>11, <1>12, <1>14, <2>1 DEF AncestorsOK
<1> QED BY <1>10, <1>15 DEF UniqueInv

LEMMA UniqueSubmitBlock ==
    ASSUME ShapeInv, UniqueInv, NEW t \in mined, NEW format \in InputFormats,
           SubmitBlock(t, format)
    PROVE  UniqueInv'
<1>1. adding'.next = 1 /\ UNCHANGED <<blocks, mempool, mined, nextHash, requests, created>>
  BY ShapeSubmitBlock DEF SubmitBlock, calls
<1>2. WhereHashesAre'
  BY <1>1 DEF UniqueInv, WhereHashesAre, InChain, HashesOf
<1> QED BY <1>1, <1>2, AncestorsKept DEF UniqueInv

LEMMA UniqueApply ==
    ASSUME ShapeInv, UniqueInv, CreateOutput \/ \E k \in TxAt.inputs : SpendInput(k)
    PROVE  UniqueInv'
<1>1. /\ adding # Unlocked /\ adding'.next = adding.next /\ adding'.block = adding.block
      /\ UNCHANGED <<blocks, mempool, mined, nextHash, requests, created>>
  BY ShapeApply DEF calls
<1>2. WhereHashesAre'
  BY <1>1 DEF UniqueInv, WhereHashesAre, InChain
<1> QED BY <1>1, <1>2, AncestorsKept DEF UniqueInv

LEMMA UniqueRemoveTransaction ==
    ASSUME ShapeInv, UniqueInv, RemoveTransaction
    PROVE  UniqueInv'
<1>1. /\ IsAtTx /\ adding # Unlocked
      /\ adding'.next = adding.next + 1 /\ adding'.block = adding.block
      /\ DOMAIN mempool' = DOMAIN mempool \ {TxAt.hash}
      /\ UNCHANGED <<blocks, mined, nextHash, requests, created>>
  BY ShapeRemoveTransaction DEF calls
<1>2. ASSUME NEW h \in DOMAIN mempool' \cap HashesOf(adding.block)
      PROVE  \E i \in (adding.next + 1)..Len(adding.block.txs) : adding.block.txs[i].hash = h
  <2>1. PICK i \in adding.next..Len(adding.block.txs) : adding.block.txs[i].hash = h
    BY <1>1, <1>2 DEF UniqueInv, WhereHashesAre
  <2>2. i # adding.next
    BY <1>1, <1>2, <2>1 DEF TxAt
  <2>3. adding.next \in Nat /\ Len(adding.block.txs) \in Nat
    BY <1>1, AtTx DEF ShapeInv
  <2>4. i \in (adding.next + 1)..Len(adding.block.txs)
    BY <2>1, <2>2, <2>3
  <2> QED BY <2>1, <2>4
<1>3. WhereHashesAre'
  BY <1>1, <1>2 DEF UniqueInv, WhereHashesAre, InChain, HashesOf
<1> QED BY <1>1, <1>3, AncestorsKept DEF UniqueInv

LEMMA UniqueAppendBlock ==
    ASSUME ShapeInv, UniqueInv, AppendBlock
    PROVE  UniqueInv'
<1> DEFINE n == Len(blocks)
<1>1. /\ adding # Unlocked /\ adding' = Unlocked
      /\ adding.next = Len(adding.block.txs) + 1
      /\ n \in Nat /\ Len(blocks') = n + 1 /\ \A i \in 1..n : blocks'[i] = blocks[i]
      /\ blocks'[n + 1] = adding.block
  BY ShapeAppendBlock
<1>2. UNCHANGED <<mempool, mined, nextHash, requests, created>>
  BY DEF AppendBlock, calls
<1>3. PICK anc : AncestorsOK(anc)
  BY DEF UniqueInv
<1>4. n >= 1 /\ adding.block.parent = blocks[n].hash
  BY <1>1 DEF ShapeInv, BlocksOK, AddingOK, BestBlock
<1>5. anc[adding.block.hash] = anc[adding.block.parent] \cup {adding.block.parent}
  <2>1. PICK t \in mined : ReadFrom(adding.block, t)
    BY <1>1 DEF ShapeInv, AddingOK
  <2> QED BY <1>3, <2>1 DEF AncestorsOK, ReadFrom
<1>6. \A k \in 1..n : anc[blocks[k].hash] = {blocks[j].hash : j \in 1..(k - 1)}
  BY <1>3 DEF AncestorsOK
<1>7. \A h \in DOMAIN mempool : ~InChain(h) /\ h \notin HashesOf(adding.block)
  <2>1. Len(adding.block.txs) \in Nat
    BY <1>1, IsSeqProperties DEF ShapeInv, AddingOK, ReadFrom, IsBlock
  <2>2. ~ \E i \in adding.next..Len(adding.block.txs) : TRUE
    BY <1>1, <2>1
  <2> QED BY <1>1, <2>2 DEF UniqueInv, WhereHashesAre
<1> HIDE DEF n
<1>8. ASSUME NEW k \in 1..(n + 1)
      PROVE  anc[blocks'[k].hash] = {blocks'[j].hash : j \in 1..(k - 1)}
  <2>1. k \in 1..n \/ k = n + 1
    BY <1>1
  <2>2. CASE k \in 1..n
    <3>1. \A j \in 1..(k - 1) : j \in 1..n
      BY <1>1, <2>2
    <3>2. {blocks'[j].hash : j \in 1..(k - 1)} = {blocks[j].hash : j \in 1..(k - 1)}
      BY <1>1, <3>1
    <3> QED BY <1>1, <1>6, <2>2, <3>2
  <2>3. CASE k = n + 1
    <3>1. n \in 1..n /\ k - 1 = n /\ \A j : j \in 1..n <=> j \in 1..(n - 1) \/ j = n
      BY <1>1, <1>4, <2>3
    <3>2. anc[adding.block.hash] = {blocks[j].hash : j \in 1..(n - 1)} \cup {blocks[n].hash}
      BY <1>4, <1>5, <1>6, <3>1
    <3>3. {blocks'[j].hash : j \in 1..n} = {blocks[j].hash : j \in 1..n}
      BY <1>1
    <3>4. {blocks[j].hash : j \in 1..n}
          = {blocks[j].hash : j \in 1..(n - 1)} \cup {blocks[n].hash}
      BY <3>1
    <3> QED BY <1>1, <2>3, <3>1, <3>2, <3>3, <3>4
  <2> QED BY <2>1, <2>2, <2>3
<1>9. AncestorsOK(anc)'
  <2>1. \A k \in 1..Len(blocks') :
            anc[blocks'[k].hash] = {blocks'[j].hash : j \in 1..(k - 1)}
    BY <1>1, <1>8
  <2> QED BY <1>2, <1>3, <2>1 DEF AncestorsOK
<1>10. \A h \in DOMAIN mempool : ~InChain(h)'
  <2>1. ASSUME NEW h \in DOMAIN mempool, NEW k \in 1..(n + 1), h \in HashesOf(blocks'[k])
        PROVE  FALSE
    <3>1. CASE k \in 1..n
      <4>1. h \in HashesOf(blocks[k])
        BY <1>1, <2>1, <3>1
      <4> QED BY <1>7, <3>1, <4>1 DEF InChain, n
    <3>2. CASE k = n + 1
      BY <1>1, <1>7, <2>1, <3>2
    <3> QED BY <1>1, <3>1, <3>2
  <2> QED BY <1>1, <2>1 DEF InChain, HashesOf
<1>11. WhereHashesAre'
  BY <1>1, <1>2, <1>10 DEF UniqueInv, WhereHashesAre, HashesOf
<1> QED BY <1>9, <1>11 DEF UniqueInv

LEMMA UniqueRestart ==
    ASSUME ShapeInv, UniqueInv, Restarts
    PROVE  UniqueInv'
<1>0. PICK n \in 1..Len(blocks) :
          Len(blocks') = n /\ \A i \in 1..n : blocks'[i] = blocks[i]
  BY ShapeRestart
<1>1. /\ Len(blocks) \in Nat /\ Len(blocks') = n
      /\ \A i \in 1..n : blocks'[i] = blocks[i]
      /\ DOMAIN mempool' = {} /\ adding' = Unlocked /\ created' = {}
      /\ UNCHANGED <<mined, nextHash, requests>>
  BY <1>0, ShapeRestart
<1>2. PICK anc : AncestorsOK(anc)
  BY DEF UniqueInv
<1>3. ASSUME NEW k \in 1..n
      PROVE  anc[blocks'[k].hash] = {blocks'[j].hash : j \in 1..(k - 1)}
  <2>1. k \in 1..Len(blocks) /\ \A j \in 1..(k - 1) : j \in 1..n
    BY <1>1
  <2>2. {blocks'[j].hash : j \in 1..(k - 1)} = {blocks[j].hash : j \in 1..(k - 1)}
    BY <1>1, <2>1
  <2>3. anc[blocks[k].hash] = {blocks[j].hash : j \in 1..(k - 1)}
    BY <1>2, <2>1 DEF AncestorsOK
  <2> QED BY <1>1, <2>2, <2>3
<1>4. AncestorsOK(anc)'
  <2>1. \A k \in 1..Len(blocks') :
            anc[blocks'[k].hash] = {blocks'[j].hash : j \in 1..(k - 1)}
    BY <1>1, <1>3
  <2> QED BY <1>1, <1>2, <2>1 DEF AncestorsOK
<1>5. WhereHashesAre'
  BY <1>1 DEF UniqueInv, WhereHashesAre
<1> QED BY <1>4, <1>5 DEF UniqueInv

LEMMA UniqueStep ==
    ASSUME ~PaymentsRepeat
    PROVE  ShapeInv /\ UniqueInv /\ [Next]_vars => UniqueInv'
<1> SUFFICES ASSUME ShapeInv, UniqueInv, [Next]_vars PROVE UniqueInv'
  OBVIOUS
<1>1. ASSUME NEW p \in Payments, CreateTransaction(p) PROVE UniqueInv'
  BY <1>1, UniqueCreateTransaction
<1>2. ASSUME NEW tx \in created, AddTransaction(tx) PROVE UniqueInv'
  BY <1>2, UniqueAddTransaction
<1>3. ASSUME NEW m \in Miners, NEW i \in 1..Len(blocks), CreateNewBlock(m, i) PROVE UniqueInv'
  BY <1>3, UniqueCreateNewBlock
<1>4. ASSUME NEW b \in mined, NEW format \in InputFormats, SubmitBlock(b, format)
      PROVE  UniqueInv'
  BY <1>4, UniqueSubmitBlock
<1>5. CASE CreateOutput \/ \E k \in TxAt.inputs : SpendInput(k)
  BY <1>5, UniqueApply
<1>6. CASE RemoveTransaction
  BY <1>6, UniqueRemoveTransaction
<1>7. CASE AppendBlock
  BY <1>7, UniqueAppendBlock
<1>8. CASE Restarts
  BY <1>8, UniqueRestart
<1>9. CASE UNCHANGED vars
  <2>1. UNCHANGED <<blocks, mempool, adding, created, mined, nextHash, requests>>
    BY <1>9 DEF vars, calls
  <2>2. WhereHashesAre'
    BY <2>1 DEF UniqueInv, WhereHashesAre, InChain
  <2> QED BY <2>1, <2>2, AncestorsKept DEF UniqueInv
<1> QED BY <1>1, <1>2, <1>3, <1>4, <1>5, <1>6, <1>7, <1>8, <1>9, NextCases

(* When no payment is asked for twice, none is in the chain twice, and none*)
(* that nobody asked for, whichever templates it is in, however often they *)
(* are submitted, and whatever blocks a restart forgets.                   *)
THEOREM ConfirmedOnce ==
    ASSUME ~PaymentsRepeat
    PROVE  Spec => []ConfirmedAsOftenAsAsked
<1>1. Init => UniqueInv
  BY UniqueInit
<1>2. ShapeInv /\ UniqueInv /\ [Next]_vars => UniqueInv'
  BY UniqueStep
<1>3. ShapeInv /\ UniqueInv => ConfirmedAsOftenAsAsked
  BY UniqueSuffices
<1> QED BY <1>1, <1>2, <1>3, ShapeAlways, PTL DEF Spec

-----------------------------------------------------------------------------
(* Outputs, while the node runs.                                           *)

(* What a step may do with outputs: create new ones and spend old ones.    *)
KeepsOutputs ==
    \A k \in DOMAIN utxos :
        /\ k \in DOMAIN utxos'
        /\ utxos'[k].owner = utxos[k].owner /\ utxos'[k].amount = utxos[k].amount
        /\ utxos[k].spent => utxos'[k].spent

LEMMA KeysHash ==
    ASSUME NEW tx, NEW k \in Keys(tx)
    PROVE  k[1] = tx.hash
BY DEF Keys

(* v is what u becomes by transaction tx, or by the first n of txs: a key  *)
(* is an old one or of one of them, and an old one that none of them has   *)
(* has what it had.                                                        *)
AfterTx(u, v, tx) ==
    /\ DOMAIN v = DOMAIN u \cup Keys(tx)
    /\ \A k \in DOMAIN u : k[1] # tx.hash /\ k \notin tx.inputs => v[k] = u[k]

AfterTxs(u, v, txs, n) ==
    /\ \A k \in DOMAIN v : k \in DOMAIN u \/ \E j \in 1..n : k[1] = txs[j].hash
    /\ \A k \in DOMAIN u :
          /\ k \in DOMAIN v
          /\ (\A j \in 1..n : k[1] # txs[j].hash /\ k \notin txs[j].inputs) => v[k] = u[k]

LEMMA ProcessTxKeeps ==
    ASSUME NEW u, NEW tx
    PROVE  AfterTx(u, ProcessTx(u, tx), tx)
<1>1. DOMAIN ProcessTx(u, tx) = DOMAIN u \cup Keys(tx)
  BY DEF ProcessTx, Create, Spend
<1>2. ASSUME NEW k \in DOMAIN u, k[1] # tx.hash, k \notin tx.inputs
      PROVE  ProcessTx(u, tx)[k] = u[k]
  <2>1. k \notin Keys(tx)
    BY <1>2, KeysHash
  <2>2. k \in DOMAIN Spend(u, tx.inputs) /\ Spend(u, tx.inputs)[k] = u[k]
    BY <1>2 DEF Spend
  <2> QED BY <2>1, <2>2 DEF ProcessTx, Create
<1> QED BY <1>1, <1>2 DEF AfterTx

LEMMA PrefixKeeps ==
    ASSUME NEW u, NEW txs, IsSeq(txs), NEW n \in Nat, n <= Len(txs)
    PROVE  AfterTxs(u, ProcessTxs(u, First(txs, n)), txs, n)
<1> DEFINE v(i) == ProcessTxs(u, First(txs, i))
           N == {i \in Nat : i <= Len(txs) => AfterTxs(u, v(i), txs, i)}
<1>1. 0 \in N
  <2>1. v(0) = u
    BY ProcessNone
  <2> HIDE DEF v
  <2> QED BY <2>1 DEF AfterTxs
<1>2. ASSUME NEW i \in Nat, i \in N PROVE i + 1 \in N
  <2> SUFFICES ASSUME i + 1 <= Len(txs) PROVE AfterTxs(u, v(i + 1), txs, i + 1)
    OBVIOUS
  <2> DEFINE tx == txs[i + 1]
  <2>1. Len(txs) \in Nat
    BY IsSeqProperties
  <2>2. v(i + 1) = ProcessTx(v(i), tx) /\ AfterTxs(u, v(i), txs, i)
    BY <1>2, <2>1, ProcessOneMore
  <2> HIDE DEF v
  <2>3. AfterTx(v(i), v(i + 1), tx)
    BY <2>2, ProcessTxKeeps
  <2>4. i + 1 \in 1..(i + 1) /\ \A j \in 1..i : j \in 1..(i + 1)
    OBVIOUS
  <2>6. ASSUME NEW k \in DOMAIN v(i + 1)
        PROVE  k \in DOMAIN u \/ \E j \in 1..(i + 1) : k[1] = txs[j].hash
    <3>1. CASE k \in DOMAIN v(i)
      BY <2>2, <2>4, <3>1 DEF AfterTxs
    <3>2. CASE k \in Keys(tx)
      BY <2>4, <3>2, KeysHash
    <3> QED BY <2>3, <2>6, <3>1, <3>2 DEF AfterTx
  <2>7. ASSUME NEW k \in DOMAIN u PROVE k \in DOMAIN v(i + 1)
    BY <2>2, <2>3 DEF AfterTx, AfterTxs
  <2>8. ASSUME NEW k \in DOMAIN u,
               \A j \in 1..(i + 1) : k[1] # txs[j].hash /\ k \notin txs[j].inputs
        PROVE  v(i + 1)[k] = u[k]
    <3>1. v(i)[k] = u[k] /\ k \in DOMAIN v(i)
      BY <2>2, <2>4, <2>8 DEF AfterTxs
    <3>2. k[1] # tx.hash /\ k \notin tx.inputs
      BY <2>4, <2>8
    <3> QED BY <2>3, <3>1, <3>2 DEF AfterTx
  <2> QED BY <2>6, <2>7, <2>8 DEF AfterTxs
<1> HIDE DEF N
<1>3. Nat \subseteq N
  BY <1>1, <1>2, OfTxs!NumberInduction
<1> QED BY <1>3 DEF N

(* The keys that a chain leaves are of its transactions.                   *)
LEMMA ReplayKeys ==
    ASSUME NEW chain, IsSeq(chain), \A i \in 1..Len(chain) : IsSeq(chain[i].txs),
           NEW n \in Nat, n <= Len(chain)
    PROVE  \A k \in DOMAIN Replay(First(chain, n)) : \E i \in 1..n : k[1] \in HashesOf(chain[i])
<1> DEFINE u(i) == Replay(First(chain, i))
           P(i) == \A k \in DOMAIN u(i) : \E j \in 1..i : k[1] \in HashesOf(chain[j])
           N == {i \in Nat : i <= Len(chain) => P(i)}
<1>1. 0 \in N
  <2>1. u(0) = <<>> /\ DOMAIN <<>> = {}
    BY ReplayNone
  <2>2. P(0)
    BY <2>1
  <2> QED BY <2>2
<1>2. ASSUME NEW i \in Nat, i \in N PROVE i + 1 \in N
  <2> SUFFICES ASSUME i + 1 <= Len(chain) PROVE P(i + 1)
    OBVIOUS
  <2> DEFINE txs == chain[i + 1].txs
  <2>1. Len(chain) \in Nat /\ i < Len(chain) /\ i + 1 \in 1..Len(chain)
    BY IsSeqProperties
  <2>2. u(i + 1) = ProcessTxs(u(i), txs) /\ P(i) /\ IsSeq(txs)
    BY <1>2, <2>1, ReplayOneMore
  <2> HIDE DEF u
  <2>3. Len(txs) \in Nat /\ First(txs, Len(txs)) = txs
    BY <2>2, FirstIsAll, IsSeqProperties
  <2>4. \A k \in DOMAIN u(i + 1) : k \in DOMAIN u(i) \/ \E j \in 1..Len(txs) : k[1] = txs[j].hash
    <3> HIDE DEF txs
    <3>1. Len(txs) <= Len(txs)
      BY <2>3
    <3>2. AfterTxs(u(i), ProcessTxs(u(i), First(txs, Len(txs))), txs, Len(txs))
      BY <2>2, <2>3, <3>1, PrefixKeeps
    <3> QED BY <2>2, <2>3, <3>2 DEF AfterTxs
  <2>5. \A j \in 1..i : j \in 1..(i + 1)
    OBVIOUS
  <2>6. i + 1 \in 1..(i + 1)
    OBVIOUS
  <2> SUFFICES ASSUME NEW k \in DOMAIN u(i + 1)
               PROVE  \E j \in 1..(i + 1) : k[1] \in HashesOf(chain[j])
    OBVIOUS
  <2>7. CASE k \in DOMAIN u(i)
    BY <2>2, <2>5, <2>7
  <2>8. CASE \E j \in 1..Len(txs) : k[1] = txs[j].hash
    <3>1. k[1] \in HashesOf(chain[i + 1])
      BY <2>8 DEF HashesOf
    <3> QED BY <2>6, <3>1
  <2> QED BY <2>4, <2>7, <2>8
<1> HIDE DEF N, P
<1>3. Nat \subseteq N
  BY <1>1, <1>2, OfTxs!NumberInduction
<1>4. P(n)
  BY <1>3 DEF N
<1> QED BY <1>4 DEF P

(* So those of the UTXO set before a transaction are of the chain, or of   *)
(* transactions that were gone through.                                    *)
LEMMA KeysAreCreated ==
    ASSUME ShapeInv, IsAtTx, NEW k \in DOMAIN Applied
    PROVE  InChain(k[1]) \/ \E j \in 1..Done : adding.block.txs[j].hash = k[1]
<1>1. IsSeq(blocks) /\ Len(blocks) \in Nat
  BY IsSeqProperties DEF ShapeInv, BlocksOK
<1>2. \A x \in DOMAIN Replay(blocks) : InChain(x[1])
  <2>1. \A i \in 1..Len(blocks) : IsSeq(blocks[i].txs)
    BY ChainHashes DEF ShapeInv, IsBlock
  <2>2. First(blocks, Len(blocks)) = blocks /\ Len(blocks) <= Len(blocks)
    BY <1>1, FirstIsAll
  <2>3. \A x \in DOMAIN Replay(First(blocks, Len(blocks))) :
            \E i \in 1..Len(blocks) : x[1] \in HashesOf(blocks[i])
    BY <1>1, <2>1, <2>2, ReplayKeys
  <2> QED BY <2>2, <2>3 DEF InChain
<1>3. Done \in Nat /\ Done <= Len(adding.block.txs) /\ IsSeq(adding.block.txs)
  BY AtDone, AtTx DEF ShapeInv
<1>4. AfterTxs(Replay(blocks), Applied, adding.block.txs, Done)
  BY <1>3, PrefixKeeps DEF Applied
<1> QED BY <1>2, <1>4 DEF AfterTxs

(* No payment of the block being added is in the chain.                    *)
LEMMA AddingNotInChain ==
    ASSUME ShapeInv, UniqueInv, adding # Unlocked, NEW h \in HashesOf(adding.block)
    PROVE  ~InChain(h)
<1> SUFFICES ASSUME NEW i \in 1..Len(blocks), h \in HashesOf(blocks[i]) PROVE FALSE
  BY DEF InChain
<1>1. PICK anc : AncestorsOK(anc)
  BY DEF UniqueInv
<1>2. PICK x \in mined : blocks[i].hash = x.hash /\ HashesOf(blocks[i]) = HashesOf(x)
  BY ChainTemplate
<1>3. PICK t \in mined : ReadFrom(adding.block, t)
  BY DEF ShapeInv, AddingOK
<1>4. HashesOf(adding.block) = HashesOf(t) /\ t.parent = BestBlock.hash
  BY <1>3, ReadSameHashes DEF ShapeInv, AddingOK, ReadFrom
<1>5. x.hash \in anc[t.hash]
  <2>1. anc[t.hash] = anc[BestBlock.hash] \cup {BestBlock.hash}
    BY <1>1, <1>4 DEF AncestorsOK
  <2>2. Len(blocks) \in Nat /\ Len(blocks) \in 1..Len(blocks)
    BY IsSeqProperties DEF ShapeInv, BlocksOK
  <2>3. anc[BestBlock.hash] = {blocks[j].hash : j \in 1..(Len(blocks) - 1)}
    BY <1>1, <2>2 DEF AncestorsOK, BestBlock
  <2>4. i = Len(blocks) \/ i \in 1..(Len(blocks) - 1)
    BY <2>2
  <2> QED BY <1>2, <2>1, <2>3, <2>4 DEF BestBlock
<1>6. HashesOf(t) \cap HashesOf(x) = {}
  BY <1>1, <1>5 DEF AncestorsOK
<1> QED BY <1>2, <1>4, <1>6

(* An output is created for the first time.                                *)
LEMMA KeyIsNew ==
    ASSUME ShapeInv, UniqueInv, UtxosInv, ~givenUp, CreateOutput
    PROVE  <<TxAt.hash, adding.made>> \notin DOMAIN utxos
<1> DEFINE k == <<TxAt.hash, adding.made>>
<1>1. IsAtTx /\ adding # Unlocked /\ adding.made \in Nat
  BY DEF CreateOutput, IsAtTx, ShapeInv, AddingOK
<1>2. /\ Done \in Nat /\ Done < Len(adding.block.txs) /\ TxAt = adding.block.txs[Done + 1]
      /\ Done + 1 \in 1..Len(adding.block.txs) /\ Len(adding.block.txs) \in Nat
  BY <1>1, AtDone, AtTx DEF ShapeInv
<1>3. DOMAIN utxos = DOMAIN Applied \cup Made
  BY <1>1 DEF UtxosInv, Create, Spend
<1>4. k \notin Made
  <2>1. \A i \in 1..adding.made : i - 1 # adding.made
    BY <1>1
  <2> QED BY <2>1 DEF Made
<1>5. ~InChain(TxAt.hash)
  BY <1>1, AtTx, AddingNotInChain DEF ShapeInv
<1>6. \A j \in 1..Done : adding.block.txs[j].hash # TxAt.hash
  <2>1. \A j \in 1..Done : j \in 1..Len(adding.block.txs) /\ j # Done + 1
    BY <1>2
  <2> QED BY <1>1, <1>2, <2>1, AddingHashesDiffer
<1>7. k[1] = TxAt.hash
  OBVIOUS
<1>8. k \notin DOMAIN Applied
  <2> HIDE DEF k
  <2> QED BY <1>1, <1>5, <1>6, <1>7, KeysAreCreated
<1> QED BY <1>3, <1>4, <1>8

LEMMA KeepsSpendInput ==
    ASSUME TypesInv, NEW input, SpendInput(input)
    PROVE  KeepsOutputs
<1>1. utxos' = [k \in DOMAIN utxos |->
                   IF k \in {input} THEN [utxos[k] EXCEPT !.spent = TRUE] ELSE utxos[k]]
  BY DEF SpendInput, Spend
<1>2. ASSUME NEW k \in DOMAIN utxos
      PROVE  /\ utxos'[k].owner = utxos[k].owner /\ utxos'[k].amount = utxos[k].amount
             /\ utxos[k].spent => utxos'[k].spent
  <2>1. utxos[k] \in [owner : Accounts, amount : Nat, spent : BOOLEAN]
    BY DEF TypesInv, UtxosTyped
  <2>2. utxos'[k] = IF k \in {input} THEN [utxos[k] EXCEPT !.spent = TRUE] ELSE utxos[k]
    BY <1>1
  <2> DEFINE new == [utxos[k] EXCEPT !.spent = TRUE]
  <2>3. new.owner = utxos[k].owner /\ new.amount = utxos[k].amount /\ new.spent = TRUE
    BY <2>1
  <2> HIDE DEF new
  <2>4. utxos'[k] = new \/ utxos'[k] = utxos[k]
    BY <2>2 DEF new
  <2> QED BY <2>3, <2>4
<1>3. DOMAIN utxos' = DOMAIN utxos
  BY <1>1
<1> QED BY <1>2, <1>3 DEF KeepsOutputs

LEMMA KeepsCreateOutput ==
    ASSUME ShapeInv, UniqueInv, UtxosInv, ~givenUp, CreateOutput
    PROVE  KeepsOutputs
<1> DEFINE k == <<TxAt.hash, adding.made>>
<1>1. utxos' = Create(utxos, TxAt, {k}) /\ k \notin DOMAIN utxos
  BY KeyIsNew DEF CreateOutput
<1> HIDE DEF k
<1>2. \A x \in DOMAIN utxos : x \in DOMAIN utxos' /\ utxos'[x] = utxos[x]
  BY <1>1 DEF Create
<1> QED BY <1>2 DEF KeepsOutputs

LEMMA OutputsKept ==
    ASSUME ShapeInv, UniqueInv, UtxosInv, TypesInv, [Next]_vars, restarts' = restarts, ~givenUp
    PROVE  KeepsOutputs
<1>0. ~Restarts
  <2>1. restarts \in Nat
    BY LedgerAssumption DEF TypesInv
  <2> QED BY <2>1, ShapeRestart
<1>1. ASSUME UNCHANGED utxos PROVE KeepsOutputs
  BY <1>1 DEF KeepsOutputs
<1>2. CASE UNCHANGED vars
  BY <1>1, <1>2 DEF vars
<1>3. ASSUME NEW p \in Payments, CreateTransaction(p) PROVE UNCHANGED utxos
  BY <1>3 DEF CreateTransaction
<1>4. ASSUME NEW tx \in created, AddTransaction(tx) PROVE UNCHANGED utxos
  BY <1>4 DEF AddTransaction
<1>5. ASSUME NEW m \in Miners, NEW i \in 1..Len(blocks), CreateNewBlock(m, i)
      PROVE  UNCHANGED utxos
  BY <1>5 DEF CreateNewBlock
<1>6. ASSUME NEW t \in mined, NEW format \in InputFormats, SubmitBlock(t, format)
      PROVE  UNCHANGED utxos
  BY <1>6 DEF SubmitBlock
<1>7. RemoveTransaction \/ AppendBlock => UNCHANGED utxos
  BY DEF RemoveTransaction, NextTx, AppendBlock
<1> QED
  BY <1>0, <1>1, <1>2, <1>3, <1>4, <1>5, <1>6, <1>7, KeepsSpendInput, KeepsCreateOutput, NextCases

(* When no payment is asked for twice, no output is overwritten or unspent *)
(* while the node runs, whatever a restart left: each key is used for one  *)
(* output.                                                                 *)
THEOREM OutputsNeverChange ==
    ASSUME ~PaymentsRepeat
    PROVE  Spec => OutputsAreKept
<1>1. Init => UniqueInv
  BY UniqueInit
<1>2. ShapeInv /\ UniqueInv /\ [Next]_vars => UniqueInv'
  BY UniqueStep
<1>3. ShapeInv /\ UniqueInv /\ UtxosInv /\ TypesInv /\ [Next]_vars =>
          [restarts' = restarts /\ ~givenUp =>
              \A k \in DOMAIN utxos :
                  /\ k \in DOMAIN utxos'
                  /\ utxos'[k].owner = utxos[k].owner /\ utxos'[k].amount = utxos[k].amount
                  /\ utxos[k].spent => utxos'[k].spent]_vars
  BY OutputsKept DEF KeepsOutputs
<1> QED BY <1>1, <1>2, <1>3, ShapeAlways, TypesAlways, UtxosAlways, PTL DEF Spec, OutputsAreKept

-----------------------------------------------------------------------------
(* Amounts.                                                                *)
LEMMA AmountSame ==
    ASSUME NEW u, UtxosTyped(u), NEW v, NEW S \in SUBSET DOMAIN u,
           \A k \in S : k \in DOMAIN v /\ v[k].amount = u[k].amount
    PROVE  Amount(v, S) = Amount(u, S)
<1> DEFINE f == [k \in DOMAIN u |-> u[k].amount]
           g == [k \in DOMAIN v |-> v[k].amount]
<1>1. IsFiniteSet(S) /\ \A k \in S : f[k] \in Int /\ f[k] = g[k]
  BY FS_Subset DEF UtxosTyped
<1> HIDE DEF f, g
<1>2. SumFunctionOnSet(f, S) = SumFunctionOnSet(g, S)
  BY <1>1, SameSums, SameFinite, OfTxs!SumOfEqual
<1> QED BY <1>2 DEF Amount, f, g

LEMMA AmountOfUnion ==
    ASSUME NEW u, UtxosTyped(u), NEW S \in SUBSET DOMAIN u, NEW T \in SUBSET DOMAIN u,
           S \cap T = {}
    PROVE  Amount(u, S \cup T) = Amount(u, S) + Amount(u, T)
<1> DEFINE f == [k \in DOMAIN u |-> u[k].amount]
<1>1. IsFiniteSet(S) /\ IsFiniteSet(T) /\ \A k \in S \cup T : f[k] \in Int
  BY FS_Subset DEF UtxosTyped
<1> HIDE DEF f
<1>2. SumFunctionOnSet(f, S \cup T) = SumFunctionOnSet(f, S) + SumFunctionOnSet(f, T)
  <2>1. OfTxs!SumFunctionOnSet(f, S \cup T)
        = OfTxs!SumFunctionOnSet(f, S) + OfTxs!SumFunctionOnSet(f, T)
    BY <1>1, SameFinite, OfTxs!SumOfUnion
  <2> QED BY <2>1, SameSums
<1> QED BY <1>2 DEF Amount, f

LEMMA AmountOfNone ==
    ASSUME NEW u
    PROVE  Amount(u, {}) = 0
BY SameSums, OfTxs!SumOfNone DEF Amount

LEMMA AmountOfOne ==
    ASSUME NEW u, UtxosTyped(u), NEW k \in DOMAIN u
    PROVE  Amount(u, {k}) = u[k].amount
<1> DEFINE f == [x \in DOMAIN u |-> u[x].amount]
           S == {k}
<1>0. IsFiniteSet(S)
  BY FS_Singleton
<1>2. f[k] = u[k].amount /\ f[k] \in Int
  BY DEF UtxosTyped
<1>1. IsFiniteSet(S) /\ (\A x \in S : f[x] \in Int) /\ k \in S /\ S \ {k} = {}
  <2> HIDE DEF f
  <2> QED BY <1>0, <1>2
<1>3. SumFunctionOnSet(f, S) = f[k] + SumFunctionOnSet(f, S \ {k})
  <2> HIDE DEF f, S
  <2> QED BY <1>1, SameSums, SameFinite, OfTxs!SumOfOneMore
<1>4. SumFunctionOnSet(f, S \ {k}) = 0
  <2> HIDE DEF f, S
  <2> QED BY <1>1, SameSums, OfTxs!SumOfNone
<1> HIDE DEF f
<1>5. Amount(u, {k}) = f[k] + 0
  BY <1>3, <1>4 DEF Amount, f
<1> QED BY <1>2, <1>5

-----------------------------------------------------------------------------
(* What one transaction does to a balance.                                 *)
Unspent(u, a) == {k \in DOMAIN u : u[k].owner = a /\ ~u[k].spent}
Balance(u, a) == Amount(u, Unspent(u, a))

Received(tx, a) == IF tx.to = a THEN tx.amount ELSE 0
Sent(tx, a) == IF tx.from = a THEN tx.amount + tx.fee ELSE 0
Change(tx, a) == IF tx.from = a /\ Len(tx.outputs) = 2 THEN tx.outputs[2].amount ELSE 0

(* The outputs that u holds are among those that there ever were.          *)
Fits(out, u) ==
    \A k \in DOMAIN u :
        k \in DOMAIN out /\ u[k].owner = out[k].owner /\ u[k].amount = out[k].amount

(* Those of transaction tx are, too.  They are the payment and the change, *)
(* and what it spends is its sender's, and worth no more than the payment, *)
(* the fee and the change.                                                 *)
CoveredBy(out, tx, S) ==
    /\ \A k \in S : out[k].owner = tx.from
    /\ \A k \in tx.inputs : k \in S \/ k[1] = ZeroHash
    /\ Amount(out, S) <= tx.amount + tx.fee + Change(tx, tx.from)

Good(out, tx) ==
    /\ \A k \in Keys(tx) :
          /\ k \in DOMAIN out
          /\ out[k].owner = tx.outputs[k[2] + 1].owner
          /\ out[k].amount = tx.outputs[k[2] + 1].amount
    /\ tx.outputs[1] = [owner |-> tx.to, amount |-> tx.amount]
    /\ Len(tx.outputs) = 2 => tx.outputs[2].owner = tx.from
    /\ \E S \in SUBSET DOMAIN out : CoveredBy(out, tx, S)

(* No output has the hash that an input has which was not read.            *)
NoZero(out) == \A k \in DOMAIN out : k[1] # ZeroHash

LEMMA AmountLess ==
    ASSUME NEW u, UtxosTyped(u), NEW S \in SUBSET DOMAIN u, NEW T \in SUBSET S
    PROVE  Amount(u, T) <= Amount(u, S)
<1> DEFINE R == S \ T
<1>1. T \in SUBSET DOMAIN u /\ R \in SUBSET DOMAIN u /\ T \cap R = {} /\ S = T \cup R
  OBVIOUS
<1> HIDE DEF R
<1>2. Amount(u, S) = Amount(u, T) + Amount(u, R) /\ Amount(u, T) \in Nat /\ Amount(u, R) \in Nat
  BY <1>1, AmountOfUnion, AmountType
<1> QED BY <1>2

LEMMA ProcessTxTyped ==
    ASSUME NEW u, UtxosTyped(u), NEW tx, TxTypeOK(tx)
    PROVE  UtxosTyped(ProcessTx(u, tx)) /\ DOMAIN ProcessTx(u, tx) = DOMAIN u \cup Keys(tx)
<1> DEFINE v == Spend(u, tx.inputs)
<1>1. UtxosTyped(v) /\ DOMAIN v = DOMAIN u
  BY SpendTyped
<1> HIDE DEF v
<1>2. UtxosTyped(Create(v, tx, Keys(tx))) /\ DOMAIN Create(v, tx, Keys(tx)) = DOMAIN u \cup Keys(tx)
  BY <1>1, CreateTyped
<1> QED BY <1>2 DEF ProcessTx, v

(* What an output is after a transaction.                                  *)
LEMMA ProcessTxValues ==
    ASSUME NEW u, UtxosTyped(u), NEW tx, TxTypeOK(tx), NEW v, v = ProcessTx(u, tx)
    PROVE  /\ \A k \in Keys(tx) : /\ v[k].owner = tx.outputs[k[2] + 1].owner /\ ~v[k].spent
                                  /\ v[k].amount = tx.outputs[k[2] + 1].amount
           /\ \A k \in DOMAIN u \ Keys(tx) :
                 /\ v[k].owner = u[k].owner /\ v[k].amount = u[k].amount
                 /\ v[k].spent <=> (u[k].spent \/ k \in tx.inputs)
<1>1. ASSUME NEW k \in Keys(tx)
      PROVE  /\ v[k].owner = tx.outputs[k[2] + 1].owner /\ ~v[k].spent
             /\ v[k].amount = tx.outputs[k[2] + 1].amount
  <2> DEFINE o == tx.outputs[k[2] + 1]
  <2>1. v[k] = [owner |-> o.owner, amount |-> o.amount, spent |-> FALSE]
    BY DEF ProcessTx, Create
  <2> HIDE DEF o
  <2>2. v[k].owner = o.owner /\ v[k].amount = o.amount /\ v[k].spent = FALSE
    BY <2>1
  <2> QED BY <2>2 DEF o
<1>2. ASSUME NEW k \in DOMAIN u \ Keys(tx)
      PROVE  /\ v[k].owner = u[k].owner /\ v[k].amount = u[k].amount
             /\ v[k].spent <=> (u[k].spent \/ k \in tx.inputs)
  <2>1. v[k] = Spend(u, tx.inputs)[k]
    BY DEF ProcessTx, Create, Spend
  <2>2. Spend(u, tx.inputs)[k] = IF k \in tx.inputs THEN [u[k] EXCEPT !.spent = TRUE] ELSE u[k]
    BY DEF Spend
  <2>3. u[k] \in [owner : Accounts, amount : Nat, spent : BOOLEAN]
    BY DEF UtxosTyped
  <2> DEFINE x == u[k]
             y == [x EXCEPT !.spent = TRUE]
  <2>4. y.owner = x.owner /\ y.amount = x.amount /\ y.spent = TRUE
    BY <2>3
  <2>5. v[k] = IF k \in tx.inputs THEN y ELSE x
    BY <2>1, <2>2
  <2> HIDE DEF x, y
  <2>6. CASE k \in tx.inputs
    BY <2>4, <2>5, <2>6 DEF x
  <2>7. CASE k \notin tx.inputs
    BY <2>5, <2>7 DEF x
  <2> QED BY <2>6, <2>7
<1> QED BY <1>1, <1>2

LEMMA FitsProcess ==
    ASSUME NEW out, NEW u, UtxosTyped(u), Fits(out, u), NEW tx, TxTypeOK(tx), Good(out, tx)
    PROVE  Fits(out, ProcessTx(u, tx))
<1>1. PICK v : v = ProcessTx(u, tx)
  OBVIOUS
<1>2. DOMAIN v = DOMAIN u \cup Keys(tx)
  BY <1>1, ProcessTxTyped
<1>3. ASSUME NEW k \in DOMAIN v
      PROVE  k \in DOMAIN out /\ v[k].owner = out[k].owner /\ v[k].amount = out[k].amount
  <2>1. CASE k \in Keys(tx)
    BY <1>1, <2>1, ProcessTxValues DEF Good
  <2>2. CASE k \in DOMAIN u \ Keys(tx)
    BY <1>1, <2>2, ProcessTxValues DEF Fits
  <2> QED BY <1>2, <2>1, <2>2
<1> QED BY <1>1, <1>3 DEF Fits

(* The outputs of tx that are for account a, in what u becomes by it.      *)
LEMMA AmountCreated ==
    ASSUME NEW u, UtxosTyped(u), NEW out, NEW tx, TxTypeOK(tx), Good(out, tx),
           NEW a \in Accounts, NEW v, v = ProcessTx(u, tx)
    PROVE  Amount(v, {k \in Keys(tx) : tx.outputs[k[2] + 1].owner = a})
           = Received(tx, a) + Change(tx, a)
<1> DEFINE put(i) == tx.outputs[i]
           key(i) == <<tx.hash, i - 1>>
           Mine(i) == IF put(i).owner = a THEN {key(i)} ELSE {}
           New == {k \in Keys(tx) : tx.outputs[k[2] + 1].owner = a}
<1> SUFFICES Amount(v, New) = Received(tx, a) + Change(tx, a)
  OBVIOUS
<1>1. UtxosTyped(v) /\ Keys(tx) \subseteq DOMAIN v
  BY ProcessTxTyped
<1>2. ASSUME NEW i \in 1..Len(tx.outputs)
      PROVE  /\ key(i) \in Keys(tx) /\ key(i)[2] + 1 = i /\ v[key(i)].amount = put(i).amount
             /\ put(i).amount \in Nat
  <2>1. i \in Int /\ put(i) \in [owner : Accounts, amount : Nat]
    <3>1. Len(tx.outputs) = 1 \/ Len(tx.outputs) = 2
      BY DEF TxTypeOK
    <3> QED BY <3>1 DEF TxTypeOK
  <2>2. key(i) \in Keys(tx) /\ key(i)[2] + 1 = i
    BY <2>1 DEF Keys
  <2>4. v[key(i)].amount = put(i).amount
    <3> HIDE DEF key
    <3> QED BY <2>2, ProcessTxValues
  <2> HIDE DEF put, key
  <2> QED BY <2>1, <2>2, <2>4 DEF put
<1>3. ASSUME NEW i \in 1..Len(tx.outputs)
      PROVE  /\ Mine(i) \in SUBSET DOMAIN v
             /\ Amount(v, Mine(i)) = IF put(i).owner = a THEN put(i).amount ELSE 0
  <2>1. key(i) \in DOMAIN v /\ v[key(i)].amount = put(i).amount
    BY <1>1, <1>2
  <2> HIDE DEF put, key
  <2> QED BY <1>1, <2>1, AmountOfOne, AmountOfNone
<1>4. CASE Len(tx.outputs) = 1
  <2>1. New = Mine(1)
    <3>1. Keys(tx) = {key(1)} /\ key(1)[2] + 1 = 1
      BY <1>4 DEF Keys
    <3> HIDE DEF key
    <3> QED BY <3>1
  <2>2. put(1).owner = tx.to /\ put(1).amount = tx.amount
    BY DEF Good
  <2>3. Change(tx, a) = 0 /\ tx.amount \in Nat
    BY <1>4 DEF Change, TxTypeOK
  <2>4. Amount(v, Mine(1)) = IF put(1).owner = a THEN put(1).amount ELSE 0
    BY <1>3, <1>4
  <2> HIDE DEF put, Mine, New
  <2> QED BY <2>1, <2>2, <2>3, <2>4 DEF Received
<1>5. CASE Len(tx.outputs) = 2
  <2>1. New = Mine(1) \cup Mine(2)
    <3>1. Keys(tx) = {key(1), key(2)} /\ key(1)[2] + 1 = 1 /\ key(2)[2] + 1 = 2
      <4>1. \A i : i \in 1..2 <=> i = 1 \/ i = 2
        OBVIOUS
      <4>2. key(1)[2] + 1 = 1 /\ key(2)[2] + 1 = 2
        OBVIOUS
      <4> HIDE DEF key
      <4>3. Keys(tx) = {key(i) : i \in 1..2}
        BY <1>5 DEF Keys, key
      <4> QED BY <4>1, <4>2, <4>3
    <3> HIDE DEF key
    <3> QED BY <3>1
  <2>2. Mine(1) \cap Mine(2) = {}
    <3>1. key(1) # key(2)
      OBVIOUS
    <3> HIDE DEF key
    <3> QED BY <3>1
  <2>3. Amount(v, Mine(1) \cup Mine(2)) = Amount(v, Mine(1)) + Amount(v, Mine(2))
    <3>1. Mine(1) \in SUBSET DOMAIN v /\ Mine(2) \in SUBSET DOMAIN v
      BY <1>3, <1>5
    <3> HIDE DEF Mine
    <3> QED BY <1>1, <2>2, <3>1, AmountOfUnion
  <2>4. /\ put(1).owner = tx.to /\ put(1).amount = tx.amount
        /\ put(2).owner = tx.from
    BY <1>5 DEF Good
  <2>5. /\ Amount(v, Mine(1)) = IF put(1).owner = a THEN put(1).amount ELSE 0
        /\ Amount(v, Mine(2)) = IF put(2).owner = a THEN put(2).amount ELSE 0
    BY <1>3, <1>5
  <2>6. Change(tx, a) = IF put(2).owner = a THEN put(2).amount ELSE 0
    BY <1>5, <2>4 DEF Change
  <2> HIDE DEF put, Mine, New
  <2> QED BY <2>1, <2>3, <2>4, <2>5, <2>6 DEF Received
<1> QED BY <1>4, <1>5 DEF TxTypeOK

(* It adds no less than account a receives, and takes no more than it sends*)
(* and the fee.                                                            *)
LEMMA BalanceOfTx ==
    ASSUME NEW out, UtxosTyped(out), NoZero(out),
           NEW u, UtxosTyped(u), Fits(out, u),
           NEW tx, TxTypeOK(tx), Good(out, tx), Keys(tx) \cap DOMAIN u = {},
           NEW a \in Accounts
    PROVE  Balance(ProcessTx(u, tx), a) >= Balance(u, a) + Received(tx, a) - Sent(tx, a)
<1>0. PICK v : v = ProcessTx(u, tx)
  OBVIOUS
<1> DEFINE New == {k \in Keys(tx) : tx.outputs[k[2] + 1].owner = a}
           Old == Unspent(u, a) \ tx.inputs
           Lost == Unspent(u, a) \cap tx.inputs
<1>1. UtxosTyped(v) /\ DOMAIN v = DOMAIN u \cup Keys(tx)
  BY <1>0, ProcessTxTyped
<1>2. \A k \in Keys(tx) : v[k].owner = tx.outputs[k[2] + 1].owner /\ ~v[k].spent
  BY <1>0, ProcessTxValues
<1>3. ASSUME NEW k \in DOMAIN u
      PROVE  /\ v[k].owner = u[k].owner /\ v[k].amount = u[k].amount
             /\ v[k].spent <=> (u[k].spent \/ k \in tx.inputs)
  <2>1. k \in DOMAIN u \ Keys(tx)
    OBVIOUS
  <2> QED BY <1>0, <2>1, ProcessTxValues
<1>4. Unspent(v, a) = Old \cup New
  <2>1. \A k \in DOMAIN u : k \in Unspent(v, a) <=> k \in Old
    BY <1>1, <1>3 DEF Unspent
  <2>2. \A k \in Keys(tx) : k \in Unspent(v, a) <=> k \in New
    BY <1>1, <1>2 DEF Unspent
  <2>3. Unspent(v, a) \subseteq DOMAIN u \cup Keys(tx) /\ Old \subseteq DOMAIN u /\ New \subseteq Keys(tx)
    BY <1>1 DEF Unspent
  <2>4. DOMAIN u \cap Keys(tx) = {}
    OBVIOUS
  <2> HIDE DEF Old, New
  <2> QED BY <2>1, <2>2, <2>3, <2>4
<1>5. /\ Old \in SUBSET DOMAIN v /\ New \in SUBSET DOMAIN v /\ Old \cap New = {}
      /\ Old \in SUBSET DOMAIN u /\ Lost \in SUBSET DOMAIN u /\ Old \cap Lost = {}
      /\ Unspent(u, a) = Old \cup Lost
  BY <1>1 DEF Unspent
<1>6. Balance(v, a) = Amount(v, Old) + Amount(v, New)
  <2> HIDE DEF Old, New
  <2> QED BY <1>1, <1>4, <1>5, AmountOfUnion DEF Balance
<1>7. Amount(v, New) = Received(tx, a) + Change(tx, a)
  BY <1>0, AmountCreated
<1>8. Amount(v, Old) = Amount(u, Old)
  <2>1. ASSUME NEW k \in Old
        PROVE  k \in DOMAIN v /\ v[k].amount = u[k].amount
    <3>1. k \in DOMAIN u
      BY DEF Unspent
    <3> QED BY <1>1, <1>3, <3>1
  <2> HIDE DEF Old
  <2> QED BY <1>5, <2>1, AmountSame
<1>9. Balance(u, a) = Amount(u, Old) + Amount(u, Lost)
  <2> HIDE DEF Old, Lost
  <2> QED BY <1>5, AmountOfUnion DEF Balance
<1>10. /\ Received(tx, a) \in Nat /\ Sent(tx, a) \in Nat /\ Change(tx, a) \in Nat
  <2>1. Received(tx, a) \in Nat /\ Sent(tx, a) \in Nat
    BY DEF Received, Sent, TxTypeOK
  <2>2. Change(tx, a) \in Nat
    <3>1. CASE Len(tx.outputs) = 2
      <4>1. tx.outputs[2] \in [owner : Accounts, amount : Nat]
        BY <3>1 DEF TxTypeOK
      <4> QED BY <4>1 DEF Change
    <3>2. CASE Len(tx.outputs) # 2
      BY <3>2 DEF Change
    <3> QED BY <3>1, <3>2
  <2> QED BY <2>1, <2>2
<1>11. Amount(u, Lost) <= Sent(tx, a) + Change(tx, a)
  <2>1. PICK S \in SUBSET DOMAIN out : CoveredBy(out, tx, S)
    BY DEF Good
  <2>2. Lost \subseteq S /\ \A k \in Lost : u[k].owner = tx.from
    BY <2>1 DEF Unspent, Fits, NoZero, CoveredBy
  <2>3. CASE tx.from = a
    <3>1. Amount(out, Lost) = Amount(u, Lost)
      <4>1. \A k \in Lost : k \in DOMAIN out /\ out[k].amount = u[k].amount
        BY <1>5 DEF Fits
      <4> HIDE DEF Lost
      <4> QED BY <1>5, <4>1, AmountSame
    <3>2. Amount(out, Lost) <= Amount(out, S) /\ Amount(out, Lost) \in Nat /\ Amount(out, S) \in Nat
      <4> HIDE DEF Lost
      <4>1. Lost \in SUBSET S /\ Lost \in SUBSET DOMAIN out
        BY <2>2
      <4> QED BY <4>1, AmountLess, AmountType
    <3>3. Amount(out, S) <= Sent(tx, a) + Change(tx, a)
      BY <2>1, <2>3 DEF CoveredBy, Sent
    <3> HIDE DEF Lost
    <3> QED BY <3>1, <3>2, <3>3, <1>10
  <2>4. CASE tx.from # a
    <3>1. Lost = {}
      BY <2>2, <2>4 DEF Unspent
    <3>2. Amount(u, Lost) = 0
      BY <3>1, AmountOfNone
    <3> HIDE DEF Lost
    <3> QED BY <3>2, <1>10
  <2> QED BY <2>3, <2>4
<1>12. Amount(u, Old) \in Nat /\ Amount(u, Lost) \in Nat
  <2> HIDE DEF Old, Lost
  <2> QED BY <1>5, AmountType
<1> HIDE DEF Old, New, Lost
<1>13. Balance(v, a) >= Balance(u, a) + Received(tx, a) - Sent(tx, a)
  BY <1>6, <1>7, <1>8, <1>9, <1>10, <1>11, <1>12
<1> QED BY <1>0, <1>13

-----------------------------------------------------------------------------
(* The outputs that there ever were cover the chain.                       *)

(* A block's transactions are good, and their hashes are new.              *)
NewHashes(u, txs) ==
    /\ \A k \in DOMAIN u : \A j \in 1..Len(txs) : k[1] # txs[j].hash
    /\ \A i, j \in 1..Len(txs) : txs[i].hash = txs[j].hash => i = j

AllGood(out, txs) == \A j \in 1..Len(txs) : Good(out, txs[j])

LEMMA KeysNewInTurn ==
    ASSUME NEW u, NEW txs, IsSeq(txs), NewHashes(u, txs), NEW n \in Nat, n < Len(txs)
    PROVE  Keys(txs[n + 1]) \cap DOMAIN ProcessTxs(u, First(txs, n)) = {}
<1> DEFINE v == ProcessTxs(u, First(txs, n))
<1>1. Len(txs) \in Nat /\ n <= Len(txs) /\ n + 1 \in 1..Len(txs)
  BY IsSeqProperties
<1>2. \A k \in DOMAIN v : k \in DOMAIN u \/ \E j \in 1..n : k[1] = txs[j].hash
  BY <1>1, PrefixKeeps DEF AfterTxs
<1> HIDE DEF v
<1>3. ASSUME NEW k \in Keys(txs[n + 1]), k \in DOMAIN v PROVE FALSE
  <2>1. k[1] = txs[n + 1].hash
    BY KeysHash
  <2>2. k \notin DOMAIN u
    BY <1>1, <2>1 DEF NewHashes
  <2>3. PICK j \in 1..n : k[1] = txs[j].hash
    BY <1>2, <1>3, <2>2
  <2>4. j \in 1..Len(txs) /\ j # n + 1
    BY <1>1
  <2> QED BY <1>1, <2>1, <2>3, <2>4 DEF NewHashes
<1> QED BY <1>3 DEF v

(* What is among the outputs stays so.                                     *)
LEMMA FitsPrefix ==
    ASSUME NEW out, NEW u, UtxosTyped(u), Fits(out, u), NEW txs, IsSeq(txs), TxsTyped(txs),
           AllGood(out, txs), NEW n \in Nat, n <= Len(txs)
    PROVE  Fits(out, ProcessTxs(u, First(txs, n)))
<1> DEFINE v(j) == ProcessTxs(u, First(txs, j))
           N == {j \in Nat : j <= Len(txs) => Fits(out, v(j))}
<1>1. 0 \in N
  <2>1. v(0) = u
    BY ProcessNone
  <2> HIDE DEF v
  <2> QED BY <2>1
<1>2. ASSUME NEW j \in Nat, j \in N PROVE j + 1 \in N
  <2> SUFFICES ASSUME j + 1 <= Len(txs) PROVE Fits(out, v(j + 1))
    OBVIOUS
  <2>1. Len(txs) \in Nat
    BY IsSeqProperties
  <2>2. j < Len(txs) /\ j <= Len(txs) /\ j + 1 \in 1..Len(txs)
    BY <2>1
  <2>3. Fits(out, v(j)) /\ UtxosTyped(v(j)) /\ v(j + 1) = ProcessTx(v(j), txs[j + 1])
    BY <1>2, <2>2, ProcessTyped, ProcessOneMore
  <2>4. Good(out, txs[j + 1]) /\ TxTypeOK(txs[j + 1])
    BY <2>2 DEF AllGood, TxsTyped
  <2> HIDE DEF v
  <2> QED BY <2>3, <2>4, FitsProcess
<1> HIDE DEF N
<1>3. Nat \subseteq N
  BY <1>1, <1>2, OfTxs!NumberInduction
<1> QED BY <1>3 DEF N

-----------------------------------------------------------------------------
(* The chain, as a ledger of accounts.                                     *)
TotalReceived(S, a) ==
    SumFunctionOnSet([c \in Positions |-> Tx(c).amount], {c \in S : Tx(c).to = a})
TotalSent(S, a) ==
    SumFunctionOnSet([c \in Positions |-> Tx(c).amount + Tx(c).fee], {c \in S : Tx(c).from = a})

LEMMA SumOfFilter ==
    ASSUME NEW f, NEW S, IsFiniteSet(S), NEW F \in SUBSET S, NEW c, c \notin S,
           \A x \in S \cup {c} : f[x] \in Int
    PROVE  /\ SumFunctionOnSet(f, F \cup {c}) = SumFunctionOnSet(f, F) + f[c]
           /\ SumFunctionOnSet(f, F) \in Int
<1>1. IsFiniteSet(F) /\ IsFiniteSet(F \cup {c}) /\ c \notin F
  BY FS_Subset, FS_AddElement
<1>2. (\A x \in F \cup {c} : f[x] \in Int) /\ f[c] \in Int
  OBVIOUS
<1> DEFINE G == F \cup {c}
<1>3. G \ {c} = F /\ c \in G
  BY <1>1
<1>4. SumFunctionOnSet(f, G) = f[c] + SumFunctionOnSet(f, G \ {c})
  <2>1. IsFiniteSet(G) /\ \A x \in G : f[x] \in Int
    BY <1>1, <1>2
  <2> HIDE DEF G
  <2>2. OfTxs!SumFunctionOnSet(f, G) = f[c] + OfTxs!SumFunctionOnSet(f, G \ {c})
    BY <1>3, <2>1, SameFinite, OfTxs!SumOfOneMore
  <2> QED BY <2>2, SameSums
<1>5. SumFunctionOnSet(f, F) \in Int
  BY <1>1, <1>2, SameSums, SameFinite, OfTxs!SumType
<1> HIDE DEF G
<1>6. SumFunctionOnSet(f, G) = f[c] + SumFunctionOnSet(f, F)
  BY <1>3, <1>4
<1> QED BY <1>2, <1>5, <1>6 DEF G

LEMMA TotalsOfOneMore ==
    ASSUME \A c \in Positions : TxTypeOK(Tx(c)), NEW S \in SUBSET Positions, IsFiniteSet(S),
           NEW c \in Positions, c \notin S, NEW a
    PROVE  /\ TotalReceived(S \cup {c}, a) = TotalReceived(S, a) + Received(Tx(c), a)
           /\ TotalSent(S \cup {c}, a) = TotalSent(S, a) + Sent(Tx(c), a)
           /\ TotalReceived(S, a) \in Int /\ TotalSent(S, a) \in Int
<1> DEFINE f == [x \in Positions |-> Tx(x).amount]
           g == [x \in Positions |-> Tx(x).amount + Tx(x).fee]
           F == {x \in S : Tx(x).to = a}
           G == {x \in S : Tx(x).from = a}
           F1 == {x \in S \cup {c} : Tx(x).to = a}
           G1 == {x \in S \cup {c} : Tx(x).from = a}
<1>1. \A x \in Positions : f[x] = Tx(x).amount /\ f[x] \in Int
  BY DEF TxTypeOK
<1>2. \A x \in Positions : g[x] = Tx(x).amount + Tx(x).fee /\ g[x] \in Int
  BY DEF TxTypeOK
<1>3. /\ Tx(c).to = a => F1 = F \cup {c}
      /\ Tx(c).to # a => F1 = F
      /\ Tx(c).from = a => G1 = G \cup {c}
      /\ Tx(c).from # a => G1 = G
  OBVIOUS
<1>4. F \in SUBSET S /\ G \in SUBSET S
  OBVIOUS
<1>5. TotalReceived(S, a) = SumFunctionOnSet(f, F) /\ TotalSent(S, a) = SumFunctionOnSet(g, G)
  BY DEF TotalReceived, TotalSent
<1>6. /\ TotalReceived(S \cup {c}, a) = SumFunctionOnSet(f, F1)
      /\ TotalSent(S \cup {c}, a) = SumFunctionOnSet(g, G1)
  BY DEF TotalReceived, TotalSent
<1>7. /\ SumFunctionOnSet(f, F \cup {c}) = SumFunctionOnSet(f, F) + f[c]
      /\ SumFunctionOnSet(f, F) \in Int
  <2> HIDE DEF f, F
  <2> QED BY <1>1, <1>4, SumOfFilter
<1>8. /\ SumFunctionOnSet(g, G \cup {c}) = SumFunctionOnSet(g, G) + g[c]
      /\ SumFunctionOnSet(g, G) \in Int
  <2> HIDE DEF g, G
  <2> QED BY <1>2, <1>4, SumOfFilter
<1> HIDE DEF f, g, F, G, F1, G1
<1>9. TotalReceived(S \cup {c}, a) = TotalReceived(S, a) + Received(Tx(c), a)
  <2>1. CASE Tx(c).to = a
    BY <1>1, <1>3, <1>5, <1>6, <1>7, <2>1 DEF Received
  <2>2. CASE Tx(c).to # a
    BY <1>3, <1>5, <1>6, <1>7, <2>2 DEF Received
  <2> QED BY <2>1, <2>2
<1>10. TotalSent(S \cup {c}, a) = TotalSent(S, a) + Sent(Tx(c), a)
  <2>1. CASE Tx(c).from = a
    BY <1>2, <1>3, <1>5, <1>6, <1>8, <2>1 DEF Sent
  <2>2. CASE Tx(c).from # a
    BY <1>3, <1>5, <1>6, <1>8, <2>2 DEF Sent
  <2> QED BY <2>1, <2>2
<1> QED BY <1>5, <1>7, <1>8, <1>9, <1>10

LEMMA TotalsOfNone ==
    ASSUME NEW a
    PROVE  TotalReceived({}, a) = 0 /\ TotalSent({}, a) = 0
<1>1. {c \in {} : Tx(c).to = a} = {} /\ {c \in {} : Tx(c).from = a} = {}
  OBVIOUS
<1> QED BY <1>1, SameSums, OfTxs!SumOfNone DEF TotalReceived, TotalSent

(* The transactions of the first i blocks, and of the next the first j.    *)
Before(i, j) == {c \in Positions : c[1] <= i \/ (c[1] = i + 1 /\ c[2] <= j)}

(* The balances that they leave are no less than in a ledger of accounts.  *)
LedgerCovers(u, S, a) ==
    IsFiniteSet(S) /\ Balance(u, a) >= TotalReceived(S, a) - TotalSent(S, a)

ChainFair(out) ==
    \A i \in Nat : i < Len(blocks) =>
        /\ AllGood(out, blocks[i + 1].txs)
        /\ NewHashes(Replay(First(blocks, i)), blocks[i + 1].txs)

ChainTyped ==
    /\ IsSeq(blocks)
    /\ \A i \in 1..Len(blocks) : IsSeq(blocks[i].txs) /\ TxsTyped(blocks[i].txs)

LEMMA PositionsTyped ==
    ASSUME ChainTyped
    PROVE  /\ \A c \in Positions : /\ TxTypeOK(Tx(c)) /\ c = <<c[1], c[2]>>
                                   /\ c[1] \in 1..Len(blocks) /\ c[2] \in 1..Len(blocks[c[1]].txs)
           /\ \A i \in 1..Len(blocks) : \A j \in 1..Len(blocks[i].txs) : <<i, j>> \in Positions
<1>1. ASSUME NEW c \in Positions
      PROVE  /\ TxTypeOK(Tx(c)) /\ c = <<c[1], c[2]>>
             /\ c[1] \in 1..Len(blocks) /\ c[2] \in 1..Len(blocks[c[1]].txs)
  <2>1. c = <<c[1], c[2]>> /\ c[1] \in 1..Len(blocks) /\ c[2] \in 1..Len(blocks[c[1]].txs)
    BY DEF Positions
  <2>2. TxTypeOK(Tx(c))
    BY <2>1 DEF Tx, ChainTyped, TxsTyped
  <2> QED BY <2>1, <2>2
<1>2. \A i \in 1..Len(blocks) : \A j \in 1..Len(blocks[i].txs) : <<i, j>> \in Positions
  BY DEF Positions
<1> QED BY <1>1, <1>2

LEMMA BalanceType ==
    ASSUME NEW u, UtxosTyped(u), NEW a
    PROVE  Balance(u, a) \in Int
<1>1. Unspent(u, a) \in SUBSET DOMAIN u
  BY DEF Unspent
<1>2. Amount(u, Unspent(u, a)) \in Nat
  BY <1>1, AmountType
<1> QED BY <1>2 DEF Balance

(* So does what a restart replays.                                         *)
LEMMA FitsReplay ==
    ASSUME ChainTyped, NEW out, \A i \in 1..Len(blocks) : AllGood(out, blocks[i].txs),
           NEW n \in Nat, n <= Len(blocks)
    PROVE  Fits(out, Replay(First(blocks, n)))
<1> DEFINE u(i) == Replay(First(blocks, i))
           N == {i \in Nat : i <= Len(blocks) => Fits(out, u(i))}
<1>0. IsSeq(blocks) /\ Len(blocks) \in Nat
  BY IsSeqProperties DEF ChainTyped
<1>1. 0 \in N
  <2>1. u(0) = <<>>
    BY <1>0, ReplayNone
  <2>2. Fits(out, <<>>)
    <3>1. DOMAIN <<>> = {}
      OBVIOUS
    <3> QED BY <3>1 DEF Fits
  <2> HIDE DEF u
  <2> QED BY <2>1, <2>2
<1>2. ASSUME NEW i \in Nat, i \in N PROVE i + 1 \in N
  <2> SUFFICES ASSUME i + 1 <= Len(blocks) PROVE Fits(out, u(i + 1))
    OBVIOUS
  <2> DEFINE txs == blocks[i + 1].txs
  <2>1. i < Len(blocks) /\ i <= Len(blocks) /\ i + 1 \in 1..Len(blocks)
    BY <1>0
  <2>2. Fits(out, u(i)) /\ UtxosTyped(u(i))
    BY <1>0, <1>2, <2>1, ReplayTyped DEF ChainTyped
  <2>3. IsSeq(txs) /\ TxsTyped(txs) /\ AllGood(out, txs)
    BY <2>1 DEF ChainTyped
  <2>4. Len(txs) \in Nat /\ First(txs, Len(txs)) = txs
    BY <2>3, FirstIsAll, IsSeqProperties
  <2>5. u(i + 1) = ProcessTxs(u(i), txs)
    BY <1>0, <2>1, ReplayOneMore
  <2> HIDE DEF u, txs
  <2>6. Fits(out, ProcessTxs(u(i), First(txs, Len(txs))))
    BY <2>2, <2>3, <2>4, FitsPrefix
  <2> QED BY <2>4, <2>5, <2>6
<1> HIDE DEF N
<1>3. Nat \subseteq N
  BY <1>1, <1>2, OfTxs!NumberInduction
<1> QED BY <1>3 DEF N

LEMMA CoversInBlock ==
    ASSUME ChainTyped, NEW out, UtxosTyped(out), NoZero(out), ChainFair(out),
           NEW a \in Accounts, NEW i \in Nat, i < Len(blocks), Fits(out, Replay(First(blocks, i))),
           LedgerCovers(Replay(First(blocks, i)), Before(i, 0), a)
    PROVE  LedgerCovers(Replay(First(blocks, i + 1)), Before(i, Len(blocks[i + 1].txs)), a)
<1> DEFINE txs == blocks[i + 1].txs
           u == Replay(First(blocks, i))
           v(j) == ProcessTxs(u, First(txs, j))
           N == {j \in Nat : j <= Len(txs) => LedgerCovers(v(j), Before(i, j), a)}
<1>1. i + 1 \in 1..Len(blocks) /\ i <= Len(blocks) /\ IsSeq(blocks)
  BY IsSeqProperties DEF ChainTyped
<1>2. IsSeq(txs) /\ TxsTyped(txs) /\ Len(txs) \in Nat /\ First(txs, Len(txs)) = txs
  BY <1>1, FirstIsAll, IsSeqProperties DEF ChainTyped
<1>3. UtxosTyped(u)
  BY <1>1, ReplayTyped DEF ChainTyped
<1>4. AllGood(out, txs) /\ NewHashes(u, txs) /\ Fits(out, u)
  BY DEF ChainFair
<1>5. 0 \in N
  <2>1. v(0) = u
    BY <1>2, ProcessNone
  <2> HIDE DEF v
  <2> QED BY <2>1
<1>6. ASSUME NEW j \in Nat, j \in N PROVE j + 1 \in N
  <2> SUFFICES ASSUME j + 1 <= Len(txs) PROVE LedgerCovers(v(j + 1), Before(i, j + 1), a)
    OBVIOUS
  <2> DEFINE tx == txs[j + 1]
             c == <<i + 1, j + 1>>
             S == Before(i, j)
  <2>1. j < Len(txs) /\ j <= Len(txs) /\ j + 1 \in 1..Len(txs)
    BY <1>2
  <2>2. LedgerCovers(v(j), S, a)
    BY <1>6, <2>1
  <2>3. /\ Good(out, tx) /\ Fits(out, v(j)) /\ Keys(tx) \cap DOMAIN v(j) = {}
        /\ UtxosTyped(v(j)) /\ TxTypeOK(tx) /\ v(j + 1) = ProcessTx(v(j), tx)
    <3>1. UtxosTyped(v(j)) /\ TxTypeOK(tx) /\ v(j + 1) = ProcessTx(v(j), tx)
      <4> HIDE DEF txs, u
      <4> QED BY <1>2, <1>3, <2>1, ProcessTyped, ProcessOneMore DEF TxsTyped
    <3>2. Good(out, tx) /\ Fits(out, v(j)) /\ Keys(tx) \cap DOMAIN v(j) = {}
      <4> HIDE DEF txs, u
      <4> QED BY <1>2, <1>3, <1>4, <2>1, FitsPrefix, KeysNewInTurn DEF AllGood
    <3> QED BY <3>1, <3>2
  <2>4. Balance(v(j + 1), a) >= Balance(v(j), a) + Received(tx, a) - Sent(tx, a)
    <3> HIDE DEF v, tx
    <3> QED BY <2>3, BalanceOfTx
  <2>5. c \in Positions /\ Tx(c) = tx
    BY <1>1, <2>1, PositionsTyped DEF Tx
  <2>6. c \notin S /\ Before(i, j + 1) = S \cup {c} /\ S \in SUBSET Positions
    <3>1. \A x \in Positions : x = <<x[1], x[2]>> /\ x[1] \in Nat /\ x[2] \in Nat
      <4> TAKE x \in Positions
      <4>1. x = <<x[1], x[2]>> /\ x[1] \in 1..Len(blocks) /\ x[2] \in 1..Len(blocks[x[1]].txs)
        BY PositionsTyped
      <4>2. IsSeq(blocks[x[1]].txs)
        BY <4>1 DEF ChainTyped
      <4>3. Len(blocks) \in Nat /\ Len(blocks[x[1]].txs) \in Nat
        BY <1>1, <4>2, IsSeqProperties
      <4> QED BY <4>1, <4>3
    <3>2. \A x \in Positions : x[2] <= j + 1 <=> x[2] <= j \/ x[2] = j + 1
      BY <3>1
    <3>3. c \notin S
      BY DEF Before
    <3>4. \A x \in Positions : x[1] = i + 1 /\ x[2] = j + 1 <=> x = c
      BY <3>1
    <3> HIDE DEF c
    <3>5. \A x \in Positions : x \in Before(i, j + 1) <=> x \in S \/ x = c
      BY <3>2, <3>4 DEF Before
    <3>6. Before(i, j + 1) \subseteq Positions /\ S \subseteq Positions
      BY DEF Before
    <3> HIDE DEF S
    <3> QED BY <2>5, <3>3, <3>5, <3>6
  <2>7. /\ TotalReceived(S \cup {c}, a) = TotalReceived(S, a) + Received(tx, a)
        /\ TotalSent(S \cup {c}, a) = TotalSent(S, a) + Sent(tx, a)
        /\ TotalReceived(S, a) \in Int /\ TotalSent(S, a) \in Int
    <3>1. \A x \in Positions : TxTypeOK(Tx(x))
      BY PositionsTyped
    <3>2. IsFiniteSet(S)
      BY <2>2 DEF LedgerCovers
    <3> HIDE DEF S, c, tx
    <3> QED BY <2>5, <2>6, <3>1, <3>2, TotalsOfOneMore
  <2>8. /\ Received(tx, a) \in Int /\ Sent(tx, a) \in Int
        /\ Balance(v(j), a) \in Int /\ Balance(v(j + 1), a) \in Int
    <3>1. Received(tx, a) \in Int /\ Sent(tx, a) \in Int
      <4> HIDE DEF tx
      <4> QED BY <2>3 DEF Received, Sent, TxTypeOK
    <3>2. UtxosTyped(v(j + 1))
      <4> HIDE DEF v, tx
      <4> QED BY <2>3, ProcessTxTyped
    <3> HIDE DEF v
    <3>3. Balance(v(j), a) \in Int /\ Balance(v(j + 1), a) \in Int
      BY <2>3, <3>2, BalanceType
    <3> QED BY <3>1, <3>3
  <2>9. IsFiniteSet(S \cup {c}) /\ Balance(v(j), a) >= TotalReceived(S, a) - TotalSent(S, a)
    BY <2>2, FS_AddElement DEF LedgerCovers
  <2> HIDE DEF S, c, tx, v
  <2>10. Balance(v(j + 1), a) >= TotalReceived(S \cup {c}, a) - TotalSent(S \cup {c}, a)
    BY <2>4, <2>7, <2>8, <2>9
  <2> QED BY <2>6, <2>9, <2>10 DEF LedgerCovers
<1> HIDE DEF N
<1>7. Nat \subseteq N
  BY <1>5, <1>6, OfTxs!NumberInduction
<1>8. LedgerCovers(v(Len(txs)), Before(i, Len(txs)), a)
  <2>1. Len(txs) \in N /\ Len(txs) <= Len(txs)
    BY <1>2, <1>7
  <2> QED BY <2>1 DEF N
<1>9. v(Len(txs)) = Replay(First(blocks, i + 1))
  BY <1>1, <1>2, ReplayOneMore
<1> QED BY <1>8, <1>9

LEMMA BeforeEdges ==
    ASSUME ChainTyped
    PROVE  /\ Before(0, 0) = {} /\ Before(Len(blocks), 0) = Positions
           /\ \A i \in Nat : i < Len(blocks) => Before(i, Len(blocks[i + 1].txs)) = Before(i + 1, 0)
<1>1. ASSUME NEW x \in Positions
      PROVE  /\ x[1] \in Nat /\ x[1] >= 1 /\ x[1] <= Len(blocks)
             /\ x[2] \in Nat /\ x[2] >= 1 /\ x[2] <= Len(blocks[x[1]].txs)
  <2>1. x[1] \in 1..Len(blocks) /\ x[2] \in 1..Len(blocks[x[1]].txs)
    BY PositionsTyped
  <2>2. IsSeq(blocks[x[1]].txs) /\ IsSeq(blocks)
    BY <2>1 DEF ChainTyped
  <2>3. Len(blocks) \in Nat /\ Len(blocks[x[1]].txs) \in Nat
    BY <2>2, IsSeqProperties
  <2> QED BY <2>1, <2>3
<1>2. Before(0, 0) = {}
  <2>1. \A x \in Positions : ~(x[1] <= 0 \/ (x[1] = 0 + 1 /\ x[2] <= 0))
    BY <1>1
  <2> QED BY <2>1 DEF Before
<1>3. Before(Len(blocks), 0) = Positions
  BY <1>1 DEF Before
<1>4. ASSUME NEW i \in Nat, i < Len(blocks)
      PROVE  Before(i, Len(blocks[i + 1].txs)) = Before(i + 1, 0)
  <2>1. \A x \in Positions :
            (x[1] <= i \/ (x[1] = i + 1 /\ x[2] <= Len(blocks[i + 1].txs)))
            <=> (x[1] <= i + 1 \/ (x[1] = (i + 1) + 1 /\ x[2] <= 0))
    <3> TAKE x \in Positions
    <3>1. CASE x[1] = i + 1
      BY <1>1, <3>1
    <3>2. CASE x[1] # i + 1
      BY <1>1, <3>2
    <3> QED BY <3>1, <3>2
  <2> QED BY <2>1 DEF Before
<1> QED BY <1>2, <1>3, <1>4

LEMMA ChainCovers ==
    ASSUME ChainTyped, NEW out, UtxosTyped(out), NoZero(out), ChainFair(out), NEW a \in Accounts
    PROVE  LedgerCovers(Replay(blocks), Positions, a)
<1> DEFINE u(i) == Replay(First(blocks, i))
           N == {i \in Nat : i <= Len(blocks) => LedgerCovers(u(i), Before(i, 0), a)}
<1>1. IsSeq(blocks) /\ Len(blocks) \in Nat /\ First(blocks, Len(blocks)) = blocks
  BY FirstIsAll, IsSeqProperties DEF ChainTyped
<1>2. 0 \in N
  <2>1. u(0) = <<>> /\ Before(0, 0) = {}
    BY <1>1, ReplayNone, BeforeEdges
  <2>2. Unspent(<<>>, a) = {}
    <3>1. DOMAIN <<>> = {}
      OBVIOUS
    <3> QED BY <3>1 DEF Unspent
  <2>3. LedgerCovers(<<>>, {}, a)
    <3>1. Balance(<<>>, a) = 0
      BY <2>2, AmountOfNone DEF Balance
    <3>2. TotalReceived({}, a) = 0 /\ TotalSent({}, a) = 0 /\ 0 - 0 = 0
      BY TotalsOfNone
    <3>3. Balance(<<>>, a) >= TotalReceived({}, a) - TotalSent({}, a)
      BY <3>1, <3>2
    <3> QED BY <3>3, FS_EmptySet DEF LedgerCovers
  <2> HIDE DEF u
  <2> QED BY <2>1, <2>3
<1>3. ASSUME NEW i \in Nat, i \in N PROVE i + 1 \in N
  <2> SUFFICES ASSUME i + 1 <= Len(blocks) PROVE LedgerCovers(u(i + 1), Before(i + 1, 0), a)
    OBVIOUS
  <2>1. i < Len(blocks) /\ i <= Len(blocks)
    BY <1>1
  <2>2. LedgerCovers(u(i), Before(i, 0), a)
    BY <1>3, <2>1
  <2>3. Fits(out, u(i))
    <3>1. \A k \in 1..Len(blocks) : k - 1 \in Nat /\ k - 1 < Len(blocks) /\ (k - 1) + 1 = k
      BY <1>1
    <3>2. \A k \in 1..Len(blocks) : AllGood(out, blocks[k].txs)
      BY <3>1 DEF ChainFair
    <3> QED BY <2>1, <3>2, FitsReplay
  <2> QED BY <2>1, <2>2, <2>3, CoversInBlock, BeforeEdges
<1> HIDE DEF N
<1>4. Nat \subseteq N
  BY <1>2, <1>3, OfTxs!NumberInduction
<1>5. LedgerCovers(u(Len(blocks)), Before(Len(blocks), 0), a)
  <2>1. Len(blocks) \in N /\ Len(blocks) <= Len(blocks)
    BY <1>1, <1>4
  <2> QED BY <2>1 DEF N
<1> QED BY <1>1, <1>5, BeforeEdges

-----------------------------------------------------------------------------
(* The outputs that there ever were: out grows when a payment is asked for *)
(* and when a reward is made, and never changes.                           *)

OutKeys(out) ==
    \A k \in DOMAIN out :
        \/ \E p \in Payments : k[1] = PaymentHash(p) /\ requests[p] # 0
        \/ \E m \in Miners, n \in 1..(nextHash - 1) : k[1] = <<NoAccount, m, n>>

TxsGood(out) ==
    /\ \A tx \in created : Good(out, tx)
    /\ \A h \in DOMAIN mempool : Good(out, mempool[h])
    /\ \A t \in mined : AllGood(out, t.txs)

OutOK(out) == UtxosTyped(out) /\ OutKeys(out) /\ TxsGood(out) /\ Fits(out, utxos)

OutInv == \E out : OutOK(out)

LEMMA NoZeroKeys ==
    ASSUME NEW out, OutKeys(out)
    PROVE  NoZero(out)
<1>1. ASSUME NEW k \in DOMAIN out PROVE k[1] # <<>>
  <2>1. CASE \E p \in Payments : k[1] = PaymentHash(p) /\ requests[p] # 0
    BY <2>1 DEF PaymentHash
  <2>2. CASE \E m \in Miners, n \in 1..(nextHash - 1) : k[1] = <<NoAccount, m, n>>
    BY <2>2
  <2> QED BY <2>1, <2>2 DEF OutKeys
<1> QED BY <1>1 DEF NoZero, ZeroHash

(* What was good stays good when there are more outputs.                   *)
Grows(out, new) == \A k \in DOMAIN out : k \in DOMAIN new /\ new[k] = out[k]

LEMMA GoodStays ==
    ASSUME NEW out, UtxosTyped(out), NEW new, Grows(out, new), NEW tx, Good(out, tx)
    PROVE  Good(new, tx)
<1>1. PICK S \in SUBSET DOMAIN out : CoveredBy(out, tx, S)
  BY DEF Good
<1>2. Amount(new, S) = Amount(out, S)
  BY AmountSame DEF Grows
<1>3. S \in SUBSET DOMAIN new /\ CoveredBy(new, tx, S)
  BY <1>1, <1>2 DEF Grows, CoveredBy
<1> QED BY <1>3 DEF Good, Grows

LEMMA AllStays ==
    ASSUME NEW out, UtxosTyped(out), TxsGood(out), Fits(out, utxos), NEW new, Grows(out, new)
    PROVE  TxsGood(new) /\ Fits(new, utxos)
<1>1. TxsGood(new)
  BY GoodStays DEF TxsGood, AllGood
<1>2. Fits(new, utxos)
  BY DEF Fits, Grows
<1> QED BY <1>1, <1>2

(* What submitBlock read is good, as the template was.                     *)
LEMMA GoodRead ==
    ASSUME NEW out, NEW b, NEW t, ReadFrom(b, t), AllGood(out, t.txs)
    PROVE  AllGood(out, b.txs)
<1> SUFFICES ASSUME NEW j \in 1..Len(b.txs) PROVE Good(out, b.txs[j])
  BY DEF AllGood
<1> DEFINE x == b.txs[j]
           y == t.txs[j]
<1>1. SameTx(x, y) /\ x.hash = y.hash /\ Good(out, y)
  BY DEF ReadFrom, AllGood
<1> HIDE DEF x, y
<1>2. Keys(x) = Keys(y)
  BY <1>1 DEF Keys, SameTx
<1>3. PICK S \in SUBSET DOMAIN out : CoveredBy(out, y, S)
  BY <1>1 DEF Good
<1>4. CoveredBy(out, x, S)
  <2>1. Change(x, x.from) = Change(y, y.from)
    BY <1>1 DEF Change, SameTx
  <2> QED BY <1>1, <1>3, <2>1 DEF CoveredBy, SameTx
<1>5. Good(out, x)
  BY <1>1, <1>2, <1>4 DEF Good, SameTx
<1> QED BY <1>5 DEF x

LEMMA AddingGood ==
    ASSUME ShapeInv, NEW out, TxsGood(out)
    PROVE  /\ adding # Unlocked => AllGood(out, adding.block.txs)
           /\ \A i \in 1..Len(blocks) : AllGood(out, blocks[i].txs)
<1>1. adding # Unlocked => AllGood(out, adding.block.txs)
  BY GoodRead DEF ShapeInv, AddingOK, TxsGood
<1>2. ASSUME NEW i \in 1..Len(blocks) PROVE AllGood(out, blocks[i].txs)
  <2>1. CASE i = 1
    <3>1. Len(GenesisBlock.txs) = 0 /\ blocks[i] = GenesisBlock
      BY <2>1 DEF GenesisBlock, ShapeInv, BlocksOK
    <3> QED BY <3>1 DEF AllGood
  <2>2. CASE i # 1
    <3>1. i \in 2..Len(blocks)
      BY <2>2, IsSeqProperties DEF ShapeInv, BlocksOK
    <3> QED BY <3>1, GoodRead DEF ShapeInv, BlocksOK, TxsGood
  <2> QED BY <2>1, <2>2
<1> QED BY <1>1, <1>2

(* A transaction whose keys are new adds its outputs.                      *)
LEMMA AddedGood ==
    ASSUME NEW out, UtxosTyped(out), NEW tx, TxTypeOK(tx), Keys(tx) \cap DOMAIN out = {},
           tx.outputs[1] = [owner |-> tx.to, amount |-> tx.amount],
           Len(tx.outputs) = 2 => tx.outputs[2].owner = tx.from,
           NEW S \in SUBSET DOMAIN out, CoveredBy(out, tx, S),
           NEW new, new = Create(out, tx, Keys(tx))
    PROVE  /\ UtxosTyped(new) /\ DOMAIN new = DOMAIN out \cup Keys(tx)
           /\ Grows(out, new) /\ Good(new, tx)
<1>1. UtxosTyped(new) /\ DOMAIN new = DOMAIN out \cup Keys(tx)
  BY CreateTyped
<1>2. Grows(out, new)
  BY DEF Grows, Create
<1>3. Amount(new, S) = Amount(out, S)
  BY <1>2, AmountSame DEF Grows
<1>4. S \in SUBSET DOMAIN new /\ CoveredBy(new, tx, S)
  BY <1>2, <1>3 DEF Grows, CoveredBy
<1>5. ASSUME NEW k \in Keys(tx)
      PROVE  /\ k \in DOMAIN new
             /\ new[k].owner = tx.outputs[k[2] + 1].owner
             /\ new[k].amount = tx.outputs[k[2] + 1].amount
  <2> DEFINE o == tx.outputs[k[2] + 1]
  <2>1. new[k] = [owner |-> o.owner, amount |-> o.amount, spent |-> FALSE]
    BY <1>1 DEF Create
  <2> HIDE DEF o
  <2>2. new[k].owner = o.owner /\ new[k].amount = o.amount
    BY <2>1
  <2> QED BY <1>1, <2>2 DEF o
<1> QED BY <1>1, <1>2, <1>4, <1>5 DEF Good

(* What CreateTransaction takes is the sender's, and goes into the payment,*)
(* the fee and the change.                                                 *)
LEMMA TransactionCovered ==
    ASSUME UtxosTyped(utxos), NEW out, UtxosTyped(out), Fits(out, utxos),
           NEW p \in Payments, NEW tx \in Transactions(p)
    PROVE  /\ tx.outputs[1] = [owner |-> tx.to, amount |-> tx.amount]
           /\ Len(tx.outputs) = 2 => tx.outputs[2].owner = tx.from
           /\ \E S \in SUBSET DOMAIN out : CoveredBy(out, tx, S)
<1>1. p \in [from : Accounts, to : Accounts, amount : Nat, fee : Nat]
  BY LedgerAssumption
<1> DEFINE need == p.amount + p.fee
           paid == [owner |-> p.to, amount |-> p.amount]
           change(S) == [owner |-> p.from, amount |-> Amount(utxos, S) - need]
<1>2. PICK S \in SUBSET GetUTXOs(p.from) :
         /\ Amount(utxos, S) >= need
         /\ tx = Transaction(p, S, IF Amount(utxos, S) - need > 0 THEN <<paid, change(S)>>
                                                                  ELSE <<paid>>)
  BY DEF Transactions, Suffices
<1>3. S \in SUBSET DOMAIN utxos /\ \A k \in S : utxos[k].owner = p.from
  BY DEF GetUTXOs
<1>4. S \in SUBSET DOMAIN out /\ \A k \in S : out[k].owner = p.from
  BY <1>3 DEF Fits
<1>5. Amount(out, S) = Amount(utxos, S) /\ Amount(utxos, S) \in Nat
  <2>1. \A k \in S : k \in DOMAIN out /\ out[k].amount = utxos[k].amount
    BY <1>3 DEF Fits
  <2> QED BY <1>3, <2>1, AmountSame, AmountType
<1>6. tx.from = p.from /\ tx.to = p.to /\ tx.amount = p.amount /\ tx.fee = p.fee /\ tx.inputs = S
  BY <1>2 DEF Transaction
<1>7. need \in Nat /\ need = tx.amount + tx.fee
  BY <1>1, <1>6
<1>8. paid = [owner |-> tx.to, amount |-> tx.amount]
  BY <1>6
<1>9. change(S).owner = tx.from /\ change(S).amount = Amount(utxos, S) - need
  BY <1>6
<1> HIDE DEF need, paid, change
<1>10. CASE Amount(utxos, S) - need > 0
  <2>1. tx.outputs = <<paid, change(S)>>
    BY <1>2, <1>10 DEF Transaction
  <2>2. Len(tx.outputs) = 2 /\ tx.outputs[1] = paid /\ tx.outputs[2] = change(S)
    BY <2>1
  <2>3. Change(tx, tx.from) = Amount(utxos, S) - need
    BY <1>9, <2>2 DEF Change
  <2>4. Amount(out, S) <= tx.amount + tx.fee + Change(tx, tx.from)
    <3>1. need + (Amount(utxos, S) - need) = Amount(utxos, S)
      BY <1>5, <1>7
    <3> QED BY <1>5, <1>7, <2>3, <3>1
  <2> QED BY <1>4, <1>6, <1>8, <1>9, <2>2, <2>4 DEF CoveredBy
<1>11. CASE ~(Amount(utxos, S) - need > 0)
  <2>1. tx.outputs = <<paid>>
    BY <1>2, <1>11 DEF Transaction
  <2>2. Len(tx.outputs) = 1 /\ tx.outputs[1] = paid
    BY <2>1
  <2>3. Change(tx, tx.from) = 0
    BY <2>2 DEF Change
  <2>4. Amount(out, S) <= tx.amount + tx.fee + Change(tx, tx.from)
    BY <1>5, <1>7, <1>11, <2>3
  <2> QED BY <1>4, <1>6, <1>8, <2>2, <2>4 DEF CoveredBy
<1> QED BY <1>10, <1>11

LEMMA RewardCovered ==
    ASSUME NEW out, NEW m \in Miners, NEW n \in Nat, NEW tx, tx = RewardTx(m, n)
    PROVE  /\ tx.outputs[1] = [owner |-> tx.to, amount |-> tx.amount]
           /\ Len(tx.outputs) = 1 /\ CoveredBy(out, tx, {})
<1>1. /\ tx.to = m /\ tx.amount = BlockReward /\ tx.fee = 0 /\ tx.inputs = {}
      /\ tx.outputs = <<[owner |-> m, amount |-> BlockReward]>>
  BY DEF RewardTx
<1>2. Len(tx.outputs) = 1 /\ tx.outputs[1] = [owner |-> m, amount |-> BlockReward]
  BY <1>1
<1>3. Change(tx, tx.from) = 0 /\ BlockReward \in Nat
  BY <1>2, LedgerAssumption DEF Change
<1>4. Amount(out, {}) <= tx.amount + tx.fee + Change(tx, tx.from)
  BY <1>1, <1>3, AmountOfNone
<1> QED BY <1>1, <1>2, <1>4 DEF CoveredBy

-----------------------------------------------------------------------------
LEMMA OutInit == Init => OutInv
<1> SUFFICES ASSUME Init PROVE OutOK(<<>>)
  BY DEF OutInv
<1>1. DOMAIN <<>> = {} /\ <<>> = [k \in DOMAIN <<>> |-> <<>>[k]]
  OBVIOUS
<1>2. UtxosTyped(<<>>)
  BY <1>1, FS_EmptySet DEF UtxosTyped
<1> QED BY <1>1, <1>2 DEF Init, OutOK, OutKeys, TxsGood, Fits

(* A payment that is asked for the first time has keys of its own.         *)
LEMMA OutCreateTransaction ==
    ASSUME ShapeInv, TypesInv, OutInv, ~PaymentsRepeat, NEW p \in Payments, CreateTransaction(p)
    PROVE  OutInv'
<1>1. PICK tx \in Transactions(p) : created' = created \cup {tx}
  BY DEF CreateTransaction
<1>2. requests[p] = 0 /\ requests' = [requests EXCEPT ![p] = @ + 1]
      /\ UNCHANGED <<utxos, mempool, mined, nextHash>>
  BY DEF CreateTransaction
<1>3. requests'[p] # 0 /\ \A q \in Payments : requests[q] # 0 => requests'[q] # 0
  BY <1>2 DEF ShapeInv, CallsOK
<1>4. PICK out : OutOK(out)
  BY DEF OutInv
<1>5. tx.hash = PaymentHash(p) /\ TxTypeOK(tx)
  BY TransactionShape, TransactionTyped DEF TypesInv
<1>6. Keys(tx) \cap DOMAIN out = {}
  <2>1. ASSUME NEW k \in Keys(tx), k \in DOMAIN out PROVE FALSE
    <3>1. k[1] = PaymentHash(p)
      BY <1>5, KeysHash
    <3>2. CASE \E q \in Payments : k[1] = PaymentHash(q) /\ requests[q] # 0
      BY <1>2, <3>1, <3>2, PaymentHashInjective
    <3>3. CASE \E m \in Miners, n \in 1..(nextHash - 1) : k[1] = <<NoAccount, m, n>>
      <4>1. PICK m \in Miners, n \in 1..(nextHash - 1) : k[1] = <<NoAccount, m, n>>
        BY <3>3
      <4>2. n \in Nat
        BY DEF ShapeInv, MinedOK
      <4>3. <<NoAccount, m, n>> \notin PaymentHashes
        BY <4>2, RewardHashes
      <4> QED BY <3>1, <4>1, <4>3 DEF PaymentHashes
    <3> QED BY <1>4, <2>1, <3>2, <3>3 DEF OutOK, OutKeys
  <2> QED BY <2>1
<1>7. PICK S \in SUBSET DOMAIN out : CoveredBy(out, tx, S)
  BY <1>4, TransactionCovered DEF OutOK, TypesInv
<1>8. PICK new : new = Create(out, tx, Keys(tx))
  OBVIOUS
<1>9. /\ UtxosTyped(new) /\ DOMAIN new = DOMAIN out \cup Keys(tx)
      /\ Grows(out, new) /\ Good(new, tx)
  <2>1. /\ tx.outputs[1] = [owner |-> tx.to, amount |-> tx.amount]
        /\ Len(tx.outputs) = 2 => tx.outputs[2].owner = tx.from
    BY <1>4, TransactionCovered DEF OutOK, TypesInv
  <2> QED BY <1>4, <1>5, <1>6, <1>7, <1>8, <2>1, AddedGood DEF OutOK
<1>10. TxsGood(new) /\ Fits(new, utxos)
  BY <1>4, <1>9, AllStays DEF OutOK
<1>11. TxsGood(new)' /\ Fits(new, utxos)'
  BY <1>1, <1>2, <1>9, <1>10 DEF TxsGood, AllGood, Fits
<1>12. OutKeys(new)'
  <2>1. \A k \in Keys(tx) : k[1] = PaymentHash(p)
    BY <1>5, KeysHash
  <2> QED BY <1>2, <1>3, <1>4, <1>9, <2>1 DEF OutOK, OutKeys
<1> QED BY <1>9, <1>11, <1>12 DEF OutInv, OutOK

LEMMA OutAddTransaction ==
    ASSUME OutInv, NEW tx \in created, AddTransaction(tx)
    PROVE  OutInv'
<1>1. PICK out : OutOK(out)
  BY DEF OutInv
<1>2. /\ mempool' = [h \in DOMAIN mempool \cup {tx.hash} |->
                       IF h = tx.hash THEN tx ELSE mempool[h]]
      /\ created' \subseteq created /\ UNCHANGED <<utxos, mined, nextHash, requests>>
  BY DEF AddTransaction
<1>3. \A h \in DOMAIN mempool' : mempool'[h] = tx \/ (h \in DOMAIN mempool /\ mempool'[h] = mempool[h])
  BY <1>2
<1>4. TxsGood(out)'
  BY <1>1, <1>2, <1>3 DEF OutOK, TxsGood, AllGood
<1> QED BY <1>1, <1>2, <1>4 DEF OutInv, OutOK, OutKeys, Fits

(* So has the reward of each template.                                     *)
LEMMA OutCreateNewBlock ==
    ASSUME ShapeInv, TypesInv, OutInv, NEW m \in Miners, NEW i \in 1..Len(blocks),
           CreateNewBlock(m, i)
    PROVE  OutInv'
<1> DEFINE tx == RewardTx(m, nextHash)
<1>1. PICK out : OutOK(out)
  BY DEF OutInv
<1>2. PICK t : MadeOf(t, m, i) /\ mined' = mined \cup {t}
  BY ShapeCreateNewBlock
<1>3. nextHash' = nextHash + 1 /\ UNCHANGED <<utxos, mempool, created, requests>>
      /\ nextHash \in Nat \ {0, 1}
  BY DEF CreateNewBlock, calls, ShapeInv, MinedOK
<1>4. TxTypeOK(tx) /\ tx.hash = <<NoAccount, m, nextHash>>
  BY <1>3, RewardTyped, RewardShape
<1>5. /\ tx.outputs[1] = [owner |-> tx.to, amount |-> tx.amount]
      /\ Len(tx.outputs) = 1 /\ CoveredBy(out, tx, {})
  BY <1>3, RewardCovered
<1> HIDE DEF tx
<1>6. Keys(tx) \cap DOMAIN out = {}
  <2>1. ASSUME NEW k \in Keys(tx), k \in DOMAIN out PROVE FALSE
    <3>1. k[1] = <<NoAccount, m, nextHash>>
      BY <1>4, KeysHash
    <3>2. CASE \E q \in Payments : k[1] = PaymentHash(q) /\ requests[q] # 0
      <4>1. nextHash \in Nat
        BY <1>3
      <4>2. <<NoAccount, m, nextHash>> \notin PaymentHashes
        BY <4>1, RewardHashes
      <4> QED BY <3>1, <3>2, <4>2 DEF PaymentHashes
    <3>3. CASE \E l \in Miners, n \in 1..(nextHash - 1) : k[1] = <<NoAccount, l, n>>
      <4>1. PICK l \in Miners, n \in 1..(nextHash - 1) : k[1] = <<NoAccount, l, n>>
        BY <3>3
      <4>2. n \in Nat /\ n # nextHash
        BY <1>3
      <4> QED BY <1>3, <3>1, <4>1, <4>2, RewardHashes
    <3> QED BY <1>1, <2>1, <3>2, <3>3 DEF OutOK, OutKeys
  <2> QED BY <2>1
<1>7. PICK new : new = Create(out, tx, Keys(tx))
  OBVIOUS
<1>8. /\ UtxosTyped(new) /\ DOMAIN new = DOMAIN out \cup Keys(tx)
      /\ Grows(out, new) /\ Good(new, tx)
  <2>1. {} \in SUBSET DOMAIN out /\ Len(tx.outputs) # 2 /\ UtxosTyped(out)
    BY <1>1, <1>5 DEF OutOK
  <2> QED BY <1>4, <1>5, <1>6, <1>7, <2>1, AddedGood
<1>9. TxsGood(new) /\ Fits(new, utxos)
  BY <1>1, <1>8, AllStays DEF OutOK
<1>10. AllGood(new, t.txs)
  <2>1. \A j \in 1..Len(t.txs) :
            t.txs[j] = tx \/ \E h \in DOMAIN mempool : t.txs[j] = mempool[h]
    BY <1>2, NewTemplate DEF ShapeInv, tx
  <2> QED BY <1>8, <1>9, <2>1 DEF AllGood, TxsGood
<1>11. TxsGood(new)' /\ Fits(new, utxos)'
  BY <1>2, <1>3, <1>9, <1>10 DEF TxsGood, AllGood, Fits
<1>12. OutKeys(new)'
  <2>1. \A k \in Keys(tx) : k[1] = <<NoAccount, m, nextHash>>
    BY <1>4, KeysHash
  <2>2. nextHash \in 1..(nextHash' - 1) /\ 1..(nextHash - 1) \subseteq 1..(nextHash' - 1)
    BY <1>3
  <2> QED BY <1>1, <1>3, <1>8, <2>1, <2>2 DEF OutOK, OutKeys
<1> QED BY <1>8, <1>11, <1>12 DEF OutInv, OutOK

(* Steps that make no transaction: what they write is among the outputs.   *)
LEMMA OutWrites ==
    ASSUME OutInv, UNCHANGED <<mined, nextHash, requests>>, created' \subseteq created,
           \A h \in DOMAIN mempool' : h \in DOMAIN mempool /\ mempool'[h] = mempool[h],
           \A out : OutOK(out) => Fits(out, utxos')
    PROVE  OutInv'
<1>1. PICK out : OutOK(out)
  BY DEF OutInv
<1>2. TxsGood(out)'
  BY <1>1 DEF OutOK, TxsGood, AllGood
<1>3. OutKeys(out)'
  BY <1>1 DEF OutOK, OutKeys
<1>4. Fits(out, utxos)'
  <2>1. Fits(out, utxos')
    BY <1>1
  <2> QED BY <2>1 DEF Fits
<1> QED BY <1>1, <1>2, <1>3, <1>4 DEF OutInv, OutOK

LEMMA OutApply ==
    ASSUME ShapeInv, TypesInv, OutInv, CreateOutput \/ \E k \in TxAt.inputs : SpendInput(k)
    PROVE  OutInv'
<1>1. UNCHANGED <<mempool, mined, nextHash, requests, created>> /\ IsAtTx /\ adding # Unlocked
  BY ShapeApply DEF calls
<1>2. ASSUME NEW out, OutOK(out) PROVE Fits(out, utxos')
  <2>1. ASSUME NEW k \in TxAt.inputs, SpendInput(k) PROVE Fits(out, utxos')
    <3>1. DOMAIN utxos' = DOMAIN utxos
      BY <2>1 DEF SpendInput, Spend
    <3>2. KeepsOutputs
      BY <2>1, KeepsSpendInput
    <3> QED BY <1>2, <3>1, <3>2 DEF OutOK, Fits, KeepsOutputs
  <2>2. CASE CreateOutput
    <3> DEFINE k == <<TxAt.hash, adding.made>>
               o == TxAt.outputs[k[2] + 1]
    <3>1. utxos' = Create(utxos, TxAt, {k}) /\ adding.made \in Nat /\ adding.made < Len(TxAt.outputs)
      BY <2>2, <1>1 DEF CreateOutput, ShapeInv, AddingOK
    <3>2. k \in Keys(TxAt)
      <4>1. Len(TxAt.outputs) \in Nat
        BY <1>1, AtTyped DEF TxTypeOK
      <4>2. adding.made + 1 \in 1..Len(TxAt.outputs) /\ (adding.made + 1) - 1 = adding.made
        BY <3>1, <4>1
      <4> QED BY <4>2 DEF Keys
    <3>3. Good(out, TxAt)
      <4>1. AllGood(out, adding.block.txs)
        BY <1>1, <1>2, AddingGood DEF OutOK
      <4> QED BY <1>1, <4>1, AtTx DEF AllGood, TxAt, ShapeInv
    <3>4. k \in DOMAIN out /\ out[k].owner = o.owner /\ out[k].amount = o.amount
      <4> HIDE DEF k
      <4> QED BY <3>2, <3>3 DEF Good
    <3>5. utxos'[k] = [owner |-> o.owner, amount |-> o.amount, spent |-> FALSE]
      <4> HIDE DEF k
      <4> QED BY <3>1 DEF Create
    <3>6. DOMAIN utxos' = DOMAIN utxos \cup {k} /\ \A x \in DOMAIN utxos \ {k} : utxos'[x] = utxos[x]
      <4> HIDE DEF k
      <4> QED BY <3>1 DEF Create
    <3> HIDE DEF k, o
    <3>7. utxos'[k].owner = o.owner /\ utxos'[k].amount = o.amount
      BY <3>5
    <3> QED BY <1>2, <3>4, <3>6, <3>7 DEF OutOK, Fits
  <2> QED BY <2>1, <2>2
<1> QED BY <1>1, <1>2, OutWrites

LEMMA ShapeChainTyped ==
    ASSUME ShapeInv, TypesInv
    PROVE  ChainTyped
BY ChainHashes DEF ChainTyped, ShapeInv, BlocksOK, IsBlock, TypesInv

LEMMA OutRestart ==
    ASSUME ShapeInv, TypesInv, OutInv, Restarts
    PROVE  OutInv'
<1>1. PICK n \in 1..Len(blocks) : utxos' = Replay(First(blocks, n))
  BY RestartReplays
<1>2. n \in Nat /\ n <= Len(blocks) /\ ChainTyped
  BY ShapeChainTyped, IsSeqProperties DEF ShapeInv, BlocksOK
<1>3. ASSUME NEW out, OutOK(out) PROVE Fits(out, utxos')
  <2>1. \A i \in 1..Len(blocks) : AllGood(out, blocks[i].txs)
    BY <1>3, AddingGood DEF OutOK
  <2> QED BY <1>1, <1>2, <2>1, FitsReplay
<1>4. /\ UNCHANGED <<mined, nextHash, requests>> /\ created' \subseteq created
      /\ DOMAIN mempool' = {}
  BY ShapeRestart
<1> QED BY <1>3, <1>4, OutWrites

LEMMA OutStep ==
    ASSUME ~PaymentsRepeat
    PROVE  ShapeInv /\ TypesInv /\ OutInv /\ [Next]_vars => OutInv'
<1> SUFFICES ASSUME ShapeInv, TypesInv, OutInv, [Next]_vars PROVE OutInv'
  OBVIOUS
<1>0. ASSUME UNCHANGED <<mined, nextHash, requests, created, mempool, utxos>> PROVE OutInv'
  <2>1. \A out : OutOK(out) => Fits(out, utxos')
    BY <1>0 DEF OutOK
  <2> QED BY <1>0, <2>1, OutWrites
<1>1. ASSUME NEW p \in Payments, CreateTransaction(p) PROVE OutInv'
  BY <1>1, OutCreateTransaction
<1>2. ASSUME NEW tx \in created, AddTransaction(tx) PROVE OutInv'
  BY <1>2, OutAddTransaction
<1>3. ASSUME NEW m \in Miners, NEW i \in 1..Len(blocks), CreateNewBlock(m, i) PROVE OutInv'
  BY <1>3, OutCreateNewBlock
<1>4. ASSUME NEW b \in mined, NEW format \in InputFormats, SubmitBlock(b, format) PROVE OutInv'
  BY <1>0, <1>4 DEF SubmitBlock, calls
<1>5. CASE CreateOutput \/ \E k \in TxAt.inputs : SpendInput(k)
  BY <1>5, OutApply
<1>6. CASE RemoveTransaction
  <2>1. /\ DOMAIN mempool' = DOMAIN mempool \ {TxAt.hash}
        /\ \A h \in DOMAIN mempool' : mempool'[h] = mempool[h]
        /\ UNCHANGED <<utxos, mined, nextHash, requests, created>>
    BY <1>6, ShapeRemoveTransaction DEF calls
  <2>2. \A out : OutOK(out) => Fits(out, utxos')
    BY <2>1 DEF OutOK
  <2> QED BY <2>1, <2>2, OutWrites
<1>7. CASE AppendBlock
  BY <1>0, <1>7 DEF AppendBlock, calls
<1>8. CASE Restarts
  BY <1>8, OutRestart
<1>9. CASE UNCHANGED vars
  BY <1>0, <1>9 DEF vars, calls
<1> QED BY <1>1, <1>2, <1>3, <1>4, <1>5, <1>6, <1>7, <1>8, <1>9, NextCases

(* The blocks of a chain have hashes that those before them have not.      *)
LEMMA ChainIsFair ==
    ASSUME ShapeInv, UniqueInv, TypesInv, NEW out, OutOK(out)
    PROVE  ChainFair(out)
<1>1. ChainTyped /\ Len(blocks) \in Nat
  BY ShapeChainTyped, IsSeqProperties DEF ChainTyped
<1> SUFFICES ASSUME NEW i \in Nat, i < Len(blocks)
             PROVE  /\ AllGood(out, blocks[i + 1].txs)
                    /\ NewHashes(Replay(First(blocks, i)), blocks[i + 1].txs)
  BY DEF ChainFair
<1> DEFINE u == Replay(First(blocks, i))
           n == i + 1
<1>2. n \in 1..Len(blocks) /\ i <= Len(blocks)
  BY <1>1
<1>3. AllGood(out, blocks[n].txs)
  BY <1>2, AddingGood DEF OutOK
<1>4. \A k \in DOMAIN u : \E x \in 1..i : k[1] \in HashesOf(blocks[x])
  <2>1. IsSeq(blocks) /\ \A x \in 1..Len(blocks) : IsSeq(blocks[x].txs)
    BY <1>1 DEF ChainTyped
  <2> QED BY <1>2, <2>1, ReplayKeys
<1> HIDE DEF u
<1>5. ASSUME NEW k \in DOMAIN u, NEW j \in 1..Len(blocks[n].txs) PROVE k[1] # blocks[n].txs[j].hash
  <2>1. PICK x \in 1..i : k[1] \in HashesOf(blocks[x])
    BY <1>4
  <2>2. x \in 1..Len(blocks) /\ x < n
    BY <1>1, <1>2
  <2>3. PICK anc : AncestorsOK(anc)
    BY DEF UniqueInv
  <2>4. HashesOf(blocks[x]) \cap HashesOf(blocks[n]) = {}
    BY <1>2, <2>2, <2>3, BlocksDisjoint
  <2> QED BY <2>1, <2>4 DEF HashesOf
<1>6. ASSUME NEW x \in 1..Len(blocks[n].txs), NEW y \in 1..Len(blocks[n].txs),
             blocks[n].txs[x].hash = blocks[n].txs[y].hash
      PROVE  x = y
  <2>1. CASE n = 1
    <3>1. Len(GenesisBlock.txs) = 0 /\ blocks[n] = GenesisBlock
      BY <2>1 DEF GenesisBlock, ShapeInv, BlocksOK
    <3> QED BY <3>1
  <2>2. CASE n # 1
    <3>1. n \in 2..Len(blocks)
      BY <1>1, <1>2, <2>2
    <3>2. PICK t \in mined : ReadFrom(blocks[n], t)
      BY <3>1 DEF ShapeInv, BlocksOK
    <3> QED BY <1>6, <3>2 DEF ReadFrom, ShapeInv, MinedOK, IsTemplate
  <2> QED BY <2>1, <2>2
<1> QED BY <1>3, <1>5, <1>6 DEF NewHashes, u

LEMMA BalancesCover ==
    ASSUME ShapeInv, UniqueInv, TypesInv, UtxosInv, OutInv
    PROVE  BalancesCoverAccounts
<1> SUFFICES ASSUME adding = Unlocked, ~givenUp, NEW a \in Accounts
             PROVE  GetBalance(a) >= TotalReceived(Positions, a) - TotalSent(Positions, a)
  <2>1. \A a \in Accounts : AccountBalance(a) = TotalReceived(Positions, a) - TotalSent(Positions, a)
    BY DEF AccountBalance, TotalReceived, TotalSent
  <2> QED BY <2>1 DEF BalancesCoverAccounts
<1>1. PICK out : OutOK(out)
  BY DEF OutInv
<1>2. LedgerCovers(Replay(blocks), Positions, a)
  BY <1>1, ShapeChainTyped, ChainIsFair, NoZeroKeys, ChainCovers DEF OutOK
<1>3. GetBalance(a) = Balance(utxos, a)
  BY DEF GetBalance, GetUTXOs, Balance, Unspent
<1> QED BY <1>2, <1>3 DEF UtxosInv, LedgerCovers

(* When no payment is asked for twice, no balance is below that of a ledger*)
(* of accounts while no block is being added: for any accounts, payments,  *)
(* amounts and fees, wallets that spend an output twice, submitters that   *)
(* the node does not understand, old templates and restarts.               *)
THEOREM BalancesAlwaysCover ==
    ASSUME ~PaymentsRepeat
    PROVE  Spec => []BalancesCoverAccounts
<1> DEFINE Inv == UniqueInv /\ OutInv
<1>1. Init => Inv
  BY UniqueInit, OutInit
<1>2. ShapeInv /\ TypesInv /\ Inv /\ [Next]_vars => Inv'
  BY UniqueStep, OutStep
<1>3. ShapeInv /\ TypesInv /\ UtxosInv /\ Inv => BalancesCoverAccounts
  BY BalancesCover
<1> HIDE DEF Inv
<1> QED BY <1>1, <1>2, <1>3, ShapeAlways, TypesAlways, UtxosAlways, PTL DEF Spec

=============================================================================

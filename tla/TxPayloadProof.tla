--------------------------- MODULE TxPayloadProof ---------------------------
(***************************************************************************)
(* Proofs about TxPayload: a signed payload is never longer than the size  *)
(* it announces, so that its fee pays for it, and it is exactly as long    *)
(* for every choice of lengths whose fields are not zero.                  *)
(*                                                                         *)
(* The invariant IInv says that what the serializer produces is at most    *)
(* what Size adds up, and the same number where no scalar is zero: for the *)
(* transaction at hand, for the inner transactions gathered so far, and    *)
(* hence for the aggregate made of them.                                   *)
(***************************************************************************)
EXTENDS TxPayload, TLAPS

USE DEF AddressSize, KeySize, Hash256, BaseInt64Size, SizeSize, SignatureSize,
        SignerSize, TransactionHeaderSize, OmittedSize, ByteSize

(* A transaction as the constructors make it: longer than what an inner    *)
(* transaction leaves out, and no longer than Size says.                   *)
Within(t) ==
    /\ t.kind \in {"plain", "versioning"}
    /\ t.bytes \in Nat /\ t.size \in Nat
    /\ OmittedSize < t.bytes /\ t.bytes <= t.size

(* One that is as long as Size says.                                       *)
Exact(t) == Within(t) /\ t.size = t.bytes

(* Types whose fields have one length: aliases, links, upgrades, supply    *)
(* changes and locks are as long as their size constant says.              *)
LEMMA FixedExact ==
    /\ Exact(AddressAliasTransaction) /\ Exact(MosaicAliasTransaction)
    /\ Exact(AccountLinkTransaction) /\ Exact(BlockchainUpgradeTransaction)
    /\ Exact(MosaicSupplyChangeTransaction) /\ Exact(LockFundsTransaction)
    /\ Exact(SecretLockTransaction)
BY DEF Exact, Within, Tx, Versioning, AddressAliasTransaction, MosaicAliasTransaction,
       AccountLinkTransaction, BlockchainUpgradeTransaction,
       MosaicSupplyChangeTransaction, LockFundsTransaction, SecretLockTransaction,
       AliasTransactionSize, aliasSchema, accountLinkSchema, blockchainUpgradeSchema,
       mosaicSupplyChangeSchema, lockFundsSchema, secretLockSchema

(* Types that repeat an entry: every entry is counted by Size as long as   *)
(* the serializer makes it, and the count of entries is a single byte.     *)
LEMMA CountedExact ==
    ASSUME NEW n \in Nat
    PROVE  /\ Exact(AccountPropertiesAddressTransaction(n))
           /\ Exact(AccountPropertiesMosaicTransaction(n))
           /\ Exact(AccountPropertiesEntityTypeTransaction(n))
           /\ Exact(ModifyMultisigAccountTransaction(n))
BY DEF Exact, Within, Tx, AccountPropertiesAddressTransaction,
       AccountPropertiesMosaicTransaction, AccountPropertiesEntityTypeTransaction,
       ModifyMultisigAccountTransaction, accountPropertySchema,
       modifyMultisigAccountSchema

(* A contract's three lists of members.                                    *)
LEMMA ContractExact ==
    ASSUME NEW c \in Nat, NEW e \in Nat, NEW v \in Nat
    PROVE  Exact(ModifyContractTransaction(c, e, v))
BY DEF Exact, Within, Tx, ModifyContractTransaction, modifyContractSchema

(* Metadata of an address, or of a mosaic or namespace.                    *)
LEMMA MetadataExact ==
    ASSUME NEW id \in {AddressSize, BaseInt64Size}, NEW n \in Nat,
           NEW key \in Nat, NEW value \in Nat
    PROVE  Exact(ModifyMetadataTransaction(id, n, key, value))
<1> DEFINE modifications == n * (4 + 1 + 1 + 2 + key + value)
<1>1. modifications \in Nat  OBVIOUS
<1>2. /\ modifyMetadataSchema(id, n, key, value) = 1 + id + modifications
      /\ MetadataModificationsSize(n, key, value) = modifications
  BY DEF modifyMetadataSchema, MetadataModificationsSize
<1> HIDE DEF modifications
<1> QED  BY <1>1, <1>2 DEF Exact, Within, Tx, ModifyMetadataTransaction

(* Names: the length of a name is a single byte.                           *)
LEMMA NamespaceExact ==
    ASSUME NEW name \in Nat
    PROVE  Exact(RegisterNamespaceTransaction(name))
BY DEF Exact, Within, Tx, RegisterNamespaceTransaction, registerNamespaceSchema

(* A mosaic definition, unless its nonce is zero, which shortens it.       *)
LEMMA MosaicDefinitionFits ==
    ASSUME NEW nonce \in Nat, NEW n \in Nat
    PROVE  /\ Within(MosaicDefinitionTransaction(nonce, n))
           /\ nonce # 0 => Exact(MosaicDefinitionTransaction(nonce, n))
BY DEF Exact, Within, Tx, MosaicDefinitionTransaction, mosaicDefinitionSchema, IntSize

(* A transfer, unless the length of its message wraps to zero.             *)
LEMMA TransferFits ==
    ASSUME NEW n \in Nat, NEW payload \in Nat
    PROVE  /\ Within(TransferTransaction(n, payload))
           /\ (payload + 1) % ShortLimit # 0 => Exact(TransferTransaction(n, payload))
BY DEF Exact, Within, Tx, TransferTransaction, transferSchema, ShortSize

(* A network configuration, unless one of its two lengths wraps to zero.   *)
LEMMA NetworkConfigFits ==
    ASSUME NEW c \in Nat, NEW e \in Nat
    PROVE  /\ Within(NetworkConfigTransaction(c, e))
           /\ c % ShortLimit # 0 /\ e % ShortLimit # 0 =>
                 Exact(NetworkConfigTransaction(c, e))
BY DEF Exact, Within, Versioning, NetworkConfigTransaction, networkConfigSchema, ShortSize

(* A secret proof, unless the length of the proof wraps to zero.           *)
LEMMA SecretProofFits ==
    ASSUME NEW proof \in Nat
    PROVE  /\ Within(SecretProofTransaction(proof))
           /\ proof % ShortLimit # 0 => Exact(SecretProofTransaction(proof))
BY DEF Exact, Within, Tx, SecretProofTransaction, secretProofSchema, ShortSize

(* Whatever the constructors accept is at most as long as its Size says,   *)
(* and exactly as long where no scalar is zero.                            *)
LEMMA TransactionsFit ==
    ASSUME NEW t \in Transactions
    PROVE  Within(t) /\ (NonzeroScalars => Exact(t))
<1>0. \/ t \in {AddressAliasTransaction, MosaicAliasTransaction,
                 AccountLinkTransaction, BlockchainUpgradeTransaction,
                 MosaicSupplyChangeTransaction, LockFundsTransaction,
                 SecretLockTransaction}
      \/ \E n \in Counts : \/ t = AccountPropertiesAddressTransaction(n)
                           \/ t = AccountPropertiesMosaicTransaction(n)
                           \/ t = AccountPropertiesEntityTypeTransaction(n)
                           \/ t = ModifyMultisigAccountTransaction(n)
      \/ \E c, e, v \in Counts : t = ModifyContractTransaction(c, e, v)
      \/ \E id \in {AddressSize, BaseInt64Size}, n \in Counts, key, value \in Texts :
            t = ModifyMetadataTransaction(id, n, key, value)
      \/ \E name \in Texts : t = RegisterNamespaceTransaction(name)
      \/ \E nonce \in Nonces, n \in Counts : t = MosaicDefinitionTransaction(nonce, n)
      \/ \E n \in Counts, payload \in Texts : t = TransferTransaction(n, payload)
      \/ \E c, e \in Blobs : t = NetworkConfigTransaction(c, e)
      \/ \E proof \in Blobs : t = SecretProofTransaction(proof)
  BY SMT DEF Transactions
<1> USE PayloadConstants
<1>1. CASE t \in {AddressAliasTransaction, MosaicAliasTransaction,
                  AccountLinkTransaction, BlockchainUpgradeTransaction,
                  MosaicSupplyChangeTransaction, LockFundsTransaction,
                  SecretLockTransaction}
  BY <1>1, FixedExact DEF Exact
<1>2. CASE \E n \in Counts : \/ t = AccountPropertiesAddressTransaction(n)
                             \/ t = AccountPropertiesMosaicTransaction(n)
                             \/ t = AccountPropertiesEntityTypeTransaction(n)
                             \/ t = ModifyMultisigAccountTransaction(n)
  <2>1. PICK n \in Counts : \/ t = AccountPropertiesAddressTransaction(n)
                            \/ t = AccountPropertiesMosaicTransaction(n)
                            \/ t = AccountPropertiesEntityTypeTransaction(n)
                            \/ t = ModifyMultisigAccountTransaction(n)
    BY <1>2
  <2>2. n \in Nat  OBVIOUS
  <2> QED  BY <2>1, <2>2, CountedExact DEF Exact
<1>3. CASE \E c, e, v \in Counts : t = ModifyContractTransaction(c, e, v)
  <2>1. PICK c \in Counts, e \in Counts, v \in Counts : t = ModifyContractTransaction(c, e, v)
    BY <1>3
  <2>2. c \in Nat /\ e \in Nat /\ v \in Nat  OBVIOUS
  <2> QED  BY <2>1, <2>2, ContractExact DEF Exact
<1>4. CASE \E id \in {AddressSize, BaseInt64Size}, n \in Counts, key, value \in Texts :
              t = ModifyMetadataTransaction(id, n, key, value)
  <2>1. PICK id \in {AddressSize, BaseInt64Size}, n \in Counts,
             key \in Texts, value \in Texts :
            t = ModifyMetadataTransaction(id, n, key, value)
    BY <1>4
  <2>2. n \in Nat /\ key \in Nat /\ value \in Nat  OBVIOUS
  <2> QED  BY <2>1, <2>2, MetadataExact DEF Exact
<1>5. CASE \E name \in Texts : t = RegisterNamespaceTransaction(name)
  <2>1. PICK name \in Texts : t = RegisterNamespaceTransaction(name)
    BY <1>5
  <2>2. name \in Nat  OBVIOUS
  <2> QED  BY <2>1, <2>2, NamespaceExact DEF Exact
<1>6. CASE \E nonce \in Nonces, n \in Counts : t = MosaicDefinitionTransaction(nonce, n)
  <2>1. PICK nonce \in Nonces, n \in Counts : t = MosaicDefinitionTransaction(nonce, n)
    BY <1>6
  <2>2. nonce \in Nat /\ n \in Nat  OBVIOUS
  <2>3. NonzeroScalars => nonce # 0  BY DEF NonzeroScalars
  <2> QED  BY <2>1, <2>2, <2>3, MosaicDefinitionFits
<1>7. CASE \E n \in Counts, payload \in Texts : t = TransferTransaction(n, payload)
  <2>1. PICK n \in Counts, payload \in Texts : t = TransferTransaction(n, payload)
    BY <1>7
  <2>2. n \in Nat /\ payload \in Nat  OBVIOUS
  <2>3. NonzeroScalars => (payload + 1) % ShortLimit # 0  BY DEF NonzeroScalars
  <2> QED  BY <2>1, <2>2, <2>3, TransferFits
<1>8. CASE \E c, e \in Blobs : t = NetworkConfigTransaction(c, e)
  <2>1. PICK c \in Blobs, e \in Blobs : t = NetworkConfigTransaction(c, e)
    BY <1>8
  <2>2. c \in Nat /\ e \in Nat  OBVIOUS
  <2>3. NonzeroScalars => c % ShortLimit # 0 /\ e % ShortLimit # 0  BY DEF NonzeroScalars
  <2> QED  BY <2>1, <2>2, <2>3, NetworkConfigFits
<1>9. CASE \E proof \in Blobs : t = SecretProofTransaction(proof)
  <2>1. PICK proof \in Blobs : t = SecretProofTransaction(proof)
    BY <1>9
  <2>2. proof \in Nat  OBVIOUS
  <2>3. NonzeroScalars => proof % ShortLimit # 0  BY DEF NonzeroScalars
  <2> QED  BY <2>1, <2>2, <2>3, SecretProofFits
<1> QED
  BY <1>0, <1>1, <1>2, <1>3, <1>4, <1>5, <1>6, <1>7, <1>8, <1>9

(***************************************************************************)
(* The inductive invariant.                                                *)
(***************************************************************************)

(* The serializer stays within the Size of the transaction at hand.        *)
TxInv ==
    tx # NoTx =>
        /\ tx.bytes <= tx.size
        /\ tx.maxFee = MaxFee(tx.kind, tx.size)
        /\ NonzeroScalars => tx.bytes = tx.size
        /\ NonzeroScalars /\ tx.kind = "aggregate" =>
              tx.bytes = TransactionHeaderSize + SizeSize + tx.transactionsSize

(* And within that of the inner transactions, each of which has some bytes.*)
InnerInv ==
    /\ inner.bytes <= inner.size
    /\ NonzeroScalars => inner.bytes = inner.size
    /\ inner.count > 0 => inner.bytes > 0

(* The payload is nothing, or tx followed by cosignatures, which only an   *)
(* aggregate has; signing anew with some writes the size field anew.       *)
SignedInv ==
    \/ signed = NoPayload
    \/ /\ tx # NoTx
       /\ signed.length = tx.bytes + signed.cosigners * CosignatureSize
       /\ \/ signed.sizeField = signed.length
          \/ signed.sizeField = tx.size /\ signed.cosigners = 0

IInv == TypeOK /\ TxInv /\ InnerInv /\ SignedInv

(* A fee is never above the default maximum.                               *)
LEMMA MaxFeeType ==
    ASSUME NEW kind, NEW size \in Nat
    PROVE  MaxFee(kind, size) \in 0..DefaultMaxFee
<1> DEFINE fee == size * Strategy
<1>1. fee \in Nat  BY PayloadConstants
<1>2. MaxFee(kind, size) = IF kind = "versioning" THEN 0
                           ELSE IF fee < DefaultMaxFee THEN fee ELSE DefaultMaxFee
  BY DEF MaxFee
<1>3. DefaultMaxFee \in Nat  BY SMT DEF DefaultMaxFee
<1> HIDE DEF fee
<1> QED  BY <1>1, <1>2, <1>3

(* Nothing is made yet.                                                    *)
LEMMA InitInv == Init => IInv
<1>1. MaxFee("versioning", 0) \in 0..DefaultMaxFee  BY MaxFeeType
<1>2. 0 \in 0..DefaultMaxFee  BY <1>1 DEF MaxFee
<1> QED
  BY <1>2, PayloadConstants
     DEF Init, IInv, TypeOK, TxInv, InnerInv, SignedInv, NoTx, NoInner, NoPayload

(***************************************************************************)
(* One lemma per action.                                                   *)
(***************************************************************************)

(* The transaction is as its constructor made it; nothing is signed yet.   *)
LEMMA NewInv ==
    ASSUME IInv, NEW t \in Transactions, New(t)
    PROVE  IInv'
<1>1. tx' = Single(t) /\ inner' = inner /\ signed' = signed  BY DEF New
<1>2. Within(t) /\ (NonzeroScalars => t.size = t.bytes)  BY TransactionsFit DEF Exact
<1>3. MaxFee(t.kind, t.size) \in 0..DefaultMaxFee  BY <1>2, MaxFeeType DEF Within
<1>4. TxInv'  BY <1>1, <1>2 DEF TxInv, Single, Within, MaxFee
<1>5. signed = NoPayload  BY DEF IInv, SignedInv, New
<1>6. InnerInv' /\ SignedInv'  BY <1>1, <1>5 DEF IInv, InnerInv, SignedInv, NoPayload
<1>7. TypeOK'
  BY <1>1, <1>2, <1>3, PayloadConstants DEF IInv, TypeOK, Single, Within
<1> QED  BY <1>4, <1>6, <1>7 DEF IInv

(* The inner transactions stay within their size: what is left out of t is *)
(* left out of its bytes and of its size alike, and some bytes remain.     *)
LEMMA ToAggregateInv ==
    ASSUME IInv, NEW t \in Transactions, NEW hasSigner \in BOOLEAN,
           ToAggregate(t, hasSigner)
    PROVE  IInv'
<1>1. TxInv' /\ SignedInv'
  BY DEF IInv, ToAggregate, TxInv, SignedInv, MaxFee, NoPayload, NoTx
<1>2. Within(t) /\ (NonzeroScalars => t.size = t.bytes)  BY TransactionsFit DEF Exact
<1>3. InnerInv'  BY <1>2 DEF IInv, TypeOK, ToAggregate, Within, InnerInv
<1>4. TypeOK'
  <2>1. (inner.signers /\ hasSigner) \in BOOLEAN  OBVIOUS
  <2>2. inner.count + 1 \in 0..MaxInner
    BY PayloadConstants DEF IInv, TypeOK, ToAggregate
  <2>3. /\ inner.bytes + (t.bytes - OmittedSize) \in Nat
        /\ inner.size + (t.size - OmittedSize) \in Nat
    BY <1>2 DEF IInv, TypeOK, Within
  <2> QED  BY <2>1, <2>2, <2>3 DEF IInv, TypeOK, ToAggregate
<1> QED  BY <1>1, <1>3, <1>4 DEF IInv

(* An aggregate is within its size, and exactly as long where it is not    *)
(* empty: its size field is then not the zero that the serializer shortens.*)
LEMMA NewAggregateInv ==
    ASSUME IInv, NewAggregate
    PROVE  IInv'
<1> DEFINE size == TransactionHeaderSize + SizeSize + inner.size
<1> DEFINE body == aggregateSchema(inner.bytes)
<1>1. inner.bytes \in Nat /\ inner.size \in Nat /\ inner.bytes <= inner.size
  BY DEF IInv, TypeOK, InnerInv
<1>2. body \in Nat /\ body <= 4 + inner.bytes  BY <1>1 DEF aggregateSchema, IntSize
<1>3. NonzeroScalars => body = 4 + inner.bytes /\ inner.bytes = inner.size
  BY <1>1, PayloadConstants
     DEF IInv, TypeOK, InnerInv, NewAggregate, NonzeroScalars, aggregateSchema, IntSize
<1>4. size \in Nat /\ MaxFee("aggregate", size) \in 0..DefaultMaxFee
  BY <1>1, MaxFeeType
<1>5. /\ tx' = [kind |-> "aggregate", bytes |-> TransactionHeaderSize + body,
                size |-> size, maxFee |-> MaxFee("aggregate", size),
                transactionsSize |-> inner.bytes, signers |-> inner.signers]
      /\ inner' = NoInner /\ signed' = signed
  BY DEF NewAggregate
<1>6. signed = NoPayload  BY DEF IInv, SignedInv, NewAggregate
<1> HIDE DEF size, body
<1>7. TxInv'
  <2>1. tx'.maxFee = MaxFee(tx'.kind, tx'.size)  BY <1>5
  <2>2. (tx.maxFee = MaxFee(tx.kind, tx.size))'  BY <2>1 DEF MaxFee
  <2>3. tx'.bytes <= tx'.size  BY <1>1, <1>2, <1>5 DEF size
  <2>4. NonzeroScalars =>
            /\ tx'.bytes = tx'.size
            /\ tx'.bytes = TransactionHeaderSize + SizeSize + tx'.transactionsSize
    BY <1>1, <1>3, <1>5 DEF size
  <2> QED  BY <2>2, <2>3, <2>4 DEF TxInv
<1>8. InnerInv' /\ SignedInv'  BY <1>5, <1>6 DEF InnerInv, SignedInv, NoInner, NoPayload
<1>9. TypeOK'
  BY <1>1, <1>2, <1>4, <1>5, PayloadConstants DEF IInv, TypeOK, NoInner, NoPayload
<1> QED  BY <1>7, <1>8, <1>9 DEF IInv

(* The payload is tx itself.                                               *)
LEMMA SignInv ==
    ASSUME IInv, SignTransactionWith
    PROVE  IInv'
<1>1. TxInv' /\ InnerInv'
  BY DEF IInv, SignTransactionWith, TxInv, InnerInv, MaxFee, NoTx
<1>2. TypeOK' /\ SignedInv'
  BY PayloadConstants
     DEF IInv, TypeOK, TxInv, SignTransactionWith, SignedInv, NoPayload, NoTx,
         CosignatureSize
<1> QED  BY <1>1, <1>2 DEF IInv

(* The payload is tx and the cosignatures.                                 *)
LEMMA CosignInv ==
    ASSUME IInv, NEW k \in 0..MaxCosigners, SignTransactionWithCosignatures(k)
    PROVE  IInv'
<1>1. TxInv' /\ InnerInv'
  BY DEF IInv, SignTransactionWithCosignatures, TxInv, InnerInv, MaxFee, NoTx
<1>2. TypeOK' /\ SignedInv'
  BY PayloadConstants
     DEF IInv, TypeOK, SignTransactionWithCosignatures, SignedInv, NoPayload, NoTx,
         CosignatureSize
<1> QED  BY <1>1, <1>2 DEF IInv

(* Every step keeps the invariant.                                         *)
LEMMA StepInv == IInv /\ [Next]_vars => IInv'
<1> SUFFICES ASSUME IInv, [Next]_vars PROVE IInv'  OBVIOUS
<1>1. ASSUME NEW t \in Transactions, New(t) PROVE IInv'  BY <1>1, NewInv
<1>2. ASSUME NEW t \in Transactions, NEW b \in BOOLEAN, ToAggregate(t, b) PROVE IInv'
  BY <1>2, ToAggregateInv
<1>3. CASE NewAggregate  BY <1>3, NewAggregateInv
<1>4. CASE SignTransactionWith  BY <1>4, SignInv
<1>5. ASSUME NEW k \in 0..MaxCosigners, SignTransactionWithCosignatures(k) PROVE IInv'
  BY <1>5, CosignInv
<1>6. CASE UNCHANGED vars
  BY <1>6 DEF vars, IInv, TypeOK, TxInv, InnerInv, SignedInv, MaxFee, NoPayload, NoTx
<1> QED  BY <1>1, <1>2, <1>3, <1>4, <1>5, <1>6 DEF Next

(* The fee grows with the size: it covers anything that is not longer.     *)
LEMMA FeeGrows ==
    ASSUME NEW length \in Nat, NEW size \in Nat, length <= size
    PROVE  length * Strategy <= size * Strategy
<1>1. PICK d \in Nat : size = length + d
  <2>1. size - length \in Nat /\ size = length + (size - length)  OBVIOUS
  <2> QED  BY <2>1
<1>2. size * Strategy = length * Strategy + d * Strategy  BY <1>1, PayloadConstants
<1>3. /\ length * Strategy \in Nat /\ d * Strategy \in Nat
  BY PayloadConstants
<1> DEFINE a == length * Strategy  b == d * Strategy  c == size * Strategy
<1>4. a \in Nat /\ b \in Nat /\ c = a + b  BY <1>2, <1>3
<1> HIDE DEF a, b, c
<1>5. a <= c  BY <1>4
<1> QED  BY <1>5 DEF a, c

(* The invariant gives the fee.                                            *)
LEMMA InvFee == IInv => FeeCoversPayload
<1> SUFFICES ASSUME IInv, tx.kind # "versioning", signed.cosigners = 0
    PROVE  tx.maxFee >= signed.length * Strategy \/ tx.maxFee = DefaultMaxFee
  BY DEF FeeCoversPayload
<1>1. CASE signed = NoPayload
  <2>1. signed.length = 0  BY <1>1 DEF NoPayload
  <2>2. 0 * Strategy = 0  BY PayloadConstants
  <2>3. tx.maxFee >= 0  BY DEF IInv, TypeOK
  <2> QED  BY <2>1, <2>2, <2>3
<1>2. CASE signed # NoPayload
  <2> DEFINE fee == tx.size * Strategy  cost == signed.length * Strategy
  <2>1. tx.maxFee = fee \/ tx.maxFee = DefaultMaxFee
    BY <1>2 DEF IInv, TxInv, SignedInv, MaxFee
  <2>2. /\ signed.length \in Nat /\ tx.size \in Nat /\ signed.length <= tx.size
    BY <1>2 DEF IInv, TypeOK, TxInv, SignedInv, CosignatureSize
  <2>3. cost <= fee  BY <2>2, FeeGrows
  <2>4. cost \in Nat /\ fee \in Nat  BY <2>2, PayloadConstants
  <2> HIDE DEF fee, cost
  <2>5. tx.maxFee >= cost \/ tx.maxFee = DefaultMaxFee  BY <2>1, <2>3, <2>4
  <2> QED  BY <2>5 DEF cost
<1> QED  BY <1>1, <1>2

(* It gives the exact size and the place of the cosignatures where no      *)
(* scalar is zero.                                                         *)
LEMMA InvExact == NonzeroScalars /\ IInv => SizeFieldExact /\ CosignaturesDelimited
<1> SUFFICES ASSUME NonzeroScalars, IInv PROVE SizeFieldExact /\ CosignaturesDelimited
  OBVIOUS
<1>1. SizeFieldExact
  BY DEF IInv, TypeOK, TxInv, SignedInv, SizeFieldExact, NoPayload, CosignatureSize
<1>2. CosignaturesDelimited
  BY <1>1, PayloadConstants
     DEF IInv, TypeOK, TxInv, SignedInv, SizeFieldExact, CosignaturesDelimited,
         NoPayload, NoTx, CosignatureSize
<1> QED  BY <1>1, <1>2

(***************************************************************************)
(* The theorems.                                                           *)
(***************************************************************************)

(* Type correctness: no length falls below zero where the parts that an    *)
(* inner transaction leaves out are taken off, and no fee is above the     *)
(* default maximum, whatever the lengths and the fee strategy.             *)
THEOREM TypeCorrect == Spec => []TypeOK
<1>1. IInv => TypeOK  BY DEF IInv
<1> QED  BY InitInv, StepInv, <1>1, PTL DEF Spec

(* However many inner transactions of whatever lengths an aggregate has    *)
(* and however many cosignatories sign it, its size field is its length,   *)
(* as long as no scalar field of it is zero.                               *)
THEOREM PayloadSizeExact ==
    ASSUME NonzeroScalars
    PROVE  Spec => []SizeFieldExact
<1>1. IInv => SizeFieldExact  BY InvExact
<1> QED  BY InitInv, StepInv, <1>1, PTL DEF Spec

(* The node that reads transactionsSize bytes of transactions finds the    *)
(* cosignatures behind them and nothing else.                              *)
THEOREM CosignaturesAlwaysDelimited ==
    ASSUME NonzeroScalars
    PROVE  Spec => []CosignaturesDelimited
<1>1. IInv => CosignaturesDelimited  BY InvExact
<1> QED  BY InitInv, StepInv, <1>1, PTL DEF Spec

(* A fee set when the transaction was made pays for its payload, whatever  *)
(* the fee strategy and whatever the lengths: a zero scalar only shortens  *)
(* what the serializer produces.                                           *)
THEOREM FeeAlwaysCoversPayload == Spec => []FeeCoversPayload
BY InitInv, StepInv, InvFee, PTL DEF Spec

WithinAnnounced == signed.length <= signed.sizeField

(* Zero scalars included, a payload is never longer than it announces:     *)
(* what findParam leaves out can only be missing at the end.               *)
THEOREM NeverLongerThanAnnounced == Spec => []WithinAnnounced
<1>1. IInv => WithinAnnounced
  BY DEF IInv, TypeOK, TxInv, SignedInv, NoPayload, CosignatureSize, WithinAnnounced
<1> QED  BY InitInv, StepInv, <1>1, PTL DEF Spec

=============================================================================

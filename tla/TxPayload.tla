----------------------------- MODULE TxPayload ------------------------------
(***************************************************************************)
(* Serialising and signing transactions (sdk/transaction_model.go,         *)
(* transaction_schema.go, sdk_schema.go).                                  *)
(*                                                                         *)
(* A transaction is reduced to two numbers that the code computes along    *)
(* different paths and the node compares: `size', what Size() announces in *)
(* the payload's size field (and the fee is computed from), and `bytes',   *)
(* how many bytes generateBytes produces by walking the schema over the    *)
(* flatbuffer.  One operator per schema gives the bytes after the header;  *)
(* one per transaction type gives both numbers for the lengths that vary.  *)
(*                                                                         *)
(* A signed payload carries its size field and its real length.            *)
(***************************************************************************)
EXTENDS Naturals

CONSTANTS
    Counts,        \* numbers of modifications, mosaics, properties
    Texts,         \* lengths of messages, names, metadata
    Blobs,         \* lengths of proofs and configurations
    Nonces,        \* mosaic nonces
    Strategy,      \* Config.FeeCalculationStrategy
    MinInner,      \* fewest inner transactions; the constructor accepts none
    MaxInner,      \* bound: inner transactions of an aggregate
    MaxCosigners   \* bound: cosignatories that sign at once

ASSUME PayloadConstants ==
    /\ Counts \subseteq Nat /\ Texts \subseteq Nat /\ Blobs \subseteq Nat
    /\ Nonces \subseteq Nat /\ Strategy \in Nat
    /\ MinInner \in Nat /\ MaxInner \in Nat /\ MaxCosigners \in Nat

VARIABLES
    tx,        \* the transaction that is made to be signed
    inner,     \* the inner transactions gathered for an aggregate
    signed     \* the payload signed from tx

vars == <<tx, inner, signed>>

(***************************************************************************)
(* Sizes of the fields.                                                    *)
(***************************************************************************)
AddressSize == 25
KeySize == 32
Hash256 == 32
BaseInt64Size == 8
SizeSize == 4
SignatureSize == 64
SignerSize == KeySize
TransactionHeaderSize == SizeSize + SignerSize + SignatureSize + 4 + 2 + 8 + 8

(* What an inner transaction leaves out: signature, fee and deadline.      *)
OmittedSize == SignatureSize + BaseInt64Size + BaseInt64Size

(* findParam: a scalar that is zero is not in the flatbuffer, and a single *)
(* zero byte stands for it whatever its width.  A length is cut to the     *)
(* field's width first; four bytes hold any length a flatbuffer can have.  *)
ByteSize == 1
ShortLimit == 65536
ShortSize(value) == IF value % ShortLimit = 0 THEN 1 ELSE 2
IntSize(value) == IF value = 0 THEN 1 ELSE 4

Tx(body, size) ==
    [kind |-> "plain", bytes |-> TransactionHeaderSize + body, size |-> size]

(* The two types modifyTransaction leaves without a fee.                   *)
Versioning(body, size) ==
    [kind |-> "versioning", bytes |-> TransactionHeaderSize + body, size |-> size]

(***************************************************************************)
(* The schemas: bytes after the header, as schema.serialize emits them.    *)
(***************************************************************************)
accountPropertySchema(n, value) == 1 + ByteSize + n * (1 + value)

aliasSchema(alias) == 1 + BaseInt64Size + alias

accountLinkSchema == KeySize + 1

(* Mutant: the transactions without their size.                            *)
aggregateSchemaBare(txs) == txs

aggregateSchema(txs) == IntSize(txs) + txs

networkConfigSchema(config, entities) ==
    BaseInt64Size + ShortSize(config) + ShortSize(entities) + config + entities

blockchainUpgradeSchema == BaseInt64Size + BaseInt64Size

(* n modifications, each of one key and value; the size of a value is a    *)
(* vector of two bytes, so that zero keeps them.                           *)
modifyMetadataSchema(id, n, key, value) ==
    1 + id + n * (4 + ByteSize + ByteSize + 2 + key + value)

mosaicDefinitionSchema(nonce, n) ==
    IntSize(nonce) + BaseInt64Size + 1 + 1 + 1 + n * (1 + BaseInt64Size)

mosaicSupplyChangeSchema == BaseInt64Size + 1 + BaseInt64Size

transferSchema(n, message, payload) ==
    AddressSize + ShortSize(message) + ByteSize + (1 + payload)
        + n * (BaseInt64Size + BaseInt64Size)

modifyMultisigAccountSchema(n) == 1 + 1 + ByteSize + n * (1 + KeySize)

modifyContractSchema(c, e, v) ==
    BaseInt64Size + Hash256 + ByteSize + ByteSize + ByteSize
        + (c + e + v) * (1 + KeySize)

registerNamespaceSchema(name) == 1 + BaseInt64Size + BaseInt64Size + ByteSize + name

lockFundsSchema == BaseInt64Size + BaseInt64Size + BaseInt64Size + Hash256

secretLockSchema == BaseInt64Size + BaseInt64Size + BaseInt64Size + 1 + Hash256 + AddressSize

secretProofSchema(proof) == 1 + Hash256 + AddressSize + ShortSize(proof) + proof

(***************************************************************************)
(* The transaction types: generateBytes and Size().                        *)
(***************************************************************************)
AccountPropertiesAddressTransaction(n) ==
    Tx(accountPropertySchema(n, AddressSize),
       TransactionHeaderSize + 2 + (1 + AddressSize) * n)

AccountPropertiesMosaicTransaction(n) ==
    Tx(accountPropertySchema(n, BaseInt64Size),
       TransactionHeaderSize + 2 + (1 + BaseInt64Size) * n)

AccountPropertiesEntityTypeTransaction(n) ==
    Tx(accountPropertySchema(n, 2), TransactionHeaderSize + 2 + (1 + 2) * n)

AliasTransactionSize == TransactionHeaderSize + BaseInt64Size + 1

AddressAliasTransaction == Tx(aliasSchema(AddressSize), AliasTransactionSize + AddressSize)

MosaicAliasTransaction == Tx(aliasSchema(BaseInt64Size), AliasTransactionSize + BaseInt64Size)

AccountLinkTransaction == Tx(accountLinkSchema, TransactionHeaderSize + KeySize + 1)

NetworkConfigTransaction(config, entities) ==
    Versioning(networkConfigSchema(config, entities),
       TransactionHeaderSize + BaseInt64Size + 2 + 2 + config + entities)

BlockchainUpgradeTransaction ==
    Versioning(blockchainUpgradeSchema, TransactionHeaderSize + BaseInt64Size + BaseInt64Size)

MetadataModificationsSize(n, key, value) == n * (SizeSize + 1 + 1 + 2 + key + value)

(* One type for the metadata of addresses, mosaics and namespaces.         *)
ModifyMetadataTransaction(id, n, key, value) ==
    Tx(modifyMetadataSchema(id, n, key, value),
       TransactionHeaderSize + 1 + MetadataModificationsSize(n, key, value) + id)

MosaicDefinitionTransaction(nonce, n) ==
    Tx(mosaicDefinitionSchema(nonce, n),
       TransactionHeaderSize + 4 + BaseInt64Size + 3 + n * (1 + BaseInt64Size))

MosaicSupplyChangeTransaction ==
    Tx(mosaicSupplyChangeSchema, TransactionHeaderSize + BaseInt64Size + BaseInt64Size + 1)

(* Mutant: Size counts the payload and not the message type.               *)
TransferTransactionUntyped(n, payload) ==
    Tx(transferSchema(n, payload + 1, payload),
       TransactionHeaderSize + AddressSize + 1 + 2
           + (BaseInt64Size + BaseInt64Size) * n + payload)

TransferTransaction(n, payload) ==
    LET message == payload + 1 IN
    Tx(transferSchema(n, message, payload),
       TransactionHeaderSize + AddressSize + 1 + 2
           + (BaseInt64Size + BaseInt64Size) * n + message)

ModifyMultisigAccountTransaction(n) ==
    Tx(modifyMultisigAccountSchema(n), TransactionHeaderSize + 3 + (KeySize + 1) * n)

ModifyContractTransaction(c, e, v) ==
    Tx(modifyContractSchema(c, e, v),
       TransactionHeaderSize + BaseInt64Size + Hash256 + 3 + (KeySize + 1) * (c + e + v))

RegisterNamespaceTransaction(name) ==
    Tx(registerNamespaceSchema(name),
       TransactionHeaderSize + 1 + BaseInt64Size + BaseInt64Size + 1 + name)

LockFundsTransaction ==
    Tx(lockFundsSchema,
       TransactionHeaderSize + BaseInt64Size + BaseInt64Size + BaseInt64Size + Hash256)

SecretLockTransaction ==
    Tx(secretLockSchema,
       TransactionHeaderSize + BaseInt64Size + BaseInt64Size + BaseInt64Size + 1
           + Hash256 + AddressSize)

SecretProofTransaction(proof) ==
    Tx(secretProofSchema(proof), TransactionHeaderSize + 1 + Hash256 + AddressSize + 2 + proof)

(* What the constructors accept of the lengths at hand.                    *)
Transactions ==
    {AddressAliasTransaction, MosaicAliasTransaction, AccountLinkTransaction,
     BlockchainUpgradeTransaction, MosaicSupplyChangeTransaction,
     LockFundsTransaction, SecretLockTransaction}
    \cup {AccountPropertiesAddressTransaction(n) : n \in Counts \ {0}}
    \cup {AccountPropertiesMosaicTransaction(n) : n \in Counts \ {0}}
    \cup {AccountPropertiesEntityTypeTransaction(n) : n \in Counts \ {0}}
    \cup {NetworkConfigTransaction(c, e) : c \in Blobs, e \in Blobs \ {0}}
    \cup {ModifyMetadataTransaction(id, n, key, value) :
             id \in {AddressSize, BaseInt64Size}, n \in Counts \ {0},
             key \in Texts \ {0}, value \in Texts}
    \cup {MosaicDefinitionTransaction(nonce, n) : nonce \in Nonces, n \in Counts}
    \cup {TransferTransaction(n, payload) : n \in Counts, payload \in Texts}
    \cup {ModifyMultisigAccountTransaction(n) : n \in Counts}
    \cup {ModifyContractTransaction(c, e, v) :
             c \in Counts \ {0}, e \in Counts \ {0}, v \in Counts \ {0}}
    \cup {RegisterNamespaceTransaction(name) : name \in Texts \ {0}}
    \cup {SecretProofTransaction(proof) : proof \in Blobs}

(***************************************************************************)
(* Building and signing.                                                   *)
(***************************************************************************)
DefaultMaxFee == 5000000

CosignatureSize == KeySize + SignatureSize

NoInner == [count |-> 0, bytes |-> 0, size |-> 0, signers |-> TRUE]

NoTx ==
    [kind |-> "none", bytes |-> 0, size |-> 0, maxFee |-> 0, transactionsSize |-> 0,
     signers |-> FALSE]

NoPayload == [length |-> 0, sizeField |-> 0, cosigners |-> 0]

TypeOK ==
    /\ tx \in [kind : {"none", "plain", "versioning", "aggregate"}, bytes : Nat,
              size : Nat, maxFee : 0..DefaultMaxFee, transactionsSize : Nat, signers : BOOLEAN]
    /\ inner \in [count : 0..MaxInner, bytes : Nat, size : Nat, signers : BOOLEAN]
    /\ signed \in [length : Nat, sizeField : Nat, cosigners : 0..MaxCosigners]

(* Mutant: no default maximum.                                             *)
MaxFeeUncapped(kind, size) == IF kind = "versioning" THEN 0 ELSE size * Strategy

(* modifyTransaction.                                                      *)
MaxFee(kind, size) ==
    IF kind = "versioning" THEN 0
    ELSE IF size * Strategy < DefaultMaxFee THEN size * Strategy ELSE DefaultMaxFee

(* A transaction of its own; what it needs to be signed is there.          *)
Single(t) ==
    [kind |-> t.kind, bytes |-> t.bytes, size |-> t.size,
     maxFee |-> MaxFee(t.kind, t.size), transactionsSize |-> 0, signers |-> TRUE]

(* Transactions share nothing, so that one of them, made, and signed once  *)
(* or several times, stands for any number.                                *)
Init ==
    /\ tx = NoTx
    /\ inner = NoInner
    /\ signed = NoPayload

New(t) ==
    /\ tx = NoTx /\ inner = NoInner
    /\ tx' = Single(t)
    /\ UNCHANGED <<inner, signed>>

(* A transaction joins the inner ones, as toAggregateTransactionBytes will *)
(* write it and Size will count it; one that was not given a signer makes  *)
(* generateBytes fail.  An aggregate is not put into an aggregate: the     *)
(* node knows no such thing.                                               *)
ToAggregate(t, hasSigner) ==
    /\ tx = NoTx /\ inner.count < MaxInner
    /\ inner' = [count |-> inner.count + 1,
                 bytes |-> inner.bytes + (t.bytes - OmittedSize),
                 size |-> inner.size + (t.size - OmittedSize),
                 signers |-> inner.signers /\ hasSigner]
    /\ UNCHANGED <<tx, signed>>

NewAggregate ==
    /\ tx = NoTx /\ inner.count >= MinInner
    /\ LET size == TransactionHeaderSize + SizeSize + inner.size IN
       tx' = [kind |-> "aggregate",
              bytes |-> TransactionHeaderSize + aggregateSchema(inner.bytes),
              size |-> size, maxFee |-> MaxFee("aggregate", size),
              transactionsSize |-> inner.bytes, signers |-> inner.signers]
    /\ inner' = NoInner
    /\ UNCHANGED signed

(* The payload keeps the size field generateBytes wrote.                   *)
SignTransactionWith ==
    /\ tx # NoTx
    /\ signed' = IF tx.signers
                 THEN [length |-> tx.bytes, sizeField |-> tx.size, cosigners |-> 0]
                 ELSE NoPayload
    /\ UNCHANGED <<tx, inner>>

(* Mutant: the size field stays as generateBytes wrote it.                 *)
SignWithCosignaturesStaleSize(k) ==
    /\ tx.kind = "aggregate"
    /\ signed' = IF tx.signers
                 THEN [length |-> tx.bytes + k * CosignatureSize,
                       sizeField |-> tx.size, cosigners |-> k]
                 ELSE NoPayload
    /\ UNCHANGED <<tx, inner>>

(* The cosignatures follow the payload and the size field is written anew. *)
SignTransactionWithCosignatures(k) ==
    /\ tx.kind = "aggregate"
    /\ LET length == tx.bytes + k * CosignatureSize IN
       signed' = IF tx.signers
                 THEN [length |-> length, sizeField |-> length, cosigners |-> k]
                 ELSE NoPayload
    /\ UNCHANGED <<tx, inner>>

Next ==
    \/ \E t \in Transactions : New(t)
    \/ \E t \in Transactions, hasSigner \in BOOLEAN : ToAggregate(t, hasSigner)
    \/ NewAggregate
    \/ SignTransactionWith
    \/ \E k \in 0..MaxCosigners : SignTransactionWithCosignatures(k)

Spec == Init /\ [][Next]_vars

(***************************************************************************)
(* Properties.                                                             *)
(***************************************************************************)

(* The values whose field is never a zero that the serializer shortens.    *)
NonzeroScalars ==
    /\ \A b \in Blobs : b % ShortLimit # 0
    /\ \A m \in Texts : (m + 1) % ShortLimit # 0
    /\ 0 \notin Nonces
    /\ MinInner > 0

(* Size is the "number of bytes of serialized transaction"                 *)
(* (transaction_model.go:27): what a signed payload announces as its size, *)
(* added up from the header constants and, for an aggregate, from its      *)
(* inner transactions, is how long the serializer made it.                 *)
SizeFieldExact == signed.sizeField = signed.length

(* The node finds the cosignatures of an aggregate behind as many bytes of *)
(* transactions as transactionsSize says: header, size and transactions    *)
(* leave exactly the cosignatures over.                                    *)
CosignaturesDelimited ==
    tx.kind = "aggregate" /\ signed # NoPayload =>
        signed.sizeField - (TransactionHeaderSize + SizeSize + tx.transactionsSize)
            = signed.cosigners * CosignatureSize

(* The fee was computed from Size before the transaction was serialized;   *)
(* it pays for every byte of the payload, up to the default maximum.       *)
FeeCoversPayload ==
    tx.kind # "versioning" /\ signed.cosigners = 0 =>
        \/ tx.maxFee >= signed.length * Strategy
        \/ tx.maxFee = DefaultMaxFee

=============================================================================

------------------------------ MODULE TxLayout ------------------------------
(***************************************************************************)
(* Building, aggregating and signing transactions at the level of bytes    *)
(* (sdk/transaction_model.go): what TxPayload says with two numbers is     *)
(* done here with the payload itself, cut and put together at the offsets  *)
(* the code uses.  TxLayout implements TxPayload.                          *)
(***************************************************************************)
EXTENDS TxBuffers

CONSTANTS Counts, Texts, Blobs, Nonces, Strategy, MinInner, MaxInner, MaxCosigners

ASSUME LayoutConstants ==
    /\ Counts \subseteq Nat /\ Texts \subseteq Nat /\ Blobs \subseteq Nat
    /\ Nonces \subseteq Nat /\ Strategy \in Nat
    /\ MinInner \in Nat /\ MaxInner \in Nat /\ MaxCosigners \in Nat

VARIABLES
    tx,        \* the transaction to be signed, with the bytes generateBytes makes
    inner,     \* the inner transactions gathered for an aggregate
    signed     \* what was made when tx was signed

vars == <<tx, inner, signed>>

LOCAL INSTANCE SequencesExt

(* The number in the field that begins at `offset'.                        *)
ReadNumber(bytes, offset) == Slice(bytes, offset, offset + 1)[1].v

InnerBytes == FlattenSeq([i \in 1..Len(inner) |-> inner[i].bytes])

InnerSize ==
    LET sum[i \in 0..Len(inner)] == IF i = 0 THEN 0 ELSE sum[i - 1] + inner[i].size
    IN  sum[Len(inner)]

(* The abstract specification, and the sizes of its transactions.          *)
Payload == INSTANCE TxPayload WITH
    tx <- [kind |-> tx.kind, bytes |-> tx.length, size |-> tx.size,
           maxFee |-> tx.maxFee, transactionsSize |-> tx.transactionsSize,
           signers |-> tx.signers],
    inner <- [count |-> Len(inner), bytes |-> Length(InnerBytes), size |-> InnerSize,
              signers |-> \A i \in 1..Len(inner) : inner[i].signer],
    signed <- [length |-> signed.length,
               sizeField |-> IF signed.payload = <<>> THEN 0
                             ELSE ReadNumber(signed.payload, 0),
               cosigners |-> signed.cosigners]

SizeSize == 4
SignatureSize == 64
HalfOfSignature == 32
SignerSize == 32
VersionSize == 4
TypeSize == 2
MaxFeeSize == 8
DeadLineSize == 8
TransactionHeaderSize == Payload!TransactionHeaderSize
SignedFrom == SizeSize + SignatureSize + SignerSize

Key == ByteVector(Payload!KeySize)
Hash == ByteVector(Payload!Hash256)
Address == ByteVector(Payload!AddressSize)

(***************************************************************************)
(* generateBytes of each transaction type.  Numbers that no length depends *)
(* on are 1.                                                               *)
(***************************************************************************)

(* AddSize, generateVectors and buildVectors.                              *)
Header(size) ==
    [size |-> size, signature |-> ZeroVector(SignatureSize),
     signer |-> ZeroVector(SignerSize), version |-> 1, type |-> 1,
     maxFee |-> Uint32Vector, deadline |-> Uint32Vector]

generateBytes(type, buffer, schema, values) ==
    [kind |-> type.kind, size |-> type.size,
     bytes |-> serialize(schema, Build(TransactionBuffer, Header(type.size))
                                     \o Build(buffer, values))]

AccountProperties(type, n, value) ==
    generateBytes(type, AccountPropertiesTransactionBuffer, accountPropertyTransactionSchema,
        [propertyType |-> 1, modificationCount |-> n,
         modifications |->
            UOffsetVector(n, Build(PropertyModificationBuffer,
                                   [modificationType |-> 1, value |-> value]))])

AccountPropertiesAddressTransaction(n) ==
    AccountProperties(Payload!AccountPropertiesAddressTransaction(n), n, Address)

AccountPropertiesMosaicTransaction(n) ==
    AccountProperties(Payload!AccountPropertiesMosaicTransaction(n), n, ByteVector(8))

AccountPropertiesEntityTypeTransaction(n) ==
    AccountProperties(Payload!AccountPropertiesEntityTypeTransaction(n), n, ByteVector(2))

AliasTransaction(type, aliasV) ==
    generateBytes(type, AliasTransactionBuffer, aliasTransactionSchema,
        [actionType |-> 1, namespaceId |-> Uint32Vector, aliasId |-> aliasV])

AddressAliasTransaction == AliasTransaction(Payload!AddressAliasTransaction, Address)

MosaicAliasTransaction == AliasTransaction(Payload!MosaicAliasTransaction, ByteVector(8))

AccountLinkTransaction ==
    generateBytes(Payload!AccountLinkTransaction, AccountLinkTransactionBuffer,
        accountLinkTransactionSchema, [remoteAccountKey |-> Key, linkAction |-> 1])

NetworkConfigTransaction(config, entities) ==
    generateBytes(Payload!NetworkConfigTransaction(config, entities),
        NetworkConfigTransactionBuffer, networkConfigTransactionSchema,
        [applyHeightDelta |-> Uint32Vector, networkConfigSize |-> config,
         networkConfig |-> ByteVector(config), supportedEntityVersionsSize |-> entities,
         supportedEntityVersions |-> ByteVector(entities)])

BlockchainUpgradeTransaction ==
    generateBytes(Payload!BlockchainUpgradeTransaction, BlockchainUpgradeTransactionBuffer,
        blockchainUpgradeTransactionSchema,
        [upgradePeriod |-> Uint32Vector, newBlockChainVersion |-> Uint32Vector])

(* metadataModificationArrayToBuffer.                                      *)
MetadataModifications(n, key, value) ==
    UOffsetVector(n, Build(MetadataModificationBuffer,
        [size |-> Payload!MetadataModificationsSize(1, key, value), modificationType |-> 1,
         keySize |-> key, valueSize |-> ShortVector(value), key |-> ByteVector(key),
         value |-> ByteVector(value)]))

ModifyMetadataTransaction(id, n, key, value) ==
    generateBytes(Payload!ModifyMetadataTransaction(id, n, key, value),
        ModifyMetadataTransactionBuffer, modifyMetadataTransactionSchema,
        [metadataType |-> 1, metadataId |-> ByteVector(id),
         modifications |-> MetadataModifications(n, key, value)])

(* mosaicPropertyArrayToBuffer.                                            *)
MosaicProperties(n) ==
    UOffsetVector(n, Build(MosaicPropertyBuffer,
                           [mosaicPropertyId |-> 1, value |-> Uint32Vector]))

MosaicDefinitionTransaction(nonce, n) ==
    generateBytes(Payload!MosaicDefinitionTransaction(nonce, n),
        MosaicDefinitionTransactionBuffer, mosaicDefinitionTransactionSchema,
        [mosaicNonce |-> nonce, mosaicId |-> Uint32Vector, flags |-> 1, divisibility |-> 1,
         numOptionalProperties |-> n, optionalProperties |-> MosaicProperties(n)])

MosaicSupplyChangeTransaction ==
    generateBytes(Payload!MosaicSupplyChangeTransaction,
        MosaicSupplyChangeTransactionBuffer, mosaicSupplyChangeTransactionSchema,
        [mosaicId |-> Uint32Vector, direction |-> 1, delta |-> Uint32Vector])

Transfer(n, payload, messageSize) ==
    generateBytes(Payload!TransferTransaction(n, payload), TransferTransactionBuffer,
        transferTransactionSchema,
        [recipient |-> Address, numMosaics |-> n, messageSize |-> messageSize,
         message |-> Table(Build(MessageBuffer,
                                 [type |-> 1, payload |-> ByteVector(payload)])),
         mosaics |-> UOffsetVector(n, Build(MosaicBuffer,
                                 [id |-> Uint32Vector, amount |-> Uint32Vector]))])

(* Mutant: MessageSize without the message's type.                         *)
TransferTransactionUntyped(n, payload) == Transfer(n, payload, payload)

TransferTransaction(n, payload) == Transfer(n, payload, payload + 1)

(* cosignatoryModificationArrayToBuffer.                                   *)
Members(n) ==
    UOffsetVector(n, Build(CosignatoryModificationBuffer,
                           [type |-> 1, cosignatoryPublicKey |-> Key]))

ModifyMultisigAccountTransaction(n) ==
    generateBytes(Payload!ModifyMultisigAccountTransaction(n),
        ModifyMultisigAccountTransactionBuffer, modifyMultisigAccountTransactionSchema,
        [minRemovalDelta |-> 1, minApprovalDelta |-> 1, numModifications |-> n,
         modifications |-> Members(n)])

ModifyContractTransaction(c, e, v) ==
    generateBytes(Payload!ModifyContractTransaction(c, e, v),
        ModifyContractTransactionBuffer, modifyContractTransactionSchema,
        [durationDelta |-> Uint32Vector, hash |-> Hash, numCustomers |-> c,
         numExecutors |-> e, numVerifiers |-> v, customers |-> Members(c),
         executors |-> Members(e), verifiers |-> Members(v)])

RegisterNamespaceTransaction(name) ==
    generateBytes(Payload!RegisterNamespaceTransaction(name),
        RegisterNamespaceTransactionBuffer, registerNamespaceTransactionSchema,
        [namespaceType |-> 1, durationParentId |-> Uint32Vector,
         namespaceId |-> Uint32Vector, namespaceNameSize |-> name,
         namespaceName |-> ByteVector(name)])

LockFundsTransaction ==
    generateBytes(Payload!LockFundsTransaction, LockFundsTransactionBuffer,
        lockFundsTransactionSchema,
        [mosaicId |-> Uint32Vector, mosaicAmount |-> Uint32Vector,
         duration |-> Uint32Vector, hash |-> Hash])

SecretLockTransaction ==
    generateBytes(Payload!SecretLockTransaction, SecretLockTransactionBuffer,
        secretLockTransactionSchema,
        [mosaicId |-> Uint32Vector, mosaicAmount |-> Uint32Vector,
         duration |-> Uint32Vector, hashAlgorithm |-> 1, secret |-> Hash,
         recipient |-> Address])

SecretProofTransaction(proof) ==
    generateBytes(Payload!SecretProofTransaction(proof), SecretProofTransactionBuffer,
        secretProofTransactionSchema,
        [hashAlgorithm |-> 1, secret |-> Hash, recipient |-> Address,
         proofSize |-> proof, proof |-> ByteVector(proof)])

AggregateTransaction(bytes) ==
    generateBytes([kind |-> "aggregate",
                   size |-> TransactionHeaderSize + SizeSize + InnerSize],
        AggregateTransactionBuffer, aggregateTransactionSchema,
        [transactionsSize |-> Length(bytes), transactions |-> BytesVector(bytes)])

Transactions ==
    {AddressAliasTransaction, MosaicAliasTransaction, AccountLinkTransaction,
     BlockchainUpgradeTransaction, MosaicSupplyChangeTransaction,
     LockFundsTransaction, SecretLockTransaction}
    \cup {AccountPropertiesAddressTransaction(n) : n \in Counts \ {0}}
    \cup {AccountPropertiesMosaicTransaction(n) : n \in Counts \ {0}}
    \cup {AccountPropertiesEntityTypeTransaction(n) : n \in Counts \ {0}}
    \cup {NetworkConfigTransaction(c, e) : c \in Blobs, e \in Blobs \ {0}}
    \cup {ModifyMetadataTransaction(id, n, key, value) :
             id \in {Payload!AddressSize, Payload!BaseInt64Size}, n \in Counts \ {0},
             key \in Texts \ {0}, value \in Texts}
    \cup {MosaicDefinitionTransaction(nonce, n) : nonce \in Nonces, n \in Counts}
    \cup {TransferTransaction(n, payload) : n \in Counts, payload \in Texts}
    \cup {ModifyMultisigAccountTransaction(n) : n \in Counts}
    \cup {ModifyContractTransaction(c, e, v) :
             c \in Counts \ {0}, e \in Counts \ {0}, v \in Counts \ {0}}
    \cup {RegisterNamespaceTransaction(name) : name \in Texts \ {0}}
    \cup {SecretProofTransaction(proof) : proof \in Blobs}

(***************************************************************************)
(* Building and signing.                                                   *)
(***************************************************************************)
NoPayload ==
    [payload |-> <<>>, length |-> 0, signing |-> <<>>, hashing |-> <<>>,
     generation |-> <<>>, cosigners |-> 0]

Written(field, n, v) == Segment(field, n, v, <<>>)

(* The generation hash of the account's network, when it has one.          *)
GenerationHash(has) == IF has THEN <<Written("generationHash", 32, 1)>> ELSE <<>>

Owned(bytes, i) == [k \in 1..Len(bytes) |-> [bytes[k] EXCEPT !.owner = i]]

(* A transaction of its own; what it needs to be signed is there.          *)
Single(t) ==
    [kind |-> t.kind, bytes |-> t.bytes, length |-> Length(t.bytes), size |-> t.size,
     maxFee |-> Payload!MaxFee(t.kind, t.size), transactionsSize |-> 0, signers |-> TRUE]

NoTx ==
    [kind |-> "none", bytes |-> <<>>, length |-> 0, size |-> 0, maxFee |-> 0,
     transactionsSize |-> 0, signers |-> FALSE]

Init ==
    /\ tx = NoTx
    /\ inner = <<>>
    /\ signed = NoPayload

New(t) ==
    /\ tx = NoTx /\ inner = <<>>
    /\ tx' = Single(t)
    /\ UNCHANGED <<inner, signed>>

(* Mutant: the size field is copied with the rest.                         *)
toAggregateOwnSize(b) ==
    Slice(b, 0, SizeSize)
        \o <<Written("signer", SignerSize, 1)>>
        \o Slice(b, SignedFrom, SignedFrom + VersionSize + TypeSize)
        \o Slice(b, TransactionHeaderSize, Length(b))

(* Mutant: the header is taken to end one byte earlier.                    *)
toAggregateShortHeader(b) ==
    <<Written("size", SizeSize, Length(b) - SignatureSize - MaxFeeSize - DeadLineSize)>>
        \o <<Written("signer", SignerSize, 1)>>
        \o Slice(b, SignedFrom, SignedFrom + VersionSize + TypeSize)
        \o Slice(b, TransactionHeaderSize - 1, Length(b) - 1)

(* Size, signer, version, type and what follows the header; the size is    *)
(* written anew.                                                           *)
toAggregateTransactionBytes(b) ==
    <<Written("size", SizeSize, Length(b) - SignatureSize - MaxFeeSize - DeadLineSize)>>
        \o <<Written("signer", SignerSize, 1)>>
        \o Slice(b, SignedFrom, SignedFrom + VersionSize + TypeSize)
        \o Slice(b, TransactionHeaderSize, Length(b))

ToAggregate(t, hasSigner) ==
    /\ tx = NoTx /\ Len(inner) < MaxInner
    /\ LET bytes == toAggregateTransactionBytes(t.bytes) IN
       inner' = Append(inner,
          [bytes |-> Owned(bytes, Len(inner) + 1),
           size |-> t.size - SignatureSize - MaxFeeSize - DeadLineSize, signer |-> hasSigner])
    /\ UNCHANGED <<tx, signed>>

NewAggregate ==
    /\ tx = NoTx /\ Len(inner) >= MinInner
    /\ LET t == AggregateTransaction(InnerBytes) IN
       tx' = [kind |-> t.kind, bytes |-> t.bytes, length |-> Length(t.bytes),
              size |-> t.size, maxFee |-> Payload!MaxFee(t.kind, t.size),
              transactionsSize |-> Length(InnerBytes),
              signers |-> \A i \in 1..Len(inner) : inner[i].signer]
    /\ inner' = <<>>
    /\ UNCHANGED signed

(* What the hash of a payload is computed from.                            *)
createTransactionHash(p, generation) ==
    Slice(p, SizeSize, SizeSize + HalfOfSignature)
        \o Slice(p, SizeSize + SignatureSize, SignedFrom)
        \o generation
        \o Slice(p, SignedFrom, Length(p))

(* Mutant: the placeholder of the signer is signed as well.                *)
signFromSigner(b, generation) ==
    LET p == Slice(b, 0, SizeSize)
                 \o <<Written("signature", SignatureSize, 1), Written("signer", SignerSize, 1)>>
                 \o Slice(b, SignedFrom, Length(b))
    IN  [payload |-> p, length |-> Length(p), generation |-> generation, cosigners |-> 0,
         signing |-> generation \o Slice(b, SizeSize + SignatureSize, Length(b)),
         hashing |-> createTransactionHash(p, generation)]

(* Everything behind the signer is signed; signature and signer take the   *)
(* place kept for them.                                                    *)
signTransactionWith(b, generation) ==
    LET p == Slice(b, 0, SizeSize)
                 \o <<Written("signature", SignatureSize, 1), Written("signer", SignerSize, 1)>>
                 \o Slice(b, SignedFrom, Length(b))
    IN  [payload |-> p, length |-> Length(p), generation |-> generation, cosigners |-> 0,
         signing |-> generation \o Slice(b, SignedFrom, Length(b)),
         hashing |-> createTransactionHash(p, generation)]

(* Signing changes nothing of the transaction, so that one signature       *)
(* stands for any number.                                                  *)
SignTransactionWith(has) ==
    /\ tx # NoTx /\ signed = NoPayload
    /\ signed' = IF tx.signers THEN signTransactionWith(tx.bytes, GenerationHash(has))
                 ELSE NoPayload
    /\ UNCHANGED <<tx, inner>>

Cosignature == <<Written("cosigner", SignerSize, 1), Written("cosignature", SignatureSize, 1)>>

(* The cosignatories sign the hash; their signatures follow the payload    *)
(* and the size field is written anew.                                     *)
signTransactionWithCosignatures(b, generation, k) ==
    LET stx == signTransactionWith(b, generation)
        pb == stx.payload \o FlattenSeq([i \in 1..k |-> Cosignature])
    IN  [stx EXCEPT !.length = Length(pb),
                    !.payload = <<Written("size", SizeSize, Length(pb))>>
                                    \o Slice(pb, SizeSize, Length(pb)),
                    !.cosigners = k]

SignTransactionWithCosignatures(has, k) ==
    /\ tx.kind = "aggregate" /\ signed = NoPayload
    /\ signed' = IF tx.signers
                 THEN signTransactionWithCosignatures(tx.bytes, GenerationHash(has), k)
                 ELSE NoPayload
    /\ UNCHANGED <<tx, inner>>

Next ==
    \/ \E t \in Transactions : New(t)
    \/ \E t \in Transactions, hasSigner \in BOOLEAN : ToAggregate(t, hasSigner)
    \/ NewAggregate
    \/ \E has \in BOOLEAN : SignTransactionWith(has)
    \/ \E has \in BOOLEAN, k \in 0..MaxCosigners : SignTransactionWithCosignatures(has, k)

Spec == Init /\ [][Next]_vars

(***************************************************************************)
(* Properties.                                                             *)
(***************************************************************************)

(* The bytes put together at fixed offsets are as many as the sum over the *)
(* schema (TxPayload) says, for every transaction, inner transaction and   *)
(* signed payload: builders, schemas and the copying of slices implement   *)
(* the arithmetic that SizeFieldExact is proved of.                        *)
PayloadSpec == Payload!Spec

(* What the account signed and the hash it announces, which cosignatories  *)
(* sign too, are what the node computes from the payload it is sent,       *)
(* cosignatures and rewritten size field notwithstanding.                  *)
Verifiable ==
    signed # NoPayload =>
        LET p == signed.payload
            body == Slice(p, 0, Length(p) - signed.cosigners * Length(Cosignature))
        IN  /\ signed.signing = signed.generation \o Slice(body, SignedFrom, Length(body))
            /\ signed.hashing = createTransactionHash(body, signed.generation)

(* No field of a signed payload is cut or overwritten in part by the       *)
(* offsets at which headers and inner transactions are taken apart, and no *)
(* place kept for a signature or a signer is left empty.                   *)
FieldsWhole ==
    \A i \in 1..Len(signed.payload) :
        LET seg == signed.payload[i] IN
        /\ seg.from = 0 /\ seg.n = seg.whole
        /\ seg.field \in {"signature", "signer"} => seg.v # 0

(* Which field announces how many entries or bytes of which other field,   *)
(* and the number at which it wraps.                                       *)
Announcements ==
    {<<"modificationCount", "modifications", 256>>, <<"numModifications", "modifications", 256>>,
     <<"numOptionalProperties", "optionalProperties", 256>>, <<"numMosaics", "mosaics", 256>>,
     <<"numCustomers", "customers", 256>>, <<"numExecutors", "executors", 256>>,
     <<"numVerifiers", "verifiers", 256>>, <<"namespaceNameSize", "namespaceName", 256>>,
     <<"messageSize", "message", 65536>>, <<"proofSize", "proof", 65536>>,
     <<"networkConfigSize", "networkConfig", 65536>>,
     <<"supportedEntityVersionsSize", "supportedEntityVersions", 65536>>,
     <<"keySize", "key", 256>>, <<"valueSize", "value", 65536>>}

(* The counts in `bytes' are those of the entries beside them.             *)
Counted(bytes) ==
    \A i \in 1..Len(bytes), a \in Announcements :
        bytes[i].field = a[1] =>
            LET entries == {k \in 1..Len(bytes) : /\ bytes[k].field = a[2]
                                                  /\ bytes[k].owner = bytes[i].owner}
            IN  bytes[i].v = IF entries = {} THEN 0
                             ELSE bytes[CHOOSE k \in entries : TRUE].v % a[3]

(* A node reads the entries of a payload by the counts that precede them:  *)
(* each is the number of entries or bytes that do follow, modulo what its  *)
(* field can hold, and a metadata modification is as long as it says.  So  *)
(* 256 mosaics are announced as none (transaction_model.go:2090), the      *)
(* entries being there all the same.                                       *)
CountsAnnounced ==
    /\ Counted(signed.payload)
    /\ \A i \in 1..Len(signed.payload) :
          LET each == signed.payload[i].each IN
          each # <<>> =>
              /\ Counted(Nonempty(each))
              /\ each[1].field = "size" => each[1].v = Length(each)

(* A node that walks an aggregate from size field to size field, starting  *)
(* behind transactionsSize, meets every inner transaction at its beginning *)
(* and ends where transactionsSize says, also when a zero has shortened an *)
(* inner transaction: its size field is written from its real length.      *)
InnerDelimited ==
    tx.kind = "aggregate" /\ signed # NoPayload =>
        LET p == signed.payload
            sizes == {i \in 1..Len(p) : p[i].field = "size" /\ p[i].owner > 0}
            start(i) == Starts(p)[i]
            first == TransactionHeaderSize + SizeSize
            last == first + ReadNumber(p, TransactionHeaderSize)
        IN  {start(i) : i \in sizes} \cup {last}
                = {first} \cup {start(i) + p[i].v : i \in sizes}

=============================================================================

----------------------------- MODULE TxBuffers ------------------------------
(***************************************************************************)
(* From a transaction to its bytes: the flatbuffer builders (transactions/ *)
(* *_buffer.go) that generateBytes fills, and the schemas                  *)
(* (sdk/transaction_schema.go, sdk_schema.go) that are walked over the     *)
(* finished buffer.  The two agree only by their order: the attribute in   *)
(* position i of a schema reads whatever the builder put in slot i, with   *)
(* the width the schema believes it has.                                   *)
(*                                                                         *)
(* Bytes are kept as a sequence of segments, one per field, each with its  *)
(* length and with the number it holds, so that a field of 65536 bytes     *)
(* costs no more than one of 1 byte.                                       *)
(***************************************************************************)
EXTENDS Naturals, Sequences, FiniteSets

LOCAL INSTANCE SequencesExt

(***************************************************************************)
(* Segments.                                                               *)
(***************************************************************************)

(* n bytes, of a field of `whole' bytes starting at its byte `from'.  The  *)
(* number it holds is v: a scalar's value, a vector's length.  `each' are  *)
(* the segments of one element when the field is made of tables, `owner'   *)
(* the inner transaction it belongs to, or 0.                              *)
Segment(field, n, v, each) ==
    [field |-> field, n |-> n, from |-> 0, whole |-> n, v |-> v, each |-> each, owner |-> 0]

(* Op of a value that TLC computes once, however often Op uses it.         *)
Once(value, Op(_)) == CHOOSE result \in {Op(v) : v \in {value}} : TRUE

(* Where each segment starts, and the end.                                 *)
Starts(bytes) ==
    LET end[i \in 0..Len(bytes)] == IF i = 0 THEN 0 ELSE end[i - 1] + bytes[i].n
    IN  [i \in 1..Len(bytes) + 1 |-> end[i - 1]]

Length(bytes) == Once(bytes, LAMBDA b : Starts(b)[Len(b) + 1])

(* Without the fields that have no bytes.                                  *)
Nonempty(bytes) ==
    Once(bytes, LAMBDA whole :
        LET kept[i \in 0..Len(whole)] ==
                IF i = 0 THEN <<>>
                ELSE IF whole[i].n > 0 THEN Append(kept[i - 1], whole[i]) ELSE kept[i - 1]
        IN  kept[Len(whole)])

(* What lies between a and b of a segment that starts at `start'.          *)
Cut(seg, start, a, b) ==
    LET low == IF a > start THEN a ELSE start
        high == IF b < start + seg.n THEN b ELSE start + seg.n
    IN  [seg EXCEPT !.n = IF low < high THEN high - low ELSE 0,
                    !.from = @ + (low - start)]

(* bytes[a:b]: all but what ends before a and what starts after b.         *)
Slice(bytes, a, b) ==
    Once(bytes, LAMBDA whole : Once(Starts(whole), LAMBDA starts :
        SubSeq([i \in 1..Len(whole) |-> Cut(whole[i], starts[i], a, b)],
               Cardinality({i \in 1..Len(whole) : starts[i + 1] <= a}) + 1,
               Cardinality({i \in 1..Len(whole) : starts[i] < b}))))

(***************************************************************************)
(* What a slot can hold: a number, or the offset of one of these.          *)
(***************************************************************************)
Object(elements, v, content, table) ==
    [elements |-> elements, v |-> v, content |-> content, table |-> table]

ByteVector(n) == Object(n, n, <<>>, <<>>)

(* Two bytes that hold a number whatever it is.                            *)
ShortVector(v) == Object(2, v % 65536, <<>>, <<>>)

(* make([]byte, n): a place kept for something that is written later.      *)
ZeroVector(n) == Object(n, 0, <<>>, <<>>)

(* A number of 64 bits is a vector of two of 32.                           *)
Uint32Vector == Object(2, 1, <<>>, <<>>)

BytesVector(bytes) == Object(Length(bytes), Length(bytes), bytes, <<>>)

Table(table) == Object(1, 1, <<>>, table)

UOffsetVector(n, table) == Object(n, n, <<>>, table)

(***************************************************************************)
(* The builders: the slots of each table, in order.                        *)
(***************************************************************************)
Byte(name) == [name |-> name, width |-> 1]
Uint16(name) == [name |-> name, width |-> 2]
Uint32(name) == [name |-> name, width |-> 4]
UOffsetT(name) == [name |-> name, width |-> 0]

TransactionBuffer ==
    <<Uint32("size"), UOffsetT("signature"), UOffsetT("signer"), Uint32("version"),
      Uint16("type"), UOffsetT("maxFee"), UOffsetT("deadline")>>

(* From here on what follows those seven in the table of a transaction,   *)
(* and the tables that are put into one.                                   *)
AccountLinkTransactionBuffer == <<UOffsetT("remoteAccountKey"), Byte("linkAction")>>

PropertyModificationBuffer == <<Byte("modificationType"), UOffsetT("value")>>

AccountPropertiesTransactionBuffer ==
    <<Byte("propertyType"), Byte("modificationCount"), UOffsetT("modifications")>>

AggregateTransactionBuffer == <<Uint32("transactionsSize"), UOffsetT("transactions")>>

AliasTransactionBuffer ==
    <<Byte("actionType"), UOffsetT("namespaceId"), UOffsetT("aliasId")>>

BlockchainUpgradeTransactionBuffer ==
    <<UOffsetT("upgradePeriod"), UOffsetT("newBlockChainVersion")>>

CosignatoryModificationBuffer == <<Byte("type"), UOffsetT("cosignatoryPublicKey")>>

LockFundsTransactionBuffer ==
    <<UOffsetT("mosaicId"), UOffsetT("mosaicAmount"), UOffsetT("duration"),
      UOffsetT("hash")>>

MessageBuffer == <<Byte("type"), UOffsetT("payload")>>

ModifyContractTransactionBuffer ==
    <<UOffsetT("durationDelta"), UOffsetT("hash"), Byte("numCustomers"),
      Byte("numExecutors"), Byte("numVerifiers"), UOffsetT("customers"),
      UOffsetT("executors"), UOffsetT("verifiers")>>

MetadataModificationBuffer ==
    <<Uint32("size"), Byte("modificationType"), Byte("keySize"), UOffsetT("valueSize"),
      UOffsetT("key"), UOffsetT("value")>>

ModifyMetadataTransactionBuffer ==
    <<Byte("metadataType"), UOffsetT("metadataId"), UOffsetT("modifications")>>

ModifyMultisigAccountTransactionBuffer ==
    <<Byte("minRemovalDelta"), Byte("minApprovalDelta"), Byte("numModifications"),
      UOffsetT("modifications")>>

MosaicBuffer == <<UOffsetT("id"), UOffsetT("amount")>>

MosaicPropertyBuffer == <<Byte("mosaicPropertyId"), UOffsetT("value")>>

MosaicDefinitionTransactionBuffer ==
    <<Uint32("mosaicNonce"), UOffsetT("mosaicId"), Byte("numOptionalProperties"),
      Byte("flags"), Byte("divisibility"), UOffsetT("optionalProperties")>>

MosaicSupplyChangeTransactionBuffer ==
    <<UOffsetT("mosaicId"), Byte("direction"), UOffsetT("delta")>>

NetworkConfigTransactionBuffer ==
    <<UOffsetT("applyHeightDelta"), Uint16("networkConfigSize"),
      Uint16("supportedEntityVersionsSize"), UOffsetT("networkConfig"),
      UOffsetT("supportedEntityVersions")>>

RegisterNamespaceTransactionBuffer ==
    <<Byte("namespaceType"), UOffsetT("durationParentId"), UOffsetT("namespaceId"),
      Byte("namespaceNameSize"), UOffsetT("namespaceName")>>

SecretLockTransactionBuffer ==
    <<UOffsetT("mosaicId"), UOffsetT("mosaicAmount"), UOffsetT("duration"),
      Byte("hashAlgorithm"), UOffsetT("secret"), UOffsetT("recipient")>>

SecretProofTransactionBuffer ==
    <<Byte("hashAlgorithm"), UOffsetT("secret"), UOffsetT("recipient"),
      Uint16("proofSize"), UOffsetT("proof")>>

TransferTransactionBuffer ==
    <<UOffsetT("recipient"), Uint16("messageSize"), Byte("numMosaics"),
      UOffsetT("message"), UOffsetT("mosaics")>>

(* A finished table: every slot holds what was added under its name; a     *)
(* number is cut to the slot's width (four bytes hold any length).         *)
Build(buffer, values) ==
    LET inline(slot) ==
            CASE slot.width = 0 -> 0
              [] slot.width = 1 -> values[slot.name] % 256
              [] slot.width = 2 -> values[slot.name] % 65536
              [] slot.width = 4 -> values[slot.name]
        object(slot) == IF slot.width = 0 THEN values[slot.name] ELSE ZeroVector(0)
    IN  [i \in 1..Len(buffer) |->
            [name |-> buffer[i].name, inline |-> inline(buffer[i]),
             object |-> object(buffer[i])]]

(***************************************************************************)
(* The schemas.                                                            *)
(***************************************************************************)
Attribute(kind, size, schema) == [kind |-> kind, size |-> size, schema |-> schema]

scalarAttribute(size) == Attribute("scalar", size, <<>>)
arrayAttribute(size) == Attribute("array", size, <<>>)
tableAttribute(schema) == Attribute("table", 0, schema)
tableArrayAttribute(schema) == Attribute("tableArray", 0, schema)

ByteSize == 1
ShortSize == 2
IntSize == 4

(* The attributes every schema begins with.                                *)
headerSchema ==
    <<scalarAttribute(IntSize), arrayAttribute(ByteSize), arrayAttribute(ByteSize),
      scalarAttribute(IntSize), scalarAttribute(ShortSize), arrayAttribute(IntSize),
      arrayAttribute(IntSize)>>

(* A byte and a vector of bytes: modifications of properties and members.  *)
typedValueSchema == <<scalarAttribute(ByteSize), arrayAttribute(ByteSize)>>

accountLinkTransactionSchema ==
    headerSchema \o <<arrayAttribute(ByteSize), scalarAttribute(ByteSize)>>

accountPropertyTransactionSchema ==
    headerSchema \o <<scalarAttribute(ByteSize), scalarAttribute(ByteSize),
                      tableArrayAttribute(typedValueSchema)>>

aliasTransactionSchema ==
    headerSchema \o <<scalarAttribute(ByteSize), arrayAttribute(IntSize),
                      arrayAttribute(ByteSize)>>

aggregateTransactionSchema ==
    headerSchema \o <<scalarAttribute(IntSize), arrayAttribute(ByteSize)>>

networkConfigTransactionSchema ==
    headerSchema \o <<arrayAttribute(IntSize), scalarAttribute(ShortSize),
                      scalarAttribute(ShortSize), arrayAttribute(ByteSize),
                      arrayAttribute(ByteSize)>>

blockchainUpgradeTransactionSchema ==
    headerSchema \o <<arrayAttribute(IntSize), arrayAttribute(IntSize)>>

modifyMetadataTransactionSchema ==
    headerSchema
        \o <<scalarAttribute(ByteSize), arrayAttribute(ByteSize),
             tableArrayAttribute(
                 <<scalarAttribute(IntSize), scalarAttribute(ByteSize),
                   scalarAttribute(ByteSize), arrayAttribute(ByteSize),
                   arrayAttribute(ByteSize), arrayAttribute(ByteSize)>>)>>

mosaicDefinitionTransactionSchema ==
    headerSchema
        \o <<scalarAttribute(IntSize), arrayAttribute(IntSize), scalarAttribute(ByteSize),
             scalarAttribute(ByteSize), scalarAttribute(ByteSize),
             tableArrayAttribute(<<scalarAttribute(ByteSize), arrayAttribute(IntSize)>>)>>

mosaicSupplyChangeTransactionSchema ==
    headerSchema \o <<arrayAttribute(IntSize), scalarAttribute(ByteSize),
                      arrayAttribute(IntSize)>>

transferTransactionSchema ==
    headerSchema
        \o <<arrayAttribute(ByteSize), scalarAttribute(ShortSize), scalarAttribute(ByteSize),
             tableAttribute(typedValueSchema),
             tableArrayAttribute(<<arrayAttribute(IntSize), arrayAttribute(IntSize)>>)>>

modifyMultisigAccountTransactionSchema ==
    headerSchema
        \o <<scalarAttribute(ByteSize), scalarAttribute(ByteSize), scalarAttribute(ByteSize),
             tableArrayAttribute(typedValueSchema)>>

modifyContractTransactionSchema ==
    headerSchema
        \o <<arrayAttribute(IntSize), arrayAttribute(ByteSize), scalarAttribute(ByteSize),
             scalarAttribute(ByteSize), scalarAttribute(ByteSize),
             tableArrayAttribute(typedValueSchema), tableArrayAttribute(typedValueSchema),
             tableArrayAttribute(typedValueSchema)>>

registerNamespaceTransactionSchema ==
    headerSchema
        \o <<scalarAttribute(ByteSize), arrayAttribute(IntSize), arrayAttribute(IntSize),
             scalarAttribute(ByteSize), arrayAttribute(ByteSize)>>

lockFundsTransactionSchema ==
    headerSchema
        \o <<arrayAttribute(IntSize), arrayAttribute(IntSize), arrayAttribute(IntSize),
             arrayAttribute(ByteSize)>>

secretLockTransactionSchema ==
    headerSchema
        \o <<arrayAttribute(IntSize), arrayAttribute(IntSize), arrayAttribute(IntSize),
             scalarAttribute(ByteSize), arrayAttribute(ByteSize), arrayAttribute(ByteSize)>>

secretProofTransactionSchema ==
    headerSchema
        \o <<scalarAttribute(ByteSize), arrayAttribute(ByteSize), arrayAttribute(ByteSize),
             scalarAttribute(ShortSize), arrayAttribute(ByteSize)>>

(***************************************************************************)
(* serialize.                                                              *)
(***************************************************************************)

(* Mutant: a number that is not in the buffer keeps its width.             *)
findParamPadded(slot, size) == <<Segment(slot.name, size, slot.inline, <<>>)>>

(* A number that is zero is not in the buffer; one zero byte stands for    *)
(* it, whatever the size.                                                  *)
findParam(slot, size) ==
    <<Segment(slot.name, IF slot.inline = 0 THEN 1 ELSE size, slot.inline, <<>>)>>

(* `size' bytes for each element.  No vector is ever missing from a slot.  *)
findVector(slot, size) ==
    IF slot.object.content # <<>> THEN slot.object.content
    ELSE <<Segment(slot.name, slot.object.elements * size, slot.object.v, <<>>)>>

serializeAttribute(attribute, slot) ==
    IF attribute.kind = "scalar" THEN findParam(slot, attribute.size)
    ELSE findVector(slot, attribute.size)

serializeFlat(schema, table) ==
    FlattenSeq([i \in 1..Len(schema) |-> serializeAttribute(schema[i], table[i])])

(* A table is one segment of its fields; an array of tables one segment    *)
(* for all of its elements.                                                *)
serializeTables(slot, attribute) ==
    LET each == serializeFlat(attribute.schema, slot.object.table)
        n == slot.object.elements * Length(each)
    IN  <<Segment(slot.name, n,
                  IF attribute.kind = "table" THEN n ELSE slot.object.elements, each)>>

serialize(schema, table) ==
    Nonempty(FlattenSeq([i \in 1..Len(schema) |->
        IF schema[i].kind \in {"table", "tableArray"} THEN serializeTables(table[i], schema[i])
        ELSE serializeAttribute(schema[i], table[i])]))

=============================================================================
